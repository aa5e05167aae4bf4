--------------------------- MODULE PlanEstimates ---------------------------
(***************************************************************************)
(* What the passes and the provider adapters ask about a plan: its context *)
(* ledger, its tokens, its cost, whether it meets its constraints, and     *)
(* what a provider is able to do (packages/runtime: context-ledger.ts,     *)
(* token-estimation.ts, cost-estimation.ts, constraints.ts; packages/      *)
(* providers: contracts.ts, fixtures.ts).                                  *)
(*                                                                         *)
(* An id of a block or a node is a natural number, and localeCompare is    *)
(* the order of the numbers.  Blank is a string of white space only.       *)
(* Costs are in half dollars per million tokens, so that every rate of the *)
(* fixtures is a whole number and roundUsd changes nothing.  Versions,     *)
(* limitations, citations and messages are left out.                       *)
(***************************************************************************)
EXTENDS MirValidation

CONSTANT Blank

\* An amount the code leaves undefined; the known ones are never negative.
Unknown == -1

Has(object, key) == key \in DOMAIN object

\* The amounts of a sequence of estimates, added up.
Total(items, Amount(_)) == FoldLeft(LAMBDA sum, item : sum + Amount(item), 0, items)

\* A Map built from a list: the last entry with a key is the one that counts.
LastWith(items, Matches(_)) ==
  LET found == {i \in DOMAIN items : Matches(items[i])}
  IN IF found = {} THEN <<>> ELSE <<items[CHOOSE i \in found : \A j \in found : j <= i]>>

\* A Set built from a list: the items without the ones already seen, in order.
Distinct(items) ==
  LET IsSeen(i) == \E j \in 1 .. i - 1 : items[j] = items[i]
  IN FlattenSeq([i \in DOMAIN items |-> IF IsSeen(i) THEN <<>> ELSE <<items[i]>>])

-----------------------------------------------------------------------------
(***************************************************************************)
(* context-ledger.ts                                                       *)
(***************************************************************************)

\* The blocks in the order of their ids; sort is stable.
LedgerOrder(blocks) ==
  LET IsBefore(i, j) == blocks[i].id < blocks[j].id \/ (blocks[i].id = blocks[j].id /\ i < j)
      Place(i) == Cardinality({j \in DOMAIN blocks : IsBefore(j, i)}) + 1
  IN [n \in DOMAIN blocks |-> blocks[CHOOSE i \in DOMAIN blocks : Place(i) = n]]

\* byId: the first block with the id, if there is one.
LedgerById(all, id) ==
  LET at == SelectInSeq(all, LAMBDA b : b.id = id) IN IF at = 0 THEN <<>> ELSE <<all[at]>>

IsUnsafeMutability(block) ==
  /\ block.role \in {"developer_instruction", "system_instruction", "user_input"}
  /\ block.mutability # "fixed"

\* The diagnostics of the constructor, block by block.
LedgerDiagnostics(all) ==
  LET Report(code, id, holds) == IF holds THEN <<[code |-> code, contextId |-> id]>> ELSE <<>>
      Of(i) == Report("duplicate_id", all[i].id, \E j \in 1..(i - 1) : all[j].id = all[i].id)
                 \o Report("missing_content_ref", all[i].id, all[i].contentRef = Blank)
                 \o Report("unsafe_mutability", all[i].id, IsUnsafeMutability(all[i]))
  IN FlattenSeq([i \in DOMAIN all |-> Of(i)])

-----------------------------------------------------------------------------
(***************************************************************************)
(* token-estimation.ts.  A text is known by its number of tokens: content  *)
(* maps the content references whose text is at hand to that number.       *)
(***************************************************************************)

\* The text's tokens, else a usable declared estimate, else none.
BlockTokens(block, content) ==
  LET declared == Get(block, "tokenEstimate", Unknown)
  IN CASE block.contentRef \in DOMAIN content ->
            [contextId |-> block.id, tokens |-> content[block.contentRef],
             source |-> "fixture_content"]
       [] block.contentRef \notin DOMAIN content /\ declared \in Nat ->
            [contextId |-> block.id, tokens |-> declared, source |-> "mir_context_token_estimate"]
       [] OTHER -> [contextId |-> block.id, tokens |-> Unknown, source |-> "missing_content"]

\* A group's total is unknown as soon as one of its blocks is.
GroupTokens(groupId, blocks, missing, content) ==
  LET estimates == [i \in DOMAIN blocks |-> BlockTokens(blocks[i], content)]
      unknown == Where(estimates, LAMBDA e : e.tokens = Unknown)
      unknownIds == [i \in DOMAIN unknown |-> unknown[i].contextId] \o missing
      known == Total(estimates, LAMBDA e : IF e.tokens = Unknown THEN 0 ELSE e.tokens)
  IN [groupId |-> groupId, contextIds |-> [i \in DOMAIN blocks |-> blocks[i].id] \o missing,
      unknownContextIds |-> unknownIds, knownTokens |-> known,
      tokens |-> IF unknownIds = <<>> THEN known ELSE Unknown]

\* createNodeInputEstimate: no group for a node that reads nothing.
NodeInputTokens(plan, node, content) ==
  LET ids == Get(node, "inputContext", <<>>)
      BlockOf(id) == LastWith(plan.context, LAMBDA b : b.id = id)
  IN IF ids = <<>> THEN <<>>
     ELSE <<GroupTokens(node.id, FlattenSeq([i \in DOMAIN ids |-> BlockOf(ids[i])]),
                        Where(ids, LAMBDA id : BlockOf(id) = <<>>), content)>>

EstimatePlanTokens(plan, content) ==
  LET context == GroupTokens("plan.context", LedgerOrder(plan.context), <<>>, content)
  IN [context |-> context, tokens |-> context.tokens,
      nodeInputs |-> FlattenSeq([i \in DOMAIN plan.nodes |->
                                   NodeInputTokens(plan, plan.nodes[i], content)])]

\* The difference of what is known, and the difference itself if both are known.
DiffPlanTokens(before, after) ==
  [knownTokenDelta |-> after.context.knownTokens - before.context.knownTokens,
   tokenDelta |-> IF before.tokens = Unknown \/ after.tokens = Unknown THEN {}
                  ELSE {after.tokens - before.tokens}]

-----------------------------------------------------------------------------
(***************************************************************************)
(* cost-estimation.ts.  A selection names the provider and the model of a  *)
(* node; options has the rates, the selections, and perhaps asOf and an    *)
(* unknownCostPolicy.                                                      *)
(***************************************************************************)
SeverityForUnknownCost(plan, options) ==
  IF Get(options, "unknownCostPolicy", "warn") = "error" \/ Has(plan.constraints, "maxCostUsd")
  THEN "error" ELSE "warning"

LookupRate(rates, selection) ==
  SelectInSeq(rates, LAMBDA r : r.provider = selection.provider /\ r.model = selection.model)

IsRateStale(rate, options) ==
  Has(options, "asOf") /\ Has(rate, "expiresAt") /\ options.asOf > rate.expiresAt

\* A model node's cost: what is known of it, the whole if all of it is known, and
\* a warning for each part that is not.
CostOfSelection(node, selection, group, severity, options) ==
  LET Warning(code, level) == [code |-> code, nodeId |-> node.id, severity |-> level]
      Estimate(cost, known, source, warnings) ==
        [nodeId |-> node.id, costUsd |-> cost, knownCostUsd |-> known, source |-> source,
         warnings |-> warnings]
      rateAt == IF selection = <<>> THEN 0 ELSE LookupRate(options.rates, selection[1])
  IN CASE selection = <<>> ->
            Estimate(Unknown, 0, "missing_model_selection",
                     <<Warning("cost_model_selection_missing", severity)>>)
       [] selection # <<>> /\ rateAt = 0 ->
            Estimate(Unknown, 0, "missing_rate", <<Warning("cost_rate_unknown", severity)>>)
       [] OTHER ->
            LET rate == options.rates[rateAt]
                stale == IF IsRateStale(rate, options)
                         THEN <<Warning("cost_rate_stale", "warning")>> ELSE <<>>
                known == IF group = <<>> THEN 0 ELSE group[1].knownTokens
                input == known * rate.input
                asksOutput == Has(selection[1], "outputTokens")
                output == IF asksOutput /\ Has(rate, "output")
                          THEN selection[1].outputTokens * rate.output ELSE 0
            IN CASE group = <<>> \/ (group # <<>> /\ group[1].tokens = Unknown) ->
                      Estimate(Unknown, input, "missing_tokens",
                               stale \o <<Warning("cost_tokens_unknown", severity)>>)
                 [] group # <<>> /\ group[1].tokens # Unknown
                      /\ asksOutput /\ ~Has(rate, "output") ->
                      Estimate(Unknown, input, "missing_rate",
                               stale \o <<Warning("cost_output_rate_unknown", severity)>>)
                 [] OTHER -> Estimate(input + output, input + output,
                                      "provider_cost_rate_fixture", stale)

NodeCost(plan, node, tokens, options) ==
  CostOfSelection(node, LastWith(options.modelSelections, LAMBDA s : s.nodeId = node.id),
                  LastWith(tokens.nodeInputs, LAMBDA g : g.groupId = node.id),
                  SeverityForUnknownCost(plan, options), options)

\* The costs of the nodes, added up if all are known, against the plan's limit.
CostOfNodes(plan, nodes) ==
  LET cost == IF \E i \in DOMAIN nodes : nodes[i].costUsd = Unknown THEN Unknown
              ELSE Total(nodes, LAMBDA n : n.costUsd)
      exceeded == /\ Has(plan.constraints, "maxCostUsd")
                  /\ cost # Unknown
                  /\ cost > plan.constraints.maxCostUsd
  IN [nodes |-> nodes, costUsd |-> cost, knownCostUsd |-> Total(nodes, LAMBDA n : n.knownCostUsd),
      warnings |-> FlattenSeq([i \in DOMAIN nodes |-> nodes[i].warnings])
                     \o IF exceeded
                        THEN <<[code |-> "cost_constraint_exceeded", severity |-> "error"]>>
                        ELSE <<>>]

EstimatePlanCosts(plan, tokens, options) ==
  LET calls == Where(plan.nodes, LAMBDA n : n.kind = "model_call")
  IN CostOfNodes(plan, [i \in DOMAIN calls |-> NodeCost(plan, calls[i], tokens, options)])

\* Two costs are compared only if both are known.
DiffPlanCosts(before, after) ==
  LET comparable == before.costUsd # Unknown /\ after.costUsd # Unknown
  IN [knownCostDelta |-> after.knownCostUsd - before.knownCostUsd,
      costDelta |-> IF comparable THEN {after.costUsd - before.costUsd} ELSE {},
      warnings |-> Unless(comparable, "cost_not_comparable")]

-----------------------------------------------------------------------------
(***************************************************************************)
(* constraints.ts.  Each constraint gives verdicts, in order; a verdict    *)
(* with a code is a failure.  options may have estimates, capabilities of  *)
(* the selected providers, and what the run supports.                      *)
(***************************************************************************)
Passed(path) == [path |-> path, code |-> "none"]
Failed(path, code) == [path |-> path, code |-> code]

\* evaluateMaximumThreshold and evaluateMinimumThreshold: the bound is an upper or a lower one.
Threshold(constraints, key, estimates, measure, code, upper) ==
  LET meets == IF upper THEN estimates[measure] <= constraints[key]
               ELSE estimates[measure] >= constraints[key]
  IN CASE ~Has(constraints, key) -> <<>>
       [] Has(constraints, key) /\ ~Has(estimates, measure) ->
            <<Failed(key, "constraint_unchecked")>>
       [] OTHER -> IF meets THEN <<Passed(key)>> ELSE <<Failed(key, code)>>

ThresholdVerdicts(constraints, options) ==
  LET estimates == Get(options, "estimates", <<>>)
      Verdict(key, measure, code, upper) ==
        Threshold(constraints, key, estimates, measure, code, upper)
  IN Verdict("maxCostUsd", "costUsd", "cost_exceeded", TRUE)
       \o Verdict("maxLatencyMs", "latencyMs", "latency_exceeded", TRUE)
       \o Verdict("minEvalScore", "evalScore", "eval_score_too_low", FALSE)
       \o Verdict("minValidatorPassRate", "validatorPassRate", "validator_pass_rate_too_low", FALSE)
       \o Verdict("allowedRegression", "regression", "regression_exceeded", TRUE)

\* The order of each provider's two verdicts is the code's: allow-list, then deny-list.
ProviderVerdicts(constraints, options) ==
  LET providers == Get(options, "providerCapabilities", <<>>)
      Listed(key, provider) == provider.provider \in ToSet(constraints[key])
      Allow(provider) ==
        IF ~Has(constraints, "allowedProviders") THEN <<>>
        ELSE IF Listed("allowedProviders", provider) THEN <<Passed("allowedProviders")>>
             ELSE <<Failed("allowedProviders", "provider_not_allowed")>>
      Deny(provider) ==
        IF ~Has(constraints, "deniedProviders") THEN <<>>
        ELSE IF Listed("deniedProviders", provider)
             THEN <<Failed("deniedProviders", "provider_denied")>>
             ELSE <<Passed("deniedProviders")>>
  IN CASE ~Has(constraints, "allowedProviders") /\ ~Has(constraints, "deniedProviders") -> <<>>
       [] OTHER ->
            IF providers = <<>> THEN <<Failed("allowedProviders", "provider_capabilities_missing")>>
            ELSE FlattenSeq([i \in DOMAIN providers |-> Allow(providers[i]) \o Deny(providers[i])])

\* evaluateReplayPolicy and evaluateAuditLevel
SupportVerdicts(constraints, key, supported, code) ==
  CASE ~Has(constraints, key) -> <<>>
    [] OTHER -> IF constraints[key] \in supported THEN <<Passed(key)>> ELSE <<Failed(key, code)>>

RetentionVerdicts(constraints, options) ==
  LET providers == Get(options, "providerCapabilities", <<>>)
      required == \/ Get(Get(constraints, "retentionPolicy", <<>>), "mode", "none") = "ephemeral"
                  \/ Get(Get(constraints, "dataPolicy", <<>>), "allowPersistence", TRUE) = FALSE
      Forgets(provider) == Get(provider.supports, "zero_data_retention", FALSE)
  IN CASE ~required -> <<>>
       [] required /\ providers = <<>> ->
            <<Failed("retentionPolicy", "provider_capabilities_missing")>>
       [] OTHER -> IF \A i \in DOMAIN providers : Forgets(providers[i])
                   THEN <<Passed("retentionPolicy")>>
                   ELSE <<Failed("retentionPolicy", "retention_unavailable")>>

ValidatorVerdicts(constraints, options) ==
  LET required == Get(constraints, "requiredValidators", <<>>)
  IN [i \in DOMAIN required |->
        IF required[i] \in Get(options, "availableValidatorIds", {})
        THEN Passed("requiredValidators")
        ELSE Failed("requiredValidators", "validator_missing")]

SensitiveClasses == {"confidential", "restricted", "secret"}
IsSensitive(block) == Get(block, "privacyClass", "none") \in SensitiveClasses

PrivacyVerdicts(plan) ==
  LET policy == Get(plan.constraints, "dataPolicy", <<>>)
      sensitive == Where(plan.context, IsSensitive)
      Class(block) ==
        IF Get(block, "privacyClass", "none") \in policy.allowedPrivacyClasses
        THEN Passed("allowedPrivacyClasses")
        ELSE Failed("allowedPrivacyClasses", "privacy_class_not_allowed")
      Redaction(block) ==
        IF Get(Get(block, "retentionPolicy", <<>>), "mode", "none") \in {"metadata_only", "redacted"}
        THEN Passed("redactionRequired") ELSE Failed("redactionRequired", "redaction_required")
  IN (IF Has(policy, "allowedPrivacyClasses")
      THEN [i \in DOMAIN plan.context |-> Class(plan.context[i])] ELSE <<>>)
     \o IF Get(policy, "redactionRequired", FALSE)
        THEN [i \in DOMAIN sensitive |-> Redaction(sensitive[i])] ELSE <<>>

\* evaluateOptimizationConstraints: a plan is allowed if nothing failed, and each
\* failure points at its piece of evidence.
EvaluateConstraints(plan, options) ==
  LET constraints == plan.constraints
      verdicts ==
        ThresholdVerdicts(constraints, options)
          \o ProviderVerdicts(constraints, options)
          \o SupportVerdicts(constraints, "replayPolicy", Get(options, "replayPolicies", {}),
                             "replay_policy_unsupported")
          \o SupportVerdicts(constraints, "auditLevel", Get(options, "auditLevels", {}),
                             "audit_level_unsupported")
          \o RetentionVerdicts(constraints, options)
          \o ValidatorVerdicts(constraints, options)
          \o PrivacyVerdicts(plan)
      failed == {i \in DOMAIN verdicts : verdicts[i].code # "none"}
  IN [allowed |-> failed = {}, evidence |-> verdicts,
      failures |-> {[code |-> verdicts[i].code, evidenceRef |-> i] : i \in failed}]

-----------------------------------------------------------------------------
(***************************************************************************)
(* contracts.ts.  supports maps a capability's name to whether the         *)
(* provider has it; a name it does not have is unknown.  A date is a       *)
(* number.                                                                 *)
(***************************************************************************)
CapabilityNames == {"automatic_caching", "batching", "context_limits",
                    "explicit_cache_breakpoints", "prompt_caching", "reasoning_controls",
                    "remote_mcp", "structured_outputs", "tool_calling", "zero_data_retention"}

\* isCapabilityAvailable, as the set of its possible answers: {} is undefined.
IsCapabilityAvailable(capabilities, requirement) ==
  LET name == requirement.capability
      limited == Has(capabilities, "maxContextTokens")
  IN CASE name = "context_limits" /\ ~Has(requirement, "minContextTokens") -> {limited}
       [] name = "context_limits" /\ Has(requirement, "minContextTokens") ->
            IF limited THEN {capabilities.maxContextTokens >= requirement.minContextTokens} ELSE {}
       [] OTHER -> IF Has(capabilities.supports, name) THEN {capabilities.supports[name]} ELSE {}

\* checkProviderCapabilityMetadata: what a fixture does not say of itself, and
\* whether it is out of date.
MetadataWarnings(capabilities, options) ==
  LET needed == <<"source", "fixtureVersion", "verifiedAt">>
      Missing(field) == IF field \in capabilities.told THEN <<>>
                        ELSE <<[code |-> "capability_metadata_missing", severity |-> "error"]>>
      stale == /\ Has(capabilities, "staleAfter")
               /\ Has(options, "checkedAt")
               /\ options.checkedAt > capabilities.staleAfter
  IN FlattenSeq([i \in DOMAIN needed |-> Missing(needed[i])])
       \o IF stale THEN <<[code |-> "capability_fixture_stale", severity |-> "error"]>> ELSE <<>>

\* checkProviderCapabilityRequirements
CheckRequirements(capabilities, requirements, options) ==
  LET Warnings(requirement) ==
        LET available == IsCapabilityAvailable(capabilities, requirement)
            Warning(code, severity) ==
              <<[code |-> code, severity |-> severity, capability |-> requirement.capability]>>
        IN CASE available = {TRUE} -> <<>>
             [] available # {TRUE} /\ ~requirement.required ->
                  Warning("downgraded_capability", "warning")
             [] OTHER -> Warning(IF available = {} THEN "capability_unknown"
                                 ELSE "unsupported_capability", "error")
      warnings == MetadataWarnings(capabilities, options)
                    \o FlattenSeq([i \in DOMAIN requirements |-> Warnings(requirements[i])])
  IN [supported |-> \A i \in DOMAIN warnings : warnings[i].severity # "error",
      warnings |-> warnings]

-----------------------------------------------------------------------------
(***************************************************************************)
(* fixtures.ts.  LastDay is 2026-12-31, the day every fixture is good      *)
(* until; a context window is in thousands of tokens.                      *)
(***************************************************************************)
LastDay == 1

\* The capabilities of a fixture, from the set of those it has.
Fixture(provider, window, able) ==
  [provider |-> provider, staleAfter |-> LastDay, maxContextTokens |-> window,
   told |-> {"source", "fixtureVersion", "verifiedAt"},
   supports |-> [name \in CapabilityNames \ {"context_limits"} |-> name \in able]]

MockCapabilities ==
  Fixture("mock", 8, {"tool_calling", "structured_outputs", "zero_data_retention"})

OpenAIStyleCapabilities ==
  Fixture("openai-style", 128,
          {"prompt_caching", "automatic_caching", "tool_calling", "remote_mcp",
           "structured_outputs", "batching", "reasoning_controls"})

AnthropicStyleCapabilities ==
  Over([cacheTtlOptions |-> <<"5m", "1h">>],
       Fixture("anthropic-style", 200,
               {"prompt_caching", "explicit_cache_breakpoints", "tool_calling", "batching",
                "reasoning_controls"}))

LiteLLMCompatibleCapabilities ==
  Fixture("litellm-compatible", 32, {"tool_calling", "structured_outputs"})

ProviderCapabilityFixtures ==
  <<MockCapabilities, OpenAIStyleCapabilities, AnthropicStyleCapabilities,
    LiteLLMCompatibleCapabilities>>

ProviderCostRateFixtures ==
  LET Rate(provider, model, input, output) ==
        [provider |-> provider, model |-> model, input |-> input, output |-> output]
  IN <<Rate("mock", "mock-default", 0, 0),
       Rate("openai-style", "openai-style-synthesis", 2, 8),
       Rate("anthropic-style", "anthropic-style-synthesis", 4, 16),
       Rate("litellm-compatible", "litellm-compatible-synthesis", 3, 12)>>
=============================================================================
