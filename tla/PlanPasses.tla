----------------------------- MODULE PlanPasses -----------------------------
(***************************************************************************)
(* The five optimization passes of packages/runtime and the plan diff they *)
(* report (exact-duplicate-context.ts, stable-prefix.ts,                   *)
(* prompt-cache-layout.ts, static-routing.ts, retry-fallback-planning.ts,  *)
(* diff.ts).                                                               *)
(*                                                                         *)
(* apply is a function of the plan and of the capabilities of the          *)
(* providers in its context; its result has the next plan, the evidence    *)
(* and the warnings.  Only the first pass changes a plan, the others       *)
(* report what could be done.  A piece of evidence or a warning keeps what *)
(* it is about; the wording, the privacy labels and the run id are left    *)
(* out.                                                                    *)
(***************************************************************************)
EXTENDS PlanEstimates

\* The evidence of a pass, numbered in the order it is pushed.
Numbered(pass, events) == [i \in DOMAIN events |-> Over([id |-> <<pass, i>>], events[i])]

Warn(code, path, severity, assumption) ==
  [code |-> code, path |-> path, severity |-> severity, assumption |-> assumption]

-----------------------------------------------------------------------------
(***************************************************************************)
(* diff.ts.  A change names the artifact and the changed field, never a    *)
(* value; the changes are a set, their order is left out.                  *)
(***************************************************************************)

\* The members whose value is an object, which the comparison looks into.
ObjectMembers == {"approval", "cachePolicy", "dataPolicy", "metadata", "model", "parameters",
                  "provenance", "retentionPolicy", "retrieval", "retryFallback", "sideEffects",
                  "staticRouting", "tool", "transform", "validator"}

\* A member's value in a set, {} if it is undefined.
Member(object, key) == IF Has(object, key) THEN {object[key]} ELSE {}

\* What an object holds at a path, in a set as well.
ValueAt(object, path) ==
  FoldLeft(LAMBDA found, key : UNION {Member(value, key) : value \in found}, {object}, path)

\* collectChangedFields: the paths at which two objects differ.
ChangedFields(before, after) ==
  LET At(values) == CHOOSE value \in values : TRUE
      Differ[path \in Seq(STRING)] ==
        LET a == ValueAt(before, path)
            b == ValueAt(after, path)
            descends == /\ path = <<>> \/ (path # <<>> /\ path[Len(path)] \in ObjectMembers)
                        /\ a \notin {{}, {Junk}} /\ b \notin {{}, {Junk}}
        IN CASE a = b -> {}
             [] a # b /\ descends ->
                  UNION {Differ[Append(path, key)] : key \in DOMAIN At(a) \cup DOMAIN At(b)}
             [] OTHER -> {path}
  IN Differ[<<>>]

Change(kind, what, id, field) == [kind |-> kind, what |-> what, id |-> id, field |-> field]

\* diffRecord
DiffRecord(what, before, after) ==
  {Change("changed", what, <<>>, field) : field \in ChangedFields(before, after)}

\* diffCollection: of two artifacts with one id, the last counts.
DiffCollection(what, before, after) ==
  LET Ids(items) == {items[i].id : i \in DOMAIN items}
      At(items, id) == LastWith(items, LAMBDA item : item.id = id)[1]
      Changed(id) ==
        {Change("changed", what, <<id>>, field) :
           field \in ChangedFields(At(before, id), At(after, id))}
  IN {Change("removed", what, <<id>>, <<>>) : id \in Ids(before) \ Ids(after)}
       \cup {Change("added", what, <<id>>, <<>>) : id \in Ids(after) \ Ids(before)}
       \cup UNION {Changed(id) : id \in Ids(before) \cap Ids(after)}

\* diffWarnings: a warning is known by its code, severity and path.
DiffWarnings(before, after) ==
  LET Id(w) == <<w.code, w.severity, w.path>>
      Ids(items) == {Id(items[i]) : i \in DOMAIN items}
      At(items, id) == LastWith(items, LAMBDA w : Id(w) = id)[1]
  IN {Change("removed", "warning", id, <<>>) : id \in Ids(before) \ Ids(after)}
       \cup {Change("added", "warning", id, <<>>) : id \in Ids(after) \ Ids(before)}
       \cup {Change("changed", "warning", id, <<>>) :
               id \in {i \in Ids(before) \cap Ids(after) : At(before, i) # At(after, i)}}

DiffPlans(before, after, beforeWarnings, afterWarnings) ==
  DiffRecord("metadata", before.metadata, after.metadata)
    \cup DiffRecord("constraint", before.constraints, after.constraints)
    \cup DiffCollection("context", before.context, after.context)
    \cup DiffCollection("node", before.nodes, after.nodes)
    \cup DiffCollection("edge", before.edges, after.edges)
    \cup DiffWarnings(beforeWarnings, afterWarnings)

-----------------------------------------------------------------------------
(***************************************************************************)
(* exact-duplicate-context.ts                                              *)
(***************************************************************************)

\* duplicateKey: the hash if there is one, else the reference, else nothing.
DuplicateKey(block) ==
  CASE Get(block, "contentHash", Blank) # Blank -> <<"hash", block.contentHash>>
    [] Get(block, "contentHash", Blank) = Blank /\ block.contentRef # Blank ->
         <<"ref", block.contentRef>>
    [] OTHER -> <<>>

\* groupDuplicateCandidates: each group's first block with each of the others, the
\* groups in the order of their first blocks.
DuplicatePairs(plan) ==
  LET all == LedgerOrder(plan.context)
      keys == [i \in DOMAIN all |-> DuplicateKey(all[i])]
      IsFirst(i) == keys[i] # <<>> /\ \A j \in 1 .. i - 1 : keys[j] # keys[i]
      Pair(i, j) == IF j > i /\ keys[j] = keys[i]
                    THEN <<[canonical |-> all[i], candidate |-> all[j]]>> ELSE <<>>
      Others(i) == IF IsFirst(i) THEN FlattenSeq([j \in DOMAIN all |-> Pair(i, j)]) ELSE <<>>
  IN FlattenSeq([i \in DOMAIN all |-> Others(i)])

\* collectProtectedOutputContextIds
ProtectedOutputContextIds(plan) ==
  {plan.nodes[i].outputContext : i \in {j \in DOMAIN plan.nodes : Has(plan.nodes[j], "outputContext")}}
    \cup {plan.nodes[i].resultContext :
            i \in {j \in DOMAIN plan.nodes : plan.nodes[j].kind = "retrieval_call"}}

\* Faulty: the roles of the two blocks are not compared.
PreservationReasonOfAnyRole(canonical, candidate, protectedIds) ==
  CASE canonical.mutability # "deduplicable" \/ candidate.mutability # "deduplicable" ->
         "not_deduplicable"
    [] canonical.mutability = "deduplicable" /\ candidate.mutability = "deduplicable" ->
         CASE IsSensitive(canonical) \/ IsSensitive(candidate) -> "sensitive"
           [] OTHER -> IF candidate.id \in protectedIds THEN "node_output" ELSE "none"

\* Why a duplicate is preserved, the first of the reasons that holds; "none" if
\* none does.
PreservationReason(canonical, candidate, protectedIds) ==
  CASE canonical.mutability # "deduplicable" \/ candidate.mutability # "deduplicable" ->
         "not_deduplicable"
    [] canonical.mutability = "deduplicable" /\ candidate.mutability = "deduplicable" ->
         CASE IsSensitive(canonical) \/ IsSensitive(candidate) -> "sensitive"
           [] ~IsSensitive(canonical) /\ ~IsSensitive(candidate)
                /\ canonical.role # candidate.role -> "roles_differ"
           [] ~IsSensitive(canonical) /\ ~IsSensitive(candidate)
                /\ canonical.role = candidate.role
                /\ canonical.provenance.source # candidate.provenance.source -> "sources_differ"
           [] OTHER -> IF candidate.id \in protectedIds THEN "node_output" ELSE "none"

\* rewriteContextIds
RewriteIds(ids, replacements) ==
  Distinct([i \in DOMAIN ids |-> Get(replacements, ids[i], ids[i])])

\* rewriteNodeContextReferences: what a node reads, not what it writes.
RewriteNode(node, replacements) ==
  [key \in DOMAIN node |->
     CASE key = "inputContext" -> RewriteIds(node[key], replacements)
       [] key = "queryContext" /\ node.kind = "retrieval_call" ->
            Get(replacements, node[key], node[key])
       [] OTHER -> node[key]]

\* Faulty: an edge keeps naming the blocks that were removed.
RewriteEdgeOfNodesOnly(edge, replacements) == edge

RewriteEdge(edge, replacements) ==
  [key \in DOMAIN edge |->
     IF key = "contextIds" THEN RewriteIds(edge[key], replacements) ELSE edge[key]]

\* rewritePlanContextReferences
RewritePlan(plan, replacements) ==
  IF DOMAIN replacements = {} THEN plan
  ELSE [plan EXCEPT
          !.context = Where(@, LAMBDA block : block.id \notin DOMAIN replacements),
          !.nodes = [i \in DOMAIN @ |-> RewriteNode(@[i], replacements)],
          !.edges = [i \in DOMAIN @ |-> RewriteEdge(@[i], replacements)]]

\* removedTokenEstimate
RemovedTokens(pairs, protectedIds) ==
  LET removed == Where(pairs, LAMBDA pair :
                   PreservationReason(pair.canonical, pair.candidate, protectedIds) = "none")
  IN Total(removed, LAMBDA pair : Get(pair.candidate, "tokenEstimate", 0))

\* The result for some duplicates.
RemoveDuplicates(plan, pairs, protectedIds) ==
  LET Reason(pair) == PreservationReason(pair.canonical, pair.candidate, protectedIds)
      removed == Where(pairs, LAMBDA pair : Reason(pair) = "none")
      preserved == Where(pairs, LAMBDA pair : Reason(pair) # "none")
      removedTokens == RemovedTokens(pairs, protectedIds)
      Event(pair) == [kind |-> "context_change", changeKind |-> "deduplicated",
                      contextIds |-> <<pair.candidate.id, pair.canonical.id>>]
      replacements ==
        [id \in {removed[i].candidate.id : i \in DOMAIN removed} |->
           LastWith(removed, LAMBDA pair : pair.candidate.id = id)[1].canonical.id]
      estimate == IF removedTokens > 0
                  THEN <<[kind |-> "estimate", unit |-> "tokens", value |-> removedTokens]>>
                  ELSE <<>>
  IN [plan |-> RewritePlan(plan, replacements),
      evidence |-> Numbered("exact-duplicate-context",
                            [i \in DOMAIN pairs |-> Event(pairs[i])] \o estimate),
      warnings |-> [i \in DOMAIN preserved |->
                      Warn("duplicate_context_preserved", <<preserved[i].candidate.id>>,
                           "warning", Reason(preserved[i]))]]

ExactDuplicates(plan, providers) ==
  RemoveDuplicates(plan, DuplicatePairs(plan), ProtectedOutputContextIds(plan))

-----------------------------------------------------------------------------
(***************************************************************************)
(* stable-prefix.ts                                                        *)
(***************************************************************************)

\* stablePrefixSkipReason, of a block looked up in the ledger
CanStartPrompt(found) ==
  found # <<>>
    /\ LET block == found[1]
       IN /\ block.role \in {"developer_instruction", "example", "system_instruction"}
          /\ block.mutability = "fixed"
          /\ ~IsSensitive(block)
          /\ Get(Get(block, "cachePolicy", <<>>), "mode", "none") # "forbidden"

\* collectStablePrefixIds: the ids before the first block that cannot be cached.
StablePrefixIds(node, all) ==
  LET ids == node.inputContext
      stops == {i \in DOMAIN ids : ~CanStartPrompt(LedgerById(all, ids[i]))}
  IN IF stops = {} THEN ids ELSE SubSeq(ids, 1, Min(stops) - 1)

\* The model calls that read something, with their prefixes.
PrefixCalls(plan) ==
  Where(plan.nodes, LAMBDA n : n.kind = "model_call" /\ Has(n, "inputContext"))

StablePrefix(plan, providers) ==
  LET all == LedgerOrder(plan.context)
      calls == PrefixCalls(plan)
      prefixes == [i \in DOMAIN calls |->
                     [nodeId |-> calls[i].id, contextIds |-> StablePrefixIds(calls[i], all)]]
      found == Where(prefixes, LAMBDA p : p.contextIds # <<>>)
      Skipped(i) ==
        LET at == Len(prefixes[i].contextIds) + 1
        IN IF at > Len(calls[i].inputContext) THEN <<>>
           ELSE LET id == calls[i].inputContext[at]
                IN <<Warn("stable_prefix_candidate_skipped",
                          IF LedgerById(all, id) = <<>> THEN <<"node", calls[i].id>>
                          ELSE <<"context", id>>, "warning", "not_eligible")>>
      Explicit(provider) == provider.supports["explicit_cache_breakpoints"]
      reportOnly == Where(providers, LAMBDA p : ~Explicit(p))
  IN [plan |-> plan,
      evidence |-> Numbered("stable-prefix",
         [i \in DOMAIN found |->
            Over([kind |-> "context_change", changeKind |-> "changed"], found[i])]
           \o [i \in DOMAIN providers |->
                 [kind |-> "capability_assumption", provider |-> providers[i].provider,
                  explicit |-> Explicit(providers[i])]]),
      warnings |-> FlattenSeq([i \in DOMAIN calls |-> Skipped(i)])
                     \o [i \in DOMAIN reportOnly |->
                           Warn("stable_prefix_provider_report_only", <<"provider">>, "info",
                                "report_only")]]

-----------------------------------------------------------------------------
(***************************************************************************)
(* prompt-cache-layout.ts                                                  *)
(***************************************************************************)
ClassifyLayoutKind(provider) ==
  CASE provider.supports["explicit_cache_breakpoints"] -> "explicit_breakpoint"
    [] ~provider.supports["explicit_cache_breakpoints"]
         /\ provider.supports["automatic_caching"] -> "automatic"
    [] OTHER -> "unsupported"

\* providerWarningsFor
LayoutWarnings(provider) ==
  LET kind == ClassifyLayoutKind(provider)
      path == <<"provider", provider.provider>>
  IN CASE kind = "explicit_breakpoint" -> <<>>
       [] kind = "automatic" ->
            <<Warn("prompt_cache_explicit_breakpoint_unavailable", path, "info", kind)>>
       [] kind = "unsupported" ->
            <<Warn("prompt_cache_provider_unsupported", path, "warning", kind)>>

\* collectStablePrefixEvidence: the prefixes by node; of two nodes with one id the
\* last counts, at the place of the first.
PrefixByNode(evidence) ==
  LET changes == Where(evidence, LAMBDA e : e.kind = "context_change")
      nodeIds == Distinct([i \in DOMAIN changes |-> changes[i].nodeId])
  IN [i \in DOMAIN nodeIds |->
        [nodeId |-> nodeIds[i],
         contextIds |-> LastWith(changes, LAMBDA e : e.nodeId = nodeIds[i])[1].contextIds]]

\* The evidence about one provider and one prefix: the prefix, its tokens, and its
\* cost if the tokens and the provider's only rate are known.
LayoutEvidence(provider, prefix, all) ==
  LET ids == prefix.contextIds
      tokens == GroupTokens(prefix.nodeId,
                            FlattenSeq([i \in DOMAIN ids |-> LedgerById(all, ids[i])]),
                            Where(ids, LAMBDA id : LedgerById(all, id) = <<>>), <<>>).tokens
      rates == Where(ProviderCostRateFixtures, LAMBDA r : r.provider = provider.provider)
      About(event) == Over([provider |-> provider.provider, nodeId |-> prefix.nodeId], event)
  IN <<About([kind |-> "context_change", changeKind |-> "changed", contextIds |-> ids]),
       About([kind |-> "estimate", unit |-> "tokens", value |-> tokens])>>
       \o IF tokens # Unknown /\ Len(rates) = 1
          THEN <<About([kind |-> "estimate", unit |-> "usd", value |-> tokens * rates[1].input])>>
          ELSE <<>>

\* The layouts of some prefixes.
LayoutOfPrefixes(plan, providers, prefixes, stable, all) ==
  LET Layout(provider) ==
        LET warnings == LayoutWarnings(provider)
        IN <<[kind |-> "capability_assumption", provider |-> provider.provider,
              layout |-> ClassifyLayoutKind(provider)]>>
             \o [i \in DOMAIN warnings |-> Over([kind |-> "warning"], warnings[i])]
             \o FlattenSeq([i \in DOMAIN prefixes |-> LayoutEvidence(provider, prefixes[i], all)])
  IN [plan |-> plan,
      evidence |-> Numbered("prompt-cache-layout",
                            FlattenSeq([i \in DOMAIN providers |-> Layout(providers[i])])),
      warnings |-> stable.warnings
                     \o FlattenSeq([i \in DOMAIN providers |-> LayoutWarnings(providers[i])])]

LayoutOfStable(plan, providers, stable) ==
  LayoutOfPrefixes(plan, providers, PrefixByNode(stable.evidence), stable,
                   LedgerOrder(plan.context))

PromptCacheLayout(plan, providers) == LayoutOfStable(plan, providers, StablePrefix(plan, <<>>))

-----------------------------------------------------------------------------
(***************************************************************************)
(* static-routing.ts                                                       *)
(***************************************************************************)

\* Faulty: the allow-list is looked at only when there is a deny-list.
MayUseIfBothListed(constraints, provider) ==
  /\ provider \notin ToSet(Get(constraints, "deniedProviders", <<>>))
  /\ Has(constraints, "allowedProviders") /\ Has(constraints, "deniedProviders")
       => provider \in ToSet(constraints.allowedProviders)

\* Whether the plan's constraints leave a provider to be used.
MayUse(constraints, provider) ==
  /\ provider \notin ToSet(Get(constraints, "deniedProviders", <<>>))
  /\ Has(constraints, "allowedProviders") => provider \in ToSet(constraints.allowedProviders)

\* chooseRoutingCandidate and chooseFallbackProvider: the index of the first provider
\* that may be used, if any, and the ones passed over before it.
ChooseProvider(plan, providers) ==
  LET usable == SelectInSeq(providers, LAMBDA p : MayUse(plan.constraints, p))
      passed == SubSeq(providers, 1, IF usable = 0 THEN Len(providers) ELSE usable - 1)
      IsDenied(p) == p \in ToSet(Get(plan.constraints, "deniedProviders", <<>>))
  IN [index |-> IF usable = 0 THEN <<>> ELSE <<usable>>,
      passed |-> [i \in DOMAIN passed |-> [provider |-> passed[i], denied |-> IsDenied(passed[i])]]]

\* node.metadata's own policy record; anything but an object counts as none.
PolicyMetadata(node, key) ==
  LET raw == Get(Get(node, "metadata", <<>>), key, Junk) IN IF raw = Junk THEN <<>> ELSE raw

\* readCandidates and readStringArray: a list with an item of the wrong type is none.
ReadList(policy, key) ==
  LET raw == Get(policy, key, Junk)
  IN IF raw = Junk THEN <<>> ELSE IF Junk \in ToSet(raw) THEN <<>> ELSE raw

HasRequiredValidators(plan, policy) ==
  LET required == ToSet(ReadList(policy, "requiredValidators"))
  IN /\ required # {}
     /\ required \subseteq ToSet(Get(plan.constraints, "requiredValidators", <<>>))

\* What the pass says of one model call.
RouteNode(plan, node) ==
  LET policy == PolicyMetadata(node, "staticRouting")
      candidates == ReadList(policy, "candidates")
      Refuse(code) == [evidence |-> <<>>,
                       warnings |-> <<Warn(code, <<"node", node.id>>, "warning", "policy")>>]
      choice == ChooseProvider(plan, [i \in DOMAIN candidates |-> candidates[i].provider])
      PassedOver(p) == Warn(IF p.denied THEN "static_routing_provider_denied"
                            ELSE "static_routing_provider_not_allowed",
                            <<"node", node.id>>, "warning", p.provider)
  IN CASE candidates = <<>> -> [evidence |-> <<>>, warnings |-> <<>>]
       [] candidates # <<>> /\ node.model.task \notin {"classification", "ranking"} ->
            Refuse("static_routing_ineligible_task")
       [] OTHER ->
            IF ~HasRequiredValidators(plan, policy) THEN Refuse("static_routing_validator_missing")
            ELSE [evidence |-> [i \in DOMAIN choice.index |->
                                  [kind |-> "routing_decision", nodeId |-> node.id,
                                   source |-> node.model.task,
                                   target |-> candidates[choice.index[i]]]],
                  warnings |-> [i \in DOMAIN choice.passed |-> PassedOver(choice.passed[i])]]

StaticRouting(plan, providers) ==
  LET calls == Where(plan.nodes, LAMBDA n : n.kind = "model_call")
      routes == [i \in DOMAIN calls |-> RouteNode(plan, calls[i])]
  IN [plan |-> plan,
      evidence |-> Numbered("static-routing",
                            FlattenSeq([i \in DOMAIN routes |-> routes[i].evidence])),
      warnings |-> FlattenSeq([i \in DOMAIN routes |-> routes[i].warnings])]

-----------------------------------------------------------------------------
(***************************************************************************)
(* retry-fallback-planning.ts                                              *)
(***************************************************************************)

\* findRetryTargetForValidator: a validation edge decides alone if there is one.
RetryTarget(plan, validator) ==
  LET edgeAt == SelectInSeq(plan.edges,
                  LAMBDA e : e.kind = "validation" /\ e.toNodeId = validator.id)
      Checked(n) == IF edgeAt # 0 THEN n.id = plan.edges[edgeAt].fromNodeId
                    ELSE /\ Has(n, "outputContext")
                         /\ n.outputContext \in ToSet(validator.inputContext)
      at == SelectInSeq(plan.nodes, LAMBDA n : n.kind = "model_call" /\ Checked(n))
  IN IF at = 0 THEN <<>> ELSE <<plan.nodes[at]>>

UpstreamNodeIds(edges, nodeId) ==
  LET into == Where(edges, LAMBDA e : e.toNodeId = nodeId)
  IN Distinct([i \in DOMAIN into |-> into[i].fromNodeId])

\* effectiveSideEffectClass: what the retryFallback metadata says, and nothing of
\* the node's own tool.sideEffects.
EffectiveSideEffectClass(policy) ==
  LET sideEffecting == Get(policy, "sideEffecting", Junk)
  IN CASE Get(policy, "sideEffectClass", Junk) \in SideEffectClasses -> policy.sideEffectClass
       [] Get(policy, "sideEffectClass", Junk) \notin SideEffectClasses /\ sideEffecting = Junk ->
            "unknown"
       [] OTHER -> IF sideEffecting THEN "non_idempotent_mutation" ELSE "read_only"

HasEvidenceRef(policy, key) == Get(policy, key, Junk) \notin {Junk, Blank}

\* retrySideEffectBlocker
IsRetryBlocked(node, policy) ==
  LET class == EffectiveSideEffectClass(policy)
      idempotent == HasEvidenceRef(policy, "idempotencyKeyRef")
                      /\ HasEvidenceRef(policy, "policyEvidenceRef")
  IN /\ node.kind = "tool_call"
     /\ class # "read_only"
     /\ ~(class = "idempotent_mutation" /\ idempotent)
     /\ ~(class = "approval_required" /\ idempotent
            /\ HasEvidenceRef(policy, "approvalEvidenceRef"))

RetryDecision(decision, nodeId, more) ==
  Over([kind |-> "retry_fallback_decision", decision |-> decision, nodeId |-> nodeId], more)

\* The first loop: the retry boundary of a validator.
PlanRetry(plan, validator) ==
  LET target == RetryTarget(plan, validator)
      path == <<"node", validator.id>>
  IN IF target = <<>>
     THEN [evidence |-> <<>>,
           warnings |-> <<Warn("retry_boundary_missing_target", path, "warning", "none")>>]
     ELSE [evidence |-> <<RetryDecision("retry", target[1].id,
                            [validator |-> validator.id,
                             preserved |-> UpstreamNodeIds(plan.edges, target[1].id)])>>,
           warnings |-> <<>>]

\* The second loop: what may not be retried, and where to fall back.
PlanFallback(plan, node) ==
  LET policy == PolicyMetadata(node, "retryFallback")
      blocked == IsRetryBlocked(node, policy)
      path == <<"node", node.id>>
      providers == IF node.kind = "model_call" THEN ReadList(policy, "fallbackProviders") ELSE <<>>
      choice == ChooseProvider(plan, providers)
      PassedOver(p) == Warn(IF p.denied THEN "fallback_provider_denied"
                            ELSE "fallback_provider_not_allowed", path, "warning", p.provider)
  IN [evidence |->
        (IF blocked THEN <<RetryDecision("not_retryable", node.id, <<>>)>> ELSE <<>>)
          \o [i \in DOMAIN choice.index |->
                RetryDecision("fallback", node.id,
                              [fallbackTarget |-> providers[choice.index[i]]])],
      warnings |->
        (IF blocked THEN <<Warn("retry_side_effect_not_retryable", path, "warning",
                                EffectiveSideEffectClass(policy))>> ELSE <<>>)
          \o [i \in DOMAIN choice.passed |-> PassedOver(choice.passed[i])]]

RetryFallback(plan, providers) ==
  LET validators == Where(plan.nodes,
                      LAMBDA n : n.kind = "validator" /\ Get(n, "failurePolicy", "none") = "retry_node")
      parts == [i \in DOMAIN validators |-> PlanRetry(plan, validators[i])]
                 \o [i \in DOMAIN plan.nodes |-> PlanFallback(plan, plan.nodes[i])]
  IN [plan |-> plan,
      evidence |-> Numbered("retry-fallback",
                            FlattenSeq([i \in DOMAIN parts |-> parts[i].evidence])),
      warnings |-> FlattenSeq([i \in DOMAIN parts |-> parts[i].warnings])]

-----------------------------------------------------------------------------
(***************************************************************************)
(* The passes by name, and what a pass reports of the plan it was given.   *)
(***************************************************************************)
PassNames == <<"exact_duplicates", "stable_prefix", "prompt_cache_layout", "static_routing",
               "retry_fallback">>

ApplyPass(name, plan, providers) ==
  CASE name = "exact_duplicates" -> ExactDuplicates(plan, providers)
    [] name = "stable_prefix" -> StablePrefix(plan, providers)
    [] name = "prompt_cache_layout" -> PromptCacheLayout(plan, providers)
    [] name = "static_routing" -> StaticRouting(plan, providers)
    [] name = "retry_fallback" -> RetryFallback(plan, providers)

PassDiff(plan, result) == DiffPlans(plan, result.plan, <<>>, result.warnings)
=============================================================================
