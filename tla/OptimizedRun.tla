---------------------------- MODULE OptimizedRun ----------------------------
(***************************************************************************)
(* A run of the examples (examples/rag-dedup-cache/src/optimized.ts): the  *)
(* passes run on a plan, the plan they leave is executed by the mock       *)
(* backend, the execution is traced and the evidence is exported in a      *)
(* bundle.                                                                 *)
(*                                                                         *)
(* The example takes one fixture, one export mode and no events but its    *)
(* own; here the fixture is one of Fixtures, the mode any one and the      *)
(* events of the application one of Observations.                          *)
(***************************************************************************)
EXTENDS PassRunner, MockBackend, EvidenceBundle, ProviderAdapters

CONSTANTS Fixtures,    \* sequences of mock responses
          Observations \* sequences of evidence events

VARIABLES execution, \* plan, fixture, result and trace of the execution, in a set
          bundle     \* the events to export and the bundle made of them, in a set

IdsIn(items) == {items[i].id : i \in DOMAIN items}

\* Plans are as the types of mIR say and validateMIRPlan accepts them, as far as the passes
\* depend on it: arrays are arrays, and no two blocks have one id.  A reference to a
\* content has one hash.
IsNode(node) ==
  /\ {"id", "kind"} \subseteq DOMAIN node
  /\ Has(node, "inputContext") => IsList(node.inputContext)
  /\ node.kind = "model_call" => "model" \in DOMAIN node
  /\ node.kind = "retrieval_call" => {"queryContext", "resultContext"} \subseteq DOMAIN node
  /\ IsList(ReadList(PolicyMetadata(node, "staticRouting"), "candidates"))
  /\ IsList(ReadList(PolicyMetadata(node, "retryFallback"), "fallbackProviders"))

IsBlock(block) ==
  {"id", "contentRef", "role", "mutability", "provenance"} \subseteq DOMAIN block /\ block.id \in Nat

HashOf(block) == Get(block, "contentHash", Blank)

IsPlan(p) ==
  /\ {"context", "nodes", "edges", "constraints"} \subseteq DOMAIN p
  /\ IsList(p.context) /\ IsList(p.nodes) /\ IsList(p.edges)
  /\ IsList(Get(p.constraints, "requiredValidators", <<>>))
  /\ \A i \in DOMAIN p.nodes : IsNode(p.nodes[i])
  /\ \A i \in DOMAIN p.edges : IsList(Get(p.edges[i], "contextIds", <<>>))
  /\ \A i \in DOMAIN p.context : IsBlock(p.context[i])
  /\ \A i, j \in DOMAIN p.context :
       LET a == p.context[i]
           b == p.context[j]
       IN /\ a.id = b.id => i = j
          /\ a.contentRef = b.contentRef /\ Blank \notin {HashOf(a), HashOf(b)}
               => HashOf(a) = HashOf(b)

\* The passes are a list of passes of the repository.
ASSUME ConfigurationsAssumption ==
  \A c \in Configurations :
    /\ IsPlan(c.plan)
    /\ IsList(c.providers) /\ IsList(c.passes)
    /\ \A i \in DOMAIN c.passes : c.passes[i].name \in ToSet(PassNames)

pipelineVars == <<runnerVars, execution, bundle>>

\* What the events of passes, estimates and validators have in common.
EvidenceEvent(id, kind, source, detail) ==
  [version |-> "v0", id |-> id, kind |-> kind, summary |-> "text", source |-> [kind |-> source],
   privacy |-> [privacyClass |-> "internal", replayMode |-> "metadata"],
   redaction |-> [mode |-> "none"]] @@ (DetailKeys[kind] :> detail)

PassEvent(e) ==
  LET kinds == [tokens |-> "token", usd |-> "cost"]
      detail == IF e.kind = "estimate" THEN [estimateKind |-> kinds[e.unit]] @@ e ELSE e
  IN EvidenceEvent(e.id, e.kind, "pass", detail)

\* createOptimizedRuntimeEvidence
RuntimeEvidence(result) ==
  LET Estimate(kind) == EvidenceEvent(<<"optimized", kind>>, "estimate", "runtime",
                                      [estimateKind |-> kind])
      Outcome(i) == EvidenceEvent(<<"optimized-validator", i>>, "validator_result", "validator",
                                  result.validatorResults[i])
  IN <<Estimate("token"), Estimate("cost"), Estimate("latency")>>
       \o [i \in DOMAIN result.validatorResults |-> Outcome(i)]

-----------------------------------------------------------------------------
PipelineInit == RunnerInit /\ execution = {} /\ bundle = {}

Optimize == RunnerNext /\ UNCHANGED <<execution, bundle>>

\* The plan that is left is lowered, executed and traced.
Execute ==
  /\ status = "done"
  /\ execution = {}
  /\ \E responses \in Fixtures, lowered \in {LowerMockPlan(plan)} :
       \E result \in {ExecuteMockPlan(lowered, responses)} :
         execution' = {[lowered |-> lowered, result |-> result,
                        trace |-> CaptureTrace(plan, lowered, responses, result)]}
  /\ UNCHANGED <<runnerVars, bundle>>

\* The events of the passes, of the runtime and of the application.
EventsToExport(run, observed) ==
  [i \in DOMAIN evidence |-> PassEvent(evidence[i])] \o RuntimeEvidence(run.result) \o observed

\* What a bundle carries of the run of the passes.
Carried(optIn) ==
  LET PlanRef(p) == [planId |-> p.id, version |-> p.version]
  IN [planDiff |-> DiffPlans(configuration.plan, plan, <<>>, warnings),
      originalPlan |-> PlanRef(configuration.plan), optimizedPlan |-> PlanRef(plan),
      passes |-> records, warnings |-> warnings, fullTraceOptIn |-> optIn]

\* The evidence is exported.
Export ==
  /\ bundle = {}
  /\ \E run \in execution, observed \in Observations, mode \in ExportModes, optIn \in BOOLEAN :
       /\ MayExport(mode, optIn)
       /\ LET events == EventsToExport(run, observed)
          IN bundle' = {[events |-> events,
                         exported |-> CreateEvidenceBundle(events, mode, <<>>, Carried(optIn))]}
  /\ UNCHANGED <<runnerVars, execution>>

PipelineNext == Optimize \/ Execute \/ Export

PipelineSpec == PipelineInit /\ [][PipelineNext]_pipelineVars

-----------------------------------------------------------------------------
\* Replaying a trace gives the result again, logs and all, whether the execution came
\* to its end or failed on the way, and the trace keeps what was lowered of every step
\* that it has (replayMockExecutionTrace).
TraceReplays ==
  \A run \in execution :
    /\ ReplayTrace(run.trace) = {}
    /\ \A i \in DOMAIN run.trace.steps : LoweredStep(run.trace.steps[i]) = run.lowered.steps[i]

\* A bundle accounts for the events that were exported, if those are events: none is
\* lost without a record, a redacting mode shows no detail of a sensitive event or of one
\* whose redaction was asked for, and a metadata-only export shows none of an event
\* that wants a full trace (it does show that of a secret one that does not;
\* createEvidenceBundle).
ExportsAccountForEvents ==
  \A b \in bundle : AreEvents(b.events) => AccountsFor(b.exported, b.events)

\* A provider that a pass routes a call or a fallback to is one with which
\* evaluateOptimizationConstraints finds no fault (two parts of the code that decide the
\* same on their own).
PlannedProvidersMayBeUsed ==
  LET Target(e) ==
        CASE e.kind = "routing_decision" -> {e.target.provider}
          [] e.kind = "retry_fallback_decision" ->
               IF e.decision = "fallback" THEN {e.fallbackTarget} ELSE {}
          [] OTHER -> {}
      Used(provider) == [providerCapabilities |-> <<[provider |-> provider, supports |-> <<>>]>>]
      Faults(provider) == {f.code : f \in EvaluateConstraints(plan, Used(provider)).failures}
  IN \A e \in ToSet(evidence) : \A provider \in Target(e) :
       Faults(provider) \cap {"provider_not_allowed", "provider_denied",
                             "provider_capabilities_missing"} = {}

\* However the passes are ordered, repeated, disabled or fail, they leave a plan that
\* validateMIRPlan accepts, if it accepted the first one, and a token ledger without a
\* diagnostic that the first plan had not.
Diagnostics(p) == ToSet(LedgerDiagnostics(LedgerOrder(p.context)))

PlanStaysValid ==
  /\ IsMirPlan(plan) \/ ~IsMirPlan(configuration.plan)
  /\ Diagnostics(plan) \subseteq Diagnostics(configuration.plan)

\* The blocks that the nodes read or write and the edges carry.
ContextIdsOf(p) ==
  (UNION {ToSet(Get(p.nodes[i], "inputContext", <<>>)) : i \in DOMAIN p.nodes})
    \cup ProtectedOutputContextIds(p)
    \cup {p.nodes[i].queryContext : i \in {j \in DOMAIN p.nodes : p.nodes[j].kind = "retrieval_call"}}
    \cup (UNION {ToSet(Get(p.edges[i], "contextIds", <<>>)) : i \in DOMAIN p.edges})

\* What is gone is accounted for, however the passes are ordered, repeated, disabled or
\* fail: the removed blocks are those the evidence says were deduplicated and no warning
\* says were kept, each names a block of the same content that is still there, no node
\* and no edge refers to one of them, and the diff names the same blocks.
RemovalsAreTold ==
  LET first == configuration.plan
      Told(e) == e.kind = "context_change" /\ e.changeKind = "deduplicated"
      told == {e \in ToSet(evidence) : Told(e)}
      kept == {w.path[1] : w \in {v \in ToSet(warnings) : v.code = "duplicate_context_preserved"}}
      gone == {e \in told : e.contextIds[1] \notin kept}
      removed == IdsIn(first.context) \ IdsIn(plan.context)
      Keys(id) == {DuplicateKey(b) : b \in {c \in ToSet(first.context) : c.id = id}}
  IN /\ removed = {e.contextIds[1] : e \in gone}
     /\ \A e \in gone : /\ e.contextIds[2] \in IdsIn(plan.context)
                        /\ Keys(e.contextIds[1]) = Keys(e.contextIds[2])
     /\ ContextIdsOf(plan) \cap removed = {}
     /\ removed = {change.id[1] : change \in {c \in DiffPlans(first, plan, <<>>, <<>>) :
                                             c.kind = "removed" /\ c.what = "context"}}

\* What a reference stands for: its hash, if a block has one.
ContentOf(blocks, ref) ==
  LET hashed == {b \in ToSet(blocks) : b.contentRef = ref /\ HashOf(b) # Blank}
  IN IF hashed = {} THEN <<"ref", ref>> ELSE <<"hash", HashOf(CHOOSE b \in hashed : TRUE)>>

\* A model call still reads the same: whatever adapter lowers it, its messages have the
\* roles and contents, in the order of their first occurrences, that those of the first
\* plan have; only repetitions are gone, and the rest of the request is as it was.
RequestsReadTheSame ==
  LET first == configuration.plan
      Content(ref) == ContentOf(first.context, ref)
      Said(messages) ==
        Distinct([i \in DOMAIN messages |->
                    <<messages[i].role, Content(messages[i].contentRef)>>])
      Shown(blocks) == Distinct([i \in DOMAIN blocks |-> Content(blocks[i].contentRef)])
      OpenAI(p, node) ==
        LET shape == OpenAIShape(p, node, OpenAIStyleCapabilities, <<>>)
        IN [shape EXCEPT !.input = Said(@)]
      LiteLLM(p, node) ==
        LET shape == LiteLLMShape(p, node, LiteLLMCompatibleCapabilities, <<>>)
        IN [shape EXCEPT !.messages = Said(@)]
      Anthropic(p, node) ==
        LET shape == AnthropicShape(p, node, AnthropicStyleCapabilities, <<>>)
        IN [shape EXCEPT !.system = Shown(@), !.user = Shown(@)]
      ReadsTheSame(before, after) ==
        /\ OpenAI(first, before) = OpenAI(plan, after)
        /\ LiteLLM(first, before) = LiteLLM(plan, after)
        /\ Anthropic(first, before) = Anthropic(plan, after)
  IN \A id \in IdsIn(first.nodes) :
       LET before == ModelNode(first, id)
           after == ModelNode(plan, id)
       IN /\ Len(before) = Len(after)
          /\ \A i \in DOMAIN before : ReadsTheSame(before[i], after[i])
=============================================================================
