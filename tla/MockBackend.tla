---------------------------- MODULE MockBackend ----------------------------
(***************************************************************************)
(* The mock execution backend of packages/providers (mock-backend.ts) and  *)
(* the execution traces of packages/runtime that are taken of it and       *)
(* replayed (mock-trace.ts).                                               *)
(*                                                                         *)
(* Times are milliseconds since the start.  A response names its node and  *)
(* may have contextId, error, metadata, outputRef, usage and validation.   *)
(* Usage is a record of the measured metrics.  A trace leaves out what the *)
(* caller adds to it, its redactions and its estimates, which a replay     *)
(* does not look at; its own ids are constants.                            *)
(***************************************************************************)
EXTENDS PlanEstimates

-----------------------------------------------------------------------------
(***************************************************************************)
(* lower                                                                   *)
(***************************************************************************)

\* nodeInputContext, in a sequence that is empty if it is undefined
NodeInputContext(node) ==
  CASE node.kind \in {"approval", "cache_write", "context_transform", "model_call", "tool_call",
                      "validator"} ->
         IF Has(node, "inputContext") THEN <<node.inputContext>> ELSE <<>>
    [] node.kind = "retrieval_call" -> <<<<node.queryContext>>>>
    [] node.kind \in {"branch", "cache_read", "join"} -> <<>>

\* nodeOutputContext
NodeOutputContext(node) ==
  CASE node.kind \in {"cache_read", "context_transform", "model_call", "tool_call", "validator"} ->
         IF Has(node, "outputContext") THEN <<node.outputContext>> ELSE <<>>
    [] node.kind = "retrieval_call" -> <<node.resultContext>>
    [] node.kind \in {"approval", "branch", "cache_write", "join"} -> <<>>

StepKind(kind) ==
  CASE kind \in {"cache_read", "cache_write"} -> "cache"
    [] kind = "model_call" -> "model"
    [] kind = "retrieval_call" -> "retrieval"
    [] kind = "tool_call" -> "tool"
    [] OTHER -> kind

\* createProviderConstraintWarnings: a denied backend still lowers the plan.
MockConstraintWarnings(constraints) ==
  LET denied == "mock" \in ToSet(Get(constraints, "deniedProviders", <<>>))
      notAllowed == /\ Has(constraints, "allowedProviders")
                    /\ "mock" \notin ToSet(constraints.allowedProviders)
  IN IF denied \/ notAllowed
     THEN <<[code |-> "unsupported_capability", severity |-> "error"]>> ELSE <<>>

LowerMockPlan(plan) ==
  LET Step(i) == LET node == plan.nodes[i]
                 IN [id |-> <<i, node.id>>, kind |-> StepKind(node.kind), nodeId |-> node.id,
                     inputContext |-> NodeInputContext(node),
                     outputContext |-> NodeOutputContext(node)]
  IN [id |-> plan.id, steps |-> [i \in DOMAIN plan.nodes |-> Step(i)],
      warnings |-> CheckRequirements(MockCapabilities, <<>>,
                                     [checkedAt |-> plan.metadata.createdAt]).warnings
                     \o MockConstraintWarnings(plan.constraints)]

-----------------------------------------------------------------------------
(***************************************************************************)
(* execute: one step after the other, up to the first that fails.          *)
(***************************************************************************)

\* The response for a node, the last one of the fixture's; a node without one is
\* answered with nothing in particular.
ResponseFor(responses, nodeId) ==
  LET at == SelectLastInSeq(responses, LAMBDA r : r.nodeId = nodeId)
  IN IF at = 0 THEN [nodeId |-> nodeId] ELSE responses[at]

\* addUsage: the metrics a step measured are added to those measured so far.
AddUsage(usage, stepUsage) ==
  [metric \in DOMAIN usage \cup DOMAIN stepUsage |->
     Get(usage, metric, 0) + Get(stepUsage, metric, 0)]

\* The members of an object among some, as the code spreads them.
Keep(object, keys) == [key \in keys \cap DOMAIN object |-> object[key]]

\* createOutput and createOutputMetadata; defaultOutputRef is known by the node.
Output(step, response) ==
  LET told == IF Has(response, "contextId") THEN <<response.contextId>> ELSE step.outputContext
  IN [nodeId |-> step.nodeId, contextId |-> told,
      outputRef |-> Get(response, "outputRef", <<"default", step.nodeId>>),
      metadata |-> Keep(response, {"metadata", "validation"})]

\* The entry of a step in the log.
LogEntry(step, response, startedAt, completedAt) ==
  LET outcome == IF Has(response, "error") THEN [status |-> "failed"]
                 ELSE [status |-> "succeeded", outputRef |-> Output(step, response).outputRef]
  IN Over([stepId |-> step.id, nodeId |-> step.nodeId, startedAt |-> startedAt,
           completedAt |-> completedAt],
          Over(Keep(response, {"error", "usage", "validation"}), outcome))

\* One turn of the loop; a run that failed goes no further.
ExecuteStep(run, step, response) ==
  LET stepUsage == Get(response, "usage", <<>>)
      completedAt == run.elapsed + Get(stepUsage, "latencyMs", 0)
      logged == [run EXCEPT !.elapsed = completedAt, !.usage = AddUsage(@, stepUsage),
                            !.logs = Append(@, LogEntry(step, response, run.elapsed, completedAt))]
  IN CASE run.error # <<>> -> run
       [] run.error = <<>> /\ Has(response, "error") -> [logged EXCEPT !.error = <<response.error>>]
       [] OTHER -> [logged EXCEPT
                      !.outputs = Append(@, Output(step, response)),
                      !.validatorResults =
                        IF Has(response, "validation") THEN Append(@, response.validation) ELSE @]

\* The result of a run that has come to its end.
ResultOf(lowered, end) ==
  [loweredPlanId |-> lowered.id, usage |-> end.usage, logs |-> end.logs, outputs |-> end.outputs,
   validatorResults |-> end.validatorResults, error |-> end.error, warnings |-> lowered.warnings,
   status |-> IF end.error = <<>> THEN "succeeded"
              ELSE IF end.outputs = <<>> THEN "failed" ELSE "partial"]

Started == [elapsed |-> 0, usage |-> <<>>, logs |-> <<>>, outputs |-> <<>>,
            validatorResults |-> <<>>, error |-> <<>>]

\* The loop over the steps.
RunSteps(steps, responses) ==
  LET After[n \in 0 .. Len(steps)] ==
        IF n = 0 THEN Started
        ELSE ExecuteStep(After[n - 1], steps[n], ResponseFor(responses, steps[n].nodeId))
  IN After[Len(steps)]

ExecuteMockPlan(lowered, responses) == ResultOf(lowered, RunSteps(lowered.steps, responses))

-----------------------------------------------------------------------------
(***************************************************************************)
(* mock-trace.ts                                                           *)
(***************************************************************************)

\* Faulty: the trace keeps what the log says of a step and not what it writes.
TraceStepWithoutContext(step, log) == Over([step EXCEPT !.outputContext = <<>>], log)

\* createTraceStep: what the plan says of a step and what the log says of it.
TraceStep(step, log) == Over(step, log)

\* The lowered step of an entry.
StepOf(steps, log) == LastWith(steps, LAMBDA s : s.id = log.stepId)[1]

\* captureMockExecutionTrace: the steps that were logged, in the order of the log.
CaptureTrace(plan, lowered, responses, result) ==
  LET backend == [id |-> "mock", provider |-> "mock", kind |-> "mock", contractVersion |-> "v0",
                  mockBackendVersion |-> "v0"]
  IN [version |-> "v0", artifactId |-> "artifact", traceId |-> "trace", createdAt |-> 0,
      plan |-> [planId |-> plan.id, version |-> plan.version], backend |-> backend,
      timing |-> result.logs, redactions |-> <<>>, validatorResults |-> result.validatorResults,
      loweredPlanId |-> lowered.id, responses |-> responses, result |-> result,
      steps |-> [i \in DOMAIN result.logs |->
                   TraceStep(StepOf(lowered.steps, result.logs[i]), result.logs[i])]]

\* createLoweredPlanFromTrace
LoweredStep(step) == Keep(step, {"id", "kind", "nodeId", "inputContext", "outputContext"})

LoweredFromTrace(trace) ==
  [id |-> trace.loweredPlanId, warnings |-> trace.result.warnings,
   steps |-> [i \in DOMAIN trace.steps |-> LoweredStep(trace.steps[i])]]

\* traceStepToLogEntry
LogOfTraceStep(step) ==
  Keep(step, {"stepId", "nodeId", "startedAt", "completedAt", "status", "error", "outputRef",
              "usage", "validation"})

\* compareReplayResult: the parts of the result that came out differently.
ReplayMismatches(trace, result) ==
  LET expected == trace.result
      Parts == {"status", "outputs", "usage", "error", "validatorResults", "warnings"}
      logs == [i \in DOMAIN trace.steps |-> LogOfTraceStep(trace.steps[i])]
  IN {part \in Parts : result[part] # expected[part]}
       \cup IF result.logs # logs THEN {"logs"} ELSE {}

\* replayMockExecutionTrace
ReplayTrace(trace) ==
  ReplayMismatches(trace, ExecuteMockPlan(LoweredFromTrace(trace), trace.responses))

\* validateMockExecutionTraceArtifact, of an artifact as it was parsed
TraceErrors(artifact) ==
  LET Texts3(object, keys) == Typed(object, RequireScalars(object, keys))
      Present(key) == Require(artifact, key, Scalar)
  IN Typed(artifact,
       RequireScalars(artifact, {"artifactId", "traceId", "createdAt"})
         \cup Require(artifact, "version",
                LAMBDA v : Typed(v, Unless(v = "v0", "unknown_version")))
         \cup Require(artifact, "plan", LAMBDA v : Texts3(v, {"planId", "version"}))
         \cup Require(artifact, "backend",
                LAMBDA v : Texts3(v, {"id", "provider", "kind", "contractVersion",
                                      "mockBackendVersion"}))
         \cup UNION {Present(key) : key \in {"steps", "responses", "result", "validatorResults",
                                             "timing", "redactions"}})
=============================================================================
