--------------------------- MODULE DecisionsProofs ---------------------------
(***************************************************************************)
(* Theorems about the rest of what MCDecisions checks on small plans,      *)
(* exports, runs and requests: the trace of an execution replays, an       *)
(* export accounts for its events, the comparison of two runs decides of   *)
(* every call and does not depend on which run is taken for the earlier    *)
(* one, and what the fetch wrapper returns is the last attempt, with the   *)
(* secrets redacted.  That the plan which is executed has nodes at all is  *)
(* PlanInv of PlanProofs.                                                  *)
(***************************************************************************)
EXTENDS PlanProofs, TrajectoryComparison, FetchWrapper

-----------------------------------------------------------------------------
\* One object spread over another: what a part of its members keeps.
LEMMA KeepOver ==
  ASSUME NEW step, NEW log, NEW stepKeys, NEW logKeys,
         DOMAIN step = stepKeys, DOMAIN log \subseteq logKeys,
         stepKeys \cap logKeys \subseteq DOMAIN log,
         \A key \in stepKeys \cap logKeys : log[key] = step[key],
         IsRecord(step), IsRecord(log)
  PROVE  /\ Keep(Over(step, log), stepKeys) = step
         /\ Keep(Over(step, log), logKeys) = log
<1>1. DOMAIN Over(step, log) = stepKeys \cup DOMAIN log
  BY DEF Over
<1>2. \A key \in stepKeys : Over(step, log)[key] = step[key]
  BY DEF Over
<1>3. \A key \in DOMAIN log : Over(step, log)[key] = log[key]
  BY DEF Over
<1>4. stepKeys \cap DOMAIN Over(step, log) = DOMAIN step /\ logKeys \cap DOMAIN Over(step, log) = DOMAIN log
  BY <1>1
<1>5. Keep(Over(step, log), stepKeys) = [key \in DOMAIN step |-> step[key]]
  BY <1>2, <1>4 DEF Keep
<1>6. Keep(Over(step, log), logKeys) = [key \in DOMAIN log |-> log[key]]
  BY <1>3, <1>4 DEF Keep
<1>7. QED
  BY <1>5, <1>6 DEF IsRecord

-----------------------------------------------------------------------------
\* The members that a lowered step and an entry of the log have.
StepKeys == {"id", "kind", "nodeId", "inputContext", "outputContext"}
LogKeys == {"stepId", "nodeId", "startedAt", "completedAt", "status", "error", "outputRef",
            "usage", "validation"}

\* Steps as they are lowered: records, no two with one id.
AreSteps(steps) ==
  /\ IsList(steps)
  /\ \A i \in DOMAIN steps : DOMAIN steps[i] = StepKeys /\ IsRecord(steps[i])
  /\ \A i, j \in DOMAIN steps : steps[i].id = steps[j].id => i = j

\* The nodes of a plan are a list.
HasNodes(p) ==
  "nodes" \in DOMAIN p /\ Len(p.nodes) \in Nat /\ DOMAIN p.nodes = 1 .. Len(p.nodes)

\* A plan is lowered to steps, one for each node, with ids of their own.
LEMMA LoweredAreSteps ==
  ASSUME NEW p, HasNodes(p)
  PROVE  AreSteps(LowerMockPlan(p).steps)
<1> DEFINE n == Len(p.nodes)
           Step(i) == [id |-> <<i, p.nodes[i].id>>, kind |-> StepKind(p.nodes[i].kind),
                       nodeId |-> p.nodes[i].id, inputContext |-> NodeInputContext(p.nodes[i]),
                       outputContext |-> NodeOutputContext(p.nodes[i])]
           steps == LowerMockPlan(p).steps
<1>1. n \in Nat /\ DOMAIN p.nodes = 1 .. n
  BY DEF HasNodes
<1>2. steps = [i \in 1 .. n |-> Step(i)]
  BY <1>1 DEF LowerMockPlan
<1>3. \A i : DOMAIN Step(i) = StepKeys /\ IsRecord(Step(i)) /\ Step(i).id[1] = i
  BY DEF StepKeys, IsRecord
<1> HIDE DEF steps, Step, n
<1>4. IsList(steps) /\ DOMAIN steps = 1 .. n
  <2>1. steps = [i \in 1 .. n |-> steps[i]]
    BY <1>2
  <2>2. QED
    BY <1>1, <2>1, ListOf
<1>5. \A i \in 1 .. n : steps[i] = Step(i)
  BY <1>2
<1>6. AreSteps(steps)
  BY <1>3, <1>4, <1>5 DEF AreSteps
<1>7. QED
  BY <1>6 DEF steps

-----------------------------------------------------------------------------
\* The turn of the loop at a step.
Turn(run, steps, n, responses) ==
  ExecuteStep(run, steps[n], ResponseFor(responses, steps[n].nodeId))

\* The runs of the loop, after each number of steps up to m.
Runs(steps, responses, m, f) ==
  f = [n \in 0 .. m |-> IF n = 0 THEN Started ELSE Turn(f[n - 1], steps, n, responses)]

\* The loop over the steps comes to a run after each of them.
LEMMA LoopIsDefined ==
  ASSUME NEW steps, NEW responses, NEW top \in Nat
  PROVE  \E f : Runs(steps, responses, top, f)
<1> DEFINE P == {m \in 0 .. top : \E f : Runs(steps, responses, m, f)}
<1>1. 0 \in P
  <2> DEFINE f == [n \in 0 .. 0 |-> Started]
  <2>1. f = [n \in 0 .. 0 |-> IF n = 0 THEN Started ELSE Turn(f[n - 1], steps, n, responses)]
    OBVIOUS
  <2>2. Runs(steps, responses, 0, f)
    BY <2>1 DEF Runs
  <2>3. QED
    BY <2>2
<1>2. ASSUME NEW m \in 0 .. top - 1, m \in P PROVE m + 1 \in P
  <2>1. PICK f : Runs(steps, responses, m, f)
    BY <1>2
  <2> DEFINE next == [n \in 0 .. m + 1 |->
                        IF n = m + 1 THEN Turn(f[m], steps, m + 1, responses) ELSE f[n]]
             Value(g, n) == IF n = 0 THEN Started ELSE Turn(g[n - 1], steps, n, responses)
  <2>2. \A n \in 0 .. m : f[n] = Value(f, n)
    BY <2>1 DEF Runs
  <2>3. ASSUME NEW n \in 0 .. m + 1 PROVE next[n] = Value(next, n)
    <3>1. CASE n = m + 1
      <4>1. m \in 0 .. m + 1 /\ m # m + 1 /\ n - 1 = m /\ n # 0
        BY <3>1
      <4>2. next[m] = f[m]
        BY <4>1
      <4>3. next[n] = Turn(f[m], steps, n, responses)
        BY <3>1
      <4>4. QED
        BY <4>1, <4>2, <4>3
    <3>2. CASE n # m + 1
      <4>1. n \in 0 .. m /\ next[n] = f[n]
        BY <3>2
      <4>2. n = 0 \/ next[n - 1] = f[n - 1]
        BY <3>2
      <4>3. QED
        BY <2>2, <4>1, <4>2
    <3>3. QED
      BY <3>1, <3>2
  <2>4. Runs(steps, responses, m + 1, next)
    <3> HIDE DEF next, Value
    <3>1. next = [n \in 0 .. m + 1 |-> next[n]]
      BY DEF next
    <3>2. next = [n \in 0 .. m + 1 |-> Value(next, n)]
      BY <2>3, <3>1
    <3>3. QED
      BY <3>2 DEF Runs, Value
  <2>5. m + 1 \in 0 .. top
    OBVIOUS
  <2>6. QED
    BY <2>4, <2>5
<1> HIDE DEF P
<1>3. 0 .. top \subseteq P
  BY <1>1, <1>2, UpTo
<1>4. QED
  BY <1>3 DEF P

\* What the loop comes to is the last of its runs.
LEMMA LoopEnds ==
  ASSUME NEW steps, NEW responses, Len(steps) \in Nat
  PROVE  \E f : /\ f[0] = Started
                /\ \A n \in 1 .. Len(steps) : f[n] = Turn(f[n - 1], steps, n, responses)
                /\ RunSteps(steps, responses) = f[Len(steps)]
<1> DEFINE f == CHOOSE f : Runs(steps, responses, Len(steps), f)
<1>1. Runs(steps, responses, Len(steps), f)
  BY LoopIsDefined
<1>2. RunSteps(steps, responses) = f[Len(steps)]
  BY DEF RunSteps, Runs, Turn
<1> HIDE DEF f
<1>3. \A n \in 0 .. Len(steps) :
        f[n] = IF n = 0 THEN Started ELSE Turn(f[n - 1], steps, n, responses)
  BY <1>1 DEF Runs
<1>4. f[0] = Started /\ \A n \in 1 .. Len(steps) : f[n] = Turn(f[n - 1], steps, n, responses)
  BY <1>3
<1>5. QED
  BY <1>2, <1>4
-----------------------------------------------------------------------------
RunKeys == {"elapsed", "usage", "logs", "outputs", "validatorResults", "error"}

\* An entry of the log is of a step.
IsLogOf(log, step) ==
  /\ IsRecord(log) /\ DOMAIN log \subseteq LogKeys
  /\ {"stepId", "nodeId"} \subseteq DOMAIN log
  /\ log.stepId = step.id /\ log.nodeId = step.nodeId

\* The entry that is logged for a step has the ids of the step.
LEMMA EntryIsOfStep ==
  ASSUME NEW step, NEW response, NEW startedAt, NEW completedAt
  PROVE  IsLogOf(LogEntry(step, response, startedAt, completedAt), step)
<1> DEFINE ending == IF Has(response, "error") THEN [status |-> "failed"]
                      ELSE [status |-> "succeeded", outputRef |-> Output(step, response).outputRef]
           named == [stepId |-> step.id, nodeId |-> step.nodeId, startedAt |-> startedAt,
                     completedAt |-> completedAt]
           kept == Keep(response, {"error", "usage", "validation"})
           log == LogEntry(step, response, startedAt, completedAt)
<1>1. DOMAIN ending \subseteq {"status", "outputRef"}
  OBVIOUS
<1>2. DOMAIN named = {"stepId", "nodeId", "startedAt", "completedAt"}
      /\ named.stepId = step.id /\ named.nodeId = step.nodeId
  OBVIOUS
<1>3. DOMAIN kept \subseteq {"error", "usage", "validation"}
  BY DEF Keep
<1>4. log = Over(named, Over(kept, ending))
  BY DEF LogEntry
<1> HIDE DEF ending, named, kept, log
<1>5. DOMAIN log = DOMAIN named \cup DOMAIN kept \cup DOMAIN ending
  BY <1>4 DEF Over
<1>6. IsRecord(log) /\ log.stepId = step.id /\ log.nodeId = step.nodeId
  BY <1>2, <1>4 DEF Over, IsRecord
<1>7. DOMAIN log \subseteq LogKeys /\ {"stepId", "nodeId"} \subseteq DOMAIN log
  BY <1>1, <1>2, <1>3, <1>5 DEF LogKeys
<1>8. IsLogOf(log, step)
  BY <1>6, <1>7 DEF IsLogOf
<1>9. QED
  BY <1>8 DEF log

\* What a turn at a step makes of a run.
Turned(run, next, step) ==
  /\ DOMAIN next = RunKeys
  /\ run.error # <<>> => next = run
  /\ run.error = <<>> => \E log : IsLogOf(log, step) /\ next.logs = Append(run.logs, log)

\* A turn logs its step, unless a step has failed before.
LEMMA TurnLogs ==
  ASSUME NEW run, NEW steps, NEW n, NEW responses, DOMAIN run = RunKeys
  PROVE  Turned(run, Turn(run, steps, n, responses), steps[n])
<1> DEFINE response == ResponseFor(responses, steps[n].nodeId)
           stepUsage == Get(response, "usage", <<>>)
           completedAt == run.elapsed + Get(stepUsage, "latencyMs", 0)
           log == LogEntry(steps[n], response, run.elapsed, completedAt)
           logged == [run EXCEPT !.elapsed = completedAt, !.usage = AddUsage(@, stepUsage),
                                 !.logs = Append(@, log)]
           failed == [logged EXCEPT !.error = <<response.error>>]
           went == [logged EXCEPT
                      !.outputs = Append(@, Output(steps[n], response)),
                      !.validatorResults =
                        IF Has(response, "validation") THEN Append(@, response.validation) ELSE @]
           next == Turn(run, steps, n, responses)
<1>1. next = CASE run.error # <<>> -> run
               [] run.error = <<>> /\ Has(response, "error") -> failed
               [] OTHER -> went
  BY DEF Turn, ExecuteStep
<1>2. IsLogOf(log, steps[n])
  BY EntryIsOfStep
<1> HIDE DEF response, stepUsage, completedAt, log, next
<1>3. DOMAIN logged = RunKeys /\ logged.logs = Append(run.logs, log)
  BY DEF RunKeys
<1> HIDE DEF logged
<1>4. /\ DOMAIN failed = RunKeys /\ failed.logs = logged.logs
      /\ DOMAIN went = RunKeys /\ went.logs = logged.logs
  BY <1>3 DEF RunKeys
<1> HIDE DEF failed, went
<1>5. /\ DOMAIN next = RunKeys
      /\ run.error # <<>> => next = run
      /\ run.error = <<>> => next.logs = Append(run.logs, log)
  BY <1>1, <1>3, <1>4
<1>6. QED
  BY <1>2, <1>5 DEF next, Turned

\* What the loop has logged after n steps: the steps up to the first that failed, and
\* nothing has happened after that one.
Logged(run, f, steps, n) ==
  /\ DOMAIN run = RunKeys
  /\ IsList(run.logs) /\ Len(run.logs) \in 0 .. n
  /\ f[Len(run.logs)] = run
  /\ run.error = <<>> => Len(run.logs) = n
  /\ \A j \in 1 .. Len(run.logs) : IsLogOf(run.logs[j], steps[j])

\* The loop logs, after any number of its steps, what Logged says.
LEMMA LoopLogs ==
  ASSUME NEW steps, NEW responses, NEW f, NEW top \in Nat,
         f[0] = Started,
         \A n \in 1 .. top : f[n] = Turn(f[n - 1], steps, n, responses)
  PROVE  \A n \in 0 .. top : Logged(f[n], f, steps, n)
<1> DEFINE P == {n \in 0 .. top : Logged(f[n], f, steps, n)}
<1>1. 0 \in P
  <2>1. DOMAIN Started = RunKeys /\ Started.logs = <<>> /\ Started.error = <<>>
    BY DEF Started, RunKeys
  <2>2. IsList(<<>>) /\ Len(<<>>) = 0
    BY DEF IsList
  <2>3. Logged(f[0], f, steps, 0)
    BY <2>1, <2>2 DEF Logged
  <2>4. QED
    BY <2>3
<1>2. ASSUME NEW n \in 0 .. top - 1, n \in P PROVE n + 1 \in P
  <2>1. Logged(f[n], f, steps, n)
    BY <1>2
  <2>2. f[n + 1] = Turn(f[n], steps, n + 1, responses)
    OBVIOUS
  <2>3. /\ DOMAIN f[n + 1] = RunKeys
        /\ f[n].error # <<>> => f[n + 1] = f[n]
        /\ f[n].error = <<>> => \E log : /\ IsLogOf(log, steps[n + 1])
                                        /\ f[n + 1].logs = Append(f[n].logs, log)
    <3>1. DOMAIN f[n] = RunKeys
      BY <2>1 DEF Logged
    <3>2. Turned(f[n], Turn(f[n], steps, n + 1, responses), steps[n + 1])
      BY <3>1, TurnLogs
    <3>3. QED
      BY <2>2, <3>2 DEF Turned
  <2>4. CASE f[n].error # <<>>
    BY <2>1, <2>3, <2>4 DEF Logged
  <2>5. CASE f[n].error = <<>>
    <3>1. PICK log : IsLogOf(log, steps[n + 1]) /\ f[n + 1].logs = Append(f[n].logs, log)
      BY <2>3, <2>5
    <3> DEFINE logs == f[n].logs
               more == f[n + 1].logs
    <3>2. IsList(logs) /\ Len(logs) = n /\ \A j \in 1 .. n : IsLogOf(logs[j], steps[j])
      BY <2>1, <2>5 DEF Logged
    <3>3. logs \in Seq({logs[j] : j \in 1 .. n} \cup {log})
      <4> HIDE DEF logs
      <4>1. n \in Nat /\ logs = [j \in 1 .. n |-> logs[j]]
        BY <3>2 DEF IsList
      <4>2. logs \in Seq({logs[j] : j \in 1 .. n})
        BY <4>1, ListOf
      <4>3. QED
        BY <4>2
    <3>4. /\ more \in Seq({logs[j] : j \in 1 .. n} \cup {log}) /\ Len(more) = n + 1
          /\ more[n + 1] = log /\ \A j \in 1 .. n : more[j] = logs[j]
      BY <3>1, <3>2, <3>3, AppendProperties
    <3> HIDE DEF logs, more
    <3>5. IsList(more)
      BY <3>4 DEF IsList
    <3>6. \A j \in 1 .. n + 1 : IsLogOf(more[j], steps[j])
      BY <3>1, <3>2, <3>4
    <3>7. Logged(f[n + 1], f, steps, n + 1)
      BY <2>3, <3>4, <3>5, <3>6 DEF Logged, more
    <3>8. QED
      BY <3>7
  <2>6. QED
    BY <2>4, <2>5
<1> HIDE DEF P
<1>3. 0 .. top \subseteq P
  BY <1>1, <1>2, UpTo
<1>4. QED
  BY <1>3 DEF P
-----------------------------------------------------------------------------
\* What the step of a trace keeps of a lowered step and of the entry of its log.
IsTraced(steps, step, log) ==
  /\ LoweredStep(Over(step, log)) = step
  /\ LogOfTraceStep(Over(step, log)) = log
  /\ StepOf(steps, log) = step

\* A step of the trace keeps the step that was lowered and the entry of its log.
LEMMA TraceKeeps ==
  ASSUME NEW steps, NEW end, NEW f, AreSteps(steps), Logged(end, f, steps, Len(steps)),
         NEW i \in 1 .. Len(end.logs)
  PROVE  IsTraced(steps, steps[i], end.logs[i])
<1> DEFINE step == steps[i]
           log == end.logs[i]
<1>1. i \in DOMAIN steps /\ IsLogOf(log, step)
  BY DEF AreSteps, IsList, Logged
<1>2. DOMAIN step = StepKeys /\ IsRecord(step)
  BY <1>1 DEF AreSteps
<1>3. StepKeys \cap LogKeys = {"nodeId"}
  BY DEF StepKeys, LogKeys
<1>4. {j \in DOMAIN steps : steps[j].id = log.stepId} = {i}
  BY <1>1 DEF AreSteps, IsLogOf
<1> HIDE DEF step, log
<1>5. /\ DOMAIN log \subseteq LogKeys /\ StepKeys \cap LogKeys \subseteq DOMAIN log
      /\ \A key \in StepKeys \cap LogKeys : log[key] = step[key]
  BY <1>1, <1>3 DEF IsLogOf
<1>6. Keep(Over(step, log), StepKeys) = step /\ Keep(Over(step, log), LogKeys) = log
  <2>1. IsRecord(step) /\ IsRecord(log)
    BY <1>1, <1>2 DEF IsLogOf
  <2>2. QED
    BY <1>2, <1>5, <2>1, KeepOver
<1>7. LoweredStep(Over(step, log)) = step /\ LogOfTraceStep(Over(step, log)) = log
  <2>1. LoweredStep(Over(step, log)) = Keep(Over(step, log), StepKeys)
    BY DEF LoweredStep, StepKeys
  <2>2. LogOfTraceStep(Over(step, log)) = Keep(Over(step, log), LogKeys)
    BY DEF LogOfTraceStep, LogKeys
  <2>3. QED
    BY <1>6, <2>1, <2>2
<1>8. StepOf(steps, log) = step
  <2>1. (CHOOSE k \in {i} : \A j \in {i} : j <= k) = i
    OBVIOUS
  <2>2. LastWith(steps, LAMBDA s : s.id = log.stepId) = <<steps[i]>>
    BY <1>4, <2>1 DEF LastWith
  <2>3. QED
    BY <2>2 DEF step, StepOf
<1>9. QED
  BY <1>7, <1>8 DEF step, log, IsTraced

\* The loop over the steps that were logged comes to the same end.
LEMMA PrefixEndsAlike ==
  ASSUME NEW steps, NEW responses, IsList(steps)
  PROVE  LET end == RunSteps(steps, responses)
             prefix == [i \in 1 .. Len(end.logs) |-> steps[i]]
         IN /\ \E f : Logged(end, f, steps, Len(steps))
            /\ RunSteps(prefix, responses) = end
<1> DEFINE n == Len(steps)
           end == RunSteps(steps, responses)
           m == Len(end.logs)
           prefix == [i \in 1 .. m |-> steps[i]]
<1>1. n \in Nat
  BY DEF IsList
<1>2. PICK f : /\ f[0] = Started
               /\ \A k \in 1 .. n : f[k] = Turn(f[k - 1], steps, k, responses)
               /\ end = f[n]
  BY <1>1, LoopEnds
<1>3. Logged(end, f, steps, n)
  <2> HIDE DEF n, end
  <2>1. \A k \in 0 .. n : Logged(f[k], f, steps, k)
    BY <1>1, <1>2, LoopLogs
  <2>2. QED
    BY <1>1, <1>2, <2>1
<1>4. m \in 0 .. n /\ f[m] = end
  BY <1>3 DEF Logged
<1> HIDE DEF n, end, m
<1>5. Len(prefix) = m
  BY <1>1, <1>4, ListOf
<1>6. \A k \in 1 .. m : prefix[k] = steps[k]
  OBVIOUS
<1> HIDE DEF prefix
<1>7. PICK g : /\ g[0] = Started
               /\ \A k \in 1 .. m : g[k] = Turn(g[k - 1], prefix, k, responses)
               /\ RunSteps(prefix, responses) = g[m]
  <2>1. Len(prefix) \in Nat
    BY <1>1, <1>4, <1>5
  <2>2. \E g : /\ g[0] = Started
               /\ \A k \in 1 .. Len(prefix) : g[k] = Turn(g[k - 1], prefix, k, responses)
               /\ RunSteps(prefix, responses) = g[Len(prefix)]
    BY <2>1, LoopEnds
  <2>3. QED
    BY <1>5, <2>2
<1>8. 0 .. m \subseteq {k \in 0 .. m : g[k] = f[k]}
  <2> DEFINE P == {k \in 0 .. m : g[k] = f[k]}
  <2>1. m \in Nat /\ 0 \in P
    BY <1>1, <1>2, <1>4, <1>7
  <2>2. ASSUME NEW k \in 0 .. m - 1, k \in P PROVE k + 1 \in P
    <3>1. k + 1 \in 1 .. m /\ k + 1 \in 1 .. n /\ (k + 1) - 1 = k
      BY <1>1, <1>4, <2>1
    <3>2. /\ g[k + 1] = Turn(g[k], prefix, k + 1, responses)
          /\ f[k + 1] = Turn(f[k], steps, k + 1, responses)
      BY <1>2, <1>7, <3>1
    <3>3. prefix[k + 1] = steps[k + 1] /\ g[k] = f[k]
      BY <1>6, <2>2, <3>1
    <3>4. g[k + 1] = f[k + 1]
      BY <3>2, <3>3 DEF Turn
    <3>5. QED
      BY <3>1, <3>4
  <2> HIDE DEF P
  <2>3. 0 .. m \subseteq P
    BY <2>1, <2>2, UpTo
  <2>4. QED
    BY <2>3 DEF P
<1>9. RunSteps(prefix, responses) = end
  BY <1>1, <1>4, <1>7, <1>8
<1>10. QED
  BY <1>3, <1>9 DEF n, end, m, prefix

\* The trace of any execution of any plan replays.
LEMMA ReplayGivesTheResult ==
  ASSUME NEW p, NEW responses, HasNodes(p)
  PROVE  LET lowered == LowerMockPlan(p)
             trace == CaptureTrace(p, lowered, responses, ExecuteMockPlan(lowered, responses))
         IN /\ ReplayTrace(trace) = {}
            /\ \A i \in DOMAIN trace.steps : LoweredStep(trace.steps[i]) = lowered.steps[i]
<1> DEFINE lowered == LowerMockPlan(p)
           steps == lowered.steps
           end == RunSteps(steps, responses)
           result == ExecuteMockPlan(lowered, responses)
           trace == CaptureTrace(p, lowered, responses, result)
           again == LoweredFromTrace(trace)
           replayed == ExecuteMockPlan(again, responses)
           m == Len(end.logs)
           prefix == [i \in 1 .. m |-> steps[i]]
<1>1. AreSteps(steps)
  BY LoweredAreSteps
<1>2. result = ResultOf(lowered, end)
  BY DEF ExecuteMockPlan
<1> HIDE DEF lowered, end, result
<1>3. PICK f : Logged(end, f, steps, Len(steps))
  BY <1>1, PrefixEndsAlike DEF end, AreSteps
<1>4. RunSteps(prefix, responses) = end
  BY <1>1, PrefixEndsAlike DEF end, AreSteps
<1>5. \A i \in 1 .. m : IsTraced(steps, steps[i], end.logs[i])
  BY <1>1, <1>3, TraceKeeps
<1>6. IsList(end.logs) /\ DOMAIN end.logs = 1 .. m
  BY <1>3 DEF Logged, IsList
<1>7. /\ result.logs = end.logs /\ result.outputs = end.outputs /\ result.usage = end.usage
      /\ result.error = end.error /\ result.validatorResults = end.validatorResults
      /\ result.warnings = lowered.warnings
  BY <1>2 DEF ResultOf
<1>8. trace.steps = [i \in 1 .. m |-> Over(steps[i], end.logs[i])]
  <2>1. trace.steps = [i \in DOMAIN result.logs |->
                         TraceStep(StepOf(steps, result.logs[i]), result.logs[i])]
    BY DEF CaptureTrace
  <2>2. QED
    BY <1>5, <1>6, <1>7, <2>1 DEF TraceStep, IsTraced
<1>9. trace.result = result /\ trace.responses = responses
  BY DEF CaptureTrace
<1> HIDE DEF trace
<1>10. again.steps = prefix
  BY <1>5, <1>8 DEF LoweredFromTrace, IsTraced
<1>11. again.warnings = lowered.warnings
  BY <1>7, <1>9 DEF LoweredFromTrace
<1> HIDE DEF again
<1>12. replayed = ResultOf(again, end)
  BY <1>4, <1>10 DEF ExecuteMockPlan
<1> HIDE DEF replayed
<1>13. /\ replayed.logs = end.logs /\ replayed.outputs = end.outputs /\ replayed.usage = end.usage
       /\ replayed.error = end.error /\ replayed.validatorResults = end.validatorResults
       /\ replayed.warnings = lowered.warnings /\ replayed.status = result.status
  BY <1>2, <1>11, <1>12 DEF ResultOf
<1>14. end.logs = [i \in DOMAIN trace.steps |-> LogOfTraceStep(trace.steps[i])]
  <2>1. end.logs = [i \in 1 .. m |-> end.logs[i]]
    BY <1>6 DEF IsList
  <2>2. \A i \in 1 .. m : LogOfTraceStep(trace.steps[i]) = end.logs[i]
    BY <1>5, <1>8 DEF IsTraced
  <2>3. DOMAIN trace.steps = 1 .. m
    BY <1>8
  <2>4. QED
    BY <2>1, <2>2, <2>3
<1>15. ReplayMismatches(trace, replayed) = {}
  BY <1>7, <1>9, <1>13, <1>14 DEF ReplayMismatches
<1>16. ReplayTrace(trace) = {}
  BY <1>9, <1>15 DEF ReplayTrace, again, replayed
<1>17. \A i \in DOMAIN trace.steps : LoweredStep(trace.steps[i]) = steps[i]
  BY <1>5, <1>8 DEF IsTraced
<1>18. QED
  BY <1>16, <1>17 DEF trace, result, lowered
-----------------------------------------------------------------------------
\* The nodes of the plan that the passes leave are a list.
LEMMA PlansHaveNodes == PlanInv => HasNodes(plan)
<1> SUFFICES ASSUME PlanInv PROVE HasNodes(plan)
  OBVIOUS
<1>1. IsPlan(plan)
  BY DEF PlanInv, IsRightSoFar, IsLeft
<1>2. "nodes" \in DOMAIN plan /\ IsList(plan.nodes)
  BY <1>1 DEF IsPlan
<1>3. QED
  BY <1>2, ListItems DEF HasNodes

\* The trace of an execution replays from the moment it is taken.
LEMMA ExecuteReplays ==
  ASSUME PlanInv, Execute
  PROVE  TraceReplays'
<1>1. PICK responses \in Fixtures :
        LET lowered == LowerMockPlan(plan)
            result == ExecuteMockPlan(lowered, responses)
        IN execution' = {[lowered |-> lowered, result |-> result,
                          trace |-> CaptureTrace(plan, lowered, responses, result)]}
  BY DEF Execute
<1> DEFINE lowered == LowerMockPlan(plan)
           trace == CaptureTrace(plan, lowered, responses, ExecuteMockPlan(lowered, responses))
<1>2. HasNodes(plan)
  BY PlansHaveNodes
<1>3. /\ ReplayTrace(trace) = {}
      /\ \A i \in DOMAIN trace.steps : LoweredStep(trace.steps[i]) = lowered.steps[i]
  BY <1>2, ReplayGivesTheResult
<1>4. \A run \in execution' : run.lowered = lowered /\ run.trace = trace
  BY <1>1
<1> HIDE DEF lowered, trace
<1>5. QED
  BY <1>3, <1>4 DEF TraceReplays

\* The trace of an execution replays: executing what the trace keeps of the plan gives
\* the result again, whatever plan the passes left and whatever step failed
\* (captureMockExecutionTrace and replayMockExecutionTrace).
THEOREM TracesReplay == PipelineSpec => []TraceReplays
<1>1. PipelineInit => TraceReplays
  BY DEF PipelineInit, TraceReplays
<1>2. PlanInv /\ TraceReplays /\ [PipelineNext]_pipelineVars => TraceReplays'
  <2> SUFFICES ASSUME PlanInv, TraceReplays, [PipelineNext]_pipelineVars PROVE TraceReplays'
    OBVIOUS
  <2>1. CASE Execute
    BY <2>1, ExecuteReplays
  <2>2. CASE UNCHANGED execution
    BY <2>2 DEF TraceReplays
  <2>3. QED
    BY <2>1, <2>2 DEF PipelineNext, Optimize, Export, pipelineVars
<1>3. QED
  BY <1>1, <1>2, PlansStayRight, PTL DEF PipelineSpec

-----------------------------------------------------------------------------
\* What is kept of an event, and what is recorded.
LEMMA ShellHasNoDetail ==
  ASSUME NEW e, {"id", "kind", "privacy", "redaction"} \subseteq DOMAIN e, e.kind \in EventKinds
  PROVE  Shell(e).id = e.id /\ ~HasDetail(Shell(e))
<1>1. DetailKeys[e.kind] \notin {"id", "kind", "redaction", "summary"}
  BY DEF EventKinds, DetailKeys
<1>2. Shell(e).id = e.id /\ Shell(e).kind = e.kind
  BY <1>1 DEF Shell
<1>3. DetailKeys[e.kind] \notin DOMAIN Shell(e)
  BY DEF Shell
<1>4. QED
  BY <1>2, <1>3 DEF HasDetail

\* One event is kept, or kept as a shell or left out with a record of it; and it is not
\* kept with its detail if that is to stay out.
IsAccounted(e, part, exportMode) ==
  /\ \E k, r : part.events \in {<<>>, <<k>>} /\ part.redactions \in {<<>>, <<r>>}
  /\ \/ e \in ToSet(part.events)
     \/ /\ \E r \in ToSet(part.redactions) : r.eventId = e.id /\ r.mode = "redacted"
        /\ \E k \in ToSet(part.events) : k.id = e.id /\ ~HasDetail(k)
     \/ \E r \in ToSet(part.redactions) : r.eventId = e.id /\ r.mode = "omitted"
  /\ \A k \in ToSet(part.events) :
       HasDetail(k) => MayShowDetail(k, exportMode)

\* What the export makes of an event accounts for it (createEvidenceBundle's loop).
LEMMA OneEventIsAccounted ==
  ASSUME NEW e, NEW exportMode \in ExportModes,
         {"id", "kind", "privacy", "redaction"} \subseteq DOMAIN e, e.kind \in EventKinds
  PROVE  IsAccounted(e, ExportEvent(e, exportMode), exportMode)
<1> DEFINE omitted == exportMode = "metadata_only" /\ e.privacy.replayMode = "full_trace"
           declaredOmitted == exportMode = "full" /\ e.redaction.mode = "omitted"
           shell == \/ exportMode = "full" /\ ShouldRedactFullExport(e)
                    \/ exportMode = "redacted" /\ ShouldRedact(e)
           part == ExportEvent(e, exportMode)
           record(mode) == RedactionRecord(e, mode)
           own == e.redaction.mode
           open == MayShowDetail(e, exportMode)
<1>1. \/ /\ omitted
         /\ part = [events |-> <<>>, redactions |-> <<record("omitted")>>]
      \/ /\ declaredOmitted
         /\ part = [events |-> <<>>, redactions |-> <<record(own)>>]
      \/ part = [events |-> <<Shell(e)>>, redactions |-> <<record("redacted")>>]
      \/ /\ ~omitted /\ ~declaredOmitted /\ ~shell
         /\ part = [events |-> <<e>>,
                    redactions |-> IF own = "none" THEN <<>> ELSE <<record(own)>>]
  BY DEF ExportEvent
<1>2. \A mode : record(mode).eventId = e.id /\ record(mode).mode = mode
  BY DEF RedactionRecord
<1>3. Shell(e).id = e.id /\ ~HasDetail(Shell(e))
  BY ShellHasNoDetail
<1>4. \A x : ToSet(<<x>>) = {x}
  BY DEF ToSet
<1>5. ToSet(<<>>) = {}
  BY DEF ToSet
<1>6. ~omitted /\ ~declaredOmitted /\ ~shell => open
  BY DEF ShouldRedact, ShouldRedactFullExport, MayShowDetail, ExportModes
<1>7. declaredOmitted => own = "omitted"
  OBVIOUS
<1> HIDE DEF part, record, omitted, declaredOmitted, shell, own
<1>8. ASSUME NEW r, part = [events |-> <<>>, redactions |-> <<r>>],
             r.eventId = e.id, r.mode = "omitted"
      PROVE  IsAccounted(e, part, exportMode)
  <2>1. part.events = <<>> /\ part.redactions = <<r>>
    BY <1>8
  <2>2. ToSet(part.events) = {} /\ ToSet(part.redactions) = {r}
    BY <2>1, <1>4, <1>5
  <2>3. QED
    BY <2>1, <2>2, <1>8 DEF IsAccounted
<1>9. ASSUME part = [events |-> <<Shell(e)>>, redactions |-> <<record("redacted")>>]
      PROVE  IsAccounted(e, part, exportMode)
  <2>1. part.events = <<Shell(e)>> /\ part.redactions = <<record("redacted")>>
    BY <1>9
  <2>2. ToSet(part.events) = {Shell(e)} /\ ToSet(part.redactions) = {record("redacted")}
    BY <2>1, <1>4
  <2>3. QED
    BY <2>1, <2>2, <1>2, <1>3 DEF IsAccounted
<1>10. ASSUME open, part.events = <<e>>,
              part.redactions = <<>> \/ part.redactions = <<record(own)>>
       PROVE  IsAccounted(e, part, exportMode)
  <2>1. ToSet(part.events) = {e}
    BY <1>10, <1>4
  <2>2. QED
    BY <2>1, <1>10 DEF IsAccounted
<1>11. IsAccounted(e, part, exportMode)
  <2>1. CASE part = [events |-> <<>>, redactions |-> <<record("omitted")>>]
    BY <2>1, <1>2, <1>8
  <2>2. CASE declaredOmitted /\ part = [events |-> <<>>, redactions |-> <<record(own)>>]
    BY <2>2, <1>2, <1>7, <1>8
  <2>3. CASE part = [events |-> <<Shell(e)>>, redactions |-> <<record("redacted")>>]
    BY <2>3, <1>9
  <2>4. CASE ~omitted /\ ~declaredOmitted /\ ~shell /\
             part = [events |-> <<e>>,
                     redactions |-> IF own = "none" THEN <<>> ELSE <<record(own)>>]
    BY <2>4, <1>6, <1>10
  <2>5. QED
    BY <1>1, <2>1, <2>2, <2>3, <2>4
<1>12. QED
  BY <1>11 DEF part

\* What the loop over the events keeps of them, and what it records.
Parts(events, exportMode) == [i \in DOMAIN events |-> ExportEvent(events[i], exportMode)]
Exports(exported, events, exportMode) ==
  LET parts == Parts(events, exportMode)
  IN /\ exported.exportMode = exportMode
     /\ ToSet(exported.events) = UNION {ToSet(parts[i].events) : i \in DOMAIN events}
     /\ \A i \in DOMAIN events : ToSet(parts[i].redactions) \subseteq ToSet(exported.redactions)

\* A bundle whose parts account for their events accounts for the events.
LEMMA PartsAccount ==
  ASSUME NEW events, AreEvents(events), NEW exportMode \in ExportModes, NEW exported,
         Exports(exported, events, exportMode)
  PROVE  AccountsFor(exported, events)
<1> DEFINE parts == Parts(events, exportMode)
           kept == ToSet(exported.events)
           noted == ToSet(exported.redactions)
           recorded == {<<r.eventId, r.mode>> : r \in noted}
<1>1. \A i \in DOMAIN events : IsAccounted(events[i], parts[i], exportMode)
  BY OneEventIsAccounted DEF AreEvents, Parts
<1> HIDE DEF parts
<1>2. /\ exported.exportMode = exportMode
      /\ kept = UNION {ToSet(parts[i].events) : i \in DOMAIN events}
      /\ \A i \in DOMAIN events : ToSet(parts[i].redactions) \subseteq noted
  BY DEF Exports, parts
<1> HIDE DEF kept, noted
<1>3. ASSUME NEW i \in DOMAIN events
      PROVE  \/ events[i] \in kept
             \/ /\ <<events[i].id, "redacted">> \in recorded
                /\ \E k \in kept : k.id = events[i].id /\ ~HasDetail(k)
             \/ <<events[i].id, "omitted">> \in recorded
  <2> DEFINE e == events[i]
             part == parts[i]
  <2>1. IsAccounted(e, part, exportMode)
    BY <1>1
  <2>2. ToSet(part.events) \subseteq kept /\ ToSet(part.redactions) \subseteq noted
    BY <1>2
  <2>3. \A r \in noted : <<r.eventId, r.mode>> \in recorded
    OBVIOUS
  <2> HIDE DEF part, recorded
  <2>4. QED
    BY <2>1, <2>2, <2>3 DEF IsAccounted
<1>4. ASSUME NEW k \in kept, HasDetail(k)
      PROVE  MayShowDetail(k, exported.exportMode)
  <2>1. PICK i \in DOMAIN events : k \in ToSet(parts[i].events)
    BY <1>2
  <2>2. QED
    BY <1>1, <1>2, <1>4, <2>1 DEF IsAccounted
<1>5. ToSet(events) = {events[i] : i \in DOMAIN events}
  BY DEF ToSet
<1>6. QED
  BY <1>3, <1>4, <1>5 DEF AccountsFor, kept, noted

\* The lists that the parts of a bundle are joined from, and what comes of them.
LEMMA BundleExports ==
  ASSUME NEW events, AreEvents(events), NEW exportMode \in ExportModes,
         NEW S, NEW declared \in Seq(S), NEW carried
  PROVE  Exports(CreateEvidenceBundle(events, exportMode, declared, carried), events, exportMode)
<1> DEFINE parts == Parts(events, exportMode)
           n == Len(events)
           keptLists == [i \in DOMAIN parts |-> parts[i].events]
           recordLists == [i \in DOMAIN parts |-> parts[i].redactions]
           KeptEvents == UNION {ToSet(parts[i].events) : i \in 1 .. n}
           Records == UNION {ToSet(parts[i].redactions) : i \in 1 .. n}
           exported == CreateEvidenceBundle(events, exportMode, declared, carried)
<1>1. n \in Nat /\ DOMAIN events = 1 .. n /\ DOMAIN parts = 1 .. n
  BY DEF AreEvents, IsList, Parts
<1>2. ASSUME NEW i \in 1 .. n
      PROVE  /\ parts[i].events \in Seq(KeptEvents) /\ parts[i].redactions \in Seq(Records)
  <2>1. IsAccounted(events[i], parts[i], exportMode)
    BY <1>1, OneEventIsAccounted DEF AreEvents, Parts
  <2>2. PICK k, r : parts[i].events \in {<<>>, <<k>>} /\ parts[i].redactions \in {<<>>, <<r>>}
    BY <2>1 DEF IsAccounted
  <2> DEFINE part == parts[i]
  <2>3. ToSet(part.events) \subseteq KeptEvents /\ ToSet(part.redactions) \subseteq Records
    OBVIOUS
  <2> HIDE DEF part, KeptEvents, Records
  <2>4. part.events \in Seq(KeptEvents)
    <3>1. CASE part.events = <<>>
      BY <3>1
    <3>2. CASE part.events = <<k>>
      <4>1. ToSet(<<k>>) = {k}
        BY DEF ToSet
      <4>2. k \in KeptEvents
        BY <2>3, <3>2, <4>1
      <4>3. QED
        BY <3>2, <4>2
    <3>3. QED
      BY <2>2, <3>1, <3>2 DEF part
  <2>5. part.redactions \in Seq(Records)
    <3>1. CASE part.redactions = <<>>
      BY <3>1
    <3>2. CASE part.redactions = <<r>>
      <4>1. ToSet(<<r>>) = {r}
        BY DEF ToSet
      <4>2. r \in Records
        BY <2>3, <3>2, <4>1
      <4>3. QED
        BY <3>2, <4>2
    <3>3. QED
      BY <2>2, <3>1, <3>2 DEF part
  <2>6. QED
    BY <2>4, <2>5 DEF part
<1>3. /\ keptLists = [i \in 1 .. n |-> keptLists[i]] /\ recordLists = [i \in 1 .. n |-> recordLists[i]]
      /\ \A i \in 1 .. n : keptLists[i] = parts[i].events /\ recordLists[i] = parts[i].redactions
  BY <1>1
<1>4. /\ exported.exportMode = exportMode
      /\ exported.events = FlattenSeq(keptLists)
      /\ exported.redactions = declared \o FlattenSeq(recordLists)
  BY DEF CreateEvidenceBundle, Parts
<1> HIDE DEF n, parts, keptLists, recordLists, exported, KeptEvents, Records
<1>5. ToSet(FlattenSeq(keptLists)) = UNION {ToSet(keptLists[i]) : i \in 1 .. n}
  BY <1>1, <1>2, <1>3, FlattenItems
<1>6. /\ FlattenSeq(recordLists) \in Seq(Records)
      /\ ToSet(FlattenSeq(recordLists)) = UNION {ToSet(recordLists[i]) : i \in 1 .. n}
  BY <1>1, <1>2, <1>3, FlattenItems
<1>7. ToSet(FlattenSeq(recordLists)) \subseteq ToSet(exported.redactions)
  BY <1>4, <1>6, JoinedItems
<1>8. UNION {ToSet(keptLists[i]) : i \in 1 .. n} = UNION {ToSet(parts[i].events) : i \in DOMAIN events}
  BY <1>1, <1>3
<1>9. \A i \in DOMAIN events : ToSet(parts[i].redactions) \subseteq ToSet(exported.redactions)
  BY <1>1, <1>3, <1>6, <1>7
<1>10. QED
  BY <1>4, <1>5, <1>8, <1>9 DEF Exports, parts, exported

\* A bundle accounts for the events that it is made of.
LEMMA BundleAccounts ==
  ASSUME NEW events, AreEvents(events), NEW exportMode \in ExportModes, NEW carried
  PROVE  AccountsFor(CreateEvidenceBundle(events, exportMode, <<>>, carried), events)
<1>1. <<>> \in Seq({})
  OBVIOUS
<1>2. Exports(CreateEvidenceBundle(events, exportMode, <<>>, carried), events, exportMode)
  BY <1>1, BundleExports
<1>3. QED
  BY <1>2, PartsAccount

\* Whatever events are exported in whatever mode, none is lost without a record, and
\* none is in the bundle with a detail that the mode does not show: of sensitive events
\* in the modes that redact, of full-trace ones in metadata_only (createEvidenceBundle).
THEOREM ExportsAccount == PipelineSpec => []ExportsAccountForEvents
<1>1. PipelineInit => ExportsAccountForEvents
  BY DEF PipelineInit, ExportsAccountForEvents
<1>2. ExportsAccountForEvents /\ [PipelineNext]_pipelineVars => ExportsAccountForEvents'
  <2> SUFFICES ASSUME ExportsAccountForEvents, [PipelineNext]_pipelineVars PROVE ExportsAccountForEvents'
    OBVIOUS
  <2>1. CASE Optimize
    BY <2>1 DEF Optimize, ExportsAccountForEvents
  <2>2. CASE Execute
    BY <2>2 DEF Execute, ExportsAccountForEvents
  <2>3. CASE Export
    <3>1. PICK run \in execution, observed \in Observations, mode \in ExportModes,
               optIn \in BOOLEAN :
            bundle' = {[events |-> EventsToExport(run, observed),
                        exported |-> CreateEvidenceBundle(EventsToExport(run, observed), mode,
                                                          <<>>, Carried(optIn))]}
      BY <2>3 DEF Export
    <3> DEFINE events == EventsToExport(run, observed)
               carried == Carried(optIn)
    <3>2. bundle' = {[events |-> events,
                      exported |-> CreateEvidenceBundle(events, mode, <<>>, carried)]}
      BY <3>1
    <3> HIDE DEF events, carried
    <3>3. AreEvents(events)
            => AccountsFor(CreateEvidenceBundle(events, mode, <<>>, carried), events)
      BY BundleAccounts
    <3>4. QED
      BY <3>2, <3>3 DEF ExportsAccountForEvents
  <2>4. CASE UNCHANGED pipelineVars
    BY <2>4 DEF pipelineVars, ExportsAccountForEvents
  <2>5. QED
    BY <2>1, <2>2, <2>3, <2>4 DEF PipelineNext
<1>3. QED
  BY <1>1, <1>2, PTL DEF PipelineSpec

-----------------------------------------------------------------------------
\* Whichever of two values comes first, comparing them comes to the same.
LEMMA ComparedAlike ==
  ASSUME NEW before, NEW after, NEW match, NEW same, match \in BOOLEAN, same \in BOOLEAN,
         match <=> same
  PROVE  Compared(before, after, match) = Compared(after, before, same)
BY DEF Compared, PassedIf

\* The side effects of two tool calls give the same reasons either way, and none only if
\* the calls are of one class.
LEMMA SideEffectsAlike ==
  ASSUME NEW p, NEW c, p.kind = c.kind
  PROVE  /\ SideEffectReasons(p, c) = SideEffectReasons(c, p)
         /\ c.kind = "tool_call" /\ SideEffectReasons(p, c) = {}
              => SideEffectClass(p) = SideEffectClass(c)
<1> DEFINE x == SideEffectClass(p)
           y == SideEffectClass(c)
<1>1. x # y => Cardinality({x, y}) = 2 /\ Cardinality({y, x}) = 2
  <2>1. ASSUME NEW a, NEW b, a # b PROVE Cardinality({a, b}) = 2
    <3>1. IsFiniteSet({a}) /\ Cardinality({a}) = 1 /\ b \notin {a}
      BY <2>1, FS_Singleton
    <3>2. Cardinality({a} \cup {b}) = Cardinality({a}) + 1
      BY <3>1, FS_AddElement
    <3>3. {a, b} = {a} \cup {b}
      OBVIOUS
    <3>4. QED
      BY <3>1, <3>2, <3>3
  <2> HIDE DEF x, y
  <2>2. QED
    BY <2>1
<1>2. x = y => Cardinality({x, y}) # 2
  <2>1. Cardinality({x}) = 1
    BY FS_Singleton
  <2>2. x = y => {x, y} = {x}
    OBVIOUS
  <2>3. QED
    BY <2>1, <2>2
<1>3. {x, y} = {y, x}
  OBVIOUS
<1>4. \A keys : MatchingReplayEvidence(p, c, keys) <=> MatchingReplayEvidence(c, p, keys)
  BY DEF MatchingReplayEvidence
<1>5. SideEffectReasons(p, c) =
        IF c.kind # "tool_call" THEN {}
        ELSE IF {x, y} \cap {AbsentMember, "unknown"} # {} THEN {"side_effect_unknown"}
        ELSE IF Cardinality({x, y}) = 2 THEN {"side_effect_policy_missing"}
        ELSE IF y = "non_idempotent_mutation" THEN {"side_effecting_tool"}
        ELSE IF MatchingReplayEvidence(p, c, ReplayEvidence[y]) THEN {}
        ELSE {"side_effect_policy_missing"}
  BY DEF SideEffectReasons
<1>6. SideEffectReasons(c, p) =
        IF p.kind # "tool_call" THEN {}
        ELSE IF {y, x} \cap {AbsentMember, "unknown"} # {} THEN {"side_effect_unknown"}
        ELSE IF Cardinality({y, x}) = 2 THEN {"side_effect_policy_missing"}
        ELSE IF x = "non_idempotent_mutation" THEN {"side_effecting_tool"}
        ELSE IF MatchingReplayEvidence(c, p, ReplayEvidence[x]) THEN {}
        ELSE {"side_effect_policy_missing"}
  BY DEF SideEffectReasons
<1> HIDE DEF x, y
<1>7. SideEffectReasons(p, c) = SideEffectReasons(c, p)
  BY <1>1, <1>2, <1>3, <1>4, <1>5, <1>6
<1>8. c.kind = "tool_call" /\ SideEffectReasons(p, c) = {} => x = y
  BY <1>1, <1>5
<1>9. QED
  BY <1>7, <1>8 DEF x, y

\* Two calls have changed, or not, either way; and if not, the reasons against reuse are
\* the same.
LEMMA ChecksAlike ==
  ASSUME NEW one, NEW other, NEW p, NEW c
  PROVE  /\ HasChanged(p, c) <=> HasChanged(c, p)
         /\ p.kind = c.kind => Reasons(one, other, p, c) = Reasons(other, one, c, p)
<1>1. CheckCacheKeyEquality(p, c) = CheckCacheKeyEquality(c, p)
  BY ComparedAlike DEF CheckCacheKeyEquality
<1>2. CheckDependencyEquality(p, c) = CheckDependencyEquality(c, p)
  BY DEF CheckDependencyEquality, PassedIf
<1>3. CheckRuntimeCompatibility(one, other) = CheckRuntimeCompatibility(other, one)
  BY ComparedAlike DEF CheckRuntimeCompatibility
<1>4. CheckStatusSuccess(p, c) = CheckStatusSuccess(c, p)
  BY DEF CheckStatusSuccess, PassedIf
<1>5. p.kind = c.kind => CheckValidatorRequirements(p, c) = CheckValidatorRequirements(c, p)
  BY DEF CheckValidatorRequirements, PassedIf
<1>6. CheckPolicyConstraints(p, c) = CheckPolicyConstraints(c, p)
  BY ComparedAlike DEF CheckPolicyConstraints
<1>7. CheckFreshnessConstraints(p, c) = CheckFreshnessConstraints(c, p)
  <2>1. p.files \cup c.files = c.files \cup p.files
    OBVIOUS
  <2>2. QED
    BY <2>1 DEF CheckFreshnessConstraints
<1>8. p.kind = c.kind => SideEffectReasons(p, c) = SideEffectReasons(c, p)
  BY SideEffectsAlike
<1>9. p.kind = c.kind => Reasons(one, other, p, c) = Reasons(other, one, c, p)
  BY <1>1, <1>2, <1>3, <1>4, <1>5, <1>6, <1>7, <1>8, Zenon DEF Reasons
<1>10. QED
  BY <1>1, <1>9 DEF HasChanged

-----------------------------------------------------------------------------
\* The node with an id, where there is one.
At(graph, id) == CHOOSE node \in NodesWithId(graph, id) : TRUE

\* The calls of the current run that are reviewed.
Candidates(previous, current) ==
  {c \in ToSet(current.nodes) : /\ IsCall(c) /\ NodesWithId(previous, c.id) # {}
                                /\ ~HasChanged(At(previous, c.id), c)}

ReviewOf(previous, current, c) == Review(previous, current, At(previous, c.id), c)

\* What is decided of a review, whatever becomes of it.
Decided(review) ==
  IF review.reasons = {} THEN DecideReusableNode(review) ELSE DecideBlockedCandidate(review)

\* What a decision keeps of its review.
LEMMA DecisionKeeps ==
  ASSUME NEW review, NEW ending, NEW reasons, "nodeId" \in DOMAIN review
  PROVE  /\ Decision(review, ending, reasons).nodeId = review.nodeId
         /\ Decision(review, ending, reasons).status = ending
         /\ "reasons" \in DOMAIN review => Decision(review, ending, reasons).reasons = reasons
BY DEF Decision

\* Every candidate is decided of, as its review says, and nothing else is.
LEMMA DecisionsAre ==
  ASSUME NEW previous, NEW current
  PROVE  Decisions(CompareObservedExecutionGraphs(previous, current))
           = {Decided(ReviewOf(previous, current, c)) : c \in Candidates(previous, current)}
<1> DEFINE comparison == CompareObservedExecutionGraphs(previous, current)
           reviews == {ReviewOf(previous, current, c) : c \in Candidates(previous, current)}
           reusable == {r \in reviews : r.reasons = {}}
<1>1. /\ comparison.blockedCandidates = reviews \ reusable
      /\ comparison.reusableModelCalls = {r \in reusable : r.operationKind = "model_call"}
      /\ comparison.reusableToolCalls = {r \in reusable : r.operationKind = "tool_call"}
  <2> DEFINE calls == {c \in ToSet(current.nodes) : IsCall(c)}
             missing == {c \in calls : NodesWithId(previous, c.id) = {}}
             changed == {c \in calls \ missing : HasChanged(At(previous, c.id), c)}
  <2>1. Candidates(previous, current) = calls \ (missing \cup changed)
    BY DEF Candidates
  <2>2. reviews = {Review(previous, current, At(previous, c.id), c) : c \in calls \ (missing \cup changed)}
    BY <2>1 DEF ReviewOf
  <2>3. /\ comparison.blockedCandidates = 
            {Review(previous, current, At(previous, c.id), c) : c \in calls \ (missing \cup changed)}
               \ {r \in {Review(previous, current, At(previous, c.id), c) : c \in calls \ (missing \cup changed)} : r.reasons = {}}
        /\ comparison.reusableModelCalls =
             {q \in {r \in {Review(previous, current, At(previous, c.id), c) : c \in calls \ (missing \cup changed)} : r.reasons = {}} : q.operationKind = "model_call"}
        /\ comparison.reusableToolCalls =
             {q \in {r \in {Review(previous, current, At(previous, c.id), c) : c \in calls \ (missing \cup changed)} : r.reasons = {}} : q.operationKind = "tool_call"}
    BY DEF CompareObservedExecutionGraphs, At
  <2>4. QED
    BY <2>2, <2>3
<1>2. \A r \in reviews : r.operationKind \in {"model_call", "tool_call"}
  BY DEF ReviewOf, Review, Candidates, IsCall
<1> HIDE DEF comparison, reviews
<1>3. comparison.reusableModelCalls \cup comparison.reusableToolCalls = reusable
  BY <1>1, <1>2
<1>4. Decisions(comparison)
        = {DecideReusableNode(r) : r \in reusable}
            \cup {DecideBlockedCandidate(r) : r \in reviews \ reusable}
  BY <1>1, <1>3 DEF Decisions
<1>5. Decisions(comparison) = {Decided(r) : r \in reviews}
  BY <1>4 DEF Decided
<1>6. QED
  BY <1>5 DEF comparison, reviews

\* The ids of the calls that have changed.
LEMMA ChangedAre ==
  ASSUME NEW previous, NEW current
  PROVE  ChangedIds(CompareObservedExecutionGraphs(previous, current))
           = {c.id : c \in {n \in ToSet(current.nodes) : IsCall(n)} \ Candidates(previous, current)}
<1> DEFINE comparison == CompareObservedExecutionGraphs(previous, current)
           calls == {c \in ToSet(current.nodes) : IsCall(c)}
           missing == {c \in calls : NodesWithId(previous, c.id) = {}}
           changed == {c \in calls \ missing : HasChanged(At(previous, c.id), c)}
<1>1. comparison.changedNodes = {ChangedNode(c, "missing_previous_node") : c \in missing}
                                  \cup {ChangedNode(c, "cache_key_changed") : c \in changed}
  BY DEF CompareObservedExecutionGraphs, At
<1>2. calls \ Candidates(previous, current) = missing \cup changed
  BY DEF Candidates
<1> HIDE DEF comparison, missing, changed
<1>3. \A c, reason : ChangedNode(c, reason).nodeId = c.id
  BY DEF ChangedNode
<1>4. {n.nodeId : n \in comparison.changedNodes} = {c.id : c \in missing \cup changed}
  BY <1>1, <1>3
<1>5. QED
  BY <1>2, <1>4 DEF ChangedIds, comparison

\* What is decided of a call, and why.
Status(kind, class, reasons) ==
  IF reasons # {} THEN "blocked"
  ELSE IF kind = "tool_call" /\ class = "read_only" THEN "allowed" ELSE "needs_review"
Why(kind, class, reasons) ==
  IF reasons # {} \/ (kind = "tool_call" /\ class = "read_only") THEN reasons
  ELSE IF kind = "model_call" THEN {"model_reuse_needs_review"} ELSE {"mutation_reuse_needs_review"}
VerdictOf(previous, current, p, c) ==
  LET reasons == Reasons(previous, current, p, c)
  IN <<c.id, Status(c.kind, SideEffectClass(c), reasons), Why(c.kind, SideEffectClass(c), reasons)>>

\* A decision says of a call what the reasons and its side effects come to.
LEMMA DecidedAre ==
  ASSUME NEW previous, NEW current, NEW c, IsCall(c)
  PROVE  LET p == At(previous, c.id)
             d == Decided(ReviewOf(previous, current, c))
         IN <<d.nodeId, d.status, d.reasons>> = VerdictOf(previous, current, p, c)
<1> DEFINE p == At(previous, c.id)
           reasons == Reasons(previous, current, p, c)
           class == SideEffectClass(c)
           review == ReviewOf(previous, current, c)
           d == Decided(review)
<1>1. /\ {"nodeId", "reasons"} \subseteq DOMAIN review
      /\ review.nodeId = c.id /\ review.reasons = reasons /\ review.operationKind = c.kind
      /\ c.kind = "tool_call" => review.sideEffectClass = class
  BY DEF ReviewOf, Review
<1>2. c.kind \in {"model_call", "tool_call"}
  BY DEF IsCall
<1> HIDE DEF review, reasons, class
<1>3. \A ending, why : /\ Decision(review, ending, why).nodeId = c.id
                       /\ Decision(review, ending, why).status = ending
                       /\ Decision(review, ending, why).reasons = why
  BY <1>1, DecisionKeeps
<1>4. d = Decision(review, Status(c.kind, class, reasons), Why(c.kind, class, reasons))
  <2>1. CASE reasons # {}
    BY <1>1, <2>1 DEF Decided, DecideBlockedCandidate, Status, Why
  <2>2. CASE reasons = {} /\ c.kind = "model_call"
    BY <1>1, <2>2 DEF Decided, DecideReusableNode, Status, Why
  <2>3. CASE reasons = {} /\ c.kind = "tool_call" /\ class = "read_only"
    BY <1>1, <2>3 DEF Decided, DecideReusableNode, Status, Why
  <2>4. CASE reasons = {} /\ c.kind = "tool_call" /\ class # "read_only"
    BY <1>1, <2>4 DEF Decided, DecideReusableNode, Status, Why
  <2>5. QED
    BY <1>2, <2>1, <2>2, <2>3, <2>4
<1> HIDE DEF d
<1>5. d.nodeId = c.id /\ d.status = Status(c.kind, class, reasons)
      /\ d.reasons = Why(c.kind, class, reasons)
  BY <1>3, <1>4
<1>6. QED
  BY <1>5 DEF d, review, reasons, class, VerdictOf

\* The two nodes of an id that both runs make a call of.
LEMMA SharedCalls ==
  ASSUME NEW graph, HasUniqueIds(graph), NEW id \in CallIds(graph)
  PROVE  /\ At(graph, id) \in ToSet(graph.nodes) /\ At(graph, id).id = id /\ IsCall(At(graph, id))
         /\ NodesWithId(graph, id) # {}
         /\ \A c \in ToSet(graph.nodes) : c.id = id => c = At(graph, id)
<1>1. PICK c \in ToSet(graph.nodes) : IsCall(c) /\ c.id = id
  BY DEF CallIds
<1>2. c \in NodesWithId(graph, id)
  BY <1>1 DEF NodesWithId
<1>3. At(graph, id) \in NodesWithId(graph, id)
  BY <1>2 DEF At
<1>4. At(graph, id) \in ToSet(graph.nodes) /\ At(graph, id).id = id
  BY <1>3 DEF NodesWithId
<1>5. \A n \in ToSet(graph.nodes) : n.id = id => n = At(graph, id)
  BY <1>4 DEF HasUniqueIds
<1>6. QED
  BY <1>1, <1>2, <1>4, <1>5

Both(one, other) == CallIds(one) \cap CallIds(other)

\* Of what both runs make a call of, what has changed.
LEMMA SharedChanges ==
  ASSUME NEW previous, NEW current, HasUniqueIds(previous), HasUniqueIds(current)
  PROVE  ChangedIds(CompareObservedExecutionGraphs(previous, current)) \cap Both(previous, current)
           = {id \in Both(previous, current) : HasChanged(At(previous, id), At(current, id))}
<1> DEFINE changes == ChangedIds(CompareObservedExecutionGraphs(previous, current))
           calls == {n \in ToSet(current.nodes) : IsCall(n)}
<1>1. changes = {c.id : c \in calls \ Candidates(previous, current)}
  BY ChangedAre
<1> HIDE DEF changes
<1>2. ASSUME NEW id \in Both(previous, current)
      PROVE  id \in changes <=> HasChanged(At(previous, id), At(current, id))
  <2>1. /\ NodesWithId(previous, id) # {}
        /\ At(current, id) \in calls /\ At(current, id).id = id
        /\ \A c \in ToSet(current.nodes) : c.id = id => c = At(current, id)
    BY SharedCalls DEF Both
  <2>2. At(current, id) \in Candidates(previous, current)
          <=> ~HasChanged(At(previous, id), At(current, id))
    BY <2>1 DEF Candidates
  <2>3. id \in changes <=> At(current, id) \notin Candidates(previous, current)
    BY <1>1, <2>1
  <2>4. QED
    BY <2>2, <2>3
<1>3. QED
  BY <1>2 DEF changes

\* The verdicts on what both runs make a call of.
LEMMA SharedVerdicts ==
  ASSUME NEW previous, NEW current, HasUniqueIds(previous), HasUniqueIds(current)
  PROVE  Verdicts(CompareObservedExecutionGraphs(previous, current), Both(previous, current))
           = {VerdictOf(previous, current, At(previous, id), At(current, id)) :
                id \in {i \in Both(previous, current) :
                          ~HasChanged(At(previous, i), At(current, i))}}
<1> DEFINE comparison == CompareObservedExecutionGraphs(previous, current)
           both == Both(previous, current)
           same == {i \in both : ~HasChanged(At(previous, i), At(current, i))}
           candidates == Candidates(previous, current)
           D(c) == Decided(ReviewOf(previous, current, c))
           V(c) == VerdictOf(previous, current, At(previous, c.id), c)
<1>1. Decisions(comparison) = {D(c) : c \in candidates}
  BY DecisionsAre
<1>2. \A c \in candidates : <<D(c).nodeId, D(c).status, D(c).reasons>> = V(c)
  BY DecidedAre DEF Candidates
<1>3. \A c \in candidates : D(c).nodeId = c.id
  BY <1>2 DEF VerdictOf
<1> HIDE DEF comparison, D, V
<1>4. Verdicts(comparison, both) = {V(c) : c \in {k \in candidates : k.id \in both}}
  <2>1. Verdicts(comparison, both)
          = {<<d.nodeId, d.status, d.reasons>> : d \in {e \in Decisions(comparison) : e.nodeId \in both}}
    BY DEF Verdicts
  <2>2. {e \in Decisions(comparison) : e.nodeId \in both} = {D(c) : c \in {k \in candidates : k.id \in both}}
    BY <1>1, <1>3
  <2>3. QED
    BY <1>2, <2>1, <2>2
<1>5. \A id \in both : /\ NodesWithId(previous, id) # {}
                       /\ At(current, id) \in ToSet(current.nodes)
                       /\ At(current, id).id = id /\ IsCall(At(current, id))
                       /\ \A c \in ToSet(current.nodes) : c.id = id => c = At(current, id)
  BY SharedCalls DEF Both
<1>6. {k \in candidates : k.id \in both} = {At(current, id) : id \in same}
  <2>1. ASSUME NEW k \in candidates, k.id \in both
        PROVE  k.id \in same /\ k = At(current, k.id)
    <3>1. k \in ToSet(current.nodes) /\ ~HasChanged(At(previous, k.id), k)
      BY DEF Candidates
    <3>2. k = At(current, k.id)
      BY <1>5, <2>1, <3>1
    <3>3. QED
      BY <2>1, <3>1, <3>2
  <2>2. ASSUME NEW id \in same
        PROVE  At(current, id) \in candidates /\ At(current, id).id \in both
    BY <1>5 DEF Candidates
  <2> HIDE DEF candidates, same, both
  <2>3. QED
    BY <2>1, <2>2
<1>7. \A id \in both : V(At(current, id)) = VerdictOf(previous, current, At(previous, id), At(current, id))
  BY <1>5 DEF V
<1>8. {V(c) : c \in {At(current, id) : id \in same}}
        = {VerdictOf(previous, current, At(previous, id), At(current, id)) : id \in same}
  BY <1>7
<1>9. QED
  BY <1>4, <1>6, <1>8 DEF comparison

\* Whichever of two runs is taken for the earlier one, a call of both gets the same
\* verdict for the same reasons, whatever the runs lack (compareObservedExecutionGraphs
\* and createReuseDecisionArtifact).
THEOREM VerdictsAgree ==
  ASSUME NEW one, NEW other, HasUniqueIds(one), HasUniqueIds(other)
  PROVE  AgreeBothWays(one, other)
<1> DEFINE shared == Both(one, other)
           forth == CompareObservedExecutionGraphs(one, other)
           back == CompareObservedExecutionGraphs(other, one)
           same == {id \in shared : ~HasChanged(At(one, id), At(other, id))}
<1>1. Both(other, one) = shared
  BY DEF Both
<1>2. \A id : HasChanged(At(one, id), At(other, id)) <=> HasChanged(At(other, id), At(one, id))
  BY ChecksAlike
<1>3. ChangedIds(forth) \cap shared = ChangedIds(back) \cap shared
  <2>1. ChangedIds(forth) \cap shared = {id \in shared : HasChanged(At(one, id), At(other, id))}
    BY SharedChanges
  <2>2. ChangedIds(back) \cap shared = {id \in shared : HasChanged(At(other, id), At(one, id))}
    BY <1>1, SharedChanges
  <2>3. QED
    BY <1>2, <2>1, <2>2
<1>4. ASSUME NEW id \in same
      PROVE  VerdictOf(one, other, At(one, id), At(other, id))
               = VerdictOf(other, one, At(other, id), At(one, id))
  <2> DEFINE p == At(one, id)
             c == At(other, id)
             forward == Reasons(one, other, p, c)
             backward == Reasons(other, one, c, p)
  <2>1. p.id = id /\ c.id = id
    BY SharedCalls DEF Both
  <2>2. p.kind = c.kind
    BY DEF HasChanged
  <2> HIDE DEF p, c
  <2>3. forward = backward
    BY <2>2, ChecksAlike
  <2>4. forward = {} => SideEffectReasons(p, c) = {}
    BY DEF Reasons
  <2>5. c.kind = "tool_call" /\ forward = {} => SideEffectClass(p) = SideEffectClass(c)
    BY <2>2, <2>4, SideEffectsAlike
  <2> HIDE DEF forward, backward
  <2>6. Status(c.kind, SideEffectClass(c), forward) = Status(p.kind, SideEffectClass(p), backward)
    BY <2>2, <2>3, <2>5 DEF Status
  <2>7. Why(c.kind, SideEffectClass(c), forward) = Why(p.kind, SideEffectClass(p), backward)
    BY <2>2, <2>3, <2>5 DEF Why
  <2>8. VerdictOf(one, other, p, c) = VerdictOf(other, one, c, p)
    BY <2>1, <2>6, <2>7 DEF VerdictOf, forward, backward, p, c
  <2>9. QED
    BY <2>8 DEF p, c
<1>5. Verdicts(forth, shared) = Verdicts(back, shared)
  <2>1. Verdicts(forth, shared) = {VerdictOf(one, other, At(one, id), At(other, id)) : id \in same}
    BY SharedVerdicts
  <2>2. Verdicts(back, shared)
          = {VerdictOf(other, one, At(other, id), At(one, id)) :
               id \in {i \in shared : ~HasChanged(At(other, i), At(one, i))}}
    BY <1>1, SharedVerdicts
  <2>3. {i \in shared : ~HasChanged(At(other, i), At(one, i))} = same
    BY <1>2
  <2> HIDE DEF same, shared
  <2>4. QED
    BY <1>4, <2>1, <2>2, <2>3
<1>6. QED
  BY <1>3, <1>5 DEF AgreeBothWays, Both

\* Every call of the current run, and nothing else, has changed or is decided of, once,
\* even if the earlier run has two nodes of one id (compareObservedExecutionGraphs).
THEOREM CallsAreDecided ==
  ASSUME NEW previous, NEW current, HasUniqueIds(current)
  PROVE  EveryCallIsDecided(previous, current)
<1> DEFINE comparison == CompareObservedExecutionGraphs(previous, current)
           calls == {n \in ToSet(current.nodes) : IsCall(n)}
           candidates == Candidates(previous, current)
           D(c) == Decided(ReviewOf(previous, current, c))
<1>1. Decisions(comparison) = {D(c) : c \in candidates}
  BY DecisionsAre
<1>2. ChangedIds(comparison) = {c.id : c \in calls \ candidates}
  BY ChangedAre
<1>3. candidates \subseteq calls
  BY DEF Candidates
<1>4. \A c \in candidates : D(c).nodeId = c.id
  BY <1>3, DecidedAre DEF VerdictOf
<1>5. \A c, k \in calls : c.id = k.id => c = k
  BY DEF HasUniqueIds
<1>6. CallIds(current) = {c.id : c \in calls}
  BY DEF CallIds
<1> HIDE DEF comparison, calls, candidates, D
<1>7. {d.nodeId : d \in Decisions(comparison)} = {c.id : c \in candidates}
  BY <1>1, <1>4
<1>8. {c.id : c \in candidates} \cap {c.id : c \in calls \ candidates} = {}
  BY <1>3, <1>5
<1>9. {c.id : c \in candidates} \cup {c.id : c \in calls \ candidates} = {c.id : c \in calls}
  BY <1>3
<1>10. \A d, e \in Decisions(comparison) : d.nodeId = e.nodeId => d = e
  BY <1>1, <1>3, <1>4, <1>5
<1>11. QED
  BY <1>2, <1>6, <1>7, <1>8, <1>9, <1>10 DEF EveryCallIsDecided, comparison

-----------------------------------------------------------------------------
(***************************************************************************)
(* The fetch wrapper, for every set of requests and responses.             *)
(*                                                                         *)
(* OutcomeIsTheLastAttempt is not inductive as it stands: the loop must    *)
(* know, between two attempts, that it has another one left, and that      *)
(* nothing was tried before the request began.  FetchInv adds both, and    *)
(* SecretsAreRedacted needs it too.                                        *)
(***************************************************************************)

\* What is recorded of one try.
Tries == [status : Int, retryable : BOOLEAN]

FetchTypeOK ==
  /\ request \in Requests \cup {NoRequest}
  /\ attempts \in Seq(Tries)

\* What holds between two attempts.
Between ==
  /\ request = NoRequest => attempts = <<>> /\ outcome = {}
  /\ request # NoRequest /\ outcome = {} => Len(attempts) < MaxAttempts(request)

FetchInv == FetchTypeOK /\ Between /\ OutcomeIsTheLastAttempt

-----------------------------------------------------------------------------
\* The bound of the loop, Math.max(1, maxAttempts), is an integer and at least one.
LEMMA AtLeastOne ==
  ASSUME NEW r \in Requests
  PROVE  MaxAttempts(r) \in Int /\ MaxAttempts(r) >= 1
BY RequestsAreReal DEF MaxAttempts

\* What the attempts are after one more was pushed.
LEMMA OneMore ==
  ASSUME NEW s \in Seq(Tries), NEW try \in Tries
  PROVE  /\ Append(s, try) \in Seq(Tries)
         /\ Append(s, try) # <<>>
         /\ Len(Append(s, try)) = Len(s) + 1
         /\ Append(s, try)[Len(s) + 1] = try
         /\ \A i \in 1 .. Len(s) : Append(s, try)[i] = s[i]
OBVIOUS

\* A turn of the loop keeps the invariant if it goes on after an attempt that leads to
\* another one, with one left, or stops with the result of the attempt it made.
LEMMA TurnPreservesFetchInv ==
  ASSUME FetchInv, IsWaiting, NEW try \in Tries,
         attempts' = Append(attempts, try), request' = request,
         \/ outcome' = outcome /\ LeadsToAnother(try) /\ Len(attempts) + 1 < MaxAttempts(request)
         \/ \E result : outcome' = {result} /\ IsResultOf(result, try)'
  PROVE  FetchInv'
<1>1. request \in Requests /\ attempts \in Seq(Tries) /\ outcome = {}
  BY DEF FetchInv, FetchTypeOK, IsWaiting
<1>2. MaxAttempts(request) \in Int /\ Len(attempts) \in Nat /\ MaxAttempts(request)' = MaxAttempts(request)
  BY <1>1, AtLeastOne DEF MaxAttempts
<1>3. Len(attempts) < MaxAttempts(request)
  BY DEF FetchInv, Between, IsWaiting
<1>4. /\ attempts' \in Seq(Tries)
      /\ attempts' # <<>>
      /\ Len(attempts') = Len(attempts) + 1
      /\ attempts'[Len(attempts')] = try
      /\ \A i \in 1 .. Len(attempts) : attempts'[i] = attempts[i]
  BY <1>1, OneMore
<1>5. \A i \in 1 .. Len(attempts) : LeadsToAnother(attempts[i])
  <2>1. CASE attempts = <<>>
    BY <2>1
  <2>2. CASE attempts # <<>>
    BY <2>2, <1>1, <1>2 DEF FetchInv, OutcomeIsTheLastAttempt, IsWaiting
  <2>. QED BY <2>1, <2>2
<1>6. FetchTypeOK' /\ (request # NoRequest)'
  BY <1>1, <1>4 DEF FetchTypeOK, IsWaiting
<1>7. Len(attempts') <= MaxAttempts(request)'
  BY <1>2, <1>3, <1>4
<1>8. \A i \in 1 .. Len(attempts') - 1 : LeadsToAnother(attempts'[i])
  BY <1>2, <1>4, <1>5
<1>9. CASE outcome' = outcome /\ LeadsToAnother(try) /\ Len(attempts) + 1 < MaxAttempts(request)
  <2>1. Between'
    BY <1>9, <1>2, <1>4, <1>6 DEF Between
  <2>2. OutcomeIsTheLastAttempt'
    BY <1>9, <1>1, <1>4, <1>7, <1>8 DEF OutcomeIsTheLastAttempt, LeadsToAnother
  <2>. QED BY <2>1, <2>2, <1>6 DEF FetchInv
<1>10. CASE \E result : outcome' = {result} /\ IsResultOf(result, try)'
  <2>1. PICK result : outcome' = {result} /\ IsResultOf(result, try)'
    BY <1>10
  <2>2. Between'
    BY <2>1, <1>6 DEF Between
  <2>3. OutcomeIsTheLastAttempt'
    BY <2>1, <1>4, <1>7, <1>8 DEF OutcomeIsTheLastAttempt, LeadsToAnother
  <2>. QED BY <2>2, <2>3, <1>6 DEF FetchInv
<1>. QED BY <1>9, <1>10

\* An attempt that may be retried and is not was the last one there could be.
LEMMA LastOne ==
  ASSUME FetchInv, IsWaiting, NEW try \in Tries, try.retryable, ~MayRetry(try.retryable),
         attempts' = Append(attempts, try), request' = request
  PROVE  Len(attempts') = MaxAttempts(request)'
<1>1. request \in Requests /\ attempts \in Seq(Tries) /\ Len(attempts) < MaxAttempts(request)
  BY DEF FetchInv, FetchTypeOK, Between, IsWaiting
<1>2. MaxAttempts(request) \in Int /\ MaxAttempts(request)' = MaxAttempts(request)
  BY <1>1, AtLeastOne DEF MaxAttempts
<1>3. Len(attempts') = Len(attempts) + 1 /\ Len(attempts) \in Nat
  BY <1>1, OneMore
<1>4. ~(Len(attempts) + 1 < MaxAttempts(request))
  BY DEF MayRetry
<1>. QED BY <1>1, <1>2, <1>3, <1>4

\* The try that records an answer of the transport, whatever its policy says of it.
LEMMA AnswersAreTries ==
  ASSUME NEW response \in Responses, NEW codes
  PROVE  [status |-> response.status, retryable |-> response.status \in codes] \in Tries
<1>1. response.status \in Int
  BY ResponsesHaveStatus
<1>2. CASE response.status \in codes
  <2>1. (response.status \in codes) = TRUE
    BY <1>2, Zenon
  <2>. QED BY <1>1, <2>1 DEF Tries
<1>3. CASE response.status \notin codes
  <2>1. (response.status \in codes) = FALSE
    BY <1>3, SMT
  <2>. QED BY <1>1, <2>1 DEF Tries
<1>. QED BY <1>2, <1>3

\* What a result that keeps an answer says of it.
LEMMA AnswersAreKept ==
  ASSUME NEW response \in Responses
  PROVE  /\ CaptureAnswer(response) # {}
         /\ \A kept \in CaptureAnswer(response) : kept.status = response.status
         /\ response.status # NoStatus
BY ResponsesHaveStatus DEF CaptureAnswer

-----------------------------------------------------------------------------
\* The invariant holds before a request begins, when it begins and after every attempt.
THEOREM NextPreservesFetchInv ==
  ASSUME FetchInv, [Next]_vars
  PROVE  FetchInv'
<1>1. ASSUME NEW r \in Requests, Begin(r)
      PROVE  FetchInv'
  BY <1>1, RequestsAreReal, AtLeastOne
     DEF Begin, FetchInv, FetchTypeOK, Between, OutcomeIsTheLastAttempt
<1>2. CASE Succeed
  <2>1. PICK response \in Responses :
          /\ IsSuccessStatus(response.status)
          /\ Record([status |-> response.status,
                     retryable |-> response.status \in request.retryStatusCodes])
          /\ Finish("succeeded", "none", CaptureAnswer(response))
    BY <1>2 DEF Succeed
  <2>2. PICK try \in Tries : try = [status |-> response.status,
                                    retryable |-> response.status \in request.retryStatusCodes]
    BY AnswersAreTries
  <2>3. PICK result : result = [status |-> "succeeded", error |-> "none",
                                response |-> CaptureAnswer(response)]
    OBVIOUS
  <2>4. /\ IsWaiting /\ request' = request
        /\ attempts' = Append(attempts, try)
        /\ outcome' = {result}
    BY <1>2, <2>1, <2>2, <2>3 DEF Succeed, Record, Finish
  <2>5. try.status = response.status /\ result.status = "succeeded"
    BY <2>2, <2>3
  <2>6. /\ result.response # {} /\ try.status # NoStatus
        /\ \A kept \in result.response : kept.status = try.status
    BY <2>3, <2>5, AnswersAreKept
  <2>7. IsResultOf(result, try)'
    BY <2>1, <2>5, <2>6 DEF IsResultOf, LeadsToAnother
  <2>. QED
    BY <2>2, <2>4, <2>7, TurnPreservesFetchInv
<1>3. CASE AnswerError
  <2>1. PICK response \in Responses :
          /\ ~IsSuccessStatus(response.status)
          /\ Record([status |-> response.status,
                     retryable |-> response.status \in request.retryStatusCodes])
          /\ IF MayRetry(response.status \in request.retryStatusCodes) THEN UNCHANGED outcome
             ELSE Finish("failed", "provider_http_error", CaptureAnswer(response))
    BY <1>3 DEF AnswerError
  <2>2. PICK try \in Tries : try = [status |-> response.status,
                                    retryable |-> response.status \in request.retryStatusCodes]
    BY AnswersAreTries
  <2>3. IsWaiting /\ request' = request /\ attempts' = Append(attempts, try)
    BY <1>3, <2>1, <2>2 DEF AnswerError, Record
  <2>4. CASE MayRetry(try.retryable)
    <3>1. outcome' = outcome /\ LeadsToAnother(try) /\ Len(attempts) + 1 < MaxAttempts(request)
      BY <2>1, <2>2, <2>4 DEF LeadsToAnother, MayRetry
    <3>. QED BY <2>2, <2>3, <3>1, TurnPreservesFetchInv
  <2>5. CASE ~MayRetry(try.retryable)
    <3>1. PICK result : result = [status |-> "failed", error |-> "provider_http_error",
                                  response |-> CaptureAnswer(response)]
      OBVIOUS
    <3>2. outcome' = {result}
      BY <2>1, <2>2, <2>5, <3>1 DEF Finish
    <3>3. LeadsToAnother(try) => Len(attempts') = MaxAttempts(request)'
      BY <2>2, <2>3, <2>5, LastOne DEF LeadsToAnother
    <3>4. try.status = response.status /\ result.status = "failed"
      BY <2>2, <3>1
    <3>5. /\ result.response # {} /\ try.status # NoStatus
          /\ \A kept \in result.response : kept.status = try.status
      BY <3>1, <3>4, AnswersAreKept
    <3>6. IsResultOf(result, try)'
      BY <2>1, <3>3, <3>4, <3>5 DEF IsResultOf, LeadsToAnother
    <3>. QED BY <2>2, <2>3, <3>2, <3>6, TurnPreservesFetchInv
  <2>. QED BY <2>4, <2>5
<1>4. CASE ThrowError
  <2>1. PICK try \in Tries : try = [status |-> NoStatus, retryable |-> request.retryTransportErrors]
    <3>1. request \in Requests
      BY <1>4 DEF ThrowError, IsWaiting, FetchInv, FetchTypeOK
    <3>2. request.retryTransportErrors \in BOOLEAN
      BY <3>1, RequestsAreReal
    <3>3. [status |-> NoStatus, retryable |-> request.retryTransportErrors] \in Tries
      BY <3>2 DEF Tries, NoStatus
    <3>. QED BY <3>3, Zenon
  <2>2. IsWaiting /\ request' = request /\ attempts' = Append(attempts, try)
    BY <1>4, <2>1 DEF ThrowError, Record
  <2>3. CASE MayRetry(try.retryable)
    <3>1. outcome' = outcome /\ LeadsToAnother(try) /\ Len(attempts) + 1 < MaxAttempts(request)
      BY <1>4, <2>1, <2>3 DEF ThrowError, LeadsToAnother, MayRetry, IsSuccessStatus, NoStatus
    <3>. QED BY <2>1, <2>2, <3>1, TurnPreservesFetchInv
  <2>4. CASE ~MayRetry(try.retryable)
    <3>1. PICK result : result = [status |-> "failed", error |-> "transport_error", response |-> {}]
      OBVIOUS
    <3>2. outcome' = {result}
      BY <1>4, <2>1, <2>4, <3>1 DEF ThrowError, Finish
    <3>3. LeadsToAnother(try) => Len(attempts') = MaxAttempts(request)'
      BY <2>1, <2>2, <2>4, LastOne DEF LeadsToAnother
    <3>4. IsResultOf(result, try)'
      BY <2>1, <3>1, <3>3 DEF IsResultOf, LeadsToAnother, IsSuccessStatus, NoStatus
    <3>. QED BY <2>1, <2>2, <3>2, <3>4, TurnPreservesFetchInv
  <2>. QED BY <2>3, <2>4
<1>5. CASE UNCHANGED vars
  BY <1>5 DEF vars, FetchInv, FetchTypeOK, Between, OutcomeIsTheLastAttempt, IsResultOf, LeadsToAnother,
              MaxAttempts
<1>. QED
  BY <1>1, <1>2, <1>3, <1>4, <1>5 DEF Next, Attempt

\* Every request of every program is tried at least once and at most as often as it may
\* be, and its result is that of its last attempt.
THEOREM ResultsAreOfTheLastAttempt == Spec => []OutcomeIsTheLastAttempt
<1>1. Init => FetchInv
  BY DEF Init, FetchInv, FetchTypeOK, Between, OutcomeIsTheLastAttempt
<1>2. FetchInv /\ [Next]_vars => FetchInv'
  BY NextPreservesFetchInv
<1>3. FetchInv => OutcomeIsTheLastAttempt
  BY DEF FetchInv
<1>. QED
  BY <1>1, <1>2, <1>3, PTL DEF Spec

-----------------------------------------------------------------------------
\* What is captured of a message is redacted once its redactions are told.
LEMMA CapturedIsRedacted ==
  ASSUME NEW message, NEW mode, NEW part, NEW told, RedactionsOf(message, part) \subseteq told
  PROVE  IsRedacted(part, Capture(message, mode), told)
<1> DEFINE headers == message.headers
           kept == Capture(message, mode).headers
<1>1. /\ DOMAIN kept = DOMAIN headers
      /\ \A i \in DOMAIN headers :
           /\ kept[i].name = headers[i].lower
           /\ kept[i].value = IF headers[i].lower \in SensitiveHeaders THEN {} ELSE {headers[i].value}
  BY DEF Capture, CaptureHeaders
<1>2. \A i \in DOMAIN headers :
        headers[i].lower \in SensitiveHeaders => <<part, "headers", headers[i].lower>> \in told
  BY DEF RedactionsOf
<1> HIDE DEF headers, kept
<1>3. \A i \in DOMAIN kept :
        /\ kept[i].value = {} <=> kept[i].name \in SensitiveHeaders
        /\ kept[i].value = {} => <<part, "headers", kept[i].name>> \in told
  BY <1>1, <1>2
<1>4. QED
  BY <1>3 DEF IsRedacted, kept

\* What is redacted stays so when more is told.
LEMMA MoreIsTold ==
  ASSUME NEW part, NEW told, NEW more, told \subseteq more
  PROVE  \A message : IsRedacted(part, message, told) => IsRedacted(part, message, more)
BY DEF IsRedacted

\* A turn of the loop keeps what was captured redacted, and so is its answer.
LEMMA TurnRedacts ==
  ASSUME SecretsAreRedacted, NEW response \in Responses, NEW end, NEW error,
         captured' = captured,
         redactions' = redactions \cup RedactionsOf(response, "response"),
         \/ outcome' = outcome
         \/ outcome' = {[status |-> end, error |-> error, response |-> CaptureAnswer(response)]}
  PROVE  SecretsAreRedacted'
<1>1. redactions \subseteq redactions' /\ RedactionsOf(response, "response") \subseteq redactions'
  OBVIOUS
<1>2. \A part, message : IsRedacted(part, message, redactions) => IsRedacted(part, message, redactions')
  BY <1>1, MoreIsTold
<1>3. IsRedacted("response", Capture(response, request.capture.responseBody), redactions')
  BY <1>1, CapturedIsRedacted
<1>4. \A answer \in CaptureAnswer(response) : IsRedacted("response", answer.message, redactions')
  BY <1>3 DEF CaptureAnswer
<1>5. \A message \in captured' : IsRedacted("request", message, redactions')
  BY <1>2 DEF SecretsAreRedacted
<1>6. \A result \in outcome' : \A answer \in result.response :
        IsRedacted("response", answer.message, redactions')
  <2>1. CASE outcome' = outcome
    BY <2>1, <1>2 DEF SecretsAreRedacted
  <2> DEFINE result == [status |-> end, error |-> error, response |-> CaptureAnswer(response)]
  <2>2. CASE outcome' = {result}
    <3>1. result.response = CaptureAnswer(response)
      OBVIOUS
    <3> HIDE DEF result
    <3>2. QED
      BY <2>2, <3>1, <1>4
  <2>3. QED
    BY <2>1, <2>2
<1>7. QED
  BY <1>5, <1>6 DEF SecretsAreRedacted

\* Of no request and of no response is a sensitive header kept, or lost without it being
\* told, however the attempts go (captureRequest, captureResponse).
THEOREM SecretsStayRedacted == Spec => []SecretsAreRedacted
<1>1. Init => FetchInv /\ SecretsAreRedacted
  BY DEF Init, FetchInv, FetchTypeOK, Between, OutcomeIsTheLastAttempt, SecretsAreRedacted
<1>2. FetchInv /\ SecretsAreRedacted /\ [Next]_vars => SecretsAreRedacted'
  <2> SUFFICES ASSUME FetchInv, SecretsAreRedacted, [Next]_vars PROVE SecretsAreRedacted'
    OBVIOUS
  <2>1. ASSUME NEW r \in Requests, Begin(r) PROVE SecretsAreRedacted'
    <3>1. IsRedacted("request", Capture(r, r.capture.requestBody), redactions')
      BY <2>1, CapturedIsRedacted DEF Begin
    <3>2. outcome = {}
      BY <2>1 DEF Begin, FetchInv, Between
    <3>3. QED
      BY <2>1, <3>1, <3>2 DEF Begin, SecretsAreRedacted
  <2>2. CASE Succeed
    BY <2>2, TurnRedacts DEF Succeed, Finish
  <2>3. CASE AnswerError
    BY <2>3, TurnRedacts DEF AnswerError, Finish
  <2>4. CASE ThrowError
    BY <2>4 DEF ThrowError, Finish, SecretsAreRedacted
  <2>5. CASE UNCHANGED vars
    BY <2>5 DEF vars, SecretsAreRedacted
  <2>6. QED
    BY <2>1, <2>2, <2>3, <2>4, <2>5 DEF Next, Attempt
<1>3. FetchInv /\ [Next]_vars => FetchInv'
  BY NextPreservesFetchInv
<1>4. QED
  BY <1>1, <1>2, <1>3, PTL DEF Spec
=============================================================================
