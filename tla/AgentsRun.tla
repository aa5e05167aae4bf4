------------------------------ MODULE AgentsRun ------------------------------
(***************************************************************************)
(* MigakiAgentsRunner.run (packages/migaki-openai-agents-js/src/           *)
(* withMigaki.ts): runs of the OpenAI Agents SDK in one process, each with *)
(* a recorder that is fed by the runner's hooks, by a trace processor that *)
(* finds the recorder of a span in a registry, and by wrapped models.      *)
(*                                                                         *)
(* The recorder starts a write to the store for every event and awaits     *)
(* them only when the run ends.  Writes end in any order, and may fail.    *)
(* The run's promise may settle while parallel tasks of the run still go   *)
(* on: the hooks are detached at the end, the models stay wrapped.         *)
(*                                                                         *)
(* A definition whose comment begins with "Faulty" is a variant with a     *)
(* plausible bug that a property must catch; it is not part of the model.  *)
(***************************************************************************)
EXTENDS AgentsRecorder

CONSTANTS
  Runs,    \* invocations of run
  IdOf,    \* IdOf[r]: the runId they are given
  Tasks,   \* what the SDK does, see below
  NoRun,
  MaxBacklog  \* bound: the writes of a run still under way when a task records

(***************************************************************************)
(* A task is a record with the fields run, via ("hook", "span" or "model": *)
(* how it reaches a recorder), kind and name, and                          *)
(*   metadata   of a span: whether it carries the trace metadata           *)
(*   wrapper    of a model task: the instrumented model it goes through    *)
(* Any further fields distinguish tasks that look the same to a recorder.  *)
(***************************************************************************)
Wrappers == {t.wrapper : t \in {u \in Tasks : u.via = "model"}}
Ids == {IdOf[r] : r \in Runs}

ASSUME TasksAssumption ==
  \A t \in Tasks :
    /\ "run" \in DOMAIN t /\ t.run \in Runs
    /\ \/ t.via = "hook" /\ t.kind \in {"agent_step", "tool_call"}
       \/ t.via = "span" /\ t.kind \in {"agent_step", "model_call", "handoff"}
       \/ t.via = "model" /\ t.kind = "model_call"

ASSUME BacklogAssumption == MaxBacklog \in Nat \ {0}

ASSUME RunsAssumption == NoRun \notin Runs /\ DOMAIN IdOf = Runs

VARIABLES
  pc,        \* pc[r]: "idle", "running", "flush", "graph", "report" or how run() ended
  outcome,   \* outcome[r]: which finalization is under way, "ok" or "error"
  rec,       \* rec[r]: the recorder
  pending,   \* pending[r]: the events whose writes are under way
  awaited,   \* awaited[r]: how many writes the last Promise.all covers
  draft,     \* draft[r]: the nodes of the graph being written
  lines,     \* lines[id]: the lines of events.jsonl, as pairs of run and event
  graph,     \* graph[id]: the contents of graph.json
  report,    \* report[id]: those of report.md
  registry,  \* activeRecorders
  trace,     \* trace[r]: whether the trace of run r is "new", "open" or "ended"
  traces,    \* traces[r]: its recorder (activeRecordersByTraceId)
  task,      \* task[t]: "new", "open" or "ended"
  span,      \* span[t]: the span id a model task was given
  calls,     \* calls[w]: how many calls went through wrapper w
  troubled,  \* history: the runs with a file operation that failed
  crashed    \* whether an unhandled rejection has ended the process

runVars == <<pc, outcome, rec, pending, awaited, draft>>
fileVars == <<lines, graph, report>>
registryVars == <<registry, trace, traces>>
taskVars == <<task, span, calls>>
vars == <<runVars, fileVars, registryVars, taskVars, troubled, crashed>>

NoFile == [status |-> "absent", nodes |-> <<>>]

Finalizing == {"flush", "graph", "report"}
Settled == {"resolved", "rejected"}

Init ==
  /\ pc = [r \in Runs |-> "idle"]
  /\ outcome = [r \in Runs |-> "ok"]
  /\ rec = [r \in Runs |-> NewRecorder]
  /\ pending = [r \in Runs |-> {}]
  /\ awaited = [r \in Runs |-> 0]
  /\ draft = [r \in Runs |-> <<>>]
  /\ lines = [i \in Ids |-> {}]
  /\ graph = [i \in Ids |-> NoFile]
  /\ report = [i \in Ids |-> NoFile]
  /\ registry = [i \in Ids |-> NoRun]
  /\ trace = [r \in Runs |-> "new"]
  /\ traces = [r \in Runs |-> NoRun]
  /\ task = [t \in Tasks |-> "new"]
  /\ span = [t \in Tasks |-> t]
  /\ calls = [w \in Wrappers |-> 0]
  /\ troubled = {}
  /\ crashed = FALSE

Roomy(r) == Cardinality(pending[r]) < MaxBacklog

\* Recorder r becomes new, and the writes of its new events start.
Record(r, new) ==
  /\ rec' = [rec EXCEPT ![r] = new]
  /\ pending' = [pending EXCEPT ![r] =
       @ \cup (Len(rec[r].events) + 1 .. Len(new.events))]

-----------------------------------------------------------------------------
StartRun(r) ==
  /\ pc[r] = "idle"
  /\ pc' = [pc EXCEPT ![r] = "running"]
  /\ registry' = [registry EXCEPT ![IdOf[r]] = r]
  /\ Record(r, RecordRunStarted(rec[r]))
  /\ UNCHANGED <<outcome, awaited, draft, fileVars, trace, traces, taskVars, troubled,
                 crashed>>

\* The spans of a run that find their recorder by its trace, not by metadata.
Untagged(r) == {t \in Tasks : t.run = r /\ t.via = "span" /\ ~t.metadata}

\* onTraceStart and onTraceEnd.  A trace no span refers to is left out.
TraceStart(r) ==
  /\ pc[r] = "running" /\ trace[r] = "new" /\ Untagged(r) # {}
  /\ trace' = [trace EXCEPT ![r] = "open"]
  /\ traces' = [traces EXCEPT ![r] = registry[IdOf[r]]]
  /\ UNCHANGED <<runVars, fileVars, registry, taskVars, troubled, crashed>>

TraceEnd(r) ==
  /\ trace[r] = "open"
  /\ trace' = [trace EXCEPT ![r] = "ended"]
  /\ traces' = [traces EXCEPT ![r] = NoRun]
  /\ UNCHANGED <<runVars, fileVars, registry, taskVars, troubled, crashed>>

\* recorderForSpan, and for the hooks and models the recorder they close over.
RecorderFor(t) ==
  IF t.via = "span" THEN (IF t.metadata THEN registry[IdOf[t.run]] ELSE traces[t.run])
  ELSE IF t.via = "hook" /\ pc[t.run] \in Settled THEN NoRun
  ELSE t.run

\* A wrapper numbers its own calls.
SpanOf(t) == IF t.via = "model" THEN [call |-> calls[t.wrapper] + 1] ELSE t

\* What a recorder is told of task t when it starts, or ends with a status.
Report(t, at) == <<at, t>>

\* recordSpanStart, the start hooks, and getResponse up to its await.
Started(r, t) ==
  LET told == Report(t, "start")
  IN CASE t.kind = "agent_step" ->
            IF t.via = "hook" THEN RecordAgentStarted(rec[r], t.name, told)
            ELSE RecordAgentSpanStarted(rec[r], t.name, t, told)
       [] t.kind = "tool_call" -> RecordToolCallStarted(rec[r], t.name, told)
       [] OTHER -> RecordStarted(rec[r], t.kind, t.name, SpanOf(t), told)

\* recordSpanEnd, the end hooks, and getResponse after its await.
Completed(r, t, status) ==
  LET told == Report(t, status)
  IN CASE t.kind = "agent_step" ->
            IF t.via = "hook" THEN CompleteAgentByName(rec[r], t.name, told)
            ELSE CompleteSpan(rec[r], t, status, told)
       [] t.kind = "tool_call" -> CompleteToolCall(rec[r], t.name, told)
       [] t.kind = "model_call" ->
            CompleteModelCallBySpan(rec[r], t.name, span[t], status, told)
       [] t.kind = "handoff" ->
            CompleteHandoffBySpan(rec[r], t.name, span[t], status, told)

TaskStart(t) ==
  /\ pc[t.run] # "idle" /\ task[t] = "new"
  /\ task' = [task EXCEPT ![t] = "open"]
  /\ span' = [span EXCEPT ![t] = SpanOf(t)]
  /\ calls' = [w \in Wrappers |->
       IF t.via = "model" /\ t.wrapper = w THEN calls[w] + 1 ELSE calls[w]]
  /\ IF RecorderFor(t) = NoRun THEN UNCHANGED <<rec, pending>>
     ELSE Roomy(RecorderFor(t)) /\ Record(RecorderFor(t), Started(RecorderFor(t), t))
  /\ UNCHANGED <<pc, outcome, awaited, draft, fileVars, registryVars, troubled, crashed>>

TaskEnd(t, status) ==
  /\ task[t] = "open"
  /\ task' = [task EXCEPT ![t] = "ended"]
  /\ IF RecorderFor(t) = NoRun THEN UNCHANGED <<rec, pending>>
     ELSE /\ Roomy(RecorderFor(t))
          /\ Record(RecorderFor(t), Completed(RecorderFor(t), t, status))
  /\ UNCHANGED <<pc, outcome, awaited, draft, fileVars, registryVars, span, calls,
                 troubled, crashed>>

-----------------------------------------------------------------------------
(***************************************************************************)
(* The end of a run.                                                       *)
(***************************************************************************)

\* Faulty: the writes to wait for are gathered before the last event.
AwaitEarlier(r, how) ==
  LET new == IF how = "ok" THEN RecordRunCompleted(rec[r]) ELSE RecordRunFailed(rec[r])
  IN /\ Record(r, new)
     /\ awaited' = [awaited EXCEPT ![r] = Len(rec[r].events)]
     /\ outcome' = [outcome EXCEPT ![r] = how]

\* finalizeRunCompleted or finalizeRunFailed up to Promise.all.
Finalize(r, how) ==
  LET new == IF how = "ok" THEN RecordRunCompleted(rec[r]) ELSE RecordRunFailed(rec[r])
  IN /\ Record(r, new)
     /\ awaited' = [awaited EXCEPT ![r] = Len(new.events)]
     /\ outcome' = [outcome EXCEPT ![r] = how]

\* runner.run resolves, which a streamed run does at once, or throws.
RunEnds(r, how) ==
  /\ pc[r] = "running"
  /\ pc' = [pc EXCEPT ![r] = "flush"]
  /\ Finalize(r, how)
  /\ UNCHANGED <<draft, fileVars, registryVars, taskVars, troubled, crashed>>

\* The finally block, which unregisters whatever recorder has the run's id.
Settle(r, how) ==
  /\ pc' = [pc EXCEPT ![r] = how]
  /\ registry' = [registry EXCEPT ![IdOf[r]] = NoRun]
  /\ traces' = [s \in Runs |-> IF traces[s] = r THEN NoRun ELSE traces[s]]
  /\ UNCHANGED trace

AppendEnds(r, i) ==
  /\ i \in pending[r]
  /\ lines' = [lines EXCEPT ![IdOf[r]] = @ \cup {<<r, i>>}]
  /\ pending' = [pending EXCEPT ![r] = @ \ {i}]
  /\ UNCHANGED <<pc, outcome, rec, awaited, draft, graph, report, registryVars, taskVars,
                 troubled, crashed>>

\* A failing write nobody awaits yet is an unhandled rejection, which ends the
\* process.
AppendCrashes(r, i) ==
  /\ i \in pending[r] /\ i > awaited[r]
  /\ crashed' = TRUE
  /\ troubled' = troubled \cup {r}
  /\ UNCHANGED <<runVars, fileVars, registryVars, taskVars>>

\* One that is awaited rejects the finalization.  A completion then turns into a
\* failure, whose Promise.all rejects at once since it covers the same write.
AppendRejects(r, i) ==
  /\ i \in pending[r] /\ i <= awaited[r]
  /\ troubled' = troubled \cup {r}
  /\ IF pc[r] = "flush"
     THEN /\ Settle(r, "rejected")
          /\ IF outcome[r] = "ok"
             THEN LET failed == RecordRunFailed(rec[r])
                  IN /\ rec' = [rec EXCEPT ![r] = failed]
                     /\ pending' = [pending EXCEPT ![r] =
                          (@ \ {i}) \cup (Len(rec[r].events) + 1 .. Len(failed.events))]
                     /\ awaited' = [awaited EXCEPT ![r] = Len(failed.events)]
                     /\ outcome' = [outcome EXCEPT ![r] = "error"]
             ELSE /\ pending' = [pending EXCEPT ![r] = @ \ {i}]
                  /\ UNCHANGED <<rec, awaited, outcome>>
     ELSE /\ pending' = [pending EXCEPT ![r] = @ \ {i}]
          /\ UNCHANGED <<pc, rec, awaited, outcome, registryVars>>
  /\ UNCHANGED <<draft, fileVars, taskVars, crashed>>

\* Faulty: the graph is drafted without waiting for the writes.
FlushAtOnce(r) ==
  /\ pc[r] = "flush"
  /\ pc' = [pc EXCEPT ![r] = "graph"]
  /\ draft' = [draft EXCEPT ![r] = rec[r].nodes]
  /\ UNCHANGED <<outcome, rec, pending, awaited, fileVars, registryVars, taskVars,
                 troubled, crashed>>

\* #writeFinalGraph after Promise.all.
Flush(r) ==
  /\ pc[r] = "flush"
  /\ \A i \in pending[r] : i > awaited[r]
  /\ pc' = [pc EXCEPT ![r] = "graph"]
  /\ draft' = [draft EXCEPT ![r] = rec[r].nodes]
  /\ UNCHANGED <<outcome, rec, pending, awaited, fileVars, registryVars, taskVars,
                 troubled, crashed>>

Whole(r) == [status |-> outcome[r], nodes |-> draft[r]]

WriteGraph(r) ==
  /\ pc[r] = "graph"
  /\ pc' = [pc EXCEPT ![r] = "report"]
  /\ graph' = [graph EXCEPT ![IdOf[r]] = Whole(r)]
  /\ UNCHANGED <<outcome, rec, pending, awaited, draft, lines, report, registryVars,
                 taskVars, troubled, crashed>>

WriteReport(r) ==
  /\ pc[r] = "report"
  /\ Settle(r, IF outcome[r] = "ok" THEN "resolved" ELSE "rejected")
  /\ report' = [report EXCEPT ![IdOf[r]] = Whole(r)]
  /\ UNCHANGED <<outcome, rec, pending, awaited, draft, lines, graph, taskVars,
                 troubled, crashed>>

\* Faulty: the files of a failed run are written until that succeeds.
RetryForever(r) ==
  /\ pc[r] \in {"graph", "report"}
  /\ troubled' = troubled \cup {r}
  /\ IF outcome[r] = "ok"
     THEN pc' = [pc EXCEPT ![r] = "flush"] /\ Finalize(r, "error")
     ELSE pc' = [pc EXCEPT ![r] = "graph"] /\ UNCHANGED <<outcome, rec, pending, awaited>>
  /\ UNCHANGED <<draft, fileVars, registryVars, taskVars, crashed>>

\* A failing writeGraph or writeReport: a completion turns into a failure.
WriteRejects(r) ==
  /\ pc[r] \in {"graph", "report"}
  /\ troubled' = troubled \cup {r}
  /\ IF outcome[r] = "ok"
     THEN /\ pc' = [pc EXCEPT ![r] = "flush"]
          /\ Finalize(r, "error")
          /\ UNCHANGED registryVars
     ELSE /\ Settle(r, "rejected")
          /\ UNCHANGED <<outcome, rec, pending, awaited>>
  /\ UNCHANGED <<draft, fileVars, taskVars, crashed>>

-----------------------------------------------------------------------------
Write(r) ==
  \/ \E i \in pending[r] : AppendEnds(r, i) \/ AppendCrashes(r, i) \/ AppendRejects(r, i)
  \/ Flush(r)
  \/ WriteGraph(r)
  \/ WriteReport(r)
  \/ WriteRejects(r)

Next ==
  /\ ~crashed
  /\ \/ \E r \in Runs : \/ StartRun(r)
                        \/ TraceStart(r)
                        \/ TraceEnd(r)
                        \/ \E how \in {"ok", "error"} : RunEnds(r, how)
                        \/ Write(r)
     \/ \E t \in Tasks : TaskStart(t) \/ \E status \in {"ok", "error"} : TaskEnd(t, status)

Spec == Init /\ [][Next]_vars

\* A file operation that has begun ends, well or not.
FairSpec == Spec /\ \A r \in Runs : WF_vars(~crashed /\ Write(r))
-----------------------------------------------------------------------------
TypeOK ==
  /\ pc \in [Runs -> {"idle", "running"} \cup Finalizing \cup Settled]
  /\ outcome \in [Runs -> {"ok", "error"}]
  /\ \A r \in Runs : /\ pending[r] \subseteq DOMAIN rec[r].events
                     /\ awaited[r] \in 0 .. Len(rec[r].events)
                     /\ \A s \in DOMAIN rec[r].spans : rec[r].spans[s] \in DOMAIN rec[r].nodes
  /\ \A i \in Ids : registry[i] \in Runs \cup {NoRun}
  /\ trace \in [Runs -> {"new", "open", "ended"}]
  /\ traces \in [Runs -> Runs \cup {NoRun}]
  /\ task \in [Tasks -> {"new", "open", "ended"}]
  /\ calls \in [Wrappers -> Nat]
  /\ troubled \subseteq Runs
  /\ crashed \in BOOLEAN

\* The places of the events of a type about a node of r's recorder.
EventsOf(r, type, node) ==
  {i \in DOMAIN rec[r].events : rec[r].events[i].type = type /\ rec[r].events[i].node = node}

(***************************************************************************)
(* The events of a recorder tell the same story as its nodes, whatever     *)
(* hooks, spans and wrapped models did twice, late or not at all: a node   *)
(* is started once; it is completed at most once, after its start, and     *)
(* with the status it then keeps; and a call that ended without having     *)
(* been completed was closed by a failure of the run, which the events     *)
(* tell after its start.                                                   *)
(***************************************************************************)
EventsTellTheNodes ==
  \A r \in Runs : \A n \in DOMAIN rec[r].nodes :
    LET node == rec[r].nodes[n]
        starts == EventsOf(r, "started", n)
        ends == EventsOf(r, "completed", n)
    IN /\ Cardinality(starts) = 1 /\ Cardinality(ends) <= 1
       /\ \A e \in ends : /\ node.ended /\ node.status = rec[r].events[e].status
                         /\ \A s \in starts : s < e
       /\ node.ended /\ node.kind # "agent_step" /\ ends = {} =>
            /\ node.status = "error"
            /\ \E f \in EventsOf(r, "run.failed", 0) : \A s \in starts : s < f

(***************************************************************************)
(* finalizeRunFailed leaves no node open that was started before it, so    *)
(* that a failed run's graph does not show calls that go on for ever.      *)
(***************************************************************************)
FailureClosesNodes ==
  \A r \in Runs : \A f \in EventsOf(r, "run.failed", 0) : \A n \in DOMAIN rec[r].nodes :
    (\A s \in EventsOf(r, "started", n) : s < f) => rec[r].nodes[n].ended

\* No other run was given the run id of r.
Alone(r) == \A s \in Runs \ {r} : IdOf[s] = IdOf[r] => pc[s] = "idle"

(***************************************************************************)
(* When run() settles, the record of the run is on the disk: the graph and *)
(* the report say how it ended, the graph has every node an event before   *)
(* that speaks of, and the event log has all those events, in whatever     *)
(* order the writes ended.  It is so of every run that resolves, of one    *)
(* that rejects unless a write has failed, and of no run whose files       *)
(* another run with the same id writes as well.                            *)
(***************************************************************************)
SettledRunsAreRecorded ==
  \A r \in Runs :
    Alone(r) /\ (pc[r] = "resolved" \/ (pc[r] = "rejected" /\ r \notin troubled)) =>
      LET end == EventsOf(r, IF pc[r] = "resolved" THEN "run.completed" ELSE "run.failed", 0)
      IN /\ graph[IdOf[r]].status = (IF pc[r] = "resolved" THEN "ok" ELSE "error")
         /\ report[IdOf[r]] = graph[IdOf[r]]
         /\ Cardinality(end) = 1
         /\ \A e \in end : \A i \in 1 .. e :
              /\ <<r, i>> \in lines[IdOf[r]]
              /\ rec[r].events[i].node \in 0 .. Len(graph[IdOf[r]].nodes)

\* What is left, in a later state of it, of a node that has ended.
EndLasts(node, later) ==
  /\ later.kind = node.kind /\ later.name = node.name
  /\ later.ended /\ later.status = node.status /\ later.output = node.output
  /\ node.metadata \subseteq later.metadata
  /\ node.input # later.input => node.kind = "model_call"
  /\ node.metadata # later.metadata => node.kind \in {"model_call", "tool_call"}

(***************************************************************************)
(* How a node ended is never rewritten: a completion that arrives after    *)
(* the run failed, or for the second time from another source, changes     *)
(* neither its end and status nor its output.  It does change other parts: *)
(* completeModelCallBySpan replaces the input hash and merges metadata     *)
(* into a model call that has ended, completeToolCall merges metadata into *)
(* such a tool call (recorder.ts:284-289, 365-368).  No report that was    *)
(* merged is taken out again, though a later one prevails where they share *)
(* a key, and agent steps and handoffs do not change at all.               *)
(***************************************************************************)
EndedNodesStay ==
  [][\A r \in Runs : \A n \in DOMAIN rec[r].nodes :
       rec[r].nodes[n].ended => EndLasts(rec[r].nodes[n], rec'[r].nodes[n])]_vars

(***************************************************************************)
(* Once the SDK is done, run() settles, whatever writes fail and whatever  *)
(* the tasks still record, unless a failure nobody handles ends the        *)
(* process.                                                                *)
(***************************************************************************)
RunsSettle ==
  \A r \in Runs : pc[r] \in Finalizing ~> (pc[r] \in Settled \/ crashed)

(***************************************************************************)
(* Every call of a model the wrapper has instrumented is recorded by a     *)
(* node of its own, which is where its cache key is kept                   *)
(* (packages/migaki-openai-agents-js/README.md:20).                        *)
(***************************************************************************)
EveryModelCallIsRecorded ==
  \A r \in Runs :
    Cardinality({t \in Tasks : t.run = r /\ t.via = "model" /\ task[t] # "new"})
      <= Cardinality({n \in DOMAIN rec[r].nodes : rec[r].nodes[n].kind = "model_call"})
=============================================================================
