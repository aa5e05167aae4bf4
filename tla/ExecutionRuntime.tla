-------------------------- MODULE ExecutionRuntime --------------------------
(***************************************************************************)
(* MigakiRuntime.onExecutionEvent over a LocalStore                        *)
(* (packages/runtime/src/execution.ts): every observation appends a line   *)
(* to the run's events.jsonl, reads the whole file back, replays it, and   *)
(* overwrites graph.json and, once the run is complete, report.md.         *)
(*                                                                         *)
(* A call is one activation of onExecutionEvent.  Every Codex hook is a    *)
(* process of its own with one call, and manual-exec is a process with     *)
(* two, so the calls of a run interleave at every await; nothing locks the *)
(* run's directory.  A call may be killed, or one of its file operations   *)
(* may fail, at any point: the hook then swallows the error and still      *)
(* exits with success.                                                     *)
(*                                                                         *)
(* A definition whose comment begins with "Faulty" is a variant with a     *)
(* plausible bug that a property must catch; it is not part of the model.  *)
(***************************************************************************)
EXTENDS ExecutionGraph

CONSTANTS
  Runs,           \* the run ids, each a directory under .migaki/runs
  Calls,          \* the activations of onExecutionEvent
  Events,         \* the events that may be delivered; field run is the runId
  AppendMayTear,  \* whether an append may leave part of a line (disk full)
  NoCall,         \* solo[r] when no call ran alone
  NoEvent         \* event[c] before call c begins

\* The adapters never mark a run as running: the runStatus of an event is
\* absent, "ok" or "error" (hook.ts:429 and 478, manual-exec.ts:162 and 326).
ASSUME EventsAssumption ==
  \A e \in Events : e.run \in Runs /\ e.runStatus \in {"none", "ok", "error"}

ASSUME AppendMayTearAssumption == AppendMayTear \in BOOLEAN

ASSUME NoValueAssumption == NoCall \notin Calls /\ NoEvent \notin Events


VARIABLES
  log,      \* log[r]: the events.jsonl of run r
  damage,   \* damage[r]: whether a partial line sits in it, and is still open
  graph,    \* graph[r]: the contents of graph.json
  report,   \* report[r]: the contents of report.md
  pc,       \* pc[c]: the next file operation of call c
  event,    \* event[c]: the event it observes
  seen,     \* seen[c]: the events it read back
  solo      \* history: the last call to begin on r, if it began and ran alone

vars == <<log, damage, graph, report, pc, event, seen, solo>>
files == <<log, damage, graph, report>>

-----------------------------------------------------------------------------
\* What a file may hold.  A report is a function of the graph it renders, and
\* stands for it; "torn" is a mixture of two writes, or half of one.
Absent == [kind |-> "absent"]
Blank == [kind |-> "blank"]
Torn == [kind |-> "torn"]
Whole(g) == [kind |-> "whole", graph |-> g]

InProgress == {"append", "read", "openGraph", "writeGraph", "openReport", "writeReport"}

RunOf(c) == event[c].run
ActiveOn(r) == {c \in Calls : pc[c] \in InProgress /\ RunOf(c) = r}

Goto(c, l) == pc' = [pc EXCEPT ![c] = l]

\* What a file holds after content is written from its start: the writer
\* truncated it before, but another writer may have filled it since, and the
\* rest of a longer text survives.
Overwrite(file, content) ==
  IF file \in {Blank, content} THEN {content} ELSE {content, Torn}

-----------------------------------------------------------------------------
Init ==
  /\ log = [r \in Runs |-> <<>>]
  /\ damage = [r \in Runs |-> "none"]
  /\ graph = [r \in Runs |-> Absent]
  /\ report = [r \in Runs |-> Absent]
  /\ pc = [c \in Calls |-> "idle"]
  /\ event = [c \in Calls |-> NoEvent]
  /\ seen = [c \in Calls |-> <<>>]
  /\ solo = [r \in Runs |-> NoCall]

\* The host process calls onExecutionEvent with an event.
Begin(c, e) ==
  /\ pc[c] = "idle"
  /\ Goto(c, "append")
  /\ event' = [event EXCEPT ![c] = e]
  /\ solo' = [solo EXCEPT ![e.run] = IF ActiveOn(e.run) = {} THEN c ELSE NoCall]
  /\ UNCHANGED <<files, seen>>

\* store.appendEvent: one line is appended.  Behind an unterminated partial
\* line it becomes part of a line that no longer parses.
AppendEvent(c) ==
  /\ pc[c] = "append"
  /\ Goto(c, "read")
  /\ IF damage[RunOf(c)] = "open"
     THEN /\ damage' = [damage EXCEPT ![RunOf(c)] = "closed"]
          /\ UNCHANGED log
     ELSE /\ log' = [log EXCEPT ![RunOf(c)] = Append(@, event[c])]
          /\ UNCHANGED damage
  /\ UNCHANGED <<graph, report, event, seen, solo>>

\* Faulty: the event of the call is added to lines that hold it already.
ReadAndAddEvent(c) ==
  /\ pc[c] = "read"
  /\ damage[RunOf(c)] = "none"
  /\ Goto(c, "openGraph")
  /\ seen' = [seen EXCEPT ![c] = Append(log[RunOf(c)], event[c])]
  /\ UNCHANGED <<files, event, solo>>

\* Faulty: the last line is taken for the empty one after the newline.
ReadAllButLast(c) ==
  /\ pc[c] = "read"
  /\ damage[RunOf(c)] = "none"
  /\ Goto(c, "openGraph")
  /\ seen' = [seen EXCEPT ![c] = SubSeq(log[RunOf(c)], 1, Len(log[RunOf(c)]) - 1)]
  /\ UNCHANGED <<files, event, solo>>

\* store.readEvents: one unreadable line makes it throw.
ReadEvents(c) ==
  /\ pc[c] = "read"
  /\ IF damage[RunOf(c)] = "none"
     THEN /\ Goto(c, "openGraph")
          /\ seen' = [seen EXCEPT ![c] = log[RunOf(c)]]
     ELSE /\ Goto(c, "failed")
          /\ UNCHANGED seen
  /\ UNCHANGED <<files, event, solo>>

\* Faulty: the file is opened without truncating it.
OpenGraphInPlace(c) ==
  /\ pc[c] = "openGraph"
  /\ Goto(c, "writeGraph")
  /\ UNCHANGED <<files, event, seen, solo>>

\* store.writeGraph: the file is opened, which truncates it, ...
OpenGraph(c) ==
  /\ pc[c] = "openGraph"
  /\ Goto(c, "writeGraph")
  /\ graph' = [graph EXCEPT ![RunOf(c)] = Blank]
  /\ UNCHANGED <<log, damage, report, event, seen, solo>>

\* Faulty: a report is written whatever the graph says, ...
WriteGraphThenReport(c) ==
  /\ pc[c] = "writeGraph"
  /\ Goto(c, "openReport")
  /\ \E content \in Overwrite(graph[RunOf(c)], Whole(Graph(seen[c]))) :
        graph' = [graph EXCEPT ![RunOf(c)] = content]
  /\ UNCHANGED <<log, damage, report, event, seen, solo>>

\* ... or when the log, read again, is complete by now.
WriteGraphThenLookAgain(c) ==
  /\ pc[c] = "writeGraph"
  /\ Goto(c, IF Complete(log[RunOf(c)]) THEN "openReport" ELSE "done")
  /\ \E content \in Overwrite(graph[RunOf(c)], Whole(Graph(seen[c]))) :
        graph' = [graph EXCEPT ![RunOf(c)] = content]
  /\ UNCHANGED <<log, damage, report, event, seen, solo>>

\* The graph is written.  A graph that is not running calls for a report.
WriteGraph(c) ==
  /\ pc[c] = "writeGraph"
  /\ Goto(c, IF Complete(seen[c]) THEN "openReport" ELSE "done")
  /\ \E content \in Overwrite(graph[RunOf(c)], Whole(Graph(seen[c]))) :
        graph' = [graph EXCEPT ![RunOf(c)] = content]
  /\ UNCHANGED <<log, damage, report, event, seen, solo>>

\* store.writeReport, likewise in two steps.
OpenReport(c) ==
  /\ pc[c] = "openReport"
  /\ Goto(c, "writeReport")
  /\ report' = [report EXCEPT ![RunOf(c)] = Blank]
  /\ UNCHANGED <<log, damage, graph, event, seen, solo>>

WriteReport(c) ==
  /\ pc[c] = "writeReport"
  /\ Goto(c, "done")
  /\ \E content \in Overwrite(report[RunOf(c)], Whole(Graph(seen[c]))) :
        report' = [report EXCEPT ![RunOf(c)] = content]
  /\ UNCHANGED <<log, damage, graph, event, seen, solo>>

\* The process dies, or the file operation fails and runCodexHook swallows the
\* error.  The operation under way may have had part of its effect.
Abort(c) ==
  /\ pc[c] \in InProgress
  /\ Goto(c, "failed")
  /\ \/ UNCHANGED files
     \/ /\ pc[c] = "append" /\ AppendMayTear
        /\ damage' = [damage EXCEPT ![RunOf(c)] = "open"]
        /\ UNCHANGED <<log, graph, report>>
     \/ /\ pc[c] = "writeGraph"
        /\ graph' = [graph EXCEPT ![RunOf(c)] = Torn]
        /\ UNCHANGED <<log, damage, report>>
     \/ /\ pc[c] = "writeReport"
        /\ report' = [report EXCEPT ![RunOf(c)] = Torn]
        /\ UNCHANGED <<log, damage, graph>>
  /\ UNCHANGED <<event, seen, solo>>

Step(c) ==
  \/ AppendEvent(c)
  \/ ReadEvents(c)
  \/ OpenGraph(c)
  \/ WriteGraph(c)
  \/ OpenReport(c)
  \/ WriteReport(c)

Next == \E c \in Calls : Step(c) \/ Abort(c) \/ \E e \in Events : Begin(c, e)

Spec == Init /\ [][Next]_vars

\* A call that has begun goes on: nothing but a crash or an error stops it.
FairSpec == Spec /\ \A c \in Calls : WF_vars(Step(c))

-----------------------------------------------------------------------------
FileKinds == {"absent", "blank", "torn", "whole"}

TypeOK ==
  /\ log \in [Runs -> Seq(Events)]
  /\ damage \in [Runs -> {"none", "open", "closed"}]
  /\ DOMAIN graph = Runs /\ \A r \in Runs : graph[r].kind \in FileKinds
  /\ DOMAIN report = Runs /\ \A r \in Runs : report[r].kind \in FileKinds
  /\ pc \in [Calls -> InProgress \cup {"idle", "done", "failed"}]
  /\ event \in [Calls -> Events \cup {NoEvent}]
  /\ \A c \in Calls : pc[c] # "idle" => event[c] \in Events
  /\ seen \in [Calls -> Seq(Events)]
  /\ solo \in [Runs -> Calls \cup {NoCall}]

\* Whatever the interleaving, crashes and partial writes, a graph.json that can
\* be read as a whole is the replay of a prefix of the run's log: it may be
\* stale, never wrong (onExecutionEvent writes only what it read back).
GraphIsReplayOfPrefix ==
  \A r \in Runs : graph[r].kind = "whole" =>
    \E k \in 0 .. Len(log[r]) : graph[r] = Whole(Graph(SubSeq(log[r], 1, k)))

\* A report, even a blank or torn one, exists only for a run whose log is
\* complete, and a whole one renders a graph that is not running.
ReportOnlyWhenComplete ==
  \A r \in Runs :
    /\ report[r].kind # "absent" => Complete(log[r])
    /\ report[r].kind = "whole" => report[r].graph.status # "running"

\* A call that runs alone from its first step to its last leaves graph.json and
\* report.md as the replay of the whole log, whatever earlier calls that were
\* killed, failed or overlapped have left there; and they stay so until another
\* call begins on the run.
SoloCallRepairs ==
  \A r \in Runs : \A c \in Calls : (solo[r] = c /\ pc[c] = "done") =>
    /\ graph[r] = Whole(Graph(log[r]))
    /\ Complete(log[r]) => report[r] = Whole(Graph(log[r]))

-----------------------------------------------------------------------------
(***************************************************************************)
(* The inductive invariant behind these: what a call knows between two of  *)
(* its steps.                                                              *)
(***************************************************************************)
HasRead(c) == pc[c] \in {"openGraph", "writeGraph", "openReport", "writeReport"}

\* What a call has read is a past state of the log, however stale by now.
SeenIsPast == \A c \in Calls : HasRead(c) => Continues(log[RunOf(c)], seen[c])

\* Only a call that saw the run complete comes to write a report.
ReportersSawCompletion ==
  \A c \in Calls : pc[c] \in {"openReport", "writeReport"} => Complete(seen[c])

\* A call that has run alone is the only one in progress, has seen the whole
\* log, and finds its files as it left them.
SoloCallIsExact ==
  \A r \in Runs : \A c \in Calls : solo[r] = c =>
    /\ pc[c] # "idle" /\ RunOf(c) = r
    /\ ActiveOn(r) \subseteq {c}
    /\ HasRead(c) => seen[c] = log[r]
    /\ pc[c] = "writeGraph" => graph[r] = Blank
    /\ pc[c] \in {"openReport", "writeReport", "done"} => graph[r] = Whole(Graph(log[r]))
    /\ pc[c] = "writeReport" => report[r] = Blank
    /\ pc[c] = "done" /\ Complete(log[r]) => report[r] = Whole(Graph(log[r]))

IInv ==
  /\ TypeOK
  /\ SeenIsPast
  /\ ReportersSawCompletion
  /\ GraphIsReplayOfPrefix
  /\ ReportOnlyWhenComplete
  /\ SoloCallIsExact

-----------------------------------------------------------------------------
\* Once the log of a run says the run is complete, nothing delivered later, in
\* any order or twice, makes its replay running again.
CompletionSticks ==
  [][\A r \in Runs : Complete(log[r]) => Complete(log'[r])]_vars

\* A completed run gets a report.md unless a call on that run fails: it cannot
\* be lost by an interleaving alone.
CompletionIsReported ==
  \A r \in Runs :
    Complete(log[r]) ~> \/ report[r].kind # "absent"
                        \/ \E c \in Calls : pc[c] = "failed" /\ RunOf(c) = r

\* README.md:7 of packages/runtime: the runtime "replays JSONL into
\* migaki.execution-graph.v0, and writes graph.json after every observation".
\* When every call has ended and none has failed, graph.json is that replay.
QuiescentGraphIsReplay ==
  \A r \in Runs :
    (/\ log[r] # <<>>
     /\ \A c \in Calls : pc[c] \in {"idle", "done"})
      => graph[r] = Whole(Graph(log[r]))
=============================================================================
