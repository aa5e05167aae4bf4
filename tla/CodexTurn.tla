----------------------------- MODULE CodexTurn -----------------------------
(***************************************************************************)
(* The processes that share a store of runs: Codex hooks, commands run     *)
(* under manual-exec and finished by manual-finish                         *)
(* (packages/runtime/src/manual-exec.ts and the two CLIs), and a promotion *)
(* of a run into a bundle of tracked files (promotion.ts).  Each of them   *)
(* reads and writes the runs through the calls and files of                *)
(* ExecutionRuntime, and none locks anything.                              *)
(*                                                                         *)
(* A manual command is a process with two calls, one before and one after  *)
(* its child process.  The scan for the latest running turn, a few         *)
(* synchronous file operations, is one step.                               *)
(*                                                                         *)
(* A definition whose comment begins with "Faulty" is not part of the      *)
(* model: it is a variant with a plausible bug, which a property must      *)
(* catch (PROJECT.json, mutants).                                          *)
(***************************************************************************)
EXTENDS ExecutionRuntime

CONSTANTS
  Hooks,          \* calls of hooks and of manual-finish
  Manuals,        \* manual-exec processes
  HookEvents,     \* the events that hooks deliver
  TurnRuns,       \* the runs of Codex turns that are no smoke runs
  GivenRuns,      \* the runs that --run options name
  ManualRun(_),   \* the run that a manual command makes if it is given none
  ManualEvent(_, _, _, _, _),  \* process, run, lifecycle, status, runStatus
  FinishEvent(_),              \* the event of manual-finish for a run
  NoRun,          \* target of a command that has not chosen one
  MaxActive,      \* bound: calls in progress at a time
  MaxFailures,    \* bound: calls that fail
  MaxPromotions   \* bound: promotions that begin

StartCall(m) == <<m, "start">>
FinishCall(m) == <<m, "finish">>

ASSUME CallsAssumption ==
  /\ Calls = Hooks \cup {StartCall(m) : m \in Manuals} \cup {FinishCall(m) : m \in Manuals}
  /\ \A m \in Manuals : StartCall(m) \notin Hooks /\ FinishCall(m) \notin Hooks

\* createManualCommandEvent and finishManualRun
ASSUME ManualEventsAssumption ==
  /\ HookEvents \subseteq Events /\ TurnRuns \subseteq Runs /\ GivenRuns \subseteq Runs
  /\ NoRun \notin Runs
  /\ \A m \in Manuals : ManualRun(m) \in Runs
  /\ \A r \in Runs :
       /\ FinishEvent(r) \in Events /\ FinishEvent(r).run = r
       /\ \A m \in Manuals :
            /\ LET start == ManualEvent(m, r, "start", "none", "none")
               IN start \in Events /\ start.run = r /\ start.runStatus = "none"
            /\ \A s \in {"ok", "error"}, t \in {"none", "ok", "error"} :
                 LET finish == ManualEvent(m, r, "finish", s, t)
                 IN finish \in Events /\ finish.run = r /\ finish.runStatus = t

\* Any of the events that command m may deliver to run r.
CommandEvents(m, r) ==
  {ManualEvent(m, r, "start", "none", "none")}
    \cup {ManualEvent(m, r, "finish", s, t) : s \in {"ok", "error"}, t \in {"none", "ok", "error"}}

\* The operation of a command is a digest of its process and the time it started,
\* and the id of an event ends in its lifecycle (runManualCommand,
\* createManualCommandEvent): they are of this command and no one else's.
ASSUME ManualIdsAssumption ==
  \A m \in Manuals, r \in Runs :
    LET start == ManualEvent(m, r, "start", "none", "none")
    IN /\ start.lifecycle = "start"
       /\ \A s \in {"ok", "error"}, t \in {"none", "ok", "error"} :
            LET finish == ManualEvent(m, r, "finish", s, t)
            IN /\ finish.lifecycle = "finish" /\ finish.status = s
               /\ finish.op = start.op /\ finish.id # start.id
       /\ \A e \in CommandEvents(m, r),
             f \in HookEvents \cup {FinishEvent(r)}
                    \cup UNION {CommandEvents(n, r) : n \in Manuals \ {m}} :
            f.op # e.op /\ f.id # e.id

ASSUME BoundsAssumption == MaxActive \in Nat /\ MaxFailures \in Nat /\ MaxPromotions \in Nat

VARIABLES
  graphOrder,   \* the runs with a graph.json, by the time it was last modified
  reportOrder,  \* the runs with a report.md, likewise
  manual,       \* manual[m]: what a manual command has chosen and its child has said
  promotion,    \* the promotion under way: its next step, run and what it has read
  bundle,       \* the files of the bundle
  promotions    \* how many promotions have begun

runtimeVars == vars
turnVars == <<graphOrder, reportOrder, manual, promotion, bundle, promotions>>
allVars == <<vars, turnVars>>

-----------------------------------------------------------------------------
Without(order, i) == SubSeq(order, 1, i - 1) \o SubSeq(order, i + 1, Len(order))

\* The file of run r, wherever it was in the order of modification, is now its last.
Newest(order, r) ==
  IF \E i \in DOMAIN order : order[i] = r
  THEN Append(Without(order, CHOOSE i \in DOMAIN order : order[i] = r), r)
  ELSE Append(order, r)

\* Faulty: opening a file, which truncates it, leaves it as old as it was.
KeepOrderUntilWritten(c) ==
  /\ graphOrder' = IF pc[c] = "writeGraph" THEN Newest(graphOrder, RunOf(c)) ELSE graphOrder
  /\ reportOrder' = IF pc[c] = "writeReport" THEN Newest(reportOrder, RunOf(c)) ELSE reportOrder

\* A step that changes a file makes it the newest; opening one does so too.
KeepOrder(c) ==
  /\ graphOrder' = IF pc[c] \in {"openGraph", "writeGraph"}
                   THEN Newest(graphOrder, RunOf(c)) ELSE graphOrder
  /\ reportOrder' = IF pc[c] \in {"openReport", "writeReport"}
                    THEN Newest(reportOrder, RunOf(c)) ELSE reportOrder

Active == {c \in Calls : pc[c] \in InProgress}
Failed == {c \in Calls : pc[c] = "failed"}

\* findLatestRunningCodexTurnRunId: the turn whose graph.json parses, says that it
\* is running, and is the newest of those, if there is one.
IsRunningTurn(r) ==
  r \in TurnRuns /\ graph[r].kind = "whole" /\ graph[r].graph.status = "running"

LatestRunning ==
  {r \in Runs : /\ IsRunningTurn(r)
                /\ \E i \in DOMAIN graphOrder :
                     /\ graphOrder[i] = r
                     /\ \A j \in DOMAIN graphOrder : j > i => ~IsRunningTurn(graphOrder[j])}

NoTarget == [target |-> NoRun, attached |-> FALSE, complete |-> FALSE, status |-> "none"]
Target(r, attached, complete) ==
  [target |-> r, attached |-> attached, complete |-> complete, status |-> "none"]

NoPromotion == [step |-> "idle", run |-> NoRun, graph |-> Absent, report |-> Absent]
Empty == [manifest |-> Absent, report |-> Absent, summary |-> Absent]

TurnInit ==
  /\ Init
  /\ graphOrder = <<>>
  /\ reportOrder = <<>>
  /\ manual = [m \in Manuals |-> NoTarget]
  /\ promotion = NoPromotion
  /\ bundle = Empty
  /\ promotions = 0

-----------------------------------------------------------------------------
(***************************************************************************)
(* Calls.                                                                  *)
(***************************************************************************)
Room == Cardinality(Active) < MaxActive

\* runCodexHook: a hook calls onExecutionEvent with its event.
RunCodexHook(c, e) ==
  /\ Room
  /\ Begin(c, e)
  /\ UNCHANGED turnVars

\* Faulty: the last line is written into the log of the run at once.
FinishInPlace(c, r) ==
  /\ Room
  /\ r \in GivenRuns \cup LatestRunning
  /\ pc[c] = "idle"
  /\ log' = [log EXCEPT ![r] = Append(@, FinishEvent(r))]
  /\ pc' = [pc EXCEPT ![c] = "done"]
  /\ UNCHANGED <<damage, graph, report, event, seen, solo, turnVars>>

\* finishManualRun: the run given, or the latest running turn, is marked as
\* complete; without either nothing is called.
FinishManualRun(c, r) ==
  /\ Room
  /\ r \in GivenRuns \cup LatestRunning
  /\ Begin(c, FinishEvent(r))
  /\ UNCHANGED turnVars

CallStep(c) ==
  /\ Step(c)
  /\ KeepOrder(c)
  /\ UNCHANGED <<manual, promotion, bundle, promotions>>

CallFails(c) ==
  /\ Cardinality(Failed) < MaxFailures
  /\ Abort(c)
  /\ IF files' = files THEN UNCHANGED <<graphOrder, reportOrder>> ELSE KeepOrder(c)
  /\ UNCHANGED <<manual, promotion, bundle, promotions>>

-----------------------------------------------------------------------------
(***************************************************************************)
(* manual-exec.                                                            *)
(***************************************************************************)

\* selectManualRunTarget and the first call of runManualCommand.  An explicit
\* run is completed by the command, an attached one only if the options say so
\* (parseManualExecArgs allows that for attached runs alone), and without a run
\* or a turn to attach to the command gets a run of its own.
StartManual(m) ==
  /\ Room
  /\ manual[m] = NoTarget
  /\ \E r \in Runs, attached, complete \in BOOLEAN :
       /\ \/ r \in GivenRuns \cup {ManualRun(m)} /\ ~attached /\ complete
          \/ r \in LatestRunning /\ attached
       /\ manual' = [manual EXCEPT ![m] = Target(r, attached, complete)]
       /\ Begin(StartCall(m), ManualEvent(m, r, "start", "none", "none"))
  /\ UNCHANGED <<graphOrder, reportOrder, promotion, bundle, promotions>>

\* Faulty: the run is looked up again after the command.
FinishLatest(m) ==
  /\ Room
  /\ pc[StartCall(m)] = "done"
  /\ pc[FinishCall(m)] = "idle"
  /\ \E s \in {"ok", "error"} :
       LET r == IF manual[m].attached /\ LatestRunning # {}
                THEN CHOOSE q \in LatestRunning : TRUE ELSE manual[m].target
       IN /\ manual' = [manual EXCEPT ![m].status = s]
          /\ Begin(FinishCall(m),
                   ManualEvent(m, r, "finish", s, IF manual[m].complete THEN s ELSE "none"))
  /\ UNCHANGED <<graphOrder, reportOrder, promotion, bundle, promotions>>

\* Faulty: a command completes the run it is attached to.
FinishAndComplete(m) ==
  /\ Room
  /\ pc[StartCall(m)] = "done"
  /\ pc[FinishCall(m)] = "idle"
  /\ \E s \in {"ok", "error"} :
       /\ manual' = [manual EXCEPT ![m].status = s]
       /\ Begin(FinishCall(m), ManualEvent(m, manual[m].target, "finish", s, s))
  /\ UNCHANGED <<graphOrder, reportOrder, promotion, bundle, promotions>>

\* runManualCommand, once its first call has returned: the child has run and
\* exited, and the second call begins, on the run chosen before.  If the first
\* call throws, the command never runs.
FinishManual(m) ==
  /\ Room
  /\ pc[StartCall(m)] = "done"
  /\ pc[FinishCall(m)] = "idle"
  /\ \E s \in {"ok", "error"} :
       /\ manual' = [manual EXCEPT ![m].status = s]
       /\ Begin(FinishCall(m),
                ManualEvent(m, manual[m].target, "finish", s,
                            IF manual[m].complete THEN s ELSE "none"))
  /\ UNCHANGED <<graphOrder, reportOrder, promotion, bundle, promotions>>

-----------------------------------------------------------------------------
(***************************************************************************)
(* promoteExecutionRun: three files are read, one after the other, then    *)
(* three are written.                                                      *)
(***************************************************************************)
PromotionStep(from, to) ==
  /\ promotion.step = from
  /\ promotion' = [promotion EXCEPT !.step = to]
  /\ UNCHANGED <<vars, graphOrder, reportOrder, manual, promotions>>

LatestReported == {r \in Runs : reportOrder # <<>> /\ r = reportOrder[Len(reportOrder)]}

\* The run given, or the one whose report.md is the newest (findLatestExecutionRun).
BeginPromotion ==
  /\ promotion.step \in {"idle", "done", "failed"}
  /\ promotions < MaxPromotions
  /\ promotions' = promotions + 1
  /\ \E r \in GivenRuns \cup LatestReported :
       promotion' = [NoPromotion EXCEPT !.step = "readEvents", !.run = r]
  /\ UNCHANGED <<vars, graphOrder, reportOrder, manual, bundle>>

\* The events must parse, and there must be one.
ReadSourceEvents ==
  /\ PromotionStep("readEvents",
       IF log[promotion.run] # <<>> /\ damage[promotion.run] = "none"
       THEN "readGraph" ELSE "failed")
  /\ UNCHANGED bundle

\* parseExecutionGraph
ReadSourceGraph ==
  /\ promotion.step = "readGraph"
  /\ promotion' = [promotion EXCEPT !.step = IF graph[promotion.run].kind = "whole"
                                             THEN "readReport" ELSE "failed",
                                    !.graph = graph[promotion.run]]
  /\ UNCHANGED <<vars, graphOrder, reportOrder, manual, promotions, bundle>>

\* Faulty: the report is read from the run that has the newest one by now.
ReadLatestReport ==
  /\ promotion.step = "readReport"
  /\ LET r == IF reportOrder = <<>> THEN promotion.run ELSE reportOrder[Len(reportOrder)]
     IN promotion' = [promotion EXCEPT !.step = IF report[r].kind \in {"torn", "whole"}
                                                THEN "write" ELSE "failed",
                                       !.report = report[r]]
  /\ UNCHANGED <<vars, graphOrder, reportOrder, manual, promotions, bundle>>

\* validateReport: any text that is not blank will do.
ReadSourceReport ==
  /\ promotion.step = "readReport"
  /\ promotion' = [promotion EXCEPT !.step = IF report[promotion.run].kind \in {"torn", "whole"}
                                             THEN "write" ELSE "failed",
                                    !.report = report[promotion.run]]
  /\ UNCHANGED <<vars, graphOrder, reportOrder, manual, promotions, bundle>>

\* The files of the bundle in the order they are written, the manifest first
\* although it names the others.
Written ==
  <<[bundle EXCEPT !.manifest = [kind |-> "manifest", run |-> promotion.run]],
    [bundle EXCEPT !.manifest = [kind |-> "manifest", run |-> promotion.run],
                   !.report = promotion.report],
    [manifest |-> [kind |-> "manifest", run |-> promotion.run],
     report |-> promotion.report, summary |-> promotion.graph]>>

\* Nothing reads the bundle meanwhile: the three writes are one step, ...
WriteBundle ==
  /\ PromotionStep("write", "done")
  /\ bundle' = Written[3]

\* ... unless the promotion dies, and may leave half of the file it was writing.
AbortPromotion ==
  /\ promotion.step \notin {"idle", "done", "failed"}
  /\ PromotionStep(promotion.step, "failed")
  /\ \/ UNCHANGED bundle
     \/ /\ promotion.step = "write"
        /\ \/ bundle' \in {Written[1], Written[2]}
           \/ bundle' = [bundle EXCEPT !.manifest = Torn]
           \/ bundle' = [Written[1] EXCEPT !.report = Torn]
           \/ bundle' = [Written[2] EXCEPT !.summary = Torn]

Promote ==
  \/ BeginPromotion
  \/ ReadSourceEvents
  \/ ReadSourceGraph
  \/ ReadSourceReport
  \/ WriteBundle
  \/ AbortPromotion

-----------------------------------------------------------------------------
TurnNext ==
  \/ \E c \in Hooks, e \in HookEvents : RunCodexHook(c, e)
  \/ \E c \in Hooks, r \in Runs : FinishManualRun(c, r)
  \/ \E m \in Manuals : StartManual(m) \/ FinishManual(m)
  \/ \E c \in Calls : CallStep(c) \/ CallFails(c)
  \/ Promote

TurnSpec == TurnInit /\ [][TurnNext]_allVars

\* Whatever hooks, commands and promotions do, the store sees calls of
\* onExecutionEvent: what holds of them, whoever makes them, holds here.
RuntimeSpec == Spec

-----------------------------------------------------------------------------
PromotionSteps ==
  {"idle", "readEvents", "readGraph", "readReport", "write", "done", "failed"}

\* The order holds exactly the runs that have such a file, each of them once.
OrdersFiles(order, file) ==
  /\ order \in Seq(Runs)
  /\ \A i, j \in DOMAIN order : order[i] = order[j] => i = j
  /\ \A r \in Runs : file[r].kind # "absent" <=> \E i \in DOMAIN order : order[i] = r

TurnTypeOK ==
  /\ OrdersFiles(graphOrder, graph) /\ OrdersFiles(reportOrder, report)
  /\ manual \in [Manuals -> [target : Runs \cup {NoRun}, attached : BOOLEAN, complete : BOOLEAN,
                             status : {"none", "ok", "error"}]]
  /\ promotion.step \in PromotionSteps /\ promotion.run \in Runs \cup {NoRun}
  /\ promotions \in 0 .. MaxPromotions

\* The two events of a manual command are about one operation of one run, in
\* order, whatever became of the turn it was attached to while its child ran:
\* once the command has ended, the graph of that run's log holds its operation
\* with the status of the child (runManualCommand).
ManualCommandIsPaired ==
  \A m \in Manuals :
    LET events == log[manual[m].target]
        start == ManualEvent(m, manual[m].target, "start", "none", "none")
    IN pc[FinishCall(m)] = "done" =>
         /\ start.op \in Operations(events)
         /\ Nodes(events)[start.op].status = manual[m].status
         /\ \E i, j \in DOMAIN events : /\ i < j /\ events[i].id = start.id
                                        /\ events[j].op = start.op /\ events[j].id # start.id

\* Only what is told to completes a run: the Stop of the turn, manual-finish, or a
\* command given the run, started without one or told to finish the one it is
\* attached to.  A command that only attaches leaves the turn running.
AttachedCommandsLeaveTurnOpen ==
  \A r \in Runs : Complete(log[r]) =>
    \/ \E i \in DOMAIN log[r] : log[r][i] \in HookEvents \cup {FinishEvent(r)}
                                /\ log[r][i].runStatus # "none"
    \/ \E m \in Manuals : manual[m].target = r /\ manual[m].complete

\* A bundle whose promotion has ended is of one run: the manifest names it, the
\* summary is the replay of a prefix of its log, which is by now complete, and
\* the report, if it was read as a whole, is one of that run, complete.
PromotedBundleIsOneRun ==
  promotion.step = "done" =>
    LET r == promotion.run
        IsReplay(file) == \E k \in 1 .. Len(log[r]) : file = Whole(Graph(SubSeq(log[r], 1, k)))
    IN /\ bundle.manifest = [kind |-> "manifest", run |-> r]
       /\ IsReplay(bundle.summary)
       /\ bundle.report.kind = "whole" => IsReplay(bundle.report)
                                          /\ bundle.report.graph.status # "running"
       /\ Complete(log[r])
=============================================================================
