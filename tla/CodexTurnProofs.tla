-------------------------- MODULE CodexTurnProofs --------------------------
(***************************************************************************)
(* What hooks, manual commands and promotions do to the store of runs are  *)
(* steps of ExecutionRuntime, whose invariant therefore holds here; on it  *)
(* rest the promotion of one complete run, that a command which only       *)
(* attaches to a turn does not end it, and that the two events of a        *)
(* command are about one operation of one run.                             *)
(***************************************************************************)
EXTENDS CodexTurn, ExecutionRuntimeProofs

IsReplayOf(file, s) == \E k \in 1 .. Len(s) : file = Whole(Graph(SubSeq(s, 1, k)))

\* A file that can be read as a whole is the replay of a log with an event in it.
SourcesAreReplays ==
  \A r \in Runs : /\ graph[r].kind = "whole" => IsReplayOf(graph[r], log[r])
                  /\ report[r].kind = "whole" => IsReplayOf(report[r], log[r])

\* A call reads back at least the event it appended, or finds a line it cannot parse.
ReadersSawEvents ==
  \A c \in Calls : /\ pc[c] = "read" => log[RunOf(c)] # <<>> \/ damage[RunOf(c)] # "none"
                   /\ HasRead(c) => seen[c] # <<>>

\* A command that has begun its first call has chosen a run.
ManualsAreTargeted ==
  /\ DOMAIN manual = Manuals
  /\ \A m \in Manuals :
       /\ manual[m] = [target |-> manual[m].target, attached |-> manual[m].attached,
                       complete |-> manual[m].complete, status |-> manual[m].status]
       /\ pc[StartCall(m)] # "idle" => manual[m].target \in Runs

\* What a promotion has read is still true of the log of its run.
PromotionKnowsItsRun ==
  LET r == promotion.run
  IN /\ promotion = [step |-> promotion.step, run |-> r,
                     graph |-> promotion.graph, report |-> promotion.report]
     /\ promotion.step # "idle" => r \in Runs
     /\ promotion.step \in {"readReport", "write"} => IsReplayOf(promotion.graph, log[r])
     /\ promotion.step = "write" =>
          /\ Complete(log[r])
          /\ promotion.report.kind = "whole" => /\ IsReplayOf(promotion.report, log[r])
                                                /\ promotion.report.graph.status # "running"

\* Who may complete the run of an event, as far as the commands have chosen theirs.
MayComplete(commands, e) ==
  \/ e \in HookEvents \cup {FinishEvent(e.run)}
  \/ \E m \in Manuals : commands[m].target = e.run /\ commands[m].complete

\* Every event that says how its run ended, delivered or on its way, may do so.
CompletersAreKnown ==
  /\ \A c \in Calls : pc[c] # "idle" /\ event[c].runStatus # "none" => MayComplete(manual, event[c])
  /\ \A r \in Runs : \A i \in 1 .. Len(log[r]) :
       /\ log[r][i].run = r
       /\ log[r][i].runStatus # "none" => MayComplete(manual, log[r][i])

SourcesInv == IInv /\ SourcesAreReplays /\ ReadersSawEvents

TurnIInv ==
  /\ SourcesInv
  /\ ManualsAreTargeted
  /\ PromotionKnowsItsRun
  /\ PromotedBundleIsOneRun
  /\ CompletersAreKnown

-----------------------------------------------------------------------------
(***************************************************************************)
(* Logs and files of the runtime.                                          *)
(***************************************************************************)

\* One step adds at most one line to a log, the event of a call on that run.
LEMMA LogsOnlyGrow ==
  ASSUME IInv, [Next]_vars, NEW r \in Runs
  PROVE  \/ log'[r] = log[r]
         \/ \E c \in Calls : /\ pc[c] = "append" /\ RunOf(c) = r
                             /\ event[c] \in Events
                             /\ log'[r] = Append(log[r], event[c])
<1>1. CASE log' = log
  BY <1>1
<1>2. CASE log' # log
  <2>1. PICK c \in Calls : AppendEvent(c)
    BY <1>2 DEF Next, Step, Begin, ReadEvents, OpenGraph, WriteGraph, OpenReport,
                WriteReport, Abort, files, vars
  <2>2. RunOf(c) \in Runs /\ event[c] \in Events
    BY <2>1, StepFrame DEF Step
  <2>3. log \in [Runs -> Seq(Events)]
    BY DEF IInv, TypeOK
  <2>4. QED
    BY <2>1, <2>2, <2>3 DEF AppendEvent
<1>3. QED
  BY <1>1, <1>2

\* What was the replay of a prefix of a log stays one, and a log stays complete.
LEMMA ReplaysStay ==
  ASSUME IInv, [Next]_vars, NEW r \in Runs
  PROVE  /\ \A file : IsReplayOf(file, log[r]) => IsReplayOf(file, log'[r])
         /\ Complete(log[r]) => Complete(log'[r])
         /\ log[r] # <<>> => log'[r] # <<>>
<1>1. CASE log'[r] = log[r]
  BY <1>1
<1>2. CASE log'[r] # log[r]
  <2>1. log[r] \in Seq(Events)
    BY DEF IInv, TypeOK
  <2>2. PICK e \in Events : log'[r] = Append(log[r], e)
    BY <1>2, LogsOnlyGrow
  <2>3. /\ Append(log[r], e) \in Seq(Events) /\ Append(log[r], e) # <<>>
        /\ Len(Append(log[r], e)) = Len(log[r]) + 1
        /\ Continues(Append(log[r], e), log[r])
    BY <2>1, AppendProperties DEF Continues
  <2>4. Complete(log[r]) => Complete(log'[r])
    BY <2>1, <2>2, <2>3, CompleteContinues, EventsAreAdapterEvents
  <2>5. ASSUME NEW file, IsReplayOf(file, log[r]) PROVE IsReplayOf(file, log'[r])
    <3>1. PICK k \in 1 .. Len(log[r]) : file = Whole(Graph(SubSeq(log[r], 1, k)))
      BY <2>5 DEF IsReplayOf
    <3>2. SubSeq(log'[r], 1, k) = SubSeq(log[r], 1, k)
      BY <2>1, <2>2, PrefixOfAppend
    <3>3. k \in 1 .. Len(log'[r])
      BY <2>1, <2>2, <2>3
    <3>4. QED
      BY <3>1, <3>2, <3>3 DEF IsReplayOf
  <2>6. QED
    BY <2>2, <2>3, <2>4, <2>5
<1>3. QED
  BY <1>1, <1>2

\* A partial line in a log stays there.
LEMMA DamageStays ==
  ASSUME IInv, [Next]_vars, NEW r \in Runs, damage[r] # "none"
  PROVE  damage'[r] # "none"
<1>1. damage \in [Runs -> {"none", "open", "closed"}]
  BY DEF IInv, TypeOK
<1>2. ASSUME NEW c \in Calls, Step(c) PROVE damage'[r] # "none"
  BY <1>1, <1>2 DEF Step, AppendEvent, ReadEvents, OpenGraph, WriteGraph, OpenReport, WriteReport,
                    files
<1>3. ASSUME NEW c \in Calls, Abort(c) PROVE damage'[r] # "none"
  BY <1>1, <1>3 DEF Abort, files
<1>4. QED
  BY <1>2, <1>3 DEF Next, Begin, files, vars

\* A whole file is as it was, or is what a call has just written into it.
LEMMA FilesAreWritten ==
  ASSUME IInv, [Next]_vars, NEW r \in Runs
  PROVE  /\ graph'[r].kind = "whole" =>
              \/ graph'[r] = graph[r]
              \/ \E c \in Calls : /\ HasRead(c) /\ RunOf(c) = r
                                  /\ graph'[r] = Whole(Graph(seen[c]))
         /\ report'[r].kind = "whole" =>
              \/ report'[r] = report[r]
              \/ \E c \in Calls : /\ HasRead(c) /\ RunOf(c) = r
                                  /\ report'[r] = Whole(Graph(seen[c]))
<1>1. DOMAIN graph = Runs /\ DOMAIN report = Runs
  BY DEF IInv, TypeOK
<1>2. Torn.kind # "whole" /\ Blank.kind # "whole"
  BY DEF Torn, Blank
<1>3. ASSUME NEW c \in Calls, WriteGraph(c) \/ WriteReport(c)
      PROVE  /\ graph'[r] \in {graph[r], Torn, Blank}
                \/ (HasRead(c) /\ RunOf(c) = r /\ graph'[r] = Whole(Graph(seen[c])))
             /\ report'[r] \in {report[r], Torn, Blank}
                \/ (HasRead(c) /\ RunOf(c) = r /\ report'[r] = Whole(Graph(seen[c])))
  <2>1. CASE WriteGraph(c)
    BY <1>1, <2>1 DEF WriteGraph, HasRead, Overwrite
  <2>2. CASE WriteReport(c)
    BY <1>1, <2>2 DEF WriteReport, HasRead, Overwrite
  <2>3. QED
    BY <1>3, <2>1, <2>2
<1>4. ASSUME NEW c \in Calls,
             \/ AppendEvent(c) \/ ReadEvents(c) \/ OpenGraph(c) \/ OpenReport(c) \/ Abort(c)
             \/ \E e \in Events : Begin(c, e)
      PROVE  graph'[r] \in {graph[r], Torn, Blank} /\ report'[r] \in {report[r], Torn, Blank}
  BY <1>1, <1>4 DEF AppendEvent, ReadEvents, OpenGraph, OpenReport, Abort, Begin, files
<1>5. CASE UNCHANGED vars
  BY <1>5 DEF vars
<1>6. QED
  BY <1>2, <1>3, <1>4, <1>5 DEF Next, Step

\* What a call writes is the replay of a log with at least its own event in it.
LEMMA WritersReplayLogs ==
  ASSUME SourcesInv, NEW c \in Calls, HasRead(c)
  PROVE  IsReplayOf(Whole(Graph(seen[c])), log[RunOf(c)])
<1>1. RunOf(c) \in Runs /\ log[RunOf(c)] \in Seq(Events) /\ seen[c] \in Seq(Events)
  BY EventsAssumption DEF SourcesInv, IInv, TypeOK, HasRead, RunOf
<1>2. Continues(log[RunOf(c)], seen[c]) /\ seen[c] # <<>>
  BY DEF SourcesInv, IInv, SeenIsPast, ReadersSawEvents
<1>3. Len(seen[c]) \in 0 .. Len(log[RunOf(c)]) /\ SubSeq(log[RunOf(c)], 1, Len(seen[c])) = seen[c]
  BY <1>1, <1>2, ContinuedIsPrefix
<1>4. Len(seen[c]) \in 1 .. Len(log[RunOf(c)])
  BY <1>1, <1>2, <1>3, EmptySeq
<1>5. QED
  BY <1>3, <1>4 DEF IsReplayOf

\* No file and no call yet.
LEMMA InitEstablishesSources == Init => SourcesInv
<1> SUFFICES ASSUME Init PROVE SourcesInv
  OBVIOUS
<1>1. IInv
  BY InitEstablishesIInv
<1>2. SourcesAreReplays
  BY DEF Init, SourcesAreReplays, Absent
<1>3. ReadersSawEvents
  BY DEF Init, ReadersSawEvents, HasRead
<1>4. QED
  BY <1>1, <1>2, <1>3 DEF SourcesInv

\* No step of the runtime, a crash or a failure among them, puts anything else in a file.
LEMMA NextPreservesSources ==
  ASSUME SourcesInv, [Next]_vars
  PROVE  SourcesInv'
<1>1. IInv /\ IInv'
  BY NextPreservesIInv DEF SourcesInv
<1>2. SourcesAreReplays'
  <2> SUFFICES ASSUME NEW r \in Runs
               PROVE  /\ graph'[r].kind = "whole" => IsReplayOf(graph'[r], log'[r])
                      /\ report'[r].kind = "whole" => IsReplayOf(report'[r], log'[r])
    BY DEF SourcesAreReplays, IsReplayOf
  <2>1. /\ graph[r].kind = "whole" => IsReplayOf(graph[r], log[r])
        /\ report[r].kind = "whole" => IsReplayOf(report[r], log[r])
    BY DEF SourcesInv, SourcesAreReplays
  <2>2. \A c \in Calls : HasRead(c) /\ RunOf(c) = r =>
                           IsReplayOf(Whole(Graph(seen[c])), log[r])
    BY WritersReplayLogs
  <2>3. \A file : IsReplayOf(file, log[r]) => IsReplayOf(file, log'[r])
    BY <1>1, ReplaysStay
  <2>4. graph'[r].kind = "whole" => IsReplayOf(graph'[r], log[r])
    BY <1>1, <2>1, <2>2, FilesAreWritten
  <2>5. report'[r].kind = "whole" => IsReplayOf(report'[r], log[r])
    BY <1>1, <2>1, <2>2, FilesAreWritten
  <2>6. QED
    BY <2>3, <2>4, <2>5
<1>3. ReadersSawEvents'
  <2> SUFFICES ASSUME NEW c \in Calls
               PROVE  /\ pc'[c] = "read" => log'[RunOf(c)'] # <<>> \/ damage'[RunOf(c)'] # "none"
                      /\ HasRead(c)' => seen'[c] # <<>>
    BY DEF ReadersSawEvents
  <2>1. TypeOK /\ ReadersSawEvents
    BY <1>1 DEF SourcesInv, IInv
  <2>2. CASE Step(c)
    <3>1. RunOf(c)' = RunOf(c) /\ RunOf(c) \in Runs
      BY <1>1, <2>2, StepFrame
    <3>2. CASE AppendEvent(c)
      <4>1. log'[RunOf(c)] # <<>> \/ damage'[RunOf(c)] # "none"
        <5>1. log[RunOf(c)] \in Seq(Events) /\ event[c] \in Events
          BY <2>1, <3>1, <3>2 DEF TypeOK, AppendEvent
        <5>2. Append(log[RunOf(c)], event[c]) # <<>>
          BY <5>1, AppendProperties
        <5>3. QED
          BY <2>1, <3>1, <3>2, <5>2 DEF TypeOK, AppendEvent
      <4>2. pc'[c] = "read"
        BY <2>1, <3>2 DEF TypeOK, AppendEvent, Goto
      <4>3. QED
        BY <3>1, <4>1, <4>2 DEF HasRead
    <3>3. CASE ReadEvents(c)
      BY <2>1, <3>3 DEF TypeOK, ReadersSawEvents, ReadEvents, Goto, HasRead
    <3>4. CASE OpenGraph(c) \/ WriteGraph(c) \/ OpenReport(c) \/ WriteReport(c)
      BY <2>1, <3>4 DEF TypeOK, ReadersSawEvents, OpenGraph, WriteGraph, OpenReport, WriteReport,
                        Goto, HasRead
    <3>5. QED
      BY <2>2, <3>2, <3>3, <3>4 DEF Step
  <2>3. CASE Abort(c) \/ \E e \in Events : Begin(c, e)
    BY <2>1, <2>3 DEF TypeOK, Abort, Begin, Goto, HasRead
  <2>4. CASE pc'[c] = pc[c] /\ event'[c] = event[c] /\ seen'[c] = seen[c]
    <3>1. pc[c] = "read" => RunOf(c) \in Runs
      BY <2>1, EventsAssumption DEF TypeOK, RunOf
    <3>2. RunOf(c)' = RunOf(c)
      BY <2>4 DEF RunOf
    <3>3. \A r \in Runs : /\ log[r] # <<>> => log'[r] # <<>>
                          /\ damage[r] # "none" => damage'[r] # "none"
      BY <1>1, ReplaysStay, DamageStays
    <3>4. QED
      BY <2>1, <2>4, <3>1, <3>2, <3>3 DEF ReadersSawEvents, HasRead
  <2>5. \/ Step(c) \/ Abort(c) \/ \E e \in Events : Begin(c, e)
        \/ pc'[c] = pc[c] /\ event'[c] = event[c] /\ seen'[c] = seen[c]
    <3>1. CASE UNCHANGED vars
      BY <3>1 DEF vars
    <3>2. ASSUME NEW d \in Calls, d # c, Step(d) \/ Abort(d)
          PROVE  pc'[c] = pc[c] /\ event'[c] = event[c] /\ seen'[c] = seen[c]
      BY <2>1, <3>2 DEF TypeOK, Step, AppendEvent, ReadEvents, OpenGraph, WriteGraph, OpenReport,
                        WriteReport, Abort, Goto
    <3>3. ASSUME NEW d \in Calls, d # c, NEW e \in Events, Begin(d, e)
          PROVE  pc'[c] = pc[c] /\ event'[c] = event[c] /\ seen'[c] = seen[c]
      BY <2>1, <3>3 DEF TypeOK, Begin, Goto
    <3>4. QED
      BY <3>1, <3>2, <3>3 DEF Next
  <2>6. QED
    BY <2>2, <2>3, <2>4, <2>5
<1>4. QED
  BY <1>1, <1>2, <1>3 DEF SourcesInv

-----------------------------------------------------------------------------
(***************************************************************************)
(* Turns are behaviours of the runtime.                                    *)
(***************************************************************************)

\* A command's second call is about the run its first one chose.
LEMMA TurnStepsAreCalls ==
  ASSUME ManualsAreTargeted, [TurnNext]_allVars
  PROVE  [Next]_vars
<1>1. ASSUME NEW c \in Hooks, NEW e \in HookEvents, RunCodexHook(c, e) PROVE Next
  BY <1>1, CallsAssumption, ManualEventsAssumption DEF RunCodexHook, Next
<1>2. ASSUME NEW c \in Hooks, NEW r \in Runs, FinishManualRun(c, r) PROVE Next
  BY <1>2, CallsAssumption, ManualEventsAssumption DEF FinishManualRun, Next
<1>3. ASSUME NEW m \in Manuals, StartManual(m) PROVE Next
  <2>1. PICK r \in Runs : Begin(StartCall(m), ManualEvent(m, r, "start", "none", "none"))
    BY <1>3 DEF StartManual
  <2>2. QED
    BY <2>1, CallsAssumption, ManualEventsAssumption DEF Next
<1>4. ASSUME NEW m \in Manuals, FinishManual(m) PROVE Next
  <2>1. manual[m].target \in Runs
    BY <1>4 DEF FinishManual, ManualsAreTargeted
  <2>2. PICK s \in {"ok", "error"}, t \in {"none", "ok", "error"} :
          Begin(FinishCall(m), ManualEvent(m, manual[m].target, "finish", s, t))
    BY <1>4 DEF FinishManual
  <2>3. QED
    BY <2>1, <2>2, CallsAssumption, ManualEventsAssumption DEF Next
<1>5. ASSUME NEW c \in Calls, CallStep(c) \/ CallFails(c) PROVE Next
  BY <1>5 DEF CallStep, CallFails, Next
<1>6. CASE Promote
  BY <1>6 DEF Promote, BeginPromotion, ReadSourceEvents, ReadSourceGraph, ReadSourceReport,
              WriteBundle, AbortPromotion, PromotionStep
<1>7. CASE UNCHANGED allVars
  BY <1>7 DEF allVars
<1>8. QED
  BY <1>1, <1>2, <1>3, <1>4, <1>5, <1>6, <1>7 DEF TurnNext

-----------------------------------------------------------------------------
(***************************************************************************)
(* Promotions.                                                             *)
(***************************************************************************)

\* Only a promotion changes the bundle, and it leaves the runs alone.
LEMMA PromotionsOnlyRead ==
  ASSUME [TurnNext]_allVars
  PROVE  \/ promotion' = promotion /\ bundle' = bundle
         \/ Promote /\ UNCHANGED vars
<1>1. ASSUME NEW c \in Calls, CallStep(c) \/ CallFails(c)
      PROVE  promotion' = promotion /\ bundle' = bundle
  BY <1>1 DEF CallStep, CallFails
<1>2. ASSUME NEW c \in Hooks,
             \/ \E e \in HookEvents : RunCodexHook(c, e)
             \/ \E r \in Runs : FinishManualRun(c, r)
      PROVE  promotion' = promotion /\ bundle' = bundle
  BY <1>2 DEF RunCodexHook, FinishManualRun, turnVars
<1>3. ASSUME NEW m \in Manuals, StartManual(m) \/ FinishManual(m)
      PROVE  promotion' = promotion /\ bundle' = bundle
  BY <1>3 DEF StartManual, FinishManual
<1>4. Promote => UNCHANGED vars
  BY DEF Promote, BeginPromotion, ReadSourceEvents, ReadSourceGraph, ReadSourceReport,
         WriteBundle, AbortPromotion, PromotionStep
<1>5. CASE UNCHANGED allVars
  BY <1>5 DEF allVars, turnVars
<1>6. QED
  BY <1>1, <1>2, <1>3, <1>4, <1>5 DEF TurnNext

\* What a promotion has read stays true while it reads on: logs only grow.
LEMMA PromotionStaysInformed ==
  ASSUME SourcesInv, [Next]_vars, PromotionKnowsItsRun, PromotedBundleIsOneRun,
         promotion' = promotion, bundle' = bundle
  PROVE  PromotionKnowsItsRun' /\ PromotedBundleIsOneRun'
<1>1. CASE promotion.step = "idle"
  BY <1>1 DEF PromotionKnowsItsRun, PromotedBundleIsOneRun
<1>2. CASE promotion.step # "idle"
  <2> DEFINE r == promotion.run
  <2>1. r \in Runs
    BY <1>2 DEF PromotionKnowsItsRun
  <2>2. /\ \A file : IsReplayOf(file, log[r]) => IsReplayOf(file, log'[r])
        /\ Complete(log[r]) => Complete(log'[r])
    BY <2>1, ReplaysStay DEF SourcesInv
  <2>3. PromotionKnowsItsRun'
    BY <2>2 DEF PromotionKnowsItsRun, IsReplayOf
  <2>4. PromotedBundleIsOneRun'
    <3> SUFFICES ASSUME promotion.step = "done" PROVE PromotedBundleIsOneRun'
      BY DEF PromotedBundleIsOneRun
    <3>1. /\ bundle.manifest = [kind |-> "manifest", run |-> r]
          /\ IsReplayOf(bundle.summary, log[r]) /\ Complete(log[r])
          /\ bundle.report.kind = "whole" => /\ IsReplayOf(bundle.report, log[r])
                                             /\ bundle.report.graph.status # "running"
      BY DEF PromotedBundleIsOneRun, IsReplayOf
    <3>2. /\ IsReplayOf(bundle.summary, log'[r]) /\ Complete(log'[r])
          /\ bundle.report.kind = "whole" => IsReplayOf(bundle.report, log'[r])
      BY <2>2, <3>1
    <3>3. QED
      BY <3>1, <3>2 DEF PromotedBundleIsOneRun, IsReplayOf
  <2>5. QED
    BY <2>3, <2>4
<1>3. QED
  BY <1>1, <1>2

\* Each file is read after the one that vouches for the run: what is written is of it.
LEMMA PromoteReadsOneRun ==
  ASSUME SourcesInv, PromotionKnowsItsRun, Promote, UNCHANGED vars
  PROVE  PromotionKnowsItsRun' /\ PromotedBundleIsOneRun'
<1> DEFINE r == promotion.run
<1>1. promotion = [step |-> promotion.step, run |-> r,
                   graph |-> promotion.graph, report |-> promotion.report]
  BY DEF PromotionKnowsItsRun
<1>2. log' = log /\ graph' = graph /\ report' = report
  BY DEF vars
<1>3. CASE BeginPromotion
  <2>1. PICK q \in Runs : promotion' = [NoPromotion EXCEPT !.step = "readEvents", !.run = q]
    BY <1>3, ManualEventsAssumption DEF BeginPromotion, LatestReported
  <2>2. promotion' = [step |-> "readEvents", run |-> q, graph |-> Absent, report |-> Absent]
    BY <2>1 DEF NoPromotion
  <2>3. QED
    BY <2>2 DEF PromotionKnowsItsRun, PromotedBundleIsOneRun
<1>4. CASE ReadSourceEvents
  <2>1. /\ r \in Runs
        /\ \E step \in {"readGraph", "failed"} : promotion' = [promotion EXCEPT !.step = step]
    BY <1>4 DEF ReadSourceEvents, PromotionStep, PromotionKnowsItsRun
  <2>2. PICK step \in {"readGraph", "failed"} :
          promotion' = [step |-> step, run |-> r,
                        graph |-> promotion.graph, report |-> promotion.report]
    BY <1>1, <2>1
  <2>3. QED
    BY <2>1, <2>2 DEF PromotionKnowsItsRun, PromotedBundleIsOneRun
<1>5. CASE ReadSourceGraph
  <2>1. r \in Runs
    BY <1>5 DEF ReadSourceGraph, PromotionKnowsItsRun
  <2>2. graph[r].kind = "whole" => IsReplayOf(graph[r], log[r])
    BY <2>1 DEF SourcesInv, SourcesAreReplays
  <2>3. promotion' = [step |-> IF graph[r].kind = "whole" THEN "readReport" ELSE "failed",
                      run |-> r, graph |-> graph[r], report |-> promotion.report]
    BY <1>1, <1>5 DEF ReadSourceGraph
  <2>4. QED
    BY <1>2, <2>1, <2>2, <2>3 DEF PromotionKnowsItsRun, PromotedBundleIsOneRun, IsReplayOf
<1>6. CASE ReadSourceReport
  <2>1. r \in Runs /\ IsReplayOf(promotion.graph, log[r])
    BY <1>6 DEF ReadSourceReport, PromotionKnowsItsRun
  <2>2. /\ report[r].kind = "whole" => IsReplayOf(report[r], log[r])
        /\ report[r].kind = "whole" => report[r].graph.status # "running"
        /\ report[r].kind \in {"torn", "whole"} => Complete(log[r])
    BY <2>1 DEF SourcesInv, SourcesAreReplays, IInv, ReportOnlyWhenComplete
  <2>3. promotion' = [step |-> IF report[r].kind \in {"torn", "whole"} THEN "write" ELSE "failed",
                      run |-> r, graph |-> promotion.graph, report |-> report[r]]
    BY <1>1, <1>6 DEF ReadSourceReport
  <2>4. QED
    BY <1>2, <2>1, <2>2, <2>3 DEF PromotionKnowsItsRun, PromotedBundleIsOneRun, IsReplayOf
<1>7. CASE WriteBundle
  <2>1. /\ r \in Runs /\ Complete(log[r])
        /\ promotion.report.kind = "whole" => /\ IsReplayOf(promotion.report, log[r])
                                              /\ promotion.report.graph.status # "running"
        /\ IsReplayOf(promotion.graph, log[r])
    BY <1>7 DEF WriteBundle, PromotionStep, PromotionKnowsItsRun
  <2>2. promotion' = [step |-> "done", run |-> r,
                      graph |-> promotion.graph, report |-> promotion.report]
    BY <1>1, <1>7 DEF WriteBundle, PromotionStep
  <2>3. bundle' = [manifest |-> [kind |-> "manifest", run |-> r],
                   report |-> promotion.report, summary |-> promotion.graph]
    BY <1>7 DEF WriteBundle, Written
  <2>4. QED
    BY <1>2, <2>1, <2>2, <2>3 DEF PromotionKnowsItsRun, PromotedBundleIsOneRun, IsReplayOf
<1>8. CASE AbortPromotion
  <2>1. r \in Runs /\ promotion' = [promotion EXCEPT !.step = "failed"]
    BY <1>8 DEF AbortPromotion, PromotionStep, PromotionKnowsItsRun
  <2>2. promotion' = [step |-> "failed", run |-> r,
                      graph |-> promotion.graph, report |-> promotion.report]
    BY <1>1, <2>1
  <2>3. QED
    BY <2>1, <2>2 DEF PromotionKnowsItsRun, PromotedBundleIsOneRun
<1>9. QED
  BY <1>3, <1>4, <1>5, <1>6, <1>7, <1>8 DEF Promote

-----------------------------------------------------------------------------
(***************************************************************************)
(* Manual commands.                                                        *)
(***************************************************************************)

\* A command chooses its run once, before its first call, and keeps it.
LEMMA CommandsKeepTheirRun ==
  ASSUME ManualsAreTargeted, [TurnNext]_allVars
  PROVE  /\ DOMAIN manual' = Manuals
         /\ \A m \in Manuals :
              /\ manual'[m] = [target |-> manual'[m].target, attached |-> manual'[m].attached,
                               complete |-> manual'[m].complete, status |-> manual'[m].status]
              /\ \/ /\ manual'[m].target = manual[m].target
                    /\ manual'[m].complete = manual[m].complete
                 \/ manual[m] = NoTarget /\ manual'[m].target \in Runs
<1>1. ASSUME NEW n \in Manuals, StartManual(n)
      PROVE  \E r \in Runs, attached, complete \in BOOLEAN :
               manual[n] = NoTarget /\ manual' = [manual EXCEPT ![n] = Target(r, attached, complete)]
  BY <1>1 DEF StartManual
<1>2. ASSUME NEW n \in Manuals, FinishManual(n)
      PROVE  \E s \in {"ok", "error"} : manual' = [manual EXCEPT ![n].status = s]
  BY <1>2 DEF FinishManual
<1>3. \/ manual' = manual
      \/ \E n \in Manuals : StartManual(n) \/ FinishManual(n)
  BY DEF TurnNext, CallStep, CallFails, RunCodexHook, FinishManualRun, Promote, BeginPromotion,
         ReadSourceEvents, ReadSourceGraph, ReadSourceReport, WriteBundle, AbortPromotion,
         PromotionStep, allVars, turnVars
<1>4. QED
  BY <1>1, <1>2, <1>3 DEF ManualsAreTargeted, Target

\* The first call of a command begins only when it has chosen its run.
LEMMA FirstCallsAreTargeted ==
  ASSUME IInv, ManualsAreTargeted, [TurnNext]_allVars, NEW m \in Manuals,
         pc'[StartCall(m)] # "idle"
  PROVE  pc[StartCall(m)] # "idle" \/ StartManual(m)
<1> DEFINE call == StartCall(m)
<1>1. pc \in [Calls -> InProgress \cup {"idle", "done", "failed"}] /\ call \in Calls
  BY CallsAssumption DEF IInv, TypeOK
<1>2. ASSUME NEW c \in Calls, c # call, NEW e, Begin(c, e) PROVE pc'[call] = pc[call]
  BY <1>1, <1>2 DEF Begin, Goto
<1>3. ASSUME NEW c \in Hooks,
             \/ \E e \in HookEvents : RunCodexHook(c, e)
             \/ \E r \in Runs : FinishManualRun(c, r)
      PROVE  pc'[call] = pc[call]
  <2>1. c \in Calls /\ c # call
    BY CallsAssumption
  <2>2. QED
    BY <1>2, <1>3, <2>1 DEF RunCodexHook, FinishManualRun
<1>4. ASSUME NEW n \in Manuals, n # m, StartManual(n) PROVE pc'[call] = pc[call]
  <2>1. StartCall(n) \in Calls /\ StartCall(n) # call
    BY <1>4, CallsAssumption DEF StartCall
  <2>2. QED
    BY <1>2, <1>4, <2>1 DEF StartManual
<1>5. ASSUME NEW n \in Manuals, FinishManual(n) PROVE pc'[call] = pc[call]
  <2>1. FinishCall(n) \in Calls /\ FinishCall(n) # call
    BY CallsAssumption DEF StartCall, FinishCall
  <2>2. QED
    BY <1>2, <1>5, <2>1 DEF FinishManual
<1>6. ASSUME NEW c \in Calls, CallStep(c) \/ CallFails(c)
      PROVE  pc'[call] = pc[call] \/ pc[call] # "idle"
  <2>1. Step(c) \/ Abort(c)
    BY <1>6 DEF CallStep, CallFails
  <2>2. pc[c] # "idle" /\ (c # call => pc'[call] = pc[call])
    BY <1>1, <2>1 DEF Step, Abort, AppendEvent, ReadEvents, OpenGraph, WriteGraph, OpenReport,
                      WriteReport, Goto, InProgress
  <2>3. QED
    BY <2>2
<1>7. CASE Promote \/ UNCHANGED allVars
  BY <1>7, PromotionsOnlyRead DEF Promote, BeginPromotion, ReadSourceEvents, ReadSourceGraph,
       ReadSourceReport, WriteBundle, AbortPromotion, PromotionStep, vars, allVars
<1>8. QED
  BY <1>3, <1>4, <1>5, <1>6, <1>7 DEF TurnNext

\* The event of a call is settled when it begins, by one who may complete its run if it does.
LEMMA EventsHaveSources ==
  ASSUME IInv, ManualsAreTargeted, [TurnNext]_allVars, NEW c \in Calls
  PROVE  \/ event'[c] = event[c] /\ (pc'[c] # "idle" => pc[c] # "idle")
         \/ event'[c].runStatus # "none" => MayComplete(manual, event'[c])
<1>1. /\ pc \in [Calls -> InProgress \cup {"idle", "done", "failed"}]
      /\ event \in [Calls -> Events \cup {NoEvent}]
  BY DEF IInv, TypeOK
<1>2. ASSUME NEW d \in Calls, NEW e, Begin(d, e)
      PROVE  \/ d # c /\ event'[c] = event[c] /\ pc'[c] = pc[c]
             \/ d = c /\ event'[c] = e
  BY <1>1, <1>2 DEF Begin, Goto
<1>3. ASSUME NEW d \in Hooks, NEW e \in HookEvents, RunCodexHook(d, e)
      PROVE  (event'[c] = event[c] /\ pc'[c] = pc[c]) \/ MayComplete(manual, event'[c])
  BY <1>2, <1>3, CallsAssumption DEF RunCodexHook, MayComplete
<1>4. ASSUME NEW d \in Hooks, NEW r \in Runs, FinishManualRun(d, r)
      PROVE  (event'[c] = event[c] /\ pc'[c] = pc[c]) \/ MayComplete(manual, event'[c])
  <2>1. FinishEvent(r).run = r
    BY ManualEventsAssumption
  <2>2. QED
    BY <1>2, <1>4, <2>1, CallsAssumption DEF FinishManualRun, MayComplete
<1>5. ASSUME NEW m \in Manuals, StartManual(m)
      PROVE  \/ event'[c] = event[c] /\ pc'[c] = pc[c]
             \/ event'[c].runStatus = "none"
  <2>1. PICK r \in Runs : Begin(StartCall(m), ManualEvent(m, r, "start", "none", "none"))
    BY <1>5 DEF StartManual
  <2>2. ManualEvent(m, r, "start", "none", "none").runStatus = "none" /\ StartCall(m) \in Calls
    BY ManualEventsAssumption, CallsAssumption
  <2>3. QED
    BY <1>2, <2>1, <2>2
<1>6. ASSUME NEW m \in Manuals, FinishManual(m)
      PROVE  \/ event'[c] = event[c] /\ pc'[c] = pc[c]
             \/ event'[c].runStatus # "none" => MayComplete(manual, event'[c])
  <2>1. manual[m].target \in Runs /\ FinishCall(m) \in Calls
    BY <1>6, CallsAssumption DEF FinishManual, ManualsAreTargeted
  <2>2. PICK s \in {"ok", "error"}, t \in {"none", "ok", "error"} :
          /\ Begin(FinishCall(m), ManualEvent(m, manual[m].target, "finish", s, t))
          /\ t # "none" => manual[m].complete
    BY <1>6 DEF FinishManual
  <2>3. /\ ManualEvent(m, manual[m].target, "finish", s, t).run = manual[m].target
        /\ ManualEvent(m, manual[m].target, "finish", s, t).runStatus = t
    BY <2>1, ManualEventsAssumption
  <2>4. QED
    BY <1>2, <2>1, <2>2, <2>3 DEF MayComplete
<1>7. ASSUME NEW d \in Calls, CallStep(d) \/ CallFails(d)
      PROVE  event'[c] = event[c] /\ (pc'[c] # "idle" => pc[c] # "idle")
  <2>1. Step(d) \/ Abort(d)
    BY <1>7 DEF CallStep, CallFails
  <2>2. event' = event /\ pc[d] # "idle" /\ (d # c => pc'[c] = pc[c])
    BY <1>1, <2>1 DEF Step, Abort, AppendEvent, ReadEvents, OpenGraph, WriteGraph, OpenReport,
                      WriteReport, Goto, InProgress
  <2>3. QED
    BY <2>2
<1>8. CASE Promote \/ UNCHANGED allVars
  BY <1>8, PromotionsOnlyRead DEF Promote, BeginPromotion, ReadSourceEvents, ReadSourceGraph,
       ReadSourceReport, WriteBundle, AbortPromotion, PromotionStep, vars, allVars
<1>9. QED
  BY <1>3, <1>4, <1>5, <1>6, <1>7, <1>8 DEF TurnNext

\* A command that is to complete its run does not change its mind.
LEMMA CompletionIsKept ==
  ASSUME ManualsAreTargeted, [TurnNext]_allVars, NEW m \in Manuals, manual[m].complete
  PROVE  manual'[m].target = manual[m].target /\ manual'[m].complete
<1>1. ~NoTarget.complete
  BY DEF NoTarget
<1>2. manual[m] # NoTarget
  BY <1>1, Zenon
<1>3. manual'[m].target = manual[m].target /\ manual'[m].complete = manual[m].complete
  BY <1>2, CommandsKeepTheirRun
<1>4. QED
  BY <1>3, Zenon

\* Who may complete a run may do so from then on, and no one else's event gets into a log.
LEMMA CompletersStayKnown ==
  ASSUME IInv, ManualsAreTargeted, CompletersAreKnown, [TurnNext]_allVars, [Next]_vars
  PROVE  CompletersAreKnown'
<1>1. ASSUME NEW c \in Calls, pc'[c] # "idle", event'[c].runStatus # "none"
      PROVE  MayComplete(manual', event'[c])
  <2>1. MayComplete(manual, event'[c])
    BY <1>1, EventsHaveSources DEF CompletersAreKnown
  <2>2. \A m \in Manuals : /\ manual[m].target = event'[c].run /\ manual[m].complete
                           => manual'[m].target = event'[c].run /\ manual'[m].complete
    BY CompletionIsKept
  <2>3. QED
    BY <2>1, <2>2 DEF MayComplete
<1>2. ASSUME NEW r \in Runs, NEW i \in 1 .. Len(log'[r])
      PROVE  /\ log'[r][i].run = r
             /\ log'[r][i].runStatus # "none" => MayComplete(manual, log'[r][i])
  <2>1. log[r] \in Seq(Events)
    BY DEF IInv, TypeOK
  <2>2. CASE log'[r] = log[r]
    BY <2>2 DEF CompletersAreKnown
  <2>3. CASE log'[r] # log[r]
    <3>1. PICK c \in Calls : /\ pc[c] = "append" /\ RunOf(c) = r /\ event[c] \in Events
                             /\ log'[r] = Append(log[r], event[c])
      BY <2>3, LogsOnlyGrow
    <3>2. CASE i \in 1 .. Len(log[r])
      BY <2>1, <3>1, <3>2 DEF CompletersAreKnown
    <3>3. CASE i \notin 1 .. Len(log[r])
      <4>1. log'[r][i] = event[c]
        BY <2>1, <3>1, <3>3
      <4>2. QED
        BY <3>1, <4>1 DEF CompletersAreKnown, RunOf
    <3>4. QED
      BY <3>2, <3>3
  <2>4. QED
    BY <2>2, <2>3
<1>3. QED
  <2>1. \A r \in Runs : \A i \in 1 .. Len(log'[r]) :
          MayComplete(manual, log'[r][i]) => MayComplete(manual', log'[r][i])
    BY CompletionIsKept DEF MayComplete
  <2>2. QED
    BY <1>1, <1>2, <2>1 DEF CompletersAreKnown

-----------------------------------------------------------------------------
\* TurnIInv is inductive: whatever hooks, commands, failures and promotions come
\* between two of its steps, a promotion knows its run and a command its target.
THEOREM TurnNextPreservesIInv == TurnIInv /\ [TurnNext]_allVars => TurnIInv'
<1> SUFFICES ASSUME TurnIInv, [TurnNext]_allVars PROVE TurnIInv'
  OBVIOUS
<1>1. [Next]_vars /\ IInv
  BY TurnStepsAreCalls DEF TurnIInv, SourcesInv
<1>2. SourcesInv'
  BY <1>1, NextPreservesSources DEF TurnIInv
<1>3. ManualsAreTargeted'
  <2>1. \A m \in Manuals : pc'[StartCall(m)] # "idle" => manual'[m].target \in Runs
    <3> SUFFICES ASSUME NEW m \in Manuals, pc'[StartCall(m)] # "idle"
                 PROVE  manual'[m].target \in Runs
      OBVIOUS
    <3>1. CASE pc[StartCall(m)] # "idle"
      BY <3>1, CommandsKeepTheirRun DEF TurnIInv, ManualsAreTargeted
    <3>2. CASE StartManual(m)
      BY <3>2 DEF StartManual, Target, TurnIInv, ManualsAreTargeted
    <3>3. QED
      BY <1>1, <3>1, <3>2, FirstCallsAreTargeted DEF TurnIInv
  <2>2. QED
    BY <2>1, CommandsKeepTheirRun DEF TurnIInv, ManualsAreTargeted, StartCall
<1>4. PromotionKnowsItsRun' /\ PromotedBundleIsOneRun'
  BY <1>1, PromotionsOnlyRead, PromotionStaysInformed, PromoteReadsOneRun DEF TurnIInv
<1>5. CompletersAreKnown'
  BY <1>1, CompletersStayKnown DEF TurnIInv
<1>6. QED
  BY <1>2, <1>3, <1>4, <1>5 DEF TurnIInv

\* No file, call, command or promotion yet.
LEMMA TurnInitEstablishesIInv == TurnInit => TurnIInv
<1> SUFFICES ASSUME TurnInit PROVE TurnIInv
  OBVIOUS
<1>1. SourcesInv
  BY InitEstablishesSources DEF TurnInit
<1>2. ManualsAreTargeted
  BY CallsAssumption DEF TurnInit, Init, ManualsAreTargeted, NoTarget
<1>3. PromotionKnowsItsRun /\ PromotedBundleIsOneRun
  BY DEF TurnInit, NoPromotion, PromotionKnowsItsRun, PromotedBundleIsOneRun
<1>4. CompletersAreKnown
  BY DEF TurnInit, Init, CompletersAreKnown
<1>5. QED
  BY <1>1, <1>2, <1>3, <1>4 DEF TurnIInv

\* TurnIInv holds in every reachable state, for any hooks, commands, runs and bounds.
THEOREM TurnInductiveInvariant == TurnSpec => []TurnIInv
<1>1. QED
  BY TurnInitEstablishesIInv, TurnNextPreservesIInv, PTL DEF TurnSpec

\* Turns, commands and promotions are behaviours of the runtime: what they do to the
\* store is what calls of onExecutionEvent do.
THEOREM TurnsAreRuns == TurnSpec => RuntimeSpec
<1>1. TurnIInv /\ [TurnNext]_allVars => [Next]_vars
  BY TurnStepsAreCalls DEF TurnIInv
<1>2. TurnInit => Init
  BY DEF TurnInit
<1>3. QED
  BY <1>1, <1>2, TurnInductiveInvariant, PTL DEF TurnSpec, RuntimeSpec, Spec

\* A promoted bundle is of one run, complete, whoever was writing to it meanwhile.
THEOREM PromotionIsOfOneRun == TurnSpec => []PromotedBundleIsOneRun
<1>1. TurnIInv => PromotedBundleIsOneRun
  BY DEF TurnIInv
<1>2. QED
  BY <1>1, TurnInductiveInvariant, PTL

\* A command that only attaches to a turn never ends it.
THEOREM AttachedTurnsStayOpen == TurnSpec => []AttachedCommandsLeaveTurnOpen
<1>1. TurnIInv => AttachedCommandsLeaveTurnOpen
  <2> SUFFICES ASSUME TurnIInv, NEW r \in Runs, Complete(log[r])
               PROVE  \/ \E i \in DOMAIN log[r] :
                           /\ log[r][i] \in HookEvents \cup {FinishEvent(r)}
                           /\ log[r][i].runStatus # "none"
                      \/ \E m \in Manuals : manual[m].target = r /\ manual[m].complete
    BY DEF AttachedCommandsLeaveTurnOpen
  <2>1. log[r] \in Seq(Events)
    BY DEF TurnIInv, SourcesInv, IInv, TypeOK
  <2>2. Deciding(log[r]) # {}
    BY <2>1, CompleteIffDecided, EventsAreAdapterEvents
  <2>3. PICK i \in 1 .. Len(log[r]) : log[r][i].runStatus # "none"
    BY <2>2 DEF Deciding, Unique
  <2>4. log[r][i].run = r /\ MayComplete(manual, log[r][i])
    BY <2>3 DEF TurnIInv, CompletersAreKnown
  <2>5. QED
    BY <2>1, <2>3, <2>4 DEF MayComplete
<1>2. QED
  BY <1>1, TurnInductiveInvariant, PTL

-----------------------------------------------------------------------------
(***************************************************************************)
(* The files in the order in which they were written.                      *)
(***************************************************************************)

\* Whether every run of an order is there once.
EachOnce(order) == \A i, j \in 1 .. Len(order) : order[i] = order[j] => i = j
Holds(order, r) == \E i \in 1 .. Len(order) : order[i] = r

\* An order without its k-th run.
LEMMA WithoutProperties ==
  ASSUME NEW order \in Seq(Runs), NEW k \in 1 .. Len(order)
  PROVE  LET w == Without(order, k)
         IN /\ w \in Seq(Runs) /\ Len(w) = Len(order) - 1
            /\ \A i \in 1 .. Len(w) : w[i] = IF i < k THEN order[i] ELSE order[i + 1]
<1> DEFINE n == Len(order)
           a == SubSeq(order, 1, k - 1)
           b == SubSeq(order, k + 1, n)
           w == a \o b
<1>1. n \in Nat /\ k \in 1 .. n /\ \A i \in 1 .. n : order[i] \in Runs
  OBVIOUS
<1>2. /\ a \in Seq(Runs) /\ Len(a) = k - 1
      /\ \A i \in 1 .. k - 1 : a[i] = order[i]
  <2>1. \A i \in 1 .. k - 1 : order[i] \in Runs
    BY <1>1
  <2>2. /\ SubSeq(order, 1, k - 1) \in Seq(Runs)
        /\ Len(SubSeq(order, 1, k - 1)) = IF 1 <= k - 1 THEN k - 1 - 1 + 1 ELSE 0
        /\ \A i \in 1 .. k - 1 - 1 + 1 : SubSeq(order, 1, k - 1)[i] = order[1 + i - 1]
    BY <1>1, <2>1, SubSeqProperties
  <2>3. QED
    BY <1>1, <2>2
<1>3. /\ b \in Seq(Runs) /\ Len(b) = n - k
      /\ \A i \in 1 .. n - k : b[i] = order[k + i]
  <2>1. \A i \in k + 1 .. n : order[i] \in Runs
    BY <1>1
  <2>2. /\ SubSeq(order, k + 1, n) \in Seq(Runs)
        /\ Len(SubSeq(order, k + 1, n)) = IF k + 1 <= n THEN n - (k + 1) + 1 ELSE 0
        /\ \A i \in 1 .. n - (k + 1) + 1 : SubSeq(order, k + 1, n)[i] = order[k + 1 + i - 1]
    BY <1>1, <2>1, SubSeqProperties
  <2>3. QED
    BY <1>1, <2>2
<1> HIDE DEF n, a, b
<1>4. /\ w \in Seq(Runs) /\ Len(w) = n - 1
      /\ \A i \in 1 .. n - 1 : w[i] = IF i <= k - 1 THEN a[i] ELSE b[i - (k - 1)]
  <2>1. Len(a) + Len(b) = n - 1
    BY <1>1, <1>2, <1>3
  <2>2. /\ w \in Seq(Runs) /\ Len(w) = Len(a) + Len(b)
        /\ \A i \in 1 .. Len(a) + Len(b) : w[i] = IF i <= Len(a) THEN a[i] ELSE b[i - Len(a)]
    BY <1>2, <1>3, ConcatProperties
  <2>3. QED
    BY <1>2, <2>1, <2>2
<1>5. \A i \in 1 .. n - 1 : w[i] = IF i < k THEN order[i] ELSE order[i + 1]
  <2> SUFFICES ASSUME NEW i \in 1 .. n - 1 PROVE w[i] = IF i < k THEN order[i] ELSE order[i + 1]
    OBVIOUS
  <2>1. CASE i < k
    BY <1>1, <1>2, <1>4, <2>1
  <2>2. CASE ~(i < k)
    <3>1. i - (k - 1) \in 1 .. n - k /\ k + (i - (k - 1)) = i + 1
      BY <1>1, <2>2
    <3>2. b[i - (k - 1)] = order[i + 1]
      BY <1>3, <3>1
    <3>3. QED
      BY <1>1, <1>4, <2>2, <3>2
  <2>3. QED
    BY <2>1, <2>2
<1>6. w = Without(order, k)
  BY DEF Without, a, b, n
<1>7. QED
  BY <1>4, <1>5, <1>6 DEF n

\* The newest file is in the order once, and so is every other that was.
LEMMA NewestOrders ==
  ASSUME NEW order \in Seq(Runs), NEW r \in Runs, EachOnce(order)
  PROVE  /\ Newest(order, r) \in Seq(Runs)
         /\ EachOnce(Newest(order, r))
         /\ \A q \in Runs : Holds(Newest(order, r), q) <=> q = r \/ Holds(order, q)
<1>1. CASE ~Holds(order, r)
  <2> DEFINE n == Len(order)
             new == Append(order, r)
  <2>1. /\ new \in Seq(Runs) /\ Len(new) = n + 1 /\ new[n + 1] = r /\ n \in Nat
        /\ \A i \in 1 .. n : new[i] = order[i]
    BY AppendProperties
  <2>2. Newest(order, r) = new
    BY <1>1 DEF Newest, Holds
  <2>3. \A i \in 1 .. n : order[i] # r
    BY <1>1 DEF Holds
  <2> HIDE DEF n, new
  <2>4. EachOnce(new)
    BY <2>1, <2>3 DEF EachOnce, n
  <2>5. \A q \in Runs : Holds(new, q) <=> q = r \/ Holds(order, q)
    BY <2>1 DEF Holds, n
  <2>6. QED
    BY <2>1, <2>2, <2>4, <2>5
<1>2. CASE Holds(order, r)
  <2> DEFINE n == Len(order)
             k == CHOOSE i \in DOMAIN order : order[i] = r
             w == Without(order, k)
             new == Append(w, r)
  <2>1. n \in Nat /\ k \in 1 .. n /\ order[k] = r
    BY <1>2 DEF Holds
  <2>2. Newest(order, r) = new
    BY <1>2 DEF Newest, Holds
  <2> HIDE DEF k
  <2>3. /\ w \in Seq(Runs) /\ Len(w) = n - 1
        /\ \A i \in 1 .. n - 1 : w[i] = IF i < k THEN order[i] ELSE order[i + 1]
    BY <2>1, WithoutProperties
  <2> HIDE DEF w
  <2>4. /\ new \in Seq(Runs) /\ Len(new) = n /\ new[n] = r
        /\ \A i \in 1 .. n - 1 : new[i] = IF i < k THEN order[i] ELSE order[i + 1]
    BY <2>1, <2>3, AppendProperties
  <2>5. \A i, j \in 1 .. n : order[i] = order[j] => i = j
    BY DEF EachOnce
  <2> HIDE DEF n, new
  <2>6. \A i \in 1 .. n - 1 : LET p == IF i < k THEN i ELSE i + 1
                              IN p \in 1 .. n /\ p # k /\ new[i] = order[p]
    BY <2>1, <2>4
  <2>7. EachOnce(new)
    <3> SUFFICES ASSUME NEW i \in 1 .. n, NEW j \in 1 .. n, new[i] = new[j] PROVE i = j
      BY <2>4 DEF EachOnce
    <3> DEFINE p == IF i < k THEN i ELSE i + 1
               q == IF j < k THEN j ELSE j + 1
    <3>1. CASE i # n /\ j # n
      <4>1. p \in 1 .. n /\ q \in 1 .. n /\ order[p] = order[q]
        BY <2>1, <2>6, <3>1
      <4>2. p = q
        BY <2>5, <4>1
      <4>3. QED
        BY <2>1, <4>2
    <3>2. CASE i = n /\ j # n
      <4>1. q \in 1 .. n /\ q # k /\ new[j] = order[q]
        BY <2>1, <2>6, <3>2
      <4>2. QED
        BY <2>1, <2>4, <2>5, <3>2, <4>1
    <3>3. CASE i # n /\ j = n
      <4>1. p \in 1 .. n /\ p # k /\ new[i] = order[p]
        BY <2>1, <2>6, <3>3
      <4>2. QED
        BY <2>1, <2>4, <2>5, <3>3, <4>1
    <3>4. QED
      BY <3>1, <3>2, <3>3
  <2>8. ASSUME NEW q \in Runs PROVE Holds(new, q) <=> q = r \/ Holds(order, q)
    <3>1. ASSUME NEW i \in 1 .. n, new[i] = q PROVE q = r \/ Holds(order, q)
      <4>1. CASE i = n
        BY <2>4, <3>1, <4>1
      <4>2. CASE i # n
        <5>1. \E p \in 1 .. n : order[p] = new[i]
          <6>1. i \in 1 .. n - 1
            BY <2>1, <4>2
          <6>2. QED
            BY <2>6, <6>1
        <5>2. QED
          BY <3>1, <5>1 DEF Holds, n
      <4>3. QED
        BY <4>1, <4>2
    <3>2. ASSUME NEW p \in 1 .. n, order[p] = q, q # r PROVE Holds(new, q)
      <4>1. p # k
        BY <2>1, <3>2
      <4>2. CASE p < k
        <5>1. p \in 1 .. n - 1 /\ new[p] = q
          BY <2>1, <2>4, <3>2, <4>2
        <5>2. QED
          BY <2>1, <2>4, <5>1 DEF Holds
      <4>3. CASE p > k
        <5>1. p - 1 \in 1 .. n - 1 /\ ~(p - 1 < k) /\ p - 1 + 1 = p
          BY <2>1, <4>3
        <5>2. new[p - 1] = q
          BY <2>4, <3>2, <5>1
        <5>3. QED
          BY <2>1, <2>4, <5>1, <5>2 DEF Holds
      <4>4. QED
        BY <2>1, <4>1, <4>2, <4>3
    <3>3. Holds(new, r)
      BY <2>1, <2>4 DEF Holds
    <3>4. QED
      BY <2>4, <3>1, <3>2, <3>3 DEF Holds, n
  <2>9. QED
    BY <2>2, <2>4, <2>7, <2>8
<1>3. QED
  BY <1>1, <1>2

\* A file that is written, even if it is only opened, is the newest.
LEMMA WritingOrders ==
  ASSUME NEW order, NEW file, OrdersFiles(order, file), DOMAIN file = Runs,
         NEW r \in Runs, NEW content, content.kind # "absent"
  PROVE  OrdersFiles(Newest(order, r), [file EXCEPT ![r] = content])
<1> DEFINE new == Newest(order, r)
           written == [file EXCEPT ![r] = content]
<1>1. /\ order \in Seq(Runs) /\ EachOnce(order)
      /\ \A q \in Runs : file[q].kind # "absent" <=> Holds(order, q)
  BY DEF OrdersFiles, EachOnce, Holds
<1>2. /\ new \in Seq(Runs) /\ EachOnce(new)
      /\ \A q \in Runs : Holds(new, q) <=> q = r \/ Holds(order, q)
  BY <1>1, NewestOrders
<1>3. \A q \in Runs : written[q] = IF q = r THEN content ELSE file[q]
  OBVIOUS
<1> HIDE DEF new, written
<1>4. \A q \in Runs : written[q].kind # "absent" <=> Holds(new, q)
  BY <1>1, <1>2, <1>3
<1>5. OrdersFiles(new, written)
  BY <1>2, <1>4 DEF OrdersFiles, EachOnce, Holds
<1>6. QED
  BY <1>5 DEF new, written

\* Steps that do not write a file leave the orders alone; a call's step moves its file.
LEMMA OrdersFollowFiles ==
  ASSUME IInv, ManualsAreTargeted, [TurnNext]_allVars
  PROVE  /\ \/ graph' = graph /\ graphOrder' = graphOrder
            \/ \E r \in Runs, content \in {Blank, Torn} \cup {Whole(Graph(s)) : s \in Seq(Events)} :
                 graph' = [graph EXCEPT ![r] = content] /\ graphOrder' = Newest(graphOrder, r)
         /\ \/ report' = report /\ reportOrder' = reportOrder
            \/ \E r \in Runs, content \in {Blank, Torn} \cup {Whole(Graph(s)) : s \in Seq(Events)} :
                 report' = [report EXCEPT ![r] = content] /\ reportOrder' = Newest(reportOrder, r)
<1> DEFINE Contents == {Blank, Torn} \cup {Whole(Graph(s)) : s \in Seq(Events)}
           Moved(file, newFile, order, newOrder) ==
             \/ newFile = file /\ newOrder = order
             \/ \E r \in Runs, content \in Contents :
                  newFile = [file EXCEPT ![r] = content] /\ newOrder = Newest(order, r)
<1> SUFFICES Moved(graph, graph', graphOrder, graphOrder')
             /\ Moved(report, report', reportOrder, reportOrder')
  OBVIOUS
<1>1. \A c \in Calls : Whole(Graph(seen[c])) \in Contents
  BY DEF IInv, TypeOK
<1> HIDE DEF Contents
<1>2. Blank \in Contents /\ Torn \in Contents
  BY DEF Contents
<1>3. ASSUME NEW c \in Calls, CallStep(c)
      PROVE  Moved(graph, graph', graphOrder, graphOrder')
             /\ Moved(report, report', reportOrder, reportOrder')
  <2>1. RunOf(c) \in Runs /\ Step(c) /\ KeepOrder(c)
    BY <1>3, StepFrame DEF CallStep
  <2>2. CASE AppendEvent(c)
    BY <2>1, <2>2 DEF AppendEvent, KeepOrder
  <2>3. CASE ReadEvents(c)
    BY <2>1, <2>3 DEF ReadEvents, KeepOrder, files
  <2>4. CASE OpenGraph(c)
    BY <1>2, <2>1, <2>4 DEF OpenGraph, KeepOrder
  <2>5. CASE WriteGraph(c)
    <3>1. PICK content \in Overwrite(graph[RunOf(c)], Whole(Graph(seen[c]))) :
            graph' = [graph EXCEPT ![RunOf(c)] = content]
      BY <2>5 DEF WriteGraph
    <3>2. content \in Contents
      BY <1>1, <1>2, <3>1 DEF Overwrite
    <3>3. graphOrder' = Newest(graphOrder, RunOf(c)) /\ report' = report /\ reportOrder' = reportOrder
      BY <2>1, <2>5 DEF WriteGraph, KeepOrder
    <3>4. QED
      BY <2>1, <3>1, <3>2, <3>3
  <2>6. CASE OpenReport(c)
    BY <1>2, <2>1, <2>6 DEF OpenReport, KeepOrder
  <2>7. CASE WriteReport(c)
    <3>1. PICK content \in Overwrite(report[RunOf(c)], Whole(Graph(seen[c]))) :
            report' = [report EXCEPT ![RunOf(c)] = content]
      BY <2>7 DEF WriteReport
    <3>2. content \in Contents
      BY <1>1, <1>2, <3>1 DEF Overwrite
    <3>3. reportOrder' = Newest(reportOrder, RunOf(c)) /\ graph' = graph /\ graphOrder' = graphOrder
      BY <2>1, <2>7 DEF WriteReport, KeepOrder
    <3>4. QED
      BY <2>1, <3>1, <3>2, <3>3
  <2>8. QED
    BY <2>1, <2>2, <2>3, <2>4, <2>5, <2>6, <2>7 DEF Step
<1>4. ASSUME NEW c \in Calls, CallFails(c)
      PROVE  Moved(graph, graph', graphOrder, graphOrder')
             /\ Moved(report, report', reportOrder, reportOrder')
  <2>1. RunOf(c) \in Runs /\ Abort(c)
    BY <1>4, StepFrame DEF CallFails
  <2>2. CASE files' = files
    BY <1>4, <2>2 DEF CallFails, files
  <2>3. CASE files' # files
    <3>1. KeepOrder(c)
      BY <1>4, <2>3 DEF CallFails
    <3>2. CASE pc[c] = "append" /\ UNCHANGED <<log, graph, report>>
      BY <3>1, <3>2 DEF KeepOrder
    <3>3. CASE /\ pc[c] = "writeGraph" /\ graph' = [graph EXCEPT ![RunOf(c)] = Torn]
               /\ report' = report
      BY <1>2, <2>1, <3>1, <3>3 DEF KeepOrder
    <3>4. CASE /\ pc[c] = "writeReport" /\ report' = [report EXCEPT ![RunOf(c)] = Torn]
               /\ graph' = graph
      BY <1>2, <2>1, <3>1, <3>4 DEF KeepOrder
    <3>5. QED
      BY <2>1, <2>3, <3>2, <3>3, <3>4 DEF Abort, files
  <2>4. QED
    BY <2>2, <2>3
<1>5. ASSUME NEW c \in Hooks,
             \/ \E e \in HookEvents : RunCodexHook(c, e)
             \/ \E r \in Runs : FinishManualRun(c, r)
      PROVE  UNCHANGED <<graph, report, graphOrder, reportOrder>>
  BY <1>5 DEF RunCodexHook, FinishManualRun, Begin, files, turnVars
<1>6. ASSUME NEW m \in Manuals, StartManual(m) \/ FinishManual(m)
      PROVE  UNCHANGED <<graph, report, graphOrder, reportOrder>>
  BY <1>6 DEF StartManual, FinishManual, Begin, files
<1>7. CASE Promote \/ UNCHANGED allVars
  BY <1>7 DEF Promote, BeginPromotion, ReadSourceEvents, ReadSourceGraph, ReadSourceReport,
              WriteBundle, AbortPromotion, PromotionStep, vars, turnVars, allVars
<1>8. QED
  BY <1>3, <1>4, <1>5, <1>6, <1>7 DEF TurnNext

\* The orders go on holding the files that exist.
LEMMA OrdersStay ==
  ASSUME IInv, ManualsAreTargeted, [TurnNext]_allVars,
         OrdersFiles(graphOrder, graph), OrdersFiles(reportOrder, report)
  PROVE  OrdersFiles(graphOrder', graph') /\ OrdersFiles(reportOrder', report')
<1> DEFINE Contents == {Blank, Torn} \cup {Whole(Graph(s)) : s \in Seq(Events)}
<1>1. DOMAIN graph = Runs /\ DOMAIN report = Runs
  BY DEF IInv, TypeOK
<1>2. \A content \in Contents : content.kind # "absent"
  BY DEF Blank, Torn, Whole
<1>3. /\ \/ graph' = graph /\ graphOrder' = graphOrder
         \/ \E r \in Runs, content \in Contents :
              graph' = [graph EXCEPT ![r] = content] /\ graphOrder' = Newest(graphOrder, r)
      /\ \/ report' = report /\ reportOrder' = reportOrder
         \/ \E r \in Runs, content \in Contents :
              report' = [report EXCEPT ![r] = content] /\ reportOrder' = Newest(reportOrder, r)
  BY OrdersFollowFiles
<1> HIDE DEF Contents
<1>4. OrdersFiles(graphOrder', graph')
  <2>1. CASE graph' = graph /\ graphOrder' = graphOrder
    BY <2>1
  <2>2. ASSUME NEW r \in Runs, NEW content \in Contents,
               graph' = [graph EXCEPT ![r] = content], graphOrder' = Newest(graphOrder, r)
        PROVE  OrdersFiles(graphOrder', graph')
    <3>1. content.kind # "absent"
      BY <1>2
    <3>2. OrdersFiles(Newest(graphOrder, r), [graph EXCEPT ![r] = content])
      BY <1>1, <3>1, WritingOrders
    <3>3. QED
      BY <2>2, <3>2
  <2>3. QED
    BY <1>3, <2>1, <2>2
<1>5. OrdersFiles(reportOrder', report')
  <2>1. CASE report' = report /\ reportOrder' = reportOrder
    BY <2>1
  <2>2. ASSUME NEW r \in Runs, NEW content \in Contents,
               report' = [report EXCEPT ![r] = content], reportOrder' = Newest(reportOrder, r)
        PROVE  OrdersFiles(reportOrder', report')
    <3>1. content.kind # "absent"
      BY <1>2
    <3>2. OrdersFiles(Newest(reportOrder, r), [report EXCEPT ![r] = content])
      BY <1>1, <3>1, WritingOrders
    <3>3. QED
      BY <2>2, <3>2
  <2>3. QED
    BY <1>3, <2>1, <2>2
<1>6. QED
  BY <1>4, <1>5

Commands == [target : Runs \cup {NoRun}, attached : BOOLEAN, complete : BOOLEAN,
             status : {"none", "ok", "error"}]

\* Every command goes on choosing one run, and says how its child ended.
LEMMA CommandsStayTyped ==
  ASSUME manual \in [Manuals -> Commands], [TurnNext]_allVars
  PROVE  manual' \in [Manuals -> Commands]
<1>1. ASSUME NEW n \in Manuals, StartManual(n)
      PROVE  manual' \in [Manuals -> Commands]
  <2>1. PICK r \in Runs, attached \in BOOLEAN, complete \in BOOLEAN :
          manual' = [manual EXCEPT ![n] = Target(r, attached, complete)]
    BY <1>1 DEF StartManual
  <2>2. Target(r, attached, complete) \in Commands
    BY DEF Target, Commands
  <2>3. QED
    BY <2>1, <2>2
<1>2. ASSUME NEW n \in Manuals, FinishManual(n)
      PROVE  manual' \in [Manuals -> Commands]
  <2>1. PICK s \in {"ok", "error"} : manual' = [manual EXCEPT ![n].status = s]
    BY <1>2 DEF FinishManual
  <2>2. [manual[n] EXCEPT !.status = s] \in Commands
    BY DEF Commands
  <2>3. manual' = [manual EXCEPT ![n] = [manual[n] EXCEPT !.status = s]]
    BY <2>1
  <2>4. QED
    BY <2>2, <2>3
<1>3. \/ manual' = manual
      \/ \E n \in Manuals : StartManual(n) \/ FinishManual(n)
  BY DEF TurnNext, CallStep, CallFails, RunCodexHook, FinishManualRun, Promote, BeginPromotion,
         ReadSourceEvents, ReadSourceGraph, ReadSourceReport, WriteBundle, AbortPromotion,
         PromotionStep, allVars, turnVars
<1>4. QED
  BY <1>1, <1>2, <1>3

\* A promotion goes from step to step, and no more than MaxPromotions of them begin.
LEMMA PromotionsStayTyped ==
  ASSUME PromotionKnowsItsRun, [TurnNext]_allVars,
         promotion.step \in PromotionSteps, promotion.run \in Runs \cup {NoRun},
         promotions \in 0 .. MaxPromotions
  PROVE  /\ promotion'.step \in PromotionSteps /\ promotion'.run \in Runs \cup {NoRun}
         /\ promotions' \in 0 .. MaxPromotions
<1>1. promotion = [step |-> promotion.step, run |-> promotion.run,
                   graph |-> promotion.graph, report |-> promotion.report]
  BY DEF PromotionKnowsItsRun
<1>2. CASE BeginPromotion
  <2>1. PICK q \in Runs : promotion' = [NoPromotion EXCEPT !.step = "readEvents", !.run = q]
    BY <1>2, ManualEventsAssumption DEF BeginPromotion, LatestReported
  <2>2. promotion' = [step |-> "readEvents", run |-> q, graph |-> Absent, report |-> Absent]
    BY <2>1 DEF NoPromotion
  <2>3. promotions' \in 0 .. MaxPromotions
    BY <1>2, BoundsAssumption DEF BeginPromotion
  <2>4. QED
    BY <2>2, <2>3 DEF PromotionSteps
<1>3. ASSUME ReadSourceEvents \/ ReadSourceGraph \/ ReadSourceReport \/ WriteBundle \/ AbortPromotion
      PROVE  /\ promotion'.step \in PromotionSteps /\ promotion'.run = promotion.run
             /\ promotions' = promotions
  BY <1>1, <1>3 DEF ReadSourceEvents, ReadSourceGraph, ReadSourceReport, WriteBundle,
                    AbortPromotion, PromotionStep, PromotionSteps
<1>4. ASSUME ~Promote PROVE promotion' = promotion /\ promotions' = promotions
  BY <1>4 DEF TurnNext, CallStep, CallFails, RunCodexHook, FinishManualRun, StartManual,
              FinishManual, allVars, turnVars
<1>5. QED
  BY <1>2, <1>3, <1>4 DEF Promote

\* The state of turns, commands and promotions is always well typed; the orders in
\* which "the latest run" is looked up hold exactly the files that exist.
THEOREM TurnTypeCorrect == TurnSpec => []TurnTypeOK
<1>1. TurnInit => TurnTypeOK
  <2> SUFFICES ASSUME TurnInit PROVE TurnTypeOK
    OBVIOUS
  <2>1. OrdersFiles(graphOrder, graph) /\ OrdersFiles(reportOrder, report)
    BY DEF TurnInit, Init, OrdersFiles, Absent
  <2>2. QED
    BY <2>1, BoundsAssumption
       DEF TurnInit, TurnTypeOK, NoTarget, NoPromotion, PromotionSteps
<1>2. TurnIInv /\ TurnTypeOK /\ [TurnNext]_allVars => TurnTypeOK'
  <2> SUFFICES ASSUME TurnIInv, TurnTypeOK, [TurnNext]_allVars PROVE TurnTypeOK'
    OBVIOUS
  <2>1. OrdersFiles(graphOrder', graph') /\ OrdersFiles(reportOrder', report')
    BY OrdersStay DEF TurnIInv, SourcesInv, TurnTypeOK
  <2>2. manual' \in [Manuals -> Commands]
    BY CommandsStayTyped DEF TurnTypeOK, Commands
  <2>3. /\ promotion'.step \in PromotionSteps /\ promotion'.run \in Runs \cup {NoRun}
        /\ promotions' \in 0 .. MaxPromotions
    BY PromotionsStayTyped DEF TurnIInv, TurnTypeOK
  <2>4. QED
    BY <2>1, <2>2, <2>3 DEF TurnTypeOK, Commands, OrdersFiles
<1>3. QED
  BY <1>1, <1>2, TurnInductiveInvariant, PTL DEF TurnSpec

-----------------------------------------------------------------------------
(***************************************************************************)
(* The two events of a command.                                            *)
(***************************************************************************)

In(s, e) == \E i \in 1 .. Len(s) : s[i] = e

\* A call has its event in the log from its second step on, unless its run's log is
\* damaged, and then it will not get past reading it.
EventsAreDelivered ==
  \A c \in Calls :
    /\ pc[c] = "read" => damage[RunOf(c)] # "none" \/ In(log[RunOf(c)], event[c])
    /\ HasRead(c) \/ pc[c] = "done" => In(log[RunOf(c)], event[c])

\* Every line of a log was delivered by a call.
LinesAreEvents ==
  \A r \in Runs : \A i \in 1 .. Len(log[r]) :
    \E c \in Calls : pc[c] # "idle" /\ event[c] = log[r][i]

\* What hooks deliver.
HooksDeliverTheirs ==
  \A c \in Hooks : pc[c] # "idle" => event[c] \in HookEvents \cup {FinishEvent(RunOf(c))}

\* A command delivers the two events of one operation of the run it has chosen,
\* the second one once the first call has returned and its child has ended.
StartOf(m) == ManualEvent(m, manual[m].target, "start", "none", "none")
FinishOf(m) ==
  ManualEvent(m, manual[m].target, "finish", manual[m].status,
              IF manual[m].complete THEN manual[m].status ELSE "none")

CommandsDeliverTheirs ==
  \A m \in Manuals :
    /\ pc[StartCall(m)] # "idle" => event[StartCall(m)] = StartOf(m)
    /\ pc[FinishCall(m)] # "idle" => /\ pc[StartCall(m)] = "done"
                                     /\ manual[m].status \in {"ok", "error"}
                                     /\ event[FinishCall(m)] = FinishOf(m)

\* In the log of its run a finish comes after its start.
FinishesFollowStarts ==
  \A m \in Manuals : pc[FinishCall(m)] # "idle" =>
    LET lines == log[manual[m].target]
    IN \A i \in 1 .. Len(lines) : lines[i] = FinishOf(m) =>
         \E j \in 1 .. i - 1 : lines[j] = StartOf(m)

PairingInv ==
  /\ EventsAreDelivered
  /\ LinesAreEvents
  /\ HooksDeliverTheirs
  /\ CommandsDeliverTheirs
  /\ FinishesFollowStarts

\* A call that begins takes its event along and changes no other call and no file.
LEMMA BeginChanges ==
  ASSUME IInv, NEW c \in Calls, NEW e, Begin(c, e)
  PROVE  /\ pc[c] = "idle" /\ pc'[c] = "append" /\ event'[c] = e
         /\ \A d \in Calls : d # c => pc'[d] = pc[d] /\ event'[d] = event[d]
         /\ log' = log /\ damage' = damage
BY DEF IInv, TypeOK, Begin, Goto, files

\* What a log holds it goes on to hold.
LEMMA LinesStay ==
  ASSUME IInv, [Next]_vars, NEW r \in Runs
  PROVE  /\ log[r] \in Seq(Events)
         /\ \A e : In(log[r], e) => In(log'[r], e)
<1>1. log[r] \in Seq(Events)
  BY DEF IInv, TypeOK
<1>2. CASE log'[r] = log[r]
  BY <1>1, <1>2
<1>3. ASSUME NEW e \in Events, log'[r] = Append(log[r], e)
      PROVE  \A f : In(log[r], f) => In(log'[r], f)
  <2>1. Len(log'[r]) = Len(log[r]) + 1 /\ \A i \in 1 .. Len(log[r]) : log'[r][i] = log[r][i]
    BY <1>1, <1>3, AppendProperties
  <2>2. QED
    BY <1>1, <2>1 DEF In
<1>4. QED
  BY <1>1, <1>2, <1>3, LogsOnlyGrow

\* The append of a call leaves its event in the log, or the log as damaged as it was.
LEMMA AppendDelivers ==
  ASSUME IInv, NEW c \in Calls, AppendEvent(c)
  PROVE  damage'[RunOf(c)] # "none" \/ In(log'[RunOf(c)], event[c])
<1>1. RunOf(c) \in Runs /\ event[c] \in Events
  BY StepFrame DEF Step
<1>2. /\ log \in [Runs -> Seq(Events)] /\ damage \in [Runs -> {"none", "open", "closed"}]
  BY DEF IInv, TypeOK
<1>3. CASE damage[RunOf(c)] = "open"
  BY <1>1, <1>2, <1>3 DEF AppendEvent
<1>4. CASE damage[RunOf(c)] # "open"
  <2>1. log'[RunOf(c)] = Append(log[RunOf(c)], event[c])
    BY <1>1, <1>2, <1>4 DEF AppendEvent
  <2>2. log[RunOf(c)] \in Seq(Events)
    BY <1>1, <1>2
  <2>3. /\ Len(log'[RunOf(c)]) = Len(log[RunOf(c)]) + 1 /\ Len(log[RunOf(c)]) \in Nat
        /\ log'[RunOf(c)][Len(log[RunOf(c)]) + 1] = event[c]
    BY <1>1, <2>1, <2>2, AppendProperties
  <2>4. QED
    BY <2>3 DEF In
<1>5. QED
  BY <1>3, <1>4

\* No step of the runtime loses an event that was delivered, or delivers another.
LEMMA DeliveriesStay ==
  ASSUME IInv, [Next]_vars, EventsAreDelivered, LinesAreEvents
  PROVE  EventsAreDelivered' /\ LinesAreEvents'
<1>1. /\ pc \in [Calls -> InProgress \cup {"idle", "done", "failed"}]
      /\ event \in [Calls -> Events \cup {NoEvent}]
      /\ \A c \in Calls : pc[c] # "idle" => RunOf(c) \in Runs
  BY EventsAssumption DEF IInv, TypeOK, RunOf
<1>2. ASSUME NEW c \in Calls
      PROVE  \/ Step(c) \/ Abort(c)
             \/ \E e \in Events : Begin(c, e)
             \/ pc'[c] = pc[c] /\ event'[c] = event[c]
  <2>1. ASSUME NEW d \in Calls, d # c, Step(d) \/ Abort(d)
        PROVE  pc'[c] = pc[c] /\ event'[c] = event[c]
    BY <2>1, StepFrame
  <2>2. ASSUME NEW d \in Calls, d # c, NEW e \in Events, Begin(d, e)
        PROVE  pc'[c] = pc[c] /\ event'[c] = event[c]
    BY <2>2, BeginChanges
  <2>3. CASE UNCHANGED vars
    BY <2>3 DEF vars
  <2>4. QED
    BY <2>1, <2>2, <2>3 DEF Next
<1>3. \A r \in Runs : /\ \A e : In(log[r], e) => In(log'[r], e)
                      /\ damage[r] # "none" => damage'[r] # "none"
  BY LinesStay, DamageStays
<1>4. EventsAreDelivered'
  <2> SUFFICES ASSUME NEW c \in Calls
               PROVE  /\ pc'[c] = "read" => damage'[RunOf(c)'] # "none" \/ In(log'[RunOf(c)'], event'[c])
                      /\ HasRead(c)' \/ pc'[c] = "done" => In(log'[RunOf(c)'], event'[c])
    BY DEF EventsAreDelivered, In
  <2>1. CASE Step(c)
    <3>1. RunOf(c)' = RunOf(c) /\ RunOf(c) \in Runs /\ event'[c] = event[c]
      BY <2>1, StepFrame
    <3>2. CASE AppendEvent(c)
      <4>1. pc'[c] = "read"
        BY <1>1, <3>2 DEF AppendEvent, Goto
      <4>2. QED
        BY <3>1, <3>2, <4>1, AppendDelivers DEF HasRead
    <3>3. CASE ReadEvents(c)
      <4>1. pc'[c] # "read" /\ (pc'[c] # "failed" => damage[RunOf(c)] = "none" /\ pc[c] = "read")
        BY <1>1, <3>3 DEF ReadEvents, Goto
      <4>2. QED
        BY <1>3, <3>1, <4>1 DEF EventsAreDelivered, HasRead
    <3>4. CASE OpenGraph(c) \/ WriteGraph(c) \/ OpenReport(c) \/ WriteReport(c)
      <4>1. HasRead(c) /\ pc'[c] # "read"
        BY <1>1, <3>4 DEF OpenGraph, WriteGraph, OpenReport, WriteReport, Goto, HasRead
      <4>2. QED
        BY <1>3, <3>1, <4>1 DEF EventsAreDelivered
    <3>5. QED
      BY <2>1, <3>2, <3>3, <3>4 DEF Step
  <2>2. CASE Abort(c) \/ \E e \in Events : Begin(c, e)
    BY <1>1, <2>2 DEF Abort, Begin, Goto, HasRead
  <2>3. CASE pc'[c] = pc[c] /\ event'[c] = event[c]
    <3>1. RunOf(c)' = RunOf(c)
      BY <2>3 DEF RunOf
    <3>2. QED
      BY <1>1, <1>3, <2>3, <3>1 DEF EventsAreDelivered, HasRead
  <2>4. QED
    BY <1>2, <2>1, <2>2, <2>3
<1>5. LinesAreEvents'
  <2> SUFFICES ASSUME NEW r \in Runs, NEW i \in 1 .. Len(log'[r])
               PROVE  \E c \in Calls : pc'[c] # "idle" /\ event'[c] = log'[r][i]
    BY DEF LinesAreEvents
  <2>1. ASSUME NEW c \in Calls, pc[c] # "idle" PROVE pc'[c] # "idle" /\ event'[c] = event[c]
    <3>1. CASE Step(c) \/ Abort(c)
      <4>1. pc'[c] \in InProgress \cup {"done", "failed"} /\ event' = event
        BY <3>1, StepFrame
      <4>2. QED
        BY <4>1 DEF InProgress
    <3>2. CASE \E e \in Events : Begin(c, e)
      BY <2>1, <3>2 DEF Begin
    <3>3. QED
      BY <1>2, <2>1, <3>1, <3>2
  <2>2. log[r] \in Seq(Events)
    BY LinesStay
  <2>3. CASE i \in 1 .. Len(log[r]) /\ log'[r][i] = log[r][i]
    BY <2>1, <2>3 DEF LinesAreEvents
  <2>4. ASSUME NEW c \in Calls, pc[c] = "append", log'[r][i] = event[c]
        PROVE  \E d \in Calls : pc'[d] # "idle" /\ event'[d] = log'[r][i]
    BY <2>1, <2>4
  <2>5. QED
    <3>1. CASE log'[r] = log[r]
      BY <2>3, <3>1
    <3>2. ASSUME NEW c \in Calls, pc[c] = "append", event[c] \in Events,
                 log'[r] = Append(log[r], event[c])
          PROVE  \E d \in Calls : pc'[d] # "idle" /\ event'[d] = log'[r][i]
      <4>1. /\ Len(log'[r]) = Len(log[r]) + 1 /\ Len(log[r]) \in Nat
            /\ \A j \in 1 .. Len(log[r]) : log'[r][j] = log[r][j]
            /\ log'[r][Len(log[r]) + 1] = event[c]
        BY <2>2, <3>2, AppendProperties
      <4>2. QED
        BY <2>3, <2>4, <3>2, <4>1
    <3>3. QED
      BY <3>1, <3>2, LogsOnlyGrow
<1>6. QED
  BY <1>4, <1>5

\* The calls of hooks and of commands are different calls.
LEMMA CallsAreTheirs ==
  /\ Hooks \subseteq Calls
  /\ \A m \in Manuals : /\ StartCall(m) \in Calls \ Hooks /\ FinishCall(m) \in Calls \ Hooks
  /\ \A m, n : /\ StartCall(m) # FinishCall(n)
               /\ StartCall(m) = StartCall(n) => m = n
               /\ FinishCall(m) = FinishCall(n) => m = n
  /\ \A c \in Calls : \/ c \in Hooks
                      \/ \E m \in Manuals : c = StartCall(m) \/ c = FinishCall(m)
BY CallsAssumption DEF StartCall, FinishCall

\* A step of a turn begins a hook, starts or finishes a command, or begins nothing.
LEMMA StepKinds ==
  ASSUME IInv, ManualsAreTargeted, [TurnNext]_allVars
  PROVE  \/ /\ manual' = manual /\ event' = event
            /\ \A c \in Calls : /\ pc'[c] = "idle" <=> pc[c] = "idle"
                                /\ pc[c] = "done" => pc'[c] = "done"
         \/ \E c \in Hooks, e \in Events :
              e \in HookEvents \cup {FinishEvent(e.run)} /\ Begin(c, e) /\ manual' = manual
         \/ \E m \in Manuals : StartManual(m) \/ FinishManual(m)
<1>1. pc \in [Calls -> InProgress \cup {"idle", "done", "failed"}]
  BY DEF IInv, TypeOK
<1>2. ASSUME NEW c \in Hooks, NEW e \in HookEvents, RunCodexHook(c, e)
      PROVE  e \in Events /\ Begin(c, e) /\ manual' = manual
  BY <1>2, ManualEventsAssumption DEF RunCodexHook, turnVars
<1>3. ASSUME NEW c \in Hooks, NEW r \in Runs, FinishManualRun(c, r)
      PROVE  \E e \in Events : e \in HookEvents \cup {FinishEvent(e.run)} /\ Begin(c, e) /\ manual' = manual
  BY <1>3, ManualEventsAssumption DEF FinishManualRun, turnVars
<1>4. ASSUME NEW d \in Calls, CallStep(d) \/ CallFails(d)
      PROVE  /\ manual' = manual /\ event' = event
             /\ \A c \in Calls : /\ pc'[c] = "idle" <=> pc[c] = "idle"
                                 /\ pc[c] = "done" => pc'[c] = "done"
  <2>1. Step(d) \/ Abort(d)
    BY <1>4 DEF CallStep, CallFails
  <2>2. /\ event' = event /\ pc[d] \in InProgress /\ pc'[d] \in InProgress \cup {"done", "failed"}
        /\ \A c \in Calls : c # d => pc'[c] = pc[c]
    BY <2>1, StepFrame
  <2>3. "idle" \notin InProgress /\ "done" \notin InProgress
    BY DEF InProgress
  <2>4. manual' = manual
    BY <1>4 DEF CallStep, CallFails
  <2>5. QED
    BY <2>2, <2>3, <2>4
<1>5. ASSUME Promote \/ UNCHANGED allVars
      PROVE  manual' = manual /\ event' = event /\ pc' = pc
  BY <1>5 DEF Promote, BeginPromotion, ReadSourceEvents, ReadSourceGraph, ReadSourceReport,
              WriteBundle, AbortPromotion, PromotionStep, vars, turnVars, allVars
<1>6. QED
  BY <1>2, <1>3, <1>4, <1>5 DEF TurnNext

\* What StartManual does to the command and its first call.
LEMMA StartManualChanges ==
  ASSUME IInv, ManualsAreTargeted, NEW m \in Manuals, StartManual(m)
  PROVE  /\ pc[StartCall(m)] = "idle" /\ manual'[m].target \in Runs
         /\ \A n \in Manuals : n # m => manual'[n] = manual[n]
         /\ event'[StartCall(m)] = ManualEvent(m, manual'[m].target, "start", "none", "none")
         /\ \A c \in Calls : c # StartCall(m) => pc'[c] = pc[c] /\ event'[c] = event[c]
         /\ log' = log
<1>1. PICK r \in Runs, attached, complete \in BOOLEAN :
        /\ manual' = [manual EXCEPT ![m] = Target(r, attached, complete)]
        /\ Begin(StartCall(m), ManualEvent(m, r, "start", "none", "none"))
  BY DEF StartManual
<1>2. manual'[m].target = r /\ \A n \in Manuals : n # m => manual'[n] = manual[n]
  BY <1>1 DEF ManualsAreTargeted, Target
<1>3. QED
  BY <1>1, <1>2, BeginChanges, CallsAreTheirs

\* What FinishManual does to the command and its second call.
LEMMA FinishManualChanges ==
  ASSUME IInv, ManualsAreTargeted, NEW m \in Manuals, FinishManual(m)
  PROVE  /\ pc[StartCall(m)] = "done" /\ pc[FinishCall(m)] = "idle"
         /\ manual'[m].target = manual[m].target /\ manual[m].target \in Runs
         /\ manual'[m].status \in {"ok", "error"}
         /\ \A n \in Manuals : n # m => manual'[n] = manual[n]
         /\ event'[FinishCall(m)] =
              ManualEvent(m, manual'[m].target, "finish", manual'[m].status,
                          IF manual'[m].complete THEN manual'[m].status ELSE "none")
         /\ \A c \in Calls : c # FinishCall(m) => pc'[c] = pc[c] /\ event'[c] = event[c]
         /\ log' = log
<1>1. PICK s \in {"ok", "error"} :
        /\ manual' = [manual EXCEPT ![m].status = s]
        /\ Begin(FinishCall(m),
                 ManualEvent(m, manual[m].target, "finish", s,
                             IF manual[m].complete THEN s ELSE "none"))
  BY DEF FinishManual
<1>2. /\ manual'[m] = [target |-> manual[m].target, attached |-> manual[m].attached,
                       complete |-> manual[m].complete, status |-> s]
      /\ \A n \in Manuals : n # m => manual'[n] = manual[n]
  BY <1>1 DEF ManualsAreTargeted
<1>3. manual'[m].target = manual[m].target /\ manual'[m].status = s
      /\ (IF manual'[m].complete THEN s ELSE "none") = (IF manual[m].complete THEN s ELSE "none")
  <2>1. manual'[m].target = manual[m].target /\ manual'[m].status = s
    BY <1>2
  <2>2. (IF manual'[m].complete THEN s ELSE "none") = (IF manual[m].complete THEN s ELSE "none")
    BY <1>2
  <2>3. QED
    BY <2>1, <2>2
<1>4. pc[StartCall(m)] = "done" /\ pc[FinishCall(m)] = "idle"
  BY DEF FinishManual
<1>5. manual[m].target \in Runs
  BY <1>4 DEF ManualsAreTargeted
<1>6. QED
  BY <1>1, <1>2, <1>3, <1>4, <1>5, BeginChanges, CallsAreTheirs

\* No call but its own delivers an event with the operation or the id of a command's.
LEMMA OnlyItsCallsDeliver ==
  ASSUME IInv, ManualsAreTargeted, HooksDeliverTheirs, CommandsDeliverTheirs,
         NEW m \in Manuals, manual[m].target \in Runs,
         NEW e \in CommandEvents(m, manual[m].target),
         NEW c \in Calls, pc[c] # "idle", event[c].run = manual[m].target,
         event[c].op = e.op \/ event[c].id = e.id
  PROVE  c \in {StartCall(m), FinishCall(m)}
<1> DEFINE r == manual[m].target
<1>1. \A f \in HookEvents \cup {FinishEvent(r)} \cup UNION {CommandEvents(n, r) : n \in Manuals \ {m}} :
        f.op # e.op /\ f.id # e.id
  BY ManualIdsAssumption
<1>2. c \notin Hooks
  BY <1>1 DEF HooksDeliverTheirs, RunOf
<1>3. ASSUME NEW n \in Manuals, c = StartCall(n) PROVE n = m
  <2>1. manual[n].target \in Runs /\ event[c] = StartOf(n)
    BY <1>3 DEF ManualsAreTargeted, CommandsDeliverTheirs
  <2>2. event[c].run = manual[n].target
    BY <2>1, ManualEventsAssumption DEF StartOf
  <2>3. event[c] \in CommandEvents(n, r)
    BY <2>1, <2>2 DEF StartOf, CommandEvents
  <2>4. QED
    BY <1>1, <2>3
<1>4. ASSUME NEW n \in Manuals, c = FinishCall(n) PROVE n = m
  <2>1. /\ pc[StartCall(n)] = "done" /\ manual[n].status \in {"ok", "error"}
        /\ event[c] = FinishOf(n)
    BY <1>4 DEF CommandsDeliverTheirs
  <2>2. manual[n].target \in Runs
    BY <2>1 DEF ManualsAreTargeted
  <2> DEFINE t == IF manual[n].complete THEN manual[n].status ELSE "none"
  <2>3. t \in {"none", "ok", "error"}
    BY <2>1
  <2>4. event[c].run = manual[n].target
    BY <2>1, <2>2, <2>3, ManualEventsAssumption DEF FinishOf
  <2>5. event[c] \in CommandEvents(n, r)
    <3>1. event[c] = ManualEvent(n, r, "finish", manual[n].status, t)
      BY <2>1, <2>4 DEF FinishOf
    <3> HIDE DEF t
    <3>2. QED
      BY <2>1, <2>3, <3>1 DEF CommandEvents
  <2>6. QED
    BY <1>1, <2>5
<1>5. QED
  BY <1>2, <1>3, <1>4, CallsAreTheirs

\* The events of a command that has begun both of its calls.
LEMMA FinishingCommands ==
  ASSUME ManualsAreTargeted, CommandsDeliverTheirs, NEW m \in Manuals, pc[FinishCall(m)] # "idle"
  PROVE  LET r == manual[m].target
         IN /\ r \in Runs /\ pc[StartCall(m)] = "done" /\ manual[m].status \in {"ok", "error"}
            /\ event[StartCall(m)] = StartOf(m) /\ event[FinishCall(m)] = FinishOf(m)
            /\ StartOf(m) \in Events \cap CommandEvents(m, r)
            /\ FinishOf(m) \in Events \cap CommandEvents(m, r)
            /\ StartOf(m).run = r /\ FinishOf(m).run = r
            /\ FinishOf(m).lifecycle = "finish" /\ FinishOf(m).status = manual[m].status
            /\ FinishOf(m).op = StartOf(m).op /\ FinishOf(m).id # StartOf(m).id
<1>1. /\ pc[StartCall(m)] = "done" /\ manual[m].status \in {"ok", "error"}
      /\ event[StartCall(m)] = StartOf(m) /\ event[FinishCall(m)] = FinishOf(m)
  BY DEF CommandsDeliverTheirs
<1>2. manual[m].target \in Runs
  BY <1>1 DEF ManualsAreTargeted
<1>3. (IF manual[m].complete THEN manual[m].status ELSE "none") \in {"none", "ok", "error"}
  BY <1>1
<1>4. QED
  BY <1>1, <1>2, <1>3, ManualEventsAssumption, ManualIdsAssumption
     DEF StartOf, FinishOf, CommandEvents

\* Hooks and commands go on delivering their own events.
LEMMA DeliverersStay ==
  ASSUME IInv, ManualsAreTargeted, HooksDeliverTheirs, CommandsDeliverTheirs,
         [TurnNext]_allVars
  PROVE  HooksDeliverTheirs' /\ CommandsDeliverTheirs'
<1>1. CASE /\ manual' = manual /\ event' = event
           /\ \A c \in Calls : /\ pc'[c] = "idle" <=> pc[c] = "idle"
                               /\ pc[c] = "done" => pc'[c] = "done"
  BY <1>1, CallsAreTheirs
     DEF HooksDeliverTheirs, CommandsDeliverTheirs, StartOf, FinishOf, RunOf, StartCall, FinishCall
<1>2. ASSUME NEW c \in Hooks, NEW e \in Events, e \in HookEvents \cup {FinishEvent(e.run)},
             Begin(c, e), manual' = manual
      PROVE  HooksDeliverTheirs' /\ CommandsDeliverTheirs'
  <2>1. /\ event'[c] = e
        /\ \A d \in Calls : d # c => pc'[d] = pc[d] /\ event'[d] = event[d]
    BY <1>2, BeginChanges, CallsAreTheirs
  <2>2. HooksDeliverTheirs'
    BY <1>2, <2>1, CallsAreTheirs DEF HooksDeliverTheirs, RunOf
  <2>3. \A m \in Manuals : /\ pc'[StartCall(m)] = pc[StartCall(m)] /\ event'[StartCall(m)] = event[StartCall(m)]
                           /\ pc'[FinishCall(m)] = pc[FinishCall(m)]
                           /\ event'[FinishCall(m)] = event[FinishCall(m)]
    BY <1>2, <2>1, CallsAreTheirs
  <2>4. CommandsDeliverTheirs'
    BY <1>2, <2>3 DEF CommandsDeliverTheirs, StartOf, FinishOf, StartCall, FinishCall
  <2>5. QED
    BY <2>2, <2>4
<1>3. ASSUME NEW m \in Manuals, StartManual(m)
      PROVE  HooksDeliverTheirs' /\ CommandsDeliverTheirs'
  <2>1. \A c \in Calls : c # StartCall(m) => pc'[c] = pc[c] /\ event'[c] = event[c]
    BY <1>3, StartManualChanges
  <2>2. HooksDeliverTheirs'
    BY <2>1, CallsAreTheirs DEF HooksDeliverTheirs, RunOf
  <2>3. ASSUME NEW n \in Manuals
        PROVE  /\ pc'[StartCall(n)] # "idle" => event'[StartCall(n)] = StartOf(n)'
               /\ pc'[FinishCall(n)] # "idle" => /\ pc'[StartCall(n)] = "done"
                                                 /\ manual'[n].status \in {"ok", "error"}
                                                 /\ event'[FinishCall(n)] = FinishOf(n)'
    <3>1. CASE n = m
      <4>1. pc[FinishCall(m)] = "idle"
        BY <1>3, StartManualChanges DEF CommandsDeliverTheirs
      <4>2. pc'[FinishCall(m)] = "idle"
        BY <2>1, <4>1, CallsAreTheirs
      <4>3. event'[StartCall(m)] = StartOf(m)'
        BY <1>3, StartManualChanges DEF StartOf
      <4>4. QED
        BY <3>1, <4>2, <4>3
    <3>2. CASE n # m
      <4>1. manual'[n] = manual[n]
        BY <1>3, <3>2, StartManualChanges
      <4>2. /\ pc'[StartCall(n)] = pc[StartCall(n)] /\ event'[StartCall(n)] = event[StartCall(n)]
            /\ pc'[FinishCall(n)] = pc[FinishCall(n)] /\ event'[FinishCall(n)] = event[FinishCall(n)]
        BY <2>1, <3>2, CallsAreTheirs
      <4>3. QED
        BY <4>1, <4>2 DEF CommandsDeliverTheirs, StartOf, FinishOf
    <3>3. QED
      BY <3>1, <3>2
  <2>4. QED
    BY <2>2, <2>3 DEF CommandsDeliverTheirs, StartCall, FinishCall
<1>4. ASSUME NEW m \in Manuals, FinishManual(m)
      PROVE  HooksDeliverTheirs' /\ CommandsDeliverTheirs'
  <2>1. \A c \in Calls : c # FinishCall(m) => pc'[c] = pc[c] /\ event'[c] = event[c]
    BY <1>4, FinishManualChanges
  <2>2. HooksDeliverTheirs'
    BY <2>1, CallsAreTheirs DEF HooksDeliverTheirs, RunOf
  <2>3. ASSUME NEW n \in Manuals
        PROVE  /\ pc'[StartCall(n)] # "idle" => event'[StartCall(n)] = StartOf(n)'
               /\ pc'[FinishCall(n)] # "idle" => /\ pc'[StartCall(n)] = "done"
                                                 /\ manual'[n].status \in {"ok", "error"}
                                                 /\ event'[FinishCall(n)] = FinishOf(n)'
    <3>1. pc'[StartCall(n)] = pc[StartCall(n)] /\ event'[StartCall(n)] = event[StartCall(n)]
      BY <2>1, CallsAreTheirs
    <3>2. CASE n = m
      <4>1. /\ pc[StartCall(m)] = "done" /\ manual'[m].target = manual[m].target
            /\ manual'[m].status \in {"ok", "error"}
        BY <1>4, FinishManualChanges
      <4>2. event'[FinishCall(m)] = FinishOf(m)'
        BY <1>4, FinishManualChanges DEF FinishOf
      <4>3. event'[StartCall(m)] = StartOf(m)'
        BY <3>1, <3>2, <4>1 DEF CommandsDeliverTheirs, StartOf
      <4>4. QED
        BY <3>1, <3>2, <4>1, <4>2, <4>3
    <3>3. CASE n # m
      <4>1. manual'[n] = manual[n]
        BY <1>4, <3>3, FinishManualChanges
      <4>2. pc'[FinishCall(n)] = pc[FinishCall(n)] /\ event'[FinishCall(n)] = event[FinishCall(n)]
        BY <2>1, <3>3, CallsAreTheirs
      <4>3. QED
        BY <3>1, <4>1, <4>2 DEF CommandsDeliverTheirs, StartOf, FinishOf
    <3>4. QED
      BY <3>2, <3>3
  <2>4. QED
    BY <2>2, <2>3 DEF CommandsDeliverTheirs, StartCall, FinishCall
<1>5. QED
  BY <1>1, <1>2, <1>3, <1>4, StepKinds

\* A command that finishes finds no finish of its own in the log, and one that has
\* begun to adds it behind its start.
LEMMA OrderStays ==
  ASSUME IInv, ManualsAreTargeted, PairingInv, CommandsDeliverTheirs', [TurnNext]_allVars,
         [Next]_vars, CompletersAreKnown
  PROVE  FinishesFollowStarts'
<1> USE DEF PairingInv
<1> SUFFICES ASSUME NEW m \in Manuals, pc'[FinishCall(m)] # "idle",
                    NEW i \in 1 .. Len(log'[manual'[m].target]),
                    log'[manual'[m].target][i] = FinishOf(m)'
             PROVE  \E j \in 1 .. i - 1 : log'[manual'[m].target][j] = StartOf(m)'
  BY DEF FinishesFollowStarts, StartOf, FinishOf, FinishCall
<1>1. CASE pc[FinishCall(m)] = "idle"
  <2>1. FinishManual(m)
    <3>1. ASSUME NEW c \in Hooks, NEW e \in Events, Begin(c, e) PROVE FALSE
      BY <1>1, <3>1, BeginChanges, CallsAreTheirs
    <3>2. ASSUME NEW n \in Manuals, StartManual(n) PROVE FALSE
      BY <1>1, <3>2, StartManualChanges, CallsAreTheirs
    <3>3. ASSUME NEW n \in Manuals, n # m, FinishManual(n) PROVE FALSE
      BY <1>1, <3>3, FinishManualChanges, CallsAreTheirs
    <3>4. FinishCall(m) \in Calls
      BY CallsAreTheirs
    <3>5. QED
      BY <1>1, <3>1, <3>2, <3>3, <3>4, StepKinds
  <2> DEFINE r == manual[m].target
             e == FinishOf(m)'
  <2>2. /\ pc[StartCall(m)] = "done" /\ r \in Runs /\ manual'[m].target = r /\ log' = log
        /\ manual'[m].status \in {"ok", "error"}
    BY <2>1, FinishManualChanges
  <2> DEFINE t == IF manual'[m].complete THEN manual'[m].status ELSE "none"
  <2>3. t \in {"none", "ok", "error"} /\ e = ManualEvent(m, r, "finish", manual'[m].status, t)
    BY <2>2 DEF FinishOf
  <2>4. e \in CommandEvents(m, r) /\ e.id # StartOf(m).id
    <3> HIDE DEF t
    <3>1. QED
      BY <2>2, <2>3, ManualIdsAssumption DEF CommandEvents, StartOf
  <2> HIDE DEF t
  <2>5. PICK c \in Calls : pc[c] # "idle" /\ event[c] = log[r][i]
    BY <2>2 DEF LinesAreEvents
  <2>6. event[c] = e /\ event[c].run = r
    BY <2>2, <2>5 DEF CompletersAreKnown
  <2>7. c \in {StartCall(m), FinishCall(m)}
    BY <2>2, <2>4, <2>5, <2>6, OnlyItsCallsDeliver
  <2>8. event[StartCall(m)] = StartOf(m)
    BY <2>2 DEF CommandsDeliverTheirs
  <2>9. QED
    BY <1>1, <2>4, <2>5, <2>6, <2>7, <2>8
<1>2. CASE pc[FinishCall(m)] # "idle"
  <2> DEFINE r == manual[m].target
             lines == log[r]
             new == log'[r]
  <2>1. r \in Runs /\ event[StartCall(m)] = StartOf(m) /\ event[FinishCall(m)] = FinishOf(m)
        /\ pc[StartCall(m)] = "done" /\ StartOf(m).run = r
    BY <1>2, FinishingCommands
  <2>2. manual'[m] = manual[m]
    <3>1. ASSUME NEW n \in Manuals, StartManual(n) PROVE n # m
      BY <2>1, <3>1, StartManualChanges
    <3>2. ASSUME NEW n \in Manuals, FinishManual(n) PROVE n # m
      BY <1>2, <3>2, FinishManualChanges
    <3>3. QED
      BY <3>1, <3>2, StepKinds, StartManualChanges, FinishManualChanges
  <2>3. FinishOf(m)' = FinishOf(m) /\ StartOf(m)' = StartOf(m)
    BY <2>2 DEF FinishOf, StartOf
  <2>4. i \in 1 .. Len(new) /\ new[i] = FinishOf(m)
    BY <2>2, <2>3
  <2>5. lines \in Seq(Events)
    BY <2>1, LinesStay
  <2>6. \A j \in 1 .. Len(lines) : lines[j] = FinishOf(m) => \E k \in 1 .. j - 1 : lines[k] = StartOf(m)
    BY <1>2 DEF FinishesFollowStarts
  <2>7. CASE new = lines
    BY <2>2, <2>3, <2>4, <2>6, <2>7
  <2>8. ASSUME NEW e \in Events, new = Append(lines, e)
        PROVE  \E j \in 1 .. i - 1 : new[j] = StartOf(m)
    <3> DEFINE n == Len(lines)
    <3>1. n \in Nat /\ Len(new) = n + 1 /\ \A j \in 1 .. n : new[j] = lines[j]
      BY <2>5, <2>8, AppendProperties
    <3>2. CASE i \in 1 .. n
      <4>1. PICK k \in 1 .. i - 1 : lines[k] = StartOf(m)
        BY <2>4, <2>6, <3>1, <3>2
      <4>2. k \in 1 .. n
        BY <3>1, <3>2
      <4>3. QED
        BY <3>1, <4>1, <4>2
    <3>3. CASE i \notin 1 .. n
      <4>1. i = n + 1
        BY <2>4, <3>1, <3>3
      <4>2. In(lines, StartOf(m))
        BY <2>1, CallsAreTheirs DEF EventsAreDelivered, RunOf
      <4>3. PICK k \in 1 .. n : lines[k] = StartOf(m)
        BY <4>2 DEF In
      <4>4. k \in 1 .. i - 1
        BY <3>1, <4>1
      <4>5. QED
        BY <3>1, <4>3, <4>4
    <3>4. QED
      BY <3>2, <3>3
  <2>9. new = lines \/ \E e \in Events : new = Append(lines, e)
    BY <2>1, LogsOnlyGrow
  <2>10. QED
    BY <2>2, <2>3, <2>7, <2>8, <2>9
<1>3. QED
  BY <1>1, <1>2

\* Whatever happens between the two calls of a command, PairingInv is kept.
THEOREM PairingIsInductive ==
  TurnIInv /\ PairingInv /\ [TurnNext]_allVars => PairingInv'
<1> SUFFICES ASSUME TurnIInv, PairingInv, [TurnNext]_allVars PROVE PairingInv'
  OBVIOUS
<1>1. IInv /\ ManualsAreTargeted /\ CompletersAreKnown /\ [Next]_vars
  BY TurnStepsAreCalls DEF TurnIInv, SourcesInv
<1>2. EventsAreDelivered' /\ LinesAreEvents'
  BY <1>1, DeliveriesStay DEF PairingInv
<1>3. HooksDeliverTheirs' /\ CommandsDeliverTheirs'
  BY <1>1, DeliverersStay DEF PairingInv
<1>4. FinishesFollowStarts'
  BY <1>1, <1>3, OrderStays
<1>5. QED
  BY <1>2, <1>3, <1>4 DEF PairingInv

\* A command that has ended has its operation in the graph of its run, with the
\* status of its child: its finish is the last of the operation's events.
LEMMA DeliveredCommandsArePaired ==
  ASSUME TurnIInv, PairingInv
  PROVE  ManualCommandIsPaired
<1> SUFFICES ASSUME NEW m \in Manuals, pc[FinishCall(m)] = "done"
             PROVE  LET events == log[manual[m].target]
                        start == StartOf(m)
                    IN /\ start.op \in Operations(events)
                       /\ Nodes(events)[start.op].status = manual[m].status
                       /\ \E i, j \in DOMAIN events :
                            /\ i < j /\ events[i].id = start.id
                            /\ events[j].op = start.op /\ events[j].id # start.id
  BY DEF ManualCommandIsPaired, StartOf
<1> DEFINE r == manual[m].target
           lines == log[r]
           n == Len(lines)
           start == StartOf(m)
           finish == FinishOf(m)
<1>1. IInv /\ ManualsAreTargeted /\ CompletersAreKnown
  BY DEF TurnIInv, SourcesInv
<1>2. /\ r \in Runs /\ pc[StartCall(m)] = "done" /\ manual[m].status \in {"ok", "error"}
      /\ event[StartCall(m)] = start /\ event[FinishCall(m)] = finish
      /\ start \in CommandEvents(m, r) /\ finish \in CommandEvents(m, r)
      /\ finish.run = r /\ finish.lifecycle = "finish" /\ finish.status = manual[m].status
      /\ finish.op = start.op /\ finish.id # start.id
  BY <1>1, FinishingCommands DEF PairingInv
<1>3. lines \in Seq(Events) /\ n \in Nat /\ DOMAIN lines = 1 .. n
  BY <1>1, <1>2 DEF IInv, TypeOK
<1> HIDE DEF start, finish, n
<1>4. \A i \in 1 .. n : lines[i].op = start.op \/ lines[i].id \in {start.id, finish.id}
                          => lines[i] \in {start, finish}
  <2> SUFFICES ASSUME NEW i \in 1 .. n, lines[i].op = start.op \/ lines[i].id \in {start.id, finish.id}
               PROVE  lines[i] \in {start, finish}
    OBVIOUS
  <2>1. PICK c \in Calls : pc[c] # "idle" /\ event[c] = lines[i]
    BY <1>2 DEF PairingInv, LinesAreEvents, n
  <2>2. event[c].run = r
    BY <1>1, <1>2, <2>1 DEF CompletersAreKnown, n
  <2>3. c \in {StartCall(m), FinishCall(m)}
    BY <1>1, <1>2, <2>1, <2>2, OnlyItsCallsDeliver DEF PairingInv
  <2>4. QED
    BY <1>2, <2>1, <2>3
<1>5. \E i \in 1 .. n : lines[i] = finish
  <2>1. In(lines, finish)
    BY <1>2, CallsAreTheirs DEF PairingInv, EventsAreDelivered, RunOf
  <2>2. QED
    BY <2>1 DEF In, n
<1>6. PICK i \in 1 .. n : lines[i] = finish /\ \A k \in 1 .. n : lines[k] = finish => i <= k
  <2> DEFINE F == {k \in 1 .. n : lines[k] = finish}
  <2>1. F \in SUBSET (1 .. n) /\ F # {}
    BY <1>5
  <2>2. Min(F) \in F /\ \A k \in F : Min(F) <= k
    <3> HIDE DEF F
    <3>1. QED
      BY <1>3, <2>1, MinOfPositions
  <2>3. QED
    BY <2>2
<1>7. PICK j \in 1 .. i - 1 : lines[j] = start
  BY <1>6 DEF PairingInv, FinishesFollowStarts, start, finish, n
<1>8. j \in 1 .. n /\ j < i
  BY <1>3, <1>7
<1>9. \A k \in 1 .. n : lines[k].id = finish.id => lines[k] = finish
  BY <1>2, <1>4
<1>10. i \in Unique(lines)
  BY <1>3, <1>6, <1>9 DEF Unique
<1>11. i \in EventsOf(lines, start.op)
  BY <1>2, <1>6, <1>10 DEF EventsOf
<1>12. \A k \in EventsOf(lines, start.op) : k \in 1 .. n /\ k <= i
  <2> SUFFICES ASSUME NEW k \in EventsOf(lines, start.op) PROVE k \in 1 .. n /\ k <= i
    OBVIOUS
  <2>1. k \in Unique(lines) /\ k \in 1 .. n /\ lines[k] \in {start, finish}
    BY <1>3, <1>4 DEF EventsOf, Unique
  <2>2. CASE lines[k] = start
    BY <1>3, <1>7, <1>8, <2>1, <2>2 DEF Unique
  <2>3. CASE lines[k] = finish
    BY <1>3, <1>6, <2>1, <2>3 DEF Unique
  <2>4. QED
    BY <2>1, <2>2, <2>3
<1>13. Max(EventsOf(lines, start.op)) = i
  <2>1. EventsOf(lines, start.op) \in SUBSET (1 .. n) /\ EventsOf(lines, start.op) # {}
    BY <1>11, <1>12
  <2>2. /\ Max(EventsOf(lines, start.op)) \in EventsOf(lines, start.op)
        /\ i <= Max(EventsOf(lines, start.op))
    BY <1>3, <1>11, <2>1, MaxOfPositions
  <2>3. QED
    BY <1>12, <2>2
<1>14. start.op \in Operations(lines)
  BY <1>2, <1>6, <1>10 DEF Operations
<1>15. NodeStatus(lines, start.op) = manual[m].status
  BY <1>2, <1>6, <1>13 DEF NodeStatus
<1>16. Nodes(lines)[start.op].status = manual[m].status
  BY <1>14, <1>15 DEF Nodes, Node
<1>17. QED
  BY <1>2, <1>3, <1>6, <1>7, <1>8, <1>14, <1>16 DEF start

\* Whatever becomes of its run while its child runs, an ended command has its
\* operation in that run's graph, started before it finished, with its child's status.
THEOREM CommandsArePaired == TurnSpec => []ManualCommandIsPaired
<1>1. TurnInit => PairingInv
  BY CallsAreTheirs
     DEF TurnInit, Init, PairingInv, EventsAreDelivered, LinesAreEvents, HooksDeliverTheirs,
         CommandsDeliverTheirs, FinishesFollowStarts, HasRead
<1>2. TurnIInv /\ PairingInv => ManualCommandIsPaired
  BY DeliveredCommandsArePaired
<1>3. QED
  BY <1>1, <1>2, PairingIsInductive, TurnInductiveInvariant, PTL DEF TurnSpec
=============================================================================
