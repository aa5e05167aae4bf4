----------------------- MODULE ExecutionRuntimeProofs -----------------------
(***************************************************************************)
(* IInv is an inductive invariant of ExecutionRuntime!Spec, and implies    *)
(* the safety properties checked by TLC, for any runs, calls and events.   *)
(***************************************************************************)
EXTENDS ExecutionRuntime, ExecutionGraphProofs

\* The events of the adapters are as ExecutionGraphProofs needs them.
LEMMA EventsAreAdapterEvents == AdapterEvents(Events)
BY EventsAssumption DEF AdapterEvents

\* A prefix of a log is the same prefix of the log with one more line.
LEMMA PrefixOfAppend ==
  ASSUME NEW s \in Seq(Events), NEW e \in Events, NEW k \in 0 .. Len(s)
  PROVE  SubSeq(Append(s, e), 1, k) = SubSeq(s, 1, k)
<1>1. Append(s, e) = s \o <<e>>
  BY AppendIsConcat
<1>2. CASE k = 0
  BY <1>2
<1>3. CASE k # 0
  BY <1>1, <1>3, SubSeqOfConcat1, <<e>> \in Seq(Events), 1 \in 1 .. Len(s), k \in 1 .. Len(s)
<1>4. QED
  BY <1>2, <1>3

\* A log that another one continues is a prefix of it.
LEMMA ContinuedIsPrefix ==
  ASSUME NEW s \in Seq(Events), NEW t \in Seq(Events), Continues(t, s)
  PROVE  Len(s) \in 0 .. Len(t) /\ SubSeq(t, 1, Len(s)) = s
<1>1. Len(s) \in Nat /\ Len(t) \in Nat /\ Len(s) <= Len(t)
  BY DEF Continues
<1> DEFINE p == SubSeq(t, 1, Len(s))
<1>2. \A i \in 1 .. Len(s) : t[i] \in Events
  BY <1>1
<1>3. p \in Seq(Events) /\ Len(p) = Len(s) /\ \A i \in 1 .. Len(s) : p[i] = t[i]
  BY <1>1, <1>2, SubSeqProperties
<1>4. p = s
  <2> HIDE DEF p
  <2> QED
    BY <1>3, SeqEqual DEF Continues
<1>5. QED
  BY <1>1, <1>4

-----------------------------------------------------------------------------
\* No file, no event and no call yet: every part of IInv holds of nothing.
THEOREM InitEstablishesIInv == Init => IInv
<1> SUFFICES ASSUME Init PROVE IInv
  OBVIOUS
<1>1. TypeOK
  BY DEF Init, TypeOK, Absent, FileKinds
<1>2. SeenIsPast /\ ReportersSawCompletion
  BY DEF Init, SeenIsPast, ReportersSawCompletion, HasRead
<1>3. GraphIsReplayOfPrefix /\ ReportOnlyWhenComplete
  BY DEF Init, GraphIsReplayOfPrefix, ReportOnlyWhenComplete, Absent
<1>4. SoloCallIsExact
  BY NoValueAssumption DEF Init, SoloCallIsExact
<1>5. QED
  BY <1>1, <1>2, <1>3, <1>4 DEF IInv

\* A call that begins beside others ends their being alone; one that begins on
\* an idle run is alone from its first step.
LEMMA BeginPreservesIInv ==
  ASSUME IInv, NEW c \in Calls, NEW e \in Events, Begin(c, e)
  PROVE  IInv'
<1> USE DEF IInv
<1>0. e.run \in Runs
  BY EventsAssumption
<1>1. TypeOK'
  BY <1>0 DEF TypeOK, Begin, Goto, files, InProgress
<1>2. \A d \in Calls : d # c => pc'[d] = pc[d] /\ event'[d] = event[d] /\ RunOf(d)' = RunOf(d)
  BY DEF TypeOK, Begin, Goto, RunOf
<1>3. pc'[c] = "append" /\ pc[c] = "idle" /\ RunOf(c)' = e.run
  BY DEF TypeOK, Begin, Goto, RunOf
<1>4. SeenIsPast' /\ ReportersSawCompletion'
  BY <1>2, <1>3 DEF SeenIsPast, ReportersSawCompletion, HasRead, Begin, files, RunOf
<1>5. GraphIsReplayOfPrefix' /\ ReportOnlyWhenComplete'
  BY DEF GraphIsReplayOfPrefix, ReportOnlyWhenComplete, Begin, files
<1>6. SoloCallIsExact'
  <2> SUFFICES ASSUME NEW r \in Runs, NEW d \in Calls, solo'[r] = d
               PROVE  /\ pc'[d] # "idle" /\ RunOf(d)' = r
                      /\ ActiveOn(r)' \subseteq {d}
                      /\ HasRead(d)' => seen'[d] = log'[r]
                      /\ pc'[d] = "writeGraph" => graph'[r] = Blank
                      /\ pc'[d] \in {"openReport", "writeReport", "done"}
                           => graph'[r] = Whole(Graph(log'[r]))
                      /\ pc'[d] = "writeReport" => report'[r] = Blank
                      /\ pc'[d] = "done" /\ Complete(log'[r])
                           => report'[r] = Whole(Graph(log'[r]))
    BY DEF SoloCallIsExact
  <2>1. CASE r = e.run
    <3>1. d = c /\ ActiveOn(r) = {}
      BY <2>1, NoValueAssumption DEF Begin, TypeOK
    <3>2. ActiveOn(r)' \subseteq {c}
      BY <1>2, <3>1 DEF ActiveOn
    <3>3. QED
      BY <1>3, <2>1, <3>1, <3>2 DEF HasRead
  <2>2. CASE r # e.run
    <3>1. solo[r] = d /\ d # c
      BY <2>2, <1>3 DEF Begin, SoloCallIsExact, TypeOK
    <3>2. ActiveOn(r)' \subseteq ActiveOn(r)
      BY <1>2, <1>3, <2>2 DEF ActiveOn
    <3>3. QED
      BY <1>2, <3>1, <3>2 DEF SoloCallIsExact, HasRead, Begin, files
  <2>3. QED
    BY <2>1, <2>2
<1>7. QED
  BY <1>1, <1>4, <1>5, <1>6

\* The kinds of what a write leaves in a file.
LEMMA FileKindsOfContents ==
  /\ Torn.kind = "torn" /\ Torn.kind \in FileKinds
  /\ \A g : Whole(g).kind = "whole" /\ Whole(g).kind \in FileKinds
BY DEF Torn, Whole, FileKinds

\* What every step of a call leaves alone.
LEMMA StepFrame ==
  ASSUME IInv, NEW c \in Calls, Step(c) \/ Abort(c)
  PROVE  /\ event' = event /\ solo' = solo
         /\ pc[c] \in InProgress /\ event[c] \in Events /\ RunOf(c) \in Runs
         /\ \A d \in Calls : RunOf(d)' = RunOf(d)
         /\ \A d \in Calls : d # c => pc'[d] = pc[d]
         /\ pc'[c] \in InProgress \cup {"done", "failed"}
         /\ \A r \in Runs : ActiveOn(r)' \subseteq ActiveOn(r)
         /\ \A r \in Runs, d \in Calls :
               solo[r] = d => pc[d] # "idle" /\ RunOf(d) = r /\ ActiveOn(r) \subseteq {d}
         /\ \A r \in Runs, d \in Calls : solo[r] = d /\ r = RunOf(c) => d = c
<1> USE DEF Step, AppendEvent, ReadEvents, OpenGraph, WriteGraph, OpenReport,
           WriteReport, Abort, Goto
<1>1. event' = event /\ solo' = solo /\ pc[c] \in InProgress
  BY DEF InProgress
<1>2. event[c] \in Events /\ RunOf(c) \in Runs
  BY <1>1, EventsAssumption DEF IInv, TypeOK, InProgress, RunOf
<1>3. \A d \in Calls : RunOf(d)' = RunOf(d)
  BY <1>1 DEF RunOf
<1>4. \A d \in Calls : d # c => pc'[d] = pc[d]
  BY DEF IInv, TypeOK
<1>5. pc'[c] \in InProgress \cup {"done", "failed"}
  BY DEF IInv, TypeOK, InProgress
<1>6. \A r \in Runs : ActiveOn(r)' \subseteq ActiveOn(r)
  BY <1>1, <1>3, <1>4 DEF ActiveOn
<1>7. \A r \in Runs, d \in Calls :
        solo[r] = d => pc[d] # "idle" /\ RunOf(d) = r /\ ActiveOn(r) \subseteq {d}
  BY DEF IInv, SoloCallIsExact
<1>8. \A r \in Runs, d \in Calls : solo[r] = d /\ r = RunOf(c) => d = c
  BY <1>1, <1>7 DEF ActiveOn
<1>9. QED
  BY <1>1, <1>2, <1>3, <1>4, <1>5, <1>6, <1>7, <1>8

\* The log grows at its end: what other calls have read, and what the files hold,
\* stays a prefix of it, and a complete log stays complete.
LEMMA AppendEventPreservesIInv ==
  ASSUME IInv, NEW c \in Calls, AppendEvent(c)
  PROVE  IInv'
<1> DEFINE run == RunOf(c)
<1>1. Step(c)
  BY DEF Step
<1>2. run \in Runs /\ event[c] \in Events /\ log[run] \in Seq(Events)
  BY <1>1, StepFrame DEF IInv, TypeOK
<1>3. /\ log' \in [Runs -> Seq(Events)]
      /\ \A r \in Runs : log'[r] \in {log[r], Append(log[r], event[c])}
      /\ \A r \in Runs : r # run => log'[r] = log[r]
  <2>1. log \in [Runs -> Seq(Events)] /\ Append(log[run], event[c]) \in Seq(Events)
    BY <1>2, AppendProperties DEF IInv, TypeOK
  <2>2. log' \in {log, [log EXCEPT ![run] = Append(@, event[c])]}
    BY DEF AppendEvent
  <2>3. QED
    BY <1>2, <2>1, <2>2
<1>4. ASSUME NEW r \in Runs
      PROVE  /\ log[r] \in Seq(Events) /\ log'[r] \in Seq(Events)
             /\ Continues(log'[r], log[r])
             /\ Complete(log[r]) => Complete(log'[r])
  <2>1. log[r] \in Seq(Events) /\ log'[r] \in Seq(Events)
    BY <1>3 DEF IInv, TypeOK
  <2>2. Continues(log[r], log[r]) /\ Continues(Append(log[r], event[c]), log[r])
    BY <1>2, <2>1, AppendProperties DEF Continues
  <2>3. Continues(log'[r], log[r])
    BY <1>3, <2>2
  <2>4. QED
    BY <2>1, <2>3, CompleteContinues, EventsAreAdapterEvents
<1>6. TypeOK'
  BY <1>3 DEF IInv, TypeOK, AppendEvent, Goto, InProgress
<1>7. \A d \in Calls : HasRead(d)' => HasRead(d) /\ d # c /\ seen'[d] = seen[d]
  BY DEF HasRead, AppendEvent, Goto, IInv, TypeOK
<1>8. SeenIsPast'
  <2> SUFFICES ASSUME NEW d \in Calls, HasRead(d)'
               PROVE  Continues(log'[RunOf(d)'], seen'[d])
    BY DEF SeenIsPast
  <2>1. RunOf(d)' = RunOf(d) /\ RunOf(d) \in Runs
    BY <1>1, <1>7, StepFrame, EventsAssumption DEF IInv, TypeOK, RunOf, HasRead
  <2>2. Continues(log[RunOf(d)], seen[d])
    BY <1>7 DEF IInv, SeenIsPast
  <2>3. QED
    BY <1>3, <1>4, <1>7, <2>1, <2>2 DEF Continues, IInv, TypeOK
<1>9. ReportersSawCompletion'
  BY DEF ReportersSawCompletion, AppendEvent, Goto, IInv, TypeOK
<1>10. GraphIsReplayOfPrefix'
  <2> SUFFICES ASSUME NEW r \in Runs, graph'[r].kind = "whole"
               PROVE  \E k \in 0 .. Len(log'[r]) :
                         graph'[r] = Whole(Graph(SubSeq(log'[r], 1, k)))
    BY DEF GraphIsReplayOfPrefix
  <2>1. PICK k \in 0 .. Len(log[r]) : graph[r] = Whole(Graph(SubSeq(log[r], 1, k)))
    BY DEF AppendEvent, IInv, GraphIsReplayOfPrefix
  <2>2. SubSeq(log'[r], 1, k) = SubSeq(log[r], 1, k)
    BY <1>2, <1>3, PrefixOfAppend DEF IInv, TypeOK
  <2>3. k \in 0 .. Len(log'[r])
    BY <1>3, <1>4 DEF Continues, IInv, TypeOK
  <2>4. graph' = graph
    BY DEF AppendEvent
  <2>5. QED
    BY <2>1, <2>2, <2>3, <2>4
<1>11. ReportOnlyWhenComplete'
  BY <1>4 DEF ReportOnlyWhenComplete, AppendEvent, IInv
<1>12. SoloCallIsExact'
  <2> SUFFICES ASSUME NEW r \in Runs, NEW d \in Calls, solo'[r] = d
               PROVE  /\ pc'[d] # "idle" /\ RunOf(d)' = r
                      /\ ActiveOn(r)' \subseteq {d}
                      /\ HasRead(d)' => seen'[d] = log'[r]
                      /\ pc'[d] = "writeGraph" => graph'[r] = Blank
                      /\ pc'[d] \in {"openReport", "writeReport", "done"}
                           => graph'[r] = Whole(Graph(log'[r]))
                      /\ pc'[d] = "writeReport" => report'[r] = Blank
                      /\ pc'[d] = "done" /\ Complete(log'[r])
                           => report'[r] = Whole(Graph(log'[r]))
    BY DEF SoloCallIsExact
  <2>1. solo[r] = d /\ pc'[d] # "idle" /\ RunOf(d)' = r /\ ActiveOn(r)' \subseteq {d}
    BY <1>1, StepFrame DEF InProgress
  <2>2. CASE r = run
    <3>1. d = c /\ pc'[d] = "read"
      BY <1>1, <2>1, <2>2, StepFrame DEF AppendEvent, Goto, IInv, TypeOK
    <3>2. QED
      BY <2>1, <3>1 DEF HasRead
  <2>3. CASE r # run
    <3>1. d # c /\ pc'[d] = pc[d]
      BY <1>1, <2>1, <2>3, StepFrame
    <3>2. QED
      BY <1>3, <2>1, <2>3, <3>1 DEF IInv, SoloCallIsExact, HasRead, AppendEvent
  <2>4. QED
    BY <2>2, <2>3
<1>13. QED
  BY <1>6, <1>8, <1>9, <1>10, <1>11, <1>12 DEF IInv

\* A step that leaves the logs alone, and changes only its own call and the
\* files of its run, preserves what the other calls and runs know.
LEMMA ReadEventsPreservesIInv ==
  ASSUME IInv, NEW c \in Calls, ReadEvents(c)
  PROVE  IInv'
<1> DEFINE run == RunOf(c)
<1>1. Step(c)
  BY DEF Step
<1>2. run \in Runs /\ log[run] \in Seq(Events)
  BY <1>1, StepFrame DEF IInv, TypeOK
<1>3. log' = log /\ graph' = graph /\ report' = report
  BY DEF ReadEvents, files
<1>4. /\ \A d \in Calls : d # c => seen'[d] = seen[d]
      /\ pc'[c] \in {"openGraph", "failed"}
      /\ pc'[c] = "openGraph" => seen'[c] = log[run]
  BY DEF ReadEvents, Goto, IInv, TypeOK
<1>5. TypeOK'
  BY <1>2 DEF IInv, TypeOK, ReadEvents, Goto, InProgress, files
<1>6. SeenIsPast'
  <2> SUFFICES ASSUME NEW d \in Calls, HasRead(d)'
               PROVE  Continues(log[RunOf(d)], seen'[d])
    BY <1>1, <1>3, StepFrame DEF SeenIsPast
  <2>1. CASE d = c
    BY <1>2, <1>4, <2>1 DEF HasRead, Continues
  <2>2. CASE d # c
    BY <1>1, <1>4, <2>2, StepFrame DEF HasRead, IInv, SeenIsPast
  <2>3. QED
    BY <2>1, <2>2
<1>7. ReportersSawCompletion'
  BY <1>1, <1>4, StepFrame DEF IInv, ReportersSawCompletion
<1>8. GraphIsReplayOfPrefix' /\ ReportOnlyWhenComplete'
  BY <1>3 DEF IInv, GraphIsReplayOfPrefix, ReportOnlyWhenComplete
<1>9. SoloCallIsExact'
  BY <1>1, <1>3, <1>4, StepFrame DEF IInv, SoloCallIsExact, HasRead, InProgress
<1>10. QED
  BY <1>5, <1>6, <1>7, <1>8, <1>9 DEF IInv

\* Truncating graph.json leaves nothing there that could be wrong.
LEMMA OpenGraphPreservesIInv ==
  ASSUME IInv, NEW c \in Calls, OpenGraph(c)
  PROVE  IInv'
<1> DEFINE run == RunOf(c)
<1>1. Step(c)
  BY DEF Step
<1>2. run \in Runs
  BY <1>1, StepFrame
<1>3. /\ log' = log /\ seen' = seen /\ report' = report
      /\ pc[c] = "openGraph" /\ pc'[c] = "writeGraph"
      /\ graph'[run] = Blank
      /\ \A r \in Runs : r # run => graph'[r] = graph[r]
  BY <1>2 DEF OpenGraph, Goto, IInv, TypeOK
<1>4. TypeOK'
  BY DEF IInv, TypeOK, OpenGraph, Goto, InProgress, Blank, FileKinds
<1>5. SeenIsPast' /\ ReportersSawCompletion'
  BY <1>1, <1>3, StepFrame DEF IInv, SeenIsPast, ReportersSawCompletion, HasRead
<1>6. GraphIsReplayOfPrefix' /\ ReportOnlyWhenComplete'
  BY <1>3 DEF IInv, GraphIsReplayOfPrefix, ReportOnlyWhenComplete, Blank
<1>7. SoloCallIsExact'
  BY <1>1, <1>3, StepFrame DEF IInv, SoloCallIsExact, HasRead, InProgress
<1>8. QED
  BY <1>4, <1>5, <1>6, <1>7 DEF IInv

\* What is written is the replay of what was read back, a prefix of the log.
LEMMA WriteGraphPreservesIInv ==
  ASSUME IInv, NEW c \in Calls, WriteGraph(c)
  PROVE  IInv'
<1> DEFINE run == RunOf(c)
<1>1. Step(c)
  BY DEF Step
<1>2. run \in Runs /\ log[run] \in Seq(Events) /\ seen[c] \in Seq(Events)
  BY <1>1, StepFrame DEF IInv, TypeOK
<1>3. /\ log' = log /\ seen' = seen /\ report' = report
      /\ pc[c] = "writeGraph"
      /\ pc'[c] = IF Complete(seen[c]) THEN "openReport" ELSE "done"
      /\ graph'[run] \in Overwrite(graph[run], Whole(Graph(seen[c])))
      /\ \A r \in Runs : r # run => graph'[r] = graph[r]
  BY <1>2 DEF WriteGraph, Goto, IInv, TypeOK
<1>4. graph'[run] \in {Whole(Graph(seen[c])), Torn}
  BY <1>3 DEF Overwrite
<1>5. TypeOK'
  <2>1. \A r \in Runs : graph'[r].kind \in FileKinds
    <3>1. graph'[run].kind \in FileKinds
      BY <1>4, FileKindsOfContents
    <3>2. \A r \in Runs : graph[r].kind \in FileKinds
      BY DEF IInv, TypeOK
    <3>3. QED
      BY <1>3, <3>1, <3>2
  <2>2. QED
    BY <2>1 DEF IInv, TypeOK, WriteGraph, Goto, InProgress
<1>6. SeenIsPast' /\ ReportersSawCompletion'
  BY <1>1, <1>3, StepFrame DEF IInv, SeenIsPast, ReportersSawCompletion, HasRead
<1>7. GraphIsReplayOfPrefix'
  <2>1. Continues(log[run], seen[c])
    BY <1>3 DEF IInv, SeenIsPast, HasRead
  <2>2. Len(seen[c]) \in 0 .. Len(log[run]) /\ SubSeq(log[run], 1, Len(seen[c])) = seen[c]
    BY <1>2, <2>1, ContinuedIsPrefix
  <2> SUFFICES ASSUME NEW r \in Runs, graph'[r].kind = "whole"
               PROVE  \E k \in 0 .. Len(log[r]) : graph'[r] = Whole(Graph(SubSeq(log[r], 1, k)))
    BY <1>3 DEF GraphIsReplayOfPrefix
  <2>3. CASE r = run
    <3>1. graph'[r] = Whole(Graph(seen[c]))
      BY <1>4, <2>3, FileKindsOfContents
    <3>2. QED
      BY <2>2, <2>3, <3>1
  <2>4. CASE r # run
    BY <1>3, <2>4 DEF IInv, GraphIsReplayOfPrefix
  <2>5. QED
    BY <2>3, <2>4
<1>8. ReportOnlyWhenComplete'
  BY <1>3 DEF IInv, ReportOnlyWhenComplete
<1>9. SoloCallIsExact'
  <2>1. solo[run] = c => graph'[run] = Whole(Graph(log[run])) /\ seen[c] = log[run]
    BY <1>2, <1>3 DEF IInv, SoloCallIsExact, HasRead, Overwrite
  <2>2. QED
    BY <1>1, <1>3, <2>1, StepFrame DEF IInv, SoloCallIsExact, HasRead, InProgress
<1>10. QED
  BY <1>5, <1>6, <1>7, <1>8, <1>9 DEF IInv

\* A report is begun by a call that saw the run complete, and so it still is.
LEMMA OpenReportPreservesIInv ==
  ASSUME IInv, NEW c \in Calls, OpenReport(c)
  PROVE  IInv'
<1> DEFINE run == RunOf(c)
<1>1. Step(c)
  BY DEF Step
<1>2. run \in Runs /\ log[run] \in Seq(Events) /\ seen[c] \in Seq(Events)
  BY <1>1, StepFrame DEF IInv, TypeOK
<1>3. /\ log' = log /\ seen' = seen /\ graph' = graph
      /\ pc[c] = "openReport" /\ pc'[c] = "writeReport"
      /\ report'[run] = Blank
      /\ \A r \in Runs : r # run => report'[r] = report[r]
  BY <1>2 DEF OpenReport, Goto, IInv, TypeOK
<1>4. TypeOK'
  BY DEF IInv, TypeOK, OpenReport, Goto, InProgress, Blank, FileKinds
<1>5. SeenIsPast' /\ ReportersSawCompletion'
  BY <1>1, <1>3, StepFrame DEF IInv, SeenIsPast, ReportersSawCompletion, HasRead
<1>6. GraphIsReplayOfPrefix'
  BY <1>3 DEF IInv, GraphIsReplayOfPrefix
<1>7. ReportOnlyWhenComplete'
  <2>1. Continues(log[run], seen[c]) /\ Complete(seen[c])
    BY <1>3 DEF IInv, SeenIsPast, ReportersSawCompletion, HasRead
  <2>2. Complete(log[run])
    BY <1>2, <2>1, CompleteContinues, EventsAreAdapterEvents
  <2>3. QED
    BY <1>3, <2>2 DEF IInv, ReportOnlyWhenComplete, Blank
<1>8. SoloCallIsExact'
  BY <1>1, <1>3, StepFrame DEF IInv, SoloCallIsExact, HasRead, InProgress
<1>9. QED
  BY <1>4, <1>5, <1>6, <1>7, <1>8 DEF IInv

\* Likewise for the contents of the report.
LEMMA WriteReportPreservesIInv ==
  ASSUME IInv, NEW c \in Calls, WriteReport(c)
  PROVE  IInv'
<1> DEFINE run == RunOf(c)
<1>1. Step(c)
  BY DEF Step
<1>2. run \in Runs /\ log[run] \in Seq(Events) /\ seen[c] \in Seq(Events)
  BY <1>1, StepFrame DEF IInv, TypeOK
<1>3. /\ log' = log /\ seen' = seen /\ graph' = graph
      /\ pc[c] = "writeReport" /\ pc'[c] = "done"
      /\ report'[run] \in Overwrite(report[run], Whole(Graph(seen[c])))
      /\ \A r \in Runs : r # run => report'[r] = report[r]
  BY <1>2 DEF WriteReport, Goto, IInv, TypeOK
<1>4. report'[run] \in {Whole(Graph(seen[c])), Torn}
  BY <1>3 DEF Overwrite
<1>5. TypeOK'
  <2>1. \A r \in Runs : report'[r].kind \in FileKinds
    <3>1. report'[run].kind \in FileKinds
      BY <1>4, FileKindsOfContents
    <3>2. \A r \in Runs : report[r].kind \in FileKinds
      BY DEF IInv, TypeOK
    <3>3. QED
      BY <1>3, <3>1, <3>2
  <2>2. QED
    BY <2>1 DEF IInv, TypeOK, WriteReport, Goto, InProgress
<1>6. SeenIsPast' /\ ReportersSawCompletion'
  BY <1>1, <1>3, StepFrame DEF IInv, SeenIsPast, ReportersSawCompletion, HasRead
<1>7. GraphIsReplayOfPrefix'
  BY <1>3 DEF IInv, GraphIsReplayOfPrefix
<1>8. ReportOnlyWhenComplete'
  <2>1. Continues(log[run], seen[c]) /\ Complete(seen[c])
    BY <1>3 DEF IInv, SeenIsPast, ReportersSawCompletion, HasRead
  <2>2. Complete(log[run])
    BY <1>2, <2>1, CompleteContinues, EventsAreAdapterEvents
  <2>3. Whole(Graph(seen[c])).graph.status # "running"
    BY <2>1 DEF Whole, Graph, Complete
  <2>4. QED
    BY <1>3, <1>4, <2>2, <2>3 DEF IInv, ReportOnlyWhenComplete, Torn
<1>9. SoloCallIsExact'
  <2>1. solo[run] = c => report'[run] = Whole(Graph(log[run]))
    BY <1>2, <1>3 DEF IInv, SoloCallIsExact, HasRead, Overwrite
  <2>2. QED
    BY <1>1, <1>3, <2>1, StepFrame DEF IInv, SoloCallIsExact, HasRead, InProgress
<1>10. QED
  BY <1>5, <1>6, <1>7, <1>8, <1>9 DEF IInv

\* A call that fails at any point leaves a file untouched or torn, and is no
\* longer in progress.
LEMMA AbortPreservesIInv ==
  ASSUME IInv, NEW c \in Calls, Abort(c)
  PROVE  IInv'
<1> DEFINE run == RunOf(c)
<1>1. run \in Runs /\ log[run] \in Seq(Events) /\ seen[c] \in Seq(Events)
  BY StepFrame DEF IInv, TypeOK
<1>2. /\ log' = log /\ seen' = seen /\ pc'[c] = "failed"
      /\ \A r \in Runs : graph'[r] \in {graph[r], Torn}
      /\ \A r \in Runs : report'[r] # report[r] =>
             r = run /\ pc[c] = "writeReport" /\ report'[r] = Torn
      /\ \A r \in Runs : r # run => graph'[r] = graph[r]
  <2>1. log' = log /\ seen' = seen /\ pc'[c] = "failed"
    BY DEF Abort, Goto, IInv, TypeOK, files
  <2>2. DOMAIN graph = Runs /\ DOMAIN report = Runs
    BY DEF IInv, TypeOK
  <2>3. \/ graph' = graph /\ report' = report
        \/ graph' = [graph EXCEPT ![run] = Torn] /\ report' = report
        \/ /\ graph' = graph /\ pc[c] = "writeReport"
           /\ report' = [report EXCEPT ![run] = Torn]
    BY DEF Abort, files
  <2>4. \A r \in Runs : /\ graph'[r] \in {graph[r], Torn}
                        /\ r # run => graph'[r] = graph[r]
    BY <1>1, <2>2, <2>3
  <2>5. \A r \in Runs : report'[r] # report[r] =>
          r = run /\ pc[c] = "writeReport" /\ report'[r] = Torn
    <3>1. CASE report' = report
      BY <3>1
    <3>2. CASE pc[c] = "writeReport" /\ report' = [report EXCEPT ![run] = Torn]
      BY <1>1, <2>2, <3>2
    <3>3. QED
      BY <2>3, <3>1, <3>2
  <2>6. QED
    BY <2>1, <2>4, <2>5
<1>3. TypeOK'
  <2>1. \A r \in Runs : graph'[r].kind \in FileKinds /\ report'[r].kind \in FileKinds
    <3>1. \A r \in Runs : graph[r].kind \in FileKinds /\ report[r].kind \in FileKinds
      BY DEF IInv, TypeOK
    <3>2. QED
      BY <1>2, <3>1, FileKindsOfContents
  <2>2. QED
    BY <2>1 DEF IInv, TypeOK, Abort, Goto, InProgress, files
<1>4. SeenIsPast' /\ ReportersSawCompletion'
  BY <1>2, StepFrame DEF IInv, SeenIsPast, ReportersSawCompletion, HasRead
<1>5. GraphIsReplayOfPrefix'
  BY <1>2 DEF IInv, GraphIsReplayOfPrefix, Torn
<1>6. ReportOnlyWhenComplete'
  <2>1. pc[c] = "writeReport" => Complete(log[run])
    <3>1. pc[c] = "writeReport" => Continues(log[run], seen[c]) /\ Complete(seen[c])
      BY DEF IInv, SeenIsPast, ReportersSawCompletion, HasRead
    <3>2. QED
      BY <1>1, <3>1, CompleteContinues, EventsAreAdapterEvents
  <2>2. QED
    BY <1>2, <2>1 DEF IInv, ReportOnlyWhenComplete, Torn
<1>7. SoloCallIsExact'
  BY <1>1, <1>2, StepFrame DEF IInv, SoloCallIsExact, HasRead, InProgress
<1>8. QED
  BY <1>3, <1>4, <1>5, <1>6, <1>7 DEF IInv

-----------------------------------------------------------------------------
\* IInv is inductive: no call, however it interleaves, crashes or fails, breaks
\* what the calls rely on.
THEOREM NextPreservesIInv == IInv /\ [Next]_vars => IInv'
<1> SUFFICES ASSUME IInv, [Next]_vars PROVE IInv'
  OBVIOUS
<1>1. ASSUME NEW c \in Calls, Step(c) PROVE IInv'
  BY <1>1, AppendEventPreservesIInv, ReadEventsPreservesIInv, OpenGraphPreservesIInv,
     WriteGraphPreservesIInv, OpenReportPreservesIInv, WriteReportPreservesIInv DEF Step
<1>2. ASSUME NEW c \in Calls, Abort(c) PROVE IInv'
  BY <1>2, AbortPreservesIInv
<1>3. ASSUME NEW c \in Calls, NEW e \in Events, Begin(c, e) PROVE IInv'
  BY <1>3, BeginPreservesIInv
<1>4. CASE UNCHANGED vars
  BY <1>4 DEF IInv, TypeOK, SeenIsPast, ReportersSawCompletion, GraphIsReplayOfPrefix,
              ReportOnlyWhenComplete, SoloCallIsExact, HasRead, ActiveOn, RunOf, vars
<1>5. QED
  BY <1>1, <1>2, <1>3, <1>4 DEF Next

\* IInv holds in every reachable state, for any runs, calls and adapter events.
THEOREM InductiveInvariant == Spec => []IInv
<1>1. QED
  BY InitEstablishesIInv, NextPreservesIInv, PTL DEF Spec

\* Every state of every behaviour is well typed.
THEOREM TypeCorrect == Spec => []TypeOK
<1>1. IInv => TypeOK
  BY DEF IInv
<1>2. QED
  BY <1>1, InductiveInvariant, PTL

\* graph.json, when readable, is the replay of a prefix of the log.
THEOREM GraphIsNeverWrong == Spec => []GraphIsReplayOfPrefix
<1>1. IInv => GraphIsReplayOfPrefix
  BY DEF IInv
<1>2. QED
  BY <1>1, InductiveInvariant, PTL

\* No report is ever begun for a run that is not complete.
THEOREM ReportsAreOfCompleteRuns == Spec => []ReportOnlyWhenComplete
<1>1. IInv => ReportOnlyWhenComplete
  BY DEF IInv
<1>2. QED
  BY <1>1, InductiveInvariant, PTL

\* A call that ran alone leaves the files exact, whatever it found there.
THEOREM SoloCallsRepair == Spec => []SoloCallRepairs
<1>1. IInv => SoloCallRepairs
  BY DEF IInv, SoloCallIsExact, SoloCallRepairs
<1>2. QED
  BY <1>1, InductiveInvariant, PTL

\* The log never takes a completion back.
THEOREM CompletionIsFinal == Spec => CompletionSticks
<1> DEFINE Sticks == \A r \in Runs : Complete(log[r]) => Complete(log'[r])
<1>1. IInv /\ [Next]_vars => [Sticks]_vars
  <2> SUFFICES ASSUME IInv, Next, NEW r \in Runs, Complete(log[r])
               PROVE  Complete(log'[r])
    OBVIOUS
  <2>1. CASE log' = log
    BY <2>1
  <2>2. CASE log' # log
    <3>1. PICK c \in Calls : AppendEvent(c)
      BY <2>2 DEF Next, Step, Begin, ReadEvents, OpenGraph, WriteGraph, OpenReport,
                  WriteReport, Abort, files
    <3>2. RunOf(c) \in Runs /\ event[c] \in Events
      BY <3>1, StepFrame DEF Step
    <3>3. log[r] \in Seq(Events) /\ log \in [Runs -> Seq(Events)]
      BY DEF IInv, TypeOK
    <3>4. log'[r] \in {log[r], Append(log[r], event[c])}
      BY <3>1, <3>2, <3>3 DEF AppendEvent
    <3>5. /\ Append(log[r], event[c]) \in Seq(Events)
          /\ Continues(Append(log[r], event[c]), log[r])
      BY <3>2, <3>3, AppendProperties DEF Continues
    <3>6. QED
      BY <3>3, <3>4, <3>5, CompleteContinues, EventsAreAdapterEvents
  <2>3. QED
    BY <2>1, <2>2
<1>2. QED
  BY <1>1, InductiveInvariant, PTL DEF Spec, CompletionSticks
=============================================================================
