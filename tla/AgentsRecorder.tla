--------------------------- MODULE AgentsRecorder ---------------------------
(***************************************************************************)
(* MigakiRecorder (packages/migaki-openai-agents-js/src/recorder.ts): what *)
(* each record and complete call does to the recorder of one run.          *)
(*                                                                         *)
(* A recorder is a record with                                             *)
(*   nodes    the nodes in the order of their creation; a node is known by *)
(*            its place here                                               *)
(*   spans    nodeIdsBySpanId                                              *)
(*   tools    the open tool nodes, oldest first (openToolNodeIdsByCacheKey *)
(*            keeps one such list for each key)                            *)
(*   events   the events recorded so far; an eventId is a place here       *)
(* What a call is told (input, output, metadata, usage, cache key, error)  *)
(* is its report, a value the recorder does not look into, and RunFailure  *)
(* for the error of a failed run.  Of each node the recorder keeps         *)
(*   input     the report its inputHash was computed from                  *)
(*   output    the report of the completion that ended it, if one did      *)
(*   metadata  the reports merged into it; which of two prevails where     *)
(*             they share a key is left out                                *)
(* The edges between nodes are left out.                                   *)
(*                                                                         *)
(* A definition whose comment begins with "Faulty" is a variant with a     *)
(* plausible bug that a property must catch; it is not part of the model.  *)
(***************************************************************************)
EXTENDS Integers, Sequences, FiniteSets, FiniteSetsExt

RunFailure == <<"run.failed">>

NewRecorder == [nodes |-> <<>>, spans |-> [s \in {} |-> 0], tools |-> <<>>, events |-> <<>>]

\* The last node, which is the one a record call has just created.
Newest(rec) == Len(rec.nodes)

\* #appendEvent, without the write to the store; node is 0 in the run's events.
AppendEvent(rec, type, node, status) ==
  [rec EXCEPT !.events = Append(@, [type |-> type, node |-> node, status |-> status])]

-----------------------------------------------------------------------------
(***************************************************************************)
(* Starts.                                                                 *)
(***************************************************************************)

\* #createNode.
NewNode(kind, name, report) ==
  [kind |-> kind, name |-> name, ended |-> FALSE, status |-> "ok",
   input |-> report, output |-> {}, metadata |-> {report}]

\* #createNode and the started event of the new node.
StartNode(rec, kind, name, report) ==
  LET node == NewNode(kind, name, report)
  IN AppendEvent([rec EXCEPT !.nodes = Append(@, node)], "started", Newest(rec) + 1, "none")

BindSpan(rec, span, node) ==
  [rec EXCEPT !.spans = [s \in DOMAIN @ \cup {span} |-> IF s = span THEN node ELSE @[s]]]

\* #mergeNodeMetadata and #replaceNodeInputHash, of a node that has ended as well.
MergeMetadata(rec, node, report) == [rec EXCEPT !.nodes[node].metadata = @ \cup {report}]
ReplaceInput(rec, node, report) == [rec EXCEPT !.nodes[node].input = report]

\* Faulty: the span is bound before its node is there.
BindEarly(rec, kind, name, span, report) ==
  IF span \in DOMAIN rec.spans THEN rec
  ELSE StartNode(BindSpan(rec, span, Newest(rec)), kind, name, report)

\* recordModelCallStarted and recordHandoffStarted, always with a span; also
\* recordAgentStarted with one.
RecordStarted(rec, kind, name, span, report) ==
  IF span \in DOMAIN rec.spans THEN rec
  ELSE LET started == StartNode(rec, kind, name, report)
       IN BindSpan(started, span, Newest(started))

\* recordAgentStarted without a span.
RecordAgentStarted(rec, name, report) == StartNode(rec, "agent_step", name, report)

\* #latestOpenAgentNodeId, or 0.
LatestOpenAgent(rec, name) ==
  LET open == {i \in DOMAIN rec.nodes : /\ rec.nodes[i].kind = "agent_step"
                                        /\ rec.nodes[i].name = name
                                        /\ ~rec.nodes[i].ended}
  IN IF open = {} THEN 0 ELSE Max(open)

\* A span of an agent that a hook has announced already shares its node.
RecordAgentSpanStarted(rec, name, span, report) ==
  LET node == LatestOpenAgent(rec, name)
  IN IF span \notin DOMAIN rec.spans /\ node # 0
     THEN MergeMetadata(BindSpan(rec, span, node), node, report)
     ELSE RecordStarted(rec, "agent_step", name, span, report)

RecordToolCallStarted(rec, key, report) ==
  LET started == StartNode(rec, "tool_call", key, report)
  IN [started EXCEPT !.tools = Append(@, Newest(started))]

-----------------------------------------------------------------------------
(***************************************************************************)
(* Ends.                                                                   *)
(***************************************************************************)

\* A node as #completeNode and the loop of finalizeRunFailed end it.
Ended(node, status, report) ==
  [node EXCEPT !.ended = TRUE, !.status = status, !.output = {report},
               !.metadata = @ \cup {report}]
Failed(node) ==
  [node EXCEPT !.ended = TRUE, !.status = "error", !.metadata = @ \cup {RunFailure}]

\* Faulty: a node that has ended is left alone, but its end is announced again.
AnnounceAgain(rec, node, status, announce, report) ==
  LET closed == IF rec.nodes[node].ended THEN rec
                ELSE [rec EXCEPT !.nodes[node] = Ended(@, status, report)]
  IN IF announce THEN AppendEvent(closed, "completed", node, status) ELSE closed

\* #completeNode; announce says whether the call has an event type.
CompleteNode(rec, node, status, announce, report) ==
  IF rec.nodes[node].ended THEN rec
  ELSE LET closed == [rec EXCEPT !.nodes[node] = Ended(@, status, report)]
       IN IF announce THEN AppendEvent(closed, "completed", node, status) ELSE closed

CompleteAgentByName(rec, name, report) ==
  IF LatestOpenAgent(rec, name) = 0 THEN rec
  ELSE CompleteNode(rec, LatestOpenAgent(rec, name), "ok", FALSE, report)

CompleteSpan(rec, span, status, report) ==
  IF span \notin DOMAIN rec.spans THEN rec
  ELSE CompleteNode(rec, rec.spans[span], status, FALSE, report)

\* A model call that is unknown starts first.  Its metadata and its input hash are
\* written whether or not it has ended already.
CompleteModelCallBySpan(rec, name, span, status, report) ==
  LET started == RecordStarted(rec, "model_call", name, span, report)
      node == started.spans[span]
      told == ReplaceInput(MergeMetadata(started, node, report), node, report)
  IN CompleteNode(told, node, status, TRUE, report)

\* So does a handoff, of which nothing is written once it has ended.
CompleteHandoffBySpan(rec, name, span, status, report) ==
  LET started == RecordStarted(rec, "handoff", name, span, report)
  IN CompleteNode(started, started.spans[span], status, TRUE, report)

\* completeToolCall takes the oldest open call with the same key, which a failure
\* of the run may have ended: its metadata is written all the same.  A call it has
\* to start itself stays in the list.
CompleteToolCall(rec, key, report) ==
  LET places == {i \in DOMAIN rec.tools : rec.nodes[rec.tools[i]].name = key}
      place == Min(places)
      shifted == [rec EXCEPT !.tools = [i \in 1 .. Len(@) - 1 |->
                                          IF i < place THEN @[i] ELSE @[i + 1]]]
      started == RecordToolCallStarted(rec, key, report)
      Told(R, node) == CompleteNode(MergeMetadata(R, node, report), node, "ok", TRUE, report)
  IN IF places = {} THEN Told(started, Newest(started)) ELSE Told(shifted, rec.tools[place])

-----------------------------------------------------------------------------
\* Faulty: only the calls are closed, not the agent steps around them.
FailCalls(rec) ==
  [rec EXCEPT !.nodes = [i \in DOMAIN @ |->
     IF @[i].ended \/ @[i].kind = "agent_step" THEN @[i] ELSE Failed(@[i])]]

\* Faulty: the nodes that have ended fail as well.
FailEveryNode(rec) == [rec EXCEPT !.nodes = [i \in DOMAIN @ |-> Failed(@[i])]]

\* The loop of finalizeRunFailed.
FailOpenNodes(rec) ==
  [rec EXCEPT !.nodes = [i \in DOMAIN @ |-> IF @[i].ended THEN @[i] ELSE Failed(@[i])]]

RecordRunStarted(rec) == AppendEvent(rec, "run.started", 0, "none")
RecordRunCompleted(rec) == AppendEvent(rec, "run.completed", 0, "ok")
RecordRunFailed(rec) == AppendEvent(FailOpenNodes(rec), "run.failed", 0, "error")
=============================================================================
