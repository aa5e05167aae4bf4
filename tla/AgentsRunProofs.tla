--------------------------- MODULE AgentsRunProofs ---------------------------
(***************************************************************************)
(* Proofs about AgentsRun, for any runs, tasks and bounds.                 *)
(*                                                                         *)
(* A recorder by itself keeps an invariant, RecorderInv: it relates every  *)
(* node to the events that tell of it.  Each record and complete call is   *)
(* made of five changes (a node starts, a node is told more, a node ends,  *)
(* the tables change, an event of the run is added), and each keeps it.    *)
(***************************************************************************)
EXTENDS AgentsRun, FiniteSetTheorems, WellFoundedInduction, TLAPS

Kinds == {"agent_step", "tool_call", "model_call", "handoff"}
Names == {t.name : t \in Tasks}
Reports == {Report(t, at) : t \in Tasks, at \in {"start", "ok", "error"}} \cup {RunFailure}
Nodes == [kind : Kinds, name : Names, ended : BOOLEAN, status : {"ok", "error"},
          input : Reports, output : SUBSET Reports, metadata : SUBSET Reports]
Events == {e \in [type : {"started", "completed", "run.started", "run.completed", "run.failed"},
                  node : Nat, status : {"none", "ok", "error"}] :
             e.type \in {"started", "completed"} \/ e.node = 0}
Fields == {"nodes", "spans", "tools", "events"}

\* The event at place i of a recorder R is the start, or an end, of node n; or the
\* failure of the run.
IsStart(R, i, n) == R.events[i].type = "started" /\ R.events[i].node = n
IsEnd(R, i, n) == R.events[i].type = "completed" /\ R.events[i].node = n
IsFailure(R, i) == R.events[i].type = "run.failed"

\* What the events of R say of its node n, which started at s.
IsToldFrom(R, n, s) ==
  /\ IsStart(R, s, n)
  /\ \A i \in DOMAIN R.events : IsStart(R, i, n) => i = s
  /\ \A i \in DOMAIN R.events : IsEnd(R, i, n) =>
       /\ s < i /\ R.nodes[n].ended /\ R.nodes[n].status = R.events[i].status
       /\ \A j \in DOMAIN R.events : IsEnd(R, j, n) => i = j
  /\ \A i \in DOMAIN R.events : IsFailure(R, i) /\ s < i => R.nodes[n].ended
  /\ \/ ~R.nodes[n].ended
     \/ R.nodes[n].kind = "agent_step"
     \/ \E i \in DOMAIN R.events : IsEnd(R, i, n)
     \/ /\ R.nodes[n].status = "error"
        /\ \E i \in DOMAIN R.events : IsFailure(R, i) /\ s < i

RecorderTypeOK(R) ==
  /\ DOMAIN R = Fields
  /\ R.nodes \in Seq(Nodes)
  /\ R.events \in Seq(Events)
  /\ R.tools \in Seq(Nat)
  /\ \A i \in DOMAIN R.events : R.events[i].node \in 0 .. Len(R.nodes)

\* A span is a task's, or the number of a call of a model.
KindOfSpan(s) == IF s \in Tasks THEN s.kind ELSE "model_call"

\* The tables name nodes of the kinds they are for.
TablesOK(R) ==
  /\ \A i \in DOMAIN R.tools : /\ R.tools[i] \in DOMAIN R.nodes
                               /\ R.nodes[R.tools[i]].kind = "tool_call"
  /\ \A s \in DOMAIN R.spans : /\ R.spans[s] \in DOMAIN R.nodes
                               /\ R.nodes[R.spans[s]].kind = KindOfSpan(s)

RecorderInv(R) ==
  /\ RecorderTypeOK(R)
  /\ TablesOK(R)
  /\ \A n \in DOMAIN R.nodes : \E s \in DOMAIN R.events : IsToldFrom(R, n, s)

\* S has all that R has: events, nodes, and how those nodes ended that have.
Continues(R, S) ==
  /\ Len(R.nodes) <= Len(S.nodes)
  /\ \A n \in DOMAIN R.nodes : /\ S.nodes[n].kind = R.nodes[n].kind
                               /\ R.nodes[n].ended => EndLasts(R.nodes[n], S.nodes[n])
  /\ Len(R.events) <= Len(S.events)
  /\ \A i \in DOMAIN R.events : S.events[i] = R.events[i]

\* The events that S has besides are of nodes.
OfNodes(R, S) ==
  \A i \in DOMAIN S.events : i > Len(R.events) => S.events[i].type \in {"started", "completed"}

Advances(R, S) == RecorderInv(S) /\ Continues(R, S) /\ OfNodes(R, S)

-----------------------------------------------------------------------------
\* The places of nodes and events.
LEMMA Places ==
  ASSUME NEW R, RecorderTypeOK(R)
  PROVE  /\ Len(R.nodes) \in Nat /\ DOMAIN R.nodes = 1 .. Len(R.nodes)
         /\ Len(R.events) \in Nat /\ DOMAIN R.events = 1 .. Len(R.events)
BY DEF RecorderTypeOK

\* An end that lasts twice lasts, and one that stays as it is does.
LEMMA EndLastsTwice ==
  ASSUME NEW x, NEW y, NEW z, EndLasts(x, y), EndLasts(y, z)
  PROVE  EndLasts(x, z)
BY DEF EndLasts

LEMMA EndLastsItself ==
  ASSUME NEW x, x.ended
  PROVE  EndLasts(x, x)
BY DEF EndLasts

\* One call may be made of several changes.
LEMMA AdvancesTwice ==
  ASSUME NEW R, NEW S, NEW T, RecorderInv(R), Advances(R, S), Advances(S, T)
  PROVE  Advances(R, T)
<1>1. RecorderTypeOK(R) /\ RecorderTypeOK(S) /\ RecorderTypeOK(T)
  BY DEF Advances, RecorderInv
<1>2. Continues(R, S) /\ Continues(S, T) /\ OfNodes(R, S) /\ OfNodes(S, T)
  BY DEF Advances
<1>3. Continues(R, T)
  <2>1. Len(R.nodes) <= Len(T.nodes) /\ Len(R.events) <= Len(T.events)
    BY <1>1, <1>2, Places DEF Continues
  <2>2. DOMAIN R.nodes \subseteq DOMAIN S.nodes /\ DOMAIN R.events \subseteq DOMAIN S.events
    BY <1>1, <1>2, Places DEF Continues
  <2>3. ASSUME NEW n \in DOMAIN R.nodes
        PROVE  /\ T.nodes[n].kind = R.nodes[n].kind
               /\ R.nodes[n].ended => EndLasts(R.nodes[n], T.nodes[n])
    <3>1. n \in DOMAIN S.nodes
      BY <2>2
    <3>2. /\ S.nodes[n].kind = R.nodes[n].kind /\ T.nodes[n].kind = S.nodes[n].kind
          /\ R.nodes[n].ended => EndLasts(R.nodes[n], S.nodes[n])
          /\ S.nodes[n].ended => EndLasts(S.nodes[n], T.nodes[n])
      BY <1>2, <3>1 DEF Continues
    <3>3. EndLasts(R.nodes[n], S.nodes[n]) => S.nodes[n].ended
      BY DEF EndLasts
    <3>4. QED
      BY <3>2, <3>3, EndLastsTwice
  <2>4. \A i \in DOMAIN R.events : T.events[i] = R.events[i]
    BY <1>2, <2>2 DEF Continues
  <2>5. QED
    BY <2>1, <2>3, <2>4 DEF Continues
<1>4. OfNodes(R, T)
  <2>1. SUFFICES ASSUME NEW i \in DOMAIN T.events, i > Len(R.events)
                 PROVE  T.events[i].type \in {"started", "completed"}
    BY DEF OfNodes
  <2>2. CASE i > Len(S.events)
    BY <1>2, <2>2 DEF OfNodes
  <2>3. CASE i <= Len(S.events)
    <3>1. i \in DOMAIN S.events
      BY <1>1, <2>3, Places
    <3>2. QED
      BY <1>2, <2>1, <3>1 DEF OfNodes, Continues
  <2>4. QED
    BY <1>1, <2>2, <2>3, Places
<1>5. QED
  BY <1>3, <1>4 DEF Advances

\* A call may change nothing.
LEMMA AdvancesNowhere ==
  ASSUME NEW R, RecorderInv(R)
  PROVE  Advances(R, R)
BY EndLastsItself DEF Advances, Continues, OfNodes, RecorderInv, RecorderTypeOK

\* Only the tables change.
LEMMA ChangeOfTables ==
  ASSUME NEW R, NEW S, RecorderInv(R),
         DOMAIN S = Fields, S.nodes = R.nodes, S.events = R.events, S.tools \in Seq(Nat),
         TablesOK(S)
  PROVE  Advances(R, S)
<1>1. RecorderTypeOK(S)
  BY DEF RecorderInv, RecorderTypeOK
<1>2. ASSUME NEW n \in DOMAIN S.nodes PROVE \E s \in DOMAIN S.events : IsToldFrom(S, n, s)
  BY DEF RecorderInv, IsToldFrom, IsStart, IsEnd, IsFailure
<1>3. Continues(R, S) /\ OfNodes(R, S)
  BY EndLastsItself DEF Continues, OfNodes, RecorderInv, RecorderTypeOK
<1>4. QED
  BY <1>1, <1>2, <1>3 DEF Advances, RecorderInv

\* One node is told more: what the events tell of it stays.
LEMMA ChangeOfNode ==
  ASSUME NEW R, NEW S, RecorderInv(R), NEW n \in DOMAIN R.nodes, NEW node \in Nodes,
         DOMAIN S = Fields, S.nodes = [R.nodes EXCEPT ![n] = node],
         S.events = R.events, S.tools = R.tools, S.spans = R.spans,
         node.kind = R.nodes[n].kind, node.ended = R.nodes[n].ended,
         node.status = R.nodes[n].status,
         node.ended => EndLasts(R.nodes[n], node)
  PROVE  /\ Advances(R, S)
         /\ DOMAIN S.nodes = DOMAIN R.nodes
         /\ \A i \in DOMAIN R.nodes : S.nodes[i].kind = R.nodes[i].kind
<1>1. RecorderTypeOK(R) /\ TablesOK(R) /\ R.nodes \in Seq(Nodes)
  BY DEF RecorderInv, RecorderTypeOK
<1>2. /\ S.nodes \in Seq(Nodes) /\ Len(S.nodes) = Len(R.nodes) /\ DOMAIN S.nodes = DOMAIN R.nodes
      /\ \A i \in DOMAIN R.nodes : S.nodes[i] = IF i = n THEN node ELSE R.nodes[i]
  BY <1>1
<1>3. \A i \in DOMAIN R.nodes : /\ S.nodes[i].kind = R.nodes[i].kind
                               /\ S.nodes[i].ended = R.nodes[i].ended
                               /\ S.nodes[i].status = R.nodes[i].status
  BY <1>2
<1>4. RecorderTypeOK(S)
  BY <1>1, <1>2 DEF RecorderTypeOK
<1>5. TablesOK(S)
  BY <1>1, <1>2, <1>3 DEF TablesOK
<1>6. ASSUME NEW m \in DOMAIN S.nodes PROVE \E s \in DOMAIN S.events : IsToldFrom(S, m, s)
  <2>1. PICK s \in DOMAIN R.events : IsToldFrom(R, m, s)
    BY <1>2 DEF RecorderInv
  <2>2. \A i : /\ IsStart(S, i, m) <=> IsStart(R, i, m)
               /\ IsEnd(S, i, m) <=> IsEnd(R, i, m)
               /\ IsFailure(S, i) <=> IsFailure(R, i)
    BY DEF IsStart, IsEnd, IsFailure
  <2>3. IsToldFrom(S, m, s)
    BY <1>2, <1>3, <2>1, <2>2 DEF IsToldFrom
  <2>4. QED
    BY <2>1, <2>3
<1>7. Continues(R, S)
  <2>1. ASSUME NEW m \in DOMAIN R.nodes, R.nodes[m].ended
        PROVE  EndLasts(R.nodes[m], S.nodes[m])
    BY <1>2, <2>1, EndLastsItself
  <2>2. Len(R.nodes) <= Len(S.nodes) /\ Len(R.events) <= Len(S.events)
    BY <1>1, <1>2, Places
  <2>3. QED
    BY <1>3, <2>1, <2>2 DEF Continues
<1>8. OfNodes(R, S)
  BY <1>1, Places DEF OfNodes
<1>9. QED
  BY <1>2, <1>3, <1>4, <1>5, <1>6, <1>7, <1>8 DEF Advances, RecorderInv

\* Metadata may be merged into an open node, or one of a call.
LEMMA MergeAdvances ==
  ASSUME NEW R, RecorderInv(R), NEW n \in DOMAIN R.nodes, NEW told \in Reports,
         R.nodes[n].ended => R.nodes[n].kind \in {"model_call", "tool_call"}
  PROVE  LET S == MergeMetadata(R, n, told)
         IN /\ Advances(R, S)
            /\ DOMAIN S.nodes = DOMAIN R.nodes /\ S.spans = R.spans
            /\ \A i \in DOMAIN R.nodes : S.nodes[i].kind = R.nodes[i].kind
<1> DEFINE S == MergeMetadata(R, n, told)
           node == [R.nodes[n] EXCEPT !.metadata = @ \cup {told}]
<1>1. DOMAIN R = Fields /\ R.nodes \in Seq(Nodes)
  BY DEF RecorderInv, RecorderTypeOK
<1>2. R.nodes[n] \in Nodes
  BY <1>1
<1>3. /\ node \in Nodes /\ node.kind = R.nodes[n].kind /\ node.ended = R.nodes[n].ended
      /\ node.status = R.nodes[n].status /\ node.name = R.nodes[n].name
      /\ node.output = R.nodes[n].output /\ node.input = R.nodes[n].input
      /\ node.metadata = R.nodes[n].metadata \cup {told}
  BY <1>2 DEF Nodes
<1>4. /\ DOMAIN S = Fields /\ S.tools = R.tools /\ S.spans = R.spans /\ S.events = R.events
      /\ S.nodes = [R.nodes EXCEPT ![n] = node]
  BY <1>1 DEF MergeMetadata, Fields
<1> HIDE DEF S, node
<1>5. node.ended => EndLasts(R.nodes[n], node)
  BY <1>3 DEF EndLasts
<1>6. QED
  BY <1>3, <1>4, <1>5, ChangeOfNode DEF S

\* The input of a node of a model call may be replaced.
LEMMA ReplaceAdvances ==
  ASSUME NEW R, RecorderInv(R), NEW n \in DOMAIN R.nodes, NEW told \in Reports,
         R.nodes[n].kind = "model_call"
  PROVE  LET S == ReplaceInput(R, n, told)
         IN /\ Advances(R, S)
            /\ DOMAIN S.nodes = DOMAIN R.nodes /\ S.spans = R.spans
            /\ \A i \in DOMAIN R.nodes : S.nodes[i].kind = R.nodes[i].kind
<1> DEFINE S == ReplaceInput(R, n, told)
           node == [R.nodes[n] EXCEPT !.input = told]
<1>1. DOMAIN R = Fields /\ R.nodes \in Seq(Nodes)
  BY DEF RecorderInv, RecorderTypeOK
<1>2. R.nodes[n] \in Nodes
  BY <1>1
<1>3. /\ node \in Nodes /\ node.kind = R.nodes[n].kind /\ node.ended = R.nodes[n].ended
      /\ node.status = R.nodes[n].status /\ node.name = R.nodes[n].name
      /\ node.output = R.nodes[n].output /\ node.metadata = R.nodes[n].metadata
  BY <1>2 DEF Nodes
<1>4. /\ DOMAIN S = Fields /\ S.tools = R.tools /\ S.spans = R.spans /\ S.events = R.events
      /\ S.nodes = [R.nodes EXCEPT ![n] = node]
  BY <1>1 DEF ReplaceInput, Fields
<1> HIDE DEF S, node
<1>5. node.ended => EndLasts(R.nodes[n], node)
  BY <1>3 DEF EndLasts
<1>6. QED
  BY <1>3, <1>4, <1>5, ChangeOfNode DEF S

-----------------------------------------------------------------------------
\* What a sequence is after one more element.
LEMMA OneMore ==
  ASSUME NEW T, NEW s \in Seq(T), NEW x \in T
  PROVE  /\ Append(s, x) \in Seq(T)
         /\ Len(Append(s, x)) = Len(s) + 1
         /\ DOMAIN Append(s, x) = 1 .. Len(s) + 1
         /\ Append(s, x)[Len(s) + 1] = x
         /\ \A i \in 1 .. Len(s) : Append(s, x)[i] = s[i]
OBVIOUS

\* One more event, which is no failure of the run and of no node that was there.
LEMMA EventOfAnother ==
  ASSUME NEW R, NEW S, RecorderInv(R), RecorderTypeOK(S), NEW e \in Events,
         S.events = Append(R.events, e), e.type # "run.failed",
         NEW n \in DOMAIN R.nodes, S.nodes[n] = R.nodes[n], e.node # n
  PROVE  \E s \in DOMAIN S.events : IsToldFrom(S, n, s)
<1>1. PICK s \in DOMAIN R.events : IsToldFrom(R, n, s)
  BY DEF RecorderInv
<1>2. RecorderTypeOK(R)
  BY DEF RecorderInv
<1>3. /\ Len(R.events) \in Nat /\ DOMAIN R.events = 1 .. Len(R.events)
      /\ DOMAIN S.events = 1 .. Len(R.events) + 1
      /\ S.events[Len(R.events) + 1] = e
      /\ \A i \in 1 .. Len(R.events) : S.events[i] = R.events[i]
  BY <1>2, Places, OneMore DEF RecorderTypeOK
<1>4. \A i \in DOMAIN S.events :
        \/ /\ i \in DOMAIN R.events
           /\ IsStart(S, i, n) <=> IsStart(R, i, n)
           /\ IsEnd(S, i, n) <=> IsEnd(R, i, n)
           /\ IsFailure(S, i) <=> IsFailure(R, i)
           /\ S.events[i] = R.events[i]
        \/ ~IsStart(S, i, n) /\ ~IsEnd(S, i, n) /\ ~IsFailure(S, i)
  BY <1>3 DEF IsStart, IsEnd, IsFailure
<1>5. DOMAIN R.events \subseteq DOMAIN S.events
  BY <1>3
<1>6. \A i \in DOMAIN R.events : /\ IsStart(S, i, n) <=> IsStart(R, i, n)
                                 /\ IsEnd(S, i, n) <=> IsEnd(R, i, n)
                                 /\ IsFailure(S, i) <=> IsFailure(R, i)
  BY <1>3 DEF IsStart, IsEnd, IsFailure
<1>7. IsToldFrom(S, n, s)
  BY <1>1, <1>4, <1>5, <1>6 DEF IsToldFrom
<1>8. QED
  BY <1>5, <1>7

\* A node starts.
LEMMA StartOfNode ==
  ASSUME NEW R, RecorderInv(R), NEW kind \in Kinds, NEW name \in Names,
         NEW told \in Reports
  PROVE  LET S == StartNode(R, kind, name, told)
         IN /\ Advances(R, S)
            /\ S.tools = R.tools /\ S.spans = R.spans
            /\ Len(S.nodes) = Len(R.nodes) + 1
            /\ S.nodes[Len(S.nodes)].kind = kind
<1> DEFINE S == StartNode(R, kind, name, told)
           node == NewNode(kind, name, told)
           e == [type |-> "started", node |-> Len(R.nodes) + 1, status |-> "none"]
<1>1. RecorderTypeOK(R) /\ TablesOK(R)
  BY DEF RecorderInv
<1>2. /\ DOMAIN S = Fields /\ S.tools = R.tools /\ S.spans = R.spans
      /\ S.nodes = Append(R.nodes, node) /\ S.events = Append(R.events, e)
  BY <1>1 DEF StartNode, AppendEvent, Newest, RecorderTypeOK, Fields
<1>3. node \in Nodes /\ e \in Events
  BY <1>1, Places DEF Nodes, NewNode, Events
<1>4. R.nodes \in Seq(Nodes) /\ R.events \in Seq(Events)
  BY <1>1 DEF RecorderTypeOK
<1> HIDE DEF S, node, e
<1>5. /\ S.nodes \in Seq(Nodes) /\ Len(S.nodes) = Len(R.nodes) + 1
      /\ DOMAIN S.nodes = 1 .. Len(R.nodes) + 1 /\ S.nodes[Len(R.nodes) + 1] = node
      /\ \A i \in DOMAIN R.nodes : S.nodes[i] = R.nodes[i]
      /\ S.events \in Seq(Events) /\ Len(S.events) = Len(R.events) + 1
      /\ DOMAIN S.events = 1 .. Len(R.events) + 1 /\ S.events[Len(R.events) + 1] = e
      /\ \A i \in DOMAIN R.events : S.events[i] = R.events[i]
  BY <1>1, <1>2, <1>3, <1>4, Places, OneMore
<1>6. e.type = "started" /\ e.node = Len(R.nodes) + 1 /\ ~node.ended /\ node.kind = kind
  BY DEF e, node, NewNode
<1>7. RecorderTypeOK(S)
  BY <1>1, <1>2, <1>5, <1>6, Places DEF RecorderTypeOK
<1>8. TablesOK(S)
  BY <1>1, <1>2, <1>5, Places DEF TablesOK
<1>9. ASSUME NEW n \in DOMAIN S.nodes PROVE \E s \in DOMAIN S.events : IsToldFrom(S, n, s)
  <2>1. CASE n \in DOMAIN R.nodes
    <3>1. S.nodes[n] = R.nodes[n] /\ e.node # n /\ e.type # "run.failed"
      BY <1>1, <1>5, <1>6, <2>1, Places
    <3>2. QED
      BY <1>2, <1>3, <1>7, <2>1, <3>1, EventOfAnother
  <2>2. CASE n = Len(R.nodes) + 1
    <3>1. \A i \in DOMAIN R.events : ~IsStart(S, i, n) /\ ~IsEnd(S, i, n)
      BY <1>1, <1>5, <2>2, Places DEF IsStart, IsEnd, RecorderTypeOK
    <3>2. IsStart(S, Len(R.events) + 1, n) /\ ~IsEnd(S, Len(R.events) + 1, n)
      BY <1>5, <1>6, <2>2 DEF IsStart, IsEnd
    <3>3. ~\E i \in DOMAIN S.events : i > Len(R.events) + 1
      BY <1>1, <1>5, Places
    <3>4. \A i \in DOMAIN S.events : i \in DOMAIN R.events \/ i = Len(R.events) + 1
      BY <1>1, <1>5, Places
    <3>5. IsToldFrom(S, n, Len(R.events) + 1)
      BY <1>5, <1>6, <2>2, <3>1, <3>2, <3>3, <3>4 DEF IsToldFrom
    <3>6. QED
      BY <1>1, <1>5, <3>5, Places
  <2>3. QED
    BY <1>1, <1>5, <2>1, <2>2, Places
<1>10. Continues(R, S) /\ OfNodes(R, S)
  BY <1>1, <1>5, <1>6, Places, EndLastsItself DEF Continues, OfNodes
<1>11. QED
  BY <1>2, <1>5, <1>6, <1>7, <1>8, <1>9, <1>10 DEF Advances, RecorderInv, S

\* An open node ends.  Its end is announced unless it is an agent's.
LEMMA EndOfNode ==
  ASSUME NEW R, RecorderInv(R), NEW n \in DOMAIN R.nodes, NEW status \in {"ok", "error"},
         NEW announce \in BOOLEAN, announce \/ R.nodes[n].kind = "agent_step",
         NEW told \in Reports
  PROVE  Advances(R, CompleteNode(R, n, status, announce, told))
<1> DEFINE S == CompleteNode(R, n, status, announce, told)
           e == [type |-> "completed", node |-> n, status |-> status]
           nodes == [R.nodes EXCEPT ![n] = Ended(R.nodes[n], status, told)]
<1>1. RecorderTypeOK(R) /\ TablesOK(R)
  BY DEF RecorderInv
<1>2. CASE R.nodes[n].ended
  BY <1>2, AdvancesNowhere DEF CompleteNode
<1>3. CASE ~R.nodes[n].ended
  <2>1. /\ DOMAIN S = Fields /\ S.tools = R.tools /\ S.spans = R.spans
        /\ S.nodes = nodes
        /\ S.events = IF announce THEN Append(R.events, e) ELSE R.events
    BY <1>1, <1>3 DEF CompleteNode, AppendEvent, RecorderTypeOK, Fields
  <2>2. e \in Events
    BY <1>1, Places DEF Events
  <2>3. R.nodes \in Seq(Nodes) /\ R.events \in Seq(Events)
    BY <1>1 DEF RecorderTypeOK
  <2>4. R.nodes[n] \in Nodes
    BY <2>3
  <2>5. /\ nodes \in Seq(Nodes) /\ Len(nodes) = Len(R.nodes) /\ DOMAIN nodes = DOMAIN R.nodes
        /\ \A i \in DOMAIN R.nodes : nodes[i].kind = R.nodes[i].kind
        /\ \A i \in DOMAIN R.nodes : i # n => nodes[i] = R.nodes[i]
        /\ nodes[n].ended /\ nodes[n].status = status
    <3> DEFINE closed == Ended(R.nodes[n], status, told)
    <3>1. /\ closed \in Nodes /\ closed.kind = R.nodes[n].kind
          /\ closed.ended /\ closed.status = status
      BY <2>4 DEF Nodes, Ended
    <3>2. nodes = [R.nodes EXCEPT ![n] = closed]
      OBVIOUS
    <3> HIDE DEF closed, nodes
    <3>3. QED
      BY <2>3, <3>1, <3>2
  <2> HIDE DEF S, e, nodes
  <2>6. ASSUME NEW m \in DOMAIN R.nodes, m # n
        PROVE  \E s \in DOMAIN R.events : IsToldFrom(R, m, s)
    BY DEF RecorderInv
  <2>7. CASE ~announce
    <3>1. S.events = R.events
      BY <2>1, <2>7
    <3>2. RecorderTypeOK(S)
      BY <1>1, <2>1, <2>5, <3>1 DEF RecorderTypeOK
    <3>3. TablesOK(S)
      BY <1>1, <2>1, <2>5 DEF TablesOK
    <3>4. ASSUME NEW m \in DOMAIN S.nodes
          PROVE  \E s \in DOMAIN S.events : IsToldFrom(S, m, s)
      <4>1. PICK s \in DOMAIN R.events : IsToldFrom(R, m, s)
        BY <2>1, <2>5 DEF RecorderInv
      <4>2. \A i : /\ IsStart(S, i, m) <=> IsStart(R, i, m)
                   /\ IsEnd(S, i, m) <=> IsEnd(R, i, m)
                   /\ IsFailure(S, i) <=> IsFailure(R, i)
        BY <3>1 DEF IsStart, IsEnd, IsFailure
      <4>3. CASE m # n
        <5>1. S.nodes[m] = R.nodes[m]
          BY <2>1, <2>5, <4>3
        <5>2. IsToldFrom(S, m, s)
          BY <3>1, <4>1, <4>2, <5>1 DEF IsToldFrom
        <5>3. QED
          BY <3>1, <4>1, <5>2
      <4>4. CASE m = n
        <5>1. S.nodes[n].kind = "agent_step" /\ S.nodes[n].ended
          BY <2>1, <2>5, <2>7
        <5>2. \A i \in DOMAIN R.events : ~IsEnd(R, i, n)
          BY <1>3, <4>1, <4>4 DEF IsToldFrom
        <5>3. IsToldFrom(S, n, s)
          BY <3>1, <4>1, <4>2, <4>4, <5>1, <5>2 DEF IsToldFrom
        <5>4. QED
          BY <3>1, <4>1, <4>4, <5>3
      <4>5. QED
        BY <4>3, <4>4
    <3>5. Continues(R, S) /\ OfNodes(R, S)
      <4>1. \A i \in DOMAIN R.nodes : /\ S.nodes[i].kind = R.nodes[i].kind
                                      /\ R.nodes[i].ended => EndLasts(R.nodes[i], S.nodes[i])
        BY <1>3, <2>1, <2>5, EndLastsItself
      <4>2. Len(R.nodes) <= Len(S.nodes) /\ Len(R.events) <= Len(S.events)
        BY <1>1, <2>1, <2>5, <3>1, Places
      <4>3. \A i \in DOMAIN S.events : ~(i > Len(R.events))
        BY <1>1, <3>1, Places
      <4>4. QED
        BY <3>1, <4>1, <4>2, <4>3 DEF Continues, OfNodes
    <3>6. QED
      BY <3>2, <3>3, <3>4, <3>5 DEF Advances, RecorderInv, S
  <2>8. CASE announce
    <3>1. S.events = Append(R.events, e)
      BY <2>1, <2>8
    <3>2. /\ S.events \in Seq(Events) /\ Len(S.events) = Len(R.events) + 1
          /\ DOMAIN S.events = 1 .. Len(R.events) + 1 /\ S.events[Len(R.events) + 1] = e
          /\ \A i \in DOMAIN R.events : S.events[i] = R.events[i]
      BY <1>1, <2>2, <2>3, <3>1, Places, OneMore
    <3>3. e.type = "completed" /\ e.node = n /\ e.status = status
      BY DEF e
    <3>4. RecorderTypeOK(S)
      BY <1>1, <2>1, <2>5, <3>2, <3>3, Places DEF RecorderTypeOK
    <3>5. TablesOK(S)
      BY <1>1, <2>1, <2>5 DEF TablesOK
    <3>6. ASSUME NEW m \in DOMAIN S.nodes
          PROVE  \E s \in DOMAIN S.events : IsToldFrom(S, m, s)
      <4>1. CASE m # n
        BY <2>1, <2>2, <2>5, <3>1, <3>3, <3>4, <4>1, EventOfAnother
      <4>2. CASE m = n
        <5>1. PICK s \in DOMAIN R.events : IsToldFrom(R, n, s)
          BY DEF RecorderInv
        <5>2. \A i \in DOMAIN R.events : /\ IsStart(S, i, n) <=> IsStart(R, i, n)
                                         /\ IsEnd(S, i, n) <=> IsEnd(R, i, n)
                                         /\ IsFailure(S, i) <=> IsFailure(R, i)
          BY <3>2 DEF IsStart, IsEnd, IsFailure
        <5>3. \A i \in DOMAIN R.events : ~IsEnd(R, i, n)
          BY <1>3, <5>1 DEF IsToldFrom
        <5>4. /\ IsEnd(S, Len(R.events) + 1, n) /\ ~IsStart(S, Len(R.events) + 1, n)
              /\ ~IsFailure(S, Len(R.events) + 1)
              /\ S.events[Len(R.events) + 1].status = status
          BY <3>2, <3>3 DEF IsEnd, IsStart, IsFailure
        <5>5. /\ \A i \in DOMAIN S.events : i \in DOMAIN R.events \/ i = Len(R.events) + 1
              /\ DOMAIN R.events \subseteq DOMAIN S.events
              /\ s < Len(R.events) + 1 /\ Len(R.events) + 1 \in DOMAIN S.events
          BY <1>1, <3>2, Places
        <5>6. IsToldFrom(S, n, s)
          BY <2>1, <2>5, <5>1, <5>2, <5>3, <5>4, <5>5 DEF IsToldFrom
        <5>7. QED
          BY <4>2, <5>5, <5>6
      <4>3. QED
        BY <4>1, <4>2
    <3>7. Continues(R, S) /\ OfNodes(R, S)
      BY <1>1, <1>3, <2>1, <2>5, <3>2, <3>3, Places, EndLastsItself DEF Continues, OfNodes
    <3>8. QED
      BY <3>4, <3>5, <3>6, <3>7 DEF Advances, RecorderInv, S
  <2>9. QED
    BY <2>7, <2>8
<1>4. QED
  BY <1>2, <1>3

\* The run starts or completes: an event of node 0.
LEMMA EventOfRun ==
  ASSUME NEW R, RecorderInv(R), NEW type \in {"run.started", "run.completed"},
         NEW status \in {"none", "ok"}
  PROVE  LET S == AppendEvent(R, type, 0, status)
         IN /\ RecorderInv(S) /\ Continues(R, S)
            /\ S.events = Append(R.events, [type |-> type, node |-> 0, status |-> status])
            /\ S.nodes = R.nodes
<1> DEFINE S == AppendEvent(R, type, 0, status)
           e == [type |-> type, node |-> 0, status |-> status]
<1>1. RecorderTypeOK(R) /\ TablesOK(R)
  BY DEF RecorderInv
<1>2. /\ DOMAIN S = Fields /\ S.tools = R.tools /\ S.spans = R.spans
      /\ S.nodes = R.nodes /\ S.events = Append(R.events, e)
  BY <1>1 DEF AppendEvent, RecorderTypeOK, Fields
<1>3. e \in Events /\ e.type # "run.failed" /\ e.node = 0
  BY DEF Events
<1>4. R.events \in Seq(Events)
  BY <1>1 DEF RecorderTypeOK
<1> HIDE DEF S, e
<1>5. /\ S.events \in Seq(Events) /\ Len(S.events) = Len(R.events) + 1
      /\ DOMAIN S.events = 1 .. Len(R.events) + 1 /\ S.events[Len(R.events) + 1] = e
      /\ \A i \in DOMAIN R.events : S.events[i] = R.events[i]
  BY <1>1, <1>2, <1>3, <1>4, Places, OneMore
<1>6. RecorderTypeOK(S)
  BY <1>1, <1>2, <1>3, <1>5, Places DEF RecorderTypeOK
<1>7. TablesOK(S)
  BY <1>1, <1>2 DEF TablesOK
<1>8. ASSUME NEW n \in DOMAIN S.nodes PROVE \E s \in DOMAIN S.events : IsToldFrom(S, n, s)
  <2>1. n # 0
    BY <1>1, <1>2, Places
  <2>2. QED
    BY <1>2, <1>3, <1>6, <2>1, EventOfAnother
<1>9. Continues(R, S)
  BY <1>1, <1>2, <1>5, Places, EndLastsItself DEF Continues
<1>10. QED
  BY <1>2, <1>6, <1>7, <1>8, <1>9 DEF RecorderInv, S, e

\* The run fails: what is open ends with an error.
LEMMA FailureOfRun ==
  ASSUME NEW R, RecorderInv(R)
  PROVE  LET S == RecordRunFailed(R)
         IN /\ RecorderInv(S) /\ Continues(R, S)
            /\ S.events = Append(R.events, [type |-> "run.failed", node |-> 0, status |-> "error"])
            /\ Len(S.nodes) = Len(R.nodes)
<1> DEFINE S == RecordRunFailed(R)
           e == [type |-> "run.failed", node |-> 0, status |-> "error"]
           Closed(n) == Failed(R.nodes[n])
           nodes == [n \in DOMAIN R.nodes |->
                       IF R.nodes[n].ended THEN R.nodes[n] ELSE Failed(R.nodes[n])]
           end == Len(R.events) + 1
<1>1. RecorderTypeOK(R) /\ TablesOK(R)
  BY DEF RecorderInv
<1>2. /\ DOMAIN S = Fields /\ S.tools = R.tools /\ S.spans = R.spans
      /\ S.nodes = nodes /\ S.events = Append(R.events, e)
  BY <1>1 DEF RecordRunFailed, FailOpenNodes, AppendEvent, RecorderTypeOK, Fields
<1>3. e \in Events /\ e.type = "run.failed" /\ e.node = 0
  BY DEF Events
<1>4. R.nodes \in Seq(Nodes) /\ R.events \in Seq(Events)
  BY <1>1 DEF RecorderTypeOK
<1>5. /\ nodes \in Seq(Nodes) /\ Len(nodes) = Len(R.nodes) /\ DOMAIN nodes = DOMAIN R.nodes
      /\ \A n \in DOMAIN R.nodes :
           /\ nodes[n].ended /\ nodes[n].kind = R.nodes[n].kind
           /\ IF R.nodes[n].ended THEN nodes[n] = R.nodes[n] ELSE nodes[n].status = "error"
  <2>1. ASSUME NEW n \in DOMAIN R.nodes
        PROVE  /\ Closed(n) \in Nodes /\ Closed(n).ended /\ Closed(n).kind = R.nodes[n].kind
               /\ Closed(n).status = "error"
    <3>1. R.nodes[n] \in Nodes
      BY <1>4
    <3>2. RunFailure \in Reports
      BY DEF Reports
    <3>3. QED
      BY <3>1, <3>2 DEF Nodes, Failed
  <2>2. nodes = [n \in DOMAIN R.nodes |-> IF R.nodes[n].ended THEN R.nodes[n] ELSE Closed(n)]
    OBVIOUS
  <2>3. \A n \in DOMAIN R.nodes : R.nodes[n] \in Nodes
    BY <1>4
  <2> HIDE DEF Closed, nodes
  <2>4. \A n \in DOMAIN R.nodes : nodes[n] \in Nodes
    BY <2>1, <2>2, <2>3
  <2>5. DOMAIN nodes = 1 .. Len(R.nodes) /\ Len(R.nodes) \in Nat
    BY <1>1, <2>2, Places
  <2>6. nodes \in Seq(Nodes) /\ Len(nodes) = Len(R.nodes)
    <3>1. nodes \in [1 .. Len(R.nodes) -> Nodes]
      BY <1>1, <2>2, <2>4, <2>5, Places
    <3>2. QED
      BY <2>5, <3>1
  <2>7. QED
    BY <1>1, <2>1, <2>2, <2>5, <2>6, Places
<1> HIDE DEF S, e, nodes
<1>6. /\ S.events \in Seq(Events) /\ Len(S.events) = end
      /\ DOMAIN S.events = 1 .. end /\ S.events[end] = e
      /\ \A i \in DOMAIN R.events : S.events[i] = R.events[i]
  BY <1>1, <1>2, <1>3, <1>4, Places, OneMore
<1>7. RecorderTypeOK(S)
  BY <1>1, <1>2, <1>3, <1>5, <1>6, Places DEF RecorderTypeOK
<1>8. TablesOK(S)
  BY <1>1, <1>2, <1>5 DEF TablesOK
<1>9. ASSUME NEW n \in DOMAIN S.nodes PROVE \E s \in DOMAIN S.events : IsToldFrom(S, n, s)
  <2>1. n \in DOMAIN R.nodes
    BY <1>2, <1>5
  <2>2. PICK s \in DOMAIN R.events : IsToldFrom(R, n, s)
    BY <2>1 DEF RecorderInv
  <2>3. \A i \in DOMAIN R.events : /\ IsStart(S, i, n) <=> IsStart(R, i, n)
                                   /\ IsEnd(S, i, n) <=> IsEnd(R, i, n)
                                   /\ IsFailure(S, i) <=> IsFailure(R, i)
    BY <1>6 DEF IsStart, IsEnd, IsFailure
  <2>4. ~IsEnd(S, end, n) /\ ~IsStart(S, end, n) /\ IsFailure(S, end)
    BY <1>3, <1>6 DEF IsEnd, IsStart, IsFailure
  <2>5. /\ \A i \in DOMAIN S.events : i \in DOMAIN R.events \/ i = end
        /\ DOMAIN R.events \subseteq DOMAIN S.events
        /\ s < end /\ end \in DOMAIN S.events
    BY <1>1, <1>6, Places
  <2>6. /\ S.nodes[n].ended /\ S.nodes[n].kind = R.nodes[n].kind
        /\ IF R.nodes[n].ended THEN S.nodes[n] = R.nodes[n] ELSE S.nodes[n].status = "error"
    BY <1>2, <1>5, <2>1
  <2> HIDE DEF end
  <2>7. CASE R.nodes[n].ended
    <3>1. IsToldFrom(S, n, s)
      BY <1>6, <2>2, <2>3, <2>4, <2>5, <2>6, <2>7 DEF IsToldFrom
    <3>2. QED
      BY <2>5, <3>1
  <2>8. CASE ~R.nodes[n].ended
    <3>1. \A i \in DOMAIN S.events : ~IsEnd(S, i, n)
      BY <2>2, <2>3, <2>4, <2>5, <2>8 DEF IsToldFrom
    <3>2. IsToldFrom(S, n, s)
      BY <1>6, <2>2, <2>3, <2>4, <2>5, <2>6, <2>8, <3>1 DEF IsToldFrom
    <3>3. QED
      BY <2>5, <3>2
  <2>9. QED
    BY <2>7, <2>8
<1>10. Continues(R, S)
  BY <1>1, <1>2, <1>5, <1>6, Places, EndLastsItself DEF Continues
<1>11. QED
  BY <1>2, <1>5, <1>7, <1>8, <1>9, <1>10 DEF RecorderInv, S, e

-----------------------------------------------------------------------------
(***************************************************************************)
(* The calls of a recorder.                                                *)
(***************************************************************************)

\* A nonempty set of places has a greatest and a least element.
LEMMA Extremes ==
  ASSUME NEW n \in Nat, NEW S \in SUBSET (1 .. n), S # {}
  PROVE  Max(S) \in S /\ Min(S) \in S
<1>1. \E least \in S : \A i \in S : least <= i
  <2>1. PICK m \in S : \A i \in S : ~(<<i, m>> \in OpToRel(<, Nat))
    <3>1. S \subseteq Nat
      OBVIOUS
    <3>2. QED
      BY <3>1, NatLessThanWellFounded, WFMin
  <2>2. \A i \in S : i \in Nat
    OBVIOUS
  <2>3. \A i \in S : ~(i < m)
    BY <2>1, <2>2 DEF OpToRel
  <2>4. QED
    BY <2>2, <2>3
<1>2. \E greatest \in S : \A i \in S : greatest >= i
  <2> DEFINE D == {n - i : i \in S}
  <2>1. D \subseteq Nat /\ D # {}
    <3>1. ASSUME NEW i \in S PROVE n - i \in Nat
      OBVIOUS
    <3>2. PICK i \in S : TRUE
      OBVIOUS
    <3>3. n - i \in D
      OBVIOUS
    <3>4. D \subseteq Nat
      BY <3>1
    <3>5. QED
      BY <3>3, <3>4
  <2>2. PICK d \in D : \A e \in D : ~(<<e, d>> \in OpToRel(<, Nat))
    BY <2>1, NatLessThanWellFounded, WFMin
  <2>3. \A e \in D : ~(e < d)
    BY <2>1, <2>2 DEF OpToRel
  <2>4. PICK m \in S : d = n - m
    OBVIOUS
  <2>5. ASSUME NEW i \in S PROVE m >= i
    <3>1. n - i \in D
      OBVIOUS
    <3>2. ~(n - i < n - m)
      BY <2>3, <2>4, <3>1
    <3>3. QED
      BY <3>2
  <2>6. QED
    BY <2>5
<1>3. QED
  BY <1>1, <1>2 DEF Max, Min

\* The latest open node of an agent, if there is one, is an agent's.
LEMMA LatestOpenAgentIsAnAgent ==
  ASSUME NEW R, RecorderInv(R), NEW name, LatestOpenAgent(R, name) # 0
  PROVE  /\ LatestOpenAgent(R, name) \in DOMAIN R.nodes
         /\ R.nodes[LatestOpenAgent(R, name)].kind = "agent_step"
         /\ ~R.nodes[LatestOpenAgent(R, name)].ended
<1> DEFINE open == {i \in DOMAIN R.nodes : /\ R.nodes[i].kind = "agent_step"
                                           /\ R.nodes[i].name = name
                                           /\ ~R.nodes[i].ended}
<1>1. open # {} /\ LatestOpenAgent(R, name) = Max(open)
  BY DEF LatestOpenAgent
<1>2. open \in SUBSET (1 .. Len(R.nodes)) /\ Len(R.nodes) \in Nat
  BY Places DEF RecorderInv
<1>3. Max(open) \in open
  BY <1>1, <1>2, Extremes
<1>4. QED
  BY <1>1, <1>3

\* A span is bound to a node of its kind.
LEMMA BindingOfSpan ==
  ASSUME NEW R, RecorderInv(R), NEW s, NEW n \in DOMAIN R.nodes,
         R.nodes[n].kind = KindOfSpan(s)
  PROVE  LET S == BindSpan(R, s, n)
         IN /\ Advances(R, S)
            /\ s \in DOMAIN S.spans /\ S.nodes = R.nodes
<1> DEFINE S == BindSpan(R, s, n)
<1>1. RecorderTypeOK(R) /\ TablesOK(R)
  BY DEF RecorderInv
<1>2. /\ DOMAIN S = Fields /\ S.tools = R.tools /\ S.nodes = R.nodes /\ S.events = R.events
      /\ S.spans = [t \in DOMAIN R.spans \cup {s} |-> IF t = s THEN n ELSE R.spans[t]]
  BY <1>1 DEF BindSpan, RecorderTypeOK, Fields
<1> HIDE DEF S
<1>3. TablesOK(S)
  BY <1>1, <1>2 DEF TablesOK
<1>4. S.tools \in Seq(Nat)
  BY <1>1, <1>2 DEF RecorderTypeOK
<1>5. QED
  BY <1>2, <1>3, <1>4, ChangeOfTables DEF S

\* A model call, handoff or agent starts with a span.
LEMMA RecordStartedAdvances ==
  ASSUME NEW R, RecorderInv(R), NEW kind \in Kinds, NEW name \in Names, NEW s,
         kind = KindOfSpan(s), NEW told \in Reports
  PROVE  LET S == RecordStarted(R, kind, name, s, told)
         IN Advances(R, S) /\ s \in DOMAIN S.spans
<1>1. CASE s \in DOMAIN R.spans
  BY <1>1, AdvancesNowhere DEF RecordStarted
<1>2. CASE s \notin DOMAIN R.spans
  <2> DEFINE started == StartNode(R, kind, name, told)
             S == BindSpan(started, s, Newest(started))
  <2>1. /\ Advances(R, started) /\ Len(started.nodes) = Len(R.nodes) + 1
        /\ started.nodes[Len(started.nodes)].kind = kind
    BY StartOfNode
  <2>2. RecordStarted(R, kind, name, s, told) = S
    BY <1>2 DEF RecordStarted
  <2> HIDE DEF started
  <2>3. RecorderInv(started)
    BY <2>1 DEF Advances
  <2>4. Newest(started) \in DOMAIN started.nodes
    BY <2>1, <2>3, Places DEF Newest, RecorderInv
  <2>5. Advances(started, S) /\ s \in DOMAIN S.spans
    BY <2>1, <2>3, <2>4, BindingOfSpan DEF Newest
  <2>6. QED
    BY <2>1, <2>2, <2>5, AdvancesTwice
<1>3. QED
  BY <1>1, <1>2

\* The span of an agent starts.
LEMMA RecordAgentSpanStartedAdvances ==
  ASSUME NEW R, RecorderInv(R), NEW name \in Names, NEW s, KindOfSpan(s) = "agent_step",
         NEW told \in Reports
  PROVE  Advances(R, RecordAgentSpanStarted(R, name, s, told))
<1> DEFINE node == LatestOpenAgent(R, name)
           bound == BindSpan(R, s, node)
<1>1. CASE s \notin DOMAIN R.spans /\ node # 0
  <2>1. node \in DOMAIN R.nodes /\ R.nodes[node].kind = "agent_step" /\ ~R.nodes[node].ended
    BY <1>1, LatestOpenAgentIsAnAgent
  <2>2. Advances(R, bound) /\ bound.nodes = R.nodes
    BY <2>1, BindingOfSpan
  <2>3. RecordAgentSpanStarted(R, name, s, told) = MergeMetadata(bound, node, told)
    BY <1>1 DEF RecordAgentSpanStarted
  <2> HIDE DEF node, bound
  <2>4. RecorderInv(bound)
    BY <2>2 DEF Advances
  <2>5. Advances(bound, MergeMetadata(bound, node, told))
    BY <2>1, <2>2, <2>4, MergeAdvances
  <2>6. QED
    BY <2>2, <2>3, <2>5, AdvancesTwice
<1>2. CASE ~(s \notin DOMAIN R.spans /\ node # 0)
  BY <1>2, RecordStartedAdvances DEF RecordAgentSpanStarted, Kinds
<1>3. QED
  BY <1>1, <1>2

\* A tool call starts.
LEMMA RecordToolCallStartedAdvances ==
  ASSUME NEW R, RecorderInv(R), NEW key \in Names, NEW told \in Reports
  PROVE  LET S == RecordToolCallStarted(R, key, told)
         IN /\ Advances(R, S) /\ Newest(S) \in DOMAIN S.nodes
            /\ S.nodes[Newest(S)].kind = "tool_call"
<1> DEFINE started == StartNode(R, "tool_call", key, told)
           S == RecordToolCallStarted(R, key, told)
<1>1. /\ Advances(R, started) /\ Len(started.nodes) = Len(R.nodes) + 1
      /\ started.nodes[Len(started.nodes)].kind = "tool_call"
  BY StartOfNode DEF Kinds
<1>2. S = [started EXCEPT !.tools = Append(@, Newest(started))]
  BY DEF RecordToolCallStarted
<1> HIDE DEF started, S
<1>3. RecorderInv(started) /\ RecorderTypeOK(started) /\ TablesOK(started)
  BY <1>1 DEF Advances, RecorderInv
<1>4. /\ DOMAIN S = Fields /\ S.spans = started.spans /\ S.nodes = started.nodes
      /\ S.events = started.events /\ S.tools = Append(started.tools, Newest(started))
  BY <1>2, <1>3 DEF RecorderTypeOK, Fields
<1>5. /\ Newest(started) \in DOMAIN started.nodes /\ Newest(started) \in Nat
      /\ started.nodes[Newest(started)].kind = "tool_call"
  BY <1>1, <1>3, Places DEF Newest, RecorderInv
<1>6. /\ S.tools \in Seq(Nat)
      /\ \A i \in DOMAIN S.tools : /\ S.tools[i] \in DOMAIN S.nodes
                                   /\ S.nodes[S.tools[i]].kind = "tool_call"
  <2>1. /\ started.tools \in Seq(Nat)
        /\ \A i \in DOMAIN started.tools : /\ started.tools[i] \in DOMAIN started.nodes
                                           /\ started.nodes[started.tools[i]].kind = "tool_call"
    BY <1>3 DEF RecorderTypeOK, TablesOK
  <2>2. QED
    BY <1>4, <1>5, <2>1
<1>7. TablesOK(S)
  BY <1>3, <1>4, <1>6 DEF TablesOK
<1>8. Advances(started, S)
  BY <1>3, <1>4, <1>6, <1>7, ChangeOfTables
<1>9. QED
  BY <1>1, <1>4, <1>5, <1>8, AdvancesTwice DEF Newest, S

\* A model call ends, and starts first if it was unknown; it is told more whether or
\* not it has ended.
LEMMA CompleteModelCallAdvances ==
  ASSUME NEW R, RecorderInv(R), NEW name \in Names, NEW s, KindOfSpan(s) = "model_call",
         NEW status \in {"ok", "error"}, NEW told \in Reports
  PROVE  Advances(R, CompleteModelCallBySpan(R, name, s, status, told))
<1> DEFINE started == RecordStarted(R, "model_call", name, s, told)
           node == started.spans[s]
           merged == MergeMetadata(started, node, told)
           replaced == ReplaceInput(merged, node, told)
           S == CompleteNode(replaced, node, status, TRUE, told)
<1>1. Advances(R, started) /\ s \in DOMAIN started.spans
  BY RecordStartedAdvances DEF Kinds
<1>2. CompleteModelCallBySpan(R, name, s, status, told) = S
  BY DEF CompleteModelCallBySpan
<1> HIDE DEF started
<1>3. /\ RecorderInv(started) /\ node \in DOMAIN started.nodes
      /\ started.nodes[node].kind = "model_call"
  BY <1>1 DEF Advances, RecorderInv, TablesOK
<1> HIDE DEF node
<1>4. /\ Advances(started, merged) /\ node \in DOMAIN merged.nodes
      /\ merged.nodes[node].kind = "model_call"
  BY <1>3, MergeAdvances
<1> HIDE DEF merged
<1>5. RecorderInv(merged)
  BY <1>4 DEF Advances
<1>6. Advances(merged, replaced) /\ node \in DOMAIN replaced.nodes
  BY <1>4, <1>5, ReplaceAdvances
<1> HIDE DEF replaced
<1>7. RecorderInv(replaced)
  BY <1>6 DEF Advances
<1>8. Advances(replaced, S)
  BY <1>6, <1>7, EndOfNode
<1> HIDE DEF S
<1>9. QED
  BY <1>1, <1>2, <1>3, <1>4, <1>5, <1>6, <1>8, AdvancesTwice

\* So does a handoff, which is not told more.
LEMMA CompleteHandoffAdvances ==
  ASSUME NEW R, RecorderInv(R), NEW name \in Names, NEW s, KindOfSpan(s) = "handoff",
         NEW status \in {"ok", "error"}, NEW told \in Reports
  PROVE  Advances(R, CompleteHandoffBySpan(R, name, s, status, told))
<1> DEFINE started == RecordStarted(R, "handoff", name, s, told)
<1>1. Advances(R, started) /\ s \in DOMAIN started.spans
  BY RecordStartedAdvances DEF Kinds
<1>2. CompleteHandoffBySpan(R, name, s, status, told)
        = CompleteNode(started, started.spans[s], status, TRUE, told)
  BY DEF CompleteHandoffBySpan
<1> HIDE DEF started
<1>3. RecorderInv(started) /\ started.spans[s] \in DOMAIN started.nodes
  BY <1>1 DEF Advances, RecorderInv, TablesOK
<1>4. Advances(started, CompleteNode(started, started.spans[s], status, TRUE, told))
  BY <1>3, EndOfNode
<1>5. QED
  BY <1>1, <1>2, <1>4, AdvancesTwice

\* The span of an agent ends.
LEMMA CompleteSpanAdvances ==
  ASSUME NEW R, RecorderInv(R), NEW s \in Tasks, s.kind = "agent_step",
         NEW status \in {"ok", "error"}, NEW told \in Reports
  PROVE  Advances(R, CompleteSpan(R, s, status, told))
<1>1. CASE s \notin DOMAIN R.spans
  BY <1>1, AdvancesNowhere DEF CompleteSpan
<1>2. CASE s \in DOMAIN R.spans
  <2>1. R.spans[s] \in DOMAIN R.nodes /\ R.nodes[R.spans[s]].kind = "agent_step"
    BY <1>2 DEF RecorderInv, TablesOK, KindOfSpan
  <2>2. QED
    BY <1>2, <2>1, EndOfNode DEF CompleteSpan
<1>3. QED
  BY <1>1, <1>2

\* A hook ends an agent.
LEMMA CompleteAgentByNameAdvances ==
  ASSUME NEW R, RecorderInv(R), NEW name, NEW told \in Reports
  PROVE  Advances(R, CompleteAgentByName(R, name, told))
BY AdvancesNowhere, LatestOpenAgentIsAnAgent, EndOfNode DEF CompleteAgentByName

\* A tool call ends: the oldest open one with the key, or a new one.
LEMMA CompleteToolCallAdvances ==
  ASSUME NEW R, RecorderInv(R), NEW key \in Names, NEW told \in Reports
  PROVE  Advances(R, CompleteToolCall(R, key, told))
<1> DEFINE places == {i \in DOMAIN R.tools : R.nodes[R.tools[i]].name = key}
           place == Min(places)
           shifted == [R EXCEPT !.tools = [i \in 1 .. Len(@) - 1 |->
                                             IF i < place THEN @[i] ELSE @[i + 1]]]
           started == RecordToolCallStarted(R, key, told)
           Told(Q, n) == CompleteNode(MergeMetadata(Q, n, told), n, "ok", TRUE, told)
<1>1. RecorderTypeOK(R) /\ TablesOK(R) /\ R.tools \in Seq(Nat)
  BY DEF RecorderInv, RecorderTypeOK
<1>0. ASSUME NEW Q, RecorderInv(Q), NEW n \in DOMAIN Q.nodes, Q.nodes[n].kind = "tool_call"
      PROVE  Advances(Q, Told(Q, n))
  <2> DEFINE merged == MergeMetadata(Q, n, told)
  <2>1. Advances(Q, merged) /\ n \in DOMAIN merged.nodes
    BY <1>0, MergeAdvances
  <2> HIDE DEF merged
  <2>2. RecorderInv(merged)
    BY <2>1 DEF Advances
  <2>3. Advances(merged, CompleteNode(merged, n, "ok", TRUE, told))
    BY <2>1, <2>2, EndOfNode
  <2>4. Advances(Q, CompleteNode(merged, n, "ok", TRUE, told))
    BY <1>0, <2>1, <2>3, AdvancesTwice
  <2>5. QED
    BY <2>4 DEF merged
<1>2. CASE places = {}
  <2>1. CompleteToolCall(R, key, told) = Told(started, Newest(started))
    BY <1>2 DEF CompleteToolCall
  <2>2. /\ Advances(R, started) /\ Newest(started) \in DOMAIN started.nodes
        /\ started.nodes[Newest(started)].kind = "tool_call"
    BY RecordToolCallStartedAdvances
  <2> HIDE DEF started, Told
  <2>3. Advances(started, Told(started, Newest(started)))
    BY <1>0, <2>2 DEF Advances
  <2>4. QED
    BY <2>1, <2>2, <2>3, AdvancesTwice
<1>3. CASE places # {}
  <2>1. CompleteToolCall(R, key, told) = Told(shifted, R.tools[place])
    BY <1>3 DEF CompleteToolCall
  <2> HIDE DEF Told
  <2>0. DOMAIN R.tools = 1 .. Len(R.tools) /\ Len(R.tools) \in Nat
    BY <1>1
  <2>2. places \in SUBSET (1 .. Len(R.tools)) /\ Len(R.tools) \in Nat
    BY <2>0
  <2>3. place \in places
    BY <1>3, <2>2, Extremes
  <2>4. place \in 1 .. Len(R.tools)
    BY <2>2, <2>3
  <2> HIDE DEF places, place
  <2>5. R.tools[place] \in DOMAIN R.nodes /\ R.nodes[R.tools[place]].kind = "tool_call"
    BY <1>1, <2>4, <2>0 DEF TablesOK
  <2> DEFINE tools == [i \in 1 .. Len(R.tools) - 1 |->
                         IF i < place THEN R.tools[i] ELSE R.tools[i + 1]]
  <2>6. /\ DOMAIN shifted = Fields /\ shifted.spans = R.spans /\ shifted.nodes = R.nodes
        /\ shifted.events = R.events /\ shifted.tools = tools
    BY <1>1 DEF RecorderTypeOK, Fields
  <2> HIDE DEF shifted
  <2>7. \A i \in 1 .. Len(R.tools) - 1 :
          tools[i] \in DOMAIN R.nodes /\ tools[i] \in Nat /\ R.nodes[tools[i]].kind = "tool_call"
    <3>1. \A i \in 1 .. Len(R.tools) :
            /\ R.tools[i] \in DOMAIN R.nodes /\ R.tools[i] \in Nat
            /\ R.nodes[R.tools[i]].kind = "tool_call"
      BY <1>1 DEF TablesOK
    <3>2. \A i \in 1 .. Len(R.tools) - 1 : i \in 1 .. Len(R.tools) /\ i + 1 \in 1 .. Len(R.tools)
      BY <2>2
    <3>3. QED
      BY <3>1, <3>2
  <2>8. tools \in Seq(Nat) /\ DOMAIN tools = 1 .. Len(R.tools) - 1
    <3>1. CASE Len(R.tools) = 0
      BY <2>2, <2>4, <3>1
    <3>2. CASE Len(R.tools) # 0
      <4> DEFINE m == Len(R.tools) - 1
      <4>1. m \in Nat
        BY <2>2, <3>2
      <4>2. tools \in [1 .. m -> Nat]
        BY <2>7
      <4> HIDE DEF m, tools
      <4>3. tools \in Seq(Nat) /\ DOMAIN tools = 1 .. m
        BY <4>1, <4>2
      <4>4. QED
        BY <4>3 DEF m
    <3>3. QED
      BY <3>1, <3>2
  <2> HIDE DEF tools
  <2>9. TablesOK(shifted)
    BY <1>1, <2>6, <2>7, <2>8 DEF TablesOK
  <2>10. Advances(R, shifted)
    BY <2>6, <2>8, <2>9, ChangeOfTables
  <2>11. Advances(shifted, Told(shifted, R.tools[place]))
    BY <1>0, <2>5, <2>6, <2>10 DEF Advances
  <2>12. QED
    BY <2>1, <2>10, <2>11, AdvancesTwice
<1>4. QED
  BY <1>2, <1>3

\* A new recorder has nothing to relate.
LEMMA FirstRecorder == RecorderInv(NewRecorder)
BY DEF RecorderInv, RecorderTypeOK, TablesOK, NewRecorder, Fields

\* The number of a call is no task.
LEMMA CallsAreNoTasks ==
  ASSUME NEW n
  PROVE  [call |-> n] \notin Tasks
BY TasksAssumption

\* What a recorder is told of a task is a report.
LEMMA ReportOfTask ==
  ASSUME NEW t \in Tasks, NEW at \in {"start", "ok", "error"}
  PROVE  Report(t, at) \in Reports
BY DEF Reports

\* What a task records when it starts.
LEMMA StartedAdvances ==
  ASSUME NEW r \in Runs, RecorderInv(rec[r]), NEW t \in Tasks
  PROVE  Advances(rec[r], Started(r, t))
<1> DEFINE told == Report(t, "start")
<1>1. t.name \in Names /\ told \in Reports
  BY ReportOfTask DEF Names
<1> HIDE DEF told
<1>2. CASE t.kind = "agent_step" /\ t.via = "hook"
  <2>1. Started(r, t) = StartNode(rec[r], "agent_step", t.name, told)
    BY <1>2 DEF Started, RecordAgentStarted, told
  <2>2. QED
    BY <1>1, <2>1, StartOfNode DEF Kinds
<1>3. CASE t.kind = "agent_step" /\ t.via # "hook"
  <2>1. Started(r, t) = RecordAgentSpanStarted(rec[r], t.name, t, told)
    BY <1>3 DEF Started, told
  <2>2. KindOfSpan(t) = "agent_step"
    BY <1>3 DEF KindOfSpan
  <2>3. QED
    BY <1>1, <2>1, <2>2, RecordAgentSpanStartedAdvances
<1>4. CASE t.kind = "tool_call"
  <2>1. Started(r, t) = RecordToolCallStarted(rec[r], t.name, told)
    BY <1>4 DEF Started, told
  <2>2. QED
    BY <1>1, <2>1, RecordToolCallStartedAdvances
<1>5. CASE t.kind \notin {"agent_step", "tool_call"}
  <2>1. t.kind \in Kinds /\ (t.via = "model" => t.kind = "model_call")
    BY <1>5, TasksAssumption DEF Kinds
  <2>2. Started(r, t) = RecordStarted(rec[r], t.kind, t.name, SpanOf(t), told)
    BY <1>5 DEF Started, told
  <2>3. t.kind = KindOfSpan(SpanOf(t))
    BY <2>1, CallsAreNoTasks DEF SpanOf, KindOfSpan
  <2>4. QED
    BY <1>1, <2>1, <2>2, <2>3, RecordStartedAdvances
<1>6. QED
  BY <1>2, <1>3, <1>4, <1>5

\* The span a task was given is its own, or the number of a call.
SpansOK ==
  /\ DOMAIN span = Tasks
  /\ \A t \in Tasks :
       span[t] = t \/ (t.kind = "model_call" /\ \E n \in Nat : span[t] = [call |-> n])

\* And when it ends.
LEMMA CompletedAdvances ==
  ASSUME SpansOK, NEW r \in Runs, RecorderInv(rec[r]), NEW t \in Tasks,
         NEW status \in {"ok", "error"}
  PROVE  Advances(rec[r], Completed(r, t, status))
<1> DEFINE told == Report(t, status)
<1>1. t.name \in Names /\ told \in Reports
  BY ReportOfTask DEF Names
<1>0. KindOfSpan(span[t]) = t.kind
  BY CallsAreNoTasks DEF SpansOK, KindOfSpan
<1> HIDE DEF told
<1>2. CASE t.kind = "agent_step" /\ t.via = "hook"
  <2>1. Completed(r, t, status) = CompleteAgentByName(rec[r], t.name, told)
    BY <1>2 DEF Completed, told
  <2>2. QED
    BY <1>1, <2>1, CompleteAgentByNameAdvances
<1>3. CASE t.kind = "agent_step" /\ t.via # "hook"
  <2>1. Completed(r, t, status) = CompleteSpan(rec[r], t, status, told)
    BY <1>3 DEF Completed, told
  <2>2. QED
    BY <1>1, <1>3, <2>1, CompleteSpanAdvances
<1>4. CASE t.kind = "tool_call"
  <2>1. Completed(r, t, status) = CompleteToolCall(rec[r], t.name, told)
    BY <1>4 DEF Completed, told
  <2>2. QED
    BY <1>1, <2>1, CompleteToolCallAdvances
<1>5. CASE t.kind = "model_call"
  <2>1. Completed(r, t, status) = CompleteModelCallBySpan(rec[r], t.name, span[t], status, told)
    BY <1>5 DEF Completed, told
  <2>2. QED
    BY <1>0, <1>1, <1>5, <2>1, CompleteModelCallAdvances
<1>6. CASE t.kind = "handoff"
  <2>1. Completed(r, t, status) = CompleteHandoffBySpan(rec[r], t.name, span[t], status, told)
    BY <1>6 DEF Completed, told
  <2>2. QED
    BY <1>0, <1>1, <1>6, <2>1, CompleteHandoffAdvances
<1>7. QED
  BY <1>2, <1>3, <1>4, <1>5, <1>6, TasksAssumption

-----------------------------------------------------------------------------
(***************************************************************************)
(* The invariant of the runs.                                              *)
(***************************************************************************)
RecordersOK ==
  /\ DOMAIN rec = Runs /\ DOMAIN draft = Runs
  /\ pending \in [Runs -> SUBSET Nat] /\ awaited \in [Runs -> Nat]
  /\ \A r \in Runs : /\ RecorderInv(rec[r])
                     /\ pending[r] \subseteq DOMAIN rec[r].events
                     /\ awaited[r] <= Len(rec[r].events)

TablesTypeOK ==
  /\ pc \in [Runs -> {"idle", "running"} \cup Finalizing \cup Settled]
  /\ outcome \in [Runs -> {"ok", "error"}]
  /\ DOMAIN lines = Ids /\ DOMAIN graph = Ids /\ DOMAIN report = Ids
  /\ registry \in [Ids -> Runs \cup {NoRun}]
  /\ trace \in [Runs -> {"new", "open", "ended"}]
  /\ traces \in [Runs -> Runs \cup {NoRun}]
  /\ task \in [Tasks -> {"new", "open", "ended"}]
  /\ calls \in [Wrappers -> Nat]
  /\ troubled \subseteq Runs
  /\ crashed \in BOOLEAN

EndType(r) == IF outcome[r] = "ok" THEN "run.completed" ELSE "run.failed"

\* No event of the end before the end, and then just the one that is awaited.
EndsOnce(r) ==
  /\ pc[r] \in {"idle", "running"} =>
       /\ outcome[r] = "ok" /\ awaited[r] = 0
       /\ \A i \in DOMAIN rec[r].events :
            rec[r].events[i].type \notin {"run.completed", "run.failed"}
  /\ pc[r] \notin {"idle", "running"} =>
       /\ awaited[r] \in DOMAIN rec[r].events
       /\ \A i \in DOMAIN rec[r].events : rec[r].events[i].type = EndType(r) <=> i = awaited[r]
       /\ outcome[r] = "ok" => \A i \in DOMAIN rec[r].events : ~IsFailure(rec[r], i)
  /\ pc[r] = "resolved" => outcome[r] = "ok"
  /\ pc[r] = "rejected" => outcome[r] = "error"

\* The write of an event is under way, or has ended, or has failed.
Written(r) ==
  \A i \in DOMAIN rec[r].events :
    \/ i \in pending[r]
    \/ <<r, i>> \in lines[IdOf[r]]
    \/ r \in troubled /\ outcome[r] = "error"

Recorded(r) == pc[r] = "resolved" \/ (pc[r] = "rejected" /\ r \notin troubled)

\* From Flush on no awaited write is under way, and the draft has the nodes of the
\* events that were awaited.
Flushed(r) ==
  pc[r] \in {"graph", "report"} \/ Recorded(r) =>
    /\ \A i \in pending[r] : i > awaited[r]
    /\ \A i \in 1 .. awaited[r] : rec[r].events[i].node \in 0 .. Len(draft[r])

FilesOK(r) ==
  Alone(r) =>
    /\ pc[r] = "report" => graph[IdOf[r]] = Whole(r)
    /\ Recorded(r) => graph[IdOf[r]] = Whole(r) /\ report[IdOf[r]] = Whole(r)

RunInv(r) == EndsOnce(r) /\ Written(r) /\ Flushed(r) /\ FilesOK(r)

Inv ==
  /\ RecordersOK /\ TablesTypeOK /\ SpansOK
  /\ \A r \in Runs : RunInv(r)

\* A step keeps the types and what the recorders have.
KeepsRecorders ==
  /\ RecordersOK' /\ TablesTypeOK' /\ SpansOK'
  /\ \A r \in Runs : /\ Continues(rec[r], rec'[r])
                     /\ pc'[r] = "idle" => pc[r] = "idle"

\* Run r goes on as before: the step at most adds events of nodes to its recorder.
Undisturbed(r) ==
  /\ UNCHANGED <<pc[r], outcome[r], awaited[r], draft[r]>>
  /\ lines[IdOf[r]] \subseteq lines'[IdOf[r]]
  /\ r \in troubled' <=> r \in troubled
  /\ OfNodes(rec[r], rec'[r])
  /\ pending'[r] = pending[r] \cup (Len(rec[r].events) + 1 .. Len(rec'[r].events))
  /\ Alone(r) => UNCHANGED <<graph[IdOf[r]], report[IdOf[r]]>>

\* What is so of a run stays so when it goes on as before.
LEMMA UndisturbedKeepsRunInv ==
  ASSUME Inv, KeepsRecorders, NEW r \in Runs, Undisturbed(r)
  PROVE  RunInv(r)'
<1>1. /\ Len(rec[r].events) \in Nat /\ DOMAIN rec[r].events = 1 .. Len(rec[r].events)
      /\ Len(rec'[r].events) \in Nat /\ DOMAIN rec'[r].events = 1 .. Len(rec'[r].events)
      /\ Len(rec[r].events) <= Len(rec'[r].events)
      /\ \A i \in DOMAIN rec[r].events : rec'[r].events[i] = rec[r].events[i]
  <2>1. RecorderTypeOK(rec[r]) /\ RecorderTypeOK(rec'[r])
    BY DEF Inv, KeepsRecorders, RecordersOK, RecorderInv
  <2>2. QED
    BY <2>1, Places DEF KeepsRecorders, Continues
<1>2. RunInv(r) /\ awaited[r] \in Nat /\ awaited[r] <= Len(rec[r].events)
  BY DEF Inv, RecordersOK
<1>3. /\ pc'[r] = pc[r] /\ outcome'[r] = outcome[r] /\ awaited'[r] = awaited[r]
      /\ draft'[r] = draft[r] /\ (Recorded(r)' <=> Recorded(r)) /\ EndType(r)' = EndType(r)
  BY DEF Undisturbed, Recorded, EndType
<1>4. \A i \in DOMAIN rec'[r].events :
        \/ i \in DOMAIN rec[r].events /\ rec'[r].events[i] = rec[r].events[i]
        \/ /\ i > Len(rec[r].events) /\ i \in pending'[r]
           /\ rec'[r].events[i].type \in {"started", "completed"}
  BY <1>1 DEF Undisturbed, OfNodes
<1>5. EndsOnce(r)'
  <2>1. EndsOnce(r)
    BY <1>2 DEF RunInv
  <2>2. awaited[r] \in DOMAIN rec[r].events => awaited[r] \in DOMAIN rec'[r].events
    BY <1>1
  <2>3. ASSUME NEW i \in DOMAIN rec'[r].events, i > Len(rec[r].events)
        PROVE  i # awaited[r]
    BY <1>1, <1>2, <2>3
  <2>4. EndType(r) \in {"run.completed", "run.failed"}
    BY DEF EndType
  <2>5. QED
    BY <1>3, <1>4, <2>1, <2>2, <2>3, <2>4 DEF EndsOnce, IsFailure
<1>6. Written(r)'
  BY <1>2, <1>3, <1>4 DEF RunInv, Written, Undisturbed
<1>7. Flushed(r)'
  <2>1. Flushed(r)
    BY <1>2 DEF RunInv
  <2>2. SUFFICES ASSUME pc[r] \in {"graph", "report"} \/ Recorded(r)
                 PROVE  /\ \A i \in pending'[r] : i > awaited[r]
                        /\ \A i \in 1 .. awaited[r] : rec'[r].events[i].node \in 0 .. Len(draft[r])
    BY <1>3 DEF Flushed
  <2>3. \A i \in pending'[r] : i \in pending[r] \/ i \in Len(rec[r].events) + 1 .. Len(rec'[r].events)
    BY DEF Undisturbed
  <2>4. \A i \in Len(rec[r].events) + 1 .. Len(rec'[r].events) : i > awaited[r]
    BY <1>1, <1>2
  <2>5. \A i \in 1 .. awaited[r] : rec'[r].events[i] = rec[r].events[i]
    BY <1>1, <1>2
  <2>6. QED
    BY <2>1, <2>2, <2>3, <2>4, <2>5 DEF Flushed
<1>8. FilesOK(r)'
  <2>1. Alone(r)' => Alone(r)
    BY DEF Alone, KeepsRecorders
  <2>2. Whole(r)' = Whole(r)
    BY <1>3 DEF Whole
  <2>3. QED
    BY <1>2, <1>3, <2>1, <2>2 DEF RunInv, FilesOK, Undisturbed
<1>9. QED
  BY <1>5, <1>6, <1>7, <1>8 DEF RunInv

-----------------------------------------------------------------------------
(***************************************************************************)
(* The steps.                                                              *)
(***************************************************************************)

\* What Record changes.
LEMMA RecordChanges ==
  ASSUME RecordersOK, NEW q \in Runs, NEW new, Record(q, new),
         RecorderInv(new), Continues(rec[q], new)
  PROVE  /\ DOMAIN rec' = Runs /\ pending' \in [Runs -> SUBSET Nat]
         /\ rec'[q] = new
         /\ \A r \in Runs \ {q} : rec'[r] = rec[r]
         /\ \A r \in Runs :
              /\ RecorderInv(rec'[r]) /\ Continues(rec[r], rec'[r])
              /\ pending'[r] = pending[r] \cup (Len(rec[r].events) + 1 .. Len(rec'[r].events))
              /\ pending'[r] \subseteq DOMAIN rec'[r].events
              /\ awaited[r] <= Len(rec'[r].events)
<1>1. /\ DOMAIN rec' = Runs /\ rec'[q] = new
      /\ \A r \in Runs \ {q} : rec'[r] = rec[r]
  BY DEF Record, RecordersOK
<1>2. ASSUME NEW r \in Runs PROVE RecorderInv(rec'[r]) /\ Continues(rec[r], rec'[r])
  <2>1. RecorderInv(rec[r])
    BY DEF RecordersOK
  <2>2. Continues(rec[r], rec[r])
    BY <2>1, AdvancesNowhere DEF Advances
  <2>3. QED
    BY <1>1, <2>1, <2>2
<1>3. ASSUME NEW r \in Runs
      PROVE  /\ Len(rec[r].events) \in Nat /\ DOMAIN rec[r].events = 1 .. Len(rec[r].events)
             /\ Len(rec'[r].events) \in Nat /\ DOMAIN rec'[r].events = 1 .. Len(rec'[r].events)
             /\ Len(rec[r].events) <= Len(rec'[r].events)
             /\ pending[r] \subseteq DOMAIN rec[r].events
             /\ awaited[r] \in Nat /\ awaited[r] <= Len(rec[r].events)
  <2>1. RecorderTypeOK(rec[r]) /\ RecorderTypeOK(rec'[r])
    BY <1>2 DEF RecordersOK, RecorderInv
  <2>2. Len(rec[r].events) <= Len(rec'[r].events)
    BY <1>2 DEF Continues
  <2>3. QED
    BY <2>1, <2>2, Places DEF RecordersOK
<1>4. ASSUME NEW r \in Runs
      PROVE  pending'[r] = pending[r] \cup (Len(rec[r].events) + 1 .. Len(rec'[r].events))
  <2>1. CASE r = q
    BY <1>1, <2>1 DEF Record, RecordersOK
  <2>2. CASE r # q
    <3>1. pending'[r] = pending[r] /\ rec'[r] = rec[r]
      BY <1>1, <2>2 DEF Record, RecordersOK
    <3>2. Len(rec[r].events) + 1 .. Len(rec[r].events) = {}
      BY <1>3
    <3>3. QED
      BY <3>1, <3>2
  <2>3. QED
    BY <2>1, <2>2
<1>5. pending' \in [Runs -> SUBSET Nat]
  <2>1. Len(rec[q].events) + 1 .. Len(new.events) \subseteq Nat
    BY <1>1, <1>3
  <2>2. QED
    BY <2>1 DEF Record, RecordersOK
<1>6. ASSUME NEW r \in Runs
      PROVE  pending'[r] \subseteq DOMAIN rec'[r].events /\ awaited[r] <= Len(rec'[r].events)
  <2> DEFINE m == Len(rec[r].events)
             n == Len(rec'[r].events)
  <2>1. m \in Nat /\ n \in Nat /\ m <= n /\ pending[r] \subseteq 1 .. m
        /\ awaited[r] \in Nat /\ awaited[r] <= m /\ DOMAIN rec'[r].events = 1 .. n
    BY <1>3
  <2>2. pending'[r] = pending[r] \cup (m + 1 .. n)
    BY <1>4
  <2> HIDE DEF m, n
  <2>3. pending'[r] \subseteq 1 .. n /\ awaited[r] <= n
    BY <2>1, <2>2
  <2>4. QED
    BY <2>1, <2>3 DEF n
<1>7. QED
  BY <1>1, <1>2, <1>4, <1>5, <1>6

\* A step that leaves the recorders alone and starts no write.
LEMMA NothingRecorded ==
  ASSUME RecordersOK, UNCHANGED rec
  PROVE  \A r \in Runs :
           /\ Continues(rec[r], rec'[r]) /\ OfNodes(rec[r], rec'[r])
           /\ pending[r] = pending[r] \cup (Len(rec[r].events) + 1 .. Len(rec'[r].events))
<1>1. SUFFICES ASSUME NEW r \in Runs
               PROVE  /\ Continues(rec[r], rec[r]) /\ OfNodes(rec[r], rec[r])
                      /\ Len(rec[r].events) + 1 .. Len(rec[r].events) = {}
  OBVIOUS
<1>2. RecorderInv(rec[r]) /\ Len(rec[r].events) \in Nat
  BY Places DEF RecordersOK, RecorderInv
<1>3. QED
  BY <1>2, AdvancesNowhere DEF Advances

\* The recorder that a task reaches is that of a run.
LEMMA RecorderForIsARun ==
  ASSUME TablesTypeOK, NEW t \in Tasks, RecorderFor(t) # NoRun
  PROVE  RecorderFor(t) \in Runs
BY TasksAssumption DEF RecorderFor, TablesTypeOK, Ids

\* What a task may do to the recorders.
LEMMA TaskRecords ==
  ASSUME Inv, NEW t \in Tasks, NEW new,
         IF RecorderFor(t) = NoRun THEN UNCHANGED <<rec, pending>>
         ELSE Record(RecorderFor(t), new) /\ Advances(rec[RecorderFor(t)], new),
         UNCHANGED <<pc, outcome, awaited, draft, fileVars, registryVars, troubled, crashed>>
  PROVE  /\ RecordersOK'
         /\ \A r \in Runs : Continues(rec[r], rec'[r]) /\ Undisturbed(r)
<1>1. /\ pc' = pc /\ outcome' = outcome /\ awaited' = awaited /\ draft' = draft
      /\ lines' = lines /\ graph' = graph /\ report' = report /\ troubled' = troubled
  BY DEF fileVars
<1>2. RecordersOK
  BY DEF Inv
<1>3. CASE RecorderFor(t) = NoRun
  <2>1. rec' = rec /\ pending' = pending
    BY <1>3
  <2>2. RecordersOK'
    BY <1>1, <1>2, <2>1 DEF RecordersOK
  <2>3. QED
    BY <1>1, <1>2, <2>1, <2>2, NothingRecorded DEF Undisturbed
<1>4. CASE RecorderFor(t) # NoRun
  <2> DEFINE q == RecorderFor(t)
  <2>1. q \in Runs
    BY <1>4, RecorderForIsARun DEF Inv
  <2>2. Record(q, new) /\ Advances(rec[q], new)
    BY <1>4
  <2> HIDE DEF q
  <2>3. RecorderInv(new) /\ Continues(rec[q], new) /\ OfNodes(rec[q], new)
    BY <2>2 DEF Advances
  <2>4. /\ DOMAIN rec' = Runs /\ pending' \in [Runs -> SUBSET Nat]
        /\ rec'[q] = new
        /\ \A r \in Runs \ {q} : rec'[r] = rec[r]
        /\ \A r \in Runs :
             /\ RecorderInv(rec'[r]) /\ Continues(rec[r], rec'[r])
             /\ pending'[r] = pending[r] \cup (Len(rec[r].events) + 1 .. Len(rec'[r].events))
             /\ pending'[r] \subseteq DOMAIN rec'[r].events
             /\ awaited[r] <= Len(rec'[r].events)
    BY <1>2, <2>1, <2>2, <2>3, RecordChanges
  <2>5. RecordersOK'
    BY <1>1, <1>2, <2>4 DEF RecordersOK
  <2>6. ASSUME NEW r \in Runs PROVE OfNodes(rec[r], rec'[r])
    <3>1. CASE r = q
      BY <2>3, <2>4, <3>1
    <3>2. CASE r # q
      <4>1. RecorderInv(rec[r])
        BY <1>2 DEF RecordersOK
      <4>2. QED
        BY <2>4, <3>2, <4>1, AdvancesNowhere DEF Advances
    <3>3. QED
      BY <3>1, <3>2
  <2>7. QED
    BY <1>1, <2>4, <2>5, <2>6 DEF Undisturbed
<1>5. QED
  BY <1>3, <1>4

\* A task starts.
LEMMA TaskStartStep ==
  ASSUME Inv, NEW t \in Tasks, TaskStart(t)
  PROVE  KeepsRecorders /\ \A r \in Runs : Undisturbed(r)
<1>1. UNCHANGED <<pc, outcome, awaited, draft, fileVars, registryVars, troubled, crashed>>
  BY DEF TaskStart
<1>2. RecorderFor(t) # NoRun => Advances(rec[RecorderFor(t)], Started(RecorderFor(t), t))
  <2>1. SUFFICES ASSUME RecorderFor(t) # NoRun
                 PROVE  Advances(rec[RecorderFor(t)], Started(RecorderFor(t), t))
    OBVIOUS
  <2>2. RecorderFor(t) \in Runs
    BY <2>1, RecorderForIsARun DEF Inv
  <2>3. QED
    BY <2>2, StartedAdvances DEF Inv, RecordersOK
<1>3. /\ RecordersOK'
      /\ \A r \in Runs : Continues(rec[r], rec'[r]) /\ Undisturbed(r)
  <2>1. IF RecorderFor(t) = NoRun THEN UNCHANGED <<rec, pending>>
        ELSE Record(RecorderFor(t), Started(RecorderFor(t), t))
    BY DEF TaskStart
  <2>2. QED
    BY <1>1, <1>2, <2>1, TaskRecords
<1>4. TablesTypeOK'
  <2>1. task' \in [Tasks -> {"new", "open", "ended"}]
    BY DEF TaskStart, Inv, TablesTypeOK
  <2>2. calls' \in [Wrappers -> Nat]
    BY DEF TaskStart, Inv, TablesTypeOK
  <2>3. QED
    BY <1>1, <2>1, <2>2 DEF Inv, TablesTypeOK, registryVars, fileVars
<1>5. SpansOK'
  <2>1. DOMAIN span' = Tasks /\ \A u \in Tasks : span'[u] = IF u = t THEN SpanOf(t) ELSE span[u]
    BY DEF TaskStart, Inv, SpansOK
  <2>2. SpanOf(t) = t \/ (t.kind = "model_call" /\ \E n \in Nat : SpanOf(t) = [call |-> n])
    <3>1. t.via = "model" => t.wrapper \in Wrappers
      BY DEF Wrappers
    <3>2. t.via = "model" => calls[t.wrapper] + 1 \in Nat
      BY <3>1 DEF Inv, TablesTypeOK
    <3>3. t.via = "model" => t.kind = "model_call"
      BY TasksAssumption
    <3>4. QED
      BY <3>2, <3>3 DEF SpanOf
  <2>3. QED
    BY <2>1, <2>2 DEF Inv, SpansOK
<1>6. QED
  BY <1>1, <1>3, <1>4, <1>5 DEF KeepsRecorders

\* A task ends.
LEMMA TaskEndStep ==
  ASSUME Inv, NEW t \in Tasks, NEW status \in {"ok", "error"}, TaskEnd(t, status)
  PROVE  KeepsRecorders /\ \A r \in Runs : Undisturbed(r)
<1>1. /\ UNCHANGED <<pc, outcome, awaited, draft, fileVars, registryVars, troubled, crashed>>
      /\ UNCHANGED <<span, calls>>
  BY DEF TaskEnd
<1>2. RecorderFor(t) # NoRun =>
        Advances(rec[RecorderFor(t)], Completed(RecorderFor(t), t, status))
  <2>1. SUFFICES ASSUME RecorderFor(t) # NoRun
                 PROVE  Advances(rec[RecorderFor(t)], Completed(RecorderFor(t), t, status))
    OBVIOUS
  <2>2. RecorderFor(t) \in Runs
    BY <2>1, RecorderForIsARun DEF Inv
  <2>3. QED
    BY <2>2, CompletedAdvances DEF Inv, RecordersOK
<1>3. /\ RecordersOK'
      /\ \A r \in Runs : Continues(rec[r], rec'[r]) /\ Undisturbed(r)
  <2>1. IF RecorderFor(t) = NoRun THEN UNCHANGED <<rec, pending>>
        ELSE Record(RecorderFor(t), Completed(RecorderFor(t), t, status))
    BY DEF TaskEnd
  <2>2. QED
    BY <1>1, <1>2, <2>1, TaskRecords
<1>4. TablesTypeOK'
  <2>1. task' \in [Tasks -> {"new", "open", "ended"}]
    BY DEF TaskEnd, Inv, TablesTypeOK
  <2>2. QED
    BY <1>1, <2>1 DEF Inv, TablesTypeOK, registryVars, fileVars
<1>5. SpansOK'
  BY <1>1 DEF Inv, SpansOK
<1>6. QED
  BY <1>1, <1>3, <1>4, <1>5 DEF KeepsRecorders

-----------------------------------------------------------------------------
\* A step of run q: the others go on as before.
StepOf(q) ==
  /\ KeepsRecorders
  /\ \A r \in Runs \ {q} : Undisturbed(r)
  /\ RunInv(q)'

EndTypeOf(how) == IF how = "ok" THEN "run.completed" ELSE "run.failed"

\* The last event of a finalization.
LEMMA LastEvent ==
  ASSUME NEW R, RecorderInv(R), NEW how \in {"ok", "error"}
  PROVE  LET new == IF how = "ok" THEN RecordRunCompleted(R) ELSE RecordRunFailed(R)
         IN /\ RecorderInv(new) /\ Continues(R, new)
            /\ Len(R.events) \in Nat /\ DOMAIN R.events = 1 .. Len(R.events)
            /\ Len(new.events) = Len(R.events) + 1
            /\ DOMAIN new.events = 1 .. Len(R.events) + 1
            /\ new.events[Len(R.events) + 1].type = EndTypeOf(how)
            /\ \A i \in DOMAIN R.events : new.events[i] = R.events[i]
<1> DEFINE new == IF how = "ok" THEN RecordRunCompleted(R) ELSE RecordRunFailed(R)
           status == IF how = "ok" THEN "ok" ELSE "error"
           e == [type |-> EndTypeOf(how), node |-> 0, status |-> status]
<1>1. /\ RecorderInv(new) /\ Continues(R, new)
      /\ new.events = Append(R.events, e)
  <2>1. CASE how = "ok"
    BY <2>1, EventOfRun DEF RecordRunCompleted, EndTypeOf
  <2>2. CASE how # "ok"
    BY <2>2, FailureOfRun DEF EndTypeOf
  <2>3. QED
    BY <2>1, <2>2
<1>2. e \in Events /\ e.type = EndTypeOf(how)
  BY DEF Events, EndTypeOf
<1> HIDE DEF e, new
<1>3. R.events \in Seq(Events) /\ Len(R.events) \in Nat /\ DOMAIN R.events = 1 .. Len(R.events)
  BY DEF RecorderInv, RecorderTypeOK
<1>4. QED
  BY <1>1, <1>2, <1>3, OneMore DEF new

\* After the last event its write is awaited, and no other event says the same.
LEMMA LastEventEndsOnce ==
  ASSUME NEW r \in Runs, NEW how \in {"ok", "error"}, RecorderInv(rec[r]),
         rec'[r] = IF how = "ok" THEN RecordRunCompleted(rec[r]) ELSE RecordRunFailed(rec[r]),
         awaited'[r] = Len(rec'[r].events), outcome'[r] = how,
         pc'[r] = "flush" \/ (pc'[r] = "rejected" /\ how = "error"),
         \A i \in DOMAIN rec[r].events :
           /\ rec[r].events[i].type # EndTypeOf(how)
           /\ how = "ok" => ~IsFailure(rec[r], i)
  PROVE  EndsOnce(r)'
<1> DEFINE last == Len(rec[r].events) + 1
<1>1. /\ Len(rec[r].events) \in Nat /\ DOMAIN rec[r].events = 1 .. Len(rec[r].events)
      /\ Len(rec'[r].events) = last
      /\ DOMAIN rec'[r].events = 1 .. last
      /\ rec'[r].events[last].type = EndTypeOf(how)
      /\ \A i \in DOMAIN rec[r].events : rec'[r].events[i] = rec[r].events[i]
  BY LastEvent
<1>2. /\ \A i \in DOMAIN rec'[r].events : i \in DOMAIN rec[r].events \/ i = last
      /\ last \notin DOMAIN rec[r].events /\ last \in DOMAIN rec'[r].events
  <2> DEFINE old == DOMAIN rec[r].events
             new == DOMAIN rec'[r].events
             m == Len(rec[r].events)
  <2>1. m \in Nat /\ old = 1 .. m /\ new = 1 .. m + 1
    BY <1>1
  <2> HIDE DEF old, new, m
  <2>2. (\A i \in new : i \in old \/ i = m + 1) /\ m + 1 \notin old /\ m + 1 \in new
    BY <2>1
  <2>3. QED
    BY <2>2 DEF old, new, m
<1>3. EndType(r)' = EndTypeOf(how)
  BY DEF EndType, EndTypeOf
<1> HIDE DEF last
<1>4. \A i \in DOMAIN rec'[r].events : rec'[r].events[i].type = EndTypeOf(how) <=> i = last
  BY <1>1, <1>2
<1>5. how = "ok" => \A i \in DOMAIN rec'[r].events : ~IsFailure(rec'[r], i)
  BY <1>1, <1>2 DEF IsFailure, EndTypeOf
<1>6. QED
  BY <1>1, <1>2, <1>3, <1>4, <1>5 DEF EndsOnce

\* The tables after the finally block.
LEMMA SettleTypes ==
  ASSUME TablesTypeOK, NEW q \in Runs, NEW how \in Settled, Settle(q, how)
  PROVE  /\ pc' \in [Runs -> {"idle", "running"} \cup Finalizing \cup Settled]
         /\ registry' \in [Ids -> Runs \cup {NoRun}]
         /\ traces' \in [Runs -> Runs \cup {NoRun}]
         /\ trace' = trace
         /\ pc'[q] = how /\ \A r \in Runs \ {q} : pc'[r] = pc[r]
BY DEF TablesTypeOK, Settle, Settled

\* A run starts.
LEMMA StartRunStep ==
  ASSUME Inv, NEW q \in Runs, StartRun(q)
  PROVE  StepOf(q)
<1>1. /\ UNCHANGED <<outcome, awaited, draft, lines, graph, report, trace, traces, task, span,
                      calls, troubled, crashed>>
      /\ pc[q] = "idle" /\ pc' = [pc EXCEPT ![q] = "running"]
      /\ registry' = [registry EXCEPT ![IdOf[q]] = q]
      /\ Record(q, RecordRunStarted(rec[q]))
  BY DEF StartRun, fileVars, taskVars
<1>2. RecordersOK /\ TablesTypeOK /\ SpansOK /\ RunInv(q) /\ RecorderInv(rec[q])
  BY DEF Inv, RecordersOK
<1> DEFINE new == RecordRunStarted(rec[q])
           e == [type |-> "run.started", node |-> 0, status |-> "none"]
<1>3. RecorderInv(new) /\ Continues(rec[q], new) /\ new.events = Append(rec[q].events, e)
  BY <1>2, EventOfRun DEF RecordRunStarted
<1>4. e \in Events /\ e.type = "run.started"
  BY DEF Events
<1> HIDE DEF new, e
<1>5. /\ DOMAIN rec' = Runs /\ pending' \in [Runs -> SUBSET Nat]
      /\ rec'[q] = new
      /\ \A r \in Runs \ {q} : rec'[r] = rec[r]
      /\ \A r \in Runs :
           /\ RecorderInv(rec'[r]) /\ Continues(rec[r], rec'[r])
           /\ pending'[r] = pending[r] \cup (Len(rec[r].events) + 1 .. Len(rec'[r].events))
           /\ pending'[r] \subseteq DOMAIN rec'[r].events
           /\ awaited[r] <= Len(rec'[r].events)
  BY <1>1, <1>2, <1>3, RecordChanges DEF new
<1>6. KeepsRecorders
  <2>1. RecordersOK'
    BY <1>1, <1>2, <1>5 DEF RecordersOK
  <2>2. TablesTypeOK' /\ SpansOK'
    BY <1>1, <1>2 DEF TablesTypeOK, SpansOK
  <2>3. QED
    BY <1>1, <1>2, <1>5, <2>1, <2>2 DEF KeepsRecorders, TablesTypeOK
<1>7. ASSUME NEW r \in Runs \ {q} PROVE Undisturbed(r)
  <2>1. pc'[r] = pc[r]
    BY <1>1, <1>2 DEF TablesTypeOK
  <2>2. OfNodes(rec[r], rec'[r])
    BY <1>2, <1>5, AdvancesNowhere DEF RecordersOK, Advances
  <2>3. QED
    BY <1>1, <1>5, <2>1, <2>2 DEF Undisturbed
<1>8. RunInv(q)'
  <2>1. /\ Len(rec[q].events) \in Nat /\ DOMAIN rec[q].events = 1 .. Len(rec[q].events)
        /\ Len(new.events) = Len(rec[q].events) + 1
        /\ DOMAIN new.events = 1 .. Len(rec[q].events) + 1
        /\ new.events[Len(rec[q].events) + 1] = e
        /\ \A i \in DOMAIN rec[q].events : new.events[i] = rec[q].events[i]
    <3>1. rec[q].events \in Seq(Events) /\ Len(rec[q].events) \in Nat
          /\ DOMAIN rec[q].events = 1 .. Len(rec[q].events)
      BY <1>2 DEF RecorderInv, RecorderTypeOK
    <3>2. QED
      BY <1>3, <1>4, <3>1, OneMore
  <2>2. \A i \in DOMAIN new.events : i \in DOMAIN rec[q].events \/ i = Len(rec[q].events) + 1
    BY <2>1
  <2>3. pc'[q] = "running" /\ awaited'[q] = awaited[q] /\ outcome'[q] = outcome[q]
    BY <1>1, <1>2 DEF TablesTypeOK
  <2>4. EndsOnce(q)'
    BY <1>1, <1>2, <1>4, <1>5, <2>1, <2>2, <2>3 DEF RunInv, EndsOnce
  <2>5. Written(q)'
    BY <1>1, <1>2, <1>5, <2>1, <2>2 DEF RunInv, Written
  <2>6. Flushed(q)' /\ FilesOK(q)'
    BY <2>3 DEF Flushed, FilesOK, Recorded
  <2>7. QED
    BY <2>4, <2>5, <2>6 DEF RunInv
<1>9. QED
  BY <1>6, <1>7, <1>8 DEF StepOf

\* A trace starts or ends.
LEMMA TraceStep ==
  ASSUME Inv, NEW q \in Runs, TraceStart(q) \/ TraceEnd(q)
  PROVE  KeepsRecorders /\ \A r \in Runs : Undisturbed(r)
<1>1. /\ UNCHANGED <<pc, outcome, rec, pending, awaited, draft, lines, graph, report, registry,
                     task, span, calls, troubled, crashed>>
      /\ trace' \in [Runs -> {"new", "open", "ended"}]
      /\ traces' \in [Runs -> Runs \cup {NoRun}]
  <2>1. registry[IdOf[q]] \in Runs \cup {NoRun}
    BY DEF Inv, TablesTypeOK, Ids
  <2>2. QED
    BY <2>1 DEF TraceStart, TraceEnd, Inv, TablesTypeOK, runVars, fileVars, taskVars
<1>2. RecordersOK /\ TablesTypeOK /\ SpansOK
  BY DEF Inv
<1>3. RecordersOK' /\ TablesTypeOK' /\ SpansOK'
  BY <1>1, <1>2 DEF RecordersOK, TablesTypeOK, SpansOK
<1>4. QED
  BY <1>1, <1>2, <1>3, NothingRecorded DEF KeepsRecorders, Undisturbed

\* A finalization begins.
LEMMA FinalizeStep ==
  ASSUME Inv, NEW q \in Runs, NEW how \in {"ok", "error"}, Finalize(q, how),
         pc[q] # "idle", pc' = [pc EXCEPT ![q] = "flush"], outcome[q] = "ok",
         \A i \in DOMAIN rec[q].events :
           /\ rec[q].events[i].type # EndTypeOf(how)
           /\ how = "ok" => ~IsFailure(rec[q], i),
         UNCHANGED <<draft, lines, graph, report, registry, trace, traces, task, span, calls,
                     crashed>>,
         troubled' = troubled \/ (troubled' = troubled \cup {q} /\ how = "error")
  PROVE  StepOf(q)
<1> DEFINE new == IF how = "ok" THEN RecordRunCompleted(rec[q]) ELSE RecordRunFailed(rec[q])
<1>1. RecordersOK /\ TablesTypeOK /\ SpansOK /\ RunInv(q) /\ RecorderInv(rec[q])
  BY DEF Inv, RecordersOK
<1>2. /\ Record(q, new)
      /\ awaited' = [awaited EXCEPT ![q] = Len(new.events)]
      /\ outcome' = [outcome EXCEPT ![q] = how]
  BY DEF Finalize
<1>3. RecorderInv(new) /\ Continues(rec[q], new) /\ Len(new.events) \in Nat
  <2>1. RecorderInv(new) /\ Continues(rec[q], new)
    BY <1>1, LastEvent
  <2> HIDE DEF new
  <2>2. QED
    BY <2>1, Places DEF RecorderInv
<1>4. \A i \in DOMAIN new.events : i \in DOMAIN rec[q].events \/ i = Len(new.events)
  <2>1. /\ Len(rec[q].events) \in Nat /\ DOMAIN rec[q].events = 1 .. Len(rec[q].events)
        /\ Len(new.events) = Len(rec[q].events) + 1
        /\ DOMAIN new.events = 1 .. Len(rec[q].events) + 1
    BY <1>1, LastEvent
  <2> HIDE DEF new
  <2>2. QED
    BY <2>1
<1>5. rec'[q] = new => rec'[q] = IF how = "ok" THEN RecordRunCompleted(rec[q])
                                 ELSE RecordRunFailed(rec[q])
  OBVIOUS
<1> HIDE DEF new
<1>6. /\ DOMAIN rec' = Runs /\ pending' \in [Runs -> SUBSET Nat]
      /\ rec'[q] = new
      /\ \A r \in Runs \ {q} : rec'[r] = rec[r]
      /\ \A r \in Runs :
           /\ RecorderInv(rec'[r]) /\ Continues(rec[r], rec'[r])
           /\ pending'[r] = pending[r] \cup (Len(rec[r].events) + 1 .. Len(rec'[r].events))
           /\ pending'[r] \subseteq DOMAIN rec'[r].events
           /\ awaited[r] <= Len(rec'[r].events)
  BY <1>1, <1>2, <1>3, RecordChanges
<1>7. /\ awaited' \in [Runs -> Nat] /\ awaited'[q] = Len(rec'[q].events)
      /\ outcome' \in [Runs -> {"ok", "error"}] /\ outcome'[q] = how
      /\ pc' \in [Runs -> {"idle", "running"} \cup Finalizing \cup Settled] /\ pc'[q] = "flush"
      /\ \A r \in Runs \ {q} :
           awaited'[r] = awaited[r] /\ outcome'[r] = outcome[r] /\ pc'[r] = pc[r]
  BY <1>1, <1>2, <1>3, <1>6 DEF RecordersOK, TablesTypeOK, Finalizing
<1>8. KeepsRecorders
  <2>1. RecordersOK'
    <3>1. ASSUME NEW r \in Runs PROVE awaited'[r] <= Len(rec'[r].events)
      BY <1>3, <1>6, <1>7
    <3>2. QED
      BY <1>1, <1>6, <1>7, <3>1 DEF RecordersOK
  <2>2. TablesTypeOK' /\ SpansOK'
    BY <1>1, <1>7 DEF TablesTypeOK, SpansOK
  <2>3. QED
    BY <1>6, <1>7, <2>1, <2>2 DEF KeepsRecorders
<1>9. ASSUME NEW r \in Runs \ {q} PROVE Undisturbed(r)
  <2>1. OfNodes(rec[r], rec'[r])
    BY <1>1, <1>6, AdvancesNowhere DEF RecordersOK, Advances
  <2>2. QED
    BY <1>6, <1>7, <2>1 DEF Undisturbed
<1>10. RunInv(q)'
  <2>1. EndsOnce(q)'
    BY <1>1, <1>5, <1>6, <1>7, LastEventEndsOnce
  <2>2. Written(q)'
    <3>1. CASE how = "error" /\ troubled' = troubled \cup {q}
      BY <1>7, <3>1 DEF Written
    <3>2. CASE troubled' = troubled
      <4>1. ASSUME NEW i \in DOMAIN rec[q].events
            PROVE  i \in pending'[q] \/ <<q, i>> \in lines'[IdOf[q]]
        BY <1>1, <1>6 DEF RunInv, Written
      <4>2. Len(new.events) \in pending'[q]
        <5>1. /\ Len(rec[q].events) \in Nat /\ Len(rec'[q].events) = Len(rec[q].events) + 1
          BY <1>1, <1>6, <1>5, LastEvent
        <5>2. QED
          BY <1>6, <5>1
      <4>3. QED
        BY <1>4, <1>6, <4>1, <4>2 DEF Written
    <3>3. QED
      BY <3>1, <3>2
  <2>3. Flushed(q)' /\ FilesOK(q)'
    BY <1>7 DEF Flushed, FilesOK, Recorded
  <2>4. QED
    BY <2>1, <2>2, <2>3 DEF RunInv
<1>11. QED
  BY <1>8, <1>9, <1>10 DEF StepOf

\* The SDK is done with a run.
LEMMA RunEndsStep ==
  ASSUME Inv, NEW q \in Runs, NEW how \in {"ok", "error"}, RunEnds(q, how)
  PROVE  StepOf(q)
<1>1. /\ pc[q] = "running" /\ pc' = [pc EXCEPT ![q] = "flush"] /\ Finalize(q, how)
      /\ UNCHANGED <<draft, lines, graph, report, registry, trace, traces, task, span, calls,
                     troubled, crashed>>
  BY DEF RunEnds, fileVars, registryVars, taskVars
<1>2. EndsOnce(q)
  BY DEF Inv, RunInv
<1>3. /\ outcome[q] = "ok"
      /\ \A i \in DOMAIN rec[q].events :
           rec[q].events[i].type # EndTypeOf(how) /\ ~IsFailure(rec[q], i)
  BY <1>1, <1>2 DEF EndsOnce, EndTypeOf, IsFailure
<1>4. QED
  BY <1>1, <1>3, FinalizeStep

\* A step of run q that records nothing.
LEMMA QuietStep ==
  ASSUME Inv, NEW q \in Runs,
         UNCHANGED <<rec, awaited, outcome, task, span, calls>>,
         DOMAIN draft' = Runs, \A r \in Runs \ {q} : draft'[r] = draft[r],
         \E places \in SUBSET Nat : pending' = [pending EXCEPT ![q] = @ \ places],
         pc' \in [Runs -> {"idle", "running"} \cup Finalizing \cup Settled],
         pc'[q] # "idle" \/ pc' = pc, \A r \in Runs \ {q} : pc'[r] = pc[r],
         DOMAIN lines' = Ids, DOMAIN graph' = Ids, DOMAIN report' = Ids,
         \A r \in Runs \ {q} :
           /\ lines[IdOf[r]] \subseteq lines'[IdOf[r]]
           /\ Alone(r) => UNCHANGED <<graph[IdOf[r]], report[IdOf[r]]>>,
         registry' \in [Ids -> Runs \cup {NoRun}], trace' = trace,
         traces' \in [Runs -> Runs \cup {NoRun}],
         troubled' \in {troubled, troubled \cup {q}}, crashed' \in BOOLEAN
  PROVE  KeepsRecorders /\ \A r \in Runs \ {q} : Undisturbed(r)
<1>1. RecordersOK /\ TablesTypeOK /\ SpansOK
  BY DEF Inv
<1>2. /\ pending' \in [Runs -> SUBSET Nat] /\ pending'[q] \subseteq pending[q]
      /\ \A r \in Runs \ {q} : pending'[r] = pending[r]
  BY <1>1 DEF RecordersOK
<1>3. KeepsRecorders
  <2>1. RecordersOK'
    BY <1>1, <1>2 DEF RecordersOK
  <2>2. TablesTypeOK' /\ SpansOK'
    BY <1>1 DEF TablesTypeOK, SpansOK
  <2>3. QED
    BY <1>1, <2>1, <2>2, NothingRecorded DEF KeepsRecorders
<1>4. ASSUME NEW r \in Runs \ {q} PROVE Undisturbed(r)
  BY <1>1, <1>2, NothingRecorded DEF Undisturbed
<1>5. QED
  BY <1>3, <1>4

\* The write of an event ends.
LEMMA AppendEndsStep ==
  ASSUME Inv, NEW q \in Runs, NEW i, AppendEnds(q, i)
  PROVE  StepOf(q)
<1>1. /\ i \in pending[q]
      /\ lines' = [lines EXCEPT ![IdOf[q]] = @ \cup {<<q, i>>}]
      /\ pending' = [pending EXCEPT ![q] = @ \ {i}]
      /\ UNCHANGED <<pc, outcome, rec, awaited, draft, graph, report, registry, trace, traces,
                     task, span, calls, troubled, crashed>>
  BY DEF AppendEnds, registryVars, taskVars
<1>2. RecordersOK /\ TablesTypeOK /\ RunInv(q) /\ IdOf[q] \in Ids
  BY DEF Inv, Ids
<1>3. /\ DOMAIN lines' = Ids
      /\ \A id \in Ids : lines[id] \subseteq lines'[id]
      /\ <<q, i>> \in lines'[IdOf[q]]
      /\ pending'[q] = pending[q] \ {i}
  BY <1>1, <1>2 DEF TablesTypeOK, RecordersOK
<1>4. KeepsRecorders /\ \A r \in Runs \ {q} : Undisturbed(r)
  <2>1. {i} \in SUBSET Nat
    BY <1>1, <1>2 DEF RecordersOK
  <2>2. \A r \in Runs : lines[IdOf[r]] \subseteq lines'[IdOf[r]]
    BY <1>3 DEF Ids
  <2>3. QED
    BY <1>1, <1>2, <1>3, <2>1, <2>2, QuietStep DEF TablesTypeOK, RecordersOK
<1>5. RunInv(q)'
  <2>1. EndsOnce(q)'
    BY <1>1, <1>2 DEF RunInv, EndsOnce, EndType
  <2>2. Written(q)'
    BY <1>1, <1>2, <1>3 DEF RunInv, Written
  <2>3. Flushed(q)'
    BY <1>1, <1>2, <1>3 DEF RunInv, Flushed, Recorded
  <2>4. FilesOK(q)'
    BY <1>1, <1>2 DEF RunInv, FilesOK, Alone, Whole, Recorded
  <2>5. QED
    BY <2>1, <2>2, <2>3, <2>4 DEF RunInv
<1>6. QED
  BY <1>4, <1>5 DEF StepOf

\* The write of an event fails that nobody awaits.
LEMMA AppendCrashesStep ==
  ASSUME Inv, NEW q \in Runs, NEW i, AppendCrashes(q, i)
  PROVE  StepOf(q)
<1>1. /\ i \in pending[q] /\ i > awaited[q]
      /\ crashed' = TRUE /\ troubled' = troubled \cup {q}
      /\ UNCHANGED <<pc, outcome, rec, pending, awaited, draft, lines, graph, report, registry,
                     trace, traces, task, span, calls>>
  BY DEF AppendCrashes, runVars, fileVars, registryVars, taskVars
<1>2. RecordersOK /\ TablesTypeOK /\ RunInv(q)
  BY DEF Inv
<1>3. KeepsRecorders /\ \A r \in Runs \ {q} : Undisturbed(r)
  <2>1. {} \in SUBSET Nat /\ pending' = [pending EXCEPT ![q] = @ \ {}]
    BY <1>1, <1>2 DEF RecordersOK
  <2>2. QED
    BY <1>1, <1>2, <2>1, QuietStep DEF TablesTypeOK, RecordersOK
<1>4. RunInv(q)'
  <2>1. EndsOnce(q)'
    BY <1>1, <1>2 DEF RunInv, EndsOnce, EndType
  <2>2. Written(q)'
    BY <1>1, <1>2 DEF RunInv, Written
  <2>3. Flushed(q)'
    BY <1>1, <1>2 DEF RunInv, Flushed, Recorded
  <2>4. FilesOK(q)'
    BY <1>1, <1>2 DEF RunInv, FilesOK, Alone, Whole, Recorded
  <2>5. QED
    BY <2>1, <2>2, <2>3, <2>4 DEF RunInv
<1>5. QED
  BY <1>3, <1>4 DEF StepOf

\* All awaited writes have ended.
LEMMA FlushStep ==
  ASSUME Inv, NEW q \in Runs, Flush(q)
  PROVE  StepOf(q)
<1>1. /\ pc[q] = "flush" /\ \A i \in pending[q] : i > awaited[q]
      /\ pc' = [pc EXCEPT ![q] = "graph"]
      /\ draft' = [draft EXCEPT ![q] = rec[q].nodes]
      /\ UNCHANGED <<outcome, rec, pending, awaited, lines, graph, report, registry, trace,
                     traces, task, span, calls, troubled, crashed>>
  BY DEF Flush, fileVars, registryVars, taskVars
<1>2. RecordersOK /\ TablesTypeOK /\ RunInv(q)
  BY DEF Inv
<1>3. /\ pc' \in [Runs -> {"idle", "running"} \cup Finalizing \cup Settled] /\ pc'[q] = "graph"
      /\ \A r \in Runs \ {q} : pc'[r] = pc[r] /\ draft'[r] = draft[r]
      /\ DOMAIN draft' = Runs /\ draft'[q] = rec[q].nodes
  BY <1>1, <1>2 DEF TablesTypeOK, RecordersOK, Finalizing
<1>4. KeepsRecorders /\ \A r \in Runs \ {q} : Undisturbed(r)
  <2>1. {} \in SUBSET Nat /\ pending' = [pending EXCEPT ![q] = @ \ {}]
    BY <1>1, <1>2 DEF RecordersOK
  <2>2. QED
    BY <1>1, <1>2, <1>3, <2>1, QuietStep DEF TablesTypeOK
<1>5. RunInv(q)'
  <2>1. EndsOnce(q)'
    BY <1>1, <1>2, <1>3 DEF RunInv, EndsOnce, EndType
  <2>2. Written(q)'
    BY <1>1, <1>2 DEF RunInv, Written
  <2>3. Flushed(q)'
    <3>1. RecorderTypeOK(rec[q]) /\ awaited[q] \in Nat /\ awaited[q] <= Len(rec[q].events)
      BY <1>2 DEF RecordersOK, RecorderInv
    <3>2. \A i \in 1 .. awaited[q] : i \in DOMAIN rec[q].events
      BY <3>1, Places
    <3>3. \A i \in 1 .. awaited[q] : rec[q].events[i].node \in 0 .. Len(rec[q].nodes)
      BY <3>1, <3>2 DEF RecorderTypeOK
    <3>4. QED
      BY <1>1, <1>3, <3>3 DEF Flushed
  <2>4. FilesOK(q)'
    BY <1>3 DEF FilesOK, Recorded
  <2>5. QED
    BY <2>1, <2>2, <2>3, <2>4 DEF RunInv
<1>6. QED
  BY <1>4, <1>5 DEF StepOf

\* The graph is written.
LEMMA WriteGraphStep ==
  ASSUME Inv, NEW q \in Runs, WriteGraph(q)
  PROVE  StepOf(q)
<1>1. /\ pc[q] = "graph" /\ pc' = [pc EXCEPT ![q] = "report"]
      /\ graph' = [graph EXCEPT ![IdOf[q]] = Whole(q)]
      /\ UNCHANGED <<outcome, rec, pending, awaited, draft, lines, report, registry, trace,
                     traces, task, span, calls, troubled, crashed>>
  BY DEF WriteGraph, registryVars, taskVars
<1>2. RecordersOK /\ TablesTypeOK /\ RunInv(q) /\ IdOf[q] \in Ids
  BY DEF Inv, Ids
<1>3. /\ pc' \in [Runs -> {"idle", "running"} \cup Finalizing \cup Settled] /\ pc'[q] = "report"
      /\ \A r \in Runs \ {q} : pc'[r] = pc[r]
      /\ DOMAIN graph' = Ids /\ graph'[IdOf[q]] = Whole(q)
      /\ \A id \in Ids \ {IdOf[q]} : graph'[id] = graph[id]
  BY <1>1, <1>2 DEF TablesTypeOK, Finalizing
<1>4. KeepsRecorders /\ \A r \in Runs \ {q} : Undisturbed(r)
  <2>1. {} \in SUBSET Nat /\ pending' = [pending EXCEPT ![q] = @ \ {}]
    BY <1>1, <1>2 DEF RecordersOK
  <2>2. ASSUME NEW r \in Runs \ {q}, Alone(r) PROVE graph'[IdOf[r]] = graph[IdOf[r]]
    <3>1. IdOf[r] # IdOf[q]
      BY <1>1, <2>2 DEF Alone
    <3>2. QED
      BY <1>3, <3>1 DEF Ids
  <2>3. QED
    BY <1>1, <1>2, <1>3, <2>1, <2>2, QuietStep DEF TablesTypeOK, RecordersOK
<1>5. RunInv(q)'
  <2>1. EndsOnce(q)'
    BY <1>1, <1>2, <1>3 DEF RunInv, EndsOnce, EndType
  <2>2. Written(q)'
    BY <1>1, <1>2 DEF RunInv, Written
  <2>3. Flushed(q)'
    BY <1>1, <1>2, <1>3 DEF RunInv, Flushed, Recorded
  <2>4. FilesOK(q)'
    BY <1>1, <1>3 DEF FilesOK, Recorded, Whole
  <2>5. QED
    BY <2>1, <2>2, <2>3, <2>4 DEF RunInv
<1>6. QED
  BY <1>4, <1>5 DEF StepOf

\* The report is written, and the run settles.
LEMMA WriteReportStep ==
  ASSUME Inv, NEW q \in Runs, WriteReport(q)
  PROVE  StepOf(q)
<1> DEFINE how == IF outcome[q] = "ok" THEN "resolved" ELSE "rejected"
<1>1. /\ pc[q] = "report" /\ Settle(q, how)
      /\ report' = [report EXCEPT ![IdOf[q]] = Whole(q)]
      /\ UNCHANGED <<outcome, rec, pending, awaited, draft, lines, graph, task, span, calls,
                     troubled, crashed>>
  BY DEF WriteReport, taskVars
<1>2. RecordersOK /\ TablesTypeOK /\ RunInv(q) /\ IdOf[q] \in Ids
  BY DEF Inv, Ids
<1>3. /\ how \in Settled
      /\ how = "resolved" <=> outcome[q] = "ok"
      /\ how = "rejected" <=> outcome[q] = "error"
  BY <1>2 DEF Settled, TablesTypeOK
<1> HIDE DEF how
<1>4. /\ pc' \in [Runs -> {"idle", "running"} \cup Finalizing \cup Settled]
      /\ registry' \in [Ids -> Runs \cup {NoRun}]
      /\ traces' \in [Runs -> Runs \cup {NoRun}]
      /\ trace' = trace
      /\ pc'[q] = how /\ \A r \in Runs \ {q} : pc'[r] = pc[r]
  BY <1>1, <1>2, <1>3, SettleTypes
<1>5. /\ DOMAIN report' = Ids /\ report'[IdOf[q]] = Whole(q)
      /\ \A id \in Ids \ {IdOf[q]} : report'[id] = report[id]
  BY <1>1, <1>2 DEF TablesTypeOK
<1>6. how # "idle" /\ how # "running" /\ how # "report" /\ how # "graph"
  BY <1>3 DEF Settled
<1>7. KeepsRecorders /\ \A r \in Runs \ {q} : Undisturbed(r)
  <2>1. {} \in SUBSET Nat /\ pending' = [pending EXCEPT ![q] = @ \ {}]
    BY <1>1, <1>2 DEF RecordersOK
  <2>2. ASSUME NEW r \in Runs \ {q}, Alone(r) PROVE report'[IdOf[r]] = report[IdOf[r]]
    <3>1. IdOf[r] # IdOf[q]
      BY <1>1, <2>2 DEF Alone
    <3>2. QED
      BY <1>5, <3>1 DEF Ids
  <2>3. QED
    BY <1>1, <1>2, <1>4, <1>5, <1>6, <2>1, <2>2, QuietStep DEF TablesTypeOK, RecordersOK
<1>8. RunInv(q)'
  <2>1. EndsOnce(q)'
    BY <1>1, <1>2, <1>3, <1>4, <1>6 DEF RunInv, EndsOnce, EndType
  <2>2. Written(q)'
    BY <1>1, <1>2 DEF RunInv, Written
  <2>3. Flushed(q)'
    BY <1>1, <1>2 DEF RunInv, Flushed
  <2>4. FilesOK(q)'
    <3>1. Alone(q)' => Alone(q)
      BY <1>4 DEF Alone
    <3>2. Whole(q)' = Whole(q)
      BY <1>1 DEF Whole
    <3>3. pc'[q] # "report"
      BY <1>4, <1>6
    <3>4. QED
      BY <1>1, <1>2, <1>5, <3>1, <3>2, <3>3 DEF RunInv, FilesOK
  <2>5. QED
    BY <2>1, <2>2, <2>3, <2>4 DEF RunInv
<1>9. QED
  BY <1>7, <1>8 DEF StepOf

\* The write of a file fails.
LEMMA WriteRejectsStep ==
  ASSUME Inv, NEW q \in Runs, WriteRejects(q)
  PROVE  StepOf(q)
<1>1. /\ pc[q] \in {"graph", "report"} /\ troubled' = troubled \cup {q}
      /\ UNCHANGED <<draft, lines, graph, report, task, span, calls, crashed>>
  BY DEF WriteRejects, fileVars, taskVars
<1>2. RecordersOK /\ TablesTypeOK /\ RunInv(q) /\ EndsOnce(q)
  BY DEF Inv, RunInv
<1>3. CASE outcome[q] = "ok"
  <2>1. /\ pc' = [pc EXCEPT ![q] = "flush"] /\ Finalize(q, "error")
        /\ UNCHANGED <<registry, trace, traces>>
    BY <1>3 DEF WriteRejects, registryVars
  <2>2. \A i \in DOMAIN rec[q].events : rec[q].events[i].type # EndTypeOf("error")
    BY <1>1, <1>2, <1>3 DEF EndsOnce, EndTypeOf, IsFailure
  <2>3. QED
    BY <1>1, <1>3, <2>1, <2>2, FinalizeStep
<1>4. CASE outcome[q] # "ok"
  <2>1. Settle(q, "rejected") /\ UNCHANGED <<outcome, rec, pending, awaited>>
    BY <1>4 DEF WriteRejects
  <2>2. /\ pc' \in [Runs -> {"idle", "running"} \cup Finalizing \cup Settled]
        /\ registry' \in [Ids -> Runs \cup {NoRun}]
        /\ traces' \in [Runs -> Runs \cup {NoRun}]
        /\ trace' = trace
        /\ pc'[q] = "rejected" /\ \A r \in Runs \ {q} : pc'[r] = pc[r]
    BY <1>2, <2>1, SettleTypes DEF Settled
  <2>3. KeepsRecorders /\ \A r \in Runs \ {q} : Undisturbed(r)
    <3>1. {} \in SUBSET Nat /\ pending' = [pending EXCEPT ![q] = @ \ {}]
      BY <1>2, <2>1 DEF RecordersOK
    <3>2. QED
      BY <1>1, <1>2, <2>1, <2>2, <3>1, QuietStep DEF TablesTypeOK, RecordersOK
  <2>4. outcome[q] = "error"
    BY <1>2, <1>4 DEF TablesTypeOK
  <2>5. RunInv(q)'
    <3>1. EndsOnce(q)'
      BY <1>1, <1>2, <2>1, <2>2, <2>4 DEF EndsOnce, EndType
    <3>2. Written(q)' /\ Flushed(q)' /\ FilesOK(q)'
      BY <1>1, <2>1, <2>2, <2>4 DEF Written, Flushed, FilesOK, Recorded
    <3>3. QED
      BY <3>1, <3>2 DEF RunInv
  <2>6. QED
    BY <2>3, <2>5 DEF StepOf
<1>5. QED
  BY <1>3, <1>4

\* Settling, or staying where it is, a run that a write of which has failed.
LEMMA RejectedStep ==
  ASSUME Inv, NEW q \in Runs, NEW i \in pending[q],
         pending' = [pending EXCEPT ![q] = @ \ {i}], troubled' = troubled \cup {q},
         pc'[q] = "rejected", outcome[q] = "error", pc[q] \notin {"idle", "running"},
         pc' \in [Runs -> {"idle", "running"} \cup Finalizing \cup Settled],
         \A r \in Runs \ {q} : pc'[r] = pc[r],
         registry' \in [Ids -> Runs \cup {NoRun}], trace' = trace,
         traces' \in [Runs -> Runs \cup {NoRun}],
         UNCHANGED <<rec, awaited, outcome, draft, lines, graph, report, task, span, calls,
                     crashed>>
  PROVE  StepOf(q)
<1>1. RecordersOK /\ TablesTypeOK /\ EndsOnce(q)
  BY DEF Inv, RunInv
<1>2. KeepsRecorders /\ \A r \in Runs \ {q} : Undisturbed(r)
  <2>1. {i} \in SUBSET Nat
    BY <1>1 DEF RecordersOK
  <2>2. QED
    BY <1>1, <2>1, QuietStep DEF TablesTypeOK, RecordersOK
<1>3. EndsOnce(q)'
  BY <1>1 DEF EndsOnce, EndType
<1>4. Written(q)' /\ Flushed(q)' /\ FilesOK(q)'
  BY DEF Written, Flushed, FilesOK, Recorded
<1>5. QED
  BY <1>2, <1>3, <1>4 DEF StepOf, RunInv

\* The write of an event fails that is awaited.
LEMMA AppendRejectsStep ==
  ASSUME Inv, NEW q \in Runs, NEW i, AppendRejects(q, i)
  PROVE  StepOf(q)
<1>1. /\ i \in pending[q] /\ i <= awaited[q] /\ troubled' = troubled \cup {q}
      /\ UNCHANGED <<draft, lines, graph, report, task, span, calls, crashed>>
  BY DEF AppendRejects, fileVars, taskVars
<1>2. RecordersOK /\ TablesTypeOK /\ RunInv(q) /\ EndsOnce(q) /\ RecorderInv(rec[q])
  BY DEF Inv, RunInv, RecordersOK
<1>3. /\ Len(rec[q].events) \in Nat /\ DOMAIN rec[q].events = 1 .. Len(rec[q].events)
      /\ i \in 1 .. Len(rec[q].events) /\ awaited[q] \in Nat
  <2>1. RecorderTypeOK(rec[q])
    BY <1>2 DEF RecorderInv
  <2>2. QED
    BY <1>1, <1>2, <2>1, Places DEF RecordersOK
<1>4. pc[q] \notin {"idle", "running", "graph", "report"} /\ ~Recorded(q)
  <2>1. ~(i > awaited[q]) /\ awaited[q] # 0
    BY <1>1, <1>3
  <2>2. QED
    BY <1>1, <1>2, <2>1 DEF EndsOnce, Flushed, RunInv
<1>5. CASE pc[q] # "flush"
  <2>1. UNCHANGED <<pc, rec, awaited, outcome, registry, trace, traces>>
        /\ pending' = [pending EXCEPT ![q] = @ \ {i}]
    BY <1>5 DEF AppendRejects, registryVars
  <2>2. pc[q] = "rejected" /\ outcome[q] = "error"
    BY <1>2, <1>4, <1>5 DEF TablesTypeOK, EndsOnce, Recorded, Finalizing, Settled
  <2>3. QED
    BY <1>1, <1>2, <2>1, <2>2, RejectedStep DEF TablesTypeOK
<1>6. CASE pc[q] = "flush" /\ outcome[q] # "ok"
  <2>1. Settle(q, "rejected") /\ UNCHANGED <<rec, awaited, outcome>>
        /\ pending' = [pending EXCEPT ![q] = @ \ {i}]
    BY <1>6 DEF AppendRejects
  <2>2. /\ pc' \in [Runs -> {"idle", "running"} \cup Finalizing \cup Settled]
        /\ registry' \in [Ids -> Runs \cup {NoRun}]
        /\ traces' \in [Runs -> Runs \cup {NoRun}]
        /\ trace' = trace
        /\ pc'[q] = "rejected" /\ \A r \in Runs \ {q} : pc'[r] = pc[r]
    BY <1>2, <2>1, SettleTypes DEF Settled
  <2>3. outcome[q] = "error"
    BY <1>2, <1>6 DEF TablesTypeOK
  <2>4. QED
    BY <1>1, <1>2, <1>6, <2>1, <2>2, <2>3, RejectedStep
<1>7. CASE pc[q] = "flush" /\ outcome[q] = "ok"
  <2> DEFINE failed == RecordRunFailed(rec[q])
             added == Len(rec[q].events) + 1 .. Len(failed.events)
  <2>1. /\ Settle(q, "rejected")
        /\ rec' = [rec EXCEPT ![q] = failed]
        /\ pending' = [pending EXCEPT ![q] = (@ \ {i}) \cup added]
        /\ awaited' = [awaited EXCEPT ![q] = Len(failed.events)]
        /\ outcome' = [outcome EXCEPT ![q] = "error"]
    BY <1>7 DEF AppendRejects
  <2>2. /\ pc' \in [Runs -> {"idle", "running"} \cup Finalizing \cup Settled]
        /\ registry' \in [Ids -> Runs \cup {NoRun}]
        /\ traces' \in [Runs -> Runs \cup {NoRun}]
        /\ trace' = trace
        /\ pc'[q] = "rejected" /\ \A r \in Runs \ {q} : pc'[r] = pc[r]
    BY <1>2, <2>1, SettleTypes DEF Settled
  <2>3. /\ RecorderInv(failed) /\ Continues(rec[q], failed)
        /\ Len(failed.events) = Len(rec[q].events) + 1
        /\ DOMAIN failed.events = 1 .. Len(rec[q].events) + 1
    BY <1>2, LastEvent
  <2>4. rec'[q] = RecordRunFailed(rec[q])
    BY <1>2, <2>1 DEF RecordersOK
  <2> HIDE DEF failed
  <2>5. /\ DOMAIN rec' = Runs /\ rec'[q] = failed
        /\ \A r \in Runs \ {q} : rec'[r] = rec[r]
        /\ \A r \in Runs \ {q} : awaited'[r] = awaited[r] /\ outcome'[r] = outcome[r]
        /\ awaited'[q] = Len(rec'[q].events) /\ outcome'[q] = "error"
        /\ awaited' \in [Runs -> Nat] /\ outcome' \in [Runs -> {"ok", "error"}]
    BY <1>2, <1>3, <2>1, <2>3 DEF RecordersOK, TablesTypeOK
  <2>6. added \subseteq Nat /\ added \subseteq DOMAIN failed.events
    BY <1>3, <2>3
  <2> HIDE DEF added
  <2>7. /\ pending' \in [Runs -> SUBSET Nat] /\ pending'[q] = (pending[q] \ {i}) \cup added
        /\ \A r \in Runs \ {q} : pending'[r] = pending[r]
    BY <1>2, <2>1, <2>6 DEF RecordersOK
  <2>8. pending'[q] \subseteq DOMAIN rec'[q].events
    <3>1. DOMAIN rec[q].events \subseteq DOMAIN failed.events
      BY <1>3, <2>3
    <3>2. QED
      BY <1>2, <2>5, <2>6, <2>7, <3>1 DEF RecordersOK
  <2>9. RecordersOK'
    <3>1. ASSUME NEW r \in Runs
          PROVE  /\ RecorderInv(rec'[r]) /\ pending'[r] \subseteq DOMAIN rec'[r].events
                 /\ awaited'[r] <= Len(rec'[r].events)
      <4>1. CASE r = q
        BY <1>3, <2>3, <2>5, <2>8, <4>1
      <4>2. CASE r # q
        BY <1>2, <2>5, <2>7, <4>2 DEF RecordersOK
      <4>3. QED
        BY <4>1, <4>2
    <3>2. QED
      BY <1>1, <1>2, <2>5, <2>7, <3>1 DEF RecordersOK
  <2>10. KeepsRecorders
    <3>1. TablesTypeOK' /\ SpansOK'
      BY <1>1, <1>2, <2>2, <2>5 DEF TablesTypeOK, SpansOK, Inv
    <3>2. ASSUME NEW r \in Runs PROVE Continues(rec[r], rec'[r])
      <4>1. RecorderInv(rec[r])
        BY <1>2 DEF RecordersOK
      <4>2. QED
        BY <2>3, <2>5, <4>1, AdvancesNowhere DEF Advances
    <3>3. QED
      BY <2>2, <2>9, <3>1, <3>2 DEF KeepsRecorders
  <2>11. ASSUME NEW r \in Runs \ {q} PROVE Undisturbed(r)
    <3>1. RecorderInv(rec[r]) /\ rec'[r] = rec[r]
      BY <1>2, <2>5 DEF RecordersOK
    <3>2. OfNodes(rec[r], rec[r]) /\ Len(rec[r].events) \in Nat
      BY <3>1, AdvancesNowhere, Places DEF Advances, RecorderInv
    <3>3. Len(rec[r].events) + 1 .. Len(rec[r].events) = {}
      BY <3>2
    <3>4. QED
      BY <1>1, <2>2, <2>5, <2>7, <3>1, <3>2, <3>3 DEF Undisturbed
  <2>12. EndsOnce(q)'
    <3>1. \A j \in DOMAIN rec[q].events : rec[q].events[j].type # EndTypeOf("error")
      BY <1>2, <1>7 DEF EndsOnce, EndTypeOf, IsFailure
    <3>2. QED
      BY <1>2, <2>2, <2>4, <2>5, <3>1, LastEventEndsOnce
  <2>13. Written(q)' /\ Flushed(q)' /\ FilesOK(q)'
    BY <1>1, <2>2, <2>5 DEF Written, Flushed, FilesOK, Recorded
  <2>14. QED
    BY <2>10, <2>11, <2>12, <2>13 DEF StepOf, RunInv
<1>8. QED
  BY <1>5, <1>6, <1>7

-----------------------------------------------------------------------------
\* The invariant holds at first.
LEMMA InitInv == Init => Inv
<1> SUFFICES ASSUME Init PROVE Inv
  OBVIOUS
<1>1. /\ DOMAIN rec = Runs /\ \A r \in Runs : rec[r] = NewRecorder
      /\ DOMAIN NewRecorder.events = {} /\ Len(NewRecorder.events) = 0
  BY DEF Init, NewRecorder
<1>2. RecordersOK
  <2>1. pending = [r \in Runs |-> {}] /\ awaited = [r \in Runs |-> 0] /\ DOMAIN draft = Runs
    BY DEF Init
  <2>2. QED
    BY <1>1, <2>1, FirstRecorder DEF RecordersOK
<1>3. TablesTypeOK /\ SpansOK
  BY DEF Init, TablesTypeOK, SpansOK
<1>4. ASSUME NEW r \in Runs PROVE RunInv(r)
  <2>1. pc[r] = "idle" /\ outcome[r] = "ok" /\ awaited[r] = 0
    BY DEF Init
  <2>2. QED
    BY <1>1, <2>1 DEF RunInv, EndsOnce, Written, Flushed, FilesOK, Recorded
<1>5. QED
  BY <1>2, <1>3, <1>4 DEF Inv

\* Every step keeps the invariant, and what the recorders have.
THEOREM NextStep ==
  ASSUME Inv, Next
  PROVE  Inv' /\ KeepsRecorders
<1>1. ASSUME KeepsRecorders, \A r \in Runs : Undisturbed(r)
      PROVE  Inv' /\ KeepsRecorders
  <2>1. \A r \in Runs : RunInv(r)'
    BY <1>1, UndisturbedKeepsRunInv
  <2>2. QED
    BY <1>1, <2>1 DEF Inv, KeepsRecorders
<1>2. ASSUME NEW q \in Runs, StepOf(q)
      PROVE  Inv' /\ KeepsRecorders
  <2>1. KeepsRecorders /\ RunInv(q)'
    BY <1>2 DEF StepOf
  <2>2. \A r \in Runs \ {q} : RunInv(r)'
    BY <1>2, <2>1, UndisturbedKeepsRunInv DEF StepOf
  <2>3. QED
    BY <2>1, <2>2 DEF Inv, KeepsRecorders
<1>3. ASSUME NEW q \in Runs, StartRun(q)
      PROVE  Inv' /\ KeepsRecorders
  BY <1>2, <1>3, StartRunStep
<1>4. ASSUME NEW q \in Runs, TraceStart(q) \/ TraceEnd(q)
      PROVE  Inv' /\ KeepsRecorders
  BY <1>1, <1>4, TraceStep
<1>5. ASSUME NEW q \in Runs, NEW how \in {"ok", "error"}, RunEnds(q, how)
      PROVE  Inv' /\ KeepsRecorders
  BY <1>2, <1>5, RunEndsStep
<1>6. ASSUME NEW q \in Runs, Write(q)
      PROVE  Inv' /\ KeepsRecorders
  <2>1. CASE \E i \in pending[q] : AppendEnds(q, i) \/ AppendCrashes(q, i) \/ AppendRejects(q, i)
    BY <1>2, <2>1, AppendEndsStep, AppendCrashesStep, AppendRejectsStep
  <2>2. CASE Flush(q)
    BY <1>2, <2>2, FlushStep
  <2>3. CASE WriteGraph(q)
    BY <1>2, <2>3, WriteGraphStep
  <2>4. CASE WriteReport(q)
    BY <1>2, <2>4, WriteReportStep
  <2>5. CASE WriteRejects(q)
    BY <1>2, <2>5, WriteRejectsStep
  <2>6. QED
    BY <1>6, <2>1, <2>2, <2>3, <2>4, <2>5 DEF Write
<1>7. ASSUME NEW t \in Tasks, TaskStart(t)
      PROVE  Inv' /\ KeepsRecorders
  BY <1>1, <1>7, TaskStartStep
<1>8. ASSUME NEW t \in Tasks, NEW status \in {"ok", "error"}, TaskEnd(t, status)
      PROVE  Inv' /\ KeepsRecorders
  BY <1>1, <1>8, TaskEndStep
<1>9. QED
  BY <1>3, <1>4, <1>5, <1>6, <1>7, <1>8 DEF Next

\* So does a step that changes nothing.
LEMMA StutterKeepsInv ==
  ASSUME Inv, UNCHANGED vars
  PROVE  Inv'
<1>1. UNCHANGED <<pc, outcome, rec, pending, awaited, draft, lines, graph, report, registry,
                  trace, traces, task, span, calls, troubled, crashed>>
  BY DEF vars, runVars, fileVars, registryVars, taskVars
<1>2. QED
  BY <1>1 DEF Inv, RecordersOK, TablesTypeOK, SpansOK, RunInv, EndsOnce, Written, Flushed,
              FilesOK, Recorded, Alone, Whole, EndType, IsFailure

\* So it always holds.
LEMMA InvHolds == Spec => []Inv
<1>1. Inv /\ [Next]_vars => Inv'
  BY NextStep, StutterKeepsInv
<1>2. QED
  BY InitInv, <1>1, PTL DEF Spec

\* Every value has the type the code gives it, and the tables of a recorder name
\* nodes it has.
THEOREM TypeCorrect == Spec => []TypeOK
<1>1. Inv => TypeOK
  <2> SUFFICES ASSUME Inv PROVE TypeOK
    OBVIOUS
  <2>1. ASSUME NEW r \in Runs
        PROVE  /\ pending[r] \subseteq DOMAIN rec[r].events
               /\ awaited[r] \in 0 .. Len(rec[r].events)
               /\ \A s \in DOMAIN rec[r].spans : rec[r].spans[s] \in DOMAIN rec[r].nodes
    <3>1. RecorderInv(rec[r]) /\ awaited[r] \in Nat /\ awaited[r] <= Len(rec[r].events)
      BY DEF Inv, RecordersOK
    <3>2. Len(rec[r].events) \in Nat
      BY <3>1, Places DEF RecorderInv
    <3>3. QED
      BY <3>1, <3>2 DEF Inv, RecordersOK, RecorderInv, TablesOK
  <2>2. QED
    BY <2>1 DEF Inv, TablesTypeOK, TypeOK
<1>2. QED
  BY InvHolds, <1>1, PTL

\* How a node ended stays, whatever is completed late or twice; only calls are told
\* more after their end.
THEOREM EndedStay == Spec => EndedNodesStay
<1>1. Inv /\ [Next]_vars =>
        [\A r \in Runs : \A n \in DOMAIN rec[r].nodes :
           rec[r].nodes[n].ended => EndLasts(rec[r].nodes[n], rec'[r].nodes[n])]_vars
  BY NextStep DEF KeepsRecorders, Continues
<1>2. QED
  BY InvHolds, <1>1, PTL DEF Spec, EndedNodesStay

\* A failure of the run leaves no node open that was started before it.
THEOREM FailuresClose == Spec => []FailureClosesNodes
<1>1. Inv => FailureClosesNodes
  <2> SUFFICES ASSUME Inv, NEW r \in Runs, NEW f \in EventsOf(r, "run.failed", 0),
                      NEW n \in DOMAIN rec[r].nodes, \A s \in EventsOf(r, "started", n) : s < f
               PROVE  rec[r].nodes[n].ended
    BY DEF FailureClosesNodes
  <2>1. PICK s \in DOMAIN rec[r].events : IsToldFrom(rec[r], n, s)
    BY DEF Inv, RecordersOK, RecorderInv
  <2>2. s \in EventsOf(r, "started", n) /\ f \in DOMAIN rec[r].events /\ IsFailure(rec[r], f)
    BY <2>1 DEF EventsOf, IsToldFrom, IsStart, IsFailure
  <2>3. QED
    BY <2>1, <2>2 DEF IsToldFrom
<1>2. QED
  BY InvHolds, <1>1, PTL

\* The events of every recorder tell the same story as its nodes.
THEOREM EventsTell == Spec => []EventsTellTheNodes
<1>1. ASSUME Inv, NEW r \in Runs, NEW n \in DOMAIN rec[r].nodes
      PROVE  LET node == rec[r].nodes[n]
                 starts == EventsOf(r, "started", n)
                 ends == EventsOf(r, "completed", n)
             IN /\ Cardinality(starts) = 1 /\ Cardinality(ends) <= 1
                /\ \A e \in ends : /\ node.ended /\ node.status = rec[r].events[e].status
                                  /\ \A s \in starts : s < e
                /\ node.ended /\ node.kind # "agent_step" /\ ends = {} =>
                     /\ node.status = "error"
                     /\ \E f \in EventsOf(r, "run.failed", 0) : \A s \in starts : s < f
  <2> DEFINE R == rec[r]
             starts == EventsOf(r, "started", n)
             ends == EventsOf(r, "completed", n)
  <2>1. RecorderTypeOK(R) /\ \E s \in DOMAIN R.events : IsToldFrom(R, n, s)
    BY <1>1 DEF Inv, RecordersOK, RecorderInv
  <2>2. PICK s \in DOMAIN R.events : IsToldFrom(R, n, s)
    BY <2>1
  <2>3. starts = {s}
    BY <2>2 DEF EventsOf, IsToldFrom, IsStart
  <2>4. \A e \in DOMAIN R.events : e \in ends <=> IsEnd(R, e, n)
    BY DEF EventsOf, IsEnd
  <2>5. ends \subseteq DOMAIN R.events
    BY DEF EventsOf
  <2>6. \A f \in DOMAIN R.events : IsFailure(R, f) => f \in EventsOf(r, "run.failed", 0)
    <3>1. \A f \in DOMAIN R.events : R.events[f] \in Events
      BY <2>1 DEF RecorderTypeOK
    <3>2. QED
      BY <3>1 DEF EventsOf, IsFailure, Events
  <2> HIDE DEF starts, ends, R
  <2>7. Cardinality(starts) = 1
    BY <2>3, FS_Singleton
  <2>8. Cardinality(ends) <= 1
    <3>1. CASE ends = {}
      BY <3>1, FS_EmptySet
    <3>2. CASE ends # {}
      <4>1. PICK e \in ends : ends = {e}
        BY <2>2, <2>4, <2>5, <3>2 DEF IsToldFrom
      <4>2. Cardinality(ends) = 1
        BY <4>1, FS_Singleton
      <4>3. QED
        BY <4>2
    <3>3. QED
      BY <3>1, <3>2
  <2>9. \A e \in ends : /\ R.nodes[n].ended /\ R.nodes[n].status = R.events[e].status
                       /\ \A x \in starts : x < e
    BY <2>2, <2>3, <2>4, <2>5 DEF IsToldFrom
  <2>10. R.nodes[n].ended /\ R.nodes[n].kind # "agent_step" /\ ends = {} =>
           /\ R.nodes[n].status = "error"
           /\ \E f \in EventsOf(r, "run.failed", 0) : \A x \in starts : x < f
    BY <2>2, <2>3, <2>4, <2>6 DEF IsToldFrom
  <2>11. QED
    BY <2>7, <2>8, <2>9, <2>10 DEF R, starts, ends
<1>2. Inv => EventsTellTheNodes
  BY <1>1 DEF EventsTellTheNodes
<1>3. QED
  BY InvHolds, <1>2, PTL

\* When a run settles, its record is on the disk.
THEOREM SettledAreRecorded == Spec => []SettledRunsAreRecorded
<1>1. ASSUME Inv, NEW r \in Runs, Alone(r), Recorded(r)
      PROVE  LET end == EventsOf(r, IF pc[r] = "resolved" THEN "run.completed" ELSE "run.failed", 0)
             IN /\ graph[IdOf[r]].status = (IF pc[r] = "resolved" THEN "ok" ELSE "error")
                /\ report[IdOf[r]] = graph[IdOf[r]]
                /\ Cardinality(end) = 1
                /\ \A e \in end : \A i \in 1 .. e :
                     /\ <<r, i>> \in lines[IdOf[r]]
                     /\ rec[r].events[i].node \in 0 .. Len(graph[IdOf[r]].nodes)
  <2> DEFINE type == IF pc[r] = "resolved" THEN "run.completed" ELSE "run.failed"
             end == EventsOf(r, type, 0)
  <2>1. EndsOnce(r) /\ Written(r) /\ Flushed(r) /\ FilesOK(r)
    BY <1>1 DEF Inv, RunInv
  <2>2. /\ pc[r] \notin {"idle", "running"} /\ type = EndType(r)
        /\ outcome[r] = (IF pc[r] = "resolved" THEN "ok" ELSE "error")
    BY <1>1, <2>1 DEF Recorded, EndsOnce, EndType
  <2>3. graph[IdOf[r]] = Whole(r) /\ report[IdOf[r]] = Whole(r)
    BY <1>1, <2>1 DEF FilesOK
  <2>4. RecorderTypeOK(rec[r]) /\ awaited[r] \in DOMAIN rec[r].events
    BY <1>1, <2>1, <2>2 DEF Inv, RecordersOK, RecorderInv, EndsOnce
  <2>5. end = {awaited[r]}
    <3>1. \A i \in DOMAIN rec[r].events : rec[r].events[i].type = type <=> i = awaited[r]
      BY <2>1, <2>2 DEF EndsOnce
    <3>2. rec[r].events[awaited[r]].node = 0
      <4>1. rec[r].events[awaited[r]] \in Events
        BY <2>4 DEF RecorderTypeOK
      <4>2. rec[r].events[awaited[r]].type \in {"run.completed", "run.failed"}
        BY <2>4, <3>1
      <4>3. QED
        BY <4>1, <4>2 DEF Events
    <3> HIDE DEF type
    <3>3. QED
      BY <2>4, <3>1, <3>2 DEF EventsOf
  <2>6. ASSUME NEW i \in 1 .. awaited[r]
        PROVE  /\ <<r, i>> \in lines[IdOf[r]]
               /\ rec[r].events[i].node \in 0 .. Len(draft[r])
    <3>1. i \in DOMAIN rec[r].events /\ ~(i > awaited[r])
      BY <2>4, Places
    <3>2. i \notin pending[r] /\ rec[r].events[i].node \in 0 .. Len(draft[r])
      BY <1>1, <2>1, <3>1 DEF Flushed
    <3>3. ~(r \in troubled /\ outcome[r] = "error")
      BY <1>1, <2>2 DEF Recorded
    <3>4. QED
      BY <2>1, <3>1, <3>2, <3>3 DEF Written
  <2> HIDE DEF type, end
  <2>7. Cardinality(end) = 1
    BY <2>5, FS_Singleton
  <2>8. \A e \in end : \A i \in 1 .. e :
          /\ <<r, i>> \in lines[IdOf[r]]
          /\ rec[r].events[i].node \in 0 .. Len(graph[IdOf[r]].nodes)
    BY <2>3, <2>5, <2>6 DEF Whole
  <2>9. graph[IdOf[r]].status = (IF pc[r] = "resolved" THEN "ok" ELSE "error")
    BY <2>2, <2>3 DEF Whole
  <2>10. QED
    BY <2>3, <2>7, <2>8, <2>9 DEF end, type
<1>2. Inv => SettledRunsAreRecorded
  BY <1>1 DEF SettledRunsAreRecorded, Recorded
<1>3. QED
  BY InvHolds, <1>2, PTL
=============================================================================
