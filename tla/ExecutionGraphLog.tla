-------------------------- MODULE ExecutionGraphLog --------------------------
(***************************************************************************)
(* The log of a run as the store grows it, one event of a vocabulary at a  *)
(* time, possibly one it already holds, and what the replay of such a log  *)
(* promises: buildExecutionGraph of packages/runtime/src/execution.ts.     *)
(***************************************************************************)
EXTENDS ExecutionGraphLoop

CONSTANTS Vocabulary, MaxEvents

\* Times are naturals, so that NotSet is none.
ASSUME VocabularyAssumption == \A e \in Vocabulary : e.at \in Nat

VARIABLE log

Init == log = <<>>

\* The store appends one more event, possibly one it already holds.
Deliver(e) ==
  /\ Len(log) < MaxEvents
  /\ log' = Append(log, e)

Next == \E e \in Vocabulary : Deliver(e)

Spec == Init /\ [][Next]_log

-----------------------------------------------------------------------------
\* The definitions by position agree with the walk of the source on every log:
\* the run's status and end, which operations have a node, their order, and
\* every field of every node (buildExecutionGraph, updateNodeFromEvent).
ReplayAgreesWithWalk ==
  LET w == Walk(log)
      g == Graph(log)
  IN /\ g.status = w.status
     /\ g.endedAt = w.endedAt
     /\ g.eventCount = w.events
     /\ g.uniqueEventCount = Cardinality(w.seen)
     /\ DOMAIN g.nodes = {n.op : n \in ToSet(w.nodes)}
     /\ \A i \in DOMAIN w.nodes :
          LET n == w.nodes[i]
          IN /\ \A f \in DOMAIN n \ {"op"} : g.nodes[n.op][f] = n[f]
             /\ \A j \in DOMAIN w.nodes :
                  j < i => g.nodes[w.nodes[j].op].firstSeenIndex
                             < g.nodes[n.op].firstSeenIndex

\* The edges drawn from the nodes agree with the ones buildExecutionEdges
\* pushes: a dependency edge is never doubled by a sequence edge, and a scope's
\* nodes are chained in the order they were first seen.
EdgesAgreeWithWalk == Edges(Nodes(log)) = WalkEdges(Walk(log).nodes)

\* A hook delivered twice changes nothing but the number of lines: the second
\* event with an id is ignored whatever it says (dedupeEvents; the local-store
\* test keeps both lines and expects one node).
DuplicateDeliveryIsIgnored ==
  [][(\E i \in DOMAIN log : log[i].id = log'[Len(log')].id)
       => Graph(log') = [Graph(log) EXCEPT !.eventCount = @ + 1]]_log

\* The log with positions i and i+1 exchanged.
Exchanged(i) == [log EXCEPT ![i] = log[i + 1], ![i + 1] = log[i]]

\* What the events of two operations say of their own nodes does not depend on
\* which of two concurrent hooks appended first; only the order of the nodes,
\* and hence the sequence edges, does.  The run's status depends on the order
\* only if both events decide it.
ConcurrentAppendsCommute ==
  \A i \in 1 .. Len(log) - 1 :
    LET a == log[i]
        b == log[i + 1]
        left == Nodes(log)
        right == Nodes(Exchanged(i))
    IN (a.op # b.op /\ a.id # b.id) =>
         /\ DOMAIN left = DOMAIN right
         /\ \A o \in DOMAIN left : \A f \in DOMAIN left[o] \ {"firstSeenIndex"} :
              left[o][f] = right[o][f]
         /\ (a.runStatus = "none" \/ b.runStatus = "none") =>
              RunStatus(log) = RunStatus(Exchanged(i))
=============================================================================
