------------------------- MODULE ExecutionGraphLoop -------------------------
(***************************************************************************)
(* The walk of buildExecutionGraph as the source writes it: one pass over  *)
(* the log with a set of seen ids, a list of mutable nodes and the run's   *)
(* status so far.  It is the reference that ExecutionGraph!Graph, which    *)
(* has no loop, is compared with.                                          *)
(***************************************************************************)
EXTENDS ExecutionGraph, SequencesExt

\* The state of the walk before the first event.
Empty == [seen |-> {}, nodes |-> <<>>, status |-> "running", endedAt |-> NotSet,
          events |-> 0]

\* createMutableNode: a pending node that has seen nothing.
CreateMutableNode(e) ==
  [op |-> e.op, kind |-> e.kind, status |-> "pending", startedAt |-> e.at,
   endedAt |-> NotSet, durationMs |-> NotSet, scope |-> "none", dependencies |-> {}]

\* updateNodeFromEvent.
UpdateNode(node, e) ==
  LET merged == [node EXCEPT
        !.kind = e.kind,
        !.scope = IF e.scope = "none" THEN @ ELSE e.scope,
        !.dependencies = @ \cup e.deps]
  IN IF e.lifecycle = "start"
     THEN [merged EXCEPT !.status = "running",
                         !.startedAt = IF @ <= e.at THEN @ ELSE e.at]
     ELSE [merged EXCEPT !.status = IF e.status = "none" THEN "ok" ELSE e.status,
                         !.endedAt = e.at,
                         !.durationMs = IF e.duration # NotSet THEN e.duration
                                        ELSE IF e.at >= merged.startedAt
                                        THEN e.at - merged.startedAt ELSE 0]

\* One iteration of the walk.
Observe(g, e) ==
  LET counted == [g EXCEPT !.events = @ + 1]
      k == SelectInSeq(g.nodes, LAMBDA n : n.op = e.op)
      nodes == IF k = 0
               THEN Append(g.nodes, UpdateNode(CreateMutableNode(e), e))
               ELSE [g.nodes EXCEPT ![k] = UpdateNode(@, e)]
  IN IF e.id \in g.seen THEN counted
     ELSE [counted EXCEPT
             !.seen = @ \cup {e.id},
             !.nodes = nodes,
             !.status = IF e.runStatus = "none" THEN @ ELSE e.runStatus,
             !.endedAt = IF e.runStatus \in {"none", "running"} THEN @ ELSE e.at]

\* The walk over the whole log, from its state after each number of events.
Walk(events) ==
  LET After[n \in 0 .. Len(events)] ==
        IF n = 0 THEN Empty ELSE Observe(After[n - 1], events[n])
  IN After[Len(events)]

\* nodesByScope: the places of a scope's nodes in the list, in its order.
NodesByScope(nodes, scope) ==
  LET After[n \in 0 .. Len(nodes)] ==
        IF n = 0 THEN <<>>
        ELSE IF nodes[n].scope = scope THEN Append(After[n - 1], n)
        ELSE After[n - 1]
  IN After[Len(nodes)]

\* buildSequenceEdges: the consecutive pairs of a scope's list.
ScopePairs(nodes, scope) ==
  LET own == NodesByScope(nodes, scope)
  IN {<<nodes[own[i]].op, nodes[own[i + 1]].op>> : i \in 1 .. Len(own) - 1}

\* buildExecutionEdges over the walk's node list: dependency edges, then the
\* pairs of every scope that no edge joins yet.
WalkEdges(nodes) ==
  LET dependency == UNION {{[from |-> d.on, to |-> nodes[i].op, kind |-> d.kind]
                              : d \in nodes[i].dependencies} : i \in DOMAIN nodes}
      scopes == {nodes[i].scope : i \in DOMAIN nodes} \ {"none"}
      pairs == UNION {ScopePairs(nodes, scope) : scope \in scopes}
  IN dependency \cup
     {[from |-> p[1], to |-> p[2], kind |-> "sequence"] :
        p \in {q \in pairs : ~\E e \in dependency : e.from = q[1] /\ e.to = q[2]}}
=============================================================================
