-------------------------- MODULE MCExecutionGraph --------------------------
(***************************************************************************)
(* Every log of at most MaxEvents events over a small vocabulary, with two *)
(* properties of the report of its replay.                                 *)
(***************************************************************************)
EXTENDS ExecutionGraphLog, ExecutionReport

\* Two operations listed as possible parallelism are "ordered only by
\* observation sequence": no chain of explicit dependencies orders them.
ParallelPairsAreUnordered ==
  \A p \in PotentialParallelism(Nodes(log)) :
    ~\E d, e \in DependencyEdges(Nodes(log)) :
        d.from = p[1] /\ d.to = e.from /\ e.to = p[2]

\* The sequences of distinct nodes in which an edge leads from each to the next.
Chains(nodes, edges) ==
  LET Of[n \in 1 .. Cardinality(DOMAIN nodes)] ==
        IF n = 1 THEN {<<o>> : o \in DOMAIN nodes}
        ELSE {Append(s, o) : s \in Of[n - 1], o \in DOMAIN nodes}
               \cap {s \in Seq(DOMAIN nodes) : /\ <<s[n - 1], s[n]>> \in edges
                                               /\ \A i \in 1 .. n - 1 : s[i] # s[n]}
  IN UNION {Of[n] : n \in DOMAIN Of}

PathAlong(nodes, chain) ==
  FoldLeft(LAMBDA path, o : Extend(nodes, path, o), NoPath, chain)

\* The critical path of the report is a chain of edges through distinct nodes, as
\* long as its nodes together, even where dependencies and observation order form
\* a cycle; and unless they do, no chain is longer, although the search remembers
\* paths and is cut off at nodes it has not left (findCriticalPath).  Logs that
\* repeat an id are left to DuplicateDeliveryIsIgnored.
CriticalPathIsLongest ==
  LET nodes == Nodes(log)
      edges == {<<e.from, e.to>> : e \in Edges(nodes)}
      chains == Chains(nodes, edges)
      path == CriticalPath(nodes)
      cyclic == \E c \in chains : <<c[Len(c)], c[1]>> \in edges
  IN log # <<>> /\ Unique(log) = DOMAIN log =>
       /\ path.nodeIds \in chains
       /\ path = PathAlong(nodes, path.nodeIds)
       /\ ~cyclic => ~\E c \in chains : LongerPath(PathAlong(nodes, c), path)

-----------------------------------------------------------------------------
\* The vocabulary: a tool call with a start, a late second start and a finish
\* that fails, another tool call in the same scope, an operation between them,
\* and the two kinds of events that decide the run.
Event(id, op, kind, lifecycle, at) ==
  [id |-> id, op |-> op, kind |-> kind, lifecycle |-> lifecycle, status |-> "none",
   runStatus |-> "none", at |-> at, scope |-> "none", duration |-> NotSet, deps |-> {}]

MCVocabulary ==
  {[Event("a1", "a", "tool_call", "start", 3) EXCEPT !.scope = "s"],
   Event("a2", "a", "tool_call", "start", 1),
   [Event("a3", "a", "tool_call", "finish", 2) EXCEPT !.status = "error"],
   [Event("b1", "b", "tool_call", "point", 4) EXCEPT
      !.scope = "s", !.duration = 7, !.deps = {[on |-> "x", kind |-> "data"]}],
   [Event("b2", "b", "tool_call", "start", 2) EXCEPT
      !.deps = {[on |-> "a", kind |-> "data"]}],
   [Event("x1", "x", "agent", "point", 4) EXCEPT
      !.deps = {[on |-> "a", kind |-> "control"]}],
   [Event("t1", "turn", "turn", "point", 5) EXCEPT
      !.scope = "s", !.status = "ok", !.runStatus = "ok"],
   [Event("t2", "turn", "turn", "start", 6) EXCEPT !.runStatus = "running"]}
=============================================================================
