--------------------------- MODULE ExecutionGraph ---------------------------
(***************************************************************************)
(* buildExecutionGraph of packages/runtime/src/execution.ts: the graph     *)
(* that a run's event log replays to.                                      *)
(*                                                                         *)
(* The source walks the log once and updates a map of mutable nodes.  Here *)
(* every field of the graph is defined directly as a function of the log   *)
(* (the last deciding event, the first event of an operation, ...), which  *)
(* is the form the proofs use; module ExecutionGraphLoop holds the walk    *)
(* itself and MCExecutionGraph checks that the two agree.                  *)
(*                                                                         *)
(* An event is a record with fields id, op (operationId), kind, lifecycle  *)
(* (start, finish or point), status, runStatus, at, scope (the sequence    *)
(* scope of its metadata), duration (metrics.durationMs, or NotSet) and    *)
(* deps; "none" stands for an optional field that is undefined, times are  *)
(* naturals, and fields that are only copied (artifacts, other metrics,    *)
(* names, fingerprints) are left out.                                      *)
(*                                                                         *)
(* A definition whose comment begins with "Faulty" is not part of the      *)
(* model: it is a variant with a plausible bug, which a property must      *)
(* catch (PROJECT.json, mutants).                                          *)
(***************************************************************************)
EXTENDS Integers, FiniteSets, FiniteSetsExt, Sequences

\* Log t continues log s.
Continues(t, s) == Len(s) <= Len(t) /\ \A i \in 1 .. Len(s) : t[i] = s[i]

\* The value of a node or graph field that has not been set.
NotSet == -1

-----------------------------------------------------------------------------
\* Faulty: every line counts.
EveryLine(events) == DOMAIN events

\* dedupeEvents: the positions whose id did not occur before.
Unique(events) ==
  {i \in DOMAIN events :
     \A j \in DOMAIN events : j < i => events[j].id # events[i].id}

\* The unique events of operation o, and those that closed it.
EventsOf(events, o) == {i \in Unique(events) : events[i].op = o}
FinishesOf(events, o) == {i \in EventsOf(events, o) : events[i].lifecycle # "start"}

\* The operations that have a node.
Operations(events) == {events[i].op : i \in Unique(events)}

-----------------------------------------------------------------------------
(***************************************************************************)
(* createMutableNode and updateNodeFromEvent, field by field.              *)
(***************************************************************************)

\* A start sets a node running even after a finish; anything else closes it.
NodeStatus(events, o) ==
  LET last == events[Max(EventsOf(events, o))]
  IN IF last.lifecycle = "start" THEN "running"
     ELSE IF last.status = "none" THEN "ok"
     ELSE last.status

\* Faulty: a later start never moves startedAt.
FirstStart(events, o, i) == events[Min(EventsOf(events, o))].at

\* The node's startedAt once the events up to position i are applied: the time
\* of its first event, lowered by every start.
StartedAt(events, o, i) ==
  LET own == EventsOf(events, o)
  IN Min({events[Min(own)].at} \cup
         {events[j].at : j \in {k \in own : k <= i /\ events[k].lifecycle = "start"}})

EndedAt(events, o) ==
  IF FinishesOf(events, o) = {} THEN NotSet
  ELSE events[Max(FinishesOf(events, o))].at

\* What the last finish reports, or else the span up to it as known when it is
\* applied; a negative span is 0.
DurationMs(events, o) ==
  IF FinishesOf(events, o) = {} THEN NotSet
  ELSE LET last == Max(FinishesOf(events, o))
       IN IF events[last].duration # NotSet THEN events[last].duration
          ELSE Max({0, events[last].at - StartedAt(events, o, last)})

\* mergeMetadata: the sequence scope of the last event that carries one.
SequenceScope(events, o) ==
  LET scoped == {i \in EventsOf(events, o) : events[i].scope # "none"}
  IN IF scoped = {} THEN "none" ELSE events[Max(scoped)].scope

Node(events, o) ==
  LET own == EventsOf(events, o)
  IN [kind |-> events[Max(own)].kind,
      status |-> NodeStatus(events, o),
      startedAt |-> StartedAt(events, o, Len(events)),
      endedAt |-> EndedAt(events, o),
      durationMs |-> DurationMs(events, o),
      scope |-> SequenceScope(events, o),
      dependencies |-> UNION {events[i].deps : i \in own},
      firstSeenIndex |-> Cardinality({i \in Unique(events) : i < Min(own)})]

\* The nodes of the graph; their order in graph.json is that of firstSeenIndex.
Nodes(events) == [o \in Operations(events) |-> Node(events, o)]

-----------------------------------------------------------------------------
(***************************************************************************)
(* The status of the run: the runStatus of the last unique event that has  *)
(* one.                                                                    *)
(***************************************************************************)
Deciding(events) == {i \in Unique(events) : events[i].runStatus # "none"}

\* Faulty: an event without a runStatus sets the run running again.
LastEventDecides(events) ==
  IF Unique(events) = {} \/ events[Max(Unique(events))].runStatus = "none" THEN "running"
  ELSE events[Max(Unique(events))].runStatus

RunStatus(events) ==
  IF Deciding(events) = {} THEN "running"
  ELSE events[Max(Deciding(events))].runStatus

\* onExecutionEvent writes a report for such a graph.
Complete(events) == RunStatus(events) # "running"

RunEndedAt(events) ==
  LET ending == {i \in Deciding(events) : events[i].runStatus # "running"}
  IN IF ending = {} THEN NotSet ELSE events[Max(ending)].at

\* The contents of graph.json; its edges are Edges(nodes) below.
Graph(events) ==
  [status |-> RunStatus(events),
   endedAt |-> RunEndedAt(events),
   nodes |-> Nodes(events),
   eventCount |-> Len(events),
   uniqueEventCount |-> Cardinality(Unique(events))]

-----------------------------------------------------------------------------
(***************************************************************************)
(* buildExecutionEdges.  Dependency edges are pushed first; a sequence     *)
(* edge joins neighbours of a scope, unless an edge joins them already.    *)
(***************************************************************************)
DependencyEdges(nodes) ==
  UNION {{[from |-> d.on, to |-> o, kind |-> d.kind] : d \in nodes[o].dependencies}
           : o \in DOMAIN nodes}

\* a and b share a scope and no node of that scope lies between them.
Neighbours(nodes, a, b) ==
  /\ nodes[a].scope # "none"
  /\ nodes[a].scope = nodes[b].scope
  /\ nodes[a].firstSeenIndex < nodes[b].firstSeenIndex
  /\ ~\E c \in DOMAIN nodes :
        /\ nodes[c].scope = nodes[a].scope
        /\ nodes[a].firstSeenIndex < nodes[c].firstSeenIndex
        /\ nodes[c].firstSeenIndex < nodes[b].firstSeenIndex

\* Faulty: a dependency edge does not keep the sequence edge out.
ScopeChain(nodes) ==
  {[from |-> p[1], to |-> p[2], kind |-> "sequence"] :
     p \in {q \in (DOMAIN nodes) \X (DOMAIN nodes) : Neighbours(nodes, q[1], q[2])}}

SequenceEdges(nodes) ==
  {[from |-> p[1], to |-> p[2], kind |-> "sequence"] :
     p \in {q \in (DOMAIN nodes) \X (DOMAIN nodes) :
              /\ Neighbours(nodes, q[1], q[2])
              /\ ~\E e \in DependencyEdges(nodes) : e.from = q[1] /\ e.to = q[2]}}

Edges(nodes) == DependencyEdges(nodes) \cup SequenceEdges(nodes)

\* findPotentialParallelism: sequence edges between two tool calls.
PotentialParallelism(nodes) ==
  {<<e.from, e.to>> :
     e \in {f \in SequenceEdges(nodes) :
              nodes[f.from].kind = "tool_call" /\ nodes[f.to].kind = "tool_call"}}
=============================================================================
