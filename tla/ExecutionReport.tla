-------------------------- MODULE ExecutionReport --------------------------
(***************************************************************************)
(* createExecutionReportSummary of packages/runtime/src/execution.ts: what *)
(* report.md says of a graph, and where it sees repeated work.             *)
(*                                                                         *)
(* The nodes are those of ExecutionGraph with the fields that only the     *)
(* report reads: fingerprint (of the operation), artifacts, and tokens, a  *)
(* function from the metrics a node reports to numbers.  A fingerprint, a  *)
(* label or a key that is absent is <<>>, a number that is absent NotSet.  *)
(* Wording is left out; an opportunity keeps the fields that the report    *)
(* sorts by, and those that say what may be done about it.                 *)
(*                                                                         *)
(* A definition whose comment begins with "Faulty" is not part of the      *)
(* model: it is a variant with a plausible bug, which a property must      *)
(* catch (PROJECT.json, mutants).                                          *)
(***************************************************************************)
EXTENDS ExecutionGraph, SequencesExt

-----------------------------------------------------------------------------
\* mergeOperation: the fingerprint of the last event that has one.
NodeFingerprint(events, o) ==
  LET given == {i \in EventsOf(events, o) : events[i].fingerprint # <<>>}
  IN IF given = {} THEN <<>> ELSE events[Max(given)].fingerprint

\* mergeArtifacts: a later artifact takes the place of one with its id.
NodeArtifacts(events, o) ==
  LET own == EventsOf(events, o)
      Holds(i, id) == \E a \in events[i].artifacts : a.id = id
      ids == UNION {{a.id : a \in events[i].artifacts} : i \in own}
  IN {CHOOSE a \in events[Max({i \in own : Holds(i, id)})].artifacts : a.id = id : id \in ids}

\* The nodes as they are seen by the report, and their order in the graph.
ReportNodes(events) ==
  [o \in Operations(events) |->
     [node |-> Node(events, o), fingerprint |-> NodeFingerprint(events, o),
      artifacts |-> NodeArtifacts(events, o)]]

InOrder(nodes, ops) ==
  SetToSortSeq(ops, LAMBDA a, b : nodes[a].node.firstSeenIndex < nodes[b].node.firstSeenIndex)

NodeRecords(nodes) == [o \in DOMAIN nodes |-> nodes[o].node]

-----------------------------------------------------------------------------
(***************************************************************************)
(* Repeated work.                                                          *)
(***************************************************************************)

\* findRepeatedOperations: the groups of nodes with one fingerprint.
RepeatedOperations(nodes) ==
  LET Group(f) == {o \in DOMAIN nodes : nodes[o].fingerprint = f}
      repeated == {f \in {nodes[o].fingerprint : o \in DOMAIN nodes} \ {<<>>} :
                     Cardinality(Group(f)) > 1}
  IN {[fingerprint |-> f, nodes |-> InOrder(nodes, Group(f))] : f \in repeated}

\* findRepeatedArtifacts: the groups of artifacts of a kind with one
\* fingerprint; a node that holds two of them counts twice.
RepeatedArtifacts(nodes, kind) ==
  LET All == UNION {{[on |-> o, artifact |-> a] :
                       a \in {b \in nodes[o].artifacts : b.kind = kind /\ b.fingerprint # <<>>}}
                    : o \in DOMAIN nodes}
      Group(f) == {h \in All : h.artifact.fingerprint = f}
      repeated == {f \in {h.artifact.fingerprint : h \in All} : Cardinality(Group(f)) > 1}
  IN {[fingerprint |-> f, held |-> Group(f),
       nodes |-> InOrder(nodes, {h.on : h \in Group(f)})] : f \in repeated}

\* optionalFileFreshnessEvidence: digests decide if every read has one, sizes
\* and times if every read has those; a read without a file entry has neither.
FileFreshnessStatus(held) ==
  LET Freshness(h) == h.artifact.file[1]
      contents == {Freshness(h).content : h \in held}
      versions == {Freshness(h).version : h \in held}
  IN CASE <<>> \notin contents -> IF Cardinality(contents) = 1 THEN "verified" ELSE "unknown"
       [] <<>> \in contents /\ <<>> \notin versions ->
            IF Cardinality(versions) = 1 THEN "verified" ELSE "unknown"
       [] OTHER -> IF \A h \in held : Freshness(h).unavailable # "none"
                   THEN "unavailable" ELSE "unknown"

\* optionalFileSourceEquivalenceEvidence, likewise for the keys.
SourceEquivalenceStatus(held) ==
  LET Source(h) == h.artifact.file[2]
      keys == {Source(h).key : h \in held}
  IN CASE <<>> \notin keys -> IF Cardinality(keys) = 1 THEN "verified" ELSE "unknown"
       [] <<>> \in keys /\ (\A h \in held : Source(h).unavailable # "none") -> "unavailable"
       [] OTHER -> "unknown"

\* sumDefined: the sum of the numbers that are there, if any is.
SumDefined(numbers) ==
  LET there == SelectSeq(numbers, LAMBDA n : n # NotSet)
  IN IF there = <<>> THEN NotSet ELSE FoldSeq(LAMBDA a, b : a + b, 0, there)

Durations(nodes, ops) == [i \in DOMAIN ops |-> nodes[ops[i]].node.durationMs]
StatusesOf(nodes, ops) == {nodes[o].node.status : o \in ToSet(ops)}

\* createPotentialCachePoint: a repeated operation that never failed.
CachePoints(nodes) ==
  {r \in RepeatedOperations(nodes) : StatusesOf(nodes, r.nodes) = {"ok"}}

AvoidableLatency(nodes, point) == SumDefined(Tail(Durations(nodes, point.nodes)))

-----------------------------------------------------------------------------
(***************************************************************************)
(* Opportunities.                                                          *)
(***************************************************************************)
Opportunity(category, actionability, priority, confidence, ops, latency) ==
  [category |-> category, actionability |-> actionability, priority |-> priority,
   confidence |-> confidence, nodes |-> ops, latency |-> latency,
   freshness |-> "none", equivalence |-> "none", automaticSkip |-> FALSE]

\* createRepeatedFailureOpportunity
FailureOpportunities(nodes) ==
  {LET mixed == "ok" \in StatusesOf(nodes, r.nodes)
       failed == SelectSeq(r.nodes, LAMBDA o : nodes[o].node.status = "error")
   IN Opportunity("failure", IF mixed THEN "needs_review" ELSE "actionable",
                  IF mixed THEN "medium" ELSE "high", IF mixed THEN "medium" ELSE "high",
                  r.nodes, SumDefined(Durations(nodes, failed))) :
     r \in {s \in RepeatedOperations(nodes) : "error" \in StatusesOf(nodes, s.nodes)}}

\* createCacheOpportunity
CacheOpportunities(nodes) ==
  {LET latency == AvoidableLatency(nodes, p)
       rank == IF latency = NotSet THEN "medium" ELSE "high"
   IN Opportunity("cache", "needs_review", rank, rank, p.nodes, latency) :
     p \in CachePoints(nodes)}

\* createFileReuseOpportunity: skipping a read is never allowed.
FileReuseOpportunities(nodes) ==
  {[Opportunity("file_reuse", "needs_review", "medium", "medium", r.nodes, NotSet)
      EXCEPT !.freshness = FileFreshnessStatus(r.held),
             !.equivalence = SourceEquivalenceStatus(r.held)] :
     r \in RepeatedArtifacts(nodes, "file")}

\* createParallelismOpportunities: one for a single pair, and one for all the
\* pairs together if there are several.
ParallelismOpportunities(nodes) ==
  LET pairs == PotentialParallelism(NodeRecords(nodes))
      ops == InOrder(nodes, UNION {{p[1], p[2]} : p \in pairs})
      times == {nodes[o].node.durationMs : o \in ToSet(ops)}
      latency == IF Cardinality(pairs) = 1 /\ NotSet \notin times THEN Min(times) ELSE NotSet
  IN IF pairs = {} THEN {}
     ELSE {Opportunity("parallelism", "blocked", "low", "low", ops, latency)}

Opportunities(nodes) ==
  FailureOpportunities(nodes) \cup CacheOpportunities(nodes)
    \cup FileReuseOpportunities(nodes) \cup ParallelismOpportunities(nodes)

\* opportunityActionabilityRank, opportunityPriorityRank and
\* opportunityConfidenceRank, fileReuseEvidenceRank, and localeCompare.
Rank ==
  [actionable |-> 3, needs_review |-> 2, blocked |-> 1, high |-> 3, medium |-> 2, low |-> 1,
   verified |-> 2, unknown |-> 1, unavailable |-> 0, none |-> 0,
   cache |-> 1, failure |-> 2, file_reuse |-> 3, parallelism |-> 4]

\* The criteria of compareExecutionOpportunities, from the first to the last:
\* how much a precedes b by each (negative: a comes first).
Criteria(a, b, byNodes) ==
  LET bothFiles == a.category = "file_reuse" /\ b.category = "file_reuse"
  IN <<Rank[b.actionability] - Rank[a.actionability],
       Rank[b.priority] - Rank[a.priority],
       Rank[b.confidence] - Rank[a.confidence],
       IF bothFiles THEN Rank[b.freshness] - Rank[a.freshness] ELSE 0,
       IF bothFiles THEN Rank[b.equivalence] - Rank[a.equivalence] ELSE 0,
       CASE a.latency = NotSet /\ b.latency = NotSet -> 0
         [] a.latency = NotSet /\ b.latency # NotSet -> 1
         [] a.latency # NotSet /\ b.latency = NotSet -> -1
         [] OTHER -> b.latency - a.latency,
       Rank[a.category] - Rank[b.category],
       byNodes>>

\* compareExecutionOpportunities: a comes before b by the first criterion that
\* tells them apart.
Precedes(a, b, byNodes) ==
  LET differ == {i \in 1 .. 8 : Criteria(a, b, byNodes)[i] # 0}
  IN differ # {} /\ Criteria(a, b, byNodes)[Min(differ)] < 0

-----------------------------------------------------------------------------
(***************************************************************************)
(* The critical path.  findCriticalPath walks back along the edges into a  *)
(* node, depth first, and remembers the best path to every node it leaves; *)
(* a node it is still visiting counts as an empty path.  Here the edges    *)
(* into a node are taken in the order of the nodes they come from.         *)
(***************************************************************************)
Own(nodes, o) == IF nodes[o].durationMs = NotSet THEN 0 ELSE nodes[o].durationMs

\* The nodes from which an edge leads to each node.
Incoming(nodes, order) ==
  LET edges == {<<e.from, e.to>> : e \in Edges(nodes)}
  IN [o \in DOMAIN nodes |-> SelectSeq(order, LAMBDA p : <<p, o>> \in edges)]

\* compareCriticalPath: longer in time, then in nodes, comes first; the order of
\* two paths that agree in both is that of their ids and not modelled.
LongerPath(p, q) ==
  \/ p.durationMs > q.durationMs
  \/ p.durationMs = q.durationMs /\ Len(p.nodeIds) > Len(q.nodeIds)

\* Path p and then node o.
Extend(nodes, p, o) ==
  [durationMs |-> p.durationMs + Own(nodes, o), nodeIds |-> Append(p.nodeIds, o)]

NoPath == [durationMs |-> 0, nodeIds |-> <<>>]

\* Faulty: the path to the node before is looked up before it is searched for,
\* and so is often missing.
RECURSIVE BestPathOnce(_, _, _, _, _)
BestPathOnce(nodes, incoming, o, known, visiting) ==
  LET Consider(p, acc) ==
        LET after == BestPathOnce(nodes, incoming, p, acc.known, visiting \cup {o})
            candidate == Extend(nodes, IF p \in DOMAIN acc.known THEN acc.known[p] ELSE NoPath, o)
        IN [known |-> after, best |-> IF LongerPath(candidate, acc.best) THEN candidate ELSE acc.best]
      end == FoldLeft(LAMBDA acc, p : Consider(p, acc),
                      [known |-> known, best |-> Extend(nodes, NoPath, o)], incoming[o])
  IN IF o \in DOMAIN known \cup visiting THEN known
     ELSE [x \in DOMAIN end.known \cup {o} |-> IF x = o THEN end.best ELSE end.known[x]]

\* bestPathTo: the best path to o is added to what is known of other nodes.
RECURSIVE BestPathTo(_, _, _, _, _)
BestPathTo(nodes, incoming, o, known, visiting) ==
  LET Consider(p, acc) ==
        LET after == BestPathTo(nodes, incoming, p, acc.known, visiting \cup {o})
            candidate == Extend(nodes, IF p \in DOMAIN after THEN after[p] ELSE NoPath, o)
        IN [known |-> after, best |-> IF LongerPath(candidate, acc.best) THEN candidate ELSE acc.best]
      end == FoldLeft(LAMBDA acc, p : Consider(p, acc),
                      [known |-> known, best |-> Extend(nodes, NoPath, o)], incoming[o])
  IN IF o \in DOMAIN known \cup visiting THEN known
     ELSE [x \in DOMAIN end.known \cup {o} |-> IF x = o THEN end.best ELSE end.known[x]]

\* findCriticalPath: the best of the best paths to each node, taken in order.
CriticalPath(nodes) ==
  LET order == SetToSortSeq(DOMAIN nodes,
                            LAMBDA a, b : nodes[a].firstSeenIndex < nodes[b].firstSeenIndex)
      incoming == Incoming(nodes, order)
      known == FoldLeft(LAMBDA acc, o : BestPathTo(nodes, incoming, o, acc, {}), <<>>, order)
  IN FoldLeft(LAMBDA best, o : IF LongerPath(known[o], best) THEN known[o] ELSE best, NoPath, order)

-----------------------------------------------------------------------------
(***************************************************************************)
(* Token totals.  A node's tokens are a function from the metrics it       *)
(* reports to numbers.                                                     *)
(***************************************************************************)
SumMetric(tokens, key) ==
  SumDefined([i \in DOMAIN tokens |-> IF key \in DOMAIN tokens[i] THEN tokens[i][key] ELSE NotSet])

\* sumTotalTokens: reported totals if there are any, else the sum of the parts.
TotalTokens(tokens) ==
  LET parts == <<SumMetric(tokens, "inputTokens"), SumMetric(tokens, "outputTokens"),
                 SumMetric(tokens, "reasoningOutputTokens")>>
  IN IF SumMetric(tokens, "totalTokens") # NotSet THEN SumMetric(tokens, "totalTokens")
     ELSE SumDefined(parts)

\* createExecutionReportSummary, without what the graph itself holds.
ReportSummary(nodes, tokens) ==
  [criticalPath |-> CriticalPath(NodeRecords(nodes)),
   failedNodes |-> {o \in DOMAIN nodes : nodes[o].node.status = "error"},
   toolCalls |-> Cardinality({o \in DOMAIN nodes : nodes[o].node.kind = "tool_call"}),
   opportunities |-> Opportunities(nodes),
   repeatedPrompts |-> RepeatedArtifacts(nodes, "prompt"),
   avoidableLatency |->
     LET points == SetToSeq(CachePoints(nodes))
     IN SumDefined([i \in DOMAIN points |-> AvoidableLatency(nodes, points[i])]),
   totalTokens |-> TotalTokens(tokens)]
=============================================================================
