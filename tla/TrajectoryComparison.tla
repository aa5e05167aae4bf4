------------------------ MODULE TrajectoryComparison ------------------------
(***************************************************************************)
(* observed-trajectory-comparison.ts of packages/runtime: which calls of a *)
(* run could have been answered from an earlier run, and what is decided   *)
(* of each.                                                                *)
(*                                                                         *)
(* A graph has the id of its run, its nodes (their ids are unique, as      *)
(* buildExecutionGraph makes them) and reuse, the record of that name in   *)
(* its metadata; so has a node.  A member that is absent, or of the wrong  *)
(* type, reads as AbsentMember.  The files of a node are the freshness     *)
(* statuses of its file artifacts.  An id is a number and localeCompare    *)
(* their order.  The lists of a comparison are sets: their order, that of  *)
(* the nodes, is left out, and so are messages, the rendering of the       *)
(* artifact and its constant parts.                                        *)
(***************************************************************************)
EXTENDS Naturals, FiniteSets, SequencesExt

CONSTANTS AbsentMember, Empty \* Empty is the empty string

\* readString, readBoolean and readStringArray of readRecord
Read(record, key) == IF key \in DOMAIN record THEN record[key] ELSE AbsentMember
ReadStrings(record, key) == IF key \in DOMAIN record THEN record[key] ELSE {}

SafetyClasses ==
  {"approval_required", "idempotent_mutation", "non_idempotent_mutation", "read_only", "unknown"}

\* reusableOperationKind
IsCall(node) == node.kind \in {"model_call", "tool_call"}

NodesWithId(graph, id) == {node \in ToSet(graph.nodes) : node.id = id}

-----------------------------------------------------------------------------
(***************************************************************************)
(* The checks.  Each has a status for the two nodes p and c of the         *)
(* previous and the current run.                                           *)
(***************************************************************************)
PassedIf(holds) == IF holds THEN "passed" ELSE "failed"

\* Two values that have to be known, and then to match.
Compared(before, after, match) ==
  IF AbsentMember \in {before, after} THEN "unknown" ELSE PassedIf(match)

CheckCacheKeyEquality(p, c) ==
  Compared(p.fingerprint, c.fingerprint, p.fingerprint = c.fingerprint)

CheckDependencyEquality(p, c) == PassedIf(p.dependencies = c.dependencies)

CheckRuntimeCompatibility(previous, current) ==
  LET before == Read(previous.reuse, "runtimeCompatibilityKey")
      after == Read(current.reuse, "runtimeCompatibilityKey")
  IN Compared(before, after, before = after)

CheckStatusSuccess(p, c) == PassedIf(p.status = "ok" /\ c.status = "ok")

\* Each run answers for the validators that it declares itself.
AllValidatorsPassed(node) ==
  LET required == ReadStrings(node.reuse, "validatorsRequired")
  IN required # {} /\ required \subseteq ReadStrings(node.reuse, "validatorsPassed")

CheckValidatorRequirements(p, c) ==
  PassedIf(c.kind = "model_call" => AllValidatorsPassed(p) /\ AllValidatorsPassed(c))

\* Faulty: what the earlier run was allowed is not looked at.
CheckPolicyOfCurrent(p, c) ==
  LET allowed == Read(c.reuse, "policyAllowed") IN Compared(allowed, allowed, allowed = TRUE)

CheckPolicyConstraints(p, c) ==
  LET before == Read(p.reuse, "policyAllowed")
      after == Read(c.reuse, "policyAllowed")
  IN Compared(before, after, before = TRUE /\ after = TRUE)

CheckFreshnessConstraints(p, c) ==
  IF p.files \cup c.files \subseteq {"verified"} THEN "passed" ELSE "unknown"

\* readToolReplaySafety: a class that is not one of the known ones counts as none, and
\* then sideEffecting decides.
SideEffectClass(node) ==
  LET class == Read(node.reuse, "sideEffectClass")
      effecting == Read(node.reuse, "sideEffecting")
  IN IF class \in SafetyClasses THEN class
     ELSE IF effecting = AbsentMember THEN AbsentMember
     ELSE IF effecting THEN "non_idempotent_mutation" ELSE "read_only"

\* What has to be told alike in both runs of a tool call of a class.
ReplayEvidence ==
  [read_only |-> {},
   idempotent_mutation |-> {"idempotencyKeyRef", "policyEvidenceRef"},
   approval_required |-> {"approvalEvidenceRef", "idempotencyKeyRef", "policyEvidenceRef"}]

MatchingReplayEvidence(p, c, keys) ==
  \A key \in keys : /\ Read(p.reuse, key) \notin {AbsentMember, Empty}
                    /\ Read(p.reuse, key) = Read(c.reuse, key)

\* checkSideEffects and the code that it gives to blockersForChecks
SideEffectReasons(p, c) ==
  LET classes == {SideEffectClass(p), SideEffectClass(c)}
      class == SideEffectClass(c)
  IN IF c.kind # "tool_call" THEN {}
     ELSE IF classes \cap {AbsentMember, "unknown"} # {} THEN {"side_effect_unknown"}
     ELSE IF Cardinality(classes) = 2 THEN {"side_effect_policy_missing"}
     ELSE IF class = "non_idempotent_mutation" THEN {"side_effecting_tool"}
     ELSE IF MatchingReplayEvidence(p, c, ReplayEvidence[class]) THEN {}
     ELSE {"side_effect_policy_missing"}

\* blockersForChecks: a reason for each check that did not pass.
Blocker(status, ifUnknown, ifFailed) ==
  CASE status = "passed" -> {}
    [] status = "unknown" -> {ifUnknown}
    [] status = "failed" -> {ifFailed}

Reasons(previous, current, p, c) ==
  Blocker(CheckCacheKeyEquality(p, c), "cache_key_unknown", "cache_key_unknown")
    \cup Blocker(CheckDependencyEquality(p, c), "dependency_mismatch", "dependency_mismatch")
    \cup Blocker(CheckRuntimeCompatibility(previous, current),
                 "runtime_unknown", "runtime_incompatible")
    \cup Blocker(CheckStatusSuccess(p, c), "mixed_status", "mixed_status")
    \cup Blocker(CheckValidatorRequirements(p, c), "validator_missing", "validator_missing")
    \cup Blocker(CheckPolicyConstraints(p, c), "policy_unknown", "policy_denied")
    \cup Blocker(CheckFreshnessConstraints(p, c), "freshness_unknown", "freshness_unknown")
    \cup SideEffectReasons(p, c)

-----------------------------------------------------------------------------
(***************************************************************************)
(* The comparison: every call of the current run has changed, is blocked   *)
(* or is reusable.                                                         *)
(***************************************************************************)

\* estimatesForNode
Estimates(node) ==
  [costUsd |-> Read(node.metrics, "costUsd"), totalTokens |-> Read(node.metrics, "totalTokens"),
   latencyMs |-> IF Read(node.metrics, "latencyMs") = AbsentMember THEN node.durationMs
                 ELSE node.metrics.latencyMs]

\* reviewCandidate
Review(previous, current, p, c) ==
  [nodeId |-> c.id, operationKind |-> c.kind, previousNodeId |-> p.id, cacheKey |-> c.fingerprint,
   estimates |-> Estimates(c), reasons |-> Reasons(previous, current, p, c),
   requiredValidators |-> IF c.kind = "model_call" THEN ReadStrings(c.reuse, "validatorsRequired")
                          ELSE {},
   sideEffectClass |-> IF c.kind = "tool_call" THEN SideEffectClass(c) ELSE AbsentMember,
   dependencyEvidence |-> CheckDependencyEquality(p, c),
   freshnessEvidence |-> CheckFreshnessConstraints(p, c),
   policyConstraints |-> CheckPolicyConstraints(p, c)]

\* The two nodes are no candidate: not one kind of call, or known to differ.
HasChanged(p, c) == p.kind # c.kind \/ CheckCacheKeyEquality(p, c) = "failed"

ChangedNode(c, reason) == [nodeId |-> c.id, operationKind |-> c.kind, reason |-> reason]

\* sumEstimate, in a set that is empty if nothing is known
SumEstimate(reviews, key) ==
  LET known == {r \in reviews : r.estimates[key] # AbsentMember}
  IN IF known = {} THEN {} ELSE {MapThenSumSet(LAMBDA r : r.estimates[key], known)}

\* compareObservedExecutionGraphs.  A candidate without a reason has a cache key, so the
\* second test for one changes nothing.
CompareObservedExecutionGraphs(previous, current) ==
  LET calls == {c \in ToSet(current.nodes) : IsCall(c)}
      Known(c) == CHOOSE p \in NodesWithId(previous, c.id) : TRUE
      missing == {c \in calls : NodesWithId(previous, c.id) = {}}
      changed == {c \in calls \ missing : HasChanged(Known(c), c)}
      reviews == {Review(previous, current, Known(c), c) : c \in calls \ (missing \cup changed)}
      reusable == {r \in reviews : r.reasons = {}}
  IN [previousRunId |-> previous.runId, currentRunId |-> current.runId,
      changedNodes |-> {ChangedNode(c, "missing_previous_node") : c \in missing}
                         \cup {ChangedNode(c, "cache_key_changed") : c \in changed},
      blockedCandidates |-> reviews \ reusable,
      reusableModelCalls |-> {r \in reusable : r.operationKind = "model_call"},
      reusableToolCalls |-> {r \in reusable : r.operationKind = "tool_call"},
      avoidable |-> [key \in {"costUsd", "latencyMs", "totalTokens"} |-> SumEstimate(reusable, key)]]

-----------------------------------------------------------------------------
(***************************************************************************)
(* createReuseDecisionArtifact                                             *)
(***************************************************************************)
Decision(review, status, reasons) ==
  [key \in DOMAIN review \cup {"status"} |->
     CASE key = "status" -> status
       [] key = "reasons" -> reasons
       [] OTHER -> review[key]]

DecideReusableNode(review) ==
  CASE review.operationKind = "model_call" ->
         Decision(review, "needs_review", {"model_reuse_needs_review"})
    [] review.operationKind = "tool_call" /\ review.sideEffectClass = "read_only" ->
         Decision(review, "allowed", review.reasons)
    [] review.operationKind = "tool_call" /\ review.sideEffectClass # "read_only" ->
         Decision(review, "needs_review", {"mutation_reuse_needs_review"})

DecideBlockedCandidate(review) == Decision(review, "blocked", review.reasons)

Decisions(comparison) ==
  {DecideReusableNode(r) : r \in comparison.reusableModelCalls \cup comparison.reusableToolCalls}
    \cup {DecideBlockedCandidate(r) : r \in comparison.blockedCandidates}

DecisionStatusRank == [allowed |-> 0, needs_review |-> 1, blocked |-> 2]

\* sortReuseDecisions
ComesBefore(left, right) ==
  LET l == DecisionStatusRank[left.status]
      r == DecisionStatusRank[right.status]
  IN l < r \/ (l = r /\ left.nodeId < right.nodeId)

ReuseDecisions(comparison) == SetToSortSeq(Decisions(comparison), ComesBefore)

-----------------------------------------------------------------------------
(***************************************************************************)
(* What a comparison promises.                                             *)
(***************************************************************************)
HasUniqueIds(graph) == \A n, m \in ToSet(graph.nodes) : n.id = m.id => n = m

CallIds(graph) == {c.id : c \in {n \in ToSet(graph.nodes) : IsCall(n)}}
ChangedIds(comparison) == {c.nodeId : c \in comparison.changedNodes}

\* What is decided of some nodes, and why.
Verdicts(comparison, ids) ==
  {<<d.nodeId, d.status, d.reasons>> : d \in {e \in Decisions(comparison) : e.nodeId \in ids}}

\* Whichever of two runs is taken for the earlier one, a call of both gets the same
\* verdict for the same reasons: no check looks at one run only, so nothing that one of
\* them lacks is made up for by the order.
AgreeBothWays(one, other) ==
  LET shared == CallIds(one) \cap CallIds(other)
      forth == CompareObservedExecutionGraphs(one, other)
      back == CompareObservedExecutionGraphs(other, one)
  IN /\ ChangedIds(forth) \cap shared = ChangedIds(back) \cap shared
     /\ Verdicts(forth, shared) = Verdicts(back, shared)

\* Every call of the current run, and nothing else, has changed or is decided of, once.
EveryCallIsDecided(previous, current) ==
  LET comparison == CompareObservedExecutionGraphs(previous, current)
      decided == {d.nodeId : d \in Decisions(comparison)}
  IN /\ decided \cap ChangedIds(comparison) = {}
     /\ decided \cup ChangedIds(comparison) = CallIds(current)
     /\ \A d, e \in Decisions(comparison) : d.nodeId = e.nodeId => d = e
=============================================================================
