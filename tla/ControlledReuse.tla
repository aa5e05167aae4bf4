--------------------------- MODULE ControlledReuse ---------------------------
(***************************************************************************)
(* Which operations may be answered with a stored value: the authorization *)
(* of packages/runtime/src/controlled-reuse.ts and the node plan that      *)
(* controlled-reuse-planner.ts draws from it.  Both are pure functions of  *)
(* the evidence they are given and of the time.                            *)
(*                                                                         *)
(* An evidence record is a planning input with one candidate:              *)
(*   shape          "ok", or which check of its form fails                 *)
(*   nodeId, previousNodeId       the candidate                            *)
(*   mode           of the policy                                          *)
(*   currentRunId, previousRunId  the artifact's comparison                *)
(*   decision       the artifact's decision for nodeId: found, status,     *)
(*                  kind, sideEffect, cacheKey, previousNodeId,            *)
(*                  dependency, freshness, policy, requiredValidators      *)
(*   eligibility    decisionStatus, match, kind, sideEffect                *)
(*   dependency, policy           the status of the candidate's evidence   *)
(*   freshness      status, observedAt, maximumAgeMs                       *)
(*   source         currentFingerprint, previousFingerprint, equivalence   *)
(*   value          key (run, node and fingerprint), artifactMatches,      *)
(*                  storage, createdAt, expiresAt                          *)
(*   required, passed             sets of validators                       *)
(***************************************************************************)
EXTENDS Integers

NoTime == -1

When(condition, code) == IF condition THEN {code} ELSE {}

-----------------------------------------------------------------------------
(***************************************************************************)
(* authorize: one operator for each review, as the set of reason codes.    *)
(***************************************************************************)
DecisionReasons(e) ==
  When(e.decision.status = "blocked", "decision_artifact_blocked")
  \cup When(e.decision.status = "needs_review", "decision_artifact_needs_review")
  \cup When(e.eligibility.kind # "tool_call" \/ e.decision.kind # "tool_call",
            "operation_kind_unsupported")
  \cup When(e.eligibility.sideEffect # "read_only" \/ e.decision.sideEffect # "read_only",
            "side_effect_unsupported")
  \cup When(\/ e.eligibility.decisionStatus # "allowed"
            \/ e.decision.status # e.eligibility.decisionStatus,
            "decision_status_mismatch")

\* "none" is a decision without a cacheKey.
SourceReasons(e) ==
  When(e.eligibility.match # "exact" \/ e.source.equivalence # "exact",
       "source_equivalence_needs_review")
  \cup When(\/ e.decision.cacheKey = "none"
            \/ \E f \in {e.source.currentFingerprint, e.source.previousFingerprint,
                         e.value.key.fingerprint} : f # e.decision.cacheKey,
            "source_fingerprint_mismatch")

\* The artifact's status and the current one of a kind of evidence.
EvidenceReasons(statuses, failed, review) ==
  When("unknown" \in statuses, review)
  \cup When(statuses \ {"passed", "unknown"} # {}, failed)

StatusReasons(e) ==
  EvidenceReasons({e.decision.dependency, e.dependency},
                  "dependency_evidence_failed", "dependency_evidence_needs_review")
  \cup EvidenceReasons({e.decision.freshness, e.freshness.status},
                       "freshness_evidence_failed", "freshness_evidence_needs_review")
  \cup EvidenceReasons({e.decision.policy, e.policy},
                       "policy_evidence_failed", "policy_evidence_needs_review")

FreshnessReasons(e, now) ==
  When(\/ now = NoTime \/ e.freshness.observedAt = NoTime
       \/ now < e.freshness.observedAt
       \/ now - e.freshness.observedAt > e.freshness.maximumAgeMs,
       "freshness_stale")

ValidatorReasons(e) ==
  When(e.required = {} \/ ~(e.required \subseteq e.passed), "validator_missing")

\* The lifetime of a well-formed input has two valid timestamps.
ValueReasons(e, now) ==
  When(e.value.storage # "memory_only", "storage_policy_unsupported")
  \cup When(\/ ~e.value.artifactMatches
            \/ e.value.key.node # e.nodeId
            \/ e.value.key.run # e.previousRunId,
            "provenance_mismatch")
  \cup When(now # NoTime /\ now < e.value.createdAt, "reusable_value_not_yet_valid")
  \cup When(now = NoTime \/ e.value.expiresAt <= e.value.createdAt \/ now >= e.value.expiresAt,
            "reusable_value_expired")

AuthorizationReasons(e, now) ==
  When(e.mode # "exact_read_only_tool_call", "opt_in_required")
  \cup
  IF ~e.decision.found THEN {"decision_not_found"}
  ELSE DecisionReasons(e) \cup SourceReasons(e) \cup StatusReasons(e)
         \cup FreshnessReasons(e, now) \cup ValidatorReasons(e) \cup ValueReasons(e, now)

-----------------------------------------------------------------------------
(***************************************************************************)
(* planControlledReuse.                                                    *)
(***************************************************************************)

\* validateInputShape: a maximum age must be positive here, though the store
\* takes zero.
WellFormed(e) == e.shape = "ok" /\ e.freshness.maximumAgeMs > 0

FormReason(e) ==
  IF e.shape = "plan_version" THEN "incompatible_plan_version"
  ELSE "incompatible_authorization_input"

PlanReasons(e, now) ==
  IF ~WellFormed(e) THEN {FormReason(e)}
  ELSE AuthorizationReasons(e, now)
         \cup When(e.decision.found /\ e.decision.previousNodeId # e.previousNodeId,
                   "previous_node_mismatch")
         \cup When(/\ e.decision.found
                   /\ ~(e.decision.requiredValidators \subseteq e.required \cap e.passed),
                   "validator_contract_mismatch")

\* The codes that end in needs_review.
ReviewReasons ==
  {"decision_artifact_needs_review", "dependency_evidence_needs_review",
   "freshness_evidence_needs_review", "policy_evidence_needs_review",
   "source_equivalence_needs_review"}

ShouldExecuteNormally(e, reasons) ==
  /\ ~(e.decision.found /\ e.decision.status = "blocked")
  /\ \A code \in reasons :
       \/ code \in {"decision_not_found", "opt_in_required"} \cup ReviewReasons
       \/ /\ code = "decision_status_mismatch"
          /\ e.decision.found /\ e.decision.status = "needs_review"

PlanAction(e, now) ==
  LET reasons == PlanReasons(e, now)
  IN IF reasons = {} THEN "reuse"
     ELSE IF WellFormed(e) /\ ShouldExecuteNormally(e, reasons) THEN "execute_normally"
     ELSE "blocked"

\* The node plan.  A plan to reuse has a provenance, kept here with the nodes
\* it is about; the versions in it are constants.
NoIdentity == [nodeId |-> "none"]

NodePlan(e, now) ==
  LET action == PlanAction(e, now)
  IN [action |-> action,
      nodeId |-> e.nodeId,
      identity |-> IF action # "reuse" THEN NoIdentity
                   ELSE [nodeId |-> e.nodeId, previousNodeId |-> e.previousNodeId,
                         currentRunId |-> e.currentRunId, previousRunId |-> e.previousRunId,
                         fingerprint |-> e.value.key.fingerprint]]

-----------------------------------------------------------------------------
\* What reuse needs, as packages/runtime/README.md:151-163 lists it.
ReuseIsJustified(e, now) ==
  /\ e.mode = "exact_read_only_tool_call"
  /\ e.decision.found /\ e.decision.status = "allowed"
  /\ e.decision.kind = "tool_call" /\ e.decision.sideEffect = "read_only"
  /\ e.source.currentFingerprint = e.source.previousFingerprint
  /\ e.value.key = [run |-> e.previousRunId, node |-> e.nodeId,
                    fingerprint |-> e.source.currentFingerprint]
  /\ {e.dependency, e.decision.dependency, e.policy, e.decision.policy,
      e.freshness.status, e.decision.freshness} = {"passed"}
  /\ now \in e.freshness.observedAt .. e.freshness.observedAt + e.freshness.maximumAgeMs
  /\ e.value.createdAt <= now /\ now < e.value.expiresAt
  /\ e.required # {} /\ e.required \subseteq e.passed
  /\ e.decision.previousNodeId = e.previousNodeId
  /\ e.decision.requiredValidators \subseteq e.passed
=============================================================================
