-------------------------- MODULE MCControlledReuse --------------------------
(***************************************************************************)
(* Calls about one tool read, whose source is edited between two plans, on *)
(* a store of one entry that lives from 2 to 4.                            *)
(***************************************************************************)
EXTENDS ControlledReuseExecutor, TLC

Key(fingerprint) == [run |-> "previous", node |-> "read", fingerprint |-> fingerprint]
MCKeys == {Key("before"), Key("after")}

\* Evidence under which the value stored for a fingerprint may be reused.
Justified(fingerprint) ==
  [shape |-> "ok", nodeId |-> "read", previousNodeId |-> "read-before",
   mode |-> "exact_read_only_tool_call",
   currentRunId |-> "current", previousRunId |-> "previous",
   decision |-> [found |-> TRUE, status |-> "allowed", kind |-> "tool_call",
                 sideEffect |-> "read_only", cacheKey |-> fingerprint,
                 previousNodeId |-> "read-before", dependency |-> "passed",
                 freshness |-> "passed", policy |-> "passed", requiredValidators |-> {}],
   eligibility |-> [decisionStatus |-> "allowed", match |-> "exact", kind |-> "tool_call",
                    sideEffect |-> "read_only"],
   dependency |-> "passed", policy |-> "passed",
   freshness |-> [status |-> "passed", observedAt |-> 1, maximumAgeMs |-> 3],
   source |-> [currentFingerprint |-> fingerprint, previousFingerprint |-> fingerprint,
               equivalence |-> "exact"],
   value |-> [key |-> Key(fingerprint), artifactMatches |-> TRUE, storage |-> "memory_only",
              createdAt |-> 1, expiresAt |-> 5],
   required |-> {"exact"}, passed |-> {"exact"}]

\* Fresh as long as the store lives and longer, or not; disabled, in need of review, and
\* at odds with the artifact.
MCEvidence ==
  LET base == Justified("before")
  IN {base, [Justified("after") EXCEPT !.freshness.maximumAgeMs = 1],
      [base EXCEPT !.mode = "disabled"],
      [base EXCEPT !.dependency = "unknown"],
      [base EXCEPT !.source.currentFingerprint = "after",
                   !.source.previousFingerprint = "after"]}

MCCodecs ==
  {[valid |-> TRUE, version |-> "v1", accepts |-> {"right", "wrong"}],
   [valid |-> TRUE, version |-> "v2", accepts |-> {"right"}]}

\* Too old at 3, and not yet valid at 2.
MCFreshnesses == {[observedAt |-> 1, maximumAgeMs |-> 1], [observedAt |-> 3, maximumAgeMs |-> 1]}
MCTimes == {NotATime, 1, 2, 3, 4}

MCSymmetry == Permutations(Calls) \cup Permutations(Objects)
=============================================================================
