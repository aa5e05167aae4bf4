----------------------------- MODULE PassRunner -----------------------------
(***************************************************************************)
(* runOptimizationPasses of packages/runtime (runner.ts): the passes of a  *)
(* run, one after the other, each on the plan the one before it left.      *)
(*                                                                         *)
(* Every pass of the configuration is a record of its name and version.  A *)
(* pass may throw instead of returning a result; when is not modelled.     *)
(* Times, the run's id and the text of errors are left out, and so is the  *)
(* list of earlier evidence a pass is given, which no built-in pass reads. *)
(***************************************************************************)
EXTENDS PlanPasses

CONSTANT Configurations
  \* of a run: plan, passes, disabled (name and perhaps version), failurePolicy (in a
  \* set that is empty if the option is not given), providers

VARIABLES configuration, \* the configuration of this run
          plan,          \* currentPlan
          at,            \* how many passes were looked at
          records,       \* a record for each of them
          evidence,      \* of every pass that returned
          warnings,      \* of every pass that returned
          status         \* "running" or "done"

runnerVars == <<configuration, plan, at, records, evidence, warnings, status>>

\* findDisabledPass
IsDisabled(pass) ==
  \E entry \in configuration.disabled :
    entry.name = pass.name /\ (Has(entry, "version") => entry.version = pass.version)

\* options.failurePolicy ?? "stop"
StopsOnFailure == configuration.failurePolicy \subseteq {"stop"}

Current == configuration.passes[at + 1]

RecordPass(pass, enabled, error, result) ==
  records' = Append(records, [pass |-> pass, enabled |-> enabled, error |-> error,
                              result |-> result])

-----------------------------------------------------------------------------
RunnerInit ==
  /\ configuration \in Configurations
  /\ plan = configuration.plan
  /\ at = 0
  /\ records = <<>> /\ evidence = <<>> /\ warnings = <<>>
  /\ status = "running"

IsNext == status = "running" /\ at < Len(configuration.passes)

\* A pass named in the options is recorded and skipped.
SkipDisabled ==
  /\ IsNext
  /\ IsDisabled(Current)
  /\ at' = at + 1
  /\ RecordPass(Current, FALSE, FALSE, {})
  /\ UNCHANGED <<configuration, plan, evidence, warnings, status>>

\* A pass returns: its plan is the next one's.
Apply ==
  /\ IsNext
  /\ ~IsDisabled(Current)
  /\ \E result \in {ApplyPass(Current.name, plan, configuration.providers)} :
       /\ plan' = result.plan
       /\ evidence' = evidence \o result.evidence
       /\ warnings' = warnings \o result.warnings
       /\ RecordPass(Current, TRUE, FALSE, {result})
  /\ at' = at + 1
  /\ UNCHANGED <<configuration, status>>

\* Faulty: the plan of the pass that failed is kept.
ThrowAndKeepPlan ==
  /\ IsNext
  /\ ~IsDisabled(Current)
  /\ at' = at + 1
  /\ RecordPass(Current, TRUE, TRUE, {})
  /\ status' = IF StopsOnFailure THEN "done" ELSE "running"
  /\ plan' = ApplyPass(Current.name, plan, configuration.providers).plan
  /\ UNCHANGED <<configuration, evidence, warnings>>

\* A pass throws: nothing of it is kept, and the run stops unless it is to go on.
Throw ==
  /\ IsNext
  /\ ~IsDisabled(Current)
  /\ at' = at + 1
  /\ RecordPass(Current, TRUE, TRUE, {})
  /\ status' = IF StopsOnFailure THEN "done" ELSE "running"
  /\ UNCHANGED <<configuration, plan, evidence, warnings>>

\* The report is returned.
ReturnReport ==
  /\ status = "running"
  /\ at = Len(configuration.passes)
  /\ status' = "done"
  /\ UNCHANGED <<configuration, plan, at, records, evidence, warnings>>

RunnerNext == SkipDisabled \/ Apply \/ Throw \/ ReturnReport

RunnerSpec == RunnerInit /\ [][RunnerNext]_runnerVars
=============================================================================
