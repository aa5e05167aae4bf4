--------------------------- MODULE EvidenceBundle ---------------------------
(***************************************************************************)
(* The evidence events of a run and the bundle they are exported in        *)
(* (packages/runtime: evidence.ts, evidence-bundle.ts).                    *)
(*                                                                         *)
(* An event names its kind and has the detail of that kind in the member   *)
(* the kind is given by, a privacy class, a replay mode and a redaction    *)
(* mode.  A bundle keeps its events, its redaction records and the         *)
(* collections that are read off its events, and carries the plans, passes  *)
(* and warnings of the run along.                                          *)
(***************************************************************************)
EXTENDS MirValidation

DetailKeys ==
  [capability_assumption |-> "capabilityAssumption", context_change |-> "contextChange",
   estimate |-> "estimate", pass_decision |-> "passDecision",
   policy_decision |-> "policyDecision", retry_fallback_decision |-> "retryFallbackDecision",
   routing_decision |-> "routingDecision", validator_result |-> "validatorResult",
   warning |-> "warning"]

EventKinds == DOMAIN DetailKeys
SourceKinds == {"cli", "pass", "provider", "runtime", "validator"}
EventPrivacyClasses == PrivacyClasses \cup {"unspecified"}
ReplayModes == {"full_trace", "metadata", "none"}
RedactionModes == {"none", "omitted", "redacted"}
ExportModes == {"full", "metadata_only", "redacted"}
SensitivePrivacyClasses == {"confidential", "restricted", "secret"}

-----------------------------------------------------------------------------
(***************************************************************************)
(* Validation.  The only version is "v0".                                  *)
(***************************************************************************)
VersionErrors(object) ==
  Require(object, "version", LAMBDA v : Typed(v, Unless(v = "v0", "unknown_version")))

\* validatePrivacy and validateRedaction
PrivacyErrors(event) ==
  Require(event, "privacy",
    LAMBDA p : Typed(p, Require(p, "privacyClass", LAMBDA v : Enum(v, EventPrivacyClasses))
                          \cup Require(p, "replayMode", LAMBDA v : Enum(v, ReplayModes))))

RedactionErrors(event) ==
  Require(event, "redaction",
    LAMBDA r : Typed(r, Require(r, "mode", LAMBDA v : Enum(v, RedactionModes))))

\* validateEvidenceEvent: the detail is asked for only if the kind is known.
EvidenceEventErrors(event) ==
  LET Detail == IF Get(event, "kind", Junk) \in EventKinds
                THEN Require(event, DetailKeys[event.kind], Scalar) ELSE {}
  IN Typed(event,
       VersionErrors(event)
         \cup Require(event, "kind", LAMBDA v : Enum(v, EventKinds))
         \cup RequireScalars(event, {"id", "summary"})
         \cup Require(event, "source",
                LAMBDA s : Typed(s, Require(s, "kind", LAMBDA v : Enum(v, SourceKinds))))
         \cup PrivacyErrors(event) \cup RedactionErrors(event) \cup Detail)

\* isFullEvidenceEvent
IsFullEvent(event) == EvidenceEventErrors(event) = {}

\* validateRedactedEventShell: less is asked of a shell's source, and no detail.
ShellErrors(event) ==
  Typed(event,
        VersionErrors(event)
          \cup Require(event, "kind", LAMBDA v : Enum(v, EventKinds))
          \cup RequireScalars(event, {"id", "summary", "source"})
          \cup PrivacyErrors(event) \cup RedactionErrors(event))

\* validatePrivacyPolicy
PrivacyPolicyErrors(policy) ==
  Typed(policy,
        Require(policy, "exportMatrixVersion",
                LAMBDA v : Typed(v, Unless(v = "v0", "unknown_version")))
          \cup Require(policy, "exportMode", LAMBDA v : Enum(v, ExportModes))
          \cup RequireScalars(policy, {"fullTraceOptIn"}))

\* validateEvidenceBundle: an event that is not a full one may be a shell.
BundleErrors(bundle) ==
  LET PlanRef(key) == Require(bundle, key,
                        LAMBDA p : Typed(p, RequireScalars(p, {"planId", "version"})))
      Event(event) == IF IsFullEvent(event) THEN {} ELSE ShellErrors(event)
  IN Typed(bundle,
       VersionErrors(bundle)
         \cup RequireScalars(bundle, {"runId", "createdAt", "planDiff", "replay"})
         \cup Require(bundle, "exportMode", LAMBDA v : Enum(v, ExportModes))
         \cup PlanRef("originalPlan") \cup PlanRef("optimizedPlan")
         \cup Require(bundle, "privacyPolicy", PrivacyPolicyErrors)
         \cup RequireScalars(bundle, {"contextDiff", "costEstimates", "estimates", "passes",
                "policyDecisions", "providerAssumptions", "redactions",
                "retryFallbackDecisions", "routingDecisions", "validatorResults", "warnings"})
         \cup Require(bundle, "events", LAMBDA events : Each(events, Event)))

-----------------------------------------------------------------------------
(***************************************************************************)
(* createEvidenceBundle                                                    *)
(***************************************************************************)

\* shouldRedactEvent
ShouldRedact(event) ==
  event.redaction.mode # "none" \/ event.privacy.privacyClass \in SensitivePrivacyClasses

\* shouldRedactFullExportEvent
ShouldRedactFullExport(event) ==
  event.redaction.mode = "redacted" \/ event.privacy.privacyClass = "secret"

RedactionRecord(event, mode) ==
  [eventId |-> event.id, mode |-> mode, privacyClass |-> event.privacy.privacyClass]

\* Faulty: the shell keeps the detail.
ShellWithDetail(event) ==
  [key \in DOMAIN event |->
     CASE key = "redaction" -> [event.redaction EXCEPT !.mode = "redacted"]
       [] key = "summary" -> "redacted"
       [] OTHER -> event[key]]

\* createRedactedEventShell: what is left of an event without its detail.
Shell(event) ==
  [key \in DOMAIN event \ {DetailKeys[event.kind]} |->
     CASE key = "redaction" -> [event.redaction EXCEPT !.mode = "redacted"]
       [] key = "summary" -> "redacted"
       [] OTHER -> event[key]]

\* One turn of the loop: what is kept of an event, and the record of what is not.
ExportEvent(event, exportMode) ==
  LET omitted == exportMode = "metadata_only" /\ event.privacy.replayMode = "full_trace"
      declaredOmitted == exportMode = "full" /\ event.redaction.mode = "omitted"
      shell == \/ exportMode = "full" /\ ShouldRedactFullExport(event)
               \/ exportMode = "redacted" /\ ShouldRedact(event)
      Part(events, records) == [events |-> events, redactions |-> records]
  IN CASE omitted -> Part(<<>>, <<RedactionRecord(event, "omitted")>>)
       [] ~omitted /\ declaredOmitted ->
            Part(<<>>, <<RedactionRecord(event, event.redaction.mode)>>)
       [] ~omitted /\ ~declaredOmitted /\ shell ->
            Part(<<Shell(event)>>, <<RedactionRecord(event, "redacted")>>)
       [] OTHER ->
            Part(<<event>>, IF event.redaction.mode = "none" THEN <<>>
                            ELSE <<RedactionRecord(event, event.redaction.mode)>>)

\* collectEvents
EventsOfKind(events, kind) == SelectSeq(events, LAMBDA e : e.kind = kind)

\* A full export without the opt-in throws.
MayExport(exportMode, allowFullTraceExport) == exportMode = "full" => allowFullTraceExport

\* The bundle of events, the redactions declared by the caller, and what is carried
\* along: planDiff, originalPlan, optimizedPlan, passes, warnings, fullTraceOptIn.
CreateEvidenceBundle(events, exportMode, declared, carried) ==
  LET parts == [i \in DOMAIN events |-> ExportEvent(events[i], exportMode)]
      kept == FlattenSeq([i \in DOMAIN parts |-> parts[i].events])
      full == SelectSeq(kept, IsFullEvent)
      estimates == EventsOfKind(full, "estimate")
  IN [version |-> "v0", runId |-> "run", createdAt |-> 0, planDiff |-> carried.planDiff,
      replay |-> "metadata", originalPlan |-> carried.originalPlan,
      optimizedPlan |-> carried.optimizedPlan, passes |-> carried.passes,
      warnings |-> carried.warnings, contextDiff |-> {c \in carried.planDiff : c.what = "context"},
      privacyPolicy |-> [exportMatrixVersion |-> "v0", exportMode |-> exportMode,
                         fullTraceOptIn |-> carried.fullTraceOptIn],
      exportMode |-> exportMode, events |-> kept,
      redactions |-> declared \o FlattenSeq([i \in DOMAIN parts |-> parts[i].redactions]),
      estimates |-> estimates,
      costEstimates |-> SelectSeq(estimates, LAMBDA e : e.estimate.estimateKind = "cost"),
      policyDecisions |-> EventsOfKind(full, "policy_decision"),
      providerAssumptions |-> EventsOfKind(full, "capability_assumption"),
      retryFallbackDecisions |-> EventsOfKind(full, "retry_fallback_decision"),
      routingDecisions |-> EventsOfKind(full, "routing_decision"),
      validatorResults |-> EventsOfKind(full, "validator_result")]

-----------------------------------------------------------------------------
(***************************************************************************)
(* What an export promises.                                                *)
(***************************************************************************)
HasDetail(event) == DetailKeys[event.kind] \in DOMAIN event

\* A list of events with the members that an export looks at, each of a known kind.
AreEvents(events) ==
  /\ Len(events) \in Nat /\ DOMAIN events = 1 .. Len(events)
  /\ \A i \in DOMAIN events : /\ {"id", "kind", "privacy", "redaction"} \subseteq DOMAIN events[i]
                              /\ events[i].kind \in EventKinds

\* Whether a mode lets the detail of an event leave.  Only the modes that redact look at
\* how sensitive an event is; a metadata-only export leaves out what asks for a full
\* trace and keeps every other event as it is, a secret one among them, although
\* evidencePrivacyExportMatrix would have it leave out credentials and prompts.
MayShowDetail(event, exportMode) ==
  LET class == event.privacy.privacyClass
      asked == event.redaction.mode \in {"omitted", "redacted"}
  IN CASE exportMode = "redacted" -> ~asked /\ class \notin SensitivePrivacyClasses
       [] exportMode = "full" -> ~asked /\ class # "secret"
       [] exportMode = "metadata_only" -> event.privacy.replayMode # "full_trace"

\* Every event is in the bundle, or the shell of it without the detail, or a record
\* that it was left out; and no event has its detail in it that may not show it.
AccountsFor(exported, events) ==
  LET kept == ToSet(exported.events)
      recorded == {<<r.eventId, r.mode>> : r \in ToSet(exported.redactions)}
  IN /\ \A e \in ToSet(events) :
          \/ e \in kept
          \/ <<e.id, "redacted">> \in recorded /\ \E k \in kept : k.id = e.id /\ ~HasDetail(k)
          \/ <<e.id, "omitted">> \in recorded
     /\ \A k \in kept : HasDetail(k) => MayShowDetail(k, exported.exportMode)
=============================================================================
