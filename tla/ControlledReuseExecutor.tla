----------------------- MODULE ControlledReuseExecutor -----------------------
(***************************************************************************)
(* executeControlledReuse (packages/runtime/src/                           *)
(* controlled-reuse-executor.ts): several calls that share one value store *)
(* with the application around them.                                       *)
(*                                                                         *)
(* A call holds a plan made earlier, from evidence that may have changed   *)
(* since.  Up to the normal execution the call is synchronous, one action; *)
(* while it awaits executeNormally the application and the other calls go  *)
(* on.  The application inserts values, closes the store and may change    *)
(* what an object it holds contains.                                       *)
(***************************************************************************)
EXTENDS ReuseValueStore, ControlledReuse

CONSTANTS
  Calls,
  Evidence,     \* the planning inputs, see ControlledReuse
  Codecs,       \* records with valid, version and accepts
  Contracts,    \* sets of values that validateBehaviorEquivalence lets pass
  Freshnesses,  \* of insertions
  Times         \* that callers pass as now

ASSUME TimesAssumption == Times \subseteq Nat \cup {NotATime}

\* Well-formed ages and times; both times of a lifetime parse.
ASSUME EvidenceAssumption ==
  \A e \in Evidence :
    /\ e.freshness.observedAt \in Nat \cup {NotATime} /\ e.freshness.maximumAgeMs \in Int
    /\ e.value.createdAt \in Nat /\ e.value.expiresAt \in Nat
    /\ e.value.key \in Keys

ASSUME KeysAssumption ==
  \A k \in Keys : k = [run |-> k.run, node |-> k.node, fingerprint |-> k.fingerprint]

VARIABLES
  pc,        \* pc[c]: "idle", "planned", "executing" or "done"
  plan,      \* plan[c]: the node plan the caller holds
  result,    \* result[c]: how the call ended
  executed,  \* executed[c]: how often the call invoked executeNormally
  refused    \* history: the objects a contract refused, by the key they were
             \* served under, since the last insertion under that key

callVars == <<pc, plan, result, executed, refused>>
vars == <<storeVars, callVars>>

Nodes == {k.node : k \in Keys}

NoPlan == [action |-> "none"]
NoResult == [status |-> "none"]

Init ==
  /\ StoreInit
  /\ pc = [c \in Calls |-> "idle"]
  /\ plan = [c \in Calls |-> NoPlan]
  /\ result = [c \in Calls |-> NoResult]
  /\ executed = [c \in Calls |-> 0]
  /\ refused = {}

-----------------------------------------------------------------------------
\* planControlledReuse, ahead of the call.
Plan(c, e, now) ==
  /\ pc[c] = "idle"
  /\ pc' = [pc EXCEPT ![c] = "planned"]
  /\ plan' = [plan EXCEPT ![c] = NodePlan(e, now)]
  /\ UNCHANGED <<storeVars, result, executed, refused>>

\* sameReuseIdentity.
SameReuseIdentity(planned, current) ==
  planned.action = "reuse" /\ current.action = "reuse" /\ planned.identity = current.identity

\* Faulty: the plan that was handed in is followed.
TrustPlan(c, node, e, now) ==
  IF e.nodeId # node \/ plan[c].nodeId # node THEN "blocked"
  ELSE IF plan[c].action = "reuse" THEN "lookup"
  ELSE plan[c].action

\* What the call does with node, the plan it holds and the evidence at the
\* boundary: the plan is made again before anything is looked up.
Verdict(c, node, e, now) ==
  LET current == NodePlan(e, now)
  IN IF e.nodeId # node \/ plan[c].nodeId # node THEN "blocked"
     ELSE IF current.action # "reuse" THEN current.action
     ELSE IF ~SameReuseIdentity(plan[c], current) THEN "blocked"
     ELSE "lookup"

\* result keeps of the evidence what the properties ask of it, and whether the store
\* may serve the value under its key to the codecs, one or none, that looked it up.
End(c, status, e, now, codecs) ==
  /\ pc' = [pc EXCEPT ![c] = "done"]
  /\ result' = [result EXCEPT ![c] =
       [status |-> status,
        justified |-> ReuseIsJustified(e, now),
        servable |-> \A codec \in codecs : MayBeServed(e.value.key, codec, now),
        disabled |-> WellFormed(e) /\ e.nodeId = plan[c].nodeId /\ e.mode = "disabled",
        identity |-> NodePlan(e, now).identity]]

\* The call invokes executeNormally and awaits it.
Execute(c) ==
  /\ pc' = [pc EXCEPT ![c] = "executing"]
  /\ executed' = [executed EXCEPT ![c] = @ + 1]
  /\ UNCHANGED result

ExecuteBlocked(c, node, e, now) ==
  /\ pc[c] = "planned"
  /\ Verdict(c, node, e, now) = "blocked"
  /\ End(c, "blocked", e, now, {})
  /\ UNCHANGED <<storeVars, plan, executed, refused>>

ExecuteNormally(c, node, e, now) ==
  /\ pc[c] = "planned"
  /\ Verdict(c, node, e, now) = "execute_normally"
  /\ Execute(c)
  /\ UNCHANGED <<storeVars, plan, refused>>

\* The call has come to the lookup: the store has no value to serve, ...
ExecuteAfterMiss(c, e, codec, now) ==
  LET request == [malformed |-> None, key |-> e.value.key]
  IN /\ LookupReply(request, codec, now).status # "hit"
     /\ Lookup(request, codec, now)
     /\ Execute(c)
     /\ UNCHANGED <<plan, refused>>

\* Faulty: a value is reused and the operation is executed too, to refresh it.
ReuseAndRefresh(c, e, codec, now, contract) ==
  LET request == [malformed |-> None, key |-> e.value.key]
  IN /\ LookupReply(request, codec, now).status = "hit"
     /\ content[LookupReply(request, codec, now).object] \in contract
     /\ Lookup(request, codec, now)
     /\ End(c, "reused", e, now, {codec})
     /\ executed' = [executed EXCEPT ![c] = @ + 1]
     /\ UNCHANGED <<plan, refused>>

\* ... or the contract lets the served object pass, ...
Reuse(c, e, codec, now, contract) ==
  LET request == [malformed |-> None, key |-> e.value.key]
  IN /\ LookupReply(request, codec, now).status = "hit"
     /\ content[LookupReply(request, codec, now).object] \in contract
     /\ Lookup(request, codec, now)
     /\ End(c, "reused", e, now, {codec})
     /\ UNCHANGED <<plan, executed, refused>>

\* Faulty: the refused value is left in the store.
ExecuteKeepingRefused(c, e, codec, now, contract) ==
  LET request == [malformed |-> None, key |-> e.value.key]
  IN /\ LookupReply(request, codec, now).status = "hit"
     /\ content[LookupReply(request, codec, now).object] \notin contract
     /\ Lookup(request, codec, now)
     /\ Execute(c)
     /\ refused' = refused \cup {<<e.value.key, entries[e.value.key].object>>}
     /\ UNCHANGED plan

\* ... or it refuses the object, or throws: the lookup is followed by an
\* invalidate, and the operation is executed.
ExecuteAfterRefusal(c, e, codec, now, contract) ==
  LET request == [malformed |-> None, key |-> e.value.key]
  IN /\ LookupReply(request, codec, now).status = "hit"
     /\ content[LookupReply(request, codec, now).object] \notin contract
     /\ Invalidate(request)
     /\ Execute(c)
     /\ refused' = refused \cup {<<e.value.key, entries[e.value.key].object>>}
     /\ UNCHANGED plan

\* The normal execution ends, with a value or by throwing to the caller.
Resolve(c) ==
  /\ pc[c] = "executing"
  /\ pc' = [pc EXCEPT ![c] = "done"]
  /\ \E status \in {"executed_normally", "rejected"} :
       result' = [result EXCEPT ![c] = [status |-> status]]
  /\ UNCHANGED <<storeVars, plan, executed, refused>>

ExecuteByLookup(c, node, e, now) ==
  /\ pc[c] = "planned"
  /\ Verdict(c, node, e, now) = "lookup"
  /\ \E codec \in Codecs :
       \/ ExecuteAfterMiss(c, e, codec, now)
       \/ \E contract \in Contracts : \/ Reuse(c, e, codec, now, contract)
                                     \/ ExecuteAfterRefusal(c, e, codec, now, contract)

CallStep(c) ==
  \/ \E e \in Evidence, now \in Times : Plan(c, e, now)
  \/ \E e \in Evidence, now \in Times, node \in Nodes :
       \/ ExecuteBlocked(c, node, e, now)
       \/ ExecuteNormally(c, node, e, now)
       \/ ExecuteByLookup(c, node, e, now)
  \/ Resolve(c)

-----------------------------------------------------------------------------
\* The application's own use of the store.
Insertions ==
  [malformed : {None, "invalid_request"}, key : Keys,
   object : Objects, freshness : Freshnesses]

AppInsert(input, codec, now) ==
  /\ Insert(input, codec, now)
  /\ refused' = IF InsertReason(input, codec, now) = None
                THEN {r \in refused : r[1] # input.key} ELSE refused
  /\ UNCHANGED <<pc, plan, result, executed>>

AppStep ==
  \/ \E input \in Insertions, codec \in Codecs, now \in Times : AppInsert(input, codec, now)
  \/ /\ \/ \E key \in Keys, codec \in Codecs, now \in Times :
             Lookup([malformed |-> None, key |-> key], codec, now)
        \/ \E key \in Keys : Invalidate([malformed |-> None, key |-> key])
        \/ Close
        \/ \E o \in Objects, v \in Values : Mutate(o, v)
     /\ UNCHANGED callVars

Next == AppStep \/ \E c \in Calls : CallStep(c)

Spec == Init /\ [][Next]_vars

-----------------------------------------------------------------------------
TypeOK ==
  /\ StoreTypeOK
  /\ pc \in [Calls -> {"idle", "planned", "executing", "done"}]
  /\ DOMAIN plan = Calls
  /\ DOMAIN result = Calls
  /\ executed \in [Calls -> Nat]
  /\ refused \subseteq Keys \X Objects

\* A call that reused a value was entitled to it by the evidence at the moment
\* it did, however old its plan, and the plan it held was about that very
\* value.  And the store, alive at that moment, had it under that key, fresh and
\* such as the codec accepts, whatever the holders of the object had done to it
\* since it was inserted and wherever the clock had been.
ReusedOnlyWhenJustified ==
  \A c \in Calls : pc[c] = "done" /\ result[c].status = "reused" =>
    /\ result[c].justified /\ result[c].servable
    /\ plan[c].action = "reuse"
    /\ plan[c].identity = result[c].identity

\* The normal operation runs exactly once in a call that comes to it and not at
\* all in one that reused a value or was blocked ("actualSkippedActions: 1 only
\* for a validated hit").
ExecutesExactlyOnce ==
  \A c \in Calls :
    executed[c] = IF \/ pc[c] = "executing"
                     \/ /\ pc[c] = "done"
                        /\ result[c].status \in {"executed_normally", "rejected"}
                  THEN 1 ELSE 0

\* What one call found wrong no other call is served, until the application
\* inserts under that key again.
RefusedIsForgotten ==
  \A r \in refused : r[1] \in DOMAIN entries => entries[r[1]].object # r[2]

\* packages/runtime/README.md:194: "Disabled mode always executes normally".
\* (Well-formed evidence, the node that was planned.)
DisabledModeExecutes ==
  \A c \in Calls :
    pc[c] = "done" /\ result[c].status = "blocked" => ~result[c].disabled

PromisedSpec == Promised!Spec
=============================================================================
