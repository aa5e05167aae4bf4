------------------------ MODULE ControlledReuseProofs ------------------------
(***************************************************************************)
(* What a value store and the calls that share it guarantee, for any       *)
(* number of calls, keys, objects and any evidence.                        *)
(***************************************************************************)
EXTENDS ControlledReuseExecutor, FiniteSetTheorems, TLAPS

-----------------------------------------------------------------------------
(***************************************************************************)
(* The planner.                                                            *)
(***************************************************************************)

\* Evidence that raises no reason has passed in all its statuses.
LEMMA NoEvidenceReason ==
  ASSUME NEW statuses, NEW failed, NEW review,
         EvidenceReasons(statuses, failed, review) = {}
  PROVE  \A s \in statuses : s = "passed"
BY DEF EvidenceReasons, When

\* The planner selects reuse only for evidence that justifies it, whatever
\* combination of checks the evidence meets: fail-closed.
THEOREM ReusePlansAreJustified ==
  ASSUME NEW e \in Evidence, NEW now \in Times, PlanAction(e, now) = "reuse"
  PROVE  ReuseIsJustified(e, now)
<1>1. PlanReasons(e, now) = {}
  BY DEF PlanAction
<1>2. WellFormed(e) /\ AuthorizationReasons(e, now) = {}
  BY <1>1 DEF PlanReasons
<1>3. /\ When(e.mode # "exact_read_only_tool_call", "opt_in_required") = {}
      /\ e.decision.found
      /\ DecisionReasons(e) = {} /\ SourceReasons(e) = {} /\ StatusReasons(e) = {}
      /\ FreshnessReasons(e, now) = {} /\ ValidatorReasons(e) = {}
      /\ ValueReasons(e, now) = {}
  BY <1>2 DEF AuthorizationReasons
<1>4. e.mode = "exact_read_only_tool_call"
  BY <1>3 DEF When
<1>5. /\ e.decision.status = "allowed"
      /\ e.decision.kind = "tool_call" /\ e.decision.sideEffect = "read_only"
  BY <1>3 DEF DecisionReasons, When
<1>6. /\ e.source.currentFingerprint = e.decision.cacheKey
      /\ e.source.previousFingerprint = e.decision.cacheKey
      /\ e.value.key.fingerprint = e.decision.cacheKey
  BY <1>3 DEF SourceReasons, When
<1>7. {e.dependency, e.decision.dependency, e.policy, e.decision.policy,
       e.freshness.status, e.decision.freshness} = {"passed"}
  BY <1>3, NoEvidenceReason DEF StatusReasons
<1>8. now \in e.freshness.observedAt .. e.freshness.observedAt + e.freshness.maximumAgeMs
  <2>1. /\ ~(now = NoTime \/ e.freshness.observedAt = NoTime)
        /\ ~(now < e.freshness.observedAt)
        /\ ~(now - e.freshness.observedAt > e.freshness.maximumAgeMs)
    BY <1>3 DEF FreshnessReasons, When
  <2>2. /\ now \in Int /\ e.freshness.observedAt \in Int
        /\ e.freshness.maximumAgeMs \in Int
    BY TimesAssumption, EvidenceAssumption DEF NotATime
  <2>3. QED
    BY <2>1, <2>2
<1>9. e.value.createdAt <= now /\ now < e.value.expiresAt
  <2>1. /\ ~(now # NoTime /\ now < e.value.createdAt)
        /\ ~(now = NoTime \/ now >= e.value.expiresAt)
    BY <1>3 DEF ValueReasons, When
  <2>2. now \in Int /\ e.value.createdAt \in Int /\ e.value.expiresAt \in Int
    BY TimesAssumption, EvidenceAssumption DEF NotATime
  <2>3. QED
    BY <2>1, <2>2
<1>10. e.value.key.node = e.nodeId /\ e.value.key.run = e.previousRunId
  BY <1>3 DEF ValueReasons, When
<1>11. e.value.key = [run |-> e.previousRunId, node |-> e.nodeId,
                      fingerprint |-> e.source.currentFingerprint]
  <2>1. e.value.key \in Keys
    BY EvidenceAssumption
  <2>2. e.value.key = [run |-> e.value.key.run, node |-> e.value.key.node,
                       fingerprint |-> e.value.key.fingerprint]
    BY <2>1, KeysAssumption
  <2>3. QED
    BY <1>6, <1>10, <2>2
<1>12. e.required # {} /\ e.required \subseteq e.passed
  BY <1>3 DEF ValidatorReasons, When
<1>13. /\ e.decision.previousNodeId = e.previousNodeId
       /\ e.decision.requiredValidators \subseteq e.required \cap e.passed
  BY <1>1, <1>2, <1>3 DEF PlanReasons, When
<1>14. QED
  BY <1>3, <1>4, <1>5, <1>6, <1>7, <1>8, <1>9, <1>11, <1>12, <1>13 DEF ReuseIsJustified

-----------------------------------------------------------------------------
(***************************************************************************)
(* The store.                                                              *)
(***************************************************************************)

\* What an operation may do to the entries.
Adds(key, object) ==
  /\ ~closed /\ closed' = closed
  /\ ~HasNoRoom(key)
  /\ DOMAIN entries' = DOMAIN entries \cup {key}
  /\ entries'[key].object = object
  /\ \A k \in DOMAIN entries \ {key} : entries'[k] = entries[k]
  /\ served' = Nothing

Drops(keys) ==
  /\ closed' = closed
  /\ DOMAIN entries' = DOMAIN entries \ keys
  /\ \A k \in DOMAIN entries \ keys : entries'[k] = entries[k]
  /\ served' = Nothing

Hits(key) ==
  /\ ~closed /\ closed' = closed
  /\ key \in DOMAIN entries
  /\ entries' = entries
  /\ served' = entries[key].object

Closes ==
  /\ closed' = TRUE
  /\ DOMAIN entries' = {}
  /\ served' = Nothing

Idles == entries' = entries /\ closed' = closed /\ served' = served

\* An operation that gets as far as stateReason leaves the entries, or empties
\* the store when it has expired.
LEMMA EntriesAfterDrops ==
  ASSUME NEW reason, closed' = closed, served' = Nothing, entries' = EntriesAfter(reason)
  PROVE  Drops({}) \/ Drops(DOMAIN entries)
BY DEF EntriesAfter, NoEntries, Drops

\* An insertion that is accepted adds its key; a refused one may at most empty
\* an expired store.
LEMMA InsertEffect ==
  ASSUME NEW input, NEW codec, NEW now, Insert(input, codec, now)
  PROVE  IF InsertReason(input, codec, now) = None THEN Adds(input.key, input.object)
         ELSE Drops({}) \/ Drops(DOMAIN entries)
<1>1. CASE InsertReason(input, codec, now) = None
  <2>1. ~closed /\ ~HasNoRoom(input.key)
    BY <1>1 DEF InsertReason, StateReason, None
  <2>2. QED
    BY <1>1, <2>1 DEF Insert, Adds
<1>2. CASE InsertReason(input, codec, now) # None
  BY <1>2, EntriesAfterDrops DEF Insert
<1>3. QED
  BY <1>1, <1>2

\* A lookup serves an entry it leaves, or serves nothing and may drop some.
LEMMA LookupEffect ==
  ASSUME NEW input, NEW codec, NEW now, Lookup(input, codec, now)
  PROVE  IF LookupReply(input, codec, now).status = "hit"
         THEN Hits(input.key) /\ LookupReply(input, codec, now).object = entries[input.key].object
         ELSE \E keys \in SUBSET DOMAIN entries : Drops(keys)
<1> DEFINE reply == LookupReply(input, codec, now)
<1>1. CASE input.malformed # None
  <2>1. reply.status = "miss" /\ reply.object = Nothing
    BY <1>1 DEF LookupReply, Reply
  <2>2. Drops({})
    BY <1>1, <2>1 DEF Lookup, EntriesAfterLookup, Drops
  <2>3. QED
    BY <2>1, <2>2
<1>2. CASE input.malformed = None /\ StateReason(now) # None
  <2>1. reply.status = "invalidated" /\ reply.object = Nothing
    BY <1>2 DEF LookupReply, Reply
  <2>2. entries' = EntriesAfter(StateReason(now))
    BY <1>2 DEF Lookup, EntriesAfterLookup
  <2>3. Drops({}) \/ Drops(DOMAIN entries)
    BY <2>1, <2>2, EntriesAfterDrops DEF Lookup
  <2>4. QED
    BY <2>1, <2>3
<1>3. CASE input.malformed = None /\ StateReason(now) = None /\ input.key \notin DOMAIN entries
  <2>1. reply.status = "miss" /\ reply.object = Nothing
    BY <1>3 DEF LookupReply, Reply
  <2>2. Drops({})
    BY <1>3, <2>1 DEF Lookup, EntriesAfterLookup, Drops
  <2>3. QED
    BY <2>1, <2>2
<1>4. CASE /\ input.malformed = None /\ StateReason(now) = None
           /\ input.key \in DOMAIN entries
           /\ EntryReason(entries[input.key], codec, now) # None
  <2>1. reply.status = "invalidated" /\ reply.object = Nothing
    BY <1>4 DEF LookupReply, Reply
  <2>2. entries' = Without(input.key)
    BY <1>4 DEF Lookup, EntriesAfterLookup
  <2>3. Drops({input.key})
    BY <2>1, <2>2 DEF Lookup, Without, Drops
  <2>4. QED
    BY <1>4, <2>1, <2>3
<1>5. CASE /\ input.malformed = None /\ StateReason(now) = None
           /\ input.key \in DOMAIN entries
           /\ EntryReason(entries[input.key], codec, now) = None
  <2>1. reply.status = "hit" /\ reply.object = entries[input.key].object
    BY <1>5 DEF LookupReply, Reply
  <2>2. ~closed /\ entries' = entries
    BY <1>5 DEF Lookup, EntriesAfterLookup, StateReason, None
  <2>3. QED
    BY <1>5, <2>1, <2>2 DEF Lookup, Hits
<1>6. QED
  BY <1>1, <1>2, <1>3, <1>4, <1>5

\* invalidate drops its key, or nothing if the request is malformed.
LEMMA InvalidateEffect ==
  ASSUME NEW input, Invalidate(input)
  PROVE  Drops({input.key}) \/ Drops({})
BY DEF Invalidate, Without, Drops

\* close empties the store for good.
LEMMA CloseEffect == Close => Closes
BY DEF Close, NoEntries, Closes

\* The store's own invariant: its types, and that it stays within its limits.
StoreInv ==
  /\ StoreTypeOK
  /\ IsFiniteSet(DOMAIN entries)
  /\ WithinLimits

\* Any of these effects, with objects that keep their types, preserves it.
LEMMA EffectsPreserveStoreInv ==
  ASSUME StoreInv, content' \in [Objects -> Values],
         \/ \E key \in Keys, object \in Objects : Adds(key, object)
         \/ \E keys \in SUBSET DOMAIN entries : Drops(keys)
         \/ \E key \in Keys : Hits(key)
         \/ Closes
         \/ Idles
  PROVE  StoreInv'
<1> USE DEF StoreInv, StoreTypeOK, WithinLimits
<1>1. CASE \E key \in Keys, object \in Objects : Adds(key, object)
  <2>1. PICK key \in Keys, object \in Objects : Adds(key, object)
    BY <1>1
  <2>2. IsFiniteSet(DOMAIN entries') /\ Cardinality(DOMAIN entries') <= MaxEntries
    <3>1. IsFiniteSet(DOMAIN entries \cup {key})
          /\ Cardinality(DOMAIN entries \cup {key}) =
               IF key \in DOMAIN entries THEN Cardinality(DOMAIN entries)
               ELSE Cardinality(DOMAIN entries) + 1
      BY FS_AddElement
    <3>2. Cardinality(DOMAIN entries) \in Nat
      BY FS_CardinalityType
    <3>3. QED
      BY <2>1, <3>1, <3>2, MaxEntriesAssumption DEF Adds, HasNoRoom
  <2>3. \A k \in DOMAIN entries' : entries'[k].object \in Objects
    BY <2>1 DEF Adds
  <2>4. QED
    BY <2>1, <2>2, <2>3 DEF Adds
<1>2. CASE \E keys \in SUBSET DOMAIN entries : Drops(keys)
  <2>1. PICK keys \in SUBSET DOMAIN entries : Drops(keys)
    BY <1>2
  <2>2. IsFiniteSet(DOMAIN entries') /\ Cardinality(DOMAIN entries') <= MaxEntries
    <3>1. DOMAIN entries' \subseteq DOMAIN entries
      BY <2>1 DEF Drops
    <3>2. IsFiniteSet(DOMAIN entries') /\ Cardinality(DOMAIN entries') <= Cardinality(DOMAIN entries)
      BY <3>1, FS_Subset
    <3>3. Cardinality(DOMAIN entries') \in Nat /\ Cardinality(DOMAIN entries) \in Nat
      BY <3>2, FS_CardinalityType
    <3>4. QED
      BY <3>2, <3>3, MaxEntriesAssumption
  <2>3. QED
    BY <2>1, <2>2 DEF Drops
<1>3. CASE \E key \in Keys : Hits(key)
  BY <1>3 DEF Hits
<1>4. CASE Closes
  BY <1>4, FS_EmptySet, MaxEntriesAssumption DEF Closes
<1>5. CASE Idles
  BY <1>5 DEF Idles
<1>6. QED
  BY <1>1, <1>2, <1>3, <1>4, <1>5

-----------------------------------------------------------------------------
(***************************************************************************)
(* The calls.                                                              *)
(***************************************************************************)

\* The effect of a step of the application or of a call on the store.
StoreEffect ==
  /\ content' \in [Objects -> Values]
  /\ \/ \E key \in Keys, object \in Objects : Adds(key, object)
     \/ \E keys \in SUBSET DOMAIN entries : Drops(keys)
     \/ \E key \in Keys : Hits(key)
     \/ Closes
     \/ Idles

\* Dropping keys that are not there is dropping the others.
LEMMA DropsOfPresent ==
  ASSUME NEW keys, Drops(keys)
  PROVE  \E present \in SUBSET DOMAIN entries : Drops(present)
<1>1. Drops(keys \cap DOMAIN entries)
  BY DEF Drops
<1>2. QED
  BY <1>1

\* A lookup is one of the effects.
LEMMA LookupStoreEffect ==
  ASSUME StoreInv, NEW input, input.key \in Keys, NEW codec, NEW now,
         Lookup(input, codec, now)
  PROVE  StoreEffect
BY LookupEffect DEF Lookup, StoreEffect, StoreInv, StoreTypeOK

\* Every step of the application and of the calls is one of the effects.
LEMMA NextStoreEffect ==
  ASSUME StoreInv, [Next]_vars
  PROVE  StoreEffect
<1> USE DEF StoreInv, StoreTypeOK
<1>1. ASSUME UNCHANGED storeVars PROVE StoreEffect
  BY <1>1 DEF storeVars, StoreEffect, Idles
<1>2. ASSUME NEW input \in Insertions, NEW codec, NEW now, AppInsert(input, codec, now)
      PROVE  StoreEffect
  <2>1. Insert(input, codec, now) /\ input.key \in Keys /\ input.object \in Objects
    BY <1>2 DEF AppInsert, Insertions
  <2>2. content' = content
    BY <2>1 DEF Insert
  <2>3. Adds(input.key, input.object) \/ Drops({}) \/ Drops(DOMAIN entries)
    BY <2>1, InsertEffect
  <2>4. QED
    BY <2>1, <2>2, <2>3 DEF StoreEffect
<1>3. ASSUME NEW key \in Keys, NEW codec, NEW now,
             Lookup([malformed |-> None, key |-> key], codec, now)
      PROVE  StoreEffect
  BY <1>3, LookupStoreEffect
<1>4. ASSUME NEW key \in Keys, Invalidate([malformed |-> None, key |-> key])
      PROVE  StoreEffect
  BY <1>4, InvalidateEffect, DropsOfPresent DEF Invalidate, StoreEffect
<1>5. ASSUME Close PROVE StoreEffect
  BY <1>5, CloseEffect DEF Close, StoreEffect
<1>6. ASSUME NEW o \in Objects, NEW v \in Values, Mutate(o, v) PROVE StoreEffect
  BY <1>6 DEF Mutate, StoreEffect, Idles
<1>7. ASSUME AppStep PROVE StoreEffect
  BY <1>2, <1>3, <1>4, <1>5, <1>6, <1>7 DEF AppStep
<1>8. ASSUME NEW c \in Calls, NEW e \in Evidence, NEW codec, NEW now, NEW contract,
             \/ ExecuteAfterMiss(c, e, codec, now)
             \/ Reuse(c, e, codec, now, contract)
             \/ ExecuteAfterRefusal(c, e, codec, now, contract)
      PROVE  StoreEffect
  <2>1. e.value.key \in Keys
    BY EvidenceAssumption
  <2>2. Lookup([malformed |-> None, key |-> e.value.key], codec, now)
        \/ Invalidate([malformed |-> None, key |-> e.value.key])
    BY <1>8 DEF ExecuteAfterMiss, Reuse, ExecuteAfterRefusal
  <2>3. QED
    BY <1>3, <1>4, <2>1, <2>2
<1>9. ASSUME NEW c \in Calls, CallStep(c) PROVE StoreEffect
  <2>1. CASE \E e \in Evidence, now \in Times, node \in Nodes : ExecuteByLookup(c, node, e, now)
    BY <1>8, <2>1 DEF ExecuteByLookup
  <2>2. CASE ~ \E e \in Evidence, now \in Times, node \in Nodes :
                 ExecuteByLookup(c, node, e, now)
    <3>1. UNCHANGED storeVars
      BY <1>9, <2>2 DEF CallStep, Plan, ExecuteBlocked, ExecuteNormally, Resolve
    <3>2. QED
      BY <1>1, <3>1
  <2>3. QED
    BY <2>1, <2>2
<1>10. QED
  BY <1>1, <1>7, <1>9 DEF Next, vars

\* StoreInv holds in every reachable state.
LEMMA StoreInvHolds == Spec => []StoreInv
<1>1. Init => StoreInv
  <2>1. SUFFICES ASSUME Init PROVE StoreInv
    OBVIOUS
  <2>2. DOMAIN entries = {}
    BY <2>1 DEF Init, StoreInit, NoEntries
  <2>3. IsFiniteSet(DOMAIN entries) /\ Cardinality(DOMAIN entries) = 0
    BY <2>2, FS_EmptySet
  <2>4. StoreTypeOK
    BY <2>1, <2>2 DEF Init, StoreInit, StoreTypeOK
  <2>5. WithinLimits
    BY <2>2, <2>3, MaxEntriesAssumption DEF WithinLimits
  <2>6. QED
    BY <2>3, <2>4, <2>5 DEF StoreInv
<1>2. StoreInv /\ [Next]_vars => StoreInv'
  BY NextStoreEffect, EffectsPreserveStoreInv DEF StoreEffect
<1>3. QED
  BY <1>1, <1>2, PTL DEF Spec

\* The store's limits hold however the application and the calls use it.
THEOREM StoreStaysWithinLimits == Spec => []WithinLimits
BY StoreInvHolds, PTL DEF StoreInv

-----------------------------------------------------------------------------
(***************************************************************************)
(* The store refines the forgetful store: every effect is one of its       *)
(* steps, or a stutter.                                                    *)
(***************************************************************************)
held == [k \in DOMAIN entries |-> entries[k].object]

\* Every effect is a step of the forgetful store, or stutters.
LEMMA EffectsAreForgetful ==
  ASSUME StoreInv, StoreEffect
  PROVE  [Promised!Next]_<<held, ~closed, served>>
<1> USE DEF StoreInv, StoreTypeOK
<1>1. CASE \E key \in Keys, object \in Objects : Adds(key, object)
  <2>1. PICK key \in Keys, object \in Objects : Adds(key, object)
    BY <1>1
  <2>2. held' = [j \in DOMAIN held \cup {key} |-> IF j = key THEN object ELSE held[j]]
    BY <2>1 DEF Adds, held
  <2>3. key \in DOMAIN held \/ Cardinality(DOMAIN held) < MaxEntries
    <3>1. DOMAIN held = DOMAIN entries /\ Cardinality(DOMAIN entries) \in Nat
      BY FS_CardinalityType DEF held
    <3>2. QED
      BY <2>1, <3>1, MaxEntriesAssumption DEF Adds, HasNoRoom
  <2>4. ~closed /\ (~closed)' = ~closed /\ served' = Nothing
    BY <2>1 DEF Adds
  <2>5. Promised!Put(key, object)
    <3> DEFINE h == [k \in DOMAIN entries |-> entries[k].object]
    <3>1. h' = [j \in DOMAIN h \cup {key} |-> IF j = key THEN object ELSE h[j]]
      BY <2>2 DEF held
    <3>2. key \in DOMAIN h \/ Cardinality(DOMAIN h) < MaxEntries
      BY <2>3 DEF held
    <3>3. Promised!Cardinality(DOMAIN h) = Cardinality(DOMAIN h)
      BY ONLY Zenon DEF Promised!Cardinality, Cardinality
    <3>4. QED
      BY ONLY <2>4, <3>1, <3>2, <3>3 DEF Promised!Put, h
  <2>6. QED
    BY <2>5 DEF Promised!Next
<1>2. CASE \E keys \in SUBSET DOMAIN entries : Drops(keys)
  <2>1. PICK keys \in SUBSET DOMAIN entries : Drops(keys)
    BY <1>2
  <2>2. held' = [k \in DOMAIN held \ keys |-> held[k]]
    BY <2>1 DEF Drops, held
  <2>3. Promised!Forget(keys)
    BY <2>1, <2>2 DEF Promised!Forget, held, Drops
  <2>4. QED
    BY <2>3 DEF Promised!Next
<1>3. CASE \E key \in Keys : Hits(key)
  <2>1. PICK key \in Keys : Hits(key)
    BY <1>3
  <2>2. Promised!Serve(key)
    BY <2>1 DEF Promised!Serve, held, Hits
  <2>3. QED
    BY <2>2 DEF Promised!Next
<1>4. CASE Closes
  <2>1. Promised!Shut
    BY <1>4 DEF Promised!Shut, held, Closes
  <2>2. QED
    BY <2>1 DEF Promised!Next
<1>5. CASE Idles
  BY <1>5 DEF Idles, held
<1>6. QED
  BY <1>1, <1>2, <1>3, <1>4, <1>5 DEF StoreEffect

\* The store keeps the promise of ForgetfulStore, whatever its callers do.
THEOREM StoreKeepsItsPromise == Spec => PromisedSpec
<1>1. Init => Promised!Init
  BY DEF Init, StoreInit, NoEntries, Promised!Init
<1>2. StoreInv /\ [Next]_vars => [Promised!Next]_<<held, ~closed, served>>
  BY NextStoreEffect, EffectsAreForgetful
<1>3. QED
  BY <1>1, <1>2, StoreInvHolds, PTL DEF Spec, PromisedSpec, Promised!Spec, held

-----------------------------------------------------------------------------
(***************************************************************************)
(* What the calls guarantee: the invariant of the calls' own variables.    *)
(***************************************************************************)
CallTypes ==
  /\ pc \in [Calls -> {"idle", "planned", "executing", "done"}]
  /\ DOMAIN plan = Calls
  /\ DOMAIN result = Calls
  /\ executed \in [Calls -> Nat]

CallInv == CallTypes /\ ReusedOnlyWhenJustified /\ ExecutesExactlyOnce

\* How a step of one call may change them.
Plans(c) ==
  /\ pc[c] = "idle"
  /\ pc' = [pc EXCEPT ![c] = "planned"]
  /\ DOMAIN plan' = Calls /\ \A d \in Calls \ {c} : plan'[d] = plan[d]
  /\ UNCHANGED <<result, executed>>

Ends(c) ==
  /\ pc[c] = "planned"
  /\ pc' = [pc EXCEPT ![c] = "done"]
  /\ DOMAIN result' = Calls /\ \A d \in Calls \ {c} : result'[d] = result[d]
  /\ result'[c].status \in {"blocked", "reused"}
  /\ result'[c].status = "reused" =>
       /\ result'[c].justified /\ result'[c].servable
       /\ plan[c].action = "reuse" /\ plan[c].identity = result'[c].identity
  /\ UNCHANGED <<plan, executed>>

Executes(c) ==
  /\ pc[c] = "planned"
  /\ Execute(c)
  /\ UNCHANGED plan

Resolves(c) ==
  /\ pc[c] = "executing"
  /\ pc' = [pc EXCEPT ![c] = "done"]
  /\ DOMAIN result' = Calls /\ \A d \in Calls \ {c} : result'[d] = result[d]
  /\ result'[c].status \in {"executed_normally", "rejected"}
  /\ UNCHANGED <<plan, executed>>

\* What End leaves in the results.
LEMMA EndEffect ==
  ASSUME CallTypes, NEW c \in Calls, NEW e, NEW now, NEW status, NEW codecs,
         End(c, status, e, now, codecs)
  PROVE  /\ pc' = [pc EXCEPT ![c] = "done"]
         /\ DOMAIN result' = Calls /\ \A d \in Calls \ {c} : result'[d] = result[d]
         /\ result'[c].status = status
         /\ result'[c].justified = ReuseIsJustified(e, now)
         /\ (\A codec \in codecs : MayBeServed(e.value.key, codec, now)) => result'[c].servable
         /\ result'[c].identity = NodePlan(e, now).identity
BY DEF End, CallTypes

\* What a lookup hits may be served.
LEMMA HitsMayBeServed ==
  ASSUME NEW key, NEW codec, NEW now \in Times,
         LookupReply([malformed |-> None, key |-> key], codec, now).status = "hit"
  PROVE  MayBeServed(key, codec, now)
<1> DEFINE request == [malformed |-> None, key |-> key]
<1>1. request.malformed = None /\ request.key = key
  OBVIOUS
<1> HIDE DEF request
<1>2. /\ StateReason(now) = None /\ key \in DOMAIN entries
      /\ EntryReason(entries[key], codec, now) = None
  BY <1>1 DEF LookupReply, Reply, request
<1>3. ~closed /\ now # NotATime /\ CreatedAt <= now /\ now < ExpiresAt
  BY <1>2, TimesAssumption, LifetimeAssumption DEF StateReason, None
<1>4. /\ codec.version = entries[key].schema /\ Accepts(codec, entries[key].object)
      /\ FreshnessReason(entries[key].freshness, now) = None
  BY <1>2 DEF EntryReason, None
<1>5. QED
  BY <1>2, <1>3, <1>4 DEF MayBeServed, FreshnessReason, None

\* Every step of a call is one of these; a call ends as reused only on a verdict
\* to look up, which the planner gives only for justified evidence, and a hit.
LEMMA CallEffect ==
  ASSUME CallTypes, NEW c \in Calls, CallStep(c)
  PROVE  Plans(c) \/ Ends(c) \/ Executes(c) \/ Resolves(c)
<1>1. ASSUME NEW e \in Evidence, NEW now \in Times, Plan(c, e, now) PROVE Plans(c)
  BY <1>1 DEF Plan, Plans, CallTypes
<1>2. ASSUME NEW e \in Evidence, NEW now \in Times, NEW node, ExecuteBlocked(c, node, e, now)
      PROVE  Ends(c)
  <2>1. pc[c] = "planned" /\ End(c, "blocked", e, now, {}) /\ UNCHANGED <<plan, executed>>
    BY <1>2 DEF ExecuteBlocked
  <2>2. /\ pc' = [pc EXCEPT ![c] = "done"]
        /\ DOMAIN result' = Calls /\ \A d \in Calls \ {c} : result'[d] = result[d]
        /\ result'[c].status = "blocked"
    BY <2>1, EndEffect
  <2>3. QED
    BY <2>1, <2>2 DEF Ends
<1>3. ASSUME NEW e \in Evidence, NEW now \in Times, NEW node, ExecuteNormally(c, node, e, now)
      PROVE  Executes(c)
  BY <1>3 DEF ExecuteNormally, Executes
<1>4. ASSUME NEW e \in Evidence, NEW now \in Times, NEW node, ExecuteByLookup(c, node, e, now)
      PROVE  Ends(c) \/ Executes(c)
  <2>1. pc[c] = "planned" /\ Verdict(c, node, e, now) = "lookup"
    BY <1>4 DEF ExecuteByLookup
  <2>2. PICK codec \in Codecs :
             \/ ExecuteAfterMiss(c, e, codec, now)
             \/ \E contract \in Contracts : \/ Reuse(c, e, codec, now, contract)
                                            \/ ExecuteAfterRefusal(c, e, codec, now, contract)
    BY <1>4 DEF ExecuteByLookup
  <2>3. CASE ExecuteAfterMiss(c, e, codec, now)
    BY <2>1, <2>3 DEF ExecuteAfterMiss, Executes
  <2>4. ASSUME NEW contract, Reuse(c, e, codec, now, contract) PROVE Ends(c)
    <3>1. NodePlan(e, now).action \in {"reuse", "execute_normally", "blocked"}
      BY DEF NodePlan, PlanAction
    <3>2. /\ NodePlan(e, now).action = "reuse"
          /\ plan[c].action = "reuse" /\ plan[c].identity = NodePlan(e, now).identity
      BY <2>1, <3>1 DEF Verdict, SameReuseIdentity
    <3>3. ReuseIsJustified(e, now)
      BY <3>2, ReusePlansAreJustified DEF NodePlan
    <3>4. /\ End(c, "reused", e, now, {codec})
          /\ LookupReply([malformed |-> None, key |-> e.value.key], codec, now).status = "hit"
          /\ UNCHANGED <<plan, executed>>
      BY <2>4 DEF Reuse
    <3>5. MayBeServed(e.value.key, codec, now)
      BY <3>4, HitsMayBeServed
    <3>6. \A d \in {codec} : MayBeServed(e.value.key, d, now)
      BY <3>5
    <3>7. /\ pc' = [pc EXCEPT ![c] = "done"]
          /\ DOMAIN result' = Calls /\ \A d \in Calls \ {c} : result'[d] = result[d]
          /\ result'[c].status = "reused"
          /\ result'[c].justified = ReuseIsJustified(e, now)
          /\ result'[c].identity = NodePlan(e, now).identity
          /\ result'[c].servable
      BY <3>4, <3>6, EndEffect
    <3>8. result'[c].justified
      BY <3>3, <3>7
    <3>9. QED
      BY <2>1, <3>2, <3>4, <3>7, <3>8 DEF Ends
  <2>5. ASSUME NEW contract, ExecuteAfterRefusal(c, e, codec, now, contract) PROVE Executes(c)
    BY <2>1, <2>5 DEF ExecuteAfterRefusal, Executes
  <2>6. QED
    BY <2>2, <2>3, <2>4, <2>5
<1>5. ASSUME Resolve(c) PROVE Resolves(c)
  BY <1>5 DEF Resolve, Resolves, CallTypes
<1>6. QED
  BY <1>1, <1>2, <1>3, <1>4, <1>5 DEF CallStep

\* CallInv is inductive.
LEMMA CallInvIsInductive ==
  ASSUME CallInv, [Next]_vars
  PROVE  CallInv'
<1> USE DEF CallInv, CallTypes, ReusedOnlyWhenJustified, ExecutesExactlyOnce
<1>1. CASE UNCHANGED <<pc, plan, result, executed>>
  BY <1>1
<1>2. ASSUME NEW c \in Calls, Plans(c) PROVE CallInv'
  BY <1>2 DEF Plans
<1>3. ASSUME NEW c \in Calls, Ends(c) PROVE CallInv'
  BY <1>3 DEF Ends
<1>4. ASSUME NEW c \in Calls, Executes(c) PROVE CallInv'
  BY <1>4 DEF Executes, Execute
<1>5. ASSUME NEW c \in Calls, Resolves(c) PROVE CallInv'
  BY <1>5 DEF Resolves
<1>6. ASSUME AppStep PROVE UNCHANGED <<pc, plan, result, executed>>
  BY <1>6 DEF AppStep, AppInsert, callVars
<1>7. QED
  BY <1>1, <1>2, <1>3, <1>4, <1>5, <1>6, CallEffect DEF Next, vars, callVars

\* CallInv holds in every reachable state.
LEMMA CallInvHolds == Spec => []CallInv
<1>1. Init => CallInv
  BY DEF Init, CallInv, CallTypes, ReusedOnlyWhenJustified, ExecutesExactlyOnce
<1>2. QED
  BY <1>1, CallInvIsInductive, PTL DEF Spec

\* A reused value was justified by the evidence at the moment of reuse, however
\* old the plan the call was given, and the store could serve it then.
THEOREM ReuseIsAlwaysJustified == Spec => []ReusedOnlyWhenJustified
BY CallInvHolds, PTL DEF CallInv

\* No call runs its operation twice, or runs it and reuses a value, and every
\* call that is neither blocked nor served runs it.
THEOREM OperationsRunExactlyOnce == Spec => []ExecutesExactlyOnce
BY CallInvHolds, PTL DEF CallInv

\* A value a contract refused is not in the store under its key until it is
\* inserted there again.
THEOREM RefusedValuesAreForgotten == Spec => []RefusedIsForgotten
<1>1. Init => RefusedIsForgotten
  BY DEF Init, RefusedIsForgotten
<1>2. ASSUME RefusedIsForgotten, StoreInv, [Next]_vars PROVE RefusedIsForgotten'
  <2> USE DEF RefusedIsForgotten
  <2>1. CASE \E keys : Drops(keys) /\ refused' = refused
    BY <1>2, <2>1 DEF Drops
  <2>2. CASE entries' = entries /\ refused' = refused
    BY <1>2, <2>2
  <2>3. ASSUME NEW input \in Insertions, NEW codec, NEW now, AppInsert(input, codec, now)
        PROVE  RefusedIsForgotten'
    <3>1. Insert(input, codec, now)
      BY <2>3 DEF AppInsert
    <3>2. CASE InsertReason(input, codec, now) = None
      <4>1. Adds(input.key, input.object)
        BY <3>1, <3>2, InsertEffect
      <4>2. refused' = {r \in refused : r[1] # input.key}
        BY <2>3, <3>2 DEF AppInsert
      <4>3. QED
        BY <1>2, <4>1, <4>2 DEF Adds
    <3>3. CASE InsertReason(input, codec, now) # None
      BY <2>1, <2>3, <3>1, <3>3, InsertEffect DEF AppInsert
    <3>4. QED
      BY <3>2, <3>3
  <2>4. ASSUME NEW input, NEW codec, NEW now, Lookup(input, codec, now), refused' = refused
        PROVE  RefusedIsForgotten'
    BY <2>1, <2>2, <2>4, LookupEffect DEF Hits
  <2>5. ASSUME AppStep PROVE RefusedIsForgotten'
    <3>1. ASSUME Close, refused' = refused PROVE RefusedIsForgotten'
      BY <3>1, CloseEffect DEF Closes
    <3>2. ASSUME NEW input, Invalidate(input), refused' = refused PROVE RefusedIsForgotten'
      BY <2>1, <3>2, InvalidateEffect
    <3>3. ASSUME NEW o, NEW v, Mutate(o, v), refused' = refused PROVE RefusedIsForgotten'
      BY <2>2, <3>3 DEF Mutate
    <3>4. QED
      BY <2>3, <2>4, <2>5, <3>1, <3>2, <3>3 DEF AppStep, callVars
  <2>6. ASSUME NEW c \in Calls, NEW e \in Evidence, NEW codec, NEW now, NEW contract,
               ExecuteAfterRefusal(c, e, codec, now, contract)
        PROVE  RefusedIsForgotten'
    <3>1. Invalidate([malformed |-> None, key |-> e.value.key])
      BY <2>6 DEF ExecuteAfterRefusal
    <3>2. entries' = [k \in DOMAIN entries \ {e.value.key} |-> entries[k]]
      BY <3>1 DEF Invalidate, Without
    <3>3. refused' = refused \cup {<<e.value.key, entries[e.value.key].object>>}
      BY <2>6 DEF ExecuteAfterRefusal
    <3>4. QED
      BY <1>2, <3>2, <3>3
  <2>7. ASSUME NEW c \in Calls, NEW e \in Evidence, NEW now \in Times, NEW node,
               ExecuteByLookup(c, node, e, now)
        PROVE  RefusedIsForgotten'
    BY <2>4, <2>6, <2>7 DEF ExecuteByLookup, ExecuteAfterMiss, Reuse
  <2>8. ASSUME NEW c \in Calls, CallStep(c) PROVE RefusedIsForgotten'
    <3>1. ASSUME UNCHANGED <<storeVars, refused>> PROVE RefusedIsForgotten'
      BY <2>2, <3>1 DEF storeVars
    <3>2. QED
      BY <2>7, <2>8, <3>1
         DEF CallStep, Plan, ExecuteBlocked, ExecuteNormally, Resolve
  <2>9. QED
    BY <1>2, <2>2, <2>5, <2>8 DEF Next, vars, storeVars, callVars
<1>3. QED
  BY <1>1, <1>2, StoreInvHolds, PTL DEF Spec

\* Every variable of the store and of the calls keeps its type: what is refused is an
\* object, under a key, that the store held.
THEOREM TypeCorrect == Spec => []TypeOK
<1> DEFINE RefusedOK == refused \subseteq Keys \X Objects
<1>1. Init => RefusedOK
  BY DEF Init
<1>2. ASSUME RefusedOK, StoreInv, [Next]_vars PROVE RefusedOK'
  <2>1. CASE refused' \subseteq refused
    BY <1>2, <2>1
  <2>2. ASSUME NEW c \in Calls, NEW e \in Evidence, NEW codec, NEW now, NEW contract,
               ExecuteAfterRefusal(c, e, codec, now, contract)
        PROVE  RefusedOK'
    <3>1. DEFINE request == [malformed |-> None, key |-> e.value.key]
    <3>2. LookupReply(request, codec, now).status = "hit"
      BY <2>2 DEF ExecuteAfterRefusal
    <3>3. e.value.key \in DOMAIN entries
      BY <3>2 DEF LookupReply, Reply
    <3>4. e.value.key \in Keys /\ entries[e.value.key].object \in Objects
      BY <1>2, <3>3, EvidenceAssumption DEF StoreInv, StoreTypeOK
    <3>5. QED
      BY <1>2, <2>2, <3>4 DEF ExecuteAfterRefusal
  <2>3. ASSUME NEW c \in Calls, CallStep(c) PROVE RefusedOK'
    BY <2>1, <2>2, <2>3
       DEF CallStep, Plan, ExecuteBlocked, ExecuteNormally, ExecuteByLookup, ExecuteAfterMiss,
           Reuse, Resolve
  <2>4. CASE AppStep
    BY <2>1, <2>4 DEF AppStep, AppInsert, callVars
  <2>5. QED
    BY <1>2, <2>1, <2>3, <2>4 DEF Next, vars, callVars
<1>3. Spec => []RefusedOK
  BY <1>1, <1>2, StoreInvHolds, PTL DEF Spec
<1>4. StoreInv /\ CallInv /\ RefusedOK => TypeOK
  BY DEF StoreInv, CallInv, CallTypes, TypeOK
<1>5. QED
  BY <1>3, <1>4, StoreInvHolds, CallInvHolds, PTL
=============================================================================
