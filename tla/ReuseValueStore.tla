--------------------------- MODULE ReuseValueStore ---------------------------
(***************************************************************************)
(* createEphemeralReuseValueStore (packages/runtime/src/                   *)
(* reuse-value-store.ts): one store of reusable values, in the memory of   *)
(* one process.  Its operations are synchronous, so each is one action;    *)
(* the time is an argument of each, and successive callers may pass times  *)
(* that go back.                                                           *)
(*                                                                         *)
(* A value is kept by reference.  Whoever inserted it, or was served it,   *)
(* may still change it, so an entry holds an object and content says what  *)
(* the object holds now.                                                   *)
(*                                                                         *)
(* A definition whose comment begins with "Faulty" is a variant with a     *)
(* plausible bug that a property must catch; it is not part of the model.  *)
(***************************************************************************)
EXTENDS Integers, FiniteSets

CONSTANTS
  Keys,        \* provenances: records with run, node and fingerprint
  Objects,     \* the values by reference
  Values,      \* what an object may hold
  Schemas,     \* codec versions
  CreatedAt,   \* the store's lifetime, in milliseconds
  ExpiresAt,
  MaxEntries,
  Nothing      \* no object

\* assertOptions throws on anything else.
ASSUME LifetimeAssumption ==
  CreatedAt \in Int /\ ExpiresAt \in Int /\ CreatedAt < ExpiresAt

ASSUME MaxEntriesAssumption == MaxEntries \in Nat /\ MaxEntries > 0

ASSUME NothingAssumption == Nothing \notin Objects

VARIABLES
  entries,   \* a function from the keys present to entries
  closed,
  content,   \* content[o]: what object o holds
  served     \* the object the last operation returned, or Nothing

storeVars == <<entries, closed, content, served>>

-----------------------------------------------------------------------------
(***************************************************************************)
(* Arguments.  A request has a key and malformed, the reason readRequest   *)
(* or readInsertion gives for it ("none" for a well-formed one); an        *)
(* insertion also has an object and a freshness.  A codec has valid        *)
(* (isCodec), a version and the values it accepts (isValue).  A time is a  *)
(* number of milliseconds, or NotATime for a string that does not parse.   *)
(***************************************************************************)
NotATime == -1
None == "none"

NoEntries == [k \in {} |-> Nothing]
Without(key) == [k \in DOMAIN entries \ {key} |-> entries[k]]

Reply(status, reason, object) == [status |-> status, reason |-> reason, object |-> object]

Accepts(codec, object) == codec.valid /\ content[object] \in codec.accepts

StateReason(now) ==
  IF closed THEN "store_closed"
  ELSE IF now = NotATime THEN "invalid_request"
  ELSE IF now < CreatedAt THEN "store_not_yet_active"
  ELSE IF now >= ExpiresAt THEN "store_expired"
  ELSE None

\* observedAt has parsed when the entry was inserted.
FreshnessReason(freshness, now) ==
  IF now = NotATime THEN "invalid_request"
  ELSE IF now < freshness.observedAt THEN "freshness_not_yet_valid"
  ELSE IF now - freshness.observedAt > freshness.maximumAgeMs THEN "freshness_expired"
  ELSE None

\* What an operation that got as far as stateReason finds: an expired store is
\* emptied there and then.
EntriesAfter(stateReason) == IF stateReason = "store_expired" THEN NoEntries ELSE entries

-----------------------------------------------------------------------------
\* Faulty: a full store takes one more.
IsOverfull(key) == key \notin DOMAIN entries /\ Cardinality(DOMAIN entries) > MaxEntries

HasNoRoom(key) == key \notin DOMAIN entries /\ Cardinality(DOMAIN entries) >= MaxEntries

InsertReason(input, codec, now) ==
  IF input.malformed # None THEN input.malformed
  ELSE IF ~Accepts(codec, input.object) THEN "corrupt_value"
  ELSE IF StateReason(now) # None THEN StateReason(now)
  ELSE IF FreshnessReason(input.freshness, now) # None
       THEN FreshnessReason(input.freshness, now)
  ELSE IF HasNoRoom(input.key) THEN "capacity_exceeded"
  ELSE None

Insert(input, codec, now) ==
  LET reason == InsertReason(input, codec, now)
      entry == [object |-> input.object, freshness |-> input.freshness,
                schema |-> codec.version]
  IN /\ entries' = IF reason = None
                   THEN [k \in DOMAIN entries \cup {input.key} |->
                           IF k = input.key THEN entry ELSE entries[k]]
                   ELSE EntriesAfter(reason)
     /\ served' = Nothing
     /\ UNCHANGED <<closed, content>>

-----------------------------------------------------------------------------
\* A lookup with a well-formed request in an active store.
Missing(key) ==
  IF \E k \in DOMAIN entries : k.node = key.node /\ k.run = key.run
  THEN "provenance_mismatch" ELSE "not_found"

EntryReason(entry, codec, now) ==
  IF ~codec.valid \/ codec.version # entry.schema THEN "value_schema_mismatch"
  ELSE IF ~Accepts(codec, entry.object) THEN "corrupt_value"
  ELSE FreshnessReason(entry.freshness, now)

\* Faulty: a hit hands out the entry, not the value in it.
EntryReply(input, codec, now) ==
  IF input.key \in DOMAIN entries THEN Reply("hit", None, entries[input.key])
  ELSE Reply("miss", Missing(input.key), Nothing)

\* What lookup answers, and the entries it leaves.
LookupReply(input, codec, now) ==
  IF input.malformed # None THEN Reply("miss", input.malformed, Nothing)
  ELSE IF StateReason(now) # None
       THEN Reply("invalidated", StateReason(now), Nothing)
  ELSE IF input.key \notin DOMAIN entries
       THEN Reply("miss", Missing(input.key), Nothing)
  ELSE IF EntryReason(entries[input.key], codec, now) # None
       THEN Reply("invalidated", EntryReason(entries[input.key], codec, now),
                  Nothing)
  ELSE Reply("hit", None, entries[input.key].object)

EntriesAfterLookup(input, codec, now) ==
  IF input.malformed # None THEN entries
  ELSE IF StateReason(now) # None THEN EntriesAfter(StateReason(now))
  ELSE IF input.key \notin DOMAIN entries THEN entries
  ELSE IF EntryReason(entries[input.key], codec, now) # None THEN Without(input.key)
  ELSE entries

Lookup(input, codec, now) ==
  /\ entries' = EntriesAfterLookup(input, codec, now)
  /\ served' = LookupReply(input, codec, now).object
  /\ UNCHANGED <<closed, content>>

-----------------------------------------------------------------------------
\* invalidate works in a closed or expired store as in any other.
Invalidate(input) ==
  /\ entries' = IF input.malformed = None THEN Without(input.key) ELSE entries
  /\ served' = Nothing
  /\ UNCHANGED <<closed, content>>

\* Faulty: closing forgets to clear.
CloseKeepsEntries ==
  /\ closed' = TRUE
  /\ served' = Nothing
  /\ UNCHANGED <<entries, content>>

Close ==
  /\ closed' = TRUE
  /\ entries' = NoEntries
  /\ served' = Nothing
  /\ UNCHANGED content

\* A holder of an object changes what it holds: the store is not told.
Mutate(o, v) ==
  /\ content' = [content EXCEPT ![o] = v]
  /\ UNCHANGED <<entries, closed, served>>

StoreInit ==
  /\ entries = NoEntries
  /\ closed = FALSE
  /\ content \in [Objects -> Values]
  /\ served = Nothing

-----------------------------------------------------------------------------
StoreTypeOK ==
  /\ DOMAIN entries \in SUBSET Keys
  /\ \A k \in DOMAIN entries : entries[k].object \in Objects
  /\ closed \in BOOLEAN
  /\ content \in [Objects -> Values]
  /\ served \in Objects \cup {Nothing}

\* The store never holds more than its limit, and nothing once it is closed,
\* however insertions, overwrites, removals and expiry follow one another.
WithinLimits ==
  /\ Cardinality(DOMAIN entries) <= MaxEntries
  /\ closed => DOMAIN entries = {}

\* Whether what lies under a key may be handed out: the store is open and within its
\* lifetime, the entry is of the codec's schema and no older than it may be, and the
\* codec accepts what the object holds at this moment.
MayBeServed(key, codec, now) ==
  /\ ~closed
  /\ now # NotATime /\ CreatedAt <= now /\ now < ExpiresAt
  /\ key \in DOMAIN entries
  /\ LET entry == entries[key]
     IN /\ codec.version = entry.schema
        /\ Accepts(codec, entry.object)
        /\ ~(now < entry.freshness.observedAt)
        /\ ~(now - entry.freshness.observedAt > entry.freshness.maximumAgeMs)

\* Every implementation of the store is a forgetful store.
Promised == INSTANCE ForgetfulStore WITH
  held <- [k \in DOMAIN entries |-> entries[k].object],
  open <- ~closed,
  Capacity <- MaxEntries
=============================================================================
