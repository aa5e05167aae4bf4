------------------------ MODULE ExecutionGraphProofs ------------------------
(***************************************************************************)
(* Facts about the replay of a log that hold for logs of every length.     *)
(***************************************************************************)
EXTENDS ExecutionGraph, SequenceTheorems, WellFoundedInduction, TLAPS

\* What the adapters put in the runStatus of an event: never "running".
AdapterEvents(E) == \A e \in E : e.runStatus \in {"none", "ok", "error"}

\* A nonempty set of positions of a sequence of length n has a largest element,
\* so "the last event such that ..." exists whenever there is such an event.
LEMMA MaxOfPositions ==
  ASSUME NEW n \in Nat, NEW S \in SUBSET (1 .. n), S # {}
  PROVE  Max(S) \in S /\ \A i \in S : i <= Max(S)
<1> DEFINE D == {n - i : i \in S}
<1>1. D \subseteq Nat /\ D # {}
  <2>1. ASSUME NEW i \in S PROVE n - i \in Nat
    OBVIOUS
  <2>2. D \subseteq Nat
    BY <2>1
  <2>3. PICK i \in S : TRUE
    OBVIOUS
  <2>4. n - i \in D
    OBVIOUS
  <2>5. QED
    BY <2>2, <2>4
<1>2. PICK d \in D : \A y \in D : ~(<<y, d>> \in OpToRel(<, Nat))
  BY <1>1, NatLessThanWellFounded, WFMin
<1>3. \A y \in D : ~(y < d)
  BY <1>1, <1>2 DEF OpToRel
<1>4. PICK m \in S : d = n - m
  OBVIOUS
<1>5. \A i \in S : m >= i
  <2>1. TAKE i \in S
  <2>2. n - i \in D
    OBVIOUS
  <2>3. QED
    BY <2>2, <1>3, <1>4
<1>6. QED
  BY <1>4, <1>5 DEF Max

\* Likewise for the smallest element.
LEMMA MinOfPositions ==
  ASSUME NEW n \in Nat, NEW S \in SUBSET (1 .. n), S # {}
  PROVE  Min(S) \in S /\ \A i \in S : Min(S) <= i
<1>1. S \subseteq Nat
  OBVIOUS
<1>2. PICK m \in S : \A y \in S : ~(<<y, m>> \in OpToRel(<, Nat))
  BY <1>1, NatLessThanWellFounded, WFMin
<1>3. \A y \in S : ~(y < m)
  BY <1>1, <1>2 DEF OpToRel
<1>4. \A y \in S : m <= y
  BY <1>1, <1>3
<1>5. QED
  BY <1>4 DEF Min

-----------------------------------------------------------------------------
\* Whether an event is the first with its id depends only on what precedes it.
LEMMA UniqueOfContinuation ==
  ASSUME NEW E, NEW s \in Seq(E), NEW t \in Seq(E), Continues(t, s)
  PROVE  /\ Unique(s) = Unique(t) \cap (1 .. Len(s))
         /\ Unique(t) \subseteq 1 .. Len(t)
<1>1. DOMAIN s = 1 .. Len(s) /\ DOMAIN t = 1 .. Len(t)
  OBVIOUS
<1>2. \A i \in 1 .. Len(s) : i \in Unique(s) <=> i \in Unique(t)
  BY <1>1 DEF Unique, Continues
<1>3. QED
  BY <1>1, <1>2 DEF Unique

\* A log of adapter events is complete exactly if one of its unique events
\* carries a runStatus: whichever of them comes last, it is not "running".
LEMMA CompleteIffDecided ==
  ASSUME NEW E, AdapterEvents(E), NEW s \in Seq(E)
  PROVE  Complete(s) <=> Deciding(s) # {}
<1>1. Len(s) \in Nat /\ Deciding(s) \subseteq 1 .. Len(s)
  BY DEF Deciding, Unique
<1>2. CASE Deciding(s) = {}
  BY <1>2 DEF Complete, RunStatus
<1>3. CASE Deciding(s) # {}
  <2>1. Max(Deciding(s)) \in Deciding(s)
    BY <1>1, <1>3, MaxOfPositions
  <2>2. s[Max(Deciding(s))] \in E
    BY <1>1, <2>1
  <2>3. s[Max(Deciding(s))].runStatus \in {"ok", "error"}
    BY <2>1, <2>2 DEF Deciding, AdapterEvents
  <2>4. QED
    BY <1>3, <2>3 DEF Complete, RunStatus
<1>4. QED
  BY <1>2, <1>3

\* A complete log stays complete however it continues.
THEOREM CompleteContinues ==
  ASSUME NEW E, AdapterEvents(E), NEW s \in Seq(E), NEW t \in Seq(E),
         Continues(t, s), Complete(s)
  PROVE  Complete(t)
<1>1. Unique(s) \subseteq Unique(t) /\ Unique(s) \subseteq 1 .. Len(s)
  BY UniqueOfContinuation
<1>2. Deciding(s) \subseteq Deciding(t)
  BY <1>1 DEF Deciding, Continues
<1>3. QED
  BY <1>2, CompleteIffDecided

-----------------------------------------------------------------------------
\* Log t holds the events of operation o in log s at the places P, in their order,
\* and no others of that operation.
HoldsAt(t, s, o, P) ==
  /\ P \in [1 .. Len(s) -> 1 .. Len(t)]
  /\ EventsOf(t, o) = {P[j] : j \in EventsOf(s, o)}
  /\ \A j \in EventsOf(s, o) : t[P[j]] = s[j]
  /\ \A j, k \in EventsOf(s, o) : j <= k <=> P[j] <= P[k]

\* What a node says of its operation depends only on the events of that operation,
\* in their order: if another log holds the same ones, the nodes agree in everything
\* but the place of the first event among all the events.
LEMMA NodeOfRenamed ==
  ASSUME NEW E, NEW s \in Seq(E), NEW t \in Seq(E), NEW o, NEW P,
         EventsOf(s, o) # {}, HoldsAt(t, s, o, P)
  PROVE  /\ \A f \in DOMAIN Node(s, o) \ {"firstSeenIndex"} :
              Node(t, o)[f] = Node(s, o)[f]
         /\ DOMAIN Node(t, o) = DOMAIN Node(s, o)
         /\ Min(EventsOf(t, o)) = P[Min(EventsOf(s, o))]
<1> DEFINE own == EventsOf(s, o)
           new == EventsOf(t, o)
<1>1. own \subseteq 1 .. Len(s) /\ new \subseteq 1 .. Len(t)
  BY DEF EventsOf, Unique
<1>2. Len(s) \in Nat /\ Len(t) \in Nat
  OBVIOUS
<1>3. own # {} /\ new = {P[j] : j \in own}
  BY DEF HoldsAt
<1>4. \A j \in own : t[P[j]] = s[j] /\ P[j] \in 1 .. Len(t)
  BY <1>1 DEF HoldsAt
<1>5. \A j, k \in own : j <= k <=> P[j] <= P[k]
  BY DEF HoldsAt
<1> HIDE DEF own, new
<1>6. ASSUME NEW S \in SUBSET own, S # {}
      PROVE  /\ Max(S) \in S /\ Max({P[j] : j \in S}) = P[Max(S)]
             /\ Min(S) \in S /\ Min({P[j] : j \in S}) = P[Min(S)]
  <2> DEFINE T == {P[j] : j \in S}
  <2>1. S \subseteq 1 .. Len(s) /\ T \subseteq 1 .. Len(t) /\ T # {}
    <3>1. PICK j \in S : TRUE
      BY <1>6
    <3>2. P[j] \in T
      OBVIOUS
    <3>3. \A i \in S : i \in own
      BY <1>6
    <3>4. T \subseteq 1 .. Len(t)
      BY <1>4, <3>3
    <3>5. QED
      BY <1>1, <1>6, <3>2, <3>4
  <2>2. Max(S) \in S /\ \A i \in S : i <= Max(S)
    BY <1>2, <1>6, <2>1, MaxOfPositions
  <2>3. Min(S) \in S /\ \A i \in S : Min(S) <= i
    BY <1>2, <1>6, <2>1, MinOfPositions
  <2>4. Max(T) \in T /\ \A i \in T : i <= Max(T)
    BY <1>2, <2>1, MaxOfPositions
  <2>5. Min(T) \in T /\ \A i \in T : Min(T) <= i
    BY <1>2, <2>1, MinOfPositions
  <2>6. PICK j \in S, k \in S : Max(T) = P[j] /\ Min(T) = P[k]
    BY <2>4, <2>5
  <2>7. P[Max(S)] \in T /\ P[Min(S)] \in T
    BY <2>2, <2>3
  <2>8. P[j] <= P[Max(S)] /\ P[Min(S)] <= P[k]
    BY <1>5, <2>2, <2>3, <2>6
  <2>9. P[Max(S)] <= P[j] /\ P[k] <= P[Min(S)]
    <3> HIDE DEF T
    <3>1. P[Max(S)] <= Max(T) /\ Min(T) <= P[Min(S)]
      BY <2>4, <2>5, <2>7
    <3>2. QED
      BY <2>6, <3>1
  <2>10. P[j] \in Int /\ P[k] \in Int /\ P[Max(S)] \in Int /\ P[Min(S)] \in Int
    BY <1>4, <2>2, <2>3
  <2>11. QED
    BY <2>2, <2>3, <2>6, <2>8, <2>9, <2>10
<1>7. Max(own) \in own /\ Max(new) = P[Max(own)] /\ Min(own) \in own /\ Min(new) = P[Min(own)]
  BY <1>3, <1>6
<1>8. FinishesOf(t, o) = {P[j] : j \in FinishesOf(s, o)} /\ FinishesOf(s, o) \subseteq own
  BY <1>3, <1>4 DEF FinishesOf, own, new
<1>9. FinishesOf(s, o) = {} <=> FinishesOf(t, o) = {}
  <2>1. \A j \in FinishesOf(s, o) : P[j] \in FinishesOf(t, o)
    BY <1>8
  <2>2. \A i \in FinishesOf(t, o) : \E j \in FinishesOf(s, o) : i = P[j]
    BY <1>8
  <2>3. QED
    BY <2>1, <2>2
<1>10. FinishesOf(s, o) # {} => /\ Max(FinishesOf(s, o)) \in own
                                /\ Max(FinishesOf(t, o)) = P[Max(FinishesOf(s, o))]
  BY <1>6, <1>8
<1>11. ASSUME NEW j, NEW k, \A i \in own : i <= j <=> P[i] <= k
       PROVE  StartedAt(t, o, k) = StartedAt(s, o, j)
  <2> DEFINE starts == {i \in own : i <= j /\ s[i].lifecycle = "start"}
             begun == {i \in new : i <= k /\ t[i].lifecycle = "start"}
  <2>1. begun = {P[i] : i \in starts}
    BY <1>3, <1>4, <1>11
  <2>2. {t[i].at : i \in begun} = {s[i].at : i \in starts}
    BY <1>4, <2>1
  <2>3. t[Min(new)].at = s[Min(own)].at
    BY <1>4, <1>7
  <2>4. QED
    BY <2>2, <2>3 DEF StartedAt, own, new
<1>12. StartedAt(t, o, Len(t)) = StartedAt(s, o, Len(s))
  <2>1. \A i \in own : i <= Len(s) /\ P[i] <= Len(t)
    BY <1>1, <1>2, <1>4
  <2>2. QED
    BY <1>11, <2>1
<1>13. NodeStatus(t, o) = NodeStatus(s, o)
  BY <1>4, <1>7 DEF NodeStatus, own, new
<1>14. EndedAt(t, o) = EndedAt(s, o)
  BY <1>4, <1>9, <1>10 DEF EndedAt
<1>15. DurationMs(t, o) = DurationMs(s, o)
  <2>1. CASE FinishesOf(s, o) = {}
    BY <1>9, <2>1 DEF DurationMs
  <2>2. CASE FinishesOf(s, o) # {}
    <3> DEFINE last == Max(FinishesOf(s, o))
    <3>1. last \in own /\ Max(FinishesOf(t, o)) = P[last] /\ FinishesOf(t, o) # {}
      BY <1>9, <1>10, <2>2
    <3>2. t[P[last]] = s[last]
      BY <1>4, <3>1
    <3>3. StartedAt(t, o, P[last]) = StartedAt(s, o, last)
      BY <1>5, <1>11, <3>1
    <3>4. QED
      BY <2>2, <3>1, <3>2, <3>3 DEF DurationMs
  <2>3. QED
    BY <2>1, <2>2
<1>16. SequenceScope(t, o) = SequenceScope(s, o)
  <2> DEFINE scoped == {i \in own : s[i].scope # "none"}
             there == {i \in new : t[i].scope # "none"}
  <2>1. there = {P[i] : i \in scoped}
    BY <1>3, <1>4
  <2>2. CASE scoped = {}
    BY <2>1, <2>2 DEF SequenceScope, own, new
  <2>3. CASE scoped # {}
    <3>1. Max(scoped) \in own /\ Max(there) = P[Max(scoped)] /\ there # {}
      BY <1>6, <2>1, <2>3
    <3>2. t[Max(there)] = s[Max(scoped)]
      BY <1>4, <3>1
    <3>3. QED
      BY <2>3, <3>1, <3>2 DEF SequenceScope, own, new
  <2>4. QED
    BY <2>2, <2>3
<1>17. UNION {t[k].deps : k \in new} = UNION {s[k].deps : k \in own}
  BY <1>3, <1>4
<1>18. t[Max(new)].kind = s[Max(own)].kind
  BY <1>4, <1>7
<1>19. DOMAIN Node(s, o) = {"kind", "status", "startedAt", "endedAt", "durationMs", "scope",
                            "dependencies", "firstSeenIndex"}
       /\ DOMAIN Node(t, o) = DOMAIN Node(s, o)
  BY DEF Node
<1>20. /\ Node(t, o).kind = Node(s, o).kind
       /\ Node(t, o).status = Node(s, o).status
       /\ Node(t, o).startedAt = Node(s, o).startedAt
       /\ Node(t, o).endedAt = Node(s, o).endedAt
       /\ Node(t, o).durationMs = Node(s, o).durationMs
       /\ Node(t, o).scope = Node(s, o).scope
       /\ Node(t, o).dependencies = Node(s, o).dependencies
  BY <1>12, <1>13, <1>14, <1>15, <1>16, <1>17, <1>18 DEF Node, own, new
<1>21. QED
  BY <1>7, <1>19, <1>20 DEF own, new

\* A log that continues another one with events of other operations keeps the node.
LEMMA NodeOfContinuation ==
  ASSUME NEW E, NEW s \in Seq(E), NEW t \in Seq(E), Continues(t, s),
         NEW o \in Operations(s), EventsOf(t, o) = EventsOf(s, o)
  PROVE  Node(t, o) = Node(s, o)
<1> DEFINE own == EventsOf(s, o)
<1>1. own # {} /\ own \subseteq 1 .. Len(s) /\ Len(s) \in Nat
  BY DEF EventsOf, Operations, Unique
<1>2. PICK P \in [1 .. Len(s) -> 1 .. Len(t)] : \A j \in 1 .. Len(s) : P[j] = j
  <2>1. \A j \in 1 .. Len(s) : j \in 1 .. Len(t)
    BY DEF Continues
  <2>2. [j \in 1 .. Len(s) |-> j] \in [1 .. Len(s) -> 1 .. Len(t)]
    BY <2>1
  <2>3. QED
    BY <2>2
<1>3. \A j \in own : P[j] = j /\ t[P[j]] = s[j]
  BY <1>1, <1>2 DEF Continues
<1>4. EventsOf(t, o) = {P[j] : j \in own}
  BY <1>3
<1>5. \A j, k \in own : j <= k <=> P[j] <= P[k]
  BY <1>3
<1>6. /\ \A f \in DOMAIN Node(s, o) \ {"firstSeenIndex"} : Node(t, o)[f] = Node(s, o)[f]
      /\ DOMAIN Node(t, o) = DOMAIN Node(s, o)
  <2>1. HoldsAt(t, s, o, P)
    BY <1>2, <1>3, <1>4, <1>5 DEF HoldsAt, own
  <2>2. QED
    BY <1>1, <2>1, NodeOfRenamed DEF own
<1>7. Min(own) \in 1 .. Len(s)
  BY <1>1, MinOfPositions
<1>8. {i \in Unique(t) : i < Min(own)} = {i \in Unique(s) : i < Min(own)}
  BY <1>7, UniqueOfContinuation
<1>9. Node(t, o).firstSeenIndex = Node(s, o).firstSeenIndex
  BY <1>8 DEF Node, own
<1>10. \A f \in DOMAIN Node(s, o) : Node(t, o)[f] = Node(s, o)[f]
  BY <1>6, <1>9
<1>11. QED
  BY <1>6, <1>10 DEF Node

-----------------------------------------------------------------------------
\* The nodes and the status of a graph depend on the unique events alone: an
\* event whose id the log already holds, whatever else it says, adds nothing.
THEOREM DuplicateAddsNothing ==
  ASSUME NEW E, NEW s \in Seq(E), NEW e \in E,
         NEW i \in 1 .. Len(s), s[i].id = e.id
  PROVE  LET t == Append(s, e)
         IN /\ Unique(t) = Unique(s)
            /\ RunStatus(t) = RunStatus(s)
            /\ RunEndedAt(t) = RunEndedAt(s)
            /\ Nodes(t) = Nodes(s)
<1> DEFINE t == Append(s, e)
<1> HIDE DEF t
<1>1. t \in Seq(E) /\ Len(t) = Len(s) + 1 /\ t[Len(s) + 1] = e /\ Continues(t, s)
  BY AppendProperties DEF t, Continues
<1>2. Unique(t) = Unique(s)
  <2>1. Len(s) + 1 \notin Unique(t)
    BY <1>1 DEF Unique, Continues
  <2>2. QED
    BY <1>1, <2>1, UniqueOfContinuation
<1>3. \A j \in Unique(s) : j \in 1 .. Len(s) /\ t[j] = s[j]
  BY <1>1 DEF Unique, Continues
<1>4. Deciding(t) = Deciding(s)
  BY <1>2, <1>3 DEF Deciding
<1>5. Deciding(s) \subseteq 1 .. Len(s) /\ Deciding(s) \subseteq Unique(s)
  BY <1>3 DEF Deciding
<1>6. RunStatus(t) = RunStatus(s)
  <2>1. CASE Deciding(s) = {}
    BY <1>4, <2>1 DEF RunStatus
  <2>2. CASE Deciding(s) # {}
    <3>1. Max(Deciding(s)) \in Deciding(s)
      BY <1>5, <2>2, MaxOfPositions, Len(s) \in Nat
    <3>2. QED
      BY <1>3, <1>4, <1>5, <3>1 DEF RunStatus
  <2>3. QED
    BY <2>1, <2>2
<1>7. RunEndedAt(t) = RunEndedAt(s)
  <2> DEFINE ending == {k \in Deciding(s) : s[k].runStatus # "running"}
  <2>1. ending = {k \in Deciding(t) : t[k].runStatus # "running"}
    BY <1>3, <1>4, <1>5
  <2>2. CASE ending = {}
    BY <2>1, <2>2 DEF RunEndedAt
  <2>3. CASE ending # {}
    <3>1. Max(ending) \in ending
      BY <1>5, <2>3, MaxOfPositions, Len(s) \in Nat
    <3>2. t[Max(ending)] = s[Max(ending)]
      BY <1>3, <1>5, <3>1
    <3>3. QED
      BY <2>1, <2>3, <3>2 DEF RunEndedAt
  <2>4. QED
    BY <2>2, <2>3
<1>8. Operations(t) = Operations(s)
  BY <1>2, <1>3 DEF Operations
<1>9. ASSUME NEW o \in Operations(s)
      PROVE  Node(t, o) = Node(s, o)
  <2>1. EventsOf(t, o) = EventsOf(s, o)
    BY <1>2, <1>3 DEF EventsOf
  <2>2. QED
    BY <1>1, <2>1, NodeOfContinuation
<1>10. Nodes(t) = Nodes(s)
  BY <1>8, <1>9 DEF Nodes
<1>11. QED
  BY <1>2, <1>6, <1>7, <1>10 DEF t
=============================================================================
