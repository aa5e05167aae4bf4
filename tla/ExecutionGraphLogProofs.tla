----------------------- MODULE ExecutionGraphLogProofs -----------------------
(***************************************************************************)
(* What the replay of a log promises, for logs of every length over every  *)
(* vocabulary.  The loop of buildExecutionGraph is followed event by event *)
(* (Reached): after each event its nodes are those that the definitions by *)
(* position give to the log so far, in the order of their first events.    *)
(***************************************************************************)
EXTENDS ExecutionGraphLog, ExecutionGraphProofs, FiniteSetTheorems, FunctionTheorems

\* The times of the events are naturals.
Timed(E) == \A e \in E : e.at \in Nat

\* The node of operation o as the walk keeps it: with its operation, without its
\* place among the events.
WalkNode(events, o) ==
  LET node == Node(events, o)
  IN [op |-> o, kind |-> node.kind, status |-> node.status, startedAt |-> node.startedAt,
      endedAt |-> node.endedAt, durationMs |-> node.durationMs, scope |-> node.scope,
      dependencies |-> node.dependencies]

\* No event of log s has the id of e.
Fresh(s, e) == \A i \in 1 .. Len(s) : s[i].id # e.id

-----------------------------------------------------------------------------
\* The last position of a log is the greatest of a set that holds it.
LEMMA LastIsMax ==
  ASSUME NEW n \in Nat, NEW S \in SUBSET (1 .. n), n \in S
  PROVE  Max(S) = n
<1>1. S # {}
  OBVIOUS
<1>2. Max(S) \in S /\ \A i \in S : i <= Max(S)
  BY <1>1, MaxOfPositions
<1>3. Max(S) \in 1 .. n /\ n <= Max(S)
  BY <1>2
<1>4. QED
  BY <1>3

\* A nonempty set of times has a least element.
LEMMA MinOfTimes ==
  ASSUME NEW S \in SUBSET Nat, S # {}
  PROVE  Min(S) \in S /\ \A i \in S : Min(S) <= i
<1>1. S \subseteq Nat
  OBVIOUS
<1>2. PICK m \in S : \A y \in S : ~(<<y, m>> \in OpToRel(<, Nat))
  BY <1>1, NatLessThanWellFounded, WFMin
<1>3. \A y \in S : ~(y < m)
  BY <1>1, <1>2 DEF OpToRel
<1>4. \A y \in S : m <= y
  BY <1>1, <1>3
<1>5. QED
  BY <1>4 DEF Min

\* An event with a new id adds one unique event, to its own operation.
LEMMA FreshEvent ==
  ASSUME NEW E, NEW s \in Seq(E), NEW e \in E, Fresh(s, e)
  PROVE  LET t == Append(s, e)
             n == Len(s) + 1
         IN /\ t \in Seq(E) /\ Len(t) = n /\ n \in Nat /\ t[n] = e /\ Continues(t, s)
            /\ Unique(s) \subseteq 1 .. Len(s)
            /\ Unique(t) = Unique(s) \cup {n} /\ n \notin Unique(s)
            /\ \A j \in Unique(s) : t[j] = s[j]
            /\ Operations(t) = Operations(s) \cup {e.op}
            /\ \A o : EventsOf(t, o) = EventsOf(s, o) \cup (IF o = e.op THEN {n} ELSE {})
            /\ \A o \in Operations(s) : EventsOf(s, o) # {}
            /\ \A o : EventsOf(s, o) # {} => o \in Operations(s)
<1> DEFINE t == Append(s, e)
           n == Len(s) + 1
<1>1. t \in Seq(E) /\ Len(t) = n /\ n \in Nat /\ t[n] = e /\ Continues(t, s)
  BY AppendProperties DEF Continues
<1> HIDE DEF t
<1>2. Unique(s) = Unique(t) \cap (1 .. Len(s)) /\ Unique(t) \subseteq 1 .. n
  BY <1>1, UniqueOfContinuation
<1>3. \A j \in 1 .. Len(s) : t[j] = s[j]
  BY <1>1 DEF Continues
<1>4. n \in Unique(t)
  BY <1>1, <1>3 DEF Unique, Fresh
<1>5. Unique(t) = Unique(s) \cup {n} /\ n \notin Unique(s)
  BY <1>2, <1>4
<1>6. \A j \in Unique(s) : t[j] = s[j] /\ j \in 1 .. Len(s)
  BY <1>2, <1>3
<1>7. \A o : EventsOf(t, o) = EventsOf(s, o) \cup (IF o = e.op THEN {n} ELSE {})
  BY <1>1, <1>5, <1>6 DEF EventsOf
<1>8. Operations(t) = Operations(s) \cup {e.op}
  <2>1. {t[i].op : i \in Unique(s)} = {s[i].op : i \in Unique(s)}
    BY <1>6
  <2>2. {t[i].op : i \in Unique(t)} = {t[i].op : i \in Unique(s)} \cup {t[n].op}
    BY <1>5
  <2>3. QED
    BY <1>1, <2>1, <2>2 DEF Operations
<1>9. \A o : EventsOf(s, o) # {} <=> o \in Operations(s)
  BY DEF EventsOf, Operations
<1>10. QED
  BY <1>1, <1>2, <1>5, <1>6, <1>7, <1>8, <1>9 DEF t

-----------------------------------------------------------------------------
\* What updateNodeFromEvent makes of a node, field by field.
LEMMA UpdatedFields ==
  ASSUME NEW e, NEW o, NEW kind, NEW status, NEW startedAt, NEW endedAt, NEW durationMs,
         NEW scope, NEW dependencies
  PROVE  LET start == e.lifecycle = "start"
         IN UpdateNode([op |-> o, kind |-> kind, status |-> status, startedAt |-> startedAt,
                        endedAt |-> endedAt, durationMs |-> durationMs, scope |-> scope,
                        dependencies |-> dependencies], e)
              = [op |-> o, kind |-> e.kind,
                 status |-> IF start THEN "running"
                            ELSE IF e.status = "none" THEN "ok" ELSE e.status,
                 startedAt |-> IF start /\ ~(startedAt <= e.at) THEN e.at ELSE startedAt,
                 endedAt |-> IF start THEN endedAt ELSE e.at,
                 durationMs |-> IF start THEN durationMs
                                ELSE IF e.duration # NotSet THEN e.duration
                                ELSE IF e.at >= startedAt THEN e.at - startedAt ELSE 0,
                 scope |-> IF e.scope = "none" THEN scope ELSE e.scope,
                 dependencies |-> dependencies \cup e.deps]
<1>1. CASE e.lifecycle = "start"
  BY <1>1 DEF UpdateNode
<1>2. CASE e.lifecycle # "start"
  BY <1>2 DEF UpdateNode
<1>3. QED
  BY <1>1, <1>2

\* The first event of an operation makes its node (createMutableNode).
LEMMA NodeIsMade ==
  ASSUME NEW E, Timed(E), NEW s \in Seq(E), NEW e \in E, Fresh(s, e),
         e.op \notin Operations(s)
  PROVE  LET t == Append(s, e)
         IN /\ WalkNode(t, e.op) = UpdateNode(CreateMutableNode(e), e)
            /\ Node(t, e.op).firstSeenIndex = Cardinality(Unique(s))
<1> DEFINE t == Append(s, e)
           n == Len(s) + 1
           o == e.op
<1>1. /\ t \in Seq(E) /\ Len(t) = n /\ n \in Nat /\ t[n] = e /\ Continues(t, s)
      /\ Unique(s) \subseteq 1 .. Len(s)
      /\ Unique(t) = Unique(s) \cup {n} /\ n \notin Unique(s)
      /\ EventsOf(t, o) = EventsOf(s, o) \cup {n}
      /\ EventsOf(s, o) = {}
  BY FreshEvent
<1> HIDE DEF t
<1>2. EventsOf(t, o) = {n} /\ e.at \in Nat
  BY <1>1 DEF Timed
<1>3. Max({n}) = n /\ Min({n}) = n
  <2>1. {n} \subseteq 1 .. n
    BY <1>1
  <2>2. Max({n}) = n
    BY <1>1, <2>1, LastIsMax
  <2>3. Min({n}) \in {n}
    BY <1>1, <2>1, MinOfPositions
  <2>4. QED
    BY <2>2, <2>3
<1>4. FinishesOf(t, o) = IF e.lifecycle = "start" THEN {} ELSE {n}
  BY <1>1, <1>2 DEF FinishesOf
<1>5. StartedAt(t, o, n) = e.at
  <2> DEFINE starts == {k \in {n} : k <= n /\ t[k].lifecycle = "start"}
             times == {t[j].at : j \in starts}
  <2>1. {t[n].at} \cup times = {e.at}
    BY <1>1
  <2>2. Min({e.at}) \in {e.at}
    BY <1>2, MinOfTimes
  <2>3. QED
    BY <1>2, <1>3, <2>1, <2>2 DEF StartedAt
<1>6. NodeStatus(t, o) = IF e.lifecycle = "start" THEN "running"
                         ELSE IF e.status = "none" THEN "ok" ELSE e.status
  BY <1>1, <1>2, <1>3 DEF NodeStatus
<1>7. EndedAt(t, o) = IF e.lifecycle = "start" THEN NotSet ELSE e.at
  BY <1>1, <1>3, <1>4 DEF EndedAt
<1>8. DurationMs(t, o) = IF e.lifecycle = "start" THEN NotSet
                         ELSE IF e.duration # NotSet THEN e.duration ELSE 0
  <2>1. Max({0, e.at - e.at}) = 0
    BY <1>2 DEF Max
  <2>2. QED
    BY <1>1, <1>3, <1>4, <1>5, <2>1 DEF DurationMs
<1>9. SequenceScope(t, o) = e.scope
  <2> DEFINE scoped == {i \in {n} : t[i].scope # "none"}
  <2>1. scoped = IF e.scope = "none" THEN {} ELSE {n}
    BY <1>1
  <2>2. QED
    BY <1>1, <1>2, <1>3, <2>1 DEF SequenceScope
<1>10. UNION {t[i].deps : i \in {n}} = e.deps
  BY <1>1
<1>11. Cardinality({i \in Unique(t) : i < n}) = Cardinality(Unique(s))
  <2>1. {i \in Unique(t) : i < n} = Unique(s)
    BY <1>1
  <2>2. QED
    BY <2>1
<1>12. Node(t, o) = [kind |-> e.kind, status |-> NodeStatus(t, o), startedAt |-> e.at,
                     endedAt |-> EndedAt(t, o), durationMs |-> DurationMs(t, o),
                     scope |-> e.scope, dependencies |-> e.deps,
                     firstSeenIndex |-> Cardinality(Unique(s))]
  BY <1>1, <1>2, <1>3, <1>5, <1>9, <1>10, <1>11 DEF Node
<1>13. WalkNode(t, o) = [op |-> o, kind |-> e.kind, status |-> NodeStatus(t, o),
                         startedAt |-> e.at, endedAt |-> EndedAt(t, o),
                         durationMs |-> DurationMs(t, o), scope |-> e.scope,
                         dependencies |-> e.deps]
  BY <1>12 DEF WalkNode
<1>14. CreateMutableNode(e) =
         [op |-> o, kind |-> e.kind, status |-> "pending", startedAt |-> e.at,
          endedAt |-> NotSet, durationMs |-> NotSet, scope |-> "none", dependencies |-> {}]
  BY DEF CreateMutableNode
<1>15. e.at <= e.at /\ e.at >= e.at /\ e.at - e.at = 0
  BY <1>2
<1> HIDE DEF o
<1>16. UpdateNode(CreateMutableNode(e), e)
         = [op |-> o, kind |-> e.kind,
            status |-> IF e.lifecycle = "start" THEN "running"
                       ELSE IF e.status = "none" THEN "ok" ELSE e.status,
            startedAt |-> e.at,
            endedAt |-> IF e.lifecycle = "start" THEN NotSet ELSE e.at,
            durationMs |-> IF e.lifecycle = "start" THEN NotSet
                           ELSE IF e.duration # NotSet THEN e.duration ELSE 0,
            scope |-> e.scope,
            dependencies |-> e.deps]
  <2>1. {} \cup e.deps = e.deps
    OBVIOUS
  <2>2. (IF e.scope = "none" THEN "none" ELSE e.scope) = e.scope
    OBVIOUS
  <2>3. QED
    BY <1>14, <1>15, <2>1, <2>2, UpdatedFields
<1>17. WalkNode(t, o) = UpdateNode(CreateMutableNode(e), e)
  BY <1>6, <1>7, <1>8, <1>13, <1>16
<1>18. QED
  BY <1>12, <1>17 DEF t, o

\* A later one updates it (updateNodeFromEvent).
LEMMA NodeIsUpdated ==
  ASSUME NEW E, Timed(E), NEW s \in Seq(E), NEW e \in E, Fresh(s, e),
         e.op \in Operations(s)
  PROVE  LET t == Append(s, e)
         IN /\ WalkNode(t, e.op) = UpdateNode(WalkNode(s, e.op), e)
            /\ Node(t, e.op).firstSeenIndex = Node(s, e.op).firstSeenIndex
<1> DEFINE t == Append(s, e)
           n == Len(s) + 1
           o == e.op
           own == EventsOf(s, o)
<1>1. /\ t \in Seq(E) /\ Len(t) = n /\ n \in Nat /\ t[n] = e /\ Continues(t, s)
      /\ Unique(s) \subseteq 1 .. Len(s)
      /\ Unique(t) = Unique(s) \cup {n} /\ n \notin Unique(s)
      /\ \A j \in Unique(s) : t[j] = s[j]
      /\ EventsOf(t, o) = own \cup {n}
      /\ own # {}
  BY FreshEvent
<1> HIDE DEF t
<1>2. own \subseteq Unique(s) /\ own \subseteq 1 .. Len(s) /\ own \cup {n} \subseteq 1 .. n
  BY <1>1 DEF EventsOf
<1>3. \A j \in own : t[j] = s[j] /\ j \in Nat /\ j < n /\ s[j] \in E /\ s[j].at \in Nat
  BY <1>1, <1>2 DEF Timed
<1>4. e.at \in Nat /\ Len(s) \in Nat /\ n = Len(s) + 1
  BY DEF Timed
<1> HIDE DEF own, n, o
<1>5. Max(own \cup {n}) = n
  BY <1>1, <1>2, LastIsMax
<1>6. Min(own \cup {n}) = Min(own) /\ Min(own) \in own
  <2>1. Min(own) \in own /\ \A i \in own : Min(own) <= i
    BY <1>1, <1>2, <1>4, MinOfPositions
  <2>2. Min(own \cup {n}) \in own \cup {n} /\ \A i \in own \cup {n} : Min(own \cup {n}) <= i
    BY <1>1, <1>2, MinOfPositions
  <2>3. Min(own) \in own \cup {n}
    BY <2>1
  <2>4. Min(own \cup {n}) <= Min(own) /\ Min(own) < n /\ Min(own) \in Nat
    BY <1>3, <2>1, <2>2, <2>3
  <2>5. Min(own \cup {n}) \in own
    BY <1>1, <2>2, <2>4
  <2>6. QED
    BY <1>3, <2>1, <2>4, <2>5
<1>7. FinishesOf(t, o) = FinishesOf(s, o) \cup (IF e.lifecycle = "start" THEN {} ELSE {n})
      /\ FinishesOf(s, o) \subseteq own
  BY <1>1, <1>3 DEF FinishesOf, own
<1>8. e.lifecycle # "start" => FinishesOf(t, o) # {} /\ Max(FinishesOf(t, o)) = n
  <2>1. ASSUME e.lifecycle # "start" PROVE n \in FinishesOf(t, o) /\ FinishesOf(t, o) \subseteq 1 .. n
    BY <1>2, <1>7, <2>1
  <2>2. QED
    BY <1>1, <2>1, LastIsMax
<1>9. ASSUME FinishesOf(s, o) # {}
      PROVE  Max(FinishesOf(s, o)) \in own /\ Max(FinishesOf(s, o)) \in Nat
  <2>1. FinishesOf(s, o) \subseteq 1 .. Len(s)
    BY <1>2, <1>7
  <2>2. QED
    BY <1>3, <1>4, <1>7, <1>9, <2>1, MaxOfPositions
\* The starts of the operation so far.
<1> DEFINE starts(j) == {k \in own : k <= j /\ s[k].lifecycle = "start"}
           times(j) == {s[Min(own)].at} \cup {s[k].at : k \in starts(j)}
<1>10. \A j : StartedAt(s, o, j) = Min(times(j))
  BY DEF StartedAt, own
<1>11. ASSUME NEW j \in Nat, j < n
       PROVE  StartedAt(t, o, j) = StartedAt(s, o, j)
  <2>1. {k \in own \cup {n} : k <= j /\ t[k].lifecycle = "start"} = starts(j)
    BY <1>1, <1>3, <1>11
  <2>2. {t[k].at : k \in starts(j)} = {s[k].at : k \in starts(j)}
    BY <1>3
  <2>3. t[Min(own)].at = s[Min(own)].at
    BY <1>3, <1>6
  <2>4. QED
    BY <1>1, <1>6, <1>10, <2>1, <2>2, <2>3 DEF StartedAt
<1>12. times(Len(s)) \in SUBSET Nat /\ times(Len(s)) # {}
  BY <1>3, <1>6
<1>13. StartedAt(s, o, Len(s)) \in Nat
  BY <1>10, <1>12, MinOfTimes
<1>14. StartedAt(t, o, n) = IF e.lifecycle # "start" \/ StartedAt(s, o, Len(s)) <= e.at
                            THEN StartedAt(s, o, Len(s)) ELSE e.at
  <2> DEFINE begun == {k \in own \cup {n} : k <= n /\ t[k].lifecycle = "start"}
             old == times(Len(s))
             new == {t[Min(own)].at} \cup {t[k].at : k \in begun}
  <2>1. StartedAt(t, o, n) = Min(new)
    BY <1>1, <1>6 DEF StartedAt
  <2>2. begun = starts(Len(s)) \cup (IF e.lifecycle = "start" THEN {n} ELSE {})
    BY <1>1, <1>2, <1>3, <1>4
  <2>3. {t[k].at : k \in starts(Len(s))} = {s[k].at : k \in starts(Len(s))}
    BY <1>3
  <2>4. t[Min(own)].at = s[Min(own)].at
    BY <1>3, <1>6
  <2>5. new = old \cup (IF e.lifecycle = "start" THEN {e.at} ELSE {})
    <3>1. CASE e.lifecycle = "start"
      <4>1. {t[k].at : k \in begun} = {t[k].at : k \in starts(Len(s))} \cup {t[n].at}
        BY <2>2, <3>1
      <4>2. QED
        BY <1>1, <2>3, <2>4, <3>1, <4>1
    <3>2. CASE e.lifecycle # "start"
      BY <2>2, <2>3, <2>4, <3>2
    <3>3. QED
      BY <3>1, <3>2
  <2>6. Min(old) \in old /\ \A i \in old : Min(old) <= i
    BY <1>12, MinOfTimes
  <2> HIDE DEF old, new, begun
  <2>7. old \subseteq Nat
    BY <1>12 DEF old
  <2>8. Min(old) = StartedAt(s, o, Len(s))
    BY <1>10 DEF old
  <2>9. CASE e.lifecycle # "start"
    BY <2>1, <2>5, <2>8, <2>9
  <2>10. CASE e.lifecycle = "start"
    <3>1. new = old \cup {e.at} /\ new \subseteq Nat
      BY <1>4, <2>5, <2>7, <2>10
    <3>2. Min(new) \in new /\ \A i \in new : Min(new) <= i
      BY <3>1, MinOfTimes
    <3>3. Min(new) <= Min(old) /\ Min(new) <= e.at
      BY <2>6, <3>1, <3>2
    <3>4. Min(new) \in Nat /\ Min(old) \in Nat
      BY <2>6, <2>7, <3>1, <3>2
    <3>5. Min(new) = e.at \/ Min(old) <= Min(new)
      BY <2>6, <3>1, <3>2
    <3>6. Min(new) = IF Min(old) <= e.at THEN Min(old) ELSE e.at
      BY <1>4, <3>3, <3>4, <3>5
    <3>7. QED
      BY <2>1, <2>8, <2>10, <3>6
  <2>11. QED
    BY <2>9, <2>10
<1>15. NodeStatus(t, o) = IF e.lifecycle = "start" THEN "running"
                          ELSE IF e.status = "none" THEN "ok" ELSE e.status
  BY <1>1, <1>5 DEF NodeStatus
<1>16. EndedAt(t, o) = IF e.lifecycle = "start" THEN EndedAt(s, o) ELSE e.at
  <2>1. CASE e.lifecycle # "start"
    BY <1>1, <1>8, <2>1 DEF EndedAt
  <2>2. CASE e.lifecycle = "start"
    BY <1>3, <1>7, <1>9, <2>2 DEF EndedAt
  <2>3. QED
    BY <2>1, <2>2
<1>17. DurationMs(t, o) =
         IF e.lifecycle = "start" THEN DurationMs(s, o)
         ELSE IF e.duration # NotSet THEN e.duration
         ELSE IF e.at >= StartedAt(s, o, Len(s)) THEN e.at - StartedAt(s, o, Len(s)) ELSE 0
  <2>1. CASE e.lifecycle # "start"
    <3> DEFINE span == e.at - StartedAt(s, o, Len(s))
    <3>1. StartedAt(t, o, n) = StartedAt(s, o, Len(s))
      BY <1>14, <2>1
    <3>2. DurationMs(t, o) = IF e.duration # NotSet THEN e.duration ELSE Max({0, span})
      BY <1>1, <1>8, <2>1, <3>1 DEF DurationMs
    <3>3. span \in Int
      BY <1>4, <1>13
    <3> HIDE DEF span
    <3>4. Max({0, span}) = IF span >= 0 THEN span ELSE 0
      BY <3>3 DEF Max
    <3>5. span >= 0 <=> e.at >= StartedAt(s, o, Len(s))
      BY <1>4, <1>13 DEF span
    <3>6. QED
      BY <2>1, <3>2, <3>4, <3>5 DEF span
  <2>2. CASE e.lifecycle = "start"
    <3>1. FinishesOf(t, o) = FinishesOf(s, o)
      BY <1>7, <2>2
    <3>2. CASE FinishesOf(s, o) = {}
      BY <2>2, <3>1, <3>2 DEF DurationMs
    <3>3. CASE FinishesOf(s, o) # {}
      <4> DEFINE last == Max(FinishesOf(s, o))
      <4>1. last \in Nat /\ last < n /\ t[last] = s[last]
        BY <1>3, <1>9, <3>3
      <4>2. StartedAt(t, o, last) = StartedAt(s, o, last)
        BY <1>11, <4>1
      <4>3. QED
        BY <2>2, <3>1, <3>3, <4>1, <4>2 DEF DurationMs
    <3>4. QED
      BY <3>2, <3>3
  <2>3. QED
    BY <2>1, <2>2
<1>18. SequenceScope(t, o) = IF e.scope = "none" THEN SequenceScope(s, o) ELSE e.scope
  <2> DEFINE scoped == {i \in own : s[i].scope # "none"}
             there == {i \in own \cup {n} : t[i].scope # "none"}
  <2>1. there = scoped \cup (IF e.scope = "none" THEN {} ELSE {n})
    BY <1>1, <1>3
  <2>2. there \subseteq 1 .. n /\ scoped \subseteq 1 .. Len(s)
    BY <1>2
  <2>3. SequenceScope(t, o) = IF there = {} THEN "none" ELSE t[Max(there)].scope
    BY <1>1 DEF SequenceScope
  <2>4. SequenceScope(s, o) = IF scoped = {} THEN "none" ELSE s[Max(scoped)].scope
    BY DEF SequenceScope, own
  <2>5. scoped # {} => Max(scoped) \in own
    BY <1>4, <2>2, MaxOfPositions
  <2> HIDE DEF there, scoped
  <2>6. CASE e.scope = "none"
    BY <1>3, <2>1, <2>3, <2>4, <2>5, <2>6
  <2>7. CASE e.scope # "none"
    <3>1. n \in there
      BY <2>1, <2>7
    <3>2. Max(there) = n
      BY <1>1, <2>2, <3>1, LastIsMax
    <3>3. QED
      BY <1>1, <2>3, <2>7, <3>1, <3>2
  <2>8. QED
    BY <2>6, <2>7
<1>19. UNION {t[i].deps : i \in own \cup {n}} = (UNION {s[i].deps : i \in own}) \cup e.deps
  BY <1>1, <1>3
<1>20. {i \in Unique(t) : i < Min(own)} = {i \in Unique(s) : i < Min(own)}
  BY <1>1, <1>3, <1>6
<1>21. Node(s, o) = [kind |-> s[Max(own)].kind, status |-> NodeStatus(s, o),
                     startedAt |-> StartedAt(s, o, Len(s)), endedAt |-> EndedAt(s, o),
                     durationMs |-> DurationMs(s, o), scope |-> SequenceScope(s, o),
                     dependencies |-> UNION {s[i].deps : i \in own},
                     firstSeenIndex |-> Cardinality({i \in Unique(s) : i < Min(own)})]
  BY DEF Node, own
<1>22. Node(t, o) = [kind |-> e.kind, status |-> NodeStatus(t, o),
                     startedAt |-> StartedAt(t, o, n), endedAt |-> EndedAt(t, o),
                     durationMs |-> DurationMs(t, o), scope |-> SequenceScope(t, o),
                     dependencies |-> (UNION {s[i].deps : i \in own}) \cup e.deps,
                     firstSeenIndex |-> Cardinality({i \in Unique(s) : i < Min(own)})]
  BY <1>1, <1>5, <1>6, <1>19, <1>20 DEF Node
<1>23. Node(t, o).firstSeenIndex = Node(s, o).firstSeenIndex
  BY <1>21, <1>22
<1>24. WalkNode(s, o) =
         [op |-> o, kind |-> s[Max(own)].kind, status |-> NodeStatus(s, o),
          startedAt |-> StartedAt(s, o, Len(s)), endedAt |-> EndedAt(s, o),
          durationMs |-> DurationMs(s, o), scope |-> SequenceScope(s, o),
          dependencies |-> UNION {s[i].deps : i \in own}]
  BY <1>21 DEF WalkNode
<1>25. WalkNode(t, o) =
         [op |-> o, kind |-> e.kind, status |-> NodeStatus(t, o),
          startedAt |-> StartedAt(t, o, n), endedAt |-> EndedAt(t, o),
          durationMs |-> DurationMs(t, o), scope |-> SequenceScope(t, o),
          dependencies |-> (UNION {s[i].deps : i \in own}) \cup e.deps]
  BY <1>22 DEF WalkNode
<1>26. UpdateNode(WalkNode(s, o), e) = WalkNode(t, o)
  <2>1. StartedAt(t, o, n) = IF e.lifecycle = "start" /\ ~(StartedAt(s, o, Len(s)) <= e.at)
                             THEN e.at ELSE StartedAt(s, o, Len(s))
    BY <1>14
  <2>2. QED
    BY <1>15, <1>16, <1>17, <1>18, <1>24, <1>25, <2>1, UpdatedFields
<1>27. QED
  BY <1>23, <1>26 DEF t, o

\* The ids of a log.
Ids(events) == {events[i].id : i \in 1 .. Len(events)}

\* order lists the operations of a log in the order in which they were first seen.
InOrder(order, events) ==
  /\ order \in Seq(Operations(events))
  /\ \A o \in Operations(events) : \E i \in 1 .. Len(order) : order[i] = o
  /\ \A i, j \in 1 .. Len(order) :
       j < i => Node(events, order[j]).firstSeenIndex < Node(events, order[i]).firstSeenIndex

\* The walk has come to w over the log: its nodes are those of the operations so far.
Reached(w, events, order) ==
  /\ InOrder(order, events)
  /\ w = [seen |-> Ids(events),
          nodes |-> [i \in 1 .. Len(order) |-> WalkNode(events, order[i])],
          status |-> RunStatus(events), endedAt |-> RunEndedAt(events),
          events |-> Len(events)]

\* A fresh event decides the run exactly if it carries a runStatus.
LEMMA FreshDecides ==
  ASSUME NEW E, NEW s \in Seq(E), NEW e \in E, Fresh(s, e)
  PROVE  LET t == Append(s, e)
         IN /\ RunStatus(t) = IF e.runStatus = "none" THEN RunStatus(s) ELSE e.runStatus
            /\ RunEndedAt(t) = IF e.runStatus \in {"none", "running"} THEN RunEndedAt(s)
                               ELSE e.at
<1> DEFINE t == Append(s, e)
           n == Len(s) + 1
<1>1. /\ t \in Seq(E) /\ Len(t) = n /\ n \in Nat /\ t[n] = e
      /\ Unique(s) \subseteq 1 .. Len(s)
      /\ Unique(t) = Unique(s) \cup {n} /\ n \notin Unique(s)
      /\ \A j \in Unique(s) : t[j] = s[j]
  BY FreshEvent
<1> HIDE DEF t
<1>2. Deciding(s) \subseteq 1 .. Len(s) /\ \A j \in Deciding(s) : t[j] = s[j]
  BY <1>1 DEF Deciding
<1>3. Deciding(t) = Deciding(s) \cup (IF e.runStatus = "none" THEN {} ELSE {n})
  BY <1>1 DEF Deciding
<1>4. Deciding(t) \subseteq 1 .. n
  BY <1>1, <1>2, <1>3
<1>5. RunStatus(t) = IF e.runStatus = "none" THEN RunStatus(s) ELSE e.runStatus
  <2>1. CASE e.runStatus = "none"
    <3>1. Deciding(s) # {} => Max(Deciding(s)) \in Deciding(s)
      BY <1>2, MaxOfPositions, Len(s) \in Nat
    <3>2. QED
      BY <1>2, <1>3, <2>1, <3>1 DEF RunStatus
  <2>2. CASE e.runStatus # "none"
    <3>1. n \in Deciding(t)
      BY <1>3, <2>2
    <3>2. Max(Deciding(t)) = n
      BY <1>1, <1>4, <3>1, LastIsMax
    <3>3. QED
      BY <1>1, <2>2, <3>1, <3>2 DEF RunStatus
  <2>3. QED
    BY <2>1, <2>2
<1>6. RunEndedAt(t) = IF e.runStatus \in {"none", "running"} THEN RunEndedAt(s) ELSE e.at
  <2> DEFINE old == {i \in Deciding(s) : s[i].runStatus # "running"}
             new == {i \in Deciding(t) : t[i].runStatus # "running"}
  <2>1. new = old \cup (IF e.runStatus \in {"none", "running"} THEN {} ELSE {n})
    BY <1>1, <1>2, <1>3
  <2>2. old \subseteq 1 .. Len(s) /\ new \subseteq 1 .. n /\ \A j \in old : t[j] = s[j]
    BY <1>2, <1>4
  <2>3. RunEndedAt(s) = IF old = {} THEN NotSet ELSE s[Max(old)].at
    BY DEF RunEndedAt
  <2>4. RunEndedAt(t) = IF new = {} THEN NotSet ELSE t[Max(new)].at
    BY DEF RunEndedAt
  <2> HIDE DEF old, new
  <2>5. CASE e.runStatus \in {"none", "running"}
    <3>1. old # {} => Max(old) \in old
      BY <2>2, MaxOfPositions, Len(s) \in Nat
    <3>2. QED
      BY <2>1, <2>2, <2>3, <2>4, <2>5, <3>1
  <2>6. CASE e.runStatus \notin {"none", "running"}
    <3>1. n \in new
      BY <2>1, <2>6
    <3>2. Max(new) = n
      BY <1>1, <2>2, <3>1, LastIsMax
    <3>3. QED
      BY <1>1, <2>4, <2>6, <3>1, <3>2
  <2>7. QED
    BY <2>5, <2>6
<1>7. QED
  BY <1>5, <1>6 DEF t

\* Fewer events precede a node already made than there are events.
LEMMA SeenBefore ==
  ASSUME NEW E, NEW s \in Seq(E), NEW o \in Operations(s)
  PROVE  /\ Node(s, o).firstSeenIndex < Cardinality(Unique(s))
         /\ Node(s, o).firstSeenIndex \in Nat /\ Cardinality(Unique(s)) \in Nat
<1> DEFINE own == EventsOf(s, o)
           before == {i \in Unique(s) : i < Min(own)}
<1>1. own # {} /\ own \subseteq Unique(s) /\ Unique(s) \subseteq 1 .. Len(s) /\ Len(s) \in Nat
  BY DEF EventsOf, Operations, Unique
<1>2. Min(own) \in own /\ Min(own) \in Nat
  <2>1. own \subseteq 1 .. Len(s)
    BY <1>1
  <2>2. Min(own) \in own
    BY <1>1, <2>1, MinOfPositions
  <2>3. QED
    BY <2>1, <2>2
<1>3. IsFiniteSet(Unique(s))
  <2>1. IsFiniteSet(1 .. Len(s))
    BY <1>1, FS_Interval
  <2>2. QED
    BY <1>1, <2>1, FS_Subset
<1>4. before \subseteq Unique(s) /\ before # Unique(s)
  BY <1>1, <1>2
<1>5. /\ Cardinality(before) <= Cardinality(Unique(s))
      /\ Cardinality(before) # Cardinality(Unique(s))
      /\ Cardinality(before) \in Nat /\ Cardinality(Unique(s)) \in Nat
  BY <1>3, <1>4, FS_Subset, FS_CardinalityType
<1>6. Node(s, o).firstSeenIndex = Cardinality(before)
  BY DEF Node
<1>7. QED
  BY <1>5, <1>6

\* Nothing else changes: a node of another operation stays as it is.
LEMMA OthersStay ==
  ASSUME NEW E, NEW s \in Seq(E), NEW e \in E, Fresh(s, e),
         NEW o \in Operations(s), o # e.op
  PROVE  Node(Append(s, e), o) = Node(s, o)
<1> DEFINE t == Append(s, e)
<1>1. t \in Seq(E) /\ Continues(t, s)
      /\ EventsOf(t, o) = EventsOf(s, o) \cup (IF o = e.op THEN {Len(s) + 1} ELSE {})
  BY FreshEvent
<1> HIDE DEF t
<1>2. EventsOf(t, o) = EventsOf(s, o)
  BY <1>1
<1>3. Node(t, o) = Node(s, o)
  BY <1>1, <1>2, NodeOfContinuation
<1>4. QED
  BY <1>3 DEF t

-----------------------------------------------------------------------------
\* One iteration of the loop over an event whose id was seen.
LEMMA ObserveSeen ==
  ASSUME NEW E, NEW s \in Seq(E), NEW e \in E, NEW w, NEW order,
         Reached(w, s, order), e.id \in Ids(s)
  PROVE  Reached(Observe(w, e), Append(s, e), order)
<1> DEFINE t == Append(s, e)
<1>1. PICK i \in 1 .. Len(s) : s[i].id = e.id
  BY DEF Ids
<1>2. RunStatus(t) = RunStatus(s) /\ RunEndedAt(t) = RunEndedAt(s) /\ Nodes(t) = Nodes(s)
  BY <1>1, DuplicateAddsNothing
<1>3. Len(t) = Len(s) + 1 /\ t[Len(s) + 1] = e /\ \A j \in 1 .. Len(s) : t[j] = s[j]
  BY AppendProperties
<1> HIDE DEF t
<1>4. Operations(t) = Operations(s)
  BY <1>2 DEF Nodes
<1>5. \A o \in Operations(s) : Node(t, o) = Node(s, o)
  <2>1. SUFFICES ASSUME NEW o \in Operations(s) PROVE Node(t, o) = Node(s, o)
    OBVIOUS
  <2>2. Nodes(t)[o] = Nodes(s)[o]
    BY <1>2
  <2>3. QED
    BY <1>4, <2>2 DEF Nodes
<1>6. Ids(t) = Ids(s)
  <2>1. {t[j].id : j \in 1 .. Len(s)} = {s[j].id : j \in 1 .. Len(s)}
    BY <1>3
  <2>2. 1 .. Len(t) = 1 .. Len(s) \cup {Len(s) + 1}
    BY <1>3
  <2>3. {t[j].id : j \in 1 .. Len(t)} = {t[j].id : j \in 1 .. Len(s)} \cup {e.id}
    BY <1>3, <2>2
  <2>4. QED
    BY <2>1, <2>3 DEF Ids
<1>7. order \in Seq(Operations(s)) /\ \A j \in 1 .. Len(order) : order[j] \in Operations(s)
  BY DEF Reached, InOrder
<1>8. InOrder(order, t)
  BY <1>4, <1>5, <1>7 DEF Reached, InOrder
<1>9. \A j \in 1 .. Len(order) : WalkNode(t, order[j]) = WalkNode(s, order[j])
  BY <1>5, <1>7 DEF WalkNode
<1> DEFINE before == [j \in 1 .. Len(order) |-> WalkNode(s, order[j])]
           after == [j \in 1 .. Len(order) |-> WalkNode(t, order[j])]
<1>10. before = after
  BY <1>9
<1>11. w = [seen |-> Ids(s), nodes |-> before, status |-> RunStatus(s),
            endedAt |-> RunEndedAt(s), events |-> Len(s)]
  BY DEF Reached
<1> HIDE DEF before
<1>12. Observe(w, e) = [seen |-> Ids(s), nodes |-> before, status |-> RunStatus(s),
                        endedAt |-> RunEndedAt(s), events |-> Len(s) + 1]
  BY <1>11 DEF Observe
<1>13. Reached(Observe(w, e), t, order)
  BY <1>2, <1>3, <1>6, <1>8, <1>10, <1>12 DEF Reached
<1>14. QED
  BY <1>13 DEF t

\* One iteration of the loop over a new event.
LEMMA ObserveFresh ==
  ASSUME NEW E, Timed(E), NEW s \in Seq(E), NEW e \in E, NEW w, NEW order,
         Reached(w, s, order), e.id \notin Ids(s)
  PROVE  \E longer : Reached(Observe(w, e), Append(s, e), longer)
<1> DEFINE t == Append(s, e)
<1>1. Fresh(s, e)
  BY DEF Fresh, Ids
<1>2. Len(t) = Len(s) + 1 /\ t[Len(s) + 1] = e /\ \A j \in 1 .. Len(s) : t[j] = s[j]
  BY AppendProperties
<1>3. /\ RunStatus(t) = IF e.runStatus = "none" THEN RunStatus(s) ELSE e.runStatus
      /\ RunEndedAt(t) = IF e.runStatus \in {"none", "running"} THEN RunEndedAt(s) ELSE e.at
  BY <1>1, FreshDecides
<1>4. Operations(t) = Operations(s) \cup {e.op}
  BY <1>1, FreshEvent
<1>5. \A o \in Operations(s) : o # e.op => Node(t, o) = Node(s, o)
  BY <1>1, OthersStay
<1>6. e.op \notin Operations(s) =>
        /\ WalkNode(t, e.op) = UpdateNode(CreateMutableNode(e), e)
        /\ Node(t, e.op).firstSeenIndex = Cardinality(Unique(s))
  BY <1>1, NodeIsMade
<1>7. e.op \in Operations(s) =>
        /\ WalkNode(t, e.op) = UpdateNode(WalkNode(s, e.op), e)
        /\ Node(t, e.op).firstSeenIndex = Node(s, e.op).firstSeenIndex
  BY <1>1, NodeIsUpdated
<1> HIDE DEF t
<1>8. Ids(t) = Ids(s) \cup {e.id}
  <2>1. {t[j].id : j \in 1 .. Len(s)} = {s[j].id : j \in 1 .. Len(s)}
    BY <1>2
  <2>2. 1 .. Len(t) = 1 .. Len(s) \cup {Len(s) + 1}
    BY <1>2
  <2>3. {t[j].id : j \in 1 .. Len(t)} = {t[j].id : j \in 1 .. Len(s)} \cup {e.id}
    BY <1>2, <2>2
  <2>4. QED
    BY <2>1, <2>3 DEF Ids
<1>9. \A o \in Operations(s) : Node(t, o).firstSeenIndex = Node(s, o).firstSeenIndex
  BY <1>5, <1>7
<1>10. \A o \in Operations(s) : o # e.op => WalkNode(t, o) = WalkNode(s, o)
  BY <1>5 DEF WalkNode
<1>11. \A o : WalkNode(s, o).op = o
  BY DEF WalkNode
<1> DEFINE m == Len(order)
           nodes == [i \in 1 .. m |-> WalkNode(s, order[i])]
           I == {i \in 1 .. Len(nodes) : nodes[i].op = e.op}
           k == IF I # {} THEN Min(I) ELSE 0
           grown == IF k = 0 THEN Append(nodes, UpdateNode(CreateMutableNode(e), e))
                    ELSE [nodes EXCEPT ![k] = UpdateNode(@, e)]
<1>12. InOrder(order, s) /\ w = [seen |-> Ids(s), nodes |-> nodes, status |-> RunStatus(s),
                                 endedAt |-> RunEndedAt(s), events |-> Len(s)]
  BY DEF Reached
<1>13. Observe(w, e) = [seen |-> Ids(s) \cup {e.id}, nodes |-> grown,
                        status |-> IF e.runStatus = "none" THEN RunStatus(s) ELSE e.runStatus,
                        endedAt |-> IF e.runStatus \in {"none", "running"} THEN RunEndedAt(s)
                                    ELSE e.at,
                        events |-> Len(s) + 1]
  <2> HIDE DEF nodes
  <2>1. SelectInSeq(nodes, LAMBDA n : n.op = e.op) = k
    BY DEF SelectInSeq
  <2>2. w.nodes = nodes
    BY <1>12
  <2> HIDE DEF k
  <2>3. QED
    BY <1>12, <2>1, <2>2 DEF Observe
<1>14. /\ order \in Seq(Operations(s)) /\ m \in Nat
       /\ \A j \in 1 .. m : order[j] \in Operations(s)
       /\ \A o \in Operations(s) : \E i \in 1 .. m : order[i] = o
       /\ \A i, j \in 1 .. m :
            j < i => Node(s, order[j]).firstSeenIndex < Node(s, order[i]).firstSeenIndex
  BY <1>12 DEF InOrder
<1>15. nodes \in Seq({WalkNode(s, o) : o \in Operations(s)}) /\ Len(nodes) = m
  BY <1>14
<1>16. I = {i \in 1 .. m : order[i] = e.op}
  BY <1>11, <1>15
<1> HIDE DEF m, I
<1>17. CASE e.op \in Operations(s)
  <2>1. I # {} /\ I \subseteq 1 .. m
    BY <1>14, <1>16, <1>17
  <2>2. Min(I) \in I
    BY <1>14, <2>1, MinOfPositions
  <2>3. k \in 1 .. m /\ order[k] = e.op /\ k # 0
    BY <1>14, <1>16, <2>1, <2>2
  <2>4. ASSUME NEW i \in 1 .. m, i # k PROVE order[i] # e.op
    <3>1. order[k] \in Operations(s)
      BY <1>14, <2>3
    <3>2. Node(s, order[k]).firstSeenIndex \in Nat
      BY <3>1, SeenBefore
    <3>3. i < k \/ k < i
      BY <1>14, <2>3, <2>4
    <3>4. Node(s, order[i]).firstSeenIndex # Node(s, order[k]).firstSeenIndex
      <4>1. order[i] \in Operations(s)
        BY <1>14, <2>4
      <4>2. Node(s, order[i]).firstSeenIndex \in Nat
        BY <4>1, SeenBefore
      <4>3. QED
        BY <1>14, <2>3, <2>4, <3>2, <3>3, <4>2
    <3>5. QED
      BY <2>3, <3>4
  <2> HIDE DEF k
  <2>5. grown = [i \in 1 .. m |-> WalkNode(t, order[i])]
    <3>1. grown = [nodes EXCEPT ![k] = UpdateNode(@, e)]
      BY <2>3
    <3>2. \A i \in 1 .. m : grown[i] = WalkNode(t, order[i])
      BY <1>7, <1>10, <1>14, <1>17, <2>3, <2>4, <3>1
    <3>3. DOMAIN grown = 1 .. m
      BY <3>1
    <3>4. grown = [i \in 1 .. m |-> grown[i]]
      BY <3>1, <3>3
    <3>5. QED
      BY <3>2, <3>4
  <2>6. Operations(t) = Operations(s)
    BY <1>4, <1>17
  <2>7. InOrder(order, t)
    BY <1>9, <1>14, <2>6 DEF InOrder, m
  <2> HIDE DEF grown
  <2>8. Reached(Observe(w, e), t, order)
    BY <1>2, <1>3, <1>8, <1>13, <2>5, <2>7 DEF Reached, m
  <2>9. QED
    BY <2>8 DEF t
<1>18. CASE e.op \notin Operations(s)
  <2> DEFINE made == UpdateNode(CreateMutableNode(e), e)
             longer == Append(order, e.op)
  <2>1. I = {}
    BY <1>14, <1>16, <1>18
  <2>2. grown = Append(nodes, made)
    BY <2>1
  <2>3. /\ longer \in Seq(Operations(t)) /\ Len(longer) = m + 1
        /\ longer[m + 1] = e.op
        /\ \A i \in 1 .. m : longer[i] = order[i]
    <3>1. order \in Seq(Operations(t)) /\ e.op \in Operations(t)
      BY <1>4, <1>14, SeqMonotonic
    <3>2. QED
      BY <3>1, AppendProperties DEF m
  <2> HIDE DEF longer
  <2>4. InOrder(longer, t)
    <3>1. ASSUME NEW o \in Operations(t) PROVE \E i \in 1 .. Len(longer) : longer[i] = o
      <4>1. CASE o = e.op
        BY <1>14, <2>3, <4>1
      <4>2. CASE o \in Operations(s)
        <5>1. PICK i \in 1 .. m : order[i] = o
          BY <1>14, <4>2
        <5>2. i \in 1 .. m + 1 /\ longer[i] = o
          BY <1>14, <2>3, <5>1
        <5>3. QED
          BY <2>3, <5>2
      <4>3. QED
        BY <1>4, <3>1, <4>1, <4>2
    <3>2. ASSUME NEW i \in 1 .. m + 1, NEW j \in 1 .. m + 1, j < i
          PROVE  Node(t, longer[j]).firstSeenIndex < Node(t, longer[i]).firstSeenIndex
      <4>1. j \in 1 .. m /\ longer[j] = order[j] /\ order[j] \in Operations(s)
        BY <1>14, <2>3, <3>2
      <4>2. CASE i \in 1 .. m
        <5>1. longer[i] = order[i] /\ order[i] \in Operations(s)
          BY <1>14, <2>3, <4>2
        <5>2. QED
          BY <1>9, <1>14, <3>2, <4>1, <4>2, <5>1
      <4>3. CASE i = m + 1
        <5>1. Node(t, longer[i]).firstSeenIndex = Cardinality(Unique(s))
          BY <1>6, <1>18, <2>3, <4>3
        <5>2. QED
          BY <1>9, <4>1, <5>1, SeenBefore
      <4>4. QED
        BY <1>14, <4>2, <4>3
    <3>3. QED
      BY <2>3, <3>1, <3>2 DEF InOrder
  <2>5. Append(nodes, made) = [i \in 1 .. m + 1 |-> WalkNode(t, longer[i])]
    <3> DEFINE S == {WalkNode(s, o) : o \in Operations(s)} \cup {made}
               all == Append(nodes, made)
    <3>1. nodes \in Seq(S) /\ made \in S
      BY <1>15, SeqMonotonic
    <3> HIDE DEF nodes, S
    <3>2. /\ all \in Seq(S) /\ Len(all) = m + 1 /\ all[m + 1] = made
          /\ \A i \in 1 .. m : all[i] = nodes[i]
      BY <1>15, <3>1, AppendProperties
    <3>3. \A i \in 1 .. m : all[i] = WalkNode(t, longer[i])
      BY <1>10, <1>14, <1>18, <2>3, <3>2 DEF nodes
    <3>4. all[m + 1] = WalkNode(t, longer[m + 1])
      BY <1>6, <1>18, <2>3, <3>2
    <3> HIDE DEF all
    <3>5. \A i \in 1 .. m + 1 : all[i] = WalkNode(t, longer[i])
      BY <1>14, <3>3, <3>4
    <3>6. all = [i \in 1 .. m + 1 |-> all[i]]
      BY <3>2
    <3>7. QED
      BY <3>5, <3>6 DEF all
  <2> HIDE DEF grown
  <2>6. Reached(Observe(w, e), t, longer)
    BY <1>2, <1>3, <1>8, <1>13, <2>2, <2>3, <2>4, <2>5 DEF Reached
  <2>7. QED
    BY <2>6 DEF t
<1>19. QED
  BY <1>17, <1>18

\* The states of the loop along a log, the first number m of its events.
States(events, m, f) ==
  f = [n \in 0 .. m |-> IF n = 0 THEN Empty ELSE Observe(f[n - 1], events[n])]

\* The loop has a state after each number of events.
LEMMA LoopIsDefined ==
  ASSUME NEW E, NEW s \in Seq(E)
  PROVE  \E f : States(s, Len(s), f)
<1> DEFINE D == {m \in Nat : ~\E f : States(s, m, f)}
<1>1. SUFFICES ASSUME D # {} PROVE FALSE
  <2>1. Len(s) \in Nat
    OBVIOUS
  <2>2. QED
    BY <2>1
<1>2. PICK m \in D : \A y \in D : ~(<<y, m>> \in OpToRel(<, Nat))
  <2>1. D \subseteq Nat
    OBVIOUS
  <2>2. QED
    BY <1>1, <2>1, NatLessThanWellFounded, WFMin
<1>3. m \in Nat /\ ~\E f : States(s, m, f)
  OBVIOUS
<1>4. \A y \in Nat : y < m => \E f : States(s, y, f)
  BY <1>2, <1>3 DEF OpToRel
<1>5. CASE m = 0
  <2> DEFINE f == [n \in 0 .. 0 |-> Empty]
  <2>1. f = [n \in 0 .. 0 |-> IF n = 0 THEN Empty ELSE Observe(f[n - 1], s[n])]
    OBVIOUS
  <2>2. States(s, m, f)
    BY <1>5, <2>1 DEF States
  <2>3. QED
    BY <1>3, <2>2
<1>6. CASE m # 0
  <2>1. m - 1 \in Nat /\ m - 1 < m
    BY <1>3, <1>6
  <2>2. PICK f : States(s, m - 1, f)
    BY <1>4, <2>1
  <2> DEFINE Step(g, n) == IF n = 0 THEN Empty ELSE Observe(g[n - 1], s[n])
             next == [n \in 0 .. m |-> IF n = m THEN Observe(f[m - 1], s[m]) ELSE f[n]]
  <2>3. \A n \in 0 .. m - 1 : f[n] = Step(f, n)
    BY <2>2 DEF States
  <2>4. ASSUME NEW n \in 0 .. m PROVE next[n] = Step(next, n)
    <3>1. CASE n = 0
      <4>1. n \in 0 .. m - 1 /\ n # m
        BY <1>3, <1>6, <3>1
      <4>2. next[n] = f[n]
        BY <4>1
      <4>3. QED
        BY <2>3, <3>1, <4>1, <4>2
    <3>2. CASE n = m
      <4>1. m - 1 \in 0 .. m /\ m - 1 # m /\ m \in 0 .. m
        BY <1>3, <1>6
      <4>2. next[m] = Observe(f[m - 1], s[m]) /\ next[m - 1] = f[m - 1]
        BY <4>1
      <4>3. QED
        BY <1>6, <3>2, <4>2
    <3>3. CASE n # 0 /\ n # m
      <4>1. n \in 0 .. m - 1 /\ n - 1 \in 0 .. m /\ n - 1 # m
        BY <1>3, <3>3
      <4>2. next[n] = f[n] /\ next[n - 1] = f[n - 1]
        BY <3>3, <4>1
      <4>3. QED
        BY <2>3, <3>3, <4>1, <4>2
    <3>4. QED
      BY <3>1, <3>2, <3>3
  <2>5. DOMAIN next = 0 .. m
    OBVIOUS
  <2>6. next = [n \in 0 .. m |-> next[n]]
    OBVIOUS
  <2> HIDE DEF next
  <2>7. next = [n \in 0 .. m |-> Step(next, n)]
    BY <2>4, <2>6
  <2>8. States(s, m, next)
    BY <2>7 DEF States
  <2>9. QED
    BY <1>3, <2>8
<1>7. QED
  BY <1>5, <1>6

\* The loop reaches, after a log, the state that the definitions by position say.
LEMMA LoopReaches ==
  ASSUME NEW E, Timed(E), NEW s \in Seq(E)
  PROVE  \E order : Reached(Walk(s), s, order)
<1> DEFINE first(n) == SubSeq(s, 1, n)
<1>1. Len(s) \in Nat /\ \A i \in 1 .. Len(s) : s[i] \in E
  OBVIOUS
<1>2. PICK f : States(s, Len(s), f) /\ Walk(s) = f[Len(s)]
  <2> DEFINE f == CHOOSE f : States(s, Len(s), f)
  <2>1. States(s, Len(s), f)
    BY LoopIsDefined
  <2>2. Walk(s) = f[Len(s)]
    BY DEF Walk, States
  <2>3. QED
    BY <2>1, <2>2
<1>3. f[0] = Empty /\ \A n \in 1 .. Len(s) : f[n] = Observe(f[n - 1], s[n])
  BY <1>1, <1>2 DEF States
<1>4. ASSUME NEW n \in 0 .. Len(s)
      PROVE  /\ first(n) \in Seq(E) /\ Len(first(n)) = n
             /\ \A i \in 1 .. n : first(n)[i] = s[i]
  <2>1. \A i \in 1 .. n : s[i] \in E
    BY <1>1
  <2>2. QED
    BY <1>1, <2>1, SubSeqProperties
<1>5. ASSUME NEW n \in 1 .. Len(s) PROVE first(n) = Append(first(n - 1), s[n])
  <2>1. /\ first(n) \in Seq(E) /\ Len(first(n)) = n
        /\ \A i \in 1 .. n : first(n)[i] = s[i]
    BY <1>1, <1>4
  <2>2. /\ first(n - 1) \in Seq(E) /\ Len(first(n - 1)) = n - 1
        /\ \A i \in 1 .. n - 1 : first(n - 1)[i] = s[i]
    BY <1>1, <1>4
  <2> DEFINE longer == Append(first(n - 1), s[n])
  <2> HIDE DEF first
  <2>3. /\ longer \in Seq(E) /\ Len(longer) = n /\ longer[n] = s[n]
        /\ \A i \in 1 .. n - 1 : longer[i] = s[i]
    BY <1>1, <2>2, AppendProperties
  <2>4. \A i \in 1 .. n : longer[i] = first(n)[i]
    BY <2>1, <2>3
  <2> HIDE DEF longer
  <2>5. longer = [i \in 1 .. n |-> longer[i]] /\ first(n) = [i \in 1 .. n |-> first(n)[i]]
    BY <2>1, <2>3
  <2>6. longer = first(n)
    BY <2>4, <2>5
  <2>7. QED
    BY <2>6 DEF longer
<1>6. Reached(f[0], first(0), << >>)
  <2>1. first(0) = << >>
    BY SubSeqEmpty
  <2>2. Unique(<< >>) = {}
    BY DEF Unique
  <2>3. Operations(<< >>) = {} /\ Deciding(<< >>) = {} /\ Ids(<< >>) = {} /\ Len(<< >>) = 0
    BY <2>2 DEF Operations, Deciding, Ids
  <2>4. RunStatus(<< >>) = "running" /\ RunEndedAt(<< >>) = NotSet
    BY <2>3 DEF RunStatus, RunEndedAt
  <2>5. InOrder(<< >>, << >>)
    BY <2>3 DEF InOrder
  <2>6. [i \in 1 .. Len(<< >>) |-> WalkNode(<< >>, << >>[i])] = << >>
    BY <2>3
  <2>7. QED
    BY <1>3, <2>1, <2>3, <2>4, <2>5, <2>6 DEF Reached, Empty
<1> HIDE DEF first
<1>7. ASSUME NEW n \in 1 .. Len(s), NEW order, Reached(f[n - 1], first(n - 1), order)
      PROVE  \E longer : Reached(f[n], first(n), longer)
  <2>1. first(n - 1) \in Seq(E) /\ s[n] \in E
    BY <1>1, <1>4
  <2>2. CASE s[n].id \in Ids(first(n - 1))
    <3>1. Reached(Observe(f[n - 1], s[n]), Append(first(n - 1), s[n]), order)
      BY <1>7, <2>1, <2>2, ObserveSeen
    <3>2. QED
      BY <1>3, <1>5, <3>1
  <2>3. CASE s[n].id \notin Ids(first(n - 1))
    <3>1. \E longer : Reached(Observe(f[n - 1], s[n]), Append(first(n - 1), s[n]), longer)
      BY <1>7, <2>1, <2>3, ObserveFresh
    <3>2. QED
      BY <1>3, <1>5, <3>1
  <2>4. QED
    BY <2>2, <2>3
<1> DEFINE D == {n \in 0 .. Len(s) : ~\E order : Reached(f[n], first(n), order)}
<1>8. D = {}
  <2>1. SUFFICES ASSUME D # {} PROVE FALSE
    OBVIOUS
  <2>2. PICK n \in D : \A y \in D : ~(<<y, n>> \in OpToRel(<, Nat))
    <3>1. D \subseteq Nat
      BY <1>1
    <3>2. QED
      BY <2>1, <3>1, NatLessThanWellFounded, WFMin
  <2>3. n \in 0 .. Len(s) /\ ~\E order : Reached(f[n], first(n), order)
    OBVIOUS
  <2>4. \A y \in D : ~(y < n)
    <3>1. SUFFICES ASSUME NEW y \in D, y < n PROVE FALSE
      OBVIOUS
    <3>2. y \in Nat /\ n \in Nat
      BY <1>1
    <3>3. <<y, n>> \in OpToRel(<, Nat)
      BY <3>1, <3>2 DEF OpToRel
    <3>4. QED
      BY <2>2, <3>3
  <2>5. n \in 1 .. Len(s)
    BY <1>1, <1>6, <2>3
  <2>6. n - 1 \in 0 .. Len(s) /\ n - 1 < n
    BY <1>1, <2>5
  <2>7. \E order : Reached(f[n - 1], first(n - 1), order)
    BY <2>4, <2>6
  <2>8. QED
    BY <1>7, <2>3, <2>5, <2>7
<1>9. first(Len(s)) = s
  BY SubSeqFull DEF first
<1>10. QED
  BY <1>1, <1>2, <1>8, <1>9

\* There are as many unique events as ids.
LEMMA IdsAreUnique ==
  ASSUME NEW E, NEW s \in Seq(E)
  PROVE  Cardinality(Ids(s)) = Cardinality(Unique(s))
<1> DEFINE F == [i \in Unique(s) |-> s[i].id]
<1>1. Unique(s) \subseteq 1 .. Len(s) /\ Len(s) \in Nat
  BY DEF Unique
<1>2. IsFiniteSet(Unique(s))
  <2>1. IsFiniteSet(1 .. Len(s))
    BY <1>1, FS_Interval
  <2>2. QED
    BY <1>1, <2>1, FS_Subset
<1>3. F \in [Unique(s) -> Ids(s)]
  BY <1>1 DEF Ids
<1>4. \A i, j \in Unique(s) : F[i] = F[j] => i = j
  <2>1. SUFFICES ASSUME NEW i \in Unique(s), NEW j \in Unique(s), i # j
                 PROVE  s[i].id # s[j].id
    OBVIOUS
  <2>2. i < j \/ j < i
    BY <1>1, <2>1
  <2>3. QED
    BY <1>1, <2>2 DEF Unique
<1>5. \A x \in Ids(s) : \E i \in Unique(s) : F[i] = x
  <2>1. SUFFICES ASSUME NEW x \in Ids(s) PROVE \E i \in Unique(s) : F[i] = x
    OBVIOUS
  <2> DEFINE same == {i \in 1 .. Len(s) : s[i].id = x}
  <2>2. same # {} /\ same \subseteq 1 .. Len(s)
    BY DEF Ids
  <2>3. Min(same) \in same /\ \A i \in same : Min(same) <= i
    BY <1>1, <2>2, MinOfPositions
  <2>4. Min(same) \in 1 .. Len(s) /\ s[Min(same)].id = x
    BY <2>3
  <2>5. \A j \in 1 .. Len(s) : j < Min(same) => s[j].id # x
    <3>1. SUFFICES ASSUME NEW j \in 1 .. Len(s), j < Min(same), s[j].id = x PROVE FALSE
      OBVIOUS
    <3>2. Min(same) <= j
      BY <2>3, <3>1
    <3>3. QED
      BY <2>4, <3>1, <3>2
  <2> HIDE DEF same
  <2>6. Min(same) \in Unique(s)
    <3>1. DOMAIN s = 1 .. Len(s)
      OBVIOUS
    <3>2. QED
      BY <2>4, <2>5, <3>1 DEF Unique
  <2>7. QED
    BY <2>4, <2>6
<1>6. F \in Bijection(Unique(s), Ids(s))
  BY <1>3, <1>4, <1>5, Fun_IsBij
<1>7. ExistsBijection(Unique(s), Ids(s))
  BY <1>6, Fun_ExistsBij
<1>8. QED
  BY <1>2, <1>7, FS_Bijection

\* The log holds events of the vocabulary.
LogTypeOK == log \in Seq(Vocabulary)

\* The store only appends (appendExecutionEvent).
LEMMA LogTypeCorrect == Spec => []LogTypeOK
<1>1. Init => LogTypeOK
  BY DEF Init, LogTypeOK
<1>2. LogTypeOK /\ [Next]_log => LogTypeOK'
  <2>1. SUFFICES ASSUME LogTypeOK, [Next]_log PROVE LogTypeOK'
    OBVIOUS
  <2>2. CASE UNCHANGED log
    BY <2>1, <2>2 DEF LogTypeOK
  <2>3. ASSUME NEW e \in Vocabulary, Deliver(e) PROVE LogTypeOK'
    BY <2>1, <2>3, AppendProperties DEF LogTypeOK, Deliver
  <2>4. QED
    BY <2>1, <2>2, <2>3 DEF Next
<1>3. QED
  BY <1>1, <1>2, PTL DEF Spec

\* On every log, of any length and over any vocabulary, the graph that the
\* definitions by position give is the one that the loop of buildExecutionGraph
\* builds: the same nodes, in the same order, with the same fields.
THEOREM ReplayIsWalk == Spec => []ReplayAgreesWithWalk
<1>1. LogTypeOK => ReplayAgreesWithWalk
  <2>1. SUFFICES ASSUME LogTypeOK PROVE ReplayAgreesWithWalk
    OBVIOUS
  <2>2. log \in Seq(Vocabulary) /\ Timed(Vocabulary)
    BY <2>1, VocabularyAssumption DEF LogTypeOK, Timed
  <2>3. PICK order : Reached(Walk(log), log, order)
    BY <2>2, LoopReaches
  <2> DEFINE w == Walk(log)
             nodes == [i \in 1 .. Len(order) |-> WalkNode(log, order[i])]
  <2>4. /\ order \in Seq(Operations(log)) /\ Len(order) \in Nat
        /\ \A i \in 1 .. Len(order) : order[i] \in Operations(log)
        /\ \A o \in Operations(log) : \E i \in 1 .. Len(order) : order[i] = o
        /\ \A i, j \in 1 .. Len(order) :
             j < i => Node(log, order[j]).firstSeenIndex < Node(log, order[i]).firstSeenIndex
    BY <2>3 DEF Reached, InOrder
  <2>5. w = [seen |-> Ids(log), nodes |-> nodes, status |-> RunStatus(log),
             endedAt |-> RunEndedAt(log), events |-> Len(log)]
    BY <2>3 DEF Reached
  <2> HIDE DEF w
  <2>6. \A i \in 1 .. Len(order) : nodes[i].op = order[i]
    BY DEF WalkNode
  <2>7. Operations(log) = {n.op : n \in ToSet(nodes)}
    <3>1. ToSet(nodes) = {nodes[i] : i \in 1 .. Len(order)}
      BY DEF ToSet
    <3>2. \A n \in ToSet(nodes) : n.op \in Operations(log)
      BY <2>4, <2>6, <3>1
    <3>3. \A o \in Operations(log) : \E n \in ToSet(nodes) : o = n.op
      <4>1. SUFFICES ASSUME NEW o \in Operations(log) PROVE \E n \in ToSet(nodes) : o = n.op
        OBVIOUS
      <4>2. PICK i \in 1 .. Len(order) : order[i] = o
        BY <2>4
      <4>3. nodes[i] \in ToSet(nodes) /\ nodes[i].op = o
        BY <2>6, <3>1, <4>2
      <4>4. QED
        BY <4>3
    <3> HIDE DEF nodes
    <3>4. QED
      BY <3>2, <3>3
  <2>8. ASSUME NEW i \in 1 .. Len(order)
        PROVE  \A f \in DOMAIN nodes[i] \ {"op"} : Nodes(log)[nodes[i].op][f] = nodes[i][f]
    <3>1. Nodes(log)[nodes[i].op] = Node(log, order[i])
      BY <2>4, <2>6 DEF Nodes
    <3>2. nodes[i] = WalkNode(log, order[i])
      OBVIOUS
    <3>3. \A f \in DOMAIN WalkNode(log, order[i]) \ {"op"} :
            Node(log, order[i])[f] = WalkNode(log, order[i])[f]
      BY DEF WalkNode
    <3>4. QED
      BY <3>1, <3>2, <3>3
  <2>9. ASSUME NEW i \in 1 .. Len(order), NEW j \in 1 .. Len(order), j < i
        PROVE  Nodes(log)[nodes[j].op].firstSeenIndex < Nodes(log)[nodes[i].op].firstSeenIndex
    BY <2>4, <2>6, <2>9 DEF Nodes
  <2>10. DOMAIN nodes = 1 .. Len(order)
    OBVIOUS
  <2>11. Cardinality(Ids(log)) = Cardinality(Unique(log))
    BY <2>2, IdsAreUnique
  <2> HIDE DEF nodes
  <2>12. /\ Graph(log).status = RunStatus(log) /\ Graph(log).endedAt = RunEndedAt(log)
         /\ Graph(log).eventCount = Len(log) /\ Graph(log).nodes = Nodes(log)
         /\ Graph(log).uniqueEventCount = Cardinality(Unique(log))
         /\ DOMAIN Graph(log).nodes = Operations(log)
    BY DEF Graph, Nodes
  <2>13. /\ w.status = RunStatus(log) /\ w.endedAt = RunEndedAt(log)
         /\ w.events = Len(log) /\ w.seen = Ids(log) /\ w.nodes = nodes
    BY <2>5
  <2>14. QED
    BY <2>7, <2>8, <2>9, <2>10, <2>11, <2>12, <2>13 DEF ReplayAgreesWithWalk, w
<1>2. QED
  BY <1>1, LogTypeCorrect, PTL

-----------------------------------------------------------------------------
\* The store may be told an event twice: the second line adds nothing to the graph
\* but itself (dedupeEvents), in any log.
THEOREM DuplicatesAreIgnored == Spec => DuplicateDeliveryIsIgnored
<1> DEFINE Repeats == \E i \in DOMAIN log : log[i].id = log'[Len(log')].id
           Ignored == Graph(log') = [Graph(log) EXCEPT !.eventCount = @ + 1]
<1>1. LogTypeOK /\ [Next]_log => [Repeats => Ignored]_log
  <2>1. SUFFICES ASSUME LogTypeOK, NEW e \in Vocabulary, Deliver(e), Repeats PROVE Ignored
    BY DEF Next
  <2>2. log \in Seq(Vocabulary) /\ log' = Append(log, e)
    BY <2>1 DEF LogTypeOK, Deliver
  <2>3. Len(log') = Len(log) + 1 /\ log'[Len(log) + 1] = e
    BY <2>2, AppendProperties
  <2>4. PICK i \in 1 .. Len(log) : log[i].id = e.id
    BY <2>1, <2>2, <2>3
  <2>5. /\ Unique(log') = Unique(log) /\ RunStatus(log') = RunStatus(log)
        /\ RunEndedAt(log') = RunEndedAt(log) /\ Nodes(log') = Nodes(log)
    BY <2>2, <2>4, DuplicateAddsNothing
  <2>6. QED
    BY <2>3, <2>5 DEF Graph
<1>2. QED
  BY <1>1, LogTypeCorrect, PTL DEF Spec, DuplicateDeliveryIsIgnored

-----------------------------------------------------------------------------
\* The log with the events at i and i+1 exchanged, and where each event is then.
Swapped(s, i) == [s EXCEPT ![i] = s[i + 1], ![i + 1] = s[i]]
Place(s, i) == [j \in 1 .. Len(s) |-> IF j = i THEN i + 1 ELSE IF j = i + 1 THEN i ELSE j]

\* Exchanging neighbours keeps the order of all other pairs of events.
LEMMA SwapPlaces ==
  ASSUME NEW E, NEW s \in Seq(E), NEW i \in 1 .. Len(s) - 1
  PROVE  LET t == Swapped(s, i)
             P == Place(s, i)
         IN /\ t \in Seq(E) /\ Len(t) = Len(s)
            /\ P \in [1 .. Len(s) -> 1 .. Len(t)]
            /\ \A j \in 1 .. Len(s) : t[P[j]] = s[j] /\ P[P[j]] = j
            /\ \A j, k \in 1 .. Len(s) :
                 ~(j = i /\ k = i + 1) /\ ~(j = i + 1 /\ k = i) => (j <= k <=> P[j] <= P[k])
<1> DEFINE t == Swapped(s, i)
           P == Place(s, i)
<1>1. /\ Len(s) \in Nat /\ s \in [1 .. Len(s) -> E] /\ i \in 1 .. Len(s) /\ i + 1 \in 1 .. Len(s)
      /\ i # i + 1
  OBVIOUS
<1>2. t \in [1 .. Len(s) -> E]
  BY <1>1 DEF Swapped
<1>3. t \in Seq(E) /\ Len(t) = Len(s)
  BY <1>1, <1>2
<1>4. t[i] = s[i + 1] /\ t[i + 1] = s[i] /\ \A j \in 1 .. Len(s) : j # i /\ j # i + 1 => t[j] = s[j]
  BY <1>1 DEF Swapped
<1>5. P \in [1 .. Len(s) -> 1 .. Len(s)]
  BY <1>1 DEF Place
<1>6. \A j \in 1 .. Len(s) : P[j] = IF j = i THEN i + 1 ELSE IF j = i + 1 THEN i ELSE j
  BY DEF Place
<1> HIDE DEF t, P
<1>7. \A j \in 1 .. Len(s) : t[P[j]] = s[j] /\ P[P[j]] = j
  BY <1>1, <1>4, <1>6
<1>8. ASSUME NEW j \in 1 .. Len(s), NEW k \in 1 .. Len(s),
             ~(j = i /\ k = i + 1), ~(j = i + 1 /\ k = i)
      PROVE  j <= k <=> P[j] <= P[k]
  BY <1>1, <1>6, <1>8
<1>9. QED
  BY <1>3, <1>5, <1>7, <1>8 DEF t, P

\* With two different ids at i and i+1, the same events are unique.
LEMMA SwapUnique ==
  ASSUME NEW E, NEW s \in Seq(E), NEW i \in 1 .. Len(s) - 1, s[i].id # s[i + 1].id
  PROVE  \A j \in 1 .. Len(s) : j \in Unique(s) <=> Place(s, i)[j] \in Unique(Swapped(s, i))
<1> DEFINE t == Swapped(s, i)
           P == Place(s, i)
<1>1. /\ t \in Seq(E) /\ Len(t) = Len(s)
      /\ P \in [1 .. Len(s) -> 1 .. Len(s)]
      /\ \A j \in 1 .. Len(s) : t[P[j]] = s[j] /\ P[P[j]] = j
      /\ \A j, k \in 1 .. Len(s) :
           ~(j = i /\ k = i + 1) /\ ~(j = i + 1 /\ k = i) => (j <= k <=> P[j] <= P[k])
  BY SwapPlaces
<1>2. DOMAIN s = 1 .. Len(s) /\ DOMAIN t = 1 .. Len(s) /\ Len(s) \in Nat
  BY <1>1
<1> HIDE DEF t, P
<1>3. \A j, k \in 1 .. Len(s) : s[j].id = s[k].id => (j <= k <=> P[j] <= P[k])
  BY <1>1
<1>4. \A j, k \in 1 .. Len(s) : s[j].id = s[k].id => (j < k <=> P[j] < P[k])
  <2>1. SUFFICES ASSUME NEW j \in 1 .. Len(s), NEW k \in 1 .. Len(s), s[j].id = s[k].id
                 PROVE  j < k <=> P[j] < P[k]
    OBVIOUS
  <2>2. k <= j <=> P[k] <= P[j]
    BY <1>3, <2>1
  <2>3. P[j] \in Int /\ P[k] \in Int
    BY <1>1
  <2>4. QED
    BY <2>2, <2>3
<1>5. SUFFICES ASSUME NEW j \in 1 .. Len(s) PROVE j \in Unique(s) <=> P[j] \in Unique(t)
  BY DEF t, P
<1>6. ASSUME j \in Unique(s), NEW m \in 1 .. Len(s), m < P[j] PROVE t[m].id # t[P[j]].id
  <2>1. P[m] \in 1 .. Len(s) /\ P[P[m]] = m /\ t[m] = s[P[m]] /\ t[P[j]] = s[j]
    BY <1>1
  <2>2. SUFFICES ASSUME s[P[m]].id = s[j].id PROVE FALSE
    BY <2>1
  <2>3. P[m] < j
    BY <1>4, <1>6, <2>1, <2>2
  <2>4. QED
    BY <1>2, <1>6, <2>1, <2>2, <2>3 DEF Unique
<1>7. ASSUME P[j] \in Unique(t), NEW k \in 1 .. Len(s), k < j PROVE s[k].id # s[j].id
  <2>1. P[k] \in 1 .. Len(s) /\ t[P[k]] = s[k] /\ t[P[j]] = s[j]
    BY <1>1
  <2>2. SUFFICES ASSUME s[k].id = s[j].id PROVE FALSE
    OBVIOUS
  <2>3. P[k] < P[j]
    BY <1>4, <1>7, <2>2
  <2>4. QED
    BY <1>2, <1>7, <2>1, <2>2, <2>3 DEF Unique
<1>8. P[j] \in 1 .. Len(s)
  BY <1>1
<1>9. j \in Unique(s) => P[j] \in Unique(t)
  BY <1>2, <1>6, <1>8 DEF Unique
<1>10. P[j] \in Unique(t) => j \in Unique(s)
  BY <1>2, <1>7 DEF Unique
<1>11. QED
  BY <1>9, <1>10

\* A set of positions of s that holds at most one of i and i+1 has its greatest
\* element at the place of the greatest.
LEMMA SwapMax ==
  ASSUME NEW E, NEW s \in Seq(E), NEW i \in 1 .. Len(s) - 1,
         NEW S \in SUBSET (1 .. Len(s)), S # {}, ~(i \in S /\ i + 1 \in S)
  PROVE  Max(S) \in S /\ Max({Place(s, i)[j] : j \in S}) = Place(s, i)[Max(S)]
<1> DEFINE P == Place(s, i)
           T == {P[j] : j \in S}
<1>1. /\ P \in [1 .. Len(s) -> 1 .. Len(s)]
      /\ \A j, k \in 1 .. Len(s) :
           ~(j = i /\ k = i + 1) /\ ~(j = i + 1 /\ k = i) => (j <= k <=> P[j] <= P[k])
      /\ Len(s) \in Nat
  BY SwapPlaces
<1> HIDE DEF P
<1>2. Max(S) \in S /\ \A j \in S : j <= Max(S)
  BY <1>1, MaxOfPositions
<1>3. P[Max(S)] \in T
  BY <1>2
<1>4. T \subseteq 1 .. Len(s)
  BY <1>1
<1>5. Max(T) \in T /\ \A m \in T : m <= Max(T)
  <2>1. T # {}
    BY <1>3
  <2> HIDE DEF T
  <2>2. QED
    BY <1>1, <1>4, <2>1, MaxOfPositions
<1>6. PICK j \in S : Max(T) = P[j]
  BY <1>5
<1>7. j \in 1 .. Len(s) /\ Max(S) \in 1 .. Len(s) /\ j <= Max(S)
  BY <1>2
<1>8. P[j] <= P[Max(S)]
  BY <1>1, <1>2, <1>6, <1>7
<1>9. P[Max(S)] <= P[j]
  <2> HIDE DEF T
  <2>1. QED
    BY <1>3, <1>5, <1>6
<1>10. P[j] \in Int /\ P[Max(S)] \in Int
  BY <1>1, <1>7
<1>11. QED
  BY <1>2, <1>6, <1>8, <1>9, <1>10 DEF P, T

\* What a node says of its operation, and how the run ended, do not depend on which
\* of two concurrent hooks appended first, whatever the two events and however long
\* the log.
THEOREM AppendsCommute == Spec => []ConcurrentAppendsCommute
<1>1. LogTypeOK => ConcurrentAppendsCommute
  <2>1. SUFFICES ASSUME log \in Seq(Vocabulary), NEW i \in 1 .. Len(log) - 1,
                        log[i].op # log[i + 1].op, log[i].id # log[i + 1].id
                 PROVE  LET left == Nodes(log)
                            right == Nodes(Exchanged(i))
                        IN /\ DOMAIN left = DOMAIN right
                           /\ \A o \in DOMAIN left : \A f \in DOMAIN left[o] \ {"firstSeenIndex"} :
                                left[o][f] = right[o][f]
                           /\ (log[i].runStatus = "none" \/ log[i + 1].runStatus = "none") =>
                                RunStatus(log) = RunStatus(Exchanged(i))
    BY DEF LogTypeOK, ConcurrentAppendsCommute
  <2> DEFINE t == Swapped(log, i)
             P == Place(log, i)
  <2>2. Exchanged(i) = t
    BY DEF Exchanged, Swapped
  <2>3. /\ t \in Seq(Vocabulary) /\ Len(t) = Len(log) /\ Len(log) \in Nat
        /\ P \in [1 .. Len(log) -> 1 .. Len(t)]
        /\ \A j \in 1 .. Len(log) : t[P[j]] = log[j] /\ P[P[j]] = j
        /\ \A j, k \in 1 .. Len(log) :
             ~(j = i /\ k = i + 1) /\ ~(j = i + 1 /\ k = i) => (j <= k <=> P[j] <= P[k])
    BY <2>1, SwapPlaces
  <2>4. \A j \in 1 .. Len(log) : j \in Unique(log) <=> P[j] \in Unique(t)
    BY <2>1, SwapUnique
  <2> HIDE DEF t, P
  <2>5. Unique(log) \subseteq 1 .. Len(log) /\ Unique(t) \subseteq 1 .. Len(log)
    BY <2>3 DEF Unique
  <2>6. \A m \in Unique(t) : /\ P[m] \in Unique(log) /\ P[P[m]] = m
                             /\ log[P[m]] = t[m]
    <3>1. SUFFICES ASSUME NEW m \in Unique(t)
                   PROVE  P[m] \in Unique(log) /\ P[P[m]] = m /\ log[P[m]] = t[m]
      OBVIOUS
    <3>2. m \in 1 .. Len(log)
      BY <2>5
    <3>3. P[m] \in 1 .. Len(log) /\ P[P[m]] = m /\ t[P[P[m]]] = log[P[m]]
      BY <2>3, <3>2
    <3>4. QED
      BY <2>4, <3>1, <3>3
  <2>7. ASSUME NEW o PROVE EventsOf(t, o) = {P[j] : j \in EventsOf(log, o)}
    <3>1. \A j \in EventsOf(log, o) : P[j] \in EventsOf(t, o)
      BY <2>3, <2>4, <2>5 DEF EventsOf
    <3>2. \A m \in EventsOf(t, o) : P[m] \in EventsOf(log, o) /\ m = P[P[m]]
      BY <2>6 DEF EventsOf
    <3>3. QED
      BY <3>1, <3>2
  <2>8. Operations(t) = Operations(log)
    <3>1. \A j \in Unique(log) : P[j] \in Unique(t) /\ t[P[j]] = log[j]
      BY <2>3, <2>4, <2>5
    <3>2. \A o \in Operations(log) : o \in Operations(t)
      BY <3>1 DEF Operations
    <3>3. \A o \in Operations(t) : o \in Operations(log)
      BY <2>6 DEF Operations
    <3>4. QED
      BY <3>2, <3>3
  <2>9. ASSUME NEW o \in Operations(log)
        PROVE  \A f \in DOMAIN Node(log, o) \ {"firstSeenIndex"} :
                 Node(log, o)[f] = Node(t, o)[f]
    <3>1. EventsOf(log, o) # {} /\ EventsOf(log, o) \subseteq 1 .. Len(log)
      BY <2>5 DEF EventsOf, Operations
    <3>2. ~(i \in EventsOf(log, o) /\ i + 1 \in EventsOf(log, o))
      BY <2>1 DEF EventsOf
    <3>3. \A j \in EventsOf(log, o) : t[P[j]] = log[j]
      BY <2>3, <3>1
    <3>4. \A j, k \in EventsOf(log, o) : j <= k <=> P[j] <= P[k]
      BY <2>3, <3>1, <3>2
    <3>5. HoldsAt(t, log, o, P)
      BY <2>3, <2>7, <3>3, <3>4 DEF HoldsAt
    <3>6. QED
      BY <2>1, <2>3, <3>1, <3>5, NodeOfRenamed
  <2>10. ASSUME log[i].runStatus = "none" \/ log[i + 1].runStatus = "none"
         PROVE  RunStatus(t) = RunStatus(log)
    <3>1. Deciding(log) \subseteq 1 .. Len(log) /\ ~(i \in Deciding(log) /\ i + 1 \in Deciding(log))
      BY <2>5, <2>10 DEF Deciding
    <3>2. Deciding(t) = {P[j] : j \in Deciding(log)}
      <4>1. \A j \in Deciding(log) : P[j] \in Deciding(t)
        BY <2>3, <2>4, <2>5 DEF Deciding
      <4>2. \A m \in Deciding(t) : P[m] \in Deciding(log) /\ m = P[P[m]]
        BY <2>6 DEF Deciding
      <4>3. QED
        BY <4>1, <4>2
    <3>3. CASE Deciding(log) = {}
      BY <3>2, <3>3 DEF RunStatus
    <3>4. CASE Deciding(log) # {}
      <4>1. /\ Max(Deciding(log)) \in Deciding(log)
            /\ Max(Deciding(t)) = P[Max(Deciding(log))]
        <5>1. Deciding(log) \in SUBSET (1 .. Len(log))
          BY <3>1
        <5>2. /\ Max(Deciding(log)) \in Deciding(log)
              /\ Max({Place(log, i)[j] : j \in Deciding(log)}) = Place(log, i)[Max(Deciding(log))]
          BY <2>1, <3>1, <3>4, <5>1, SwapMax
        <5>3. QED
          BY <3>2, <5>2 DEF P
      <4>2. t[Max(Deciding(t))] = log[Max(Deciding(log))]
        BY <2>3, <3>1, <4>1
      <4>3. Deciding(t) # {}
        BY <3>2, <3>4
      <4>4. QED
        BY <3>4, <4>2, <4>3 DEF RunStatus
    <3>5. QED
      BY <3>3, <3>4
  <2>11. DOMAIN Nodes(log) = Operations(log) /\ DOMAIN Nodes(t) = Operations(log)
    BY <2>8 DEF Nodes
  <2>12. \A o \in Operations(log) : Nodes(log)[o] = Node(log, o) /\ Nodes(t)[o] = Node(t, o)
    BY <2>8 DEF Nodes
  <2>13. QED
    BY <2>2, <2>9, <2>10, <2>11, <2>12
<1>2. QED
  BY <1>1, LogTypeCorrect, PTL

-----------------------------------------------------------------------------
\* The lists of a scope's places along the list of nodes.
Lists(nodes, scope, m, f) ==
  f = [n \in 0 .. m |-> IF n = 0 THEN << >>
                        ELSE IF nodes[n].scope = scope THEN Append(f[n - 1], n)
                        ELSE f[n - 1]]

\* The grouping has a list after each node.
LEMMA GroupingIsDefined ==
  ASSUME NEW nodes, NEW scope, NEW m \in Nat
  PROVE  \E f : Lists(nodes, scope, m, f)
<1> DEFINE D == {k \in Nat : ~\E f : Lists(nodes, scope, k, f)}
<1>1. SUFFICES ASSUME D # {} PROVE FALSE
  OBVIOUS
<1>2. PICK k \in D : \A y \in D : ~(<<y, k>> \in OpToRel(<, Nat))
  <2>1. D \subseteq Nat
    OBVIOUS
  <2>2. QED
    BY <1>1, <2>1, NatLessThanWellFounded, WFMin
<1>3. k \in Nat /\ ~\E f : Lists(nodes, scope, k, f)
  OBVIOUS
<1>4. \A y \in Nat : y < k => \E f : Lists(nodes, scope, y, f)
  BY <1>2, <1>3 DEF OpToRel
<1> DEFINE Step(g, n) == IF n = 0 THEN << >>
                         ELSE IF nodes[n].scope = scope THEN Append(g[n - 1], n)
                         ELSE g[n - 1]
<1>5. CASE k = 0
  <2> DEFINE f == [n \in 0 .. 0 |-> << >>]
  <2>1. f = [n \in 0 .. 0 |-> Step(f, n)]
    OBVIOUS
  <2>2. Lists(nodes, scope, k, f)
    BY <1>5, <2>1 DEF Lists
  <2>3. QED
    BY <1>3, <2>2
<1>6. CASE k # 0
  <2>1. k - 1 \in Nat /\ k - 1 < k
    BY <1>3, <1>6
  <2>2. PICK f : Lists(nodes, scope, k - 1, f)
    BY <1>4, <2>1
  <2> DEFINE next == [n \in 0 .. k |-> IF n = k THEN Step(f, k) ELSE f[n]]
  <2>3. \A n \in 0 .. k - 1 : f[n] = Step(f, n)
    BY <2>2 DEF Lists
  <2>4. ASSUME NEW n \in 0 .. k PROVE next[n] = Step(next, n)
    <3>1. CASE n = 0
      <4>1. n \in 0 .. k - 1 /\ n # k
        BY <1>3, <1>6, <3>1
      <4>2. next[n] = f[n]
        BY <4>1
      <4>3. QED
        BY <2>3, <3>1, <4>1, <4>2
    <3>2. CASE n = k
      <4>1. k - 1 \in 0 .. k /\ k - 1 # k /\ k \in 0 .. k
        BY <1>3, <1>6
      <4>2. next[k] = Step(f, k) /\ next[k - 1] = f[k - 1]
        BY <4>1
      <4>3. QED
        BY <1>6, <3>2, <4>2
    <3>3. CASE n # 0 /\ n # k
      <4>1. n \in 0 .. k - 1 /\ n - 1 \in 0 .. k /\ n - 1 # k
        BY <1>3, <3>3
      <4>2. next[n] = f[n] /\ next[n - 1] = f[n - 1]
        BY <3>3, <4>1
      <4>3. QED
        BY <2>3, <3>3, <4>1, <4>2
    <3>4. QED
      BY <3>1, <3>2, <3>3
  <2>5. next = [n \in 0 .. k |-> next[n]]
    OBVIOUS
  <2> HIDE DEF next
  <2>6. next = [n \in 0 .. k |-> Step(next, n)]
    BY <2>4, <2>5
  <2>7. Lists(nodes, scope, k, next)
    BY <2>6 DEF Lists
  <2>8. QED
    BY <1>3, <2>7
<1>7. QED
  BY <1>5, <1>6

\* The list g holds the places up to n of a scope's nodes, in their order.
Holds(g, nodes, scope, n) ==
  /\ g \in Seq(1 .. n)
  /\ \A q, r \in 1 .. Len(g) : q < r => g[q] < g[r]
  /\ \A i \in 1 .. n : nodes[i].scope = scope <=> \E q \in 1 .. Len(g) : g[q] = i

\* nodesByScope holds every scope's nodes in the order of the list.
LEMMA ScopeIsListed ==
  ASSUME NEW nodes, NEW scope, NEW m \in Nat, Len(nodes) = m
  PROVE  Holds(NodesByScope(nodes, scope), nodes, scope, m)
<1>1. PICK f : Lists(nodes, scope, m, f) /\ NodesByScope(nodes, scope) = f[m]
  <2> DEFINE f == CHOOSE f : Lists(nodes, scope, m, f)
  <2>1. Lists(nodes, scope, m, f)
    BY GroupingIsDefined
  <2>2. NodesByScope(nodes, scope) = f[m]
    BY DEF NodesByScope, Lists
  <2>3. QED
    BY <2>1, <2>2
<1>2. f[0] = << >> /\ \A n \in 1 .. m :
        f[n] = IF nodes[n].scope = scope THEN Append(f[n - 1], n) ELSE f[n - 1]
  <2>1. \A n \in 0 .. m : f[n] = IF n = 0 THEN << >>
                                 ELSE IF nodes[n].scope = scope THEN Append(f[n - 1], n)
                                 ELSE f[n - 1]
    BY <1>1 DEF Lists
  <2>2. 0 \in 0 .. m
    OBVIOUS
  <2>3. f[0] = << >>
    BY <2>1, <2>2
  <2>4. ASSUME NEW n \in 1 .. m
        PROVE  f[n] = IF nodes[n].scope = scope THEN Append(f[n - 1], n) ELSE f[n - 1]
    <3>1. n \in 0 .. m /\ n # 0
      OBVIOUS
    <3>2. QED
      BY <2>1, <3>1
  <2>5. QED
    BY <2>3, <2>4
<1>3. Holds(f[0], nodes, scope, 0)
  BY <1>2 DEF Holds
<1>4. ASSUME NEW n \in 1 .. m, Holds(f[n - 1], nodes, scope, n - 1)
      PROVE  Holds(f[n], nodes, scope, n)
  <2> DEFINE g == f[n - 1]
  <2>1. /\ g \in Seq(1 .. n - 1) /\ Len(g) \in Nat /\ n \in Nat
        /\ \A q \in 1 .. Len(g) : g[q] \in 1 .. n - 1
        /\ \A q, r \in 1 .. Len(g) : q < r => g[q] < g[r]
        /\ \A i \in 1 .. n - 1 : nodes[i].scope = scope <=> \E q \in 1 .. Len(g) : g[q] = i
    BY <1>4 DEF Holds
  <2>2. g \in Seq(1 .. n)
    <3>1. 1 .. n - 1 \subseteq 1 .. n
      BY <2>1
    <3>2. QED
      BY <2>1, <3>1, SeqMonotonic
  <2>3. CASE nodes[n].scope # scope
    <3>1. f[n] = g
      BY <1>2, <2>3
    <3> HIDE DEF g
    <3>2. ASSUME NEW i \in 1 .. n
          PROVE  nodes[i].scope = scope <=> \E q \in 1 .. Len(g) : g[q] = i
      <4>1. CASE i = n
        BY <2>1, <2>3, <4>1
      <4>2. CASE i \in 1 .. n - 1
        BY <2>1, <4>2
      <4>3. QED
        BY <2>1, <4>1, <4>2
    <3>3. QED
      BY <2>1, <2>2, <3>1, <3>2 DEF Holds
  <2>4. CASE nodes[n].scope = scope
    <3> DEFINE h == Append(g, n)
    <3>1. f[n] = h
      BY <1>2, <2>4
    <3> HIDE DEF g
    <3>2. /\ h \in Seq(1 .. n) /\ Len(h) = Len(g) + 1 /\ h[Len(g) + 1] = n
          /\ \A q \in 1 .. Len(g) : h[q] = g[q]
      BY <2>1, <2>2, AppendProperties
    <3> HIDE DEF h
    <3>3. ASSUME NEW q \in 1 .. Len(h), NEW r \in 1 .. Len(h), q < r PROVE h[q] < h[r]
      <4>1. q \in 1 .. Len(g) /\ h[q] = g[q]
        BY <2>1, <3>2, <3>3
      <4>2. CASE r \in 1 .. Len(g)
        BY <2>1, <3>2, <3>3, <4>1, <4>2
      <4>3. CASE r = Len(g) + 1
        BY <2>1, <3>2, <4>1, <4>3
      <4>4. QED
        BY <2>1, <3>2, <4>2, <4>3
    <3>4. ASSUME NEW i \in 1 .. n
          PROVE  nodes[i].scope = scope <=> \E q \in 1 .. Len(h) : h[q] = i
      <4>1. CASE i = n
        <5>1. Len(g) + 1 \in 1 .. Len(h) /\ h[Len(g) + 1] = i
          BY <2>1, <3>2, <4>1
        <5>2. QED
          BY <2>4, <4>1, <5>1
      <4>2. CASE i \in 1 .. n - 1
        <5>1. \A q \in 1 .. Len(h) : h[q] = i <=> q \in 1 .. Len(g) /\ g[q] = i
          BY <2>1, <3>2, <4>2
        <5>2. \A q \in 1 .. Len(g) : q \in 1 .. Len(h)
          BY <2>1, <3>2
        <5>3. (\E q \in 1 .. Len(h) : h[q] = i) <=> (\E q \in 1 .. Len(g) : g[q] = i)
          BY <5>1, <5>2
        <5>4. QED
          BY <2>1, <4>2, <5>3
      <4>3. QED
        BY <2>1, <4>1, <4>2
    <3>5. QED
      BY <3>1, <3>2, <3>3, <3>4 DEF Holds
  <2>5. QED
    BY <2>3, <2>4
<1> DEFINE D == {n \in 0 .. m : ~Holds(f[n], nodes, scope, n)}
<1>5. D = {}
  <2>1. SUFFICES ASSUME D # {} PROVE FALSE
    OBVIOUS
  <2>2. PICK n \in D : \A y \in D : ~(<<y, n>> \in OpToRel(<, Nat))
    <3>1. D \subseteq Nat
      OBVIOUS
    <3>2. QED
      BY <2>1, <3>1, NatLessThanWellFounded, WFMin
  <2>3. n \in 0 .. m /\ ~Holds(f[n], nodes, scope, n)
    OBVIOUS
  <2>4. n \in 1 .. m
    BY <1>3, <2>3
  <2>5. Holds(f[n - 1], nodes, scope, n - 1)
    <3>1. SUFFICES ASSUME n - 1 \in D PROVE FALSE
      BY <2>4
    <3>2. <<n - 1, n>> \in OpToRel(<, Nat)
      BY <2>4 DEF OpToRel
    <3>3. QED
      BY <2>2, <3>1, <3>2
  <2>6. QED
    BY <1>4, <2>3, <2>4, <2>5
<1>6. QED
  BY <1>1, <1>5

\* The consecutive pairs of a scope's list are the pairs of its nodes with no node
\* of the scope between them.
LEMMA ConsecutivePairs ==
  ASSUME NEW nodes, NEW scope, NEW m \in Nat, Len(nodes) = m
  PROVE  \A x : x \in ScopePairs(nodes, scope) <=>
                \E a, b \in 1 .. m :
                  /\ x = <<nodes[a].op, nodes[b].op>>
                  /\ a < b /\ nodes[a].scope = scope /\ nodes[b].scope = scope
                  /\ \A c \in 1 .. m : a < c /\ c < b => nodes[c].scope # scope
<1> DEFINE g == NodesByScope(nodes, scope)
           Adjacent(a, b) == /\ a < b /\ nodes[a].scope = scope /\ nodes[b].scope = scope
                          /\ \A c \in 1 .. m : a < c /\ c < b => nodes[c].scope # scope
<1>1. /\ g \in Seq(1 .. m) /\ Len(g) \in Nat
      /\ \A q \in 1 .. Len(g) : g[q] \in 1 .. m
      /\ \A q, r \in 1 .. Len(g) : q < r => g[q] < g[r]
      /\ \A i \in 1 .. m : nodes[i].scope = scope <=> \E q \in 1 .. Len(g) : g[q] = i
  BY ScopeIsListed DEF Holds
<1>2. ScopePairs(nodes, scope) = {<<nodes[g[i]].op, nodes[g[i + 1]].op>> : i \in 1 .. Len(g) - 1}
  BY DEF ScopePairs
<1> HIDE DEF g
<1>3. ASSUME NEW i \in 1 .. Len(g) - 1
      PROVE  g[i] \in 1 .. m /\ g[i + 1] \in 1 .. m /\ Adjacent(g[i], g[i + 1])
  <2>1. i \in 1 .. Len(g) /\ i + 1 \in 1 .. Len(g) /\ i < i + 1
    BY <1>1
  <2>2. g[i] \in 1 .. m /\ g[i + 1] \in 1 .. m /\ g[i] < g[i + 1]
    BY <1>1, <2>1
  <2>3. nodes[g[i]].scope = scope /\ nodes[g[i + 1]].scope = scope
    BY <1>1, <2>1, <2>2
  <2>4. ASSUME NEW c \in 1 .. m, g[i] < c, c < g[i + 1], nodes[c].scope = scope PROVE FALSE
    <3>1. PICK q \in 1 .. Len(g) : g[q] = c
      BY <1>1, <2>4
    <3>2. ~(q <= i) /\ ~(i + 1 <= q)
      <4>1. q < i => g[q] < g[i]
        BY <1>1, <2>1
      <4>2. i + 1 < q => g[i + 1] < g[q]
        BY <1>1, <2>1
      <4>3. ~(q < i) /\ ~(i + 1 < q) /\ q # i /\ q # i + 1
        BY <2>2, <2>4, <3>1, <4>1, <4>2
      <4>4. QED
        BY <2>1, <4>3
    <3>3. QED
      BY <2>1, <3>2
  <2>5. Adjacent(g[i], g[i + 1])
    BY <2>2, <2>3, <2>4
  <2>6. QED
    BY <2>2, <2>5
<1>4. ASSUME NEW a \in 1 .. m, NEW b \in 1 .. m, Adjacent(a, b)
      PROVE  \E i \in 1 .. Len(g) - 1 : g[i] = a /\ g[i + 1] = b
  <2>1. PICK i \in 1 .. Len(g), k \in 1 .. Len(g) : g[i] = a /\ g[k] = b
    BY <1>1, <1>4
  <2>2. i < k
    <3>1. k < i => g[k] < g[i]
      BY <1>1
    <3>2. QED
      BY <1>1, <1>4, <2>1, <3>1
  <2>3. i \in 1 .. Len(g) - 1 /\ i + 1 \in 1 .. Len(g) /\ i < i + 1
    BY <1>1, <2>2
  <2>4. g[i] < g[i + 1] /\ g[i + 1] \in 1 .. m
    BY <1>1, <2>3
  <2>5. nodes[g[i + 1]].scope = scope
    BY <1>1, <2>3, <2>4
  <2>6. ~(g[i + 1] < b)
    BY <1>4, <2>1, <2>4, <2>5
  <2>7. i + 1 < k => g[i + 1] < g[k]
    BY <1>1, <2>3
  <2>8. i + 1 = k
    BY <2>1, <2>2, <2>6, <2>7
  <2>9. QED
    BY <2>1, <2>3, <2>8
<1>5. ASSUME NEW x \in ScopePairs(nodes, scope)
      PROVE  \E a, b \in 1 .. m : x = <<nodes[a].op, nodes[b].op>> /\ Adjacent(a, b)
  <2>1. PICK i \in 1 .. Len(g) - 1 : x = <<nodes[g[i]].op, nodes[g[i + 1]].op>>
    BY <1>2
  <2> HIDE DEF Adjacent
  <2>2. QED
    BY <1>3, <2>1
<1>6. ASSUME NEW a \in 1 .. m, NEW b \in 1 .. m, Adjacent(a, b)
      PROVE  <<nodes[a].op, nodes[b].op>> \in ScopePairs(nodes, scope)
  <2>1. PICK i \in 1 .. Len(g) - 1 : g[i] = a /\ g[i + 1] = b
    BY <1>4, <1>6
  <2>2. QED
    BY <1>2, <2>1
<1>7. \A x : x \in ScopePairs(nodes, scope)
              <=> \E a, b \in 1 .. m : x = <<nodes[a].op, nodes[b].op>> /\ Adjacent(a, b)
  <2> HIDE DEF Adjacent
  <2>1. QED
    BY <1>5, <1>6
<1>8. QED
  BY <1>7

\* The edges drawn from the nodes are those that buildExecutionEdges pushes, on
\* every log: a dependency edge keeps the sequence edge out, and a scope's nodes are
\* chained in the order in which they were first seen.
THEOREM EdgesAreWalked == Spec => []EdgesAgreeWithWalk
<1>1. LogTypeOK => EdgesAgreeWithWalk
  <2>1. SUFFICES ASSUME LogTypeOK PROVE Edges(Nodes(log)) = WalkEdges(Walk(log).nodes)
    BY DEF EdgesAgreeWithWalk
  <2>2. log \in Seq(Vocabulary) /\ Timed(Vocabulary)
    BY <2>1, VocabularyAssumption DEF LogTypeOK, Timed
  <2>3. PICK order : Reached(Walk(log), log, order)
    BY <2>2, LoopReaches
  <2> DEFINE nodes == [i \in 1 .. Len(order) |-> WalkNode(log, order[i])]
             graph == Nodes(log)
             m == Len(order)
             Seen(i) == Node(log, order[i]).firstSeenIndex
  <2>4. Walk(log).nodes = nodes
    BY <2>3 DEF Reached
  <2>5. /\ order \in Seq(Operations(log)) /\ m \in Nat
        /\ \A i \in 1 .. m : order[i] \in Operations(log)
        /\ \A o \in Operations(log) : \E i \in 1 .. m : order[i] = o
        /\ \A i, j \in 1 .. m : j < i => Seen(j) < Seen(i)
    BY <2>3 DEF Reached, InOrder
  <2>6. \A i \in 1 .. m : Seen(i) \in Nat
    BY <2>2, <2>5, SeenBefore
  <2>7. \A i, j \in 1 .. m : j < i <=> Seen(j) < Seen(i)
    <3> HIDE DEF Seen
    <3>1. SUFFICES ASSUME NEW i \in 1 .. m, NEW j \in 1 .. m PROVE j < i <=> Seen(j) < Seen(i)
      OBVIOUS
    <3>2. /\ j < i => Seen(j) < Seen(i)
          /\ i < j => Seen(i) < Seen(j)
          /\ Seen(i) \in Nat /\ Seen(j) \in Nat
      BY <2>5, <2>6
    <3>3. i = j => Seen(i) = Seen(j)
      OBVIOUS
    <3>4. QED
      BY <3>2, <3>3
  <2>8. DOMAIN graph = Operations(log) /\ \A o \in Operations(log) : graph[o] = Node(log, o)
    BY DEF Nodes
  <2>9. \A i \in 1 .. m : /\ nodes[i].op = order[i]
                          /\ nodes[i].scope = graph[order[i]].scope
                          /\ nodes[i].dependencies = graph[order[i]].dependencies
                          /\ Seen(i) = graph[order[i]].firstSeenIndex
    BY <2>5, <2>8 DEF WalkNode
  <2>10. DOMAIN nodes = 1 .. m /\ Len(nodes) = m
    BY <2>5
  <2> HIDE DEF nodes, graph, m, Seen
  <2> DEFINE dependency == UNION {{[from |-> d.on, to |-> nodes[i].op, kind |-> d.kind]
                                    : d \in nodes[i].dependencies} : i \in DOMAIN nodes}
             scopes == {nodes[i].scope : i \in DOMAIN nodes} \ {"none"}
             pairs == UNION {ScopePairs(nodes, scope) : scope \in scopes}
  <2>11. dependency = DependencyEdges(graph)
    <3>1. ASSUME NEW x \in dependency PROVE x \in DependencyEdges(graph)
      <4>1. PICK i \in 1 .. m : \E d \in nodes[i].dependencies :
              x = [from |-> d.on, to |-> nodes[i].op, kind |-> d.kind]
        BY <2>10
      <4> PICK d \in nodes[i].dependencies : x = [from |-> d.on, to |-> nodes[i].op, kind |-> d.kind]
        BY <4>1
      <4>2. order[i] \in DOMAIN graph /\ d \in graph[order[i]].dependencies
            /\ x = [from |-> d.on, to |-> order[i], kind |-> d.kind]
        BY <2>5, <2>8, <2>9, <4>1
      <4>3. QED
        BY <4>2 DEF DependencyEdges
    <3>2. ASSUME NEW x \in DependencyEdges(graph) PROVE x \in dependency
      <4>1. PICK o \in DOMAIN graph : \E d \in graph[o].dependencies :
              x = [from |-> d.on, to |-> o, kind |-> d.kind]
        BY DEF DependencyEdges
      <4> PICK d \in graph[o].dependencies : x = [from |-> d.on, to |-> o, kind |-> d.kind]
        BY <4>1
      <4>2. PICK i \in 1 .. m : order[i] = o
        BY <2>5, <2>8
      <4>3. d \in nodes[i].dependencies /\ nodes[i].op = o
        BY <2>9, <4>1, <4>2
      <4> DEFINE own(j) == {[from |-> c.on, to |-> nodes[j].op, kind |-> c.kind]
                              : c \in nodes[j].dependencies}
      <4>4. x \in own(i)
        BY <4>1, <4>3
      <4>5. own(i) \in {own(j) : j \in DOMAIN nodes}
        BY <2>10
      <4>6. QED
        BY <4>4, <4>5
    <3> HIDE DEF dependency
    <3>3. QED
      BY <3>1, <3>2
  <2>12. ASSUME NEW q
         PROVE  q \in pairs <=> /\ q \in (DOMAIN graph) \X (DOMAIN graph)
                                /\ Neighbours(graph, q[1], q[2])
    <3> DEFINE Between(a, b, scope) == \A c \in 1 .. m : a < c /\ c < b => nodes[c].scope # scope
    <3>1. ASSUME q \in pairs
          PROVE  q \in (DOMAIN graph) \X (DOMAIN graph) /\ Neighbours(graph, q[1], q[2])
      <4>1. PICK scope \in scopes : q \in ScopePairs(nodes, scope)
        BY <3>1
      <4>2. PICK a \in 1 .. m, b \in 1 .. m :
              /\ q = <<nodes[a].op, nodes[b].op>> /\ a < b
              /\ nodes[a].scope = scope /\ nodes[b].scope = scope
              /\ Between(a, b, scope)
        BY <2>5, <2>10, <4>1, ConsecutivePairs
      <4>3. q = <<order[a], order[b]>> /\ scope # "none"
        BY <2>9, <4>2
      <4>4. order[a] \in DOMAIN graph /\ order[b] \in DOMAIN graph
        BY <2>5, <2>8
      <4>5. /\ graph[order[a]].scope = scope /\ graph[order[b]].scope = scope
            /\ graph[order[a]].firstSeenIndex < graph[order[b]].firstSeenIndex
        BY <2>7, <2>9, <4>2
      <4>6. ASSUME NEW c \in DOMAIN graph, graph[c].scope = scope,
                   graph[order[a]].firstSeenIndex < graph[c].firstSeenIndex,
                   graph[c].firstSeenIndex < graph[order[b]].firstSeenIndex
            PROVE  FALSE
        <5>1. PICK i \in 1 .. m : order[i] = c
          BY <2>5, <2>8
        <5>2. Seen(a) < Seen(i) /\ Seen(i) < Seen(b) /\ nodes[i].scope = scope
          BY <2>9, <4>6, <5>1
        <5>3. QED
          BY <2>7, <4>2, <5>2
      <4>7. Neighbours(graph, order[a], order[b])
        BY <4>3, <4>5, <4>6 DEF Neighbours
      <4>8. QED
        BY <4>3, <4>4, <4>7
    <3>2. ASSUME q \in (DOMAIN graph) \X (DOMAIN graph), Neighbours(graph, q[1], q[2])
          PROVE  q \in pairs
      <4>1. PICK a \in 1 .. m, b \in 1 .. m : order[a] = q[1] /\ order[b] = q[2]
        BY <2>5, <2>8, <3>2
      <4> DEFINE scope == graph[q[1]].scope
      <4>2. /\ scope # "none" /\ graph[q[2]].scope = scope
            /\ graph[q[1]].firstSeenIndex < graph[q[2]].firstSeenIndex
            /\ ~\E c \in DOMAIN graph :
                  /\ graph[c].scope = scope
                  /\ graph[q[1]].firstSeenIndex < graph[c].firstSeenIndex
                  /\ graph[c].firstSeenIndex < graph[q[2]].firstSeenIndex
        BY <3>2 DEF Neighbours
      <4>3. nodes[a].scope = scope /\ nodes[b].scope = scope /\ a < b
        BY <2>7, <2>9, <4>1, <4>2
      <4>4. ASSUME NEW c \in 1 .. m, a < c, c < b PROVE nodes[c].scope # scope
        <5>1. Seen(a) < Seen(c) /\ Seen(c) < Seen(b) /\ order[c] \in DOMAIN graph
          BY <2>5, <2>7, <2>8, <4>4
        <5>2. QED
          BY <2>9, <4>1, <4>2, <5>1
      <4>5. q = <<nodes[a].op, nodes[b].op>>
        BY <2>9, <3>2, <4>1
      <4>6. Between(a, b, scope)
        BY <4>4
      <4> HIDE DEF scope
      <4>7. q \in ScopePairs(nodes, scope) <=>
              \E x, y \in 1 .. m :
                /\ q = <<nodes[x].op, nodes[y].op>>
                /\ x < y /\ nodes[x].scope = scope /\ nodes[y].scope = scope
                /\ \A c \in 1 .. m : x < c /\ c < y => nodes[c].scope # scope
        BY <2>5, <2>10, ConsecutivePairs
      <4>8. q \in ScopePairs(nodes, scope)
        BY <4>3, <4>5, <4>6, <4>7
      <4>9. scope \in scopes
        BY <2>10, <4>2, <4>3
      <4>10. QED
        BY <4>8, <4>9
    <3>3. QED
      BY <3>1, <3>2
  <2> DEFINE joined(q) == ~\E e \in DependencyEdges(graph) : e.from = q[1] /\ e.to = q[2]
             free == {q \in pairs : joined(q)}
             chained == {q \in (DOMAIN graph) \X (DOMAIN graph) :
                           Neighbours(graph, q[1], q[2]) /\ joined(q)}
  <2>13. free = chained
    <3> HIDE DEF pairs, joined
    <3>1. \A q : q \in free <=> q \in chained
      BY <2>12
    <3> HIDE DEF free, chained
    <3>2. QED
      BY <3>1
  <2>14. SequenceEdges(graph) = {[from |-> p[1], to |-> p[2], kind |-> "sequence"] : p \in chained}
    BY DEF SequenceEdges
  <2>15. WalkEdges(nodes)
           = dependency \cup {[from |-> p[1], to |-> p[2], kind |-> "sequence"] : p \in free}
    BY <2>11 DEF WalkEdges
  <2> HIDE DEF free, chained, dependency
  <2>16. Edges(graph) = WalkEdges(nodes)
    BY <2>11, <2>13, <2>14, <2>15 DEF Edges
  <2>17. QED
    BY <2>4, <2>16 DEF graph
<1>2. QED
  BY <1>1, LogTypeCorrect, PTL
=============================================================================
