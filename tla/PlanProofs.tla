----------------------------- MODULE PlanProofs -----------------------------
(***************************************************************************)
(* What the passes make of a plan, for every configuration that            *)
(* ConfigurationsAssumption admits: any plan of the types of mIR without   *)
(* two blocks of one id, any providers, and the passes of the repository   *)
(* in any order, repeated, disabled or failing.                            *)
(*                                                                         *)
(* Three properties of OptimizedRun are proved of every behaviour:         *)
(* PlannedProvidersMayBeUsed, RemovalsAreTold and RequestsReadTheSame.     *)
(* None is inductive as it stands.  All three follow from PlanInv, which   *)
(* relates the plan that is left to the first one (IsLeft), says which     *)
(* pairs of duplicates the evidence and the warnings tell of               *)
(* (IsAccountOf, AreToldOf), and that what was decided so far goes to      *)
(* providers that the constraints allow (MayBeTaken).  A pass either       *)
(* reports and leaves the plan alone (ReportsOnly) or deduplicates it      *)
(* (Deduplicates); PassesReportOrDeduplicate says so of each of them.      *)
(*                                                                         *)
(* PlanStaysValid, a conjunct of what MCDecisions checks, is proved last.  *)
(* It needs RestInv as well: what the passes leave alone of the plan and   *)
(* of its edges.                                                           *)
(*                                                                         *)
(* The first part is about lists: what Where, Distinct and LastWith        *)
(* return, and when replacing items by like ones leaves their distinct     *)
(* contents as they were.  Every list is a function of 1 .. Len, so the    *)
(* lemmas quantify over lists and tables (functions of the items) and      *)
(* never over operators.                                                   *)
(***************************************************************************)
EXTENDS OptimizedRun, FiniteSetTheorems, NaturalsInduction, SequenceTheorems,
        WellFoundedInduction, TLAPS

-----------------------------------------------------------------------------
\* Induction up to a number, over the set of the numbers of which something holds.
LEMMA UpTo ==
  ASSUME NEW top \in Nat, NEW P, 0 \in P, \A n \in 0 .. top - 1 : n \in P => n + 1 \in P
  PROVE  0 .. top \subseteq P
<1> DEFINE D == (0 .. top) \ P
<1>1. SUFFICES ASSUME D # {} PROVE FALSE
  OBVIOUS
<1>2. PICK m \in D : \A y \in D : ~(<<y, m>> \in OpToRel(<, Nat))
  <2>1. D \subseteq Nat
    OBVIOUS
  <2>2. QED
    BY <1>1, <2>1, NatLessThanWellFounded, WFMin
<1>3. m \in 1 .. top /\ m - 1 \in 0 .. top - 1
  OBVIOUS
<1>4. m - 1 \in P
  <2>1. m - 1 \in Nat /\ m \in Nat /\ m - 1 < m /\ m - 1 \in 0 .. top
    BY <1>3
  <2>2. <<m - 1, m>> \in OpToRel(<, Nat)
    BY <2>1 DEF OpToRel
  <2>3. m - 1 \notin D
    BY <1>2, <2>2
  <2>4. QED
    BY <2>1, <2>3
<1>5. QED
  BY <1>3, <1>4

\* A function whose domain is 1 .. n is a list of length n.
LEMMA ListOf ==
  ASSUME NEW n \in Nat, NEW f, f = [i \in 1 .. n |-> f[i]]
  PROVE  IsList(f) /\ Len(f) = n /\ f \in Seq({f[i] : i \in 1 .. n})
<1>1. f \in Seq({f[i] : i \in 1 .. n})
  OBVIOUS
<1>2. Len(f) = n
  BY <1>1
<1>3. QED
  BY <1>1, <1>2 DEF IsList

\* The lists of a list, joined up to the m-th.
Joined(seqs, m, f) ==
  f = [i \in 1 .. m |-> IF i = 1 THEN seqs[i] ELSE f[i - 1] \o seqs[i]]

\* Lists are joined one after the other.
LEMMA JoinIsDefined ==
  ASSUME NEW seqs, NEW top \in Nat
  PROVE  \E f : Joined(seqs, top, f)
<1> DEFINE P == {m \in 0 .. top : \E f : Joined(seqs, m, f)}
<1>1. 0 \in P
  <2> DEFINE f == [i \in 1 .. 0 |-> seqs[i]]
  <2>1. f = [i \in 1 .. 0 |-> IF i = 1 THEN seqs[i] ELSE f[i - 1] \o seqs[i]]
    OBVIOUS
  <2>2. Joined(seqs, 0, f)
    BY <2>1 DEF Joined
  <2>3. QED
    BY <2>2
<1>2. ASSUME NEW m \in 0 .. top - 1, m \in P PROVE m + 1 \in P
  <2>1. PICK f : Joined(seqs, m, f)
    BY <1>2
  <2> DEFINE Value(g, i) == IF i = 1 THEN seqs[i] ELSE g[i - 1] \o seqs[i]
             next == [i \in 1 .. m + 1 |-> IF i = m + 1 THEN Value(f, i) ELSE f[i]]
  <2>2. \A i \in 1 .. m : f[i] = Value(f, i)
    BY <2>1 DEF Joined
  <2>3. ASSUME NEW i \in 1 .. m + 1 PROVE next[i] = Value(next, i)
    <3>1. next[i] = Value(f, i)
      BY <2>2
    <3>2. i = 1 \/ next[i - 1] = f[i - 1]
      OBVIOUS
    <3>3. QED
      BY <3>1, <3>2
  <2>4. Joined(seqs, m + 1, next)
    <3> HIDE DEF next, Value
    <3>1. next = [i \in 1 .. m + 1 |-> next[i]]
      BY DEF next
    <3>2. next = [i \in 1 .. m + 1 |-> Value(next, i)]
      BY <2>3, <3>1
    <3>3. QED
      BY <3>2 DEF Joined, Value
  <2>5. m + 1 \in 0 .. top
    OBVIOUS
  <2>6. QED
    BY <2>4, <2>5
<1> HIDE DEF P
<1>3. 0 .. top \subseteq P
  BY <1>1, <1>2, UpTo
<1>4. QED
  BY <1>3 DEF P

\* Two lists, joined, have the items of both.
LEMMA JoinedItems ==
  ASSUME NEW S, NEW T, NEW s \in Seq(S), NEW t \in Seq(T)
  PROVE  /\ ToSet(s \o t) = ToSet(s) \cup ToSet(t)
         /\ S = T => s \o t \in Seq(S)
<1> DEFINE U == S \cup T
<1>0. s \in Seq(U) /\ t \in Seq(U)
  OBVIOUS
<1>1. /\ S = T => s \o t \in Seq(S)
      /\ Len(s \o t) = Len(s) + Len(t)
      /\ \A i \in 1 .. Len(s) : (s \o t)[i] = s[i]
      /\ \A i \in 1 .. Len(t) : (s \o t)[Len(s) + i] = t[i]
  BY <1>0
<1>2. DOMAIN s = 1 .. Len(s) /\ DOMAIN t = 1 .. Len(t)
      /\ DOMAIN (s \o t) = 1 .. Len(s) + Len(t) /\ Len(s) \in Nat /\ Len(t) \in Nat
  BY <1>0, <1>1
<1>3. \A i \in 1 .. Len(s) + Len(t) :
         i \in 1 .. Len(s) \/ (i - Len(s) \in 1 .. Len(t) /\ i = Len(s) + (i - Len(s)))
  BY <1>2
<1>4. ToSet(s \o t) \subseteq ToSet(s) \cup ToSet(t)
  BY <1>1, <1>2, <1>3 DEF ToSet
<1>5. ToSet(s) \cup ToSet(t) \subseteq ToSet(s \o t)
  <2>1. \A i \in 1 .. Len(s) : i \in DOMAIN (s \o t)
    BY <1>2
  <2>2. \A i \in 1 .. Len(t) : Len(s) + i \in DOMAIN (s \o t)
    BY <1>2
  <2>3. ToSet(s) \subseteq ToSet(s \o t)
    <3>1. \A i \in 1 .. Len(s) : s[i] \in ToSet(s \o t)
      BY <1>1, <2>1 DEF ToSet
    <3>2. QED
      BY <1>2, <3>1 DEF ToSet
  <2>4. ToSet(t) \subseteq ToSet(s \o t)
    <3>1. \A i \in 1 .. Len(t) : t[i] \in ToSet(s \o t)
      BY <1>1, <2>2 DEF ToSet
    <3>2. QED
      BY <1>2, <3>1 DEF ToSet
  <2>5. QED
    BY <2>3, <2>4
<1>6. QED
  BY <1>1, <1>4, <1>5

\* A list of lists, joined, has the items of them all.
LEMMA FlattenItems ==
  ASSUME NEW n \in Nat, NEW seqs, seqs = [i \in 1 .. n |-> seqs[i]],
         NEW S, \A i \in 1 .. n : seqs[i] \in Seq(S)
  PROVE  /\ FlattenSeq(seqs) \in Seq(S)
         /\ ToSet(FlattenSeq(seqs)) = UNION {ToSet(seqs[i]) : i \in 1 .. n}
<1>1. Len(seqs) = n
  BY ListOf
<1> DEFINE f == CHOOSE f : Joined(seqs, n, f)
<1>2. Joined(seqs, n, f)
  BY JoinIsDefined
<1>3. FlattenSeq(seqs) = IF n = 0 THEN seqs ELSE f[n]
  BY <1>1 DEF FlattenSeq, Joined
<1> HIDE DEF f
<1>4. \A i \in 1 .. n : f[i] = IF i = 1 THEN seqs[i] ELSE f[i - 1] \o seqs[i]
  BY <1>2 DEF Joined
<1>5. CASE n = 0
  <2>1. seqs = <<>> /\ seqs \in Seq(S)
    BY <1>5
  <2>2. ToSet(seqs) = {}
    <3>1. DOMAIN seqs = {}
      BY <1>5
    <3>2. QED
      BY <3>1 DEF ToSet
  <2>3. UNION {ToSet(seqs[i]) : i \in 1 .. n} = {}
    BY <1>5
  <2>4. QED
    BY <1>3, <1>5, <2>1, <2>2, <2>3
<1>6. CASE n # 0
  <2> DEFINE Items(m) == UNION {ToSet(seqs[i]) : i \in 1 .. m}
             Good(m) == f[m] \in Seq(S) /\ ToSet(f[m]) = Items(m)
             P == {m \in 0 .. n : m = 0 \/ Good(m)}
  <2>1. 0 \in P
    OBVIOUS
  <2>2. ASSUME NEW m \in 0 .. n - 1, m \in P PROVE m + 1 \in P
    <3>1. m + 1 \in 1 .. n /\ seqs[m + 1] \in Seq(S) /\ (m + 1) - 1 = m
      OBVIOUS
    <3>2. Items(m + 1) = Items(m) \cup ToSet(seqs[m + 1])
      <4>1. 1 .. m + 1 = (1 .. m) \cup {m + 1}
        OBVIOUS
      <4>2. QED
        BY <4>1
    <3>3. Items(0) = {}
      OBVIOUS
    <3>4. m = 0 \/ (f[m] \in Seq(S) /\ ToSet(f[m]) = Items(m))
      BY <2>2
    <3>5. f[m + 1] = IF m + 1 = 1 THEN seqs[m + 1] ELSE f[(m + 1) - 1] \o seqs[m + 1]
      BY <1>4, <3>1
    <3> HIDE DEF Items
    <3>6. CASE m = 0
      <4>1. f[m + 1] = seqs[m + 1]
        BY <3>5, <3>6
      <4>2. Items(m + 1) = ToSet(seqs[m + 1])
        BY <3>2, <3>3, <3>6
      <4>3. Good(m + 1) /\ m + 1 \in 0 .. n
        BY <3>1, <4>1, <4>2
      <4>4. QED
        BY <4>3
    <3>7. CASE m # 0
      <4>1. f[m + 1] = f[m] \o seqs[m + 1]
        <5>1. m + 1 # 1 /\ (m + 1) - 1 = m
          BY <3>1, <3>7
        <5>2. QED
          BY <3>5, <5>1, Zenon
      <4>2. f[m] \in Seq(S) /\ ToSet(f[m]) = Items(m)
        BY <3>4, <3>7
      <4> DEFINE s == f[m]
                 t == seqs[m + 1]
      <4> HIDE DEF s, t
      <4>3. s \in Seq(S) /\ t \in Seq(S)
                => s \o t \in Seq(S) /\ ToSet(s \o t) = ToSet(s) \cup ToSet(t)
        BY JoinedItems
      <4>4. f[m + 1] \in Seq(S) /\ ToSet(f[m + 1]) = Items(m) \cup ToSet(seqs[m + 1])
        BY <3>1, <4>1, <4>2, <4>3 DEF s, t
      <4>5. Good(m + 1) /\ m + 1 \in 0 .. n
        BY <3>1, <3>2, <4>4
      <4>6. QED
        BY <4>5
    <3>8. QED
      BY <3>6, <3>7
  <2> HIDE DEF P
  <2>3. 0 .. n \subseteq P
    BY <2>1, <2>2, UpTo
  <2>4. n \in P
    BY <2>3
  <2>5. Good(n)
    BY <1>6, <2>4 DEF P
  <2>6. QED
    BY <1>3, <1>6, <2>5
<1>7. QED
  BY <1>5, <1>6

-----------------------------------------------------------------------------
\* A list has its items at the places up to its length.
LEMMA ListItems ==
  ASSUME NEW s, IsList(s)
  PROVE  /\ Len(s) \in Nat /\ DOMAIN s = 1 .. Len(s)
         /\ s \in Seq(ToSet(s))
         /\ \A x : x \in ToSet(s) <=> \E i \in 1 .. Len(s) : x = s[i]
<1>1. Len(s) \in Nat /\ s = [i \in 1 .. Len(s) |-> s[i]]
  BY DEF IsList
<1>2. DOMAIN s = 1 .. Len(s)
  BY <1>1
<1>3. s \in Seq({s[i] : i \in 1 .. Len(s)})
  BY <1>1, ListOf
<1>4. ToSet(s) = {s[i] : i \in 1 .. Len(s)}
  BY <1>2 DEF ToSet
<1>5. QED
  BY <1>1, <1>2, <1>3, <1>4

\* Whatever is in Seq is a list.
LEMMA SeqIsList ==
  ASSUME NEW S, NEW s \in Seq(S)
  PROVE  IsList(s) /\ ToSet(s) \subseteq S
BY DEF IsList, ToSet

\* Two lists, joined, are a list of the items of both.
LEMMA JoinedLists ==
  ASSUME NEW s, NEW t, IsList(s), IsList(t)
  PROVE  /\ IsList(s \o t)
         /\ ToSet(s \o t) = ToSet(s) \cup ToSet(t)
<1> DEFINE S == ToSet(s) \cup ToSet(t)
<1>1. s \in Seq(ToSet(s)) /\ t \in Seq(ToSet(t))
  BY ListItems
<1>2. s \in Seq(S) /\ t \in Seq(S)
  BY <1>1
<1> HIDE DEF S
<1>3. s \o t \in Seq(S) /\ ToSet(s \o t) = ToSet(s) \cup ToSet(t)
  BY <1>2, JoinedItems
<1>4. QED
  BY <1>3, SeqIsList

\* A list of lists, joined, is a list of the items of them all.
LEMMA FlattenLists ==
  ASSUME NEW n \in Nat, NEW seqs, seqs = [i \in 1 .. n |-> seqs[i]],
         \A i \in 1 .. n : IsList(seqs[i])
  PROVE  /\ IsList(FlattenSeq(seqs))
         /\ ToSet(FlattenSeq(seqs)) = UNION {ToSet(seqs[i]) : i \in 1 .. n}
<1> DEFINE S == UNION {ToSet(seqs[i]) : i \in 1 .. n}
<1>1. ASSUME NEW i \in 1 .. n PROVE seqs[i] \in Seq(S)
  <2>1. seqs[i] \in Seq(ToSet(seqs[i]))
    BY ListItems
  <2>2. ToSet(seqs[i]) \subseteq S
    OBVIOUS
  <2> HIDE DEF S
  <2>3. QED
    BY <2>1, <2>2
<1> HIDE DEF S
<1>2. FlattenSeq(seqs) \in Seq(S) /\ ToSet(FlattenSeq(seqs)) = UNION {ToSet(seqs[i]) : i \in 1 .. n}
  BY <1>1, FlattenItems
<1>3. QED
  BY <1>2, SeqIsList

\* What the lists up to a place are joined to depends on those lists only.
LEMMA JoinedAlike ==
  ASSUME NEW n \in Nat, NEW m \in 0 .. n, NEW seqs, NEW more, NEW f, NEW g,
         Joined(seqs, m, f), Joined(more, n, g), \A i \in 1 .. m : seqs[i] = more[i]
  PROVE  \A i \in 1 .. m : f[i] = g[i]
<1> DEFINE P == {k \in 0 .. m : k = 0 \/ f[k] = g[k]}
<1>1. \A i \in 1 .. m : f[i] = IF i = 1 THEN seqs[i] ELSE f[i - 1] \o seqs[i]
  BY DEF Joined
<1>2. \A i \in 1 .. n : g[i] = IF i = 1 THEN more[i] ELSE g[i - 1] \o more[i]
  BY DEF Joined
<1>3. 0 \in P
  OBVIOUS
<1>4. ASSUME NEW k \in 0 .. m - 1, k \in P PROVE k + 1 \in P
  <2>1. k + 1 \in 1 .. m /\ k + 1 \in 1 .. n /\ k + 1 \in 0 .. m /\ (k + 1) - 1 = k
    OBVIOUS
  <2>2. seqs[k + 1] = more[k + 1]
    BY <2>1
  <2>3. f[k + 1] = IF k + 1 = 1 THEN seqs[k + 1] ELSE f[k] \o seqs[k + 1]
    BY <1>1, <2>1
  <2>4. g[k + 1] = IF k + 1 = 1 THEN more[k + 1] ELSE g[k] \o more[k + 1]
    BY <1>2, <2>1
  <2>5. k + 1 = 1 \/ f[k] = g[k]
    BY <1>4
  <2>6. f[k + 1] = g[k + 1]
    BY <2>2, <2>3, <2>4, <2>5
  <2>7. QED
    BY <2>1, <2>6
<1> HIDE DEF P
<1>5. 0 .. m \subseteq P
  BY <1>3, <1>4, UpTo
<1>6. QED
  BY <1>5 DEF P

\* The first items of a list.
Prefix(s, m) == [i \in 1 .. m |-> s[i]]

\* Appending to a list.
LEMMA Appended ==
  ASSUME NEW s, IsList(s), NEW x
  PROVE  /\ IsList(Append(s, x))
         /\ Len(Append(s, x)) = Len(s) + 1
         /\ DOMAIN Append(s, x) = 1 .. Len(s) + 1
         /\ Append(s, x)[Len(s) + 1] = x
         /\ \A i \in 1 .. Len(s) : Append(s, x)[i] = s[i]
         /\ ToSet(Append(s, x)) = ToSet(s) \cup {x}
         /\ Append(s, x) = s \o <<x>>
<1> DEFINE S == ToSet(s) \cup {x}
<1>1. s \in Seq(ToSet(s)) /\ x \in S /\ Len(s) \in Nat
  BY ListItems
<1>2. s \in Seq(S) /\ <<x>> \in Seq(S)
  BY <1>1
<1> HIDE DEF S
<1>3. /\ Append(s, x) \in Seq(S) /\ Len(Append(s, x)) = Len(s) + 1
      /\ Append(s, x)[Len(s) + 1] = x /\ \A i \in 1 .. Len(s) : Append(s, x)[i] = s[i]
      /\ Append(s, x) = s \o <<x>>
  BY <1>1, <1>2
<1>4. IsList(Append(s, x)) /\ DOMAIN Append(s, x) = 1 .. Len(s) + 1
  BY <1>1, <1>3, SeqIsList, ListItems
<1>5. ToSet(<<x>>) = {x} /\ IsList(<<x>>)
  BY DEF ToSet, IsList
<1>6. ToSet(Append(s, x)) = ToSet(s) \cup {x}
  BY <1>3, <1>5, JoinedLists
<1>7. QED
  BY <1>3, <1>4, <1>6

\* A list grows from the empty one, one item after the other.
LEMMA PrefixesGrow ==
  ASSUME NEW s, IsList(s)
  PROVE  /\ Prefix(s, 0) = <<>>
         /\ Prefix(s, Len(s)) = s
         /\ \A m \in 0 .. Len(s) - 1 : Prefix(s, m + 1) = Append(Prefix(s, m), s[m + 1])
         /\ \A m \in 0 .. Len(s) : IsList(Prefix(s, m)) /\ Len(Prefix(s, m)) = m
<1>1. Len(s) \in Nat /\ s = [i \in 1 .. Len(s) |-> s[i]]
  BY DEF IsList
<1>2. Prefix(s, 0) = <<>>
  BY DEF Prefix
<1>3. ASSUME NEW m \in 0 .. Len(s)
      PROVE  IsList(Prefix(s, m)) /\ Len(Prefix(s, m)) = m
  <2>1. Prefix(s, m) = [i \in 1 .. m |-> Prefix(s, m)[i]] /\ m \in Nat
    BY <1>1 DEF Prefix
  <2>2. QED
    BY <2>1, ListOf
<1>4. ASSUME NEW m \in 0 .. Len(s) - 1
      PROVE  Prefix(s, m + 1) = Append(Prefix(s, m), s[m + 1])
  <2>1. m \in 0 .. Len(s) /\ m \in Nat
    BY <1>1
  <2>2. IsList(Prefix(s, m)) /\ Len(Prefix(s, m)) = m
    BY <1>3, <2>1
  <2>3. \A i \in 1 .. m : Prefix(s, m)[i] = s[i]
    BY DEF Prefix
  <2> DEFINE w == Prefix(s, m)
             x == s[m + 1]
  <2> HIDE DEF w, x
  <2>5. /\ Append(w, x) = [i \in 1 .. m + 1 |-> Append(w, x)[i]]
        /\ Append(w, x)[m + 1] = x /\ \A i \in 1 .. m : Append(w, x)[i] = w[i]
    <3>1. IsList(w) /\ Len(w) = m
      BY <2>2 DEF w
    <3>2. /\ IsList(Append(w, x)) /\ Len(Append(w, x)) = m + 1
          /\ Append(w, x)[m + 1] = x /\ \A i \in 1 .. m : Append(w, x)[i] = w[i]
      BY <3>1, Appended
    <3>3. Append(w, x) = [i \in 1 .. m + 1 |-> Append(w, x)[i]]
      BY <3>2 DEF IsList
    <3>4. QED
      BY <3>2, <3>3
  <2>6. \A i \in 1 .. m + 1 : Append(w, x)[i] = s[i]
    BY <2>1, <2>3, <2>5 DEF w, x
  <2>7. Append(w, x) = [i \in 1 .. m + 1 |-> s[i]]
    BY <2>5, <2>6
  <2>8. QED
    BY <2>7 DEF Prefix, w, x
<1>5. Prefix(s, Len(s)) = s
  BY <1>1 DEF Prefix
<1>6. QED
  BY <1>2, <1>3, <1>4, <1>5

\* The lists of a list and one more, joined.
LEMMA FlattenAppend ==
  ASSUME NEW seqs, IsList(seqs), NEW last, IsList(last),
         \A i \in 1 .. Len(seqs) : IsList(seqs[i])
  PROVE  FlattenSeq(Append(seqs, last)) = FlattenSeq(seqs) \o last
<1> DEFINE n == Len(seqs)
           more == Append(seqs, last)
           f == CHOOSE h : Joined(seqs, n, h)
           g == CHOOSE h : Joined(more, n + 1, h)
<1>1. n \in Nat /\ Len(more) = n + 1 /\ more[n + 1] = last /\ \A i \in 1 .. n : seqs[i] = more[i]
  BY ListItems, Appended
<1>2. Joined(seqs, n, f) /\ Joined(more, n + 1, g)
  <2> HIDE DEF n, more
  <2>1. \E h : Joined(seqs, n, h)
    BY <1>1, JoinIsDefined, Zenon
  <2>2. \E h : Joined(more, n + 1, h)
    <3>1. n + 1 \in Nat
      BY <1>1
    <3>2. QED
      BY <3>1, JoinIsDefined, Zenon
  <2>3. QED
    BY <2>1, <2>2
<1>3. FlattenSeq(seqs) = IF n = 0 THEN seqs ELSE f[n]
  BY <1>1 DEF FlattenSeq, Joined
<1>4. FlattenSeq(more) = g[n + 1]
  <2> HIDE DEF n, more
  <2>1. Len(more) # 0 /\ Len(more) = n + 1
    BY <1>1
  <2>2. QED
    BY <2>1 DEF FlattenSeq, Joined
<1> HIDE DEF f, g, more, n
<1>5. g[n + 1] = IF n + 1 = 1 THEN more[n + 1] ELSE g[(n + 1) - 1] \o more[n + 1]
  <2>1. \A i \in 1 .. n + 1 : g[i] = IF i = 1 THEN more[i] ELSE g[i - 1] \o more[i]
    BY <1>2 DEF Joined
  <2>2. n + 1 \in 1 .. n + 1
    BY <1>1
  <2>3. QED
    BY <2>1, <2>2, Zenon
<1>6. CASE n = 0
  <2>1. seqs = <<>>
    BY <1>6 DEF n, IsList
  <2>2. last \in Seq(ToSet(last))
    BY ListItems
  <2>3. <<>> \o last = last
    BY <2>2
  <2>4. g[n + 1] = last
    BY <1>1, <1>5, <1>6
  <2>5. QED
    BY <1>3, <1>4, <1>6, <2>1, <2>3, <2>4 DEF more
<1>7. CASE n # 0
  <2>1. n \in 0 .. n + 1 /\ n + 1 \in Nat /\ n \in 1 .. n /\ n + 1 # 1 /\ (n + 1) - 1 = n
    BY <1>1, <1>7
  <2>2. \A i \in 1 .. n : f[i] = g[i]
    BY <1>1, <1>2, <2>1, JoinedAlike
  <2>3. g[n] = f[n]
    BY <2>1, <2>2
  <2>4. g[n + 1] = g[n] \o last
    BY <1>1, <1>5, <2>1
  <2>5. QED
    BY <1>3, <1>4, <1>7, <2>3, <2>4 DEF more
<1>8. QED
  BY <1>6, <1>7

-----------------------------------------------------------------------------
\* The lists of a list, joined one after the other.
LEMMA FlattenGrows ==
  ASSUME NEW seqs, IsList(seqs), \A i \in 1 .. Len(seqs) : IsList(seqs[i])
  PROVE  /\ FlattenSeq(Prefix(seqs, 0)) = <<>>
         /\ FlattenSeq(Prefix(seqs, Len(seqs))) = FlattenSeq(seqs)
         /\ \A m \in 0 .. Len(seqs) - 1 :
              FlattenSeq(Prefix(seqs, m + 1)) = FlattenSeq(Prefix(seqs, m)) \o seqs[m + 1]
         /\ \A m \in 0 .. Len(seqs) :
              /\ IsList(FlattenSeq(Prefix(seqs, m)))
              /\ ToSet(FlattenSeq(Prefix(seqs, m))) = UNION {ToSet(seqs[i]) : i \in 1 .. m}
<1>0. Len(seqs) \in Nat
  BY DEF IsList
<1>1. FlattenSeq(Prefix(seqs, 0)) = <<>>
  <2>1. Prefix(seqs, 0) = <<>>
    BY PrefixesGrow
  <2>2. Len(<<>>) = 0
    OBVIOUS
  <2>3. QED
    BY <2>1, <2>2 DEF FlattenSeq
<1>2. FlattenSeq(Prefix(seqs, Len(seqs))) = FlattenSeq(seqs)
  BY PrefixesGrow
<1>3. ASSUME NEW m \in 0 .. Len(seqs)
      PROVE  /\ IsList(FlattenSeq(Prefix(seqs, m)))
             /\ ToSet(FlattenSeq(Prefix(seqs, m))) = UNION {ToSet(seqs[i]) : i \in 1 .. m}
  <2> DEFINE w == Prefix(seqs, m)
  <2>1. w = [i \in 1 .. m |-> w[i]] /\ m \in Nat
    BY <1>0 DEF Prefix
  <2>2. \A i \in 1 .. m : w[i] = seqs[i] /\ IsList(w[i])
    BY <1>0 DEF Prefix
  <2> HIDE DEF w
  <2>3. IsList(FlattenSeq(w)) /\ ToSet(FlattenSeq(w)) = UNION {ToSet(w[i]) : i \in 1 .. m}
    BY <2>1, <2>2, FlattenLists
  <2>4. UNION {ToSet(w[i]) : i \in 1 .. m} = UNION {ToSet(seqs[i]) : i \in 1 .. m}
    BY <2>2
  <2>5. QED
    BY <2>3, <2>4 DEF w
<1>4. ASSUME NEW m \in 0 .. Len(seqs) - 1
      PROVE  FlattenSeq(Prefix(seqs, m + 1)) = FlattenSeq(Prefix(seqs, m)) \o seqs[m + 1]
  <2>1. m \in 0 .. Len(seqs) /\ m + 1 \in 1 .. Len(seqs)
    BY <1>0
  <2>2. IsList(Prefix(seqs, m)) /\ Len(Prefix(seqs, m)) = m
    BY <2>1, PrefixesGrow
  <2>3. Prefix(seqs, m + 1) = Append(Prefix(seqs, m), seqs[m + 1])
    BY PrefixesGrow
  <2>4. \A i \in 1 .. m : IsList(Prefix(seqs, m)[i])
    BY <1>0 DEF Prefix
  <2>5. IsList(seqs[m + 1])
    BY <2>1
  <2>6. QED
    BY <2>2, <2>3, <2>4, <2>5, FlattenAppend
<1>5. QED
  BY <1>1, <1>2, <1>3, <1>4

\* The items of a list, each replaced by a list of its own.
Spread(u, H) == FlattenSeq([k \in DOMAIN u |-> H[u[k]]])

\* How a spread list grows with its items.
LEMMA SpreadAppend ==
  ASSUME NEW u, IsList(u), NEW H, NEW x, IsList(H[x]), \A y \in ToSet(u) : IsList(H[y])
  PROVE  Spread(Append(u, x), H) = Spread(u, H) \o H[x]
<1> DEFINE n == Len(u)
           v == Append(u, x)
           a == [k \in DOMAIN u |-> H[u[k]]]
           b == [k \in DOMAIN v |-> H[v[k]]]
<1>1. /\ n \in Nat /\ DOMAIN u = 1 .. n
      /\ DOMAIN v = 1 .. n + 1 /\ v[n + 1] = x /\ \A i \in 1 .. n : v[i] = u[i]
  BY ListItems, Appended
<1> HIDE DEF v, n
<1>2. a = [k \in 1 .. n |-> a[k]] /\ \A k \in 1 .. n : a[k] = H[u[k]] /\ IsList(a[k])
  <2>1. \A k \in 1 .. n : u[k] \in ToSet(u)
    BY <1>1, ListItems DEF n
  <2>2. QED
    BY <1>1, <2>1
<1>3. b = [k \in 1 .. n + 1 |-> b[k]] /\ b[n + 1] = H[x] /\ \A k \in 1 .. n : b[k] = H[u[k]]
  BY <1>1
<1>4. IsList(a) /\ Len(a) = n
  <2> HIDE DEF a
  <2>1. QED
    BY <1>1, <1>2, ListOf
<1>5. b = Append(a, H[x])
  <2> DEFINE c == Append(a, H[x])
  <2> HIDE DEF a, b
  <2>1. /\ IsList(c) /\ Len(c) = n + 1 /\ c[n + 1] = H[x] /\ \A k \in 1 .. n : c[k] = a[k]
    BY <1>4, Appended
  <2> HIDE DEF c
  <2>2. c = [k \in 1 .. n + 1 |-> c[k]]
    BY <2>1 DEF IsList
  <2>3. \A k \in 1 .. n + 1 : b[k] = c[k]
    <3>1. \A k \in 1 .. n : b[k] = c[k]
      BY <1>2, <1>3, <2>1
    <3>2. \A k \in 1 .. n + 1 : k = n + 1 \/ k \in 1 .. n
      BY <1>1
    <3>3. QED
      BY <1>3, <2>1, <3>1, <3>2
  <2>4. QED
    BY <1>3, <2>2, <2>3 DEF c
<1>6. FlattenSeq(Append(a, H[x])) = FlattenSeq(a) \o H[x]
  <2> HIDE DEF a
  <2>1. \A i \in 1 .. Len(a) : IsList(a[i])
    BY <1>2, <1>4
  <2>2. QED
    BY <1>4, <2>1, FlattenAppend
<1>7. QED
  BY <1>5, <1>6 DEF Spread, v

\* What is in a spread list.
LEMMA SpreadItems ==
  ASSUME NEW u, IsList(u), NEW H, \A y \in ToSet(u) : IsList(H[y])
  PROVE  /\ IsList(Spread(u, H))
         /\ ToSet(Spread(u, H)) = UNION {ToSet(H[y]) : y \in ToSet(u)}
<1> DEFINE n == Len(u)
           a == [k \in DOMAIN u |-> H[u[k]]]
<1>1. n \in Nat /\ DOMAIN u = 1 .. n /\ \A y : y \in ToSet(u) <=> \E i \in 1 .. n : y = u[i]
  BY ListItems
<1> HIDE DEF n
<1>2. a = [k \in 1 .. n |-> a[k]] /\ \A k \in 1 .. n : a[k] = H[u[k]] /\ IsList(a[k])
  BY <1>1
<1> HIDE DEF a
<1>3. IsList(FlattenSeq(a)) /\ ToSet(FlattenSeq(a)) = UNION {ToSet(a[k]) : k \in 1 .. n}
  BY <1>1, <1>2, FlattenLists
<1>4. UNION {ToSet(a[k]) : k \in 1 .. n} = UNION {ToSet(H[y]) : y \in ToSet(u)}
  BY <1>1, <1>2
<1>5. QED
  BY <1>3, <1>4 DEF Spread, a

\* Nothing comes of nothing.
LEMMA SpreadNothing == \A H : Spread(<<>>, H) = <<>>
<1>1. ASSUME NEW H PROVE Spread(<<>>, H) = <<>>
  <2>1. [k \in DOMAIN <<>> |-> H[<<>>[k]]] = <<>>
    OBVIOUS
  <2>2. Len(<<>>) = 0
    OBVIOUS
  <2>3. QED
    BY <2>1, <2>2 DEF Spread, FlattenSeq
<1>2. QED
  BY <1>1

-----------------------------------------------------------------------------
\* At most one item.
AtMostOne(s) == s = <<>> \/ \E x : s = <<x>>

\* A list of at most one item is a list.
LEMMA AtMostOneIsList ==
  ASSUME NEW s, AtMostOne(s)
  PROVE  IsList(s)
<1>1. IsList(<<>>)
  BY DEF IsList
<1>2. \A x : IsList(<<x>>)
  BY DEF IsList
<1>3. QED
  BY <1>1, <1>2 DEF AtMostOne

\* The items that are in a set of places.
Picked(items, places) ==
  FlattenSeq([i \in DOMAIN items |-> IF i \in places THEN <<items[i]>> ELSE <<>>])

\* What is picked of a list are its items at the places; and no two are the same if no
\* two of the list at those places are.
LEMMA PickedItems ==
  ASSUME NEW items, IsList(items), NEW places
  PROVE  /\ IsList(Picked(items, places))
         /\ \A x : x \in ToSet(Picked(items, places))
                     <=> \E i \in 1 .. Len(items) : i \in places /\ x = items[i]
         /\ (\A i, j \in 1 .. Len(items) :
               i \in places /\ j \in places /\ items[i] = items[j] => i = j)
              => IsInjective(Picked(items, places))
<1> DEFINE n == Len(items)
           seqs == [i \in DOMAIN items |-> IF i \in places THEN <<items[i]>> ELSE <<>>]
           F(m) == FlattenSeq(Prefix(seqs, m))
           Differ == \A i, j \in 1 .. n : i \in places /\ j \in places /\ items[i] = items[j] => i = j
           P == {m \in 0 .. n : Differ => IsInjective(F(m))}
<1>1. n \in Nat /\ DOMAIN items = 1 .. n
  BY ListItems
<1>2. /\ seqs = [i \in 1 .. n |-> seqs[i]]
      /\ \A i \in 1 .. n : seqs[i] = IF i \in places THEN <<items[i]>> ELSE <<>>
  BY <1>1
<1> HIDE DEF n, seqs
<1>3. IsList(seqs) /\ Len(seqs) = n
  BY <1>1, <1>2, ListOf
<1>4. \A i \in 1 .. n : IsList(seqs[i]) /\ ToSet(seqs[i]) = IF i \in places THEN {items[i]} ELSE {}
  <2>1. IsList(<<>>) /\ ToSet(<<>>) = {}
    BY DEF IsList, ToSet
  <2>2. \A x : IsList(<<x>>) /\ ToSet(<<x>>) = {x}
    BY DEF IsList, ToSet
  <2>3. QED
    BY <1>2, <2>1, <2>2
<1>5. /\ F(0) = <<>> /\ F(n) = FlattenSeq(seqs)
      /\ \A m \in 0 .. n - 1 : F(m + 1) = F(m) \o seqs[m + 1]
      /\ \A m \in 0 .. n : /\ IsList(F(m))
                           /\ ToSet(F(m)) = UNION {ToSet(seqs[i]) : i \in 1 .. m}
  <2>1. \A i \in 1 .. Len(seqs) : IsList(seqs[i])
    BY <1>3, <1>4
  <2>2. QED
    BY <1>3, <2>1, FlattenGrows
<1> HIDE DEF F
<1>6. 0 \in P
  <2>1. IsInjective(<<>>)
    BY DEF IsInjective
  <2>2. QED
    BY <1>1, <1>5, <2>1
<1>7. ASSUME NEW m \in 0 .. n - 1, m \in P PROVE m + 1 \in P
  <2>1. m + 1 \in 1 .. n /\ m + 1 \in 0 .. n /\ m \in 0 .. n /\ m \in Nat
    BY <1>1
  <2> SUFFICES ASSUME Differ PROVE IsInjective(F(m + 1))
    BY <2>1
  <2>2. IsInjective(F(m))
    BY <1>7
  <2>3. F(m + 1) = F(m) \o seqs[m + 1]
    BY <1>5
  <2>4. CASE m + 1 \notin places
    <3>1. seqs[m + 1] = <<>>
      BY <1>2, <2>1, <2>4
    <3>2. F(m) \in Seq(ToSet(F(m)))
      BY <1>5, <2>1, ListItems
    <3>3. F(m) \o <<>> = F(m)
      BY <3>2
    <3>4. QED
      BY <2>2, <2>3, <3>1, <3>3
  <2>5. CASE m + 1 \in places
    <3> DEFINE x == items[m + 1]
               w == F(m)
    <3>1. seqs[m + 1] = <<x>>
      BY <1>2, <2>1, <2>5
    <3>2. x \notin ToSet(w)
      <4>1. SUFFICES ASSUME x \in ToSet(w) PROVE FALSE
        OBVIOUS
      <4>2. PICK i \in 1 .. m : x \in ToSet(seqs[i])
        BY <1>5, <2>1, <4>1
      <4>3. i \in 1 .. n /\ i # m + 1
        BY <1>1, <2>1
      <4>4. i \in places /\ items[i] = x
        BY <1>4, <4>2, <4>3
      <4>5. QED
        BY <2>1, <2>5, <4>3, <4>4
    <3>3. IsList(w)
      BY <1>5, <2>1
    <3> HIDE DEF x, w
    <3>4. /\ DOMAIN Append(w, x) = 1 .. Len(w) + 1 /\ Append(w, x)[Len(w) + 1] = x
          /\ \A i \in 1 .. Len(w) : Append(w, x)[i] = w[i]
          /\ Append(w, x) = w \o <<x>>
      BY <3>3, Appended
    <3>5. /\ Len(w) \in Nat /\ DOMAIN w = 1 .. Len(w)
          /\ \A i \in 1 .. Len(w) : w[i] # x
      BY <3>2, <3>3, ListItems
    <3>6. \A i \in 1 .. Len(w) + 1 : i = Len(w) + 1 \/ i \in 1 .. Len(w)
      BY <3>5
    <3>7. \A i, j \in 1 .. Len(w) : w[i] = w[j] => i = j
      BY <2>2, <3>5 DEF w, IsInjective
    <3>8. IsInjective(Append(w, x))
      <4> SUFFICES ASSUME NEW i \in 1 .. Len(w) + 1, NEW j \in 1 .. Len(w) + 1,
                          Append(w, x)[i] = Append(w, x)[j]
                   PROVE  i = j
        BY <3>4 DEF IsInjective
      <4>1. CASE i = Len(w) + 1
        BY <3>4, <3>5, <3>6, <4>1
      <4>2. CASE j = Len(w) + 1
        BY <3>4, <3>5, <3>6, <4>2
      <4>3. CASE i \in 1 .. Len(w) /\ j \in 1 .. Len(w)
        BY <3>4, <3>7, <4>3
      <4>4. QED
        BY <3>6, <4>1, <4>2, <4>3
    <3>9. QED
      BY <2>3, <3>1, <3>4, <3>8 DEF w
  <2>6. QED
    BY <2>4, <2>5
<1> HIDE DEF P
<1>8. 0 .. n \subseteq P
  BY <1>1, <1>6, <1>7, UpTo
<1>9. Differ => IsInjective(F(n))
  BY <1>1, <1>8 DEF P
<1>10. n \in 0 .. n
  BY <1>1
<1>11. IsList(F(n)) /\ ToSet(F(n)) = UNION {ToSet(seqs[i]) : i \in 1 .. n}
  BY <1>5, <1>10
<1>12. \A x : x \in ToSet(F(n)) <=> \E i \in 1 .. n : i \in places /\ x = items[i]
  <2> TAKE x
  <2>1. x \in ToSet(F(n)) <=> \E i \in 1 .. n : x \in ToSet(seqs[i])
    BY <1>11
  <2>2. \A i \in 1 .. n : x \in ToSet(seqs[i]) <=> (i \in places /\ x = items[i])
    BY <1>4
  <2>3. QED
    BY <2>1, <2>2
<1>13. Picked(items, places) = F(n)
  BY <1>5 DEF Picked, seqs
<1>14. QED
  BY <1>9, <1>11, <1>12, <1>13 DEF n

-----------------------------------------------------------------------------
\* The empty list adds nothing.
LEMMA JoinNothing ==
  ASSUME NEW s, IsList(s)
  PROVE  s \o <<>> = s /\ <<>> \o s = s
<1>1. s \in Seq(ToSet(s))
  BY ListItems
<1>2. QED
  BY <1>1

\* An item seen before adds nothing to the distinct items of a list; any other is
\* their last.
LEMMA DistinctAppend ==
  ASSUME NEW w, IsList(w), NEW x
  PROVE  /\ x \in ToSet(w) => Distinct(Append(w, x)) = Distinct(w)
         /\ x \notin ToSet(w) => Distinct(Append(w, x)) = Append(Distinct(w), x)
         /\ IsList(Distinct(w)) /\ ToSet(Distinct(w)) \subseteq ToSet(w)
<1> DEFINE n == Len(w)
           v == Append(w, x)
           IsSeen(u, i) == \E j \in 1 .. i - 1 : u[j] = u[i]
           Kept(u) == [i \in DOMAIN u |-> IF IsSeen(u, i) THEN <<>> ELSE <<u[i]>>]
           a == Kept(w)
           b == Kept(v)
           last == IF x \in ToSet(w) THEN <<>> ELSE <<x>>
<1>1. /\ n \in Nat /\ DOMAIN w = 1 .. n
      /\ DOMAIN v = 1 .. n + 1 /\ v[n + 1] = x /\ \A i \in 1 .. n : v[i] = w[i]
  BY ListItems, Appended
<1>2. \A y : y \in ToSet(w) <=> \E i \in 1 .. n : y = w[i]
  BY ListItems
<1>3. Distinct(w) = FlattenSeq(a) /\ Distinct(v) = FlattenSeq(b)
  BY DEF Distinct
<1> HIDE DEF v, n
<1>4. /\ a = [i \in 1 .. n |-> a[i]]
      /\ \A i \in 1 .. n : a[i] = IF IsSeen(w, i) THEN <<>> ELSE <<w[i]>>
  BY <1>1
<1>5. /\ b = [i \in 1 .. n + 1 |-> b[i]]
      /\ \A i \in 1 .. n + 1 : b[i] = IF IsSeen(v, i) THEN <<>> ELSE <<v[i]>>
  BY <1>1
<1>6. \A i \in 1 .. n : IsSeen(w, i) <=> IsSeen(v, i)
  BY <1>1
<1>7. IsSeen(v, n + 1) <=> x \in ToSet(w)
  <2>1. (n + 1) - 1 = n
    BY <1>1
  <2>2. QED
    BY <1>1, <1>2, <2>1
<1> HIDE DEF IsSeen, a, b
<1>8. /\ \A i \in 1 .. n : b[i] = a[i]
      /\ b[n + 1] = last
  <2>1. n + 1 \in 1 .. n + 1 /\ \A i \in 1 .. n : i \in 1 .. n + 1
    BY <1>1
  <2>2. QED
    BY <1>1, <1>4, <1>5, <1>6, <1>7, <2>1
<1>9. IsList(a) /\ Len(a) = n
  BY <1>1, <1>4, ListOf
<1>10. b = Append(a, last)
  <2> DEFINE c == Append(a, last)
  <2>1. /\ IsList(c) /\ Len(c) = n + 1 /\ c[n + 1] = last /\ \A k \in 1 .. n : c[k] = a[k]
    <3> HIDE DEF last
    <3>1. QED
      BY <1>9, Appended
  <2> HIDE DEF c, last
  <2>2. c = [k \in 1 .. n + 1 |-> c[k]]
    BY <2>1 DEF IsList
  <2>3. \A k \in 1 .. n + 1 : k = n + 1 \/ k \in 1 .. n
    BY <1>1
  <2>4. \A k \in 1 .. n + 1 : b[k] = c[k]
    BY <1>8, <2>1, <2>3
  <2>5. QED
    BY <1>5, <2>2, <2>4 DEF c
<1>11. \A i \in 1 .. Len(a) : IsList(a[i])
  <2>1. \A i \in 1 .. n : AtMostOne(a[i])
    BY <1>4 DEF AtMostOne
  <2>2. QED
    BY <1>9, <2>1, AtMostOneIsList
<1>12. IsList(FlattenSeq(a)) /\ ToSet(FlattenSeq(a)) \subseteq ToSet(w)
  <2>1. IsList(FlattenSeq(a)) /\ ToSet(FlattenSeq(a)) = UNION {ToSet(a[i]) : i \in 1 .. n}
    BY <1>1, <1>4, <1>9, <1>11, FlattenLists
  <2>2. \A i \in 1 .. n : ToSet(a[i]) \subseteq ToSet(w)
    <3>1. ToSet(<<>>) = {} /\ \A y : ToSet(<<y>>) = {y}
      BY DEF ToSet
    <3>2. QED
      BY <1>2, <1>4, <3>1
  <2>3. QED
    BY <2>1, <2>2
<1>13. FlattenSeq(b) = FlattenSeq(a) \o last
  <2>1. IsList(last)
    BY AtMostOneIsList DEF AtMostOne
  <2> HIDE DEF last
  <2>2. QED
    BY <1>9, <1>10, <1>11, <2>1, FlattenAppend
<1>14. FlattenSeq(a) \o <<>> = FlattenSeq(a) /\ Append(FlattenSeq(a), x) = FlattenSeq(a) \o <<x>>
  BY <1>12, JoinNothing, Appended
<1>15. QED
  BY <1>3, <1>12, <1>13, <1>14 DEF v

\* The distinct items of a list are its items.
LEMMA DistinctItems ==
  ASSUME NEW w, IsList(w)
  PROVE  IsList(Distinct(w)) /\ ToSet(Distinct(w)) = ToSet(w)
<1> DEFINE n == Len(w)
           P == {m \in 0 .. n : ToSet(Distinct(Prefix(w, m))) = ToSet(Prefix(w, m))}
<1>1. n \in Nat
  BY DEF IsList
<1>2. IsList(<<>>) /\ ToSet(<<>>) = {}
  BY DEF IsList, ToSet
<1>3. 0 \in P
  <2>1. ToSet(Distinct(<<>>)) \subseteq {}
    BY <1>2, DistinctAppend
  <2>2. Prefix(w, 0) = <<>>
    BY PrefixesGrow
  <2>3. ToSet(Distinct(Prefix(w, 0))) = ToSet(Prefix(w, 0))
    BY <1>2, <2>1, <2>2
  <2>4. 0 \in 0 .. n
    BY <1>1
  <2>5. QED
    BY <2>3, <2>4
<1>4. ASSUME NEW m \in 0 .. n - 1, m \in P PROVE m + 1 \in P
  <2> DEFINE u == Prefix(w, m)
             x == w[m + 1]
  <2>1. m \in 0 .. n /\ m + 1 \in 0 .. n
    BY <1>1
  <2>2. Prefix(w, m + 1) = Append(u, x) /\ IsList(u)
    BY <2>1, PrefixesGrow
  <2>3. ToSet(Distinct(u)) = ToSet(u)
    BY <1>4
  <2> HIDE DEF u, x
  <2>4. ToSet(Append(u, x)) = ToSet(u) \cup {x}
    BY <2>2, Appended
  <2>5. /\ x \in ToSet(u) => Distinct(Append(u, x)) = Distinct(u)
        /\ x \notin ToSet(u) => Distinct(Append(u, x)) = Append(Distinct(u), x)
        /\ IsList(Distinct(u))
    BY <2>2, DistinctAppend
  <2>6. ToSet(Append(Distinct(u), x)) = ToSet(Distinct(u)) \cup {x}
    BY <2>5, Appended
  <2>7. ToSet(Distinct(Append(u, x))) = ToSet(Append(u, x))
    BY <2>3, <2>4, <2>5, <2>6
  <2>8. QED
    BY <2>1, <2>2, <2>7
<1> HIDE DEF P
<1>5. 0 .. n \subseteq P
  BY <1>1, <1>3, <1>4, UpTo
<1>6. n \in P
  BY <1>1, <1>5
<1>7. Prefix(w, n) = w
  BY PrefixesGrow
<1>8. QED
  BY <1>6, <1>7, DistinctAppend DEF P

\* Spreading the distinct items of a list gives the same distinct items as spreading
\* them all.
LEMMA DistinctSpread ==
  ASSUME NEW u, IsList(u), NEW H, \A x \in ToSet(u) : AtMostOne(H[x])
  PROVE  Distinct(Spread(Distinct(u), H)) = Distinct(Spread(u, H))
<1> DEFINE n == Len(u)
           W(m) == Prefix(u, m)
           P == {m \in 0 .. n : Distinct(Spread(Distinct(W(m)), H)) = Distinct(Spread(W(m), H))}
<1>1. n \in Nat
  BY DEF IsList
<1>2. IsList(<<>>) /\ ToSet(<<>>) = {} /\ Distinct(<<>>) = <<>>
  <2>1. IsList(<<>>) /\ ToSet(<<>>) = {}
    BY DEF IsList, ToSet
  <2>2. IsList(Distinct(<<>>)) /\ ToSet(Distinct(<<>>)) = {}
    BY <2>1, DistinctItems
  <2> DEFINE d == Distinct(<<>>)
  <2> HIDE DEF d
  <2>3. Len(d) \in Nat /\ (Len(d) = 0 \/ 1 \in 1 .. Len(d)) /\ d = [i \in 1 .. Len(d) |-> d[i]]
    BY <2>2 DEF d, IsList
  <2>4. ~(1 \in 1 .. Len(d))
    BY <2>2, ListItems DEF d
  <2>5. d = <<>>
    BY <2>3, <2>4
  <2>6. QED
    BY <2>1, <2>5 DEF d
<1>3. W(0) = <<>> /\ W(n) = u
  BY PrefixesGrow
<1>4. 0 \in P
  BY <1>1, <1>2, <1>3
<1>5. ASSUME NEW m \in 0 .. n - 1, m \in P PROVE m + 1 \in P
  <2> DEFINE w == W(m)
             x == u[m + 1]
             d == Distinct(w)
             s == Spread(w, H)
             t == Spread(d, H)
  <2>1. m \in 0 .. n /\ m + 1 \in 0 .. n /\ m + 1 \in 1 .. n
    BY <1>1
  <2>2. W(m + 1) = Append(w, x) /\ IsList(w)
    BY <2>1, PrefixesGrow
  <2>3. x \in ToSet(u) /\ ToSet(w) \subseteq ToSet(u)
    <3>1. \A i \in 1 .. n : u[i] \in ToSet(u)
      BY ListItems
    <3>2. \A i \in DOMAIN w : w[i] \in ToSet(u)
      BY <1>1, <2>1, <3>1 DEF Prefix
    <3> HIDE DEF w
    <3>3. ToSet(w) \subseteq ToSet(u)
      BY <3>2 DEF ToSet
    <3>4. QED
      BY <2>1, <3>1, <3>3
  <2>4. Distinct(t) = Distinct(s)
    BY <1>5
  <2> HIDE DEF W, w, x
  <2>5. IsList(d) /\ ToSet(d) = ToSet(w)
    BY <2>2, DistinctItems
  <2>6. /\ x \in ToSet(w) => Distinct(Append(w, x)) = d
        /\ x \notin ToSet(w) => Distinct(Append(w, x)) = Append(d, x)
    BY <2>2, DistinctAppend
  <2> HIDE DEF d
  <2>7. IsList(H[x]) /\ \A y \in ToSet(w) : IsList(H[y])
    BY <2>3, AtMostOneIsList
  <2>8. Spread(Append(w, x), H) = s \o H[x] /\ Spread(Append(d, x), H) = t \o H[x]
    BY <2>2, <2>5, <2>7, SpreadAppend
  <2>9. /\ IsList(s) /\ ToSet(s) = UNION {ToSet(H[y]) : y \in ToSet(w)}
        /\ IsList(t) /\ ToSet(t) = UNION {ToSet(H[y]) : y \in ToSet(w)}
    BY <2>2, <2>5, <2>7, SpreadItems
  <2> HIDE DEF s, t
  <2>10. H[x] = <<>> \/ \E y : H[x] = <<y>>
    BY <2>3 DEF AtMostOne
  <2>11. Distinct(s \o H[x]) = Distinct(t \o H[x])
    <3>1. CASE H[x] = <<>>
      BY <2>4, <2>9, <3>1, JoinNothing
    <3>2. ASSUME NEW y, H[x] = <<y>> PROVE Distinct(s \o H[x]) = Distinct(t \o H[x])
      <4>1. s \o H[x] = Append(s, y) /\ t \o H[x] = Append(t, y)
        BY <2>9, <3>2, Appended
      <4>2. /\ y \in ToSet(s) => Distinct(Append(s, y)) = Distinct(s)
            /\ y \notin ToSet(s) => Distinct(Append(s, y)) = Append(Distinct(s), y)
        BY <2>9, DistinctAppend
      <4>3. /\ y \in ToSet(t) => Distinct(Append(t, y)) = Distinct(t)
            /\ y \notin ToSet(t) => Distinct(Append(t, y)) = Append(Distinct(t), y)
        BY <2>9, DistinctAppend
      <4>4. QED
        BY <2>4, <2>9, <4>1, <4>2, <4>3
    <3>3. QED
      BY <2>10, <3>1, <3>2
  <2>12. x \in ToSet(w) => Distinct(s \o H[x]) = Distinct(s)
    <3> SUFFICES ASSUME x \in ToSet(w) PROVE Distinct(s \o H[x]) = Distinct(s)
      OBVIOUS
    <3>1. CASE H[x] = <<>>
      BY <2>9, <3>1, JoinNothing
    <3>2. ASSUME NEW y, H[x] = <<y>> PROVE Distinct(s \o H[x]) = Distinct(s)
      <4>1. s \o H[x] = Append(s, y)
        BY <2>9, <3>2, Appended
      <4>2. y \in ToSet(s)
        <5>1. ToSet(<<y>>) = {y}
          BY DEF ToSet
        <5>2. y \in ToSet(H[x])
          BY <3>2, <5>1
        <5>3. QED
          BY <2>9, <5>2
      <4>3. QED
        BY <2>9, <4>1, <4>2, DistinctAppend
    <3>3. QED
      BY <2>10, <3>1, <3>2
  <2>13. Distinct(Spread(Distinct(Append(w, x)), H)) = Distinct(Spread(Append(w, x), H))
    <3>1. CASE x \in ToSet(w)
      <4>1. Spread(Distinct(Append(w, x)), H) = t
        BY <2>6, <3>1 DEF t
      <4>2. QED
        BY <2>4, <2>8, <2>12, <3>1, <4>1
    <3>2. CASE x \notin ToSet(w)
      <4>1. Spread(Distinct(Append(w, x)), H) = t \o H[x]
        BY <2>6, <2>8, <3>2
      <4>2. QED
        BY <2>8, <2>11, <4>1
    <3>3. QED
      BY <3>1, <3>2
  <2>14. QED
    BY <2>1, <2>2, <2>13
<1> HIDE DEF P
<1>6. 0 .. n \subseteq P
  BY <1>1, <1>4, <1>5, UpTo
<1>7. n \in P
  BY <1>1, <1>6
<1>8. QED
  BY <1>3, <1>7 DEF P

-----------------------------------------------------------------------------
\* Spreading what a list was spread to is spreading the list.
LEMMA SpreadTwice ==
  ASSUME NEW u, IsList(u), NEW F, NEW G, NEW H,
         \A x \in ToSet(u) : \/ F[x] = <<>> /\ G[x] = <<>>
                             \/ \E y : F[x] = <<y>> /\ IsList(H[y]) /\ G[x] = H[y]
  PROVE  Spread(Spread(u, F), H) = Spread(u, G)
<1> DEFINE n == Len(u)
           W(m) == Prefix(u, m)
           P == {m \in 0 .. n : Spread(Spread(W(m), F), H) = Spread(W(m), G)}
<1>1. n \in Nat
  BY DEF IsList
<1>2. W(0) = <<>> /\ W(n) = u
  BY PrefixesGrow
<1>3. \A x \in ToSet(u) : AtMostOne(F[x]) /\ IsList(G[x])
  <2>1. IsList(<<>>)
    BY DEF IsList
  <2>2. QED
    BY <2>1 DEF AtMostOne
<1>4. 0 \in P
  <2>1. Spread(Spread(W(0), F), H) = Spread(W(0), G)
    BY <1>2, SpreadNothing
  <2>2. 0 \in 0 .. n
    BY <1>1
  <2>3. QED
    BY <2>1, <2>2
<1>5. ASSUME NEW m \in 0 .. n - 1, m \in P PROVE m + 1 \in P
  <2> DEFINE w == W(m)
             x == u[m + 1]
             a == Spread(w, F)
  <2>1. m \in 0 .. n /\ m + 1 \in 0 .. n /\ m + 1 \in 1 .. n
    BY <1>1
  <2>2. W(m + 1) = Append(w, x) /\ IsList(w)
    BY <2>1, PrefixesGrow
  <2>3. x \in ToSet(u) /\ ToSet(w) \subseteq ToSet(u)
    <3>1. \A i \in 1 .. n : u[i] \in ToSet(u)
      BY ListItems
    <3>2. \A i \in DOMAIN w : w[i] \in ToSet(u)
      BY <1>1, <2>1, <3>1 DEF Prefix
    <3> HIDE DEF w
    <3>3. ToSet(w) \subseteq ToSet(u)
      BY <3>2 DEF ToSet
    <3>4. QED
      BY <2>1, <3>1, <3>3
  <2>4. Spread(a, H) = Spread(w, G)
    BY <1>5
  <2> HIDE DEF W, w, x
  <2>5. /\ IsList(F[x]) /\ IsList(G[x])
        /\ \A y \in ToSet(w) : AtMostOne(F[y]) /\ IsList(F[y]) /\ IsList(G[y])
    BY <1>3, <2>3, AtMostOneIsList
  <2>6. Spread(Append(w, x), F) = a \o F[x] /\ Spread(Append(w, x), G) = Spread(w, G) \o G[x]
    BY <2>2, <2>5, SpreadAppend
  <2>7. IsList(a) /\ ToSet(a) = UNION {ToSet(F[y]) : y \in ToSet(w)} /\ IsList(Spread(w, G))
    BY <2>2, <2>5, SpreadItems
  <2>8. \A z \in ToSet(a) : IsList(H[z])
    <3> SUFFICES ASSUME NEW z \in ToSet(a) PROVE IsList(H[z])
      OBVIOUS
    <3>1. PICK y \in ToSet(w) : z \in ToSet(F[y])
      BY <2>7
    <3>2. \/ F[y] = <<>>
          \/ \E q : F[y] = <<q>> /\ IsList(H[q])
      BY <2>3, <3>1
    <3>3. ToSet(<<>>) = {} /\ \A q : ToSet(<<q>>) = {q}
      BY DEF ToSet
    <3>4. CASE F[y] = <<>>
      BY <3>1, <3>3, <3>4
    <3>5. ASSUME NEW q, F[y] = <<q>>, IsList(H[q]) PROVE IsList(H[z])
      <4>1. z \in {q}
        BY <3>1, <3>3, <3>5
      <4>2. z = q
        BY <4>1
      <4>3. QED
        BY <3>5, <4>2
    <3>6. QED
      BY <3>2, <3>4, <3>5
  <2> HIDE DEF a
  <2>9. \/ F[x] = <<>> /\ G[x] = <<>>
        \/ \E y : F[x] = <<y>> /\ IsList(H[y]) /\ G[x] = H[y]
    BY <2>3
  <2>10. Spread(Spread(Append(w, x), F), H) = Spread(Append(w, x), G)
    <3>1. CASE F[x] = <<>> /\ G[x] = <<>>
      BY <2>4, <2>6, <2>7, <3>1, JoinNothing
    <3>2. ASSUME NEW y, F[x] = <<y>>, IsList(H[y]), G[x] = H[y]
          PROVE  Spread(Spread(Append(w, x), F), H) = Spread(Append(w, x), G)
      <4>1. a \o F[x] = Append(a, y)
        BY <2>7, <3>2, Appended
      <4>2. Spread(Append(a, y), H) = Spread(a, H) \o H[y]
        BY <2>7, <2>8, <3>2, SpreadAppend
      <4>3. QED
        BY <2>4, <2>6, <3>2, <4>1, <4>2
    <3>3. QED
      BY <2>9, <3>1, <3>2
  <2>11. QED
    BY <2>1, <2>2, <2>10
<1> HIDE DEF P
<1>6. 0 .. n \subseteq P
  BY <1>1, <1>4, <1>5, UpTo
<1>7. n \in P
  BY <1>1, <1>6
<1>8. QED
  BY <1>2, <1>7 DEF P

\* A list with each item replaced by one other.
LEMMA SpreadSingles ==
  ASSUME NEW u, IsList(u), NEW h, NEW H, \A x \in ToSet(u) : H[x] = <<h[x]>>
  PROVE  Spread(u, H) = [k \in DOMAIN u |-> h[u[k]]]
<1> DEFINE n == Len(u)
           W(m) == Prefix(u, m)
           V == [k \in 1 .. n |-> h[u[k]]]
           P == {m \in 0 .. n : Spread(W(m), H) = Prefix(V, m)}
<1>1. n \in Nat /\ DOMAIN u = 1 .. n
  BY ListItems
<1>2. V = [k \in 1 .. n |-> V[k]] /\ \A k \in 1 .. n : V[k] = h[u[k]]
  OBVIOUS
<1> HIDE DEF V
<1>3. IsList(V) /\ Len(V) = n
  BY <1>1, <1>2, ListOf
<1>4. W(0) = <<>> /\ W(n) = u /\ Prefix(V, 0) = <<>> /\ Prefix(V, n) = V
  BY <1>3, PrefixesGrow
<1>5. \A x \in ToSet(u) : IsList(H[x])
  <2>1. \A y : IsList(<<y>>)
    BY DEF IsList
  <2>2. QED
    BY <2>1
<1>6. 0 \in P
  <2>1. Spread(W(0), H) = Prefix(V, 0)
    BY <1>4, SpreadNothing
  <2>2. 0 \in 0 .. n
    BY <1>1
  <2>3. QED
    BY <2>1, <2>2
<1>7. ASSUME NEW m \in 0 .. n - 1, m \in P PROVE m + 1 \in P
  <2> DEFINE w == W(m)
             x == u[m + 1]
             a == Prefix(V, m)
  <2>1. m \in 0 .. n /\ m + 1 \in 0 .. n /\ m + 1 \in 1 .. n
    BY <1>1
  <2>2. W(m + 1) = Append(w, x) /\ IsList(w)
    BY <2>1, PrefixesGrow
  <2>3. Prefix(V, m + 1) = Append(a, V[m + 1]) /\ IsList(a)
    BY <1>3, <2>1, PrefixesGrow
  <2>4. x \in ToSet(u) /\ ToSet(w) \subseteq ToSet(u)
    <3>1. \A i \in 1 .. n : u[i] \in ToSet(u)
      BY ListItems
    <3>2. \A i \in DOMAIN w : w[i] \in ToSet(u)
      BY <1>1, <2>1, <3>1 DEF Prefix
    <3> HIDE DEF w
    <3>3. ToSet(w) \subseteq ToSet(u)
      BY <3>2 DEF ToSet
    <3>4. QED
      BY <2>1, <3>1, <3>3
  <2>5. Spread(w, H) = a
    BY <1>7
  <2>6. V[m + 1] = h[x]
    BY <1>2, <2>1
  <2> HIDE DEF W, w, x, a
  <2>7. Spread(Append(w, x), H) = Spread(w, H) \o H[x]
    BY <1>5, <2>2, <2>4, SpreadAppend
  <2>8. a \o <<h[x]>> = Append(a, h[x])
    BY <2>3, Appended
  <2>9. QED
    BY <2>1, <2>2, <2>3, <2>4, <2>5, <2>6, <2>7, <2>8
<1> HIDE DEF P
<1>8. 0 .. n \subseteq P
  BY <1>1, <1>6, <1>7, UpTo
<1>9. n \in P
  BY <1>1, <1>8
<1>10. Spread(u, H) = V
  BY <1>4, <1>9 DEF P
<1>11. QED
  BY <1>1, <1>10 DEF V

-----------------------------------------------------------------------------
\* The least of some places is one of them.
LEMMA LeastPlace ==
  ASSUME NEW I, I \subseteq Nat, I # {}
  PROVE  Min(I) \in I /\ \A i \in I : Min(I) <= i
<1>1. PICK m \in I : \A y \in I : ~(<<y, m>> \in OpToRel(<, Nat))
  BY NatLessThanWellFounded, WFMin
<1>2. ASSUME NEW y \in I PROVE m <= y
  <2>1. y \in Nat /\ m \in Nat
    OBVIOUS
  <2>2. ~(y < m)
    <3>1. ~(<<y, m>> \in OpToRel(<, Nat))
      BY <1>1
    <3>2. y < m => <<y, m>> \in OpToRel(<, Nat)
      BY <2>1 DEF OpToRel
    <3>3. QED
      BY <3>1, <3>2
  <2>3. QED
    BY <2>1, <2>2
<1>3. QED
  BY <1>2 DEF Min

\* The last block with an id.
BlockWith(items, id) == LastWith(items, LAMBDA b : b.id = id)

\* It is the only one if no two have one id.
LEMMA TheOneWithId ==
  ASSUME NEW items, IsList(items), NEW id,
         \A i, j \in 1 .. Len(items) : items[i].id = items[j].id => i = j
  PROVE  /\ \A i \in 1 .. Len(items) :
              items[i].id = id => BlockWith(items, id) = <<items[i]>>
         /\ (\A i \in 1 .. Len(items) : items[i].id # id)
              => BlockWith(items, id) = <<>>
<1>1. DOMAIN items = 1 .. Len(items) /\ Len(items) \in Nat
  BY ListItems
<1>2. ASSUME NEW i \in 1 .. Len(items), items[i].id = id
      PROVE  BlockWith(items, id) = <<items[i]>>
  <2>1. {j \in DOMAIN items : items[j].id = id} = {i}
    BY <1>1, <1>2
  <2>2. (CHOOSE k \in {i} : \A j \in {i} : j <= k) = i
    BY <1>1
  <2>3. QED
    BY <2>1, <2>2 DEF BlockWith, LastWith
<1>3. ASSUME \A i \in 1 .. Len(items) : items[i].id # id
      PROVE  BlockWith(items, id) = <<>>
  <2>1. {j \in DOMAIN items : items[j].id = id} = {}
    BY <1>1, <1>3
  <2>2. QED
    BY <2>1 DEF BlockWith, LastWith
<1>4. QED
  BY <1>2, <1>3

\* The ledger has the blocks in the order of their ids, if no two have one id.
LEMMA LedgerIsSorted ==
  ASSUME NEW blocks, IsList(blocks),
         \A i \in 1 .. Len(blocks) : blocks[i].id \in Nat,
         \A i, j \in 1 .. Len(blocks) : blocks[i].id = blocks[j].id => i = j
  PROVE  LET all == LedgerOrder(blocks)
         IN /\ IsList(all) /\ Len(all) = Len(blocks)
            /\ ToSet(all) = ToSet(blocks)
            /\ \A k, l \in 1 .. Len(all) : k < l => all[k].id < all[l].id
<1> DEFINE n == Len(blocks)
           all == LedgerOrder(blocks)
           Before(i) == {j \in 1 .. n : blocks[j].id < blocks[i].id}
           place == [i \in 1 .. n |-> Cardinality(Before(i)) + 1]
           At(k) == CHOOSE i \in 1 .. n : place[i] = k
<1>1. n \in Nat /\ DOMAIN blocks = 1 .. n
  BY ListItems
<1>2. IsFiniteSet(1 .. n) /\ Cardinality(1 .. n) = n
  BY <1>1, FS_Interval
<1> HIDE DEF n
<1>3. ASSUME NEW i \in 1 .. n
      PROVE  /\ IsFiniteSet(Before(i)) /\ Cardinality(Before(i)) \in Nat
             /\ Cardinality(Before(i)) < n
  <2>1. Before(i) \subseteq 1 .. n /\ i \in 1 .. n /\ i \notin Before(i)
    BY DEF n
  <2>2. /\ IsFiniteSet(Before(i)) /\ Cardinality(Before(i)) <= n
        /\ (n = Cardinality(Before(i)) => 1 .. n = Before(i))
    <3> DEFINE B == Before(i)
    <3> HIDE DEF B
    <3>1. B \in SUBSET (1 .. n)
      BY <2>1 DEF B
    <3>2. IsFiniteSet(B) /\ Cardinality(B) <= Cardinality(1 .. n)
          /\ (Cardinality(1 .. n) = Cardinality(B) => 1 .. n = B)
      BY <1>2, <3>1, FS_Subset
    <3>3. QED
      BY <1>2, <3>2 DEF B
  <2>3. Cardinality(Before(i)) \in Nat
    BY <2>2, FS_CardinalityType
  <2>4. QED
    BY <1>1, <2>1, <2>2, <2>3
<1>4. ASSUME NEW i \in 1 .. n, NEW j \in 1 .. n, blocks[i].id < blocks[j].id
      PROVE  Cardinality(Before(i)) < Cardinality(Before(j))
  <2>1. Before(i) \subseteq Before(j) /\ i \in Before(j) /\ i \notin Before(i)
    BY <1>4 DEF n
  <2>2. /\ Cardinality(Before(i)) <= Cardinality(Before(j))
        /\ (Cardinality(Before(j)) = Cardinality(Before(i)) => Before(j) = Before(i))
    <3> DEFINE B == Before(i)
               C == Before(j)
    <3>1. IsFiniteSet(C)
      BY <1>3
    <3> HIDE DEF B, C
    <3>2. B \in SUBSET C
      BY <2>1 DEF B, C
    <3>3. QED
      BY <3>1, <3>2, FS_Subset DEF B, C
  <2>3. /\ Cardinality(Before(i)) \in Nat /\ Cardinality(Before(j)) \in Nat
        /\ Before(i) # Before(j)
    <3>1. Cardinality(Before(i)) \in Nat
      BY <1>3
    <3>2. Cardinality(Before(j)) \in Nat
      BY <1>3
    <3>3. Before(i) # Before(j)
      BY <2>1
    <3>4. QED
      BY <3>1, <3>2, <3>3
  <2> HIDE DEF Before
  <2>4. QED
    BY <2>2, <2>3
<1> HIDE DEF Before
<1>5. place \in [1 .. n -> 1 .. n]
  BY <1>1, <1>3
<1>6. \A i, j \in 1 .. n : blocks[i].id < blocks[j].id => place[i] < place[j]
  BY <1>3, <1>4
<1>7. \A i, j \in 1 .. n : i = j \/ blocks[i].id < blocks[j].id \/ blocks[j].id < blocks[i].id
  BY DEF n
<1> HIDE DEF place
<1>8. place \in Injection(1 .. n, 1 .. n)
  <2>1. \A i, j \in 1 .. n : place[i] = place[j] => i = j
    <3> SUFFICES ASSUME NEW i \in 1 .. n, NEW j \in 1 .. n, place[i] = place[j] PROVE i = j
      OBVIOUS
    <3>1. place[i] \in Nat /\ place[j] \in Nat
      BY <1>1, <1>5
    <3>2. QED
      BY <1>6, <1>7, <3>1
  <2>2. DOMAIN place = 1 .. n
    BY <1>5
  <2>3. QED
    BY <1>5, <2>1, <2>2 DEF Injection, IsInjective
<1>9. place \in Surjection(1 .. n, 1 .. n)
  BY <1>2, <1>8, FS_Injection
<1>10. \A k \in 1 .. n : At(k) \in 1 .. n /\ place[At(k)] = k
  BY <1>9 DEF Surjection
<1>11. all = [k \in 1 .. n |-> blocks[At(k)]]
  <2> DEFINE IsBefore(i, j) == blocks[i].id < blocks[j].id \/ (blocks[i].id = blocks[j].id /\ i < j)
             Place(i) == Cardinality({j \in DOMAIN blocks : IsBefore(j, i)}) + 1
  <2>1. ASSUME NEW i \in 1 .. n PROVE Place(i) = place[i]
    <3>1. {j \in DOMAIN blocks : IsBefore(j, i)} = Before(i)
      BY <1>1 DEF Before, n
    <3>2. QED
      BY <3>1 DEF place
  <2>2. all = [k \in 1 .. n |-> blocks[CHOOSE i \in 1 .. n : Place(i) = k]]
    BY <1>1 DEF LedgerOrder
  <2> HIDE DEF Place
  <2>3. ASSUME NEW k \in 1 .. n
        PROVE  (CHOOSE i \in 1 .. n : Place(i) = k) = At(k)
    BY <2>1
  <2>4. QED
    BY <2>2, <2>3
<1> HIDE DEF At, all
<1>12. IsList(all) /\ Len(all) = n
  <2>1. all = [k \in 1 .. n |-> all[k]]
    BY <1>11
  <2>2. QED
    BY <1>1, <2>1, ListOf
<1>13. \A i \in 1 .. n : place[i] \in 1 .. n /\ At(place[i]) = i
  <2>1. \A i, j \in 1 .. n : place[i] = place[j] => i = j
    BY <1>5, <1>8 DEF Injection, IsInjective
  <2>2. QED
    BY <1>5, <1>10, <2>1
<1>14. ToSet(all) = ToSet(blocks)
  <2>1. \A x : x \in ToSet(all) <=> \E k \in 1 .. n : x = all[k]
    BY <1>12, ListItems
  <2>2. \A x : x \in ToSet(blocks) <=> \E i \in 1 .. n : x = blocks[i]
    BY ListItems DEF n
  <2>3. \A k \in 1 .. n : all[k] = blocks[At(k)]
    BY <1>11
  <2>4. \A i \in 1 .. n : all[place[i]] = blocks[i]
    BY <1>13, <2>3
  <2>5. ASSUME NEW x PROVE x \in ToSet(all) <=> x \in ToSet(blocks)
    BY <1>10, <1>13, <2>1, <2>2, <2>3, <2>4
  <2>6. QED
    BY <2>5
<1>15. \A k, l \in 1 .. n : k < l => all[k].id < all[l].id
  <2> SUFFICES ASSUME NEW k \in 1 .. n, NEW l \in 1 .. n, k < l PROVE all[k].id < all[l].id
    OBVIOUS
  <2>1. all[k] = blocks[At(k)] /\ all[l] = blocks[At(l)]
    BY <1>11
  <2>2. At(k) \in 1 .. n /\ At(l) \in 1 .. n /\ place[At(k)] = k /\ place[At(l)] = l
    BY <1>10
  <2>3. k \in Nat /\ l \in Nat /\ k # l /\ ~(l < k)
    BY <1>1
  <2>4. QED
    BY <1>6, <1>7, <2>1, <2>2, <2>3
<1>16. QED
  BY <1>12, <1>14, <1>15 DEF all, n

-----------------------------------------------------------------------------
\* A list with something for each item of another.
LEMMA ByPlace ==
  ASSUME NEW u, IsList(u), NEW f, f = [i \in DOMAIN u |-> f[i]]
  PROVE  /\ IsList(f) /\ Len(f) = Len(u) /\ DOMAIN f = DOMAIN u
         /\ \A x : x \in ToSet(f) <=> \E i \in DOMAIN u : x = f[i]
<1>1. Len(u) \in Nat /\ DOMAIN u = 1 .. Len(u)
  BY ListItems
<1>2. f = [i \in 1 .. Len(u) |-> f[i]]
  BY <1>1
<1>3. IsList(f) /\ Len(f) = Len(u)
  BY <1>1, <1>2, ListOf
<1>4. DOMAIN f = DOMAIN u /\ \A x : x \in ToSet(f) <=> \E i \in 1 .. Len(f) : x = f[i]
  BY <1>1, <1>3, ListItems
<1>5. QED
  BY <1>1, <1>3, <1>4

\* What is joined of the lists for each item of another.
LEMMA JoinedByPlace ==
  ASSUME NEW u, IsList(u), NEW f, f = [i \in DOMAIN u |-> f[i]],
         \A i \in DOMAIN u : IsList(f[i])
  PROVE  /\ IsList(FlattenSeq(f))
         /\ \A x : x \in ToSet(FlattenSeq(f)) <=> \E i \in DOMAIN u : x \in ToSet(f[i])
<1>1. Len(u) \in Nat /\ DOMAIN u = 1 .. Len(u)
  BY ListItems
<1>2. f = [i \in 1 .. Len(u) |-> f[i]] /\ \A i \in 1 .. Len(u) : IsList(f[i])
  BY <1>1
<1>3. IsList(FlattenSeq(f)) /\ ToSet(FlattenSeq(f)) = UNION {ToSet(f[i]) : i \in 1 .. Len(u)}
  BY <1>1, <1>2, FlattenLists
<1>4. QED
  BY <1>1, <1>3

\* Lists of no, one and two items.
LEMMA ShortLists ==
  /\ IsList(<<>>) /\ ToSet(<<>>) = {} /\ DOMAIN <<>> = {}
  /\ \A x : IsList(<<x>>) /\ ToSet(<<x>>) = {x} /\ DOMAIN <<x>> = {1}
  /\ \A x, y : IsList(<<x, y>>) /\ ToSet(<<x, y>>) = {x, y}
BY DEF IsList, ToSet

\* A piece of evidence with its number, which only its id tells apart.
Renumbered(e, f) == /\ DOMAIN e = DOMAIN f \cup {"id"}
                    /\ \A key \in DOMAIN f : key # "id" => e[key] = f[key]

\* Evidence keeps what a pass says in it when it is numbered.
LEMMA NumberedEvents ==
  ASSUME NEW pass, NEW events, IsList(events)
  PROVE  /\ IsList(Numbered(pass, events))
         /\ \A e \in ToSet(Numbered(pass, events)) : \E f \in ToSet(events) : Renumbered(e, f)
         /\ \A f \in ToSet(events) : \E e \in ToSet(Numbered(pass, events)) : Renumbered(e, f)
<1> DEFINE numbered == Numbered(pass, events)
<1>1. /\ numbered = [i \in DOMAIN events |-> numbered[i]]
      /\ \A i \in DOMAIN events : numbered[i] = Over([id |-> <<pass, i>>], events[i])
  BY DEF Numbered
<1> HIDE DEF numbered
<1>2. /\ IsList(numbered)
      /\ \A x : x \in ToSet(numbered) <=> \E i \in DOMAIN events : x = numbered[i]
  BY <1>1, ByPlace
<1>3. \A x : x \in ToSet(events) <=> \E i \in DOMAIN events : x = events[i]
  BY ListItems
<1>4. ASSUME NEW i \in DOMAIN events
      PROVE  /\ DOMAIN numbered[i] = DOMAIN events[i] \cup {"id"}
             /\ \A key \in DOMAIN events[i] : key # "id" => numbered[i][key] = events[i][key]
  <2> DEFINE f == events[i]
             g == [id |-> <<pass, i>>]
  <2>1. DOMAIN g = {"id"}
    OBVIOUS
  <2>2. numbered[i] = Over(g, f)
    BY <1>1
  <2> HIDE DEF f, g
  <2>3. DOMAIN Over(g, f) = DOMAIN g \cup DOMAIN f
        /\ \A key \in DOMAIN f : key \notin DOMAIN g => Over(g, f)[key] = f[key]
    BY DEF Over
  <2>4. QED
    BY <2>1, <2>2, <2>3 DEF f
<1>5. \A i \in DOMAIN events : Renumbered(numbered[i], events[i])
  BY <1>4 DEF Renumbered
<1>6. \A e \in ToSet(numbered) : \E f \in ToSet(events) : Renumbered(e, f)
  <2> SUFFICES ASSUME NEW e \in ToSet(numbered) PROVE \E f \in ToSet(events) : Renumbered(e, f)
    OBVIOUS
  <2>1. PICK i \in DOMAIN events : e = numbered[i]
    BY <1>2
  <2>2. events[i] \in ToSet(events)
    BY <1>3
  <2>3. QED
    BY <1>5, <2>1, <2>2
<1>7. \A f \in ToSet(events) : \E e \in ToSet(numbered) : Renumbered(e, f)
  <2> SUFFICES ASSUME NEW f \in ToSet(events) PROVE \E e \in ToSet(numbered) : Renumbered(e, f)
    OBVIOUS
  <2>1. PICK i \in DOMAIN events : f = events[i]
    BY <1>3
  <2>2. numbered[i] \in ToSet(numbered)
    BY <1>2
  <2>3. QED
    BY <1>5, <2>1, <2>2
<1>8. QED
  BY <1>2, <1>6, <1>7 DEF numbered

\* An object spread over another has its own members first.
LEMMA OverMembers ==
  ASSUME NEW a, NEW b
  PROVE  /\ DOMAIN Over(a, b) = DOMAIN a \cup DOMAIN b
         /\ \A key \in DOMAIN a : Over(a, b)[key] = a[key]
         /\ \A key \in DOMAIN b : key \notin DOMAIN a => Over(a, b)[key] = b[key]
BY DEF Over

-----------------------------------------------------------------------------
\* Evidence that deduplicates nothing and routes or falls back to a provider that may
\* be used.
IsHarmless(e, constraints) ==
  /\ e.kind = "context_change" => e.changeKind # "deduplicated"
  /\ e.kind = "routing_decision" => MayUse(constraints, e.target.provider)
  /\ e.kind = "retry_fallback_decision" /\ e.decision = "fallback" =>
       MayUse(constraints, e.fallbackTarget)

\* The kind of a piece of evidence, and what a decision has.
IsEvidence(e) ==
  /\ {"kind"} \subseteq DOMAIN e
  /\ e.kind = "context_change" => "changeKind" \in DOMAIN e
  /\ e.kind = "routing_decision" => "target" \in DOMAIN e
  /\ e.kind = "retry_fallback_decision" => "decision" \in DOMAIN e
  /\ e.kind = "retry_fallback_decision" /\ e.decision = "fallback" =>
       "fallbackTarget" \in DOMAIN e

\* The result of a pass that leaves the plan as it is.
ReportsOnly(result, p) ==
  /\ result.plan = p
  /\ IsList(result.evidence) /\ IsList(result.warnings)
  /\ \A e \in ToSet(result.evidence) : IsHarmless(e, p.constraints)
  /\ \A w \in ToSet(result.warnings) : w.code # "duplicate_context_preserved"

\* Numbering keeps evidence harmless.
LEMMA NumberedHarmless ==
  ASSUME NEW pass, NEW events, IsList(events), NEW constraints,
         \A f \in ToSet(events) : IsEvidence(f) /\ IsHarmless(f, constraints)
  PROVE  /\ IsList(Numbered(pass, events))
         /\ \A e \in ToSet(Numbered(pass, events)) : IsHarmless(e, constraints)
<1>1. IsList(Numbered(pass, events))
  BY NumberedEvents
<1>2. ASSUME NEW e \in ToSet(Numbered(pass, events)) PROVE IsHarmless(e, constraints)
  <2>1. PICK f \in ToSet(events) : \A key \in DOMAIN f : key # "id" => e[key] = f[key]
    <3>1. \A d \in ToSet(Numbered(pass, events)) : \E f \in ToSet(events) : Renumbered(d, f)
      BY NumberedEvents
    <3>2. QED
      BY <3>1 DEF Renumbered
  <2>2. IsEvidence(f) /\ IsHarmless(f, constraints)
    OBVIOUS
  <2>3. e.kind = f.kind
    BY <2>1, <2>2 DEF IsEvidence
  <2>4. e.kind = "context_change" => e.changeKind = f.changeKind
    BY <2>1, <2>2, <2>3 DEF IsEvidence
  <2>5. e.kind = "routing_decision" => e.target = f.target
    BY <2>1, <2>2, <2>3 DEF IsEvidence
  <2>6. e.kind = "retry_fallback_decision" => e.decision = f.decision
    BY <2>1, <2>2, <2>3 DEF IsEvidence
  <2>7. e.kind = "retry_fallback_decision" /\ e.decision = "fallback" =>
          e.fallbackTarget = f.fallbackTarget
    BY <2>1, <2>2, <2>3, <2>6 DEF IsEvidence
  <2>8. QED
    BY <2>2, <2>3, <2>4, <2>5, <2>6, <2>7 DEF IsHarmless
<1>3. QED
  BY <1>1, <1>2

\* A warning has the code it is made with.
LEMMA WarnCode == \A code, path, severity, assumption :
                    Warn(code, path, severity, assumption).code = code
BY DEF Warn

\* The prefixes that the stable prefix pass reports change no context.
LEMMA StablePrefixReports ==
  ASSUME NEW p, IsPlan(p), NEW providers, IsList(providers)
  PROVE  ReportsOnly(StablePrefix(p, providers), p)
<1> DEFINE all == LedgerOrder(p.context)
           calls == PrefixCalls(p)
           prefixes == [i \in DOMAIN calls |->
                          [nodeId |-> calls[i].id, contextIds |-> StablePrefixIds(calls[i], all)]]
           found == Where(prefixes, LAMBDA q : q.contextIds # <<>>)
           Skipped(i) ==
             LET next == Len(prefixes[i].contextIds) + 1
             IN IF next > Len(calls[i].inputContext) THEN <<>>
                ELSE LET id == calls[i].inputContext[next]
                     IN <<Warn("stable_prefix_candidate_skipped",
                               IF LedgerById(all, id) = <<>> THEN <<"node", calls[i].id>>
                               ELSE <<"context", id>>, "warning", "not_eligible")>>
           Explicit(provider) == provider.supports["explicit_cache_breakpoints"]
           reportOnly == Where(providers, LAMBDA q : ~Explicit(q))
           changes == [i \in DOMAIN found |->
                         Over([kind |-> "context_change", changeKind |-> "changed"], found[i])]
           assumed == [i \in DOMAIN providers |->
                         [kind |-> "capability_assumption", provider |-> providers[i].provider,
                          explicit |-> Explicit(providers[i])]]
           skipped == [i \in DOMAIN calls |-> Skipped(i)]
           reported == [i \in DOMAIN reportOnly |->
                          Warn("stable_prefix_provider_report_only", <<"provider">>, "info",
                               "report_only")]
           result == StablePrefix(p, providers)
<1>1. /\ result.plan = p
      /\ result.evidence = Numbered("stable-prefix", changes \o assumed)
      /\ result.warnings = FlattenSeq(skipped) \o reported
  BY DEF StablePrefix
<1>2. IsList(calls)
  <2>1. calls = Picked(p.nodes, {i \in DOMAIN p.nodes :
                         p.nodes[i].kind = "model_call" /\ Has(p.nodes[i], "inputContext")})
    BY DEF PrefixCalls, Where, Picked
  <2>2. IsList(p.nodes)
    BY DEF IsPlan
  <2> HIDE DEF calls
  <2>3. QED
    BY <2>1, <2>2, PickedItems
<1> HIDE DEF calls, result
<1>3. IsList(prefixes)
  BY <1>2, ByPlace
<1>4. IsList(found)
  <2> HIDE DEF prefixes
  <2>1. found = Picked(prefixes, {i \in DOMAIN prefixes : prefixes[i].contextIds # <<>>})
    BY DEF Where, Picked
  <2> HIDE DEF found
  <2>2. QED
    BY <1>3, <2>1, PickedItems
<1>5. IsList(reportOnly)
  <2>1. reportOnly = Picked(providers, {i \in DOMAIN providers : ~Explicit(providers[i])})
    BY DEF Where, Picked
  <2> HIDE DEF reportOnly
  <2>2. QED
    BY <2>1, PickedItems
<1>6. /\ IsList(FlattenSeq(skipped))
      /\ \A w \in ToSet(FlattenSeq(skipped)) : w.code # "duplicate_context_preserved"
  <2>1. skipped = [i \in DOMAIN calls |-> skipped[i]] /\ \A i \in DOMAIN calls : skipped[i] = Skipped(i)
    OBVIOUS
  <2>2. ASSUME NEW i \in DOMAIN calls
        PROVE  /\ IsList(Skipped(i))
               /\ \A w \in ToSet(Skipped(i)) : w.code # "duplicate_context_preserved"
    <3>1. \/ Skipped(i) = <<>>
          \/ \E path : Skipped(i) =
               <<Warn("stable_prefix_candidate_skipped", path, "warning", "not_eligible")>>
      <4> HIDE DEF prefixes
      <4>1. QED
        BY Zenon
    <3> HIDE DEF Skipped
    <3>2. QED
      BY <3>1, ShortLists, WarnCode
  <2> HIDE DEF skipped, Skipped
  <2>3. /\ IsList(FlattenSeq(skipped))
        /\ \A x : x \in ToSet(FlattenSeq(skipped)) <=> \E i \in DOMAIN calls : x \in ToSet(skipped[i])
    BY <1>2, <2>1, <2>2, JoinedByPlace
  <2>4. QED
    BY <2>1, <2>2, <2>3
<1> HIDE DEF found, reportOnly, skipped
<1>7. /\ IsList(reported)
      /\ \A w \in ToSet(reported) : w.code # "duplicate_context_preserved"
  <2>1. /\ reported = [i \in DOMAIN reportOnly |-> reported[i]]
        /\ \A i \in DOMAIN reportOnly : reported[i].code = "stable_prefix_provider_report_only"
    BY WarnCode
  <2> HIDE DEF reported
  <2>2. QED
    BY <1>5, <2>1, ByPlace
<1>8. /\ IsList(changes)
      /\ \A e \in ToSet(changes) : IsEvidence(e) /\ IsHarmless(e, p.constraints)
  <2>1. /\ changes = [i \in DOMAIN found |-> changes[i]]
        /\ \A i \in DOMAIN found :
             changes[i] = Over([kind |-> "context_change", changeKind |-> "changed"], found[i])
    OBVIOUS
  <2>2. \A x : LET e == Over([kind |-> "context_change", changeKind |-> "changed"], x)
               IN IsEvidence(e) /\ IsHarmless(e, p.constraints)
    <3>1. ASSUME NEW x
          PROVE  LET e == Over([kind |-> "context_change", changeKind |-> "changed"], x)
                 IN IsEvidence(e) /\ IsHarmless(e, p.constraints)
      <4> DEFINE a == [kind |-> "context_change", changeKind |-> "changed"]
                 e == Over(a, x)
      <4>1. DOMAIN a = {"kind", "changeKind"} /\ a.kind = "context_change" /\ a.changeKind = "changed"
        OBVIOUS
      <4> HIDE DEF a, e
      <4>2. {"kind", "changeKind"} \subseteq DOMAIN e /\ e.kind = "context_change" /\ e.changeKind = "changed"
        <5>1. /\ DOMAIN e = DOMAIN a \cup DOMAIN x
              /\ \A key \in DOMAIN a : e[key] = a[key]
          BY OverMembers DEF e
        <5>2. QED
          BY <4>1, <5>1
      <4>3. IsEvidence(e) /\ IsHarmless(e, p.constraints)
        BY <4>2 DEF IsEvidence, IsHarmless
      <4>4. QED
        BY <4>3 DEF a, e
    <3>2. QED
      BY <3>1
  <2> HIDE DEF changes
  <2>3. IsList(changes) /\ \A x : x \in ToSet(changes) <=> \E i \in DOMAIN found : x = changes[i]
    BY <1>4, <2>1, ByPlace
  <2>4. QED
    BY <2>1, <2>2, <2>3
<1>9. /\ IsList(assumed)
      /\ \A e \in ToSet(assumed) : IsEvidence(e) /\ IsHarmless(e, p.constraints)
  <2>1. /\ assumed = [i \in DOMAIN providers |-> assumed[i]]
        /\ \A i \in DOMAIN providers : "kind" \in DOMAIN assumed[i]
                                       /\ assumed[i].kind = "capability_assumption"
    OBVIOUS
  <2> HIDE DEF assumed
  <2>2. IsList(assumed) /\ \A x : x \in ToSet(assumed) <=> \E i \in DOMAIN providers : x = assumed[i]
    BY <2>1, ByPlace
  <2>3. QED
    BY <2>1, <2>2 DEF IsEvidence, IsHarmless
<1> HIDE DEF changes, assumed, reported
<1>10. /\ IsList(changes \o assumed)
       /\ \A e \in ToSet(changes \o assumed) : IsEvidence(e) /\ IsHarmless(e, p.constraints)
  BY <1>8, <1>9, JoinedLists
<1>11. /\ IsList(result.evidence)
       /\ \A e \in ToSet(result.evidence) : IsHarmless(e, p.constraints)
  <2> DEFINE events == changes \o assumed
  <2> HIDE DEF events
  <2>1. IsList(events) /\ \A e \in ToSet(events) : IsEvidence(e) /\ IsHarmless(e, p.constraints)
    BY <1>10 DEF events
  <2>2. QED
    BY <1>1, <2>1, NumberedHarmless DEF events
<1>12. /\ IsList(result.warnings)
       /\ \A w \in ToSet(result.warnings) : w.code # "duplicate_context_preserved"
  BY <1>1, <1>6, <1>7, JoinedLists
<1>13. QED
  BY <1>1, <1>11, <1>12 DEF ReportsOnly, result

-----------------------------------------------------------------------------
\* One provider's warnings of the prompt cache layout are of its own codes.
LEMMA LayoutWarningCodes ==
  ASSUME NEW provider
  PROVE  /\ IsList(LayoutWarnings(provider))
         /\ \A w \in ToSet(LayoutWarnings(provider)) : w.code # "duplicate_context_preserved"
<1> DEFINE kind == ClassifyLayoutKind(provider)
           path == <<"provider", provider.provider>>
<1>1. kind \in {"explicit_breakpoint", "automatic", "unsupported"}
  BY DEF ClassifyLayoutKind
<1> HIDE DEF kind, path
<1>2. \/ LayoutWarnings(provider) = <<>>
      \/ LayoutWarnings(provider) =
           <<Warn("prompt_cache_explicit_breakpoint_unavailable", path, "info", kind)>>
      \/ LayoutWarnings(provider) =
           <<Warn("prompt_cache_provider_unsupported", path, "warning", kind)>>
  BY <1>1 DEF LayoutWarnings, kind, path
<1>3. QED
  BY <1>2, ShortLists, WarnCode

\* What the prompt cache layout reports of one provider and one prefix is harmless.
LEMMA LayoutEvidenceHarmless ==
  ASSUME NEW provider, NEW prefix, NEW all, NEW constraints
  PROVE  LET events == LayoutEvidence(provider, prefix, all)
         IN /\ IsList(events)
            /\ \A e \in ToSet(events) : IsEvidence(e) /\ IsHarmless(e, constraints)
<1> DEFINE events == LayoutEvidence(provider, prefix, all)
           about == [provider |-> provider.provider, nodeId |-> prefix.nodeId]
           Prefixed(ids) == Over(about, [kind |-> "context_change", changeKind |-> "changed",
                                       contextIds |-> ids])
           Estimate(unit, value) == Over(about, [kind |-> "estimate", unit |-> unit,
                                                 value |-> value])
<1>1. \E ids, tokens, usd : \/ events = <<Prefixed(ids), Estimate("tokens", tokens)>> \o <<>>
                            \/ events = <<Prefixed(ids), Estimate("tokens", tokens)>>
                                          \o <<Estimate("usd", usd)>>
  BY Zenon DEF LayoutEvidence
<1>2. \A ids : IsEvidence(Prefixed(ids)) /\ IsHarmless(Prefixed(ids), constraints)
  <2>1. ASSUME NEW ids PROVE IsEvidence(Prefixed(ids)) /\ IsHarmless(Prefixed(ids), constraints)
    <3> DEFINE a == [kind |-> "context_change", changeKind |-> "changed", contextIds |-> ids]
               e == Over(about, a)
    <3>1. /\ DOMAIN a = {"kind", "changeKind", "contextIds"}
          /\ a.kind = "context_change" /\ a.changeKind = "changed"
          /\ DOMAIN about = {"provider", "nodeId"}
      OBVIOUS
    <3> HIDE DEF a, about
    <3>2. /\ DOMAIN e = DOMAIN a \cup DOMAIN about
          /\ \A key \in DOMAIN a : key \notin DOMAIN about => e[key] = a[key]
      BY OverMembers
    <3> HIDE DEF e
    <3>3. e.kind = "context_change" /\ e.changeKind = "changed" /\ {"kind", "changeKind"} \subseteq DOMAIN e
      BY <3>1, <3>2
    <3>4. IsEvidence(e) /\ IsHarmless(e, constraints)
      BY <3>3 DEF IsEvidence, IsHarmless
    <3>5. QED
      BY <3>4 DEF e, a
  <2>2. QED
    BY <2>1
<1>3. \A unit, value : IsEvidence(Estimate(unit, value)) /\ IsHarmless(Estimate(unit, value), constraints)
  <2>1. ASSUME NEW unit, NEW value
        PROVE IsEvidence(Estimate(unit, value)) /\ IsHarmless(Estimate(unit, value), constraints)
    <3> DEFINE a == [kind |-> "estimate", unit |-> unit, value |-> value]
               e == Over(about, a)
    <3>1. DOMAIN a = {"kind", "unit", "value"} /\ a.kind = "estimate" /\ DOMAIN about = {"provider", "nodeId"}
      OBVIOUS
    <3> HIDE DEF a, about
    <3>2. /\ DOMAIN e = DOMAIN a \cup DOMAIN about
          /\ \A key \in DOMAIN a : key \notin DOMAIN about => e[key] = a[key]
      BY OverMembers
    <3> HIDE DEF e
    <3>3. e.kind = "estimate" /\ {"kind"} \subseteq DOMAIN e
      BY <3>1, <3>2
    <3>4. IsEvidence(e) /\ IsHarmless(e, constraints)
      BY <3>3 DEF IsEvidence, IsHarmless
    <3>5. QED
      BY <3>4 DEF e, a
  <2>2. QED
    BY <2>1
<1> HIDE DEF events, about, Prefixed, Estimate
<1>4. IsList(events) /\ \A e \in ToSet(events) : IsEvidence(e) /\ IsHarmless(e, constraints)
  <2>1. PICK ids, tokens, usd : \/ events = <<Prefixed(ids), Estimate("tokens", tokens)>> \o <<>>
                                \/ events = <<Prefixed(ids), Estimate("tokens", tokens)>>
                                              \o <<Estimate("usd", usd)>>
    BY <1>1
  <2> DEFINE pair == <<Prefixed(ids), Estimate("tokens", tokens)>>
             cost == <<Estimate("usd", usd)>>
  <2>2. /\ IsList(pair) /\ ToSet(pair) = {Prefixed(ids), Estimate("tokens", tokens)}
        /\ IsList(cost) /\ ToSet(cost) = {Estimate("usd", usd)}
    BY ShortLists
  <2> HIDE DEF pair, cost
  <2>3. events = pair \/ events = pair \o cost
    BY <2>1, <2>2, JoinNothing DEF pair, cost
  <2>4. IsList(pair \o cost) /\ ToSet(pair \o cost) = ToSet(pair) \cup ToSet(cost)
    BY <2>2, JoinedLists
  <2>5. QED
    BY <1>2, <1>3, <2>2, <2>3, <2>4
<1>5. QED
  BY <1>4 DEF events

\* The layouts of some prefixes change no context.
LEMMA LayoutReports ==
  ASSUME NEW p, IsPlan(p), NEW providers, IsList(providers)
  PROVE  ReportsOnly(PromptCacheLayout(p, providers), p)
<1> DEFINE stable == StablePrefix(p, <<>>)
           prefixes == PrefixByNode(stable.evidence)
           all == LedgerOrder(p.context)
           first(provider) == [kind |-> "capability_assumption", provider |-> provider.provider,
                               layout |-> ClassifyLayoutKind(provider)]
           warned(provider) == [i \in DOMAIN LayoutWarnings(provider) |->
                                  Over([kind |-> "warning"], LayoutWarnings(provider)[i])]
           told(provider) == [i \in DOMAIN prefixes |-> LayoutEvidence(provider, prefixes[i], all)]
           Layout(provider) == <<first(provider)>> \o warned(provider) \o FlattenSeq(told(provider))
           layouts == [i \in DOMAIN providers |-> Layout(providers[i])]
           cautions == [i \in DOMAIN providers |-> LayoutWarnings(providers[i])]
           result == PromptCacheLayout(p, providers)
<1>1. /\ result.plan = p
      /\ result.evidence = Numbered("prompt-cache-layout", FlattenSeq(layouts))
      /\ result.warnings = stable.warnings \o FlattenSeq(cautions)
  BY DEF PromptCacheLayout, LayoutOfStable, LayoutOfPrefixes
<1>2. ReportsOnly(stable, p)
  BY ShortLists, StablePrefixReports
<1> HIDE DEF stable, result, all
<1>3. IsList(prefixes)
  <2> DEFINE evidence_ == stable.evidence
             changes == Where(evidence_, LAMBDA e : e.kind = "context_change")
             ids == [i \in DOMAIN changes |-> changes[i].nodeId]
             nodeIds == Distinct(ids)
  <2>1. IsList(evidence_)
    BY <1>2 DEF ReportsOnly
  <2>2. changes = Picked(evidence_, {i \in DOMAIN evidence_ : evidence_[i].kind = "context_change"})
    BY DEF Where, Picked
  <2>3. prefixes = [i \in DOMAIN nodeIds |->
                      [nodeId |-> nodeIds[i],
                       contextIds |-> LastWith(changes, LAMBDA e : e.nodeId = nodeIds[i])[1].contextIds]]
    BY DEF PrefixByNode
  <2> HIDE DEF evidence_, changes, prefixes
  <2>4. IsList(changes)
    BY <2>1, <2>2, PickedItems
  <2>5. IsList(ids)
    BY <2>4, ByPlace
  <2> HIDE DEF ids
  <2>6. IsList(nodeIds)
    BY <2>5, DistinctItems
  <2> HIDE DEF nodeIds
  <2>7. prefixes = [i \in DOMAIN nodeIds |-> prefixes[i]]
    BY <2>3
  <2>8. QED
    BY <2>6, <2>7, ByPlace
<1> HIDE DEF prefixes
<1>4. ASSUME NEW provider
      PROVE  /\ IsList(Layout(provider))
             /\ \A e \in ToSet(Layout(provider)) : IsEvidence(e) /\ IsHarmless(e, p.constraints)
  <2>1. /\ IsList(<<first(provider)>>) /\ ToSet(<<first(provider)>>) = {first(provider)}
        /\ IsEvidence(first(provider)) /\ IsHarmless(first(provider), p.constraints)
    BY ShortLists DEF IsEvidence, IsHarmless
  <2>2. /\ IsList(warned(provider))
        /\ \A e \in ToSet(warned(provider)) : IsEvidence(e) /\ IsHarmless(e, p.constraints)
    <3> DEFINE w == warned(provider)
               u == LayoutWarnings(provider)
    <3>1. /\ w = [i \in DOMAIN u |-> w[i]]
          /\ \A i \in DOMAIN u : w[i] = Over([kind |-> "warning"], u[i])
      OBVIOUS
    <3>2. \A x : LET e == Over([kind |-> "warning"], x) IN e.kind = "warning" /\ "kind" \in DOMAIN e
      BY DEF Over
    <3>3. IsList(u)
      BY LayoutWarningCodes
    <3> HIDE DEF w, u
    <3>4. IsList(w) /\ \A x : x \in ToSet(w) <=> \E i \in DOMAIN u : x = w[i]
      BY <3>1, <3>3, ByPlace
    <3>5. \A e \in ToSet(w) : e.kind = "warning" /\ "kind" \in DOMAIN e
      BY <3>1, <3>2, <3>4
    <3>6. \A e \in ToSet(w) : IsEvidence(e) /\ IsHarmless(e, p.constraints)
      BY <3>5 DEF IsEvidence, IsHarmless
    <3>7. QED
      BY <3>4, <3>6 DEF w
  <2>3. /\ IsList(FlattenSeq(told(provider)))
        /\ \A e \in ToSet(FlattenSeq(told(provider))) : IsEvidence(e) /\ IsHarmless(e, p.constraints)
    <3> DEFINE t == told(provider)
    <3>1. /\ t = [i \in DOMAIN prefixes |-> t[i]]
          /\ \A i \in DOMAIN prefixes : t[i] = LayoutEvidence(provider, prefixes[i], all)
      OBVIOUS
    <3> HIDE DEF t
    <3>2. \A i \in DOMAIN prefixes :
            IsList(t[i]) /\ \A e \in ToSet(t[i]) : IsEvidence(e) /\ IsHarmless(e, p.constraints)
      BY <3>1, LayoutEvidenceHarmless
    <3>3. /\ IsList(FlattenSeq(t))
          /\ \A x : x \in ToSet(FlattenSeq(t)) <=> \E i \in DOMAIN prefixes : x \in ToSet(t[i])
      BY <1>3, <3>1, <3>2, JoinedByPlace
    <3>4. QED
      BY <3>2, <3>3 DEF t
  <2> DEFINE a == <<first(provider)>>
             b == warned(provider)
             c == FlattenSeq(told(provider))
  <2> HIDE DEF first, warned, told
  <2>4. IsList(a) /\ IsList(b) /\ IsList(c)
        /\ \A e \in ToSet(a) \cup ToSet(b) \cup ToSet(c) : IsEvidence(e) /\ IsHarmless(e, p.constraints)
    BY <2>1, <2>2, <2>3
  <2>5. Layout(provider) = (a \o b) \o c
    OBVIOUS
  <2> HIDE DEF a, b, c, Layout
  <2>6. IsList(a \o b) /\ ToSet(a \o b) = ToSet(a) \cup ToSet(b)
    BY <2>4, JoinedLists
  <2> DEFINE ab == a \o b
  <2> HIDE DEF ab
  <2>7. IsList(ab \o c) /\ ToSet(ab \o c) = ToSet(ab) \cup ToSet(c)
    BY <2>4, <2>6, JoinedLists DEF ab
  <2>8. QED
    BY <2>4, <2>5, <2>6, <2>7 DEF ab
<1> HIDE DEF first, warned, told, Layout
<1>5. /\ IsList(FlattenSeq(layouts))
      /\ \A e \in ToSet(FlattenSeq(layouts)) : IsEvidence(e) /\ IsHarmless(e, p.constraints)
  <2>1. /\ layouts = [i \in DOMAIN providers |-> layouts[i]]
        /\ \A i \in DOMAIN providers : layouts[i] = Layout(providers[i])
    OBVIOUS
  <2> HIDE DEF layouts
  <2>2. \A i \in DOMAIN providers :
            IsList(layouts[i])
            /\ \A e \in ToSet(layouts[i]) : IsEvidence(e) /\ IsHarmless(e, p.constraints)
    BY <1>4, <2>1
  <2>3. /\ IsList(FlattenSeq(layouts))
        /\ \A x : x \in ToSet(FlattenSeq(layouts)) <=> \E i \in DOMAIN providers : x \in ToSet(layouts[i])
    BY <2>1, <2>2, JoinedByPlace
  <2>4. QED
    BY <2>2, <2>3
<1>6. /\ IsList(FlattenSeq(cautions))
      /\ \A w \in ToSet(FlattenSeq(cautions)) : w.code # "duplicate_context_preserved"
  <2>1. /\ cautions = [i \in DOMAIN providers |-> cautions[i]]
        /\ \A i \in DOMAIN providers : cautions[i] = LayoutWarnings(providers[i])
    OBVIOUS
  <2> HIDE DEF cautions
  <2>2. \A i \in DOMAIN providers :
            IsList(cautions[i])
            /\ \A w \in ToSet(cautions[i]) : w.code # "duplicate_context_preserved"
    BY <2>1, LayoutWarningCodes
  <2>3. /\ IsList(FlattenSeq(cautions))
        /\ \A x : x \in ToSet(FlattenSeq(cautions)) <=> \E i \in DOMAIN providers : x \in ToSet(cautions[i])
    BY <2>1, <2>2, JoinedByPlace
  <2>4. QED
    BY <2>2, <2>3
<1> HIDE DEF layouts, cautions
<1>7. /\ IsList(result.evidence)
      /\ \A e \in ToSet(result.evidence) : IsHarmless(e, p.constraints)
  <2> DEFINE events == FlattenSeq(layouts)
  <2> HIDE DEF events
  <2>1. IsList(events) /\ \A e \in ToSet(events) : IsEvidence(e) /\ IsHarmless(e, p.constraints)
    BY <1>5 DEF events
  <2>2. QED
    BY <1>1, <2>1, NumberedHarmless DEF events
<1>8. /\ IsList(result.warnings)
      /\ \A w \in ToSet(result.warnings) : w.code # "duplicate_context_preserved"
  <2>1. /\ IsList(stable.warnings)
        /\ \A w \in ToSet(stable.warnings) : w.code # "duplicate_context_preserved"
    BY <1>2 DEF ReportsOnly
  <2> DEFINE a == stable.warnings
             b == FlattenSeq(cautions)
  <2> HIDE DEF a, b
  <2>2. IsList(a \o b) /\ ToSet(a \o b) = ToSet(a) \cup ToSet(b)
    BY <1>6, <2>1, JoinedLists DEF a, b
  <2>3. QED
    BY <1>1, <1>6, <2>1, <2>2 DEF a, b
<1>9. QED
  BY <1>1, <1>7, <1>8 DEF ReportsOnly, result

-----------------------------------------------------------------------------
\* The provider chosen of a list may be used.
LEMMA ChosenMayBeUsed ==
  ASSUME NEW p, NEW list, IsList(list)
  PROVE  LET choice == ChooseProvider(p, list)
         IN /\ IsList(choice.index) /\ IsList(choice.passed)
            /\ \A i \in DOMAIN choice.index :
                 /\ choice.index[i] \in DOMAIN list
                 /\ MayUse(p.constraints, list[choice.index[i]])
<1> DEFINE I == {i \in 1 .. Len(list) : MayUse(p.constraints, list[i])}
           usable == SelectInSeq(list, LAMBDA q : MayUse(p.constraints, q))
           passed == SubSeq(list, 1, IF usable = 0 THEN Len(list) ELSE usable - 1)
           IsDenied(q) == q \in ToSet(Get(p.constraints, "deniedProviders", <<>>))
           choice == ChooseProvider(p, list)
<1>1. Len(list) \in Nat /\ DOMAIN list = 1 .. Len(list) /\ list \in Seq(ToSet(list))
  BY ListItems
<1>2. usable = IF I # {} THEN Min(I) ELSE 0
  BY DEF SelectInSeq
<1>3. I # {} => Min(I) \in I
  <2> DEFINE J == I
  <2>1. J \subseteq Nat
    BY <1>1
  <2> HIDE DEF J
  <2>2. J # {} => Min(J) \in J
    BY <2>1, LeastPlace
  <2>3. QED
    BY <2>2 DEF J
<1>4. usable = 0 \/ (usable \in 1 .. Len(list) /\ MayUse(p.constraints, list[usable]))
  BY <1>2, <1>3
<1>5. /\ choice.index = IF usable = 0 THEN <<>> ELSE <<usable>>
      /\ choice.passed = [i \in DOMAIN passed |-> [provider |-> passed[i], denied |-> IsDenied(passed[i])]]
  BY DEF ChooseProvider
<1> HIDE DEF choice, usable, IsDenied
<1>6. IsList(passed)
  <2> DEFINE k == IF usable = 0 THEN Len(list) ELSE usable - 1
  <2>1. k \in 0 .. Len(list)
    BY <1>1, <1>4
  <2> HIDE DEF k
  <2>2. SubSeq(list, 1, k) \in Seq(ToSet(list))
    BY <1>1, <2>1
  <2>3. QED
    BY <2>2, SeqIsList DEF k
<1> HIDE DEF passed
<1>7. IsList(choice.passed)
  <2> DEFINE f == choice.passed
  <2>1. f = [i \in DOMAIN passed |-> f[i]]
    BY <1>5
  <2> HIDE DEF f
  <2>2. IsList(f)
    BY <1>6, <2>1, ByPlace
  <2>3. QED
    BY <2>2 DEF f
<1>8. /\ IsList(choice.index)
      /\ \A i \in DOMAIN choice.index : choice.index[i] = usable /\ usable # 0
  <2>1. CASE usable = 0
    BY <1>5, <2>1, ShortLists
  <2>2. CASE usable # 0
    <3>1. choice.index = <<usable>>
      BY <1>5, <2>2
    <3>2. IsList(<<usable>>) /\ DOMAIN <<usable>> = {1} /\ <<usable>>[1] = usable
      BY ShortLists
    <3>3. QED
      BY <2>2, <3>1, <3>2
  <2>3. QED
    BY <2>1, <2>2
<1>9. QED
  BY <1>1, <1>4, <1>7, <1>8 DEF choice

\* What static routing says of one model call is harmless.
LEMMA RouteHarmless ==
  ASSUME NEW p, NEW node,
         IsList(ReadList(PolicyMetadata(node, "staticRouting"), "candidates"))
  PROVE  LET route == RouteNode(p, node)
         IN /\ IsList(route.evidence) /\ IsList(route.warnings)
            /\ \A e \in ToSet(route.evidence) : IsEvidence(e) /\ IsHarmless(e, p.constraints)
            /\ \A w \in ToSet(route.warnings) : w.code # "duplicate_context_preserved"
<1> DEFINE policy == PolicyMetadata(node, "staticRouting")
           candidates == ReadList(policy, "candidates")
           Refuse(code) == [evidence |-> <<>>,
                            warnings |-> <<Warn(code, <<"node", node.id>>, "warning", "policy")>>]
           listed == [i \in DOMAIN candidates |-> candidates[i].provider]
           choice == ChooseProvider(p, listed)
           PassedOver(q) == Warn(IF q.denied THEN "static_routing_provider_denied"
                                 ELSE "static_routing_provider_not_allowed",
                                 <<"node", node.id>>, "warning", q.provider)
           routed == [i \in DOMAIN choice.index |->
                        [kind |-> "routing_decision", nodeId |-> node.id,
                         source |-> node.model.task, target |-> candidates[choice.index[i]]]]
           passed == [i \in DOMAIN choice.passed |-> PassedOver(choice.passed[i])]
           route == RouteNode(p, node)
<1>1. \/ route.evidence = <<>> /\ route.warnings = <<>>
      \/ \E code \in {"static_routing_ineligible_task", "static_routing_validator_missing"} :
           /\ route.evidence = <<>>
           /\ route.warnings = <<Warn(code, <<"node", node.id>>, "warning", "policy")>>
      \/ route.evidence = routed /\ route.warnings = passed
  <2>1. route = CASE candidates = <<>> -> [evidence |-> <<>>, warnings |-> <<>>]
       [] candidates # <<>> /\ node.model.task \notin {"classification", "ranking"} ->
            Refuse("static_routing_ineligible_task")
       [] OTHER ->
            IF ~HasRequiredValidators(p, policy) THEN Refuse("static_routing_validator_missing")
            ELSE [evidence |-> routed, warnings |-> passed]
    BY DEF RouteNode
  <2> HIDE DEF route, routed, passed, candidates, policy, PassedOver
  <2>2. CASE candidates = <<>>
    BY <2>1, <2>2
  <2>3. CASE candidates # <<>> /\ node.model.task \notin {"classification", "ranking"}
    BY <2>1, <2>3
  <2>4. CASE candidates # <<>> /\ node.model.task \in {"classification", "ranking"}
    BY <2>1, <2>4
  <2>5. QED
    BY <2>2, <2>3, <2>4
<1> HIDE DEF route, policy
<1>2. IsList(candidates)
  BY DEF policy
<1>3. IsList(listed) /\ DOMAIN listed = DOMAIN candidates
      /\ \A i \in DOMAIN candidates : listed[i] = candidates[i].provider
  <2> HIDE DEF candidates
  <2>1. QED
    BY <1>2, ByPlace
<1> HIDE DEF candidates, listed
<1>4. /\ IsList(choice.index) /\ IsList(choice.passed)
      /\ \A i \in DOMAIN choice.index :
           /\ choice.index[i] \in DOMAIN listed
           /\ MayUse(p.constraints, listed[choice.index[i]])
  BY <1>3, ChosenMayBeUsed
<1> HIDE DEF choice
<1>5. /\ IsList(routed)
      /\ \A e \in ToSet(routed) : IsEvidence(e) /\ IsHarmless(e, p.constraints)
  <2>1. /\ routed = [i \in DOMAIN choice.index |-> routed[i]]
        /\ \A i \in DOMAIN choice.index :
             /\ {"kind", "target"} \subseteq DOMAIN routed[i]
             /\ routed[i].kind = "routing_decision"
             /\ routed[i].target = candidates[choice.index[i]]
    OBVIOUS
  <2> HIDE DEF routed
  <2>2. IsList(routed) /\ \A x : x \in ToSet(routed) <=> \E i \in DOMAIN choice.index : x = routed[i]
    BY <1>4, <2>1, ByPlace
  <2>3. \A i \in DOMAIN choice.index : MayUse(p.constraints, routed[i].target.provider)
    BY <1>3, <1>4, <2>1
  <2>4. \A i \in DOMAIN choice.index : IsEvidence(routed[i]) /\ IsHarmless(routed[i], p.constraints)
    BY <2>1, <2>3 DEF IsEvidence, IsHarmless
  <2>5. QED
    BY <2>2, <2>4
<1>6. /\ IsList(passed)
      /\ \A w \in ToSet(passed) : w.code # "duplicate_context_preserved"
  <2>1. /\ passed = [i \in DOMAIN choice.passed |-> passed[i]]
        /\ \A i \in DOMAIN choice.passed : passed[i].code # "duplicate_context_preserved"
    BY WarnCode
  <2> HIDE DEF passed
  <2>2. IsList(passed) /\ \A x : x \in ToSet(passed) <=> \E i \in DOMAIN choice.passed : x = passed[i]
    BY <1>4, <2>1, ByPlace
  <2>3. QED
    BY <2>1, <2>2
<1> HIDE DEF routed, passed
<1> DEFINE Good == /\ IsList(route.evidence) /\ IsList(route.warnings)
                   /\ \A e \in ToSet(route.evidence) : IsEvidence(e) /\ IsHarmless(e, p.constraints)
                   /\ \A w \in ToSet(route.warnings) : w.code # "duplicate_context_preserved"
<1>7. ASSUME route.evidence = <<>>, route.warnings = <<>> PROVE Good
  BY <1>7, ShortLists
<1>8. ASSUME NEW code \in {"static_routing_ineligible_task", "static_routing_validator_missing"},
             route.evidence = <<>>,
             route.warnings = <<Warn(code, <<"node", node.id>>, "warning", "policy")>>
      PROVE  Good
  <2> DEFINE w == Warn(code, <<"node", node.id>>, "warning", "policy")
  <2>1. w.code = code
    BY WarnCode
  <2> HIDE DEF w
  <2>2. IsList(<<w>>) /\ ToSet(<<w>>) = {w}
    BY ShortLists
  <2>3. IsList(route.evidence) /\ ToSet(route.evidence) = {}
    BY <1>8, ShortLists
  <2>4. route.warnings = <<w>>
    BY <1>8 DEF w
  <2>5. QED
    BY <2>1, <2>2, <2>3, <2>4
<1>9. ASSUME route.evidence = routed, route.warnings = passed PROVE Good
  BY <1>5, <1>6, <1>9
<1>10. Good
  BY <1>1, <1>7, <1>8, <1>9
<1>11. QED
  BY <1>10 DEF route

\* Static routing changes no context and routes to providers that may be used.
LEMMA RoutingReports ==
  ASSUME NEW p, IsPlan(p), NEW providers
  PROVE  ReportsOnly(StaticRouting(p, providers), p)
<1> DEFINE calls == Where(p.nodes, LAMBDA n : n.kind = "model_call")
           routes == [i \in DOMAIN calls |-> RouteNode(p, calls[i])]
           told == [i \in DOMAIN routes |-> routes[i].evidence]
           cautions == [i \in DOMAIN routes |-> routes[i].warnings]
           result == StaticRouting(p, providers)
<1>1. /\ result.plan = p
      /\ result.evidence = Numbered("static-routing", FlattenSeq(told))
      /\ result.warnings = FlattenSeq(cautions)
  BY DEF StaticRouting
<1>2. IsList(calls) /\ \A i \in DOMAIN calls : IsNode(calls[i])
  <2>1. calls = Picked(p.nodes, {i \in DOMAIN p.nodes : p.nodes[i].kind = "model_call"})
    BY DEF Where, Picked
  <2>2. IsList(p.nodes) /\ DOMAIN p.nodes = 1 .. Len(p.nodes) /\ \A i \in DOMAIN p.nodes : IsNode(p.nodes[i])
    BY ListItems DEF IsPlan
  <2> HIDE DEF calls
  <2>3. /\ IsList(calls)
        /\ \A x : x \in ToSet(calls) => \E i \in 1 .. Len(p.nodes) : x = p.nodes[i]
    BY <2>1, <2>2, PickedItems
  <2>4. \A i \in DOMAIN calls : calls[i] \in ToSet(calls)
    BY DEF ToSet
  <2>5. QED
    BY <2>2, <2>3, <2>4
<1> HIDE DEF calls, result
<1>3. \A i \in DOMAIN calls :
        LET route == RouteNode(p, calls[i])
        IN /\ IsList(route.evidence) /\ IsList(route.warnings)
           /\ \A e \in ToSet(route.evidence) : IsEvidence(e) /\ IsHarmless(e, p.constraints)
           /\ \A w \in ToSet(route.warnings) : w.code # "duplicate_context_preserved"
  BY <1>2, RouteHarmless DEF IsNode
<1>4. DOMAIN routes = DOMAIN calls /\ \A i \in DOMAIN calls : routes[i] = RouteNode(p, calls[i])
  OBVIOUS
<1> HIDE DEF routes
<1>5. /\ IsList(FlattenSeq(told))
      /\ \A e \in ToSet(FlattenSeq(told)) : IsEvidence(e) /\ IsHarmless(e, p.constraints)
  <2>1. /\ told = [i \in DOMAIN calls |-> told[i]]
        /\ \A i \in DOMAIN calls : told[i] = RouteNode(p, calls[i]).evidence
    BY <1>4
  <2> HIDE DEF told
  <2>2. /\ IsList(FlattenSeq(told))
        /\ \A x : x \in ToSet(FlattenSeq(told)) <=> \E i \in DOMAIN calls : x \in ToSet(told[i])
    BY <1>2, <1>3, <2>1, JoinedByPlace
  <2>3. QED
    BY <1>3, <2>1, <2>2
<1>6. /\ IsList(FlattenSeq(cautions))
      /\ \A w \in ToSet(FlattenSeq(cautions)) : w.code # "duplicate_context_preserved"
  <2>1. /\ cautions = [i \in DOMAIN calls |-> cautions[i]]
        /\ \A i \in DOMAIN calls : cautions[i] = RouteNode(p, calls[i]).warnings
    BY <1>4
  <2> HIDE DEF cautions
  <2>2. /\ IsList(FlattenSeq(cautions))
        /\ \A x : x \in ToSet(FlattenSeq(cautions)) <=> \E i \in DOMAIN calls : x \in ToSet(cautions[i])
    BY <1>2, <1>3, <2>1, JoinedByPlace
  <2>3. QED
    BY <1>3, <2>1, <2>2
<1>7. /\ IsList(result.evidence)
      /\ \A e \in ToSet(result.evidence) : IsHarmless(e, p.constraints)
  <2> DEFINE events == FlattenSeq(told)
  <2> HIDE DEF events
  <2>1. IsList(events) /\ \A e \in ToSet(events) : IsEvidence(e) /\ IsHarmless(e, p.constraints)
    BY <1>5 DEF events
  <2>2. QED
    BY <1>1, <2>1, NumberedHarmless DEF events
<1>8. QED
  BY <1>1, <1>6, <1>7 DEF ReportsOnly, result

-----------------------------------------------------------------------------
\* A part of what the retry and fallback planning says.
IsSafePart(part, constraints) ==
  /\ IsList(part.evidence) /\ IsList(part.warnings)
  /\ \A e \in ToSet(part.evidence) : IsEvidence(e) /\ IsHarmless(e, constraints)
  /\ \A w \in ToSet(part.warnings) : w.code # "duplicate_context_preserved"

\* A decision is harmless if it falls back to a provider that may be used.
LEMMA DecisionHarmless ==
  ASSUME NEW decision, NEW nodeId, NEW more, NEW constraints,
         decision = "fallback" =>
           "fallbackTarget" \in DOMAIN more /\ MayUse(constraints, more.fallbackTarget)
  PROVE  LET e == RetryDecision(decision, nodeId, more)
         IN IsEvidence(e) /\ IsHarmless(e, constraints)
<1> DEFINE a == [kind |-> "retry_fallback_decision", decision |-> decision, nodeId |-> nodeId]
           e == RetryDecision(decision, nodeId, more)
<1>1. /\ DOMAIN a = {"kind", "decision", "nodeId"}
      /\ a.kind = "retry_fallback_decision" /\ a.decision = decision
  OBVIOUS
<1>2. e = Over(a, more)
  BY DEF RetryDecision
<1> HIDE DEF a, e
<1>3. /\ DOMAIN e = DOMAIN a \cup DOMAIN more
      /\ \A key \in DOMAIN a : e[key] = a[key]
      /\ \A key \in DOMAIN more : key \notin DOMAIN a => e[key] = more[key]
  <2>1. /\ DOMAIN Over(a, more) = DOMAIN a \cup DOMAIN more
        /\ \A key \in DOMAIN a : Over(a, more)[key] = a[key]
        /\ \A key \in DOMAIN more : key \notin DOMAIN a => Over(a, more)[key] = more[key]
    BY OverMembers
  <2>2. QED
    BY <1>2, <2>1
<1>4. e.kind = "retry_fallback_decision" /\ e.decision = decision
      /\ {"kind", "decision"} \subseteq DOMAIN e
  BY <1>1, <1>3
<1>5. decision = "fallback" =>
        "fallbackTarget" \in DOMAIN e /\ MayUse(constraints, e.fallbackTarget)
  BY <1>1, <1>3
<1>6. IsEvidence(e) /\ IsHarmless(e, constraints)
  BY <1>4, <1>5 DEF IsEvidence, IsHarmless
<1>7. QED
  BY <1>6 DEF e

\* The retry boundary of a validator.
LEMMA RetryHarmless ==
  ASSUME NEW p, NEW validator
  PROVE  IsSafePart(PlanRetry(p, validator), p.constraints)
<1> DEFINE part == PlanRetry(p, validator)
           path == <<"node", validator.id>>
           w == Warn("retry_boundary_missing_target", path, "warning", "none")
<1>1. \/ part.evidence = <<>> /\ part.warnings = <<w>>
      \/ \E nodeId, more : part.evidence = <<RetryDecision("retry", nodeId, more)>> /\ part.warnings = <<>>
  <2> DEFINE target == RetryTarget(p, validator)
             more == [validator |-> validator.id,
                      preserved |-> UpstreamNodeIds(p.edges, target[1].id)]
  <2>1. part = IF target = <<>> THEN [evidence |-> <<>>, warnings |-> <<w>>]
               ELSE [evidence |-> <<RetryDecision("retry", target[1].id, more)>>,
                     warnings |-> <<>>]
    BY DEF PlanRetry
  <2> HIDE DEF part, w, more, target
  <2>2. QED
    BY <2>1
<1>2. w.code = "retry_boundary_missing_target"
  BY WarnCode
<1> HIDE DEF part, w
<1>3. ASSUME part.evidence = <<>>, part.warnings = <<w>> PROVE IsSafePart(part, p.constraints)
  <2>1. IsList(part.evidence) /\ ToSet(part.evidence) = {}
    BY <1>3, ShortLists
  <2>2. IsList(part.warnings) /\ ToSet(part.warnings) = {w}
    BY <1>3, ShortLists
  <2>3. QED
    BY <1>2, <2>1, <2>2 DEF IsSafePart
<1>4. ASSUME NEW nodeId, NEW more, part.evidence = <<RetryDecision("retry", nodeId, more)>>,
             part.warnings = <<>>
      PROVE  IsSafePart(part, p.constraints)
  <2> DEFINE e == RetryDecision("retry", nodeId, more)
  <2>1. IsEvidence(e) /\ IsHarmless(e, p.constraints)
    BY DecisionHarmless
  <2> HIDE DEF e
  <2>2. IsList(<<e>>) /\ ToSet(<<e>>) = {e}
    BY ShortLists
  <2>3. part.evidence = <<e>>
    BY <1>4 DEF e
  <2>4. IsList(part.warnings) /\ ToSet(part.warnings) = {}
    BY <1>4, ShortLists
  <2>5. QED
    BY <2>1, <2>2, <2>3, <2>4 DEF IsSafePart
<1>5. QED
  BY <1>1, <1>3, <1>4 DEF part

\* What may not be retried and where to fall back, for one node.
LEMMA FallbackHarmless ==
  ASSUME NEW p, NEW node,
         IsList(ReadList(PolicyMetadata(node, "retryFallback"), "fallbackProviders"))
  PROVE  IsSafePart(PlanFallback(p, node), p.constraints)
<1> DEFINE policy == PolicyMetadata(node, "retryFallback")
           blocked == IsRetryBlocked(node, policy)
           path == <<"node", node.id>>
           list == IF node.kind = "model_call" THEN ReadList(policy, "fallbackProviders") ELSE <<>>
           choice == ChooseProvider(p, list)
           PassedOver(q) == Warn(IF q.denied THEN "fallback_provider_denied"
                                 ELSE "fallback_provider_not_allowed", path, "warning", q.provider)
           refusal == RetryDecision("not_retryable", node.id, <<>>)
           caution == Warn("retry_side_effect_not_retryable", path, "warning",
                           EffectiveSideEffectClass(policy))
           refused == IF blocked THEN <<refusal>> ELSE <<>>
           warned == IF blocked THEN <<caution>> ELSE <<>>
           chosen == [i \in DOMAIN choice.index |->
                        RetryDecision("fallback", node.id, [fallbackTarget |-> list[choice.index[i]]])]
           passed == [i \in DOMAIN choice.passed |-> PassedOver(choice.passed[i])]
           part == PlanFallback(p, node)
<1>1. part.evidence = refused \o chosen /\ part.warnings = warned \o passed
  BY DEF PlanFallback
<1>2. IsList(list)
  BY ShortLists
<1> HIDE DEF list, part
<1>3. /\ IsList(choice.index) /\ IsList(choice.passed)
      /\ \A i \in DOMAIN choice.index : MayUse(p.constraints, list[choice.index[i]])
  BY <1>2, ChosenMayBeUsed
<1> HIDE DEF choice
<1>4. IsList(chosen) /\ \A e \in ToSet(chosen) : IsEvidence(e) /\ IsHarmless(e, p.constraints)
  <2>1. /\ chosen = [i \in DOMAIN choice.index |-> chosen[i]]
        /\ \A i \in DOMAIN choice.index :
             chosen[i] = RetryDecision("fallback", node.id, [fallbackTarget |-> list[choice.index[i]]])
    OBVIOUS
  <2>2. ASSUME NEW i \in DOMAIN choice.index
        PROVE  IsEvidence(chosen[i]) /\ IsHarmless(chosen[i], p.constraints)
    <3> DEFINE more == [fallbackTarget |-> list[choice.index[i]]]
    <3>1. "fallbackTarget" \in DOMAIN more /\ MayUse(p.constraints, more.fallbackTarget)
      BY <1>3
    <3>2. chosen[i] = RetryDecision("fallback", node.id, more)
      BY <2>1
    <3> HIDE DEF more, chosen
    <3>3. QED
      BY <3>1, <3>2, DecisionHarmless
  <2> HIDE DEF chosen
  <2>3. IsList(chosen) /\ \A x : x \in ToSet(chosen) <=> \E i \in DOMAIN choice.index : x = chosen[i]
    BY <1>3, <2>1, ByPlace
  <2>4. QED
    BY <2>2, <2>3
<1>5. IsList(passed) /\ \A w \in ToSet(passed) : w.code # "duplicate_context_preserved"
  <2>1. /\ passed = [i \in DOMAIN choice.passed |-> passed[i]]
        /\ \A i \in DOMAIN choice.passed : passed[i].code # "duplicate_context_preserved"
    BY WarnCode
  <2> HIDE DEF passed
  <2>2. IsList(passed) /\ \A x : x \in ToSet(passed) <=> \E i \in DOMAIN choice.passed : x = passed[i]
    BY <1>3, <2>1, ByPlace
  <2>3. QED
    BY <2>1, <2>2
<1>6. IsList(refused) /\ \A e \in ToSet(refused) : IsEvidence(e) /\ IsHarmless(e, p.constraints)
  <2>1. IsEvidence(refusal) /\ IsHarmless(refusal, p.constraints)
    BY DecisionHarmless
  <2> HIDE DEF refusal, blocked
  <2>2. IsList(<<refusal>>) /\ ToSet(<<refusal>>) = {refusal} /\ IsList(<<>>) /\ ToSet(<<>>) = {}
    BY ShortLists
  <2>3. QED
    BY <2>1, <2>2
<1>7. IsList(warned) /\ \A w \in ToSet(warned) : w.code # "duplicate_context_preserved"
  <2>1. caution.code = "retry_side_effect_not_retryable"
    BY WarnCode
  <2> HIDE DEF caution, blocked
  <2>2. IsList(<<caution>>) /\ ToSet(<<caution>>) = {caution} /\ IsList(<<>>) /\ ToSet(<<>>) = {}
    BY ShortLists
  <2>3. QED
    BY <2>1, <2>2
<1> HIDE DEF refused, warned, chosen, passed
<1>8. /\ IsList(refused \o chosen) /\ ToSet(refused \o chosen) = ToSet(refused) \cup ToSet(chosen)
      /\ IsList(warned \o passed) /\ ToSet(warned \o passed) = ToSet(warned) \cup ToSet(passed)
  BY <1>4, <1>5, <1>6, <1>7, JoinedLists
<1>9. IsSafePart(part, p.constraints)
  BY <1>1, <1>4, <1>5, <1>6, <1>7, <1>8 DEF IsSafePart
<1>10. QED
  BY <1>9 DEF part

\* The planning of retries and fallbacks changes no context and falls back to providers
\* that may be used.
LEMMA FallbacksReport ==
  ASSUME NEW p, IsPlan(p), NEW providers
  PROVE  ReportsOnly(RetryFallback(p, providers), p)
<1> DEFINE validators == Where(p.nodes, LAMBDA n : n.kind = "validator"
                                          /\ Get(n, "failurePolicy", "none") = "retry_node")
           retries == [i \in DOMAIN validators |-> PlanRetry(p, validators[i])]
           fallbacks == [i \in DOMAIN p.nodes |-> PlanFallback(p, p.nodes[i])]
           parts == retries \o fallbacks
           told == [i \in DOMAIN parts |-> parts[i].evidence]
           cautions == [i \in DOMAIN parts |-> parts[i].warnings]
           result == RetryFallback(p, providers)
<1>1. /\ result.plan = p
      /\ result.evidence = Numbered("retry-fallback", FlattenSeq(told))
      /\ result.warnings = FlattenSeq(cautions)
  BY DEF RetryFallback
<1>2. IsList(p.nodes) /\ \A i \in DOMAIN p.nodes : IsNode(p.nodes[i])
  BY DEF IsPlan
<1>3. IsList(validators)
  <2>1. validators = Picked(p.nodes, {i \in DOMAIN p.nodes : p.nodes[i].kind = "validator"
                                       /\ Get(p.nodes[i], "failurePolicy", "none") = "retry_node"})
    BY DEF Where, Picked
  <2> HIDE DEF validators
  <2>2. QED
    BY <1>2, <2>1, PickedItems
<1> HIDE DEF validators, result
<1>4. IsList(retries) /\ \A x \in ToSet(retries) : IsSafePart(x, p.constraints)
  <2>1. retries = [i \in DOMAIN validators |-> retries[i]]
        /\ \A i \in DOMAIN validators : IsSafePart(retries[i], p.constraints)
    BY RetryHarmless
  <2> HIDE DEF retries
  <2>2. IsList(retries) /\ \A x : x \in ToSet(retries) <=> \E i \in DOMAIN validators : x = retries[i]
    BY <1>3, <2>1, ByPlace
  <2>3. QED
    BY <2>1, <2>2
<1>5. IsList(fallbacks) /\ \A x \in ToSet(fallbacks) : IsSafePart(x, p.constraints)
  <2>1. fallbacks = [i \in DOMAIN p.nodes |-> fallbacks[i]]
        /\ \A i \in DOMAIN p.nodes : IsSafePart(fallbacks[i], p.constraints)
    <3>1. \A i \in DOMAIN p.nodes :
            IsList(ReadList(PolicyMetadata(p.nodes[i], "retryFallback"), "fallbackProviders"))
      BY <1>2 DEF IsNode
    <3>2. QED
      BY <3>1, FallbackHarmless
  <2> HIDE DEF fallbacks
  <2>2. IsList(fallbacks) /\ \A x : x \in ToSet(fallbacks) <=> \E i \in DOMAIN p.nodes : x = fallbacks[i]
    BY <1>2, <2>1, ByPlace
  <2>3. QED
    BY <2>1, <2>2
<1> HIDE DEF retries, fallbacks
<1>6. IsList(parts) /\ \A i \in DOMAIN parts : IsSafePart(parts[i], p.constraints)
  <2>1. IsList(retries \o fallbacks)
        /\ ToSet(retries \o fallbacks) = ToSet(retries) \cup ToSet(fallbacks)
    BY <1>4, <1>5, JoinedLists
  <2> HIDE DEF parts
  <2>2. \A i \in DOMAIN parts : parts[i] \in ToSet(parts)
    BY DEF ToSet
  <2>3. QED
    BY <1>4, <1>5, <2>1, <2>2 DEF parts
<1> HIDE DEF parts
<1>7. /\ IsList(FlattenSeq(told))
      /\ \A e \in ToSet(FlattenSeq(told)) : IsEvidence(e) /\ IsHarmless(e, p.constraints)
  <2>1. told = [i \in DOMAIN parts |-> told[i]] /\ \A i \in DOMAIN parts : told[i] = parts[i].evidence
    OBVIOUS
  <2>2. \A i \in DOMAIN parts :
          IsList(parts[i].evidence)
          /\ \A e \in ToSet(parts[i].evidence) : IsEvidence(e) /\ IsHarmless(e, p.constraints)
    BY <1>6 DEF IsSafePart
  <2> HIDE DEF told
  <2>3. /\ IsList(FlattenSeq(told))
        /\ \A x : x \in ToSet(FlattenSeq(told)) <=> \E i \in DOMAIN parts : x \in ToSet(told[i])
    BY <1>6, <2>1, <2>2, JoinedByPlace
  <2>4. QED
    BY <2>1, <2>2, <2>3
<1>8. /\ IsList(FlattenSeq(cautions))
      /\ \A w \in ToSet(FlattenSeq(cautions)) : w.code # "duplicate_context_preserved"
  <2>1. cautions = [i \in DOMAIN parts |-> cautions[i]]
        /\ \A i \in DOMAIN parts : cautions[i] = parts[i].warnings
    OBVIOUS
  <2>2. \A i \in DOMAIN parts :
          IsList(parts[i].warnings)
          /\ \A w \in ToSet(parts[i].warnings) : w.code # "duplicate_context_preserved"
    BY <1>6 DEF IsSafePart
  <2> HIDE DEF cautions
  <2>3. /\ IsList(FlattenSeq(cautions))
        /\ \A x : x \in ToSet(FlattenSeq(cautions)) <=> \E i \in DOMAIN parts : x \in ToSet(cautions[i])
    BY <1>6, <2>1, <2>2, JoinedByPlace
  <2>4. QED
    BY <2>1, <2>2, <2>3
<1>9. /\ IsList(result.evidence)
      /\ \A e \in ToSet(result.evidence) : IsHarmless(e, p.constraints)
  <2> DEFINE events == FlattenSeq(told)
  <2> HIDE DEF events
  <2>1. IsList(events) /\ \A e \in ToSet(events) : IsEvidence(e) /\ IsHarmless(e, p.constraints)
    BY <1>7 DEF events
  <2>2. QED
    BY <1>1, <2>1, NumberedHarmless DEF events
<1>10. QED
  BY <1>1, <1>8, <1>9 DEF ReportsOnly, result

-----------------------------------------------------------------------------
\* The blocks of a plan, as a set: no two have one id, and a reference has one hash.
LEMMA BlocksOfPlan ==
  ASSUME NEW p, IsPlan(p)
  PROVE  /\ IsList(p.context)
         /\ \A b \in ToSet(p.context) : IsBlock(b)
         /\ \A a, b \in ToSet(p.context) : a.id = b.id => a = b
         /\ \A a, b \in ToSet(p.context) :
              a.contentRef = b.contentRef /\ HashOf(a) # Blank /\ HashOf(b) # Blank
                => HashOf(a) = HashOf(b)
         /\ IdsIn(p.context) = {b.id : b \in ToSet(p.context)}
<1> DEFINE blocks == p.context
<1>1. /\ IsList(blocks)
      /\ \A i \in DOMAIN blocks : IsBlock(blocks[i])
      /\ \A i, j \in DOMAIN blocks : blocks[i].id = blocks[j].id => i = j
      /\ \A i, j \in DOMAIN blocks :
           blocks[i].contentRef = blocks[j].contentRef
             /\ Blank \notin {HashOf(blocks[i]), HashOf(blocks[j])}
             => HashOf(blocks[i]) = HashOf(blocks[j])
  BY DEF IsPlan
<1> HIDE DEF blocks
<1>2. ToSet(blocks) = {blocks[i] : i \in DOMAIN blocks}
  BY DEF ToSet
<1>3. \A a, b \in ToSet(blocks) : a.id = b.id => a = b
  BY <1>1, <1>2
<1>4. \A a, b \in ToSet(blocks) :
        a.contentRef = b.contentRef /\ HashOf(a) # Blank /\ HashOf(b) # Blank
          => HashOf(a) = HashOf(b)
  BY <1>1, <1>2
<1>5. IdsIn(blocks) = {b.id : b \in ToSet(blocks)}
  BY <1>2 DEF IdsIn
<1>6. QED
  BY <1>1, <1>2, <1>3, <1>4, <1>5 DEF blocks

\* One of some blocks is the first with its key and another one comes after it.
Matches(blocks, c, d) ==
  /\ c \in blocks /\ d \in blocks
  /\ DuplicateKey(c) # <<>> /\ DuplicateKey(d) = DuplicateKey(c)
  /\ c.id < d.id
  /\ \A b \in blocks : DuplicateKey(b) = DuplicateKey(c) => c.id <= b.id

\* The pairs of duplicates are the first block of each key with each of the others.
LEMMA PairsMatch ==
  ASSUME NEW p, IsPlan(p)
  PROVE  /\ IsList(DuplicatePairs(p))
         /\ \A x : x \in ToSet(DuplicatePairs(p)) <=>
              \E c, d : Matches(ToSet(p.context), c, d) /\ x = [canonical |-> c, candidate |-> d]
<1> DEFINE blocks == p.context
           all == LedgerOrder(blocks)
           n == Len(all)
           keys == [i \in DOMAIN all |-> DuplicateKey(all[i])]
           IsFirst(i) == keys[i] # <<>> /\ \A j \in 1 .. i - 1 : keys[j] # keys[i]
           Pair(i, j) == IF j > i /\ keys[j] = keys[i]
                         THEN <<[canonical |-> all[i], candidate |-> all[j]]>> ELSE <<>>
           row(i) == [j \in DOMAIN all |-> Pair(i, j)]
           Others(i) == IF IsFirst(i) THEN FlattenSeq(row(i)) ELSE <<>>
           rows == [i \in DOMAIN all |-> Others(i)]
<1>1. DuplicatePairs(p) = FlattenSeq(rows)
  BY DEF DuplicatePairs
<1>2. /\ IsList(blocks)
      /\ \A i \in 1 .. Len(blocks) : blocks[i].id \in Nat
      /\ \A i, j \in 1 .. Len(blocks) : blocks[i].id = blocks[j].id => i = j
  <2>1. IsList(p.context) /\ DOMAIN p.context = 1 .. Len(p.context)
    BY ListItems DEF IsPlan
  <2>2. QED
    BY <2>1 DEF IsPlan, IsBlock
<1>3. /\ IsList(all) /\ ToSet(all) = ToSet(blocks)
      /\ \A k, l \in 1 .. n : k < l => all[k].id < all[l].id
  <2> HIDE DEF blocks
  <2>1. QED
    BY <1>2, LedgerIsSorted
<1>4. /\ n \in Nat /\ DOMAIN all = 1 .. n
      /\ \A x : x \in ToSet(blocks) <=> \E i \in 1 .. n : x = all[i]
  BY <1>3, ListItems
<1>5. \A i \in 1 .. n : all[i].id \in Nat /\ all[i] \in ToSet(blocks)
  <2>1. \A b \in ToSet(blocks) : b.id \in Nat
    BY BlocksOfPlan DEF IsBlock
  <2>2. QED
    BY <1>4, <2>1
<1> HIDE DEF blocks, all, n
<1>6. \A i \in 1 .. n : keys[i] = DuplicateKey(all[i])
  BY <1>4
<1> HIDE DEF keys
<1>7. ASSUME NEW i \in 1 .. n, NEW j \in 1 .. n
      PROVE  /\ IsList(Pair(i, j))
             /\ \A x : x \in ToSet(Pair(i, j)) <=>
                  j > i /\ keys[j] = keys[i] /\ x = [canonical |-> all[i], candidate |-> all[j]]
  <2> DEFINE y == [canonical |-> all[i], candidate |-> all[j]]
  <2>1. Pair(i, j) = IF j > i /\ keys[j] = keys[i] THEN <<y>> ELSE <<>>
    OBVIOUS
  <2> HIDE DEF Pair, y
  <2>2. /\ IsList(Pair(i, j))
        /\ \A x : x \in ToSet(Pair(i, j)) <=> j > i /\ keys[j] = keys[i] /\ x = y
    BY <2>1, ShortLists
  <2>3. QED
    BY <2>2 DEF y
<1> HIDE DEF Pair
<1>8. ASSUME NEW i \in 1 .. n
      PROVE  /\ IsList(Others(i))
             /\ \A x : x \in ToSet(Others(i)) <=>
                  /\ IsFirst(i)
                  /\ \E j \in 1 .. n : /\ j > i /\ keys[j] = keys[i]
                                       /\ x = [canonical |-> all[i], candidate |-> all[j]]
  <2> DEFINE f == row(i)
  <2>1. f = [j \in DOMAIN all |-> f[j]] /\ \A j \in DOMAIN all : f[j] = Pair(i, j)
    OBVIOUS
  <2> HIDE DEF f
  <2>2. \A j \in DOMAIN all : IsList(f[j])
    BY <1>4, <1>7, <2>1
  <2>3. /\ IsList(FlattenSeq(f))
        /\ \A x : x \in ToSet(FlattenSeq(f)) <=> \E j \in DOMAIN all : x \in ToSet(f[j])
    BY <1>3, <2>1, <2>2, JoinedByPlace
  <2>4. Others(i) = IF IsFirst(i) THEN FlattenSeq(f) ELSE <<>>
    BY DEF f
  <2> HIDE DEF Others, IsFirst
  <2>5. QED
    BY <1>4, <1>7, <2>1, <2>3, <2>4, ShortLists
<1>9. /\ IsList(FlattenSeq(rows))
      /\ \A x : x \in ToSet(FlattenSeq(rows)) <=> \E i \in 1 .. n : x \in ToSet(Others(i))
  <2>1. rows = [i \in DOMAIN all |-> rows[i]] /\ \A i \in DOMAIN all : rows[i] = Others(i)
    OBVIOUS
  <2> HIDE DEF rows, Others
  <2>2. \A i \in DOMAIN all : IsList(rows[i])
    BY <1>4, <1>8, <2>1
  <2>3. /\ IsList(FlattenSeq(rows))
        /\ \A x : x \in ToSet(FlattenSeq(rows)) <=> \E i \in DOMAIN all : x \in ToSet(rows[i])
    BY <1>3, <2>1, <2>2, JoinedByPlace
  <2>4. QED
    BY <1>4, <2>1, <2>3
<1> HIDE DEF rows, Others, row
<1>10. ASSUME NEW i \in 1 .. n, NEW j \in 1 .. n
       PROVE  IsFirst(i) /\ j > i /\ keys[j] = keys[i] <=> Matches(ToSet(blocks), all[i], all[j])
  <2>1. ASSUME IsFirst(i), j > i, keys[j] = keys[i] PROVE Matches(ToSet(blocks), all[i], all[j])
    <3>1. all[i].id < all[j].id
      BY <1>3, <2>1
    <3>2. \A b \in ToSet(blocks) : DuplicateKey(b) = DuplicateKey(all[i]) => all[i].id <= b.id
      <4> SUFFICES ASSUME NEW b \in ToSet(blocks), DuplicateKey(b) = DuplicateKey(all[i])
                   PROVE  all[i].id <= b.id
        OBVIOUS
      <4>1. PICK k \in 1 .. n : b = all[k]
        BY <1>4
      <4>2. keys[k] = keys[i]
        BY <1>6, <4>1
      <4>3. ~(k < i)
        BY <1>4, <2>1, <4>2
      <4>4. k = i \/ i < k
        BY <1>4, <4>3
      <4>5. all[i].id \in Nat
        BY <1>5
      <4>6. k = i \/ (all[i].id < all[k].id /\ all[k].id \in Nat)
        BY <1>3, <1>5, <4>4
      <4>7. QED
        BY <4>1, <4>5, <4>6
    <3>3. DuplicateKey(all[i]) # <<>> /\ DuplicateKey(all[j]) = DuplicateKey(all[i])
      BY <1>6, <2>1
    <3>4. QED
      BY <1>5, <3>1, <3>2, <3>3 DEF Matches
  <2>2. ASSUME Matches(ToSet(blocks), all[i], all[j]) PROVE IsFirst(i) /\ j > i /\ keys[j] = keys[i]
    <3>1. keys[i] # <<>> /\ keys[j] = keys[i]
      BY <1>6, <2>2 DEF Matches
    <3>2. all[i].id < all[j].id /\ all[i].id \in Nat /\ all[j].id \in Nat
      BY <1>5, <2>2 DEF Matches
    <3>3. j > i
      <4>1. ~(j < i)
        <5>1. j < i => all[j].id < all[i].id
          BY <1>3
        <5>2. QED
          BY <3>2, <5>1
      <4>2. j # i
        BY <3>2
      <4>3. QED
        BY <1>4, <4>1, <4>2
    <3>4. ASSUME NEW k \in 1 .. i - 1, keys[k] = keys[i] PROVE FALSE
      <4>1. k \in 1 .. n /\ k < i
        BY <1>4
      <4>2. DuplicateKey(all[k]) = DuplicateKey(all[i]) /\ all[k] \in ToSet(blocks)
        BY <1>5, <1>6, <3>4, <4>1
      <4>3. all[i].id <= all[k].id
        BY <2>2, <4>2 DEF Matches
      <4>4. all[k].id < all[i].id /\ all[k].id \in Nat
        BY <1>3, <1>5, <4>1
      <4>5. QED
        BY <3>2, <4>3, <4>4
    <3>5. QED
      BY <3>1, <3>3, <3>4
  <2>3. QED
    BY <2>1, <2>2
<1> HIDE DEF IsFirst
<1>11. ASSUME NEW x
       PROVE  x \in ToSet(FlattenSeq(rows)) <=>
                \E c, d : Matches(ToSet(blocks), c, d) /\ x = [canonical |-> c, candidate |-> d]
  <2>1. x \in ToSet(FlattenSeq(rows)) <=>
          \E i, j \in 1 .. n : /\ Matches(ToSet(blocks), all[i], all[j])
                               /\ x = [canonical |-> all[i], candidate |-> all[j]]
    BY <1>8, <1>9, <1>10
  <2>2. ASSUME NEW c, NEW d, Matches(ToSet(blocks), c, d)
        PROVE  \E i, j \in 1 .. n : c = all[i] /\ d = all[j]
    BY <1>4, <2>2 DEF Matches
  <2>3. QED
    BY <2>1, <2>2
<1>12. QED
  BY <1>1, <1>9, <1>11 DEF blocks

\* A pair is known by its candidate, and no candidate is the first block of a pair.
LEMMA PairsAreApart ==
  ASSUME NEW p, IsPlan(p)
  PROVE  /\ \A x \in ToSet(DuplicatePairs(p)) :
              /\ Matches(ToSet(p.context), x.canonical, x.candidate)
              /\ x = [canonical |-> x.canonical, candidate |-> x.candidate]
         /\ \A x, y \in ToSet(DuplicatePairs(p)) : x.candidate.id = y.candidate.id => x = y
         /\ \A x, y \in ToSet(DuplicatePairs(p)) : x.canonical.id # y.candidate.id
<1> DEFINE blocks == ToSet(p.context)
<1>1. \A a, b \in blocks : a.id = b.id => a = b
  BY BlocksOfPlan
<1>2. \A b \in blocks : b.id \in Nat
  BY BlocksOfPlan DEF IsBlock
<1> HIDE DEF blocks
<1>3. ASSUME NEW x \in ToSet(DuplicatePairs(p))
      PROVE  /\ Matches(blocks, x.canonical, x.candidate)
             /\ x = [canonical |-> x.canonical, candidate |-> x.candidate]
  <2>1. PICK c, d : Matches(blocks, c, d) /\ x = [canonical |-> c, candidate |-> d]
    BY PairsMatch DEF blocks
  <2>2. x.canonical = c /\ x.candidate = d
    BY <2>1
  <2>3. QED
    BY <2>1, <2>2
<1>4. ASSUME NEW x \in ToSet(DuplicatePairs(p)), NEW y \in ToSet(DuplicatePairs(p)),
             x.candidate.id = y.candidate.id
      PROVE  x = y
  <2>1. Matches(blocks, x.canonical, x.candidate) /\ Matches(blocks, y.canonical, y.candidate)
    BY <1>3
  <2>2. x.candidate = y.candidate
    BY <1>1, <1>4, <2>1 DEF Matches
  <2>3. x.canonical.id <= y.canonical.id /\ y.canonical.id <= x.canonical.id
    BY <2>1, <2>2 DEF Matches
  <2>4. x.canonical.id \in Nat /\ y.canonical.id \in Nat
    BY <1>2, <2>1 DEF Matches
  <2>5. x.canonical = y.canonical
    BY <1>1, <2>1, <2>3, <2>4 DEF Matches
  <2>6. QED
    BY <1>3, <2>2, <2>5
<1>5. ASSUME NEW x \in ToSet(DuplicatePairs(p)), NEW y \in ToSet(DuplicatePairs(p)),
             x.canonical.id = y.candidate.id
      PROVE  FALSE
  <2>1. Matches(blocks, x.canonical, x.candidate) /\ Matches(blocks, y.canonical, y.candidate)
    BY <1>3
  <2>2. x.canonical = y.candidate
    BY <1>1, <1>5, <2>1 DEF Matches
  <2>3. x.canonical.id <= y.canonical.id /\ y.canonical.id < x.canonical.id
    BY <2>1, <2>2 DEF Matches
  <2>4. x.canonical.id \in Nat /\ y.canonical.id \in Nat
    BY <1>2, <2>1 DEF Matches
  <2>5. QED
    BY <2>3, <2>4
<1>6. QED
  BY <1>3, <1>4, <1>5 DEF blocks

-----------------------------------------------------------------------------
\* Why a pair of a plan is preserved.
ReasonOf(p, x) == PreservationReason(x.canonical, x.candidate, ProtectedOutputContextIds(p))

\* The blocks of the first plan that a pass may remove, and those that were.
DropIds(first) ==
  {x.candidate.id : x \in {y \in ToSet(DuplicatePairs(first)) : ReasonOf(first, y) = "none"}}
RemovedIds(first, p) == IdsIn(first.context) \ IdsIn(p.context)

AllIds(first) == IdsIn(first.context) \cup ContextIdsOf(first)

\* What a node reads of the first plan's blocks: roles and contents, without repetitions.
BlockOf(first, id) == CHOOSE b \in ToSet(first.context) : b.id = id
MessageOf(first, b) == <<b.role, ContentOf(first.context, b.contentRef)>>
Said(first) ==
  [id \in AllIds(first) |-> IF id \in IdsIn(first.context)
                            THEN <<MessageOf(first, BlockOf(first, id))>> ELSE <<>>]
Reading(first, node) == Distinct(Spread(Get(node, "inputContext", <<>>), Said(first)))

\* A node is the one it was but for the blocks it reads.
IsLike(a, b) ==
  /\ DOMAIN b = DOMAIN a
  /\ \A key \in DOMAIN a : key \notin {"inputContext", "queryContext"} => b[key] = a[key]

\* What the passes leave of the first plan.
IsLeft(first, p) ==
  /\ IsPlan(first) /\ IsPlan(p)
  /\ p.constraints = first.constraints
  /\ ToSet(p.context) \subseteq ToSet(first.context)
  /\ \A b \in ToSet(first.context) : b \notin ToSet(p.context) => b.id \in DropIds(first)
  /\ Len(p.nodes) = Len(first.nodes)
  /\ \A i \in DOMAIN first.nodes :
       /\ IsLike(first.nodes[i], p.nodes[i])
       /\ Reading(first, p.nodes[i]) = Reading(first, first.nodes[i])
  /\ ContextIdsOf(p) \subseteq AllIds(first)
  /\ ContextIdsOf(p) \cap RemovedIds(first, p) = {}

\* The first plan is what is left before any pass.
LEMMA FirstIsLeft ==
  ASSUME NEW first, IsPlan(first)
  PROVE  IsLeft(first, first)
BY DEF IsLeft, IsLike, AllIds, RemovedIds

\* A duplicate that is removed has the role of the block that stays, and no node writes it.
LEMMA NoReason ==
  ASSUME NEW c, NEW d, NEW ids, PreservationReason(c, d, ids) = "none"
  PROVE  c.role = d.role /\ d.id \notin ids
BY DEF PreservationReason

\* Two blocks with one key have one content.
LEMMA EqualKeysEqualContent ==
  ASSUME NEW p, IsPlan(p), NEW c \in ToSet(p.context), NEW d \in ToSet(p.context),
         DuplicateKey(c) = DuplicateKey(d), DuplicateKey(c) # <<>>
  PROVE  ContentOf(p.context, c.contentRef) = ContentOf(p.context, d.contentRef)
<1> DEFINE Hashed(ref) == {b \in ToSet(p.context) : b.contentRef = ref /\ HashOf(b) # Blank}
<1>1. \A a, b \in ToSet(p.context) :
        a.contentRef = b.contentRef /\ HashOf(a) # Blank /\ HashOf(b) # Blank
          => HashOf(a) = HashOf(b)
  BY BlocksOfPlan
<1>2. ASSUME NEW b \in ToSet(p.context), HashOf(b) # Blank
      PROVE  /\ DuplicateKey(b) = <<"hash", HashOf(b)>>
             /\ ContentOf(p.context, b.contentRef) = <<"hash", HashOf(b)>>
  <2>1. HashOf(b) = b.contentHash /\ DuplicateKey(b) = <<"hash", HashOf(b)>>
    BY <1>2 DEF HashOf, Get, DuplicateKey
  <2> DEFINE H == Hashed(b.contentRef)
             chosen == CHOOSE a \in H : TRUE
  <2>2. b \in H
    BY <1>2
  <2>3. chosen \in H
    BY <2>2
  <2>4. HashOf(chosen) = HashOf(b)
    BY <1>1, <1>2, <2>3
  <2>5. ContentOf(p.context, b.contentRef) = IF H = {} THEN <<"ref", b.contentRef>> ELSE <<"hash", HashOf(chosen)>>
    BY DEF ContentOf
  <2> HIDE DEF H, chosen
  <2>6. QED
    BY <2>1, <2>2, <2>4, <2>5
<1>3. \A b : HashOf(b) = Blank => DuplicateKey(b) = <<>> \/ DuplicateKey(b) = <<"ref", b.contentRef>>
  BY DEF HashOf, Get, DuplicateKey
<1>4. CASE HashOf(c) # Blank /\ HashOf(d) # Blank
  BY <1>2, <1>4
<1>5. CASE HashOf(c) = Blank /\ HashOf(d) = Blank
  BY <1>3, <1>5
<1>6. CASE HashOf(c) = Blank /\ HashOf(d) # Blank
  BY <1>2, <1>3, <1>6
<1>7. CASE HashOf(c) # Blank /\ HashOf(d) = Blank
  BY <1>2, <1>3, <1>7
<1>8. QED
  BY <1>4, <1>5, <1>6, <1>7

\* What is said of an id: what its block says, or nothing.
LEMMA SaidOfIds ==
  ASSUME NEW first, IsPlan(first)
  PROVE  /\ \A id \in AllIds(first) : AtMostOne(Said(first)[id])
         /\ \A b \in ToSet(first.context) : /\ BlockOf(first, b.id) = b
                                            /\ b.id \in AllIds(first)
                                            /\ Said(first)[b.id] = <<MessageOf(first, b)>>
         /\ \A id \in AllIds(first) : id \notin IdsIn(first.context) => Said(first)[id] = <<>>
<1>1. \A id \in AllIds(first) : AtMostOne(Said(first)[id])
  BY DEF Said, AtMostOne
<1>2. /\ \A a, b \in ToSet(first.context) : a.id = b.id => a = b
      /\ IdsIn(first.context) = {b.id : b \in ToSet(first.context)}
  BY BlocksOfPlan
<1>3. ASSUME NEW b \in ToSet(first.context)
      PROVE  BlockOf(first, b.id) = b /\ b.id \in AllIds(first) /\ b.id \in IdsIn(first.context)
  <2>1. BlockOf(first, b.id) \in ToSet(first.context) /\ BlockOf(first, b.id).id = b.id
    BY DEF BlockOf
  <2>2. QED
    BY <1>2, <2>1 DEF AllIds
<1>4. \A b \in ToSet(first.context) : Said(first)[b.id] = <<MessageOf(first, b)>>
  BY <1>3 DEF Said
<1>5. \A id \in AllIds(first) : id \notin IdsIn(first.context) => Said(first)[id] = <<>>
  BY DEF Said
<1>6. QED
  BY <1>1, <1>3, <1>4, <1>5

\* The duplicate and the block that stays say the same.
LEMMA PairsSaySame ==
  ASSUME NEW first, IsPlan(first), NEW x \in ToSet(DuplicatePairs(first)), ReasonOf(first, x) = "none"
  PROVE  Said(first)[x.canonical.id] = Said(first)[x.candidate.id]
<1>1. Matches(ToSet(first.context), x.canonical, x.candidate)
  BY PairsAreApart
<1>2. x.canonical.role = x.candidate.role
  BY NoReason DEF ReasonOf
<1>3. x.canonical \in ToSet(first.context) /\ x.candidate \in ToSet(first.context)
  BY <1>1 DEF Matches
<1>4. ContentOf(first.context, x.canonical.contentRef) = ContentOf(first.context, x.candidate.contentRef)
  BY <1>1, <1>3, EqualKeysEqualContent DEF Matches
<1>5. MessageOf(first, x.canonical) = MessageOf(first, x.candidate)
  BY <1>2, <1>4 DEF MessageOf
<1>6. \A b \in ToSet(first.context) : Said(first)[b.id] = <<MessageOf(first, b)>>
  BY SaidOfIds
<1>7. /\ Said(first)[x.canonical.id] = <<MessageOf(first, x.canonical)>>
      /\ Said(first)[x.candidate.id] = <<MessageOf(first, x.candidate)>>
  BY <1>3, <1>6
<1>8. QED
  BY <1>5, <1>7

\* What a plan writes is not removed.
LEMMA DropsAreNotWritten ==
  ASSUME NEW first
  PROVE  DropIds(first) \cap ProtectedOutputContextIds(first) = {}
BY NoReason DEF DropIds, ReasonOf

\* One plan has the nodes of another one, but for what they read.
AreLike(first, p) ==
  /\ IsPlan(first) /\ IsPlan(p)
  /\ Len(p.nodes) = Len(first.nodes)
  /\ \A i \in DOMAIN first.nodes : IsLike(first.nodes[i], p.nodes[i])

\* Nodes that are alike have one id and one kind and write the same.
LEMMA LikeNodes ==
  ASSUME NEW first, NEW p, AreLike(first, p)
  PROVE  /\ DOMAIN p.nodes = DOMAIN first.nodes
         /\ DOMAIN first.nodes = 1 .. Len(first.nodes)
         /\ \A i \in DOMAIN first.nodes : /\ IsNode(first.nodes[i]) /\ IsNode(p.nodes[i])
                                          /\ p.nodes[i].kind = first.nodes[i].kind
                                          /\ p.nodes[i].id = first.nodes[i].id
         /\ ProtectedOutputContextIds(p) = ProtectedOutputContextIds(first)
<1>1. IsList(first.nodes) /\ IsList(p.nodes) /\ Len(p.nodes) = Len(first.nodes)
  BY DEF AreLike, IsPlan
<1>2. DOMAIN p.nodes = DOMAIN first.nodes /\ DOMAIN first.nodes = 1 .. Len(first.nodes)
  BY <1>1, ListItems
<1>3. \A i \in DOMAIN first.nodes : IsNode(first.nodes[i]) /\ IsNode(p.nodes[i])
                                     /\ IsLike(first.nodes[i], p.nodes[i])
  BY <1>2 DEF AreLike, IsPlan
<1>4. \A i \in DOMAIN first.nodes : p.nodes[i].kind = first.nodes[i].kind /\ p.nodes[i].id = first.nodes[i].id
  BY <1>3 DEF IsLike, IsNode
<1>5. ASSUME NEW i \in DOMAIN first.nodes
      PROVE  /\ Has(p.nodes[i], "outputContext") <=> Has(first.nodes[i], "outputContext")
             /\ Has(first.nodes[i], "outputContext") => p.nodes[i].outputContext = first.nodes[i].outputContext
             /\ first.nodes[i].kind = "retrieval_call" =>
                  p.nodes[i].resultContext = first.nodes[i].resultContext
  BY <1>3 DEF IsLike, IsNode, Has
<1> DEFINE Written(q) == {q.nodes[i].outputContext : i \in {j \in DOMAIN q.nodes : Has(q.nodes[j], "outputContext")}}
           Found(q) == {q.nodes[i].resultContext : i \in {j \in DOMAIN q.nodes : q.nodes[j].kind = "retrieval_call"}}
<1>6. Written(p) = Written(first)
  <2>1. {j \in DOMAIN p.nodes : Has(p.nodes[j], "outputContext")} = {j \in DOMAIN first.nodes : Has(first.nodes[j], "outputContext")}
    BY <1>2, <1>5
  <2>2. QED
    BY <1>5, <2>1
<1>7. Found(p) = Found(first)
  <2>1. {j \in DOMAIN p.nodes : p.nodes[j].kind = "retrieval_call"} = {j \in DOMAIN first.nodes : first.nodes[j].kind = "retrieval_call"}
    BY <1>2, <1>4
  <2>2. QED
    BY <1>5, <2>1
<1>8. ProtectedOutputContextIds(p) = ProtectedOutputContextIds(first)
  BY <1>6, <1>7 DEF ProtectedOutputContextIds
<1>9. QED
  BY <1>2, <1>3, <1>4, <1>8

\* What the passes leave has the nodes of the first plan, but for what they read.
LEMMA NodesOfWhatIsLeft ==
  ASSUME NEW first, NEW p, IsLeft(first, p)
  PROVE  /\ DOMAIN p.nodes = DOMAIN first.nodes
         /\ DOMAIN first.nodes = 1 .. Len(first.nodes)
         /\ \A i \in DOMAIN first.nodes : /\ IsNode(first.nodes[i]) /\ IsNode(p.nodes[i])
                                          /\ p.nodes[i].kind = first.nodes[i].kind
                                          /\ p.nodes[i].id = first.nodes[i].id
         /\ ProtectedOutputContextIds(p) = ProtectedOutputContextIds(first)
<1>1. AreLike(first, p)
  BY DEF IsLeft, AreLike
<1>2. QED
  BY <1>1, LikeNodes

\* The pairs of what is left are those of the first plan whose candidates are left.
LEMMA PairsOfWhatIsLeft ==
  ASSUME NEW first, NEW p, IsLeft(first, p)
  PROVE  /\ \A x : x \in ToSet(DuplicatePairs(p)) <=>
                     x \in ToSet(DuplicatePairs(first)) /\ x.candidate \in ToSet(p.context)
         /\ \A x \in ToSet(DuplicatePairs(first)) : x.canonical \in ToSet(p.context)
         /\ \A x : ReasonOf(p, x) = ReasonOf(first, x)
<1>1. IsPlan(first) /\ IsPlan(p) /\ ToSet(p.context) \subseteq ToSet(first.context)
  BY DEF IsLeft
<1>2. ASSUME NEW x \in ToSet(DuplicatePairs(first))
      PROVE  x.canonical \in ToSet(p.context)
  <2>1. x.canonical \in ToSet(first.context)
    BY <1>1, PairsAreApart DEF Matches
  <2>2. x.canonical.id \notin DropIds(first)
    BY <1>1, PairsAreApart DEF DropIds
  <2>3. QED
    BY <2>1, <2>2 DEF IsLeft
<1>3. ASSUME NEW c, NEW d
      PROVE  Matches(ToSet(p.context), c, d) <=> Matches(ToSet(first.context), c, d) /\ d \in ToSet(p.context)
  <2>1. ASSUME Matches(ToSet(first.context), c, d), d \in ToSet(p.context)
        PROVE  Matches(ToSet(p.context), c, d)
    <3>1. [canonical |-> c, candidate |-> d] \in ToSet(DuplicatePairs(first))
      BY <1>1, <2>1, PairsMatch
    <3>2. c \in ToSet(p.context)
      BY <1>2, <3>1
    <3>3. QED
      BY <1>1, <2>1, <3>2 DEF Matches
  <2>2. ASSUME Matches(ToSet(p.context), c, d)
        PROVE  Matches(ToSet(first.context), c, d)
    <3>1. \A b \in ToSet(first.context) : b.id \in Nat
      BY <1>1, BlocksOfPlan DEF IsBlock
    <3>2. PICK b \in ToSet(first.context) :
            /\ DuplicateKey(b) = DuplicateKey(c)
            /\ \A e \in ToSet(first.context) : DuplicateKey(e) = DuplicateKey(c) => b.id <= e.id
      <4> DEFINE same == {e \in ToSet(first.context) : DuplicateKey(e) = DuplicateKey(c)}
                 ids == {e.id : e \in same}
      <4>1. ids \subseteq Nat /\ ids # {}
        BY <1>1, <2>2, <3>1 DEF Matches
      <4>2. Min(ids) \in ids /\ \A i \in ids : Min(ids) <= i
        <5> HIDE DEF ids
        <5>1. QED
          BY <4>1, LeastPlace
      <4>3. QED
        BY <4>2
    <3>3. b.id <= c.id /\ c.id < d.id /\ b.id \in Nat /\ c.id \in Nat /\ d.id \in Nat
          /\ d \in ToSet(first.context)
      BY <1>1, <2>2, <3>1, <3>2 DEF Matches
    <3>4. Matches(ToSet(first.context), b, d)
      <4>1. b.id < d.id
        BY <3>3
      <4>2. QED
        BY <2>2, <3>2, <3>3, <4>1 DEF Matches
    <3>5. b \in ToSet(p.context)
      <4>1. [canonical |-> b, candidate |-> d] \in ToSet(DuplicatePairs(first))
        BY <1>1, <3>4, PairsMatch
      <4>2. QED
        BY <1>2, <4>1
    <3>6. c.id <= b.id
      BY <2>2, <3>2, <3>5 DEF Matches
    <3>7. b = c
      <4>1. b.id = c.id
        BY <3>3, <3>6
      <4>2. c \in ToSet(first.context)
        BY <1>1, <2>2 DEF Matches
      <4>3. QED
        BY <1>1, <4>1, <4>2, BlocksOfPlan
    <3>8. QED
      BY <3>4, <3>7
  <2>3. QED
    BY <2>1, <2>2 DEF Matches
<1>4. \A x : x \in ToSet(DuplicatePairs(p)) <=>
               x \in ToSet(DuplicatePairs(first)) /\ x.candidate \in ToSet(p.context)
  <2> TAKE x
  <2>1. x \in ToSet(DuplicatePairs(p)) <=>
          \E c, d : Matches(ToSet(p.context), c, d) /\ x = [canonical |-> c, candidate |-> d]
    BY <1>1, PairsMatch
  <2>2. x \in ToSet(DuplicatePairs(first)) <=>
          \E c, d : Matches(ToSet(first.context), c, d) /\ x = [canonical |-> c, candidate |-> d]
    BY <1>1, PairsMatch
  <2>3. \A c, d : x = [canonical |-> c, candidate |-> d] => x.candidate = d
    OBVIOUS
  <2>4. QED
    BY <1>3, <2>1, <2>2, <2>3
<1>5. \A x : ReasonOf(p, x) = ReasonOf(first, x)
  BY NodesOfWhatIsLeft DEF ReasonOf
<1>6. QED
  BY <1>2, <1>4, <1>5

-----------------------------------------------------------------------------
\* Rewritten ids are the ids with those of the duplicates replaced.
LEMMA RewrittenIds ==
  ASSUME NEW ids, IsList(ids), NEW r
  PROVE  /\ IsList(RewriteIds(ids, r))
         /\ \A x : x \in ToSet(RewriteIds(ids, r)) <=> \E id \in ToSet(ids) : x = Get(r, id, id)
<1> DEFINE mapped == [i \in DOMAIN ids |-> Get(r, ids[i], ids[i])]
<1>1. /\ mapped = [i \in DOMAIN ids |-> mapped[i]]
      /\ \A i \in DOMAIN ids : mapped[i] = Get(r, ids[i], ids[i])
  OBVIOUS
<1>2. RewriteIds(ids, r) = Distinct(mapped)
  BY DEF RewriteIds
<1> HIDE DEF mapped
<1>3. IsList(mapped) /\ \A x : x \in ToSet(mapped) <=> \E i \in DOMAIN ids : x = mapped[i]
  BY <1>1, ByPlace
<1>4. IsList(RewriteIds(ids, r)) /\ ToSet(RewriteIds(ids, r)) = ToSet(mapped)
  BY <1>2, <1>3, DistinctItems
<1>5. DOMAIN ids = 1 .. Len(ids) /\ \A x : x \in ToSet(ids) <=> \E i \in 1 .. Len(ids) : x = ids[i]
  BY ListItems
<1>6. QED
  BY <1>1, <1>3, <1>4, <1>5

\* Rewritten ids say what the ids said, if each replacement does.
LEMMA RewrittenIdsSaySame ==
  ASSUME NEW first, IsPlan(first), NEW ids, IsList(ids), ToSet(ids) \subseteq AllIds(first),
         NEW r, \A id \in DOMAIN r : /\ r[id] \in AllIds(first)
                                     /\ Said(first)[r[id]] = Said(first)[id]
  PROVE  Distinct(Spread(RewriteIds(ids, r), Said(first))) = Distinct(Spread(ids, Said(first)))
<1> DEFINE mapped == [i \in DOMAIN ids |-> Get(r, ids[i], ids[i])]
           H == Said(first)
<1>1. /\ mapped = [i \in DOMAIN ids |-> mapped[i]] /\ DOMAIN mapped = DOMAIN ids
      /\ \A i \in DOMAIN ids : mapped[i] = Get(r, ids[i], ids[i])
  OBVIOUS
<1>2. RewriteIds(ids, r) = Distinct(mapped)
  BY DEF RewriteIds
<1> HIDE DEF mapped, H
<1>3. \A id \in AllIds(first) : AtMostOne(H[id])
  BY SaidOfIds DEF H
<1>4. IsList(mapped) /\ \A x : x \in ToSet(mapped) <=> \E i \in DOMAIN ids : x = mapped[i]
  BY <1>1, ByPlace
<1>5. ASSUME NEW i \in DOMAIN ids
      PROVE  H[mapped[i]] = H[ids[i]] /\ mapped[i] \in AllIds(first)
  <2>1. ids[i] \in AllIds(first)
    BY ListItems DEF ToSet
  <2>2. mapped[i] = IF ids[i] \in DOMAIN r THEN r[ids[i]] ELSE ids[i]
    BY <1>1 DEF Get
  <2>3. QED
    BY <2>1, <2>2 DEF H
<1>6. \A x \in ToSet(mapped) : AtMostOne(H[x])
  BY <1>3, <1>4, <1>5
<1>7. Distinct(Spread(Distinct(mapped), H)) = Distinct(Spread(mapped, H))
  BY <1>4, <1>6, DistinctSpread
<1>8. Spread(mapped, H) = Spread(ids, H)
  <2>1. [k \in DOMAIN mapped |-> H[mapped[k]]] = [k \in DOMAIN ids |-> H[ids[k]]]
    BY <1>1, <1>5
  <2>2. QED
    BY <2>1 DEF Spread
<1>9. QED
  BY <1>2, <1>7, <1>8 DEF H

\* The ids that a plan's nodes and edges name.
LEMMA NamedIds ==
  ASSUME NEW p
  PROVE  \A x : x \in ContextIdsOf(p) <=>
           \/ \E i \in DOMAIN p.nodes : x \in ToSet(Get(p.nodes[i], "inputContext", <<>>))
           \/ x \in ProtectedOutputContextIds(p)
           \/ \E i \in DOMAIN p.nodes :
                p.nodes[i].kind = "retrieval_call" /\ x = p.nodes[i].queryContext
           \/ \E i \in DOMAIN p.edges : x \in ToSet(Get(p.edges[i], "contextIds", <<>>))
<1> DEFINE Reads(i) == ToSet(Get(p.nodes[i], "inputContext", <<>>))
           Carries(i) == ToSet(Get(p.edges[i], "contextIds", <<>>))
           Calls == {j \in DOMAIN p.nodes : p.nodes[j].kind = "retrieval_call"}
<1>1. ContextIdsOf(p) = (UNION {Reads(i) : i \in DOMAIN p.nodes}) \cup ProtectedOutputContextIds(p)
                          \cup {p.nodes[i].queryContext : i \in Calls}
                          \cup (UNION {Carries(i) : i \in DOMAIN p.edges})
  BY DEF ContextIdsOf
<1>2. \A i : i \in Calls <=> i \in DOMAIN p.nodes /\ p.nodes[i].kind = "retrieval_call"
  OBVIOUS
<1> HIDE DEF Reads, Carries, Calls
<1>3. \A x : x \in ContextIdsOf(p) <=>
        \/ \E i \in DOMAIN p.nodes : x \in Reads(i)
        \/ x \in ProtectedOutputContextIds(p)
        \/ \E i \in Calls : x = p.nodes[i].queryContext
        \/ \E i \in DOMAIN p.edges : x \in Carries(i)
  BY <1>1
<1>4. QED
  BY <1>2, <1>3, Zenon DEF Reads, Carries

\* A rewritten node is the node but for what it reads.
LEMMA RewrittenNode ==
  ASSUME NEW node, IsNode(node), NEW r
  PROVE  LET new == RewriteNode(node, r)
         IN /\ IsNode(new) /\ IsLike(node, new)
            /\ Has(node, "inputContext") =>
                 new.inputContext = RewriteIds(node.inputContext, r)
            /\ node.kind = "retrieval_call" =>
                 new.queryContext = Get(r, node.queryContext, node.queryContext)
<1> DEFINE new == RewriteNode(node, r)
<1>1. /\ DOMAIN new = DOMAIN node
      /\ \A key \in DOMAIN node : key \notin {"inputContext", "queryContext"} => new[key] = node[key]
      /\ "inputContext" \in DOMAIN node => new["inputContext"] = RewriteIds(node["inputContext"], r)
      /\ "queryContext" \in DOMAIN node /\ node.kind = "retrieval_call" =>
           new["queryContext"] = Get(r, node["queryContext"], node["queryContext"])
  BY DEF RewriteNode
<1> HIDE DEF new
<1>2. IsLike(node, new)
  BY <1>1 DEF IsLike
<1>3. {"id", "kind"} \subseteq DOMAIN node /\ new.kind = node.kind
  BY <1>1 DEF IsNode
<1>4. \A key, default : key \notin {"inputContext", "queryContext"} =>
        Get(new, key, default) = Get(node, key, default)
  BY <1>1 DEF Get
<1>5. \A key : PolicyMetadata(new, key) = PolicyMetadata(node, key)
  BY <1>4 DEF PolicyMetadata
<1>6. Has(new, "inputContext") => IsList(new.inputContext)
  BY <1>1, RewrittenIds DEF IsNode, Has
<1>7. IsNode(new)
  BY <1>1, <1>3, <1>5, <1>6 DEF IsNode
<1>8. QED
  BY <1>1, <1>2, <1>3, <1>7 DEF new, Has, IsNode

-----------------------------------------------------------------------------
\* The blocks that are not replaced.
Kept(p, r) == Picked(p.context, {i \in DOMAIN p.context : p.context[i].id \notin DOMAIN r})

\* The members of a rewritten plan.
LEMMA RewrittenPlan ==
  ASSUME NEW p, IsPlan(p), NEW r, DOMAIN r # {}
  PROVE  /\ DOMAIN RewritePlan(p, r) = DOMAIN p
         /\ RewritePlan(p, r).constraints = p.constraints
         /\ RewritePlan(p, r).context = Kept(p, r)
         /\ RewritePlan(p, r).nodes = [i \in DOMAIN p.nodes |-> RewriteNode(p.nodes[i], r)]
         /\ RewritePlan(p, r).edges = [i \in DOMAIN p.edges |-> RewriteEdge(p.edges[i], r)]
<1> DEFINE left == Where(p.context, LAMBDA block : block.id \notin DOMAIN r)
           nodes == [i \in DOMAIN p.nodes |-> RewriteNode(p.nodes[i], r)]
           edges == [i \in DOMAIN p.edges |-> RewriteEdge(p.edges[i], r)]
<1>1. RewritePlan(p, r) = [p EXCEPT !.context = left, !.nodes = nodes, !.edges = edges]
  BY DEF RewritePlan
<1>2. left = Kept(p, r)
  BY DEF Where, Picked, Kept
<1>3. {"context", "nodes", "edges", "constraints"} \subseteq DOMAIN p
  BY DEF IsPlan
<1> HIDE DEF left, nodes, edges
<1>4. LET q == RewritePlan(p, r)
      IN /\ DOMAIN q = DOMAIN p /\ q.constraints = p.constraints
         /\ q.context = left /\ q.nodes = nodes /\ q.edges = edges
  BY <1>1, <1>3
<1>5. QED
  BY <1>2, <1>4 DEF nodes, edges

\* A rewritten plan is a plan; its blocks are those that are not replaced.
LEMMA RewrittenPlanIsPlan ==
  ASSUME NEW p, IsPlan(p), NEW r, DOMAIN r # {}
  PROVE  /\ IsPlan(RewritePlan(p, r))
         /\ AreLike(p, RewritePlan(p, r))
         /\ \A b : b \in ToSet(RewritePlan(p, r).context) <=>
                     b \in ToSet(p.context) /\ b.id \notin DOMAIN r
<1> DEFINE q == RewritePlan(p, r)
           places == {i \in DOMAIN p.context : p.context[i].id \notin DOMAIN r}
<1>1. /\ DOMAIN q = DOMAIN p /\ q.constraints = p.constraints
      /\ q.context = Kept(p, r)
      /\ q.nodes = [i \in DOMAIN p.nodes |-> RewriteNode(p.nodes[i], r)]
      /\ q.edges = [i \in DOMAIN p.edges |-> RewriteEdge(p.edges[i], r)]
  BY RewrittenPlan
<1>2. /\ {"context", "nodes", "edges", "constraints"} \subseteq DOMAIN p
      /\ IsList(p.context) /\ IsList(p.nodes) /\ IsList(p.edges)
      /\ IsList(Get(p.constraints, "requiredValidators", <<>>))
      /\ \A i \in DOMAIN p.nodes : IsNode(p.nodes[i])
      /\ \A i \in DOMAIN p.edges : IsList(Get(p.edges[i], "contextIds", <<>>))
  BY DEF IsPlan
<1>3. /\ \A b \in ToSet(p.context) : IsBlock(b)
      /\ \A a, b \in ToSet(p.context) : a.id = b.id => a = b
      /\ \A a, b \in ToSet(p.context) :
           a.contentRef = b.contentRef /\ HashOf(a) # Blank /\ HashOf(b) # Blank
             => HashOf(a) = HashOf(b)
  BY BlocksOfPlan
<1>4. \A i, j \in DOMAIN p.context : p.context[i].id = p.context[j].id => i = j
  BY DEF IsPlan
<1> HIDE DEF q
<1>5. DOMAIN p.context = 1 .. Len(p.context)
      /\ \A x : x \in ToSet(p.context) <=> \E i \in 1 .. Len(p.context) : x = p.context[i]
  BY <1>2, ListItems
<1>6. \A i : i \in places <=> i \in 1 .. Len(p.context) /\ p.context[i].id \notin DOMAIN r
  BY <1>5
<1> HIDE DEF places
<1>7. /\ IsList(q.context) /\ IsInjective(q.context)
      /\ \A x : x \in ToSet(q.context) <=>
           \E i \in 1 .. Len(p.context) : i \in places /\ x = p.context[i]
  <2>1. \A i, j \in 1 .. Len(p.context) : p.context[i] = p.context[j] => i = j
    BY <1>4, <1>5
  <2>2. q.context = Picked(p.context, places)
    BY <1>1 DEF Kept, places
  <2>3. QED
    BY <1>2, <2>1, <2>2, PickedItems
<1>8. \A b : b \in ToSet(q.context) <=> b \in ToSet(p.context) /\ b.id \notin DOMAIN r
  BY <1>5, <1>6, <1>7
<1>9. /\ \A i \in DOMAIN q.context : q.context[i] \in ToSet(p.context)
      /\ \A i, j \in DOMAIN q.context : q.context[i] = q.context[j] => i = j
  <2>1. \A i \in DOMAIN q.context : q.context[i] \in ToSet(q.context)
    BY DEF ToSet
  <2>2. \A i, j \in DOMAIN q.context : q.context[i] = q.context[j] => i = j
    BY <1>7 DEF IsInjective
  <2>3. QED
    BY <1>8, <2>1, <2>2
<1>10. /\ \A i \in DOMAIN q.context : IsBlock(q.context[i])
       /\ \A i, j \in DOMAIN q.context :
            /\ q.context[i].id = q.context[j].id => i = j
            /\ q.context[i].contentRef = q.context[j].contentRef
                 /\ Blank \notin {HashOf(q.context[i]), HashOf(q.context[j])}
                 => HashOf(q.context[i]) = HashOf(q.context[j])
  BY <1>3, <1>9
<1>11. /\ IsList(q.nodes) /\ Len(q.nodes) = Len(p.nodes) /\ DOMAIN q.nodes = DOMAIN p.nodes
       /\ \A i \in DOMAIN p.nodes : q.nodes[i] = RewriteNode(p.nodes[i], r)
  <2>1. \A i \in DOMAIN p.nodes : q.nodes[i] = RewriteNode(p.nodes[i], r)
    BY <1>1
  <2>2. q.nodes = [i \in DOMAIN p.nodes |-> q.nodes[i]]
    BY <1>1
  <2>3. QED
    BY <1>2, <2>1, <2>2, ByPlace
<1>12. \A i \in DOMAIN p.nodes : IsNode(q.nodes[i]) /\ IsLike(p.nodes[i], q.nodes[i])
  BY <1>2, <1>11, RewrittenNode
<1>13. /\ IsList(q.edges) /\ DOMAIN q.edges = DOMAIN p.edges
       /\ \A i \in DOMAIN p.edges : q.edges[i] = RewriteEdge(p.edges[i], r)
  <2>1. \A i \in DOMAIN p.edges : q.edges[i] = RewriteEdge(p.edges[i], r)
    BY <1>1
  <2>2. q.edges = [i \in DOMAIN p.edges |-> q.edges[i]]
    BY <1>1
  <2>3. QED
    BY <1>2, <2>1, <2>2, ByPlace
<1>14. \A i \in DOMAIN q.edges : IsList(Get(q.edges[i], "contextIds", <<>>))
  <2> SUFFICES ASSUME NEW i \in DOMAIN p.edges PROVE IsList(Get(q.edges[i], "contextIds", <<>>))
    BY <1>13
  <2> DEFINE edge == p.edges[i]
             new == RewriteEdge(edge, r)
  <2>1. /\ DOMAIN new = DOMAIN edge
        /\ "contextIds" \in DOMAIN edge => new["contextIds"] = RewriteIds(edge["contextIds"], r)
    BY DEF RewriteEdge
  <2>2. IsList(Get(edge, "contextIds", <<>>)) /\ q.edges[i] = new
    BY <1>2, <1>13
  <2> HIDE DEF edge, new
  <2>3. CASE "contextIds" \in DOMAIN edge
    <3>1. IsList(edge["contextIds"])
      BY <2>2, <2>3 DEF Get
    <3>2. IsList(RewriteIds(edge["contextIds"], r))
      BY <3>1, RewrittenIds
    <3>3. QED
      BY <2>1, <2>2, <2>3, <3>2 DEF Get
  <2>4. CASE "contextIds" \notin DOMAIN edge
    BY <2>1, <2>2, <2>4, ShortLists DEF Get
  <2>5. QED
    BY <2>3, <2>4
<1>15. IsPlan(q)
  BY <1>1, <1>2, <1>7, <1>10, <1>11, <1>12, <1>13, <1>14 DEF IsPlan
<1>16. AreLike(p, q)
  BY <1>11, <1>12, <1>15 DEF AreLike
<1>17. QED
  BY <1>8, <1>15, <1>16 DEF q

-----------------------------------------------------------------------------
\* Replacements of blocks that may be removed by blocks that stay and say the same.
AreSafe(first, p, r) ==
  /\ DOMAIN r \subseteq DropIds(first)
  /\ \A id \in DOMAIN r : /\ r[id] \in IdsIn(p.context)
                          /\ r[id] \notin DropIds(first)
                          /\ Said(first)[r[id]] = Said(first)[id]

\* The ids of a rewritten plan.
LEMMA IdsOfRewrittenPlan ==
  ASSUME NEW first, NEW p, IsLeft(first, p), NEW r, DOMAIN r # {}, AreSafe(first, p, r)
  PROVE  \A id : id \in IdsIn(RewritePlan(p, r).context) <=> id \in IdsIn(p.context) /\ id \notin DOMAIN r
<1> DEFINE q == RewritePlan(p, r)
<1>1. IsPlan(p)
  BY DEF IsLeft
<1>2. IsPlan(q) /\ \A b : b \in ToSet(q.context) <=> b \in ToSet(p.context) /\ b.id \notin DOMAIN r
  BY <1>1, RewrittenPlanIsPlan
<1> HIDE DEF q
<1>3. /\ IdsIn(p.context) = {b.id : b \in ToSet(p.context)}
      /\ IdsIn(q.context) = {b.id : b \in ToSet(q.context)}
  BY <1>1, <1>2, BlocksOfPlan
<1>4. QED
  BY <1>2, <1>3 DEF q

\* What is named of a rewritten plan is not removed from it.
LEMMA NamedIdsAreLeft ==
  ASSUME NEW first, NEW p, IsLeft(first, p), NEW r, DOMAIN r # {}, AreSafe(first, p, r),
         NEW x \in ContextIdsOf(RewritePlan(p, r))
  PROVE  x \in AllIds(first) /\ x \notin RemovedIds(first, RewritePlan(p, r))
<1> DEFINE q == RewritePlan(p, r)
           Fits(y) == y \in AllIds(first) /\ y \notin RemovedIds(first, q)
<1>1. IsPlan(first) /\ IsPlan(p) /\ ContextIdsOf(p) \subseteq AllIds(first)
      /\ ContextIdsOf(p) \cap RemovedIds(first, p) = {}
      /\ ToSet(p.context) \subseteq ToSet(first.context)
  BY DEF IsLeft
<1>2. \A id : id \in IdsIn(q.context) <=> id \in IdsIn(p.context) /\ id \notin DOMAIN r
  BY IdsOfRewrittenPlan
<1>3. IdsIn(p.context) \subseteq IdsIn(first.context)
  BY <1>1, BlocksOfPlan
<1>4. IsPlan(q) /\ AreLike(p, q)
  BY <1>1, RewrittenPlanIsPlan
<1>5. \A id \in ContextIdsOf(p) : id \notin DOMAIN r => Fits(id)
  BY <1>1, <1>2 DEF RemovedIds
<1>6. \A id \in DOMAIN r : Fits(r[id])
  BY <1>2, <1>3 DEF AreSafe, RemovedIds, AllIds
<1>7. \A id \in ContextIdsOf(p) : Fits(Get(r, id, id))
  BY <1>5, <1>6 DEF Get
<1>8. \A id \in ProtectedOutputContextIds(p) : Fits(id)
  <2>1. ProtectedOutputContextIds(p) \cap DropIds(first) = {}
    BY NodesOfWhatIsLeft, DropsAreNotWritten
  <2>2. ProtectedOutputContextIds(p) \subseteq ContextIdsOf(p)
    BY NamedIds
  <2>3. QED
    BY <1>5, <2>1, <2>2 DEF AreSafe
<1>9. /\ DOMAIN q.nodes = DOMAIN p.nodes
      /\ ProtectedOutputContextIds(q) = ProtectedOutputContextIds(p)
      /\ \A i \in DOMAIN p.nodes : q.nodes[i].kind = p.nodes[i].kind /\ IsNode(p.nodes[i])
  BY <1>4, LikeNodes
<1>10. /\ \A i \in DOMAIN p.nodes : q.nodes[i] = RewriteNode(p.nodes[i], r)
       /\ DOMAIN q.edges = DOMAIN p.edges
       /\ \A i \in DOMAIN p.edges : q.edges[i] = RewriteEdge(p.edges[i], r)
  <2>1. /\ q.nodes = [i \in DOMAIN p.nodes |-> RewriteNode(p.nodes[i], r)]
        /\ q.edges = [i \in DOMAIN p.edges |-> RewriteEdge(p.edges[i], r)]
    BY <1>1, RewrittenPlan
  <2> HIDE DEF q
  <2>2. QED
    BY <2>1
<1> HIDE DEF q, Fits
<1>11. x \in ContextIdsOf(q)
  BY DEF q
<1>12. ASSUME NEW i \in DOMAIN q.nodes, x \in ToSet(Get(q.nodes[i], "inputContext", <<>>))
       PROVE  Fits(x)
  <2>1. q.nodes[i] = RewriteNode(p.nodes[i], r) /\ IsNode(p.nodes[i])
    BY <1>9, <1>10
  <2>2. Has(p.nodes[i], "inputContext") /\ x \in ToSet(RewriteIds(p.nodes[i].inputContext, r))
    <3>1. IsLike(p.nodes[i], q.nodes[i])
          /\ (Has(p.nodes[i], "inputContext") =>
                q.nodes[i].inputContext = RewriteIds(p.nodes[i].inputContext, r))
      BY <2>1, RewrittenNode
    <3>2. Has(q.nodes[i], "inputContext")
      BY <1>12, ShortLists DEF Get, Has
    <3>3. QED
      BY <1>12, <3>1, <3>2 DEF IsLike, Has, Get
  <2>3. IsList(p.nodes[i].inputContext)
    BY <2>1, <2>2 DEF IsNode
  <2>4. PICK id \in ToSet(p.nodes[i].inputContext) : x = Get(r, id, id)
    BY <2>2, <2>3, RewrittenIds
  <2>5. id \in ContextIdsOf(p)
    <3>1. id \in ToSet(Get(p.nodes[i], "inputContext", <<>>))
      BY <2>2 DEF Get, Has
    <3>2. QED
      BY <1>9, <1>12, <3>1, NamedIds
  <2>6. QED
    BY <1>7, <2>4, <2>5
<1>13. ASSUME NEW i \in DOMAIN q.nodes, q.nodes[i].kind = "retrieval_call", x = q.nodes[i].queryContext
       PROVE  Fits(x)
  <2>1. q.nodes[i] = RewriteNode(p.nodes[i], r) /\ IsNode(p.nodes[i])
        /\ p.nodes[i].kind = "retrieval_call" /\ i \in DOMAIN p.nodes
    BY <1>9, <1>10, <1>13
  <2>2. x = Get(r, p.nodes[i].queryContext, p.nodes[i].queryContext)
    BY <1>13, <2>1, RewrittenNode
  <2>3. p.nodes[i].queryContext \in ContextIdsOf(p)
    BY <2>1, NamedIds
  <2>4. QED
    BY <1>7, <2>2, <2>3
<1>14. ASSUME NEW i \in DOMAIN q.edges, x \in ToSet(Get(q.edges[i], "contextIds", <<>>))
       PROVE  Fits(x)
  <2> DEFINE edge == p.edges[i]
             new == RewriteEdge(edge, r)
  <2>1. /\ DOMAIN new = DOMAIN edge
        /\ "contextIds" \in DOMAIN edge => new["contextIds"] = RewriteIds(edge["contextIds"], r)
    BY DEF RewriteEdge
  <2>2. q.edges[i] = new /\ i \in DOMAIN p.edges
    BY <1>10, <1>14
  <2>3. IsList(Get(edge, "contextIds", <<>>))
    BY <1>1, <2>2 DEF IsPlan
  <2>4. \A id : id \in ToSet(Get(edge, "contextIds", <<>>)) => id \in ContextIdsOf(p)
    BY <2>2, NamedIds
  <2> HIDE DEF edge, new
  <2>5. "contextIds" \in DOMAIN edge
    BY <1>14, <2>1, <2>2, ShortLists DEF Get
  <2>6. IsList(edge["contextIds"]) /\ x \in ToSet(RewriteIds(edge["contextIds"], r))
    BY <1>14, <2>1, <2>2, <2>3, <2>5 DEF Get
  <2>7. PICK id \in ToSet(edge["contextIds"]) : x = Get(r, id, id)
    BY <2>6, RewrittenIds
  <2>8. id \in ContextIdsOf(p)
    BY <2>4, <2>5, <2>7 DEF Get
  <2>9. QED
    BY <1>7, <2>7, <2>8
<1>15. \/ \E i \in DOMAIN q.nodes : x \in ToSet(Get(q.nodes[i], "inputContext", <<>>))
       \/ x \in ProtectedOutputContextIds(q)
       \/ \E i \in DOMAIN q.nodes : q.nodes[i].kind = "retrieval_call" /\ x = q.nodes[i].queryContext
       \/ \E i \in DOMAIN q.edges : x \in ToSet(Get(q.edges[i], "contextIds", <<>>))
  BY <1>11, NamedIds
<1>16. Fits(x)
  BY <1>8, <1>9, <1>12, <1>13, <1>14, <1>15
<1>17. QED
  BY <1>16 DEF Fits, q

\* A rewritten plan is still what the passes may leave of the first one.
LEMMA RewrittenPlanIsLeft ==
  ASSUME NEW first, NEW p, IsLeft(first, p), NEW r, DOMAIN r # {}, AreSafe(first, p, r)
  PROVE  IsLeft(first, RewritePlan(p, r))
<1> DEFINE q == RewritePlan(p, r)
<1>1. /\ IsPlan(first) /\ IsPlan(p) /\ p.constraints = first.constraints
      /\ ToSet(p.context) \subseteq ToSet(first.context)
      /\ \A b \in ToSet(first.context) : b \notin ToSet(p.context) => b.id \in DropIds(first)
      /\ Len(p.nodes) = Len(first.nodes)
      /\ \A i \in DOMAIN first.nodes : /\ IsLike(first.nodes[i], p.nodes[i])
                                       /\ Reading(first, p.nodes[i]) = Reading(first, first.nodes[i])
      /\ ContextIdsOf(p) \subseteq AllIds(first)
  BY DEF IsLeft
<1>2. /\ IsPlan(q) /\ AreLike(p, q)
      /\ \A b : b \in ToSet(q.context) <=> b \in ToSet(p.context) /\ b.id \notin DOMAIN r
  BY <1>1, RewrittenPlanIsPlan
<1>3. /\ q.constraints = p.constraints
      /\ \A i \in DOMAIN p.nodes : q.nodes[i] = RewriteNode(p.nodes[i], r)
  <2>1. IsPlan(p)
    BY <1>1
  <2>2. q.constraints = p.constraints
    BY <2>1, RewrittenPlan
  <2>3. /\ q.nodes = [i \in DOMAIN p.nodes |-> RewriteNode(p.nodes[i], r)]
        /\ q.edges = [i \in DOMAIN p.edges |-> RewriteEdge(p.edges[i], r)]
    BY <2>1, RewrittenPlan
  <2> HIDE DEF q
  <2>4. QED
    BY <2>2, <2>3
<1>4. \A x \in ContextIdsOf(q) : x \in AllIds(first) /\ x \notin RemovedIds(first, q)
  BY NamedIdsAreLeft
<1> HIDE DEF q
<1>5. DOMAIN p.nodes = DOMAIN first.nodes
  BY NodesOfWhatIsLeft
<1>6. Len(q.nodes) = Len(p.nodes) /\ \A i \in DOMAIN p.nodes : IsLike(p.nodes[i], q.nodes[i])
  BY <1>2 DEF AreLike
<1>7. ASSUME NEW i \in DOMAIN first.nodes
      PROVE  IsLike(first.nodes[i], q.nodes[i])
  BY <1>1, <1>5, <1>6 DEF IsLike
<1>8. ASSUME NEW i \in DOMAIN first.nodes
      PROVE  Reading(first, q.nodes[i]) = Reading(first, p.nodes[i])
  <2> DEFINE node == p.nodes[i]
             new == q.nodes[i]
  <2>1. IsNode(node) /\ new = RewriteNode(node, r) /\ i \in DOMAIN p.nodes
    BY <1>1, <1>3, <1>5 DEF IsPlan
  <2>2. /\ IsLike(node, new)
        /\ Has(node, "inputContext") => new.inputContext = RewriteIds(node.inputContext, r)
    BY <2>1, RewrittenNode
  <2>3. CASE Has(node, "inputContext")
    <3> DEFINE ids == node.inputContext
    <3>1. IsList(ids)
      BY <2>1, <2>3 DEF IsNode
    <3>2. Get(node, "inputContext", <<>>) = ids /\ Get(new, "inputContext", <<>>) = RewriteIds(ids, r)
      BY <2>2, <2>3 DEF Get, Has, IsLike
    <3>3. ToSet(ids) \subseteq AllIds(first)
      <4>1. \A x \in ToSet(Get(node, "inputContext", <<>>)) : x \in ContextIdsOf(p)
        BY <2>1, NamedIds
      <4>2. QED
        BY <1>1, <3>2, <4>1
    <3>4. IdsIn(p.context) \subseteq AllIds(first)
      <4>1. IdsIn(p.context) \subseteq IdsIn(first.context)
        <5>1. /\ IdsIn(p.context) = {b.id : b \in ToSet(p.context)}
              /\ IdsIn(first.context) = {b.id : b \in ToSet(first.context)}
          BY <1>1, BlocksOfPlan
        <5>2. QED
          BY <1>1, <5>1
      <4>2. QED
        BY <4>1 DEF AllIds
    <3>5. \A id \in DOMAIN r : r[id] \in AllIds(first) /\ Said(first)[r[id]] = Said(first)[id]
      BY <3>4 DEF AreSafe
    <3> HIDE DEF node, new, ids
    <3>6. Distinct(Spread(RewriteIds(ids, r), Said(first))) = Distinct(Spread(ids, Said(first)))
      BY <1>1, <3>1, <3>3, <3>5, RewrittenIdsSaySame
    <3>7. Reading(first, new) = Reading(first, node)
      BY <3>2, <3>6 DEF Reading
    <3>8. QED
      BY <3>7 DEF node, new
  <2>4. CASE ~Has(node, "inputContext")
    <3>1. Get(node, "inputContext", <<>>) = <<>> /\ Get(new, "inputContext", <<>>) = <<>>
      BY <2>2, <2>4 DEF Get, Has, IsLike
    <3>2. QED
      BY <3>1 DEF Reading
  <2>5. QED
    BY <2>3, <2>4
<1>9. ToSet(q.context) \subseteq ToSet(first.context)
  BY <1>1, <1>2
<1>10. \A b \in ToSet(first.context) : b \notin ToSet(q.context) => b.id \in DropIds(first)
  BY <1>1, <1>2 DEF AreSafe
<1>11. IsLeft(first, q)
  BY <1>1, <1>2, <1>3, <1>4, <1>6, <1>7, <1>8, <1>9, <1>10 DEF IsLeft
<1>12. QED
  BY <1>11 DEF q

-----------------------------------------------------------------------------
\* A set of some of the numbers up to n has a greatest one.
LEMMA GreatestPlace ==
  ASSUME NEW n \in Nat, NEW I, I \subseteq 1 .. n, I # {}
  PROVE  \E i \in I : \A j \in I : j <= i
<1> DEFINE J == {n - i : i \in I}
<1>1. J \subseteq Nat /\ J # {}
  <2>1. \A i \in I : n - i \in Nat
    <3>1. \A i \in 1 .. n : n - i \in Nat
      OBVIOUS
    <3>2. QED
      BY <3>1
  <2>2. QED
    BY <2>1
<1>2. Min(J) \in J /\ \A j \in J : Min(J) <= j
  <2> HIDE DEF J
  <2>1. QED
    BY <1>1, LeastPlace
<1>3. PICK i \in I : Min(J) = n - i
  BY <1>2
<1>4. ASSUME NEW j \in I PROVE j <= i
  <2>1. n - i <= n - j
    BY <1>2, <1>3
  <2>2. i \in 1 .. n /\ j \in 1 .. n
    OBVIOUS
  <2>3. QED
    BY <2>1, <2>2
<1>5. QED
  BY <1>4

\* The last pair with a candidate.
LastPair(items, id) == LastWith(items, LAMBDA pair : pair.candidate.id = id)

\* There is one if some pair has the candidate.
LEMMA LastWithCandidate ==
  ASSUME NEW items, IsList(items), NEW id, NEW i \in 1 .. Len(items), items[i].candidate.id = id
  PROVE  \E x \in ToSet(items) : /\ x.candidate.id = id
                                 /\ LastPair(items, id) = <<x>>
<1> DEFINE found == {j \in DOMAIN items : items[j].candidate.id = id}
           last == CHOOSE j \in found : \A k \in found : k <= j
<1>1. DOMAIN items = 1 .. Len(items) /\ Len(items) \in Nat
      /\ \A x : x \in ToSet(items) <=> \E j \in 1 .. Len(items) : x = items[j]
  BY ListItems
<1>2. found \subseteq 1 .. Len(items) /\ found # {}
  BY <1>1
<1>3. LastPair(items, id) = IF found = {} THEN <<>> ELSE <<items[last]>>
  BY DEF LastPair, LastWith
<1>4. \E j \in found : \A k \in found : k <= j
  <2> HIDE DEF found
  <2>1. QED
    BY <1>1, <1>2, GreatestPlace
<1>5. last \in found
  BY <1>4
<1>6. last \in 1 .. Len(items) /\ items[last].candidate.id = id
  BY <1>1, <1>5
<1>7. QED
  BY <1>1, <1>2, <1>3, <1>6

-----------------------------------------------------------------------------
\* A piece of evidence that tells of a duplicate, the pair it tells of, and the warning
\* that a duplicate is kept.
IsTold(e) == e.kind = "context_change" /\ e.changeKind = "deduplicated"
TellsOf(e, x) == IsTold(e) /\ e.contextIds = <<x.candidate.id, x.canonical.id>>
IsKept(w) == w.code = "duplicate_context_preserved"
KeepsOf(w, x) == IsKept(w) /\ w.path = <<x.candidate.id>>

\* What the evidence and the warnings say of the duplicates of the first plan.
IsAccountOf(first, p, told, cautions) ==
  /\ IsList(told) /\ IsList(cautions)
  /\ \A e \in ToSet(told) : IsTold(e) =>
       \E x \in ToSet(DuplicatePairs(first)) :
         /\ TellsOf(e, x)
         /\ ReasonOf(first, x) = "none" => x.candidate.id \notin IdsIn(p.context)
         /\ ReasonOf(first, x) # "none" => \E w \in ToSet(cautions) : KeepsOf(w, x)
  /\ \A w \in ToSet(cautions) : IsKept(w) =>
       \E x \in ToSet(DuplicatePairs(first)) : KeepsOf(w, x) /\ ReasonOf(first, x) # "none"

\* The blocks that are in one plan and not in another one are told of.
AreToldOf(first, before, after, told) ==
  \A id \in IdsIn(before.context) :
    id \notin IdsIn(after.context) =>
      \E e \in ToSet(told), x \in ToSet(DuplicatePairs(first)) :
        TellsOf(e, x) /\ ReasonOf(first, x) = "none" /\ x.candidate.id = id

\* The result of the pass that removes duplicates.
Deduplicates(first, p, result) ==
  /\ IsLeft(first, result.plan)
  /\ IdsIn(result.plan.context) \subseteq IdsIn(p.context)
  /\ IsAccountOf(first, result.plan, result.evidence, result.warnings)
  /\ AreToldOf(first, p, result.plan, result.evidence)
  /\ \A e \in ToSet(result.evidence) : e.kind \notin {"routing_decision", "retry_fallback_decision"}

\* The replacements of the pass.
ReplacementsOf(removed) ==
  [id \in {removed[i].candidate.id : i \in DOMAIN removed} |->
     LastPair(removed, id)[1].canonical.id]
RemovedOf(p) ==
  Picked(DuplicatePairs(p), {i \in DOMAIN DuplicatePairs(p) : ReasonOf(p, DuplicatePairs(p)[i]) = "none"})
PreservedOf(p) ==
  Picked(DuplicatePairs(p), {i \in DOMAIN DuplicatePairs(p) : ReasonOf(p, DuplicatePairs(p)[i]) # "none"})

\* A duplicate that is removed is replaced by the first block of its pair.
LEMMA ReplacementsAreSafe ==
  ASSUME NEW first, NEW p, IsLeft(first, p)
  PROVE  /\ AreSafe(first, p, ReplacementsOf(RemovedOf(p)))
         /\ \A id : id \in DOMAIN ReplacementsOf(RemovedOf(p)) <=>
              \E x \in ToSet(DuplicatePairs(p)) : ReasonOf(first, x) = "none" /\ x.candidate.id = id
<1> DEFINE pairs == DuplicatePairs(p)
           removed == RemovedOf(p)
           r == ReplacementsOf(removed)
           places == {i \in DOMAIN pairs : ReasonOf(p, pairs[i]) = "none"}
<1>1. IsPlan(p) /\ IsPlan(first)
  BY DEF IsLeft
<1>2. /\ IsList(pairs) /\ DOMAIN pairs = 1 .. Len(pairs)
      /\ \A x : x \in ToSet(pairs) <=> \E i \in 1 .. Len(pairs) : x = pairs[i]
  <2>1. IsList(pairs)
    BY <1>1, PairsMatch
  <2> HIDE DEF pairs
  <2>2. QED
    BY <2>1, ListItems
<1>3. removed = Picked(pairs, places)
  BY DEF RemovedOf
<1>4. \A x : ReasonOf(p, x) = ReasonOf(first, x)
  BY PairsOfWhatIsLeft
<1>5. \A x : x \in ToSet(pairs) => x \in ToSet(DuplicatePairs(first)) /\ x.canonical \in ToSet(p.context)
  BY PairsOfWhatIsLeft
<1> HIDE DEF pairs, removed
<1>6. \A i : i \in places <=> i \in 1 .. Len(pairs) /\ ReasonOf(first, pairs[i]) = "none"
  BY <1>2, <1>4
<1> HIDE DEF places
<1>7. /\ IsList(removed)
      /\ \A x : x \in ToSet(removed) <=> x \in ToSet(pairs) /\ ReasonOf(first, x) = "none"
  <2>1. /\ IsList(removed)
        /\ \A x : x \in ToSet(removed) <=> \E i \in 1 .. Len(pairs) : i \in places /\ x = pairs[i]
    BY <1>2, <1>3, PickedItems
  <2>2. QED
    BY <1>2, <1>6, <2>1
<1>8. DOMAIN removed = 1 .. Len(removed)
      /\ \A x : x \in ToSet(removed) <=> \E i \in 1 .. Len(removed) : x = removed[i]
  BY <1>7, ListItems
<1>9. \A id : id \in DOMAIN r <=> \E x \in ToSet(removed) : x.candidate.id = id
  <2>1. DOMAIN r = {removed[i].candidate.id : i \in DOMAIN removed}
    BY DEF ReplacementsOf
  <2> HIDE DEF r
  <2>2. QED
    BY <1>8, <2>1
<1>10. ASSUME NEW id \in DOMAIN r
       PROVE  \E x \in ToSet(removed) : x.candidate.id = id /\ r[id] = x.canonical.id
  <2>1. r[id] = LastPair(removed, id)[1].canonical.id
    BY DEF ReplacementsOf
  <2> HIDE DEF r
  <2>2. PICK i \in 1 .. Len(removed) : removed[i].candidate.id = id
    BY <1>8, <1>9
  <2>3. PICK x \in ToSet(removed) : /\ x.candidate.id = id
                                    /\ LastPair(removed, id) = <<x>>
    BY <1>7, <2>2, LastWithCandidate
  <2>4. <<x>>[1] = x
    OBVIOUS
  <2>5. QED
    BY <2>1, <2>3, <2>4
<1> HIDE DEF r
<1>11. ASSUME NEW id \in DOMAIN r
       PROVE  /\ id \in DropIds(first)
              /\ r[id] \in IdsIn(p.context) /\ r[id] \notin DropIds(first)
              /\ Said(first)[r[id]] = Said(first)[id]
  <2>1. PICK x \in ToSet(removed) : x.candidate.id = id /\ r[id] = x.canonical.id
    BY <1>10
  <2>2. x \in ToSet(DuplicatePairs(first)) /\ ReasonOf(first, x) = "none" /\ x.canonical \in ToSet(p.context)
    BY <1>5, <1>7
  <2>3. id \in DropIds(first)
    BY <2>1, <2>2 DEF DropIds
  <2>4. r[id] \in IdsIn(p.context)
    BY <1>1, <2>1, <2>2, BlocksOfPlan
  <2>5. r[id] \notin DropIds(first)
    BY <1>1, <2>1, <2>2, PairsAreApart DEF DropIds
  <2>6. Said(first)[x.canonical.id] = Said(first)[x.candidate.id]
    BY <1>1, <2>2, PairsSaySame
  <2>7. QED
    BY <2>1, <2>3, <2>4, <2>5, <2>6
<1>12. AreSafe(first, p, r)
  BY <1>11 DEF AreSafe
<1>13. \A id : id \in DOMAIN r <=>
         \E x \in ToSet(pairs) : ReasonOf(first, x) = "none" /\ x.candidate.id = id
  BY <1>7, <1>9
<1>14. QED
  BY <1>12, <1>13 DEF r, removed, pairs

-----------------------------------------------------------------------------
\* What the pass tells of a pair.
ToldEvent(x) == [kind |-> "context_change", changeKind |-> "deduplicated",
                 contextIds |-> <<x.candidate.id, x.canonical.id>>]

\* What the pass makes of its pairs: the plan without the removed ones, the evidence of all
\* and the warnings of the preserved ones.
LEMMA DuplicatesResult ==
  ASSUME NEW p, NEW providers
  PROVE  LET result == ExactDuplicates(p, providers)
             pairs == DuplicatePairs(p)
             preserved == PreservedOf(p)
         IN /\ result.plan = RewritePlan(p, ReplacementsOf(RemovedOf(p)))
            /\ \E estimate :
                 /\ IsList(estimate) /\ \A f \in ToSet(estimate) : "kind" \in DOMAIN f /\ f.kind = "estimate"
                 /\ result.evidence = Numbered("exact-duplicate-context",
                                               [i \in DOMAIN pairs |-> ToldEvent(pairs[i])] \o estimate)
            /\ result.warnings = [i \in DOMAIN preserved |->
                 Warn("duplicate_context_preserved", <<preserved[i].candidate.id>>, "warning",
                      ReasonOf(p, preserved[i]))]
<1> DEFINE pairs == DuplicatePairs(p)
           protectedIds == ProtectedOutputContextIds(p)
           result == RemoveDuplicates(p, pairs, protectedIds)
           Reason(pair) == PreservationReason(pair.canonical, pair.candidate, protectedIds)
           removed == Where(pairs, LAMBDA pair : Reason(pair) = "none")
           preserved == Where(pairs, LAMBDA pair : Reason(pair) # "none")
           tokens == RemovedTokens(pairs, protectedIds)
           estimate == IF tokens > 0 THEN <<[kind |-> "estimate", unit |-> "tokens", value |-> tokens]>>
                       ELSE <<>>
<1>1. ExactDuplicates(p, providers) = result
  BY DEF ExactDuplicates
<1>2. /\ result.plan = RewritePlan(p, ReplacementsOf(removed))
      /\ result.evidence = Numbered("exact-duplicate-context",
                                    [i \in DOMAIN pairs |-> ToldEvent(pairs[i])] \o estimate)
      /\ result.warnings = [i \in DOMAIN preserved |->
           Warn("duplicate_context_preserved", <<preserved[i].candidate.id>>, "warning",
                Reason(preserved[i]))]
  BY DEF RemoveDuplicates, ReplacementsOf, LastPair, ToldEvent
<1>3. removed = RemovedOf(p)
  BY DEF Where, RemovedOf, Picked, ReasonOf
<1>4. preserved = PreservedOf(p)
  BY DEF Where, PreservedOf, Picked, ReasonOf
<1>5. \A x : Reason(x) = ReasonOf(p, x)
  BY DEF ReasonOf
<1>6. IsList(estimate) /\ \A f \in ToSet(estimate) : "kind" \in DOMAIN f /\ f.kind = "estimate"
  <2> DEFINE f == [kind |-> "estimate", unit |-> "tokens", value |-> tokens]
  <2>1. "kind" \in DOMAIN f /\ f.kind = "estimate"
    OBVIOUS
  <2>2. estimate = <<f>> \/ estimate = <<>>
    OBVIOUS
  <2> HIDE DEF f, estimate
  <2>3. QED
    BY <2>1, <2>2, ShortLists
<1> HIDE DEF result, removed, preserved, Reason, estimate, pairs
<1>7. \E more : /\ IsList(more) /\ \A f \in ToSet(more) : "kind" \in DOMAIN f /\ f.kind = "estimate"
                /\ result.evidence = Numbered("exact-duplicate-context",
                                              [i \in DOMAIN pairs |-> ToldEvent(pairs[i])] \o more)
  BY <1>2, <1>6
<1>8. result.warnings = [i \in DOMAIN PreservedOf(p) |->
        Warn("duplicate_context_preserved", <<PreservedOf(p)[i].candidate.id>>, "warning",
             ReasonOf(p, PreservedOf(p)[i]))]
  BY <1>2, <1>4, <1>5
<1>9. QED
  BY <1>1, <1>2, <1>3, <1>7, <1>8 DEF pairs

\* The pass tells of every pair, by an event that is numbered.
LEMMA PairsAreTold ==
  ASSUME NEW p, IsPlan(p), NEW providers
  PROVE  LET told == ExactDuplicates(p, providers).evidence
             pairs == ToSet(DuplicatePairs(p))
         IN /\ IsList(told)
            /\ \A e \in ToSet(told) : \/ e.kind = "estimate"
                                      \/ \E x \in pairs : TellsOf(e, x)
            /\ \A x \in pairs : \E e \in ToSet(told) : TellsOf(e, x)
<1> DEFINE told == ExactDuplicates(p, providers).evidence
           pairs == DuplicatePairs(p)
           events == [i \in DOMAIN pairs |-> ToldEvent(pairs[i])]
<1>1. PICK estimate :
        /\ IsList(estimate) /\ \A f \in ToSet(estimate) : "kind" \in DOMAIN f /\ f.kind = "estimate"
        /\ told = Numbered("exact-duplicate-context", events \o estimate)
  BY DuplicatesResult
<1>2. /\ IsList(pairs) /\ DOMAIN pairs = 1 .. Len(pairs)
      /\ \A x : x \in ToSet(pairs) <=> \E i \in 1 .. Len(pairs) : x = pairs[i]
  <2>1. IsList(pairs)
    BY PairsMatch
  <2> HIDE DEF pairs
  <2>2. QED
    BY <2>1, ListItems
<1> HIDE DEF pairs, told
<1>3. /\ IsList(events)
      /\ \A f : f \in ToSet(events) <=> \E x \in ToSet(pairs) : f = ToldEvent(x)
  <2>1. events = [i \in DOMAIN pairs |-> events[i]] /\ \A i \in DOMAIN pairs : events[i] = ToldEvent(pairs[i])
    OBVIOUS
  <2> HIDE DEF events
  <2>2. IsList(events) /\ \A f : f \in ToSet(events) <=> \E i \in DOMAIN pairs : f = events[i]
    BY <1>2, <2>1, ByPlace
  <2>3. QED
    BY <1>2, <2>1, <2>2
<1> DEFINE all == events \o estimate
<1> HIDE DEF events
<1>4. IsList(all) /\ ToSet(all) = ToSet(events) \cup ToSet(estimate)
  BY <1>1, <1>3, JoinedLists
<1>5. told = Numbered("exact-duplicate-context", all)
  BY <1>1
<1> HIDE DEF all
<1>6. /\ IsList(told)
      /\ \A e \in ToSet(told) : \E f \in ToSet(all) : Renumbered(e, f)
      /\ \A f \in ToSet(all) : \E e \in ToSet(told) : Renumbered(e, f)
  BY <1>4, <1>5, NumberedEvents
<1>7. ASSUME NEW x, NEW e, Renumbered(e, ToldEvent(x))
      PROVE  TellsOf(e, x)
  <2> DEFINE f == ToldEvent(x)
  <2>1. /\ DOMAIN f = {"kind", "changeKind", "contextIds"}
        /\ f.kind = "context_change" /\ f.changeKind = "deduplicated"
        /\ f.contextIds = <<x.candidate.id, x.canonical.id>>
    BY DEF ToldEvent
  <2> HIDE DEF f
  <2>2. \A key \in DOMAIN f : key # "id" => e[key] = f[key]
    BY <1>7 DEF Renumbered, f
  <2>3. QED
    BY <2>1, <2>2 DEF TellsOf, IsTold
<1>8. ASSUME NEW e, NEW f \in ToSet(estimate), Renumbered(e, f)
      PROVE  e.kind = "estimate"
  BY <1>1, <1>8 DEF Renumbered
<1>9. \A e \in ToSet(told) : e.kind = "estimate" \/ \E x \in ToSet(pairs) : TellsOf(e, x)
  BY <1>3, <1>4, <1>6, <1>7, <1>8
<1>10. \A x \in ToSet(pairs) : \E e \in ToSet(told) : TellsOf(e, x)
  BY <1>3, <1>4, <1>6, <1>7
<1>11. QED
  BY <1>6, <1>9, <1>10 DEF told, pairs

\* The pass warns of the pairs that it preserves, and of nothing else.
LEMMA PreservedAreWarnedOf ==
  ASSUME NEW p, IsPlan(p), NEW providers
  PROVE  LET cautions == ExactDuplicates(p, providers).warnings
             pairs == ToSet(DuplicatePairs(p))
         IN /\ IsList(cautions)
            /\ \A w \in ToSet(cautions) : \E x \in pairs : KeepsOf(w, x) /\ ReasonOf(p, x) # "none"
            /\ \A x \in pairs : ReasonOf(p, x) # "none" => \E w \in ToSet(cautions) : KeepsOf(w, x)
<1> DEFINE cautions == ExactDuplicates(p, providers).warnings
           pairs == DuplicatePairs(p)
           preserved == PreservedOf(p)
           places == {i \in DOMAIN pairs : ReasonOf(p, pairs[i]) # "none"}
<1>1. cautions = [i \in DOMAIN preserved |->
        Warn("duplicate_context_preserved", <<preserved[i].candidate.id>>, "warning",
             ReasonOf(p, preserved[i]))]
  BY DuplicatesResult
<1>2. /\ IsList(pairs) /\ DOMAIN pairs = 1 .. Len(pairs)
      /\ \A x : x \in ToSet(pairs) <=> \E i \in 1 .. Len(pairs) : x = pairs[i]
  <2>1. IsList(pairs)
    BY PairsMatch
  <2> HIDE DEF pairs
  <2>2. QED
    BY <2>1, ListItems
<1>3. preserved = Picked(pairs, places)
  BY DEF PreservedOf
<1> HIDE DEF pairs, preserved, cautions
<1>4. \A i : i \in places <=> i \in 1 .. Len(pairs) /\ ReasonOf(p, pairs[i]) # "none"
  BY <1>2
<1> HIDE DEF places
<1>5. /\ IsList(preserved)
      /\ \A x : x \in ToSet(preserved) <=> x \in ToSet(pairs) /\ ReasonOf(p, x) # "none"
  <2>1. /\ IsList(preserved)
        /\ \A x : x \in ToSet(preserved) <=> \E i \in 1 .. Len(pairs) : i \in places /\ x = pairs[i]
    BY <1>2, <1>3, PickedItems
  <2>2. QED
    BY <1>2, <1>4, <2>1
<1>6. DOMAIN preserved = 1 .. Len(preserved)
      /\ \A x : x \in ToSet(preserved) <=> \E i \in 1 .. Len(preserved) : x = preserved[i]
  BY <1>5, ListItems
<1>7. /\ cautions = [i \in DOMAIN preserved |-> cautions[i]]
      /\ \A i \in DOMAIN preserved : KeepsOf(cautions[i], preserved[i])
  <2>1. \A i \in DOMAIN preserved :
          cautions[i] = Warn("duplicate_context_preserved", <<preserved[i].candidate.id>>, "warning",
                             ReasonOf(p, preserved[i]))
    BY <1>1
  <2>2. \A i \in DOMAIN preserved : KeepsOf(cautions[i], preserved[i])
    <3>1. \A x, reason :
            KeepsOf(Warn("duplicate_context_preserved", <<x.candidate.id>>, "warning", reason), x)
      BY DEF KeepsOf, IsKept, Warn
    <3>2. QED
      BY <2>1, <3>1
  <2>3. QED
    BY <1>1, <2>2
<1>8. IsList(cautions) /\ \A w : w \in ToSet(cautions) <=> \E i \in DOMAIN preserved : w = cautions[i]
  BY <1>5, <1>7, ByPlace
<1>9. \A w \in ToSet(cautions) : \E x \in ToSet(pairs) : KeepsOf(w, x) /\ ReasonOf(p, x) # "none"
  BY <1>5, <1>6, <1>7, <1>8
<1>10. \A x \in ToSet(pairs) : ReasonOf(p, x) # "none" => \E w \in ToSet(cautions) : KeepsOf(w, x)
  BY <1>5, <1>6, <1>7, <1>8
<1>11. QED
  BY <1>8, <1>9, <1>10 DEF cautions, pairs

\* The pass removes only what it tells of, and what it leaves can go on being deduplicated.
LEMMA DuplicatesDeduplicate ==
  ASSUME NEW first, NEW p, IsLeft(first, p), NEW providers
  PROVE  Deduplicates(first, p, ExactDuplicates(p, providers))
<1> DEFINE result == ExactDuplicates(p, providers)
           pairs == ToSet(DuplicatePairs(p))
           r == ReplacementsOf(RemovedOf(p))
           q == result.plan
<1>1. IsPlan(p) /\ IsPlan(first)
  BY DEF IsLeft
<1>2. q = RewritePlan(p, r)
  BY DuplicatesResult
<1>3. /\ AreSafe(first, p, r)
      /\ \A id : id \in DOMAIN r <=> \E x \in pairs : ReasonOf(first, x) = "none" /\ x.candidate.id = id
  BY ReplacementsAreSafe
<1>4. /\ \A x \in pairs : x \in ToSet(DuplicatePairs(first))
      /\ \A x : ReasonOf(p, x) = ReasonOf(first, x)
  BY PairsOfWhatIsLeft
<1>5. /\ IsList(result.evidence)
      /\ \A e \in ToSet(result.evidence) : e.kind = "estimate" \/ \E x \in pairs : TellsOf(e, x)
      /\ \A x \in pairs : \E e \in ToSet(result.evidence) : TellsOf(e, x)
  BY <1>1, PairsAreTold
<1>6. /\ IsList(result.warnings)
      /\ \A w \in ToSet(result.warnings) : \E x \in pairs : KeepsOf(w, x) /\ ReasonOf(p, x) # "none"
      /\ \A x \in pairs : ReasonOf(p, x) # "none" => \E w \in ToSet(result.warnings) : KeepsOf(w, x)
  BY <1>1, PreservedAreWarnedOf
<1> HIDE DEF result, pairs, r
<1>7. IsLeft(first, q) /\ \A id : id \in IdsIn(q.context) <=> id \in IdsIn(p.context) /\ id \notin DOMAIN r
  <2>1. CASE DOMAIN r = {}
    <3>1. q = p
      BY <1>2, <2>1 DEF RewritePlan
    <3>2. QED
      BY <2>1, <3>1
  <2>2. CASE DOMAIN r # {}
    <3>1. IsLeft(first, RewritePlan(p, r))
      BY <1>3, <2>2, RewrittenPlanIsLeft
    <3>2. \A id : id \in IdsIn(RewritePlan(p, r).context) <=> id \in IdsIn(p.context) /\ id \notin DOMAIN r
      BY <1>3, <2>2, IdsOfRewrittenPlan
    <3>3. QED
      BY <1>2, <3>1, <3>2
  <2>3. QED
    BY <2>1, <2>2
<1>8. \A x \in pairs : ReasonOf(first, x) = "none" => x.candidate.id \notin IdsIn(q.context)
  BY <1>3, <1>7
<1>9. IsAccountOf(first, q, result.evidence, result.warnings)
  <2>1. ASSUME NEW e \in ToSet(result.evidence), IsTold(e)
        PROVE  \E x \in ToSet(DuplicatePairs(first)) :
                 /\ TellsOf(e, x)
                 /\ ReasonOf(first, x) = "none" => x.candidate.id \notin IdsIn(q.context)
                 /\ ReasonOf(first, x) # "none" => \E w \in ToSet(result.warnings) : KeepsOf(w, x)
    <3>1. PICK x \in pairs : TellsOf(e, x)
      BY <1>5, <2>1 DEF IsTold
    <3>2. QED
      BY <1>4, <1>6, <1>8, <3>1
  <2>2. \A w \in ToSet(result.warnings) : IsKept(w) =>
          \E x \in ToSet(DuplicatePairs(first)) : KeepsOf(w, x) /\ ReasonOf(first, x) # "none"
    BY <1>4, <1>6
  <2>3. QED
    BY <1>5, <1>6, <2>1, <2>2 DEF IsAccountOf
<1>10. AreToldOf(first, p, q, result.evidence)
  BY <1>3, <1>4, <1>5, <1>7 DEF AreToldOf
<1>11. \A e \in ToSet(result.evidence) : e.kind \notin {"routing_decision", "retry_fallback_decision"}
  BY <1>5 DEF TellsOf, IsTold
<1>12. Deduplicates(first, p, result)
  BY <1>7, <1>9, <1>10, <1>11 DEF Deduplicates
<1>13. QED
  BY <1>12 DEF result

-----------------------------------------------------------------------------
\* A provider that a decision goes to may be used.
MayBeTaken(e, constraints) ==
  /\ e.kind = "routing_decision" => MayUse(constraints, e.target.provider)
  /\ e.kind = "retry_fallback_decision" /\ e.decision = "fallback" =>
       MayUse(constraints, e.fallbackTarget)

\* What the passes made of a first plan.
IsRightSoFar(first, p, told, cautions) ==
  /\ IsLeft(first, p)
  /\ IsAccountOf(first, p, told, cautions)
  /\ AreToldOf(first, first, p, told)
  /\ \A e \in ToSet(told) : MayBeTaken(e, first.constraints)

\* Nothing is said of the first plan before any pass.
LEMMA NothingIsSaidAtFirst ==
  ASSUME NEW first, IsPlan(first)
  PROVE  IsRightSoFar(first, first, <<>>, <<>>)
<1>1. IsLeft(first, first)
  BY FirstIsLeft
<1>2. IsAccountOf(first, first, <<>>, <<>>)
  BY ShortLists DEF IsAccountOf
<1>3. AreToldOf(first, first, first, <<>>)
  BY DEF AreToldOf
<1>4. QED
  BY <1>1, <1>2, <1>3, ShortLists DEF IsRightSoFar

\* A pass that leaves the plan as it is keeps the account right.
LEMMA ReportsKeepAccounts ==
  ASSUME NEW first, NEW p, NEW told, NEW cautions, IsRightSoFar(first, p, told, cautions),
         NEW result, ReportsOnly(result, p)
  PROVE  IsRightSoFar(first, result.plan, told \o result.evidence, cautions \o result.warnings)
<1> DEFINE events == told \o result.evidence
           warned == cautions \o result.warnings
<1>1. /\ result.plan = p
      /\ IsList(result.evidence) /\ IsList(result.warnings)
      /\ \A e \in ToSet(result.evidence) : IsHarmless(e, p.constraints)
      /\ \A w \in ToSet(result.warnings) : ~IsKept(w)
  BY DEF ReportsOnly, IsKept
<1>2. /\ IsLeft(first, p) /\ p.constraints = first.constraints
      /\ IsAccountOf(first, p, told, cautions)
      /\ AreToldOf(first, first, p, told)
      /\ \A e \in ToSet(told) : MayBeTaken(e, first.constraints)
  BY DEF IsRightSoFar, IsLeft
<1>3. IsList(told) /\ IsList(cautions)
  BY <1>2 DEF IsAccountOf
<1>4. /\ IsList(events) /\ IsList(warned)
      /\ ToSet(events) = ToSet(told) \cup ToSet(result.evidence)
      /\ ToSet(warned) = ToSet(cautions) \cup ToSet(result.warnings)
  BY <1>1, <1>3, JoinedLists
<1> HIDE DEF events, warned
<1>5. \A e \in ToSet(result.evidence) : ~IsTold(e) /\ MayBeTaken(e, first.constraints)
  BY <1>1, <1>2 DEF IsHarmless, IsTold, MayBeTaken
<1>6. IsAccountOf(first, p, events, warned)
  <2>1. ASSUME NEW e \in ToSet(events), IsTold(e)
        PROVE  \E x \in ToSet(DuplicatePairs(first)) :
                 /\ TellsOf(e, x)
                 /\ ReasonOf(first, x) = "none" => x.candidate.id \notin IdsIn(p.context)
                 /\ ReasonOf(first, x) # "none" => \E w \in ToSet(warned) : KeepsOf(w, x)
    <3>1. e \in ToSet(told)
      BY <1>4, <1>5, <2>1
    <3>2. PICK x \in ToSet(DuplicatePairs(first)) :
            /\ TellsOf(e, x)
            /\ ReasonOf(first, x) = "none" => x.candidate.id \notin IdsIn(p.context)
            /\ ReasonOf(first, x) # "none" => \E w \in ToSet(cautions) : KeepsOf(w, x)
      BY <1>2, <2>1, <3>1 DEF IsAccountOf
    <3>3. QED
      BY <1>4, <3>2
  <2>2. \A w \in ToSet(warned) : IsKept(w) =>
          \E x \in ToSet(DuplicatePairs(first)) : KeepsOf(w, x) /\ ReasonOf(first, x) # "none"
    BY <1>1, <1>2, <1>4 DEF IsAccountOf
  <2>3. QED
    BY <1>4, <2>1, <2>2 DEF IsAccountOf
<1>7. AreToldOf(first, first, p, events)
  BY <1>2, <1>4 DEF AreToldOf
<1>8. \A e \in ToSet(events) : MayBeTaken(e, first.constraints)
  BY <1>2, <1>4, <1>5
<1>9. IsRightSoFar(first, p, events, warned)
  BY <1>2, <1>6, <1>7, <1>8 DEF IsRightSoFar
<1>10. QED
  BY <1>1, <1>9 DEF events, warned

\* The pass that removes duplicates keeps the account right.
LEMMA DuplicatesKeepAccounts ==
  ASSUME NEW first, NEW p, NEW told, NEW cautions, IsRightSoFar(first, p, told, cautions),
         NEW result, Deduplicates(first, p, result)
  PROVE  IsRightSoFar(first, result.plan, told \o result.evidence, cautions \o result.warnings)
<1> DEFINE events == told \o result.evidence
           warned == cautions \o result.warnings
           q == result.plan
<1>1. /\ IsLeft(first, q)
      /\ IdsIn(q.context) \subseteq IdsIn(p.context)
      /\ IsAccountOf(first, q, result.evidence, result.warnings)
      /\ AreToldOf(first, p, q, result.evidence)
      /\ \A e \in ToSet(result.evidence) : e.kind \notin {"routing_decision", "retry_fallback_decision"}
  BY DEF Deduplicates
<1>2. /\ IsAccountOf(first, p, told, cautions)
      /\ AreToldOf(first, first, p, told)
      /\ \A e \in ToSet(told) : MayBeTaken(e, first.constraints)
  BY DEF IsRightSoFar
<1>3. IsList(told) /\ IsList(cautions) /\ IsList(result.evidence) /\ IsList(result.warnings)
  BY <1>1, <1>2 DEF IsAccountOf
<1>4. /\ IsList(events) /\ IsList(warned)
      /\ ToSet(events) = ToSet(told) \cup ToSet(result.evidence)
      /\ ToSet(warned) = ToSet(cautions) \cup ToSet(result.warnings)
  BY <1>3, JoinedLists
<1> HIDE DEF events, warned, q
<1>5. IsAccountOf(first, q, events, warned)
  <2>1. ASSUME NEW e \in ToSet(events), IsTold(e)
        PROVE  \E x \in ToSet(DuplicatePairs(first)) :
                 /\ TellsOf(e, x)
                 /\ ReasonOf(first, x) = "none" => x.candidate.id \notin IdsIn(q.context)
                 /\ ReasonOf(first, x) # "none" => \E w \in ToSet(warned) : KeepsOf(w, x)
    <3>1. CASE e \in ToSet(told)
      <4>1. PICK x \in ToSet(DuplicatePairs(first)) :
              /\ TellsOf(e, x)
              /\ ReasonOf(first, x) = "none" => x.candidate.id \notin IdsIn(p.context)
              /\ ReasonOf(first, x) # "none" => \E w \in ToSet(cautions) : KeepsOf(w, x)
        BY <1>2, <2>1, <3>1 DEF IsAccountOf
      <4>2. QED
        BY <1>1, <1>4, <4>1
    <3>2. CASE e \in ToSet(result.evidence)
      <4>1. PICK x \in ToSet(DuplicatePairs(first)) :
              /\ TellsOf(e, x)
              /\ ReasonOf(first, x) = "none" => x.candidate.id \notin IdsIn(q.context)
              /\ ReasonOf(first, x) # "none" => \E w \in ToSet(result.warnings) : KeepsOf(w, x)
        BY <1>1, <2>1, <3>2 DEF IsAccountOf
      <4>2. QED
        BY <1>4, <4>1
    <3>3. QED
      BY <1>4, <3>1, <3>2
  <2>2. \A w \in ToSet(warned) : IsKept(w) =>
          \E x \in ToSet(DuplicatePairs(first)) : KeepsOf(w, x) /\ ReasonOf(first, x) # "none"
    BY <1>1, <1>2, <1>4 DEF IsAccountOf
  <2>3. QED
    BY <1>4, <2>1, <2>2 DEF IsAccountOf
<1>6. AreToldOf(first, first, q, events)
  BY <1>1, <1>2, <1>4 DEF AreToldOf
<1>7. \A e \in ToSet(events) : MayBeTaken(e, first.constraints)
  BY <1>1, <1>2, <1>4 DEF MayBeTaken
<1>8. IsRightSoFar(first, q, events, warned)
  BY <1>1, <1>5, <1>6, <1>7 DEF IsRightSoFar
<1>9. QED
  BY <1>8 DEF events, warned, q

\* Every pass does one or the other.
LEMMA PassesReportOrDeduplicate ==
  ASSUME NEW first, NEW p, IsLeft(first, p), NEW providers, IsList(providers),
         NEW name \in ToSet(PassNames)
  PROVE  \/ ReportsOnly(ApplyPass(name, p, providers), p)
         \/ Deduplicates(first, p, ApplyPass(name, p, providers))
<1>1. IsPlan(p)
  BY DEF IsLeft
<1>2. name \in {"exact_duplicates", "stable_prefix", "prompt_cache_layout", "static_routing",
                "retry_fallback"}
  BY DEF PassNames, ToSet
<1>3. CASE name = "exact_duplicates"
  <2>1. ApplyPass(name, p, providers) = ExactDuplicates(p, providers)
    BY <1>3 DEF ApplyPass
  <2>2. QED
    BY <2>1, DuplicatesDeduplicate
<1>4. CASE name = "stable_prefix"
  BY <1>1, <1>4, StablePrefixReports DEF ApplyPass
<1>5. CASE name = "prompt_cache_layout"
  BY <1>1, <1>5, LayoutReports DEF ApplyPass
<1>6. CASE name = "static_routing"
  BY <1>1, <1>6, RoutingReports DEF ApplyPass
<1>7. CASE name = "retry_fallback"
  BY <1>1, <1>7, FallbacksReport DEF ApplyPass
<1>8. QED
  BY <1>2, <1>3, <1>4, <1>5, <1>6, <1>7

-----------------------------------------------------------------------------
\* The inductive invariant: what the passes of a configuration made of its plan so far is right.
PlanInv ==
  /\ configuration \in Configurations
  /\ at \in Nat
  /\ IsRightSoFar(configuration.plan, plan, evidence, warnings)

\* At first nothing was made of the plan.
LEMMA PlanInvInit == PipelineInit => PlanInv
<1> SUFFICES ASSUME PipelineInit PROVE PlanInv
  OBVIOUS
<1>1. /\ configuration \in Configurations /\ plan = configuration.plan
      /\ at = 0 /\ evidence = <<>> /\ warnings = <<>>
  BY DEF PipelineInit, RunnerInit
<1>2. IsPlan(configuration.plan)
  BY <1>1, ConfigurationsAssumption
<1>3. QED
  BY <1>1, <1>2, NothingIsSaidAtFirst DEF PlanInv

\* A pass leaves the plan right, and nothing else touches it.
LEMMA PlanInvNext == PlanInv /\ [PipelineNext]_pipelineVars => PlanInv'
<1> SUFFICES ASSUME PlanInv, [PipelineNext]_pipelineVars PROVE PlanInv'
  OBVIOUS
<1>1. ASSUME UNCHANGED <<configuration, plan, evidence, warnings>>, at' \in Nat
      PROVE  PlanInv'
  BY <1>1 DEF PlanInv
<1>2. at \in Nat
  BY DEF PlanInv
<1>3. CASE SkipDisabled
  BY <1>1, <1>2, <1>3 DEF SkipDisabled
<1>4. CASE Apply
  <2>1. /\ IsList(configuration.providers) /\ IsList(configuration.passes)
        /\ \A i \in DOMAIN configuration.passes : configuration.passes[i].name \in ToSet(PassNames)
    BY ConfigurationsAssumption DEF PlanInv
  <2>2. at + 1 \in DOMAIN configuration.passes
    <3>1. DOMAIN configuration.passes = 1 .. Len(configuration.passes) /\ Len(configuration.passes) \in Nat
      BY <2>1, ListItems
    <3>2. at < Len(configuration.passes)
      BY <1>4 DEF Apply, IsNext
    <3>3. QED
      BY <1>2, <3>1, <3>2
  <2> DEFINE result == ApplyPass(Current.name, plan, configuration.providers)
  <2>3. Current.name \in ToSet(PassNames)
    BY <2>1, <2>2 DEF Current
  <2>4. /\ plan' = result.plan /\ evidence' = evidence \o result.evidence
        /\ warnings' = warnings \o result.warnings
        /\ at' = at + 1 /\ configuration' = configuration
    BY <1>4 DEF Apply
  <2>5. IsRightSoFar(configuration.plan, plan, evidence, warnings)
    BY DEF PlanInv
  <2>6. ReportsOnly(result, plan) \/ Deduplicates(configuration.plan, plan, result)
    BY <2>1, <2>3, <2>5, PassesReportOrDeduplicate DEF IsRightSoFar
  <2> HIDE DEF result
  <2>7. IsRightSoFar(configuration.plan, result.plan, evidence \o result.evidence,
                     warnings \o result.warnings)
    BY <2>5, <2>6, ReportsKeepAccounts, DuplicatesKeepAccounts
  <2>8. QED
    BY <1>2, <2>4, <2>7 DEF PlanInv
<1>5. CASE Throw
  BY <1>1, <1>2, <1>5 DEF Throw
<1>6. CASE ReturnReport
  BY <1>1, <1>2, <1>6 DEF ReturnReport
<1>7. CASE Execute
  BY <1>1, <1>2, <1>7 DEF Execute, runnerVars
<1>8. CASE Export
  BY <1>1, <1>2, <1>8 DEF Export, runnerVars
<1>9. CASE UNCHANGED pipelineVars
  BY <1>1, <1>2, <1>9 DEF pipelineVars, runnerVars
<1>10. QED
  BY <1>3, <1>4, <1>5, <1>6, <1>7, <1>8, <1>9 DEF PipelineNext, Optimize, RunnerNext

\* Whatever passes run, in whatever order, and whichever of them throw or are disabled,
\* what they made of the plan is right (runOptimizationPasses).
THEOREM PlansStayRight == PipelineSpec => []PlanInv
<1>1. PipelineInit => PlanInv
  BY PlanInvInit
<1>2. PlanInv /\ [PipelineNext]_pipelineVars => PlanInv'
  BY PlanInvNext
<1>3. QED
  BY <1>1, <1>2, PTL DEF PipelineSpec

-----------------------------------------------------------------------------
\* Verdicts that find no fault with a provider.
ProviderFaults == {"provider_not_allowed", "provider_denied", "provider_capabilities_missing"}
AreFine(verdicts) == IsList(verdicts) /\ \A v \in ToSet(verdicts) : v.code \notin ProviderFaults

\* What is asked of one provider.
OnlyProvider(provider) == [provider |-> provider, supports |-> <<>>]
Used(provider) == [providerCapabilities |-> <<OnlyProvider(provider)>>]

\* No verdict, a passed one, and one that failed for another reason find no fault.
LEMMA FineVerdicts ==
  /\ AreFine(<<>>)
  /\ \A path : AreFine(<<Passed(path)>>)
  /\ \A path, code : code \notin ProviderFaults => AreFine(<<Failed(path, code)>>)
<1>1. \A path : Passed(path).code \notin ProviderFaults
  BY DEF Passed, ProviderFaults
<1>2. \A path, code : Failed(path, code).code = code
  BY DEF Failed
<1>3. QED
  BY <1>1, <1>2, ShortLists DEF AreFine

\* Neither do two lists of such verdicts, one after the other.
LEMMA FineJoined ==
  ASSUME NEW s, NEW t, AreFine(s), AreFine(t)
  PROVE  AreFine(s \o t)
BY JoinedLists DEF AreFine

\* A threshold is passed, exceeded or unchecked.
LEMMA FineThreshold ==
  ASSUME NEW constraints, NEW key, NEW estimates, NEW measure, NEW code, NEW upper,
         code \notin ProviderFaults
  PROVE  AreFine(Threshold(constraints, key, estimates, measure, code, upper))
<1> DEFINE v == Threshold(constraints, key, estimates, measure, code, upper)
<1>1. \/ v = <<>> \/ v = <<Failed(key, "constraint_unchecked")>>
      \/ v = <<Passed(key)>> \/ v = <<Failed(key, code)>>
  BY Zenon DEF Threshold
<1>2. "constraint_unchecked" \notin ProviderFaults
  BY DEF ProviderFaults
<1> HIDE DEF v
<1>3. AreFine(v)
  BY <1>1, <1>2, FineVerdicts
<1>4. QED
  BY <1>3 DEF v

\* All thresholds.
LEMMA FineThresholds ==
  ASSUME NEW constraints, NEW options
  PROVE  AreFine(ThresholdVerdicts(constraints, options))
<1> DEFINE estimates == Get(options, "estimates", <<>>)
           a == Threshold(constraints, "maxCostUsd", estimates, "costUsd", "cost_exceeded", TRUE)
           b == Threshold(constraints, "maxLatencyMs", estimates, "latencyMs", "latency_exceeded", TRUE)
           c == Threshold(constraints, "minEvalScore", estimates, "evalScore", "eval_score_too_low", FALSE)
           d == Threshold(constraints, "minValidatorPassRate", estimates, "validatorPassRate",
                          "validator_pass_rate_too_low", FALSE)
           e == Threshold(constraints, "allowedRegression", estimates, "regression",
                          "regression_exceeded", TRUE)
<1>1. ThresholdVerdicts(constraints, options) = a \o b \o c \o d \o e
  BY DEF ThresholdVerdicts
<1>2. AreFine(a) /\ AreFine(b) /\ AreFine(c) /\ AreFine(d) /\ AreFine(e)
  <2>1. {"cost_exceeded", "latency_exceeded", "eval_score_too_low", "validator_pass_rate_too_low",
         "regression_exceeded"} \cap ProviderFaults = {}
    BY DEF ProviderFaults
  <2>2. AreFine(a)
    BY <2>1, FineThreshold
  <2>3. AreFine(b)
    BY <2>1, FineThreshold
  <2>4. AreFine(c)
    BY <2>1, FineThreshold
  <2>5. AreFine(d)
    BY <2>1, FineThreshold
  <2>6. AreFine(e)
    BY <2>1, FineThreshold
  <2>7. QED
    BY <2>2, <2>3, <2>4, <2>5, <2>6
<1> HIDE DEF a, b, c, d, e
<1>3. AreFine(a \o b)
  BY <1>2, FineJoined
<1>4. AreFine(a \o b \o c)
  BY <1>2, <1>3, FineJoined
<1>5. AreFine(a \o b \o c \o d)
  BY <1>2, <1>4, FineJoined
<1>6. AreFine(a \o b \o c \o d \o e)
  BY <1>2, <1>5, FineJoined
<1>7. QED
  BY <1>1, <1>6

\* A provider that a pass may use is listed where it has to be and nowhere else.
LEMMA FineProvider ==
  ASSUME NEW constraints, NEW provider, MayUse(constraints, provider)
  PROVE  AreFine(ProviderVerdicts(constraints, Used(provider)))
<1> DEFINE one == OnlyProvider(provider)
           providers == <<one>>
           Listed(key, p) == p.provider \in ToSet(constraints[key])
           Allow(p) ==
             IF ~Has(constraints, "allowedProviders") THEN <<>>
             ELSE IF Listed("allowedProviders", p) THEN <<Passed("allowedProviders")>>
                  ELSE <<Failed("allowedProviders", "provider_not_allowed")>>
           Deny(p) ==
             IF ~Has(constraints, "deniedProviders") THEN <<>>
             ELSE IF Listed("deniedProviders", p)
                  THEN <<Failed("deniedProviders", "provider_denied")>>
                  ELSE <<Passed("deniedProviders")>>
           rows == [i \in DOMAIN providers |-> Allow(providers[i]) \o Deny(providers[i])]
           v == ProviderVerdicts(constraints, Used(provider))
<1>1. one.provider = provider
  BY DEF OnlyProvider
<1> HIDE DEF one
<1>2. providers = Get(Used(provider), "providerCapabilities", <<>>) /\ providers # <<>>
  BY DEF Used, Get, one
<1>3. AreFine(Allow(one))
  <2>1. Has(constraints, "allowedProviders") => Listed("allowedProviders", one)
    BY <1>1 DEF MayUse
  <2> HIDE DEF Listed
  <2>2. QED
    BY <2>1, FineVerdicts
<1>4. AreFine(Deny(one))
  <2>1. Has(constraints, "deniedProviders") => ~Listed("deniedProviders", one)
    BY <1>1 DEF MayUse, Get, Has
  <2> HIDE DEF Listed
  <2>2. QED
    BY <2>1, FineVerdicts
<1>5. v = <<>> \/ v = FlattenSeq(rows)
  <2>1. v = CASE ~Has(constraints, "allowedProviders") /\ ~Has(constraints, "deniedProviders") -> <<>>
              [] OTHER ->
                   IF providers = <<>> THEN <<Failed("allowedProviders", "provider_capabilities_missing")>>
                   ELSE FlattenSeq(rows)
    BY <1>2 DEF ProviderVerdicts
  <2> HIDE DEF v, rows
  <2>2. QED
    BY <1>2, <2>1, Zenon
<1>6. rows = [i \in DOMAIN providers |-> rows[i]]
      /\ \A i \in DOMAIN providers : rows[i] = Allow(one) \o Deny(one)
  OBVIOUS
<1> HIDE DEF rows, Allow, Deny, v
<1>7. AreFine(Allow(one) \o Deny(one))
  BY <1>3, <1>4, FineJoined
<1>8. IsList(providers)
  BY ShortLists
<1> HIDE DEF providers
<1>9. AreFine(FlattenSeq(rows))
  <2>1. \A i \in DOMAIN providers : IsList(rows[i])
    BY <1>6, <1>7 DEF AreFine
  <2>2. /\ IsList(FlattenSeq(rows))
        /\ \A x : x \in ToSet(FlattenSeq(rows)) <=> \E i \in DOMAIN providers : x \in ToSet(rows[i])
    BY <1>6, <1>8, <2>1, JoinedByPlace
  <2>3. QED
    BY <1>6, <1>7, <2>2 DEF AreFine
<1>10. AreFine(v)
  BY <1>5, <1>9, FineVerdicts
<1>11. QED
  BY <1>10 DEF v

\* What a provider supports is not one of the faults.
LEMMA FineSupport ==
  ASSUME NEW constraints, NEW key, NEW supported, NEW code, code \notin ProviderFaults
  PROVE  AreFine(SupportVerdicts(constraints, key, supported, code))
<1> DEFINE v == SupportVerdicts(constraints, key, supported, code)
<1>1. v = <<>> \/ v = <<Passed(key)>> \/ v = <<Failed(key, code)>>
  BY Zenon DEF SupportVerdicts
<1> HIDE DEF v
<1>2. AreFine(v)
  BY <1>1, FineVerdicts
<1>3. QED
  BY <1>2 DEF v

\* Nor is how long it retains.
LEMMA FineRetention ==
  ASSUME NEW constraints, NEW provider
  PROVE  AreFine(RetentionVerdicts(constraints, Used(provider)))
<1> DEFINE v == RetentionVerdicts(constraints, Used(provider))
           path == "retentionPolicy"
<1>1. Get(Used(provider), "providerCapabilities", <<>>) # <<>>
  BY DEF Used, Get
<1>2. v = <<>> \/ v = <<Passed(path)>> \/ v = <<Failed(path, "retention_unavailable")>>
  <2> DEFINE providers == Get(Used(provider), "providerCapabilities", <<>>)
  <2> HIDE DEF providers
  <2>1. providers # <<>>
    BY <1>1 DEF providers
  <2>2. QED
    BY <2>1, Zenon DEF RetentionVerdicts, providers
<1>3. "retention_unavailable" \notin ProviderFaults
  BY DEF ProviderFaults
<1> HIDE DEF v, path
<1>4. AreFine(v)
  BY <1>2, <1>3, FineVerdicts
<1>5. QED
  BY <1>4 DEF v

\* Verdicts that are made one by one, each of them passed or failed for another reason.
LEMMA FineOneByOne ==
  ASSUME NEW u, IsList(u), NEW f, f = [i \in DOMAIN u |-> f[i]], NEW path, NEW code,
         code \notin ProviderFaults,
         \A i \in DOMAIN u : f[i] = Passed(path) \/ f[i] = Failed(path, code)
  PROVE  AreFine(f)
<1>1. IsList(f) /\ \A x : x \in ToSet(f) <=> \E i \in DOMAIN u : x = f[i]
  BY ByPlace
<1>2. Passed(path).code \notin ProviderFaults
  BY DEF Passed, ProviderFaults
<1>3. Failed(path, code).code \notin ProviderFaults
  BY DEF Failed
<1>4. QED
  BY <1>1, <1>2, <1>3 DEF AreFine

\* Nor are the validators that a plan lacks.
LEMMA FineValidators ==
  ASSUME NEW constraints, NEW options, IsList(Get(constraints, "requiredValidators", <<>>))
  PROVE  AreFine(ValidatorVerdicts(constraints, options))
<1> DEFINE required == Get(constraints, "requiredValidators", <<>>)
           v == ValidatorVerdicts(constraints, options)
<1>1. /\ v = [i \in DOMAIN required |-> v[i]]
      /\ \A i \in DOMAIN required : v[i] = Passed("requiredValidators")
                                    \/ v[i] = Failed("requiredValidators", "validator_missing")
  BY DEF ValidatorVerdicts
<1>2. "validator_missing" \notin ProviderFaults
  BY DEF ProviderFaults
<1> HIDE DEF v, required
<1>3. IsList(required)
  BY DEF required
<1>4. AreFine(v)
  BY <1>1, <1>2, <1>3, FineOneByOne
<1>5. QED
  BY <1>4 DEF v

\* Nor are the privacy classes of the blocks and their redaction.
LEMMA FinePrivacy ==
  ASSUME NEW p, IsPlan(p)
  PROVE  AreFine(PrivacyVerdicts(p))
<1> DEFINE policy == Get(p.constraints, "dataPolicy", <<>>)
           blocks == p.context
           sensitive == Where(blocks, IsSensitive)
           Class(block) ==
             IF Get(block, "privacyClass", "none") \in policy.allowedPrivacyClasses
             THEN Passed("allowedPrivacyClasses")
             ELSE Failed("allowedPrivacyClasses", "privacy_class_not_allowed")
           Redaction(block) ==
             IF Get(Get(block, "retentionPolicy", <<>>), "mode", "none") \in {"metadata_only", "redacted"}
             THEN Passed("redactionRequired") ELSE Failed("redactionRequired", "redaction_required")
           classes == [i \in DOMAIN blocks |-> Class(blocks[i])]
           redactions == [i \in DOMAIN sensitive |-> Redaction(sensitive[i])]
           a == IF Has(policy, "allowedPrivacyClasses") THEN classes ELSE <<>>
           b == IF Get(policy, "redactionRequired", FALSE) THEN redactions ELSE <<>>
<1>1. PrivacyVerdicts(p) = a \o b
  BY DEF PrivacyVerdicts
<1>2. IsList(blocks)
  BY DEF IsPlan
<1>3. IsList(sensitive)
  <2>1. sensitive = Picked(blocks, {i \in DOMAIN blocks : IsSensitive(blocks[i])})
    BY DEF Where, Picked
  <2> HIDE DEF blocks, sensitive
  <2>2. QED
    BY <1>2, <2>1, PickedItems
<1> HIDE DEF blocks, sensitive
<1>4. "privacy_class_not_allowed" \notin ProviderFaults /\ "redaction_required" \notin ProviderFaults
  BY DEF ProviderFaults
<1>5. AreFine(classes)
  <2>1. /\ classes = [i \in DOMAIN blocks |-> classes[i]]
        /\ \A i \in DOMAIN blocks :
             \/ classes[i] = Passed("allowedPrivacyClasses")
             \/ classes[i] = Failed("allowedPrivacyClasses", "privacy_class_not_allowed")
    OBVIOUS
  <2> HIDE DEF classes
  <2>2. QED
    BY <1>2, <1>4, <2>1, FineOneByOne
<1>6. AreFine(redactions)
  <2>1. /\ redactions = [i \in DOMAIN sensitive |-> redactions[i]]
        /\ \A i \in DOMAIN sensitive :
             \/ redactions[i] = Passed("redactionRequired")
             \/ redactions[i] = Failed("redactionRequired", "redaction_required")
    OBVIOUS
  <2> HIDE DEF redactions
  <2>2. QED
    BY <1>3, <1>4, <2>1, FineOneByOne
<1> HIDE DEF classes, redactions
<1>7. AreFine(a) /\ AreFine(b)
  BY <1>5, <1>6, FineVerdicts
<1> HIDE DEF a, b
<1>8. AreFine(a \o b)
  BY <1>7, FineJoined
<1>9. QED
  BY <1>1, <1>8

\* A provider that a pass may use is one that the constraints find no fault with.
LEMMA UsableIsFaultless ==
  ASSUME NEW p, IsPlan(p), NEW provider, MayUse(p.constraints, provider)
  PROVE  \A f \in EvaluateConstraints(p, Used(provider)).failures : f.code \notin ProviderFaults
<1> DEFINE constraints == p.constraints
           options == Used(provider)
           a == ThresholdVerdicts(constraints, options)
           b == ProviderVerdicts(constraints, options)
           c == SupportVerdicts(constraints, "replayPolicy", Get(options, "replayPolicies", {}),
                                "replay_policy_unsupported")
           d == SupportVerdicts(constraints, "auditLevel", Get(options, "auditLevels", {}),
                                "audit_level_unsupported")
           e == RetentionVerdicts(constraints, options)
           g == ValidatorVerdicts(constraints, options)
           h == PrivacyVerdicts(p)
           verdicts == a \o b \o c \o d \o e \o g \o h
           failed == {i \in DOMAIN verdicts : verdicts[i].code # "none"}
<1>1. EvaluateConstraints(p, options).failures =
        {[code |-> verdicts[i].code, evidenceRef |-> i] : i \in failed}
  BY DEF EvaluateConstraints
<1>2. "replay_policy_unsupported" \notin ProviderFaults /\ "audit_level_unsupported" \notin ProviderFaults
  BY DEF ProviderFaults
<1>3. IsList(Get(constraints, "requiredValidators", <<>>))
  BY DEF IsPlan
<1>4. AreFine(a)
  BY FineThresholds
<1>5. AreFine(b)
  BY FineProvider
<1>6. AreFine(c)
  BY <1>2, FineSupport
<1>7. AreFine(d)
  BY <1>2, FineSupport
<1>8. AreFine(e)
  BY FineRetention
<1>9. AreFine(g)
  BY <1>3, FineValidators
<1>10. AreFine(h)
  BY FinePrivacy
<1> HIDE DEF a, b, c, d, e, g, h
<1>11. AreFine(a \o b \o c)
  <2>1. AreFine(a \o b)
    BY <1>4, <1>5, FineJoined
  <2>2. QED
    BY <1>6, <2>1, FineJoined
<1>12. AreFine(a \o b \o c \o d \o e)
  <2>1. AreFine(a \o b \o c \o d)
    BY <1>7, <1>11, FineJoined
  <2>2. QED
    BY <1>8, <2>1, FineJoined
<1>13. AreFine(verdicts)
  <2>1. AreFine(a \o b \o c \o d \o e \o g)
    BY <1>9, <1>12, FineJoined
  <2>2. QED
    BY <1>10, <2>1, FineJoined
<1> HIDE DEF verdicts, options
<1>14. \A i \in DOMAIN verdicts : verdicts[i].code \notin ProviderFaults
  BY <1>13 DEF AreFine, ToSet
<1>15. \A f \in EvaluateConstraints(p, options).failures : f.code \notin ProviderFaults
  BY <1>1, <1>14
<1>16. QED
  BY <1>15 DEF options

\* While the plan is right, the providers it is planned for may be used.
LEMMA RightPlansUseUsableProviders == PlanInv => PlannedProvidersMayBeUsed
<1> SUFFICES ASSUME PlanInv PROVE PlannedProvidersMayBeUsed
  OBVIOUS
<1> DEFINE Target(e) ==
             CASE e.kind = "routing_decision" -> {e.target.provider}
               [] e.kind = "retry_fallback_decision" ->
                    IF e.decision = "fallback" THEN {e.fallbackTarget} ELSE {}
               [] OTHER -> {}
           Faults(provider) == {f.code : f \in EvaluateConstraints(plan, Used(provider)).failures}
<1>1. IsRightSoFar(configuration.plan, plan, evidence, warnings)
  BY DEF PlanInv
<1>2. IsPlan(plan) /\ \A e \in ToSet(evidence) : MayBeTaken(e, plan.constraints)
  BY <1>1 DEF IsRightSoFar, IsLeft
<1>3. ASSUME NEW e \in ToSet(evidence), NEW provider \in Target(e)
      PROVE  MayUse(plan.constraints, provider)
  <2>1. MayBeTaken(e, plan.constraints)
    BY <1>2
  <2>2. \/ e.kind = "routing_decision" /\ provider = e.target.provider
        \/ e.kind = "retry_fallback_decision" /\ e.decision = "fallback" /\ provider = e.fallbackTarget
    BY <1>3
  <2>3. QED
    BY <2>1, <2>2 DEF MayBeTaken
<1>4. ASSUME NEW e \in ToSet(evidence), NEW provider \in Target(e)
      PROVE  Faults(provider) \cap ProviderFaults = {}
  <2>1. \A f \in EvaluateConstraints(plan, Used(provider)).failures : f.code \notin ProviderFaults
    BY <1>2, <1>3, <1>4, UsableIsFaultless
  <2>2. QED
    BY <2>1
<1>5. QED
  BY <1>4 DEF PlannedProvidersMayBeUsed, Used, OnlyProvider, ProviderFaults

\* A provider that a pass routes a call or a fallback to is one with which the check of
\* the constraints finds no fault, whatever the constraints are (static-routing.ts and
\* retry-fallback-planning.ts against constraints.ts).
THEOREM DecisionsNameUsableProviders == PipelineSpec => []PlannedProvidersMayBeUsed
BY PlansStayRight, RightPlansUseUsableProviders, PTL

-----------------------------------------------------------------------------
\* A change is what it is made of.
LEMMA ChangeMembers ==
  \A kind, what, id, field : LET c == Change(kind, what, id, field)
                             IN c.kind = kind /\ c.what = what /\ c.id = id
BY DEF Change

\* What is removed from a collection is what is in it before and not after.
Names(changes, what, gone) ==
  /\ \A c \in changes : c.what = what
  /\ \A c \in changes : c.kind = "removed" => \E id \in gone : c.id = <<id>>
  /\ \A id \in gone : \E c \in changes : c.kind = "removed" /\ c.id = <<id>>

\* The diff of a collection names what is gone, and nothing else as removed.
LEMMA CollectionChanges ==
  ASSUME NEW what, NEW before, NEW after
  PROVE  Names(DiffCollection(what, before, after), what, IdsIn(before) \ IdsIn(after))
<1> DEFINE Ids(items) == {items[i].id : i \in DOMAIN items}
           At(items, id) == LastWith(items, LAMBDA item : item.id = id)[1]
           Changed(id) == {Change("changed", what, <<id>>, field) :
                             field \in ChangedFields(At(before, id), At(after, id))}
           old == Ids(before)
           new == Ids(after)
           changes == DiffCollection(what, before, after)
<1>1. changes = {Change("removed", what, <<id>>, <<>>) : id \in old \ new}
                  \cup {Change("added", what, <<id>>, <<>>) : id \in new \ old}
                  \cup UNION {Changed(id) : id \in old \cap new}
  BY DEF DiffCollection
<1>2. \A id : \A c \in Changed(id) : c.kind = "changed" /\ c.what = what
  <2> DEFINE Fields(id) == ChangedFields(At(before, id), At(after, id))
  <2>1. \A id : Changed(id) = {Change("changed", what, <<id>>, field) : field \in Fields(id)}
    OBVIOUS
  <2> HIDE DEF Fields, Changed
  <2>2. \A id : \A c \in Changed(id) : \E field : c = Change("changed", what, <<id>>, field)
    BY <2>1
  <2>3. \A id, field : /\ Change("changed", what, <<id>>, field).kind = "changed"
                       /\ Change("changed", what, <<id>>, field).what = what
    BY ChangeMembers
  <2>4. ASSUME NEW id, NEW c \in Changed(id)
        PROVE  c.kind = "changed" /\ c.what = what
    <3>1. PICK field : c = Change("changed", what, <<id>>, field)
      BY <2>2
    <3>2. QED
      BY <2>3, <3>1
  <2>5. QED
    BY <2>4
<1>3. \A id : /\ Change("removed", what, <<id>>, <<>>).kind = "removed"
              /\ Change("removed", what, <<id>>, <<>>).what = what
              /\ Change("removed", what, <<id>>, <<>>).id = <<id>>
              /\ Change("added", what, <<id>>, <<>>).kind = "added"
              /\ Change("added", what, <<id>>, <<>>).what = what
  BY ChangeMembers
<1> HIDE DEF Changed, changes, old, new
<1>4. \A c \in changes : \/ \E id \in old \ new : c = Change("removed", what, <<id>>, <<>>)
                         \/ \E id \in new \ old : c = Change("added", what, <<id>>, <<>>)
                         \/ \E id \in old \cap new : c \in Changed(id)
  BY <1>1
<1>5. \A id \in old \ new : Change("removed", what, <<id>>, <<>>) \in changes
  BY <1>1
<1>6. ASSUME NEW c \in changes
      PROVE  c.what = what /\ (c.kind = "removed" => \E id \in old \ new : c.id = <<id>>)
  <2>1. CASE \E id \in old \ new : c = Change("removed", what, <<id>>, <<>>)
    BY <1>3, <2>1
  <2>2. CASE \E id \in new \ old : c = Change("added", what, <<id>>, <<>>)
    BY <1>3, <2>2
  <2>3. CASE \E id \in old \cap new : c \in Changed(id)
    BY <1>2, <2>3
  <2>4. QED
    BY <1>4, <2>1, <2>2, <2>3
<1>8. \A id \in old \ new : \E c \in changes : c.kind = "removed" /\ c.id = <<id>>
  BY <1>3, <1>5
<1>9. QED
  BY <1>6, <1>8 DEF changes, old, new, Names, IdsIn

\* A changed record is changed, and a changed warning is a warning.
LEMMA RecordChanges ==
  ASSUME NEW what, NEW before, NEW after
  PROVE  \A c \in DiffRecord(what, before, after) : c.kind = "changed"
BY ChangeMembers DEF DiffRecord

\* The diff of the warnings is of warnings.
LEMMA WarningChanges ==
  ASSUME NEW before, NEW after
  PROVE  \A c \in DiffWarnings(before, after) : c.what = "warning"
<1> DEFINE Id(w) == <<w.code, w.severity, w.path>>
           Ids(items) == {Id(items[i]) : i \in DOMAIN items}
           At(items, id) == LastWith(items, LAMBDA w : Id(w) = id)[1]
           old == Ids(before)
           new == Ids(after)
           same == {i \in old \cap new : At(before, i) # At(after, i)}
<1>1. DiffWarnings(before, after) =
        {Change("removed", "warning", id, <<>>) : id \in old \ new}
          \cup {Change("added", "warning", id, <<>>) : id \in new \ old}
          \cup {Change("changed", "warning", id, <<>>) : id \in same}
  BY DEF DiffWarnings
<1> HIDE DEF old, new, same
<1>2. \A c \in DiffWarnings(before, after) : \E kind, id : c = Change(kind, "warning", id, <<>>)
  BY <1>1
<1>3. QED
  BY <1>2, ChangeMembers

\* The blocks that a diff names as removed are those that are gone.
LEMMA DiffNamesRemovals ==
  ASSUME NEW first, NEW p
  PROVE  RemovedIds(first, p) =
           {change.id[1] : change \in {c \in DiffPlans(first, p, <<>>, <<>>) :
                                         c.kind = "removed" /\ c.what = "context"}}
<1> DEFINE all == DiffPlans(first, p, <<>>, <<>>)
           blocks == DiffCollection("context", first.context, p.context)
           named == {c \in all : c.kind = "removed" /\ c.what = "context"}
           gone == RemovedIds(first, p)
<1>1. \A c : c \in all <=>
        \/ c \in DiffRecord("metadata", first.metadata, p.metadata)
        \/ c \in DiffRecord("constraint", first.constraints, p.constraints)
        \/ c \in blocks
        \/ c \in DiffCollection("node", first.nodes, p.nodes)
        \/ c \in DiffCollection("edge", first.edges, p.edges)
        \/ c \in DiffWarnings(<<>>, <<>>)
  BY DEF DiffPlans
<1>2. /\ \A c \in blocks : c.what = "context"
      /\ \A c \in blocks : c.kind = "removed" => \E id \in gone : c.id = <<id>>
      /\ \A id \in gone : \E c \in blocks : c.kind = "removed" /\ c.id = <<id>>
  BY CollectionChanges DEF Names, RemovedIds
<1>3. \A c \in DiffCollection("node", first.nodes, p.nodes) : c.what = "node"
  BY CollectionChanges DEF Names
<1>4. \A c \in DiffCollection("edge", first.edges, p.edges) : c.what = "edge"
  BY CollectionChanges DEF Names
<1> HIDE DEF all, blocks, gone
<1>5. \A c : c \in named <=> c \in blocks /\ c.kind = "removed"
  BY <1>1, <1>2, <1>3, <1>4, RecordChanges, WarningChanges
<1> HIDE DEF named
<1>6. \A id : <<id>>[1] = id
  OBVIOUS
<1>7. \A id : id \in gone <=> \E c \in named : c.id[1] = id
  BY <1>2, <1>5, <1>6
<1>8. gone = {c.id[1] : c \in named}
  BY <1>7
<1>9. QED
  BY <1>8 DEF gone, named, all

\* While the plan is right, what is gone from it was told.
LEMMA RightPlansTellRemovals == PlanInv => RemovalsAreTold
<1> SUFFICES ASSUME PlanInv PROVE RemovalsAreTold
  OBVIOUS
<1> DEFINE first == configuration.plan
           told == {e \in ToSet(evidence) : IsTold(e)}
           kept == {w.path[1] : w \in {v \in ToSet(warnings) : IsKept(v)}}
           gone == {e \in told : e.contextIds[1] \notin kept}
           removed == RemovedIds(first, plan)
           Keys(id) == {DuplicateKey(b) : b \in {c \in ToSet(first.context) : c.id = id}}
           pairs == ToSet(DuplicatePairs(first))
<1>1. /\ IsLeft(first, plan) /\ IsPlan(first) /\ IsPlan(plan)
      /\ IsAccountOf(first, plan, evidence, warnings)
      /\ AreToldOf(first, first, plan, evidence)
      /\ ContextIdsOf(plan) \cap removed = {}
  BY DEF PlanInv, IsRightSoFar, IsLeft
<1>2. /\ \A x \in pairs : /\ Matches(ToSet(first.context), x.canonical, x.candidate)
                          /\ x.canonical \in ToSet(plan.context)
      /\ \A x, y \in pairs : x.candidate.id = y.candidate.id => x = y
  BY <1>1, PairsAreApart, PairsOfWhatIsLeft
<1>3. /\ \A a, b \in ToSet(first.context) : a.id = b.id => a = b
      /\ IdsIn(first.context) = {b.id : b \in ToSet(first.context)}
      /\ IdsIn(plan.context) = {b.id : b \in ToSet(plan.context)}
  BY <1>1, BlocksOfPlan
<1> HIDE DEF first, pairs
<1>4. \A x, y : <<x, y>>[1] = x /\ <<x, y>>[2] = y /\ <<x>>[1] = x
  OBVIOUS
<1>5. ASSUME NEW x \in pairs
      PROVE  x.candidate.id \in kept => ReasonOf(first, x) # "none"
  <2> SUFFICES ASSUME x.candidate.id \in kept PROVE ReasonOf(first, x) # "none"
    OBVIOUS
  <2>1. PICK w \in ToSet(warnings) : IsKept(w) /\ x.candidate.id = w.path[1]
    OBVIOUS
  <2>2. PICK y \in pairs : KeepsOf(w, y) /\ ReasonOf(first, y) # "none"
    BY <1>1, <2>1 DEF IsAccountOf, pairs
  <2>3. w.path[1] = y.candidate.id
    BY <1>4, <2>2 DEF KeepsOf
  <2>4. QED
    BY <1>2, <2>1, <2>2, <2>3
<1>6. ASSUME NEW w \in ToSet(warnings), NEW x, KeepsOf(w, x)
      PROVE  x.candidate.id \in kept
  <2>1. IsKept(w) /\ w.path[1] = x.candidate.id
    BY <1>4, <1>6 DEF KeepsOf
  <2>2. QED
    BY <2>1
<1> HIDE DEF kept
<1>7. ASSUME NEW e \in gone
      PROVE  \E x \in pairs : /\ e.contextIds[1] = x.candidate.id /\ e.contextIds[2] = x.canonical.id
                              /\ x.candidate.id \notin IdsIn(plan.context)
  <2>1. e \in ToSet(evidence) /\ IsTold(e) /\ e.contextIds[1] \notin kept
    OBVIOUS
  <2>2. PICK x \in pairs :
          /\ TellsOf(e, x)
          /\ ReasonOf(first, x) = "none" => x.candidate.id \notin IdsIn(plan.context)
          /\ ReasonOf(first, x) # "none" => \E w \in ToSet(warnings) : KeepsOf(w, x)
    BY <1>1, <2>1 DEF IsAccountOf, pairs
  <2>3. e.contextIds[1] = x.candidate.id /\ e.contextIds[2] = x.canonical.id
    BY <1>4, <2>2 DEF TellsOf
  <2>4. ReasonOf(first, x) = "none"
    BY <1>6, <2>1, <2>2, <2>3
  <2>5. QED
    BY <2>2, <2>3, <2>4
<1>8. ASSUME NEW id \in removed
      PROVE  \E e \in gone : e.contextIds[1] = id
  <2>1. id \in IdsIn(first.context) /\ id \notin IdsIn(plan.context)
    BY DEF RemovedIds
  <2>2. PICK e \in ToSet(evidence), x \in pairs :
          TellsOf(e, x) /\ ReasonOf(first, x) = "none" /\ x.candidate.id = id
    BY <1>1, <2>1 DEF AreToldOf, pairs
  <2>3. e.contextIds[1] = id /\ IsTold(e)
    BY <1>4, <2>2 DEF TellsOf
  <2>4. id \notin kept
    BY <1>5, <2>2
  <2>5. QED
    BY <2>3, <2>4
<1> HIDE DEF gone
<1>9. ASSUME NEW e \in gone
      PROVE  /\ e.contextIds[1] \in removed
             /\ e.contextIds[2] \in IdsIn(plan.context)
             /\ Keys(e.contextIds[1]) = Keys(e.contextIds[2])
  <2>1. PICK x \in pairs : /\ e.contextIds[1] = x.candidate.id /\ e.contextIds[2] = x.canonical.id
                           /\ x.candidate.id \notin IdsIn(plan.context)
    BY <1>7
  <2>2. /\ x.candidate \in ToSet(first.context) /\ x.canonical \in ToSet(first.context)
        /\ x.canonical \in ToSet(plan.context)
        /\ DuplicateKey(x.candidate) = DuplicateKey(x.canonical)
    BY <1>2 DEF Matches
  <2>3. \A b \in ToSet(first.context) : Keys(b.id) = {DuplicateKey(b)}
    BY <1>3
  <2> HIDE DEF Keys
  <2>4. QED
    BY <1>3, <2>1, <2>2, <2>3 DEF RemovedIds
<1>10. removed = {e.contextIds[1] : e \in gone}
  <2> HIDE DEF removed
  <2>1. QED
    BY <1>8, <1>9
<1>11. removed = {change.id[1] : change \in {c \in DiffPlans(first, plan, <<>>, <<>>) :
                                               c.kind = "removed" /\ c.what = "context"}}
  BY DiffNamesRemovals
<1>12. QED
  BY <1>1, <1>9, <1>10, <1>11
     DEF RemovalsAreTold, first, told, kept, gone, removed, IsTold, IsKept, RemovedIds

\* The blocks that are gone are those the evidence tells of and no warning says were kept;
\* each has a block of its content that stays, and nothing refers to it
\* (exact-duplicate-context.ts with runner.ts and diff.ts).
THEOREM NothingIsLostUntold == PipelineSpec => []RemovalsAreTold
BY PlansStayRight, RightPlansTellRemovals, PTL

-----------------------------------------------------------------------------
\* What an id stands for in the first plan.
BlocksOf(first) ==
  [id \in AllIds(first) |-> IF id \in IdsIn(first.context) THEN <<BlockOf(first, id)>> ELSE <<>>]
IdsRead(node) == Get(node, "inputContext", <<>>)

\* A node of the plan that is left reads blocks of the first plan.
LEMMA BlocksRead ==
  ASSUME NEW first, NEW p, IsPlan(first), IsPlan(p), ToSet(p.context) \subseteq ToSet(first.context),
         NEW node, IsList(IdsRead(node)), ToSet(IdsRead(node)) \subseteq AllIds(first),
         ToSet(IdsRead(node)) \cap RemovedIds(first, p) = {}
  PROVE  InputBlocks(p, node) = Spread(IdsRead(node), BlocksOf(first))
<1> DEFINE ids == IdsRead(node)
           found == [k \in DOMAIN ids |-> BlockWith(p.context, ids[k])]
           B == BlocksOf(first)
<1>1. InputBlocks(p, node) = FlattenSeq(found)
  BY DEF InputBlocks, BlockWith, IdsRead
<1>2. /\ IsList(p.context)
      /\ \A i, j \in 1 .. Len(p.context) : p.context[i].id = p.context[j].id => i = j
      /\ DOMAIN p.context = 1 .. Len(p.context)
      /\ \A x : x \in ToSet(p.context) <=> \E i \in 1 .. Len(p.context) : x = p.context[i]
  <2>1. IsList(p.context)
    BY DEF IsPlan
  <2>2. DOMAIN p.context = 1 .. Len(p.context)
        /\ \A x : x \in ToSet(p.context) <=> \E i \in 1 .. Len(p.context) : x = p.context[i]
    BY <2>1, ListItems
  <2>3. \A i, j \in DOMAIN p.context : p.context[i].id = p.context[j].id => i = j
    BY DEF IsPlan
  <2>4. QED
    BY <2>1, <2>2, <2>3
<1>3. /\ \A b \in ToSet(first.context) : BlockOf(first, b.id) = b
      /\ IdsIn(first.context) = {b.id : b \in ToSet(first.context)}
      /\ IdsIn(p.context) = {b.id : b \in ToSet(p.context)}
  BY SaidOfIds, BlocksOfPlan
<1> HIDE DEF ids
<1>4. ASSUME NEW k \in DOMAIN ids
      PROVE  BlockWith(p.context, ids[k]) = B[ids[k]]
  <2> DEFINE id == ids[k]
  <2>1. id \in ToSet(ids)
    BY DEF ToSet
  <2>2. id \in AllIds(first) /\ id \notin RemovedIds(first, p)
    BY <2>1 DEF ids
  <2> HIDE DEF id
  <2>3. /\ \A i \in 1 .. Len(p.context) :
             p.context[i].id = id => BlockWith(p.context, id) = <<p.context[i]>>
        /\ (\A i \in 1 .. Len(p.context) : p.context[i].id # id) => BlockWith(p.context, id) = <<>>
    <3> DEFINE items == p.context
    <3>1. IsList(items) /\ \A i, j \in 1 .. Len(items) : items[i].id = items[j].id => i = j
      BY <1>2
    <3> HIDE DEF items
    <3>2. /\ \A i \in 1 .. Len(items) : items[i].id = id => BlockWith(items, id) = <<items[i]>>
          /\ (\A i \in 1 .. Len(items) : items[i].id # id) => BlockWith(items, id) = <<>>
      BY <3>1, TheOneWithId
    <3>3. QED
      BY <3>2 DEF items
  <2>4. CASE id \in IdsIn(p.context)
    <3>1. PICK i \in 1 .. Len(p.context) : p.context[i].id = id
      BY <1>2, <2>4 DEF IdsIn
    <3>2. p.context[i] \in ToSet(first.context) /\ BlockWith(p.context, id) = <<p.context[i]>>
      BY <1>2, <2>3, <3>1
    <3>3. BlockOf(first, id) = p.context[i] /\ id \in IdsIn(first.context)
      BY <1>3, <3>1, <3>2
    <3>4. QED
      BY <2>2, <3>2, <3>3 DEF BlocksOf, id
  <2>5. CASE id \notin IdsIn(p.context)
    <3>1. \A i \in 1 .. Len(p.context) : p.context[i].id # id
      BY <1>2, <2>5 DEF IdsIn
    <3>2. id \notin IdsIn(first.context)
      BY <2>2, <2>5 DEF RemovedIds
    <3>3. QED
      BY <2>2, <2>3, <3>1, <3>2 DEF BlocksOf, id
  <2>6. QED
    BY <2>4, <2>5
<1> HIDE DEF B
<1>5. found = [k \in DOMAIN ids |-> B[ids[k]]]
  BY <1>4
<1>6. FlattenSeq(found) = Spread(ids, B)
  BY <1>5 DEF Spread
<1>7. QED
  BY <1>1, <1>6 DEF ids, B

\* What is made of the blocks that a node reads, block by block and from what each says,
\* is what is made of its reading, but for repetitions.
LEMMA MadeOfReading ==
  ASSUME NEW first, IsPlan(first), NEW node,
         IsList(IdsRead(node)), ToSet(IdsRead(node)) \subseteq AllIds(first),
         NEW K, NEW R,
         \A b \in ToSet(first.context) : /\ K[b] = R[MessageOf(first, b)]
                                         /\ AtMostOne(K[b])
  PROVE  Distinct(Spread(Spread(IdsRead(node), BlocksOf(first)), K))
           = Distinct(Spread(Reading(first, node), R))
<1> DEFINE ids == IdsRead(node)
           B == BlocksOf(first)
           S == Said(first)
           Z == [id \in AllIds(first) |-> IF id \in IdsIn(first.context)
                                          THEN K[BlockOf(first, id)] ELSE <<>>]
<1>1. IdsIn(first.context) = {b.id : b \in ToSet(first.context)}
      /\ \A b \in ToSet(first.context) : BlockOf(first, b.id) = b
  BY BlocksOfPlan, SaidOfIds
<1>2. \A id \in IdsIn(first.context) : BlockOf(first, id) \in ToSet(first.context)
  BY <1>1
<1>3. ASSUME NEW id \in AllIds(first)
      PROVE  \/ B[id] = <<>> /\ S[id] = <<>> /\ Z[id] = <<>>
             \/ \E b \in ToSet(first.context) :
                  B[id] = <<b>> /\ S[id] = <<MessageOf(first, b)>> /\ Z[id] = K[b]
  <2>1. CASE id \in IdsIn(first.context)
    <3>1. B[id] = <<BlockOf(first, id)>>
      BY <2>1 DEF BlocksOf
    <3>2. S[id] = <<MessageOf(first, BlockOf(first, id))>>
      BY <2>1 DEF Said
    <3>3. Z[id] = K[BlockOf(first, id)]
      BY <2>1
    <3>4. QED
      BY <1>2, <2>1, <3>1, <3>2, <3>3
  <2>2. CASE id \notin IdsIn(first.context)
    BY <2>2 DEF BlocksOf, Said
  <2>3. QED
    BY <2>1, <2>2
<1> HIDE DEF ids, B, S, Z
<1>4. IsList(ids) /\ \A id \in ToSet(ids) : id \in AllIds(first)
  BY DEF ids
<1>5. \A b \in ToSet(first.context) : IsList(K[b]) /\ IsList(R[MessageOf(first, b)])
  BY AtMostOneIsList
<1>6. Spread(Spread(ids, B), K) = Spread(ids, Z)
  <2>1. \A x \in ToSet(ids) : \/ B[x] = <<>> /\ Z[x] = <<>>
                              \/ \E y : B[x] = <<y>> /\ IsList(K[y]) /\ Z[x] = K[y]
    BY <1>3, <1>4, <1>5
  <2>2. QED
    BY <1>4, <2>1, SpreadTwice
<1>7. Spread(Spread(ids, S), R) = Spread(ids, Z)
  <2>1. \A x \in ToSet(ids) : \/ S[x] = <<>> /\ Z[x] = <<>>
                              \/ \E y : S[x] = <<y>> /\ IsList(R[y]) /\ Z[x] = R[y]
    BY <1>3, <1>4, <1>5
  <2>2. QED
    BY <1>4, <2>1, SpreadTwice
<1>8. IsList(Spread(ids, S)) /\ \A m \in ToSet(Spread(ids, S)) : AtMostOne(R[m])
  <2>1. ASSUME NEW x \in ToSet(ids) PROVE IsList(S[x])
    <3>1. S[x] = <<>> \/ \E m : S[x] = <<m>>
      BY <1>3, <1>4
    <3>2. QED
      BY <3>1, ShortLists
  <2>2. /\ IsList(Spread(ids, S))
        /\ ToSet(Spread(ids, S)) = UNION {ToSet(S[y]) : y \in ToSet(ids)}
    BY <1>4, <2>1, SpreadItems
  <2>3. ASSUME NEW m \in ToSet(Spread(ids, S)) PROVE AtMostOne(R[m])
    <3>1. PICK y \in ToSet(ids) : m \in ToSet(S[y])
      BY <2>2
    <3>2. PICK b \in ToSet(first.context) : S[y] = <<MessageOf(first, b)>>
      BY <1>3, <1>4, <3>1, ShortLists
    <3>3. m = MessageOf(first, b)
      BY <3>1, <3>2, ShortLists
    <3>4. QED
      BY <3>3
  <2>4. QED
    BY <2>2, <2>3
<1>9. Distinct(Spread(Distinct(Spread(ids, S)), R)) = Distinct(Spread(Spread(ids, S), R))
  BY <1>8, DistinctSpread
<1>10. Reading(first, node) = Distinct(Spread(ids, S))
  BY DEF Reading, ids, S, IdsRead
<1>11. QED
  BY <1>6, <1>7, <1>9, <1>10 DEF ids, B

\* What a node of the plan that is left reads, block by block, is what it read at first.
LEMMA NodesReadTheSame ==
  ASSUME NEW first, NEW p, IsLeft(first, p), NEW i \in DOMAIN first.nodes, NEW K, NEW R,
         \A b \in ToSet(first.context) : /\ K[b] = R[MessageOf(first, b)]
                                         /\ AtMostOne(K[b])
  PROVE  /\ Distinct(Spread(InputBlocks(first, first.nodes[i]), K))
              = Distinct(Spread(InputBlocks(p, p.nodes[i]), K))
         /\ IsList(InputBlocks(first, first.nodes[i])) /\ IsList(InputBlocks(p, p.nodes[i]))
         /\ ToSet(InputBlocks(first, first.nodes[i])) \subseteq ToSet(first.context)
         /\ ToSet(InputBlocks(p, p.nodes[i])) \subseteq ToSet(first.context)
<1> DEFINE a == first.nodes[i]
           c == p.nodes[i]
           B == BlocksOf(first)
<1>1. /\ IsPlan(first) /\ IsPlan(p) /\ ToSet(p.context) \subseteq ToSet(first.context)
      /\ ContextIdsOf(p) \subseteq AllIds(first) /\ ContextIdsOf(p) \cap RemovedIds(first, p) = {}
      /\ Reading(first, c) = Reading(first, a)
  BY DEF IsLeft
<1>2. DOMAIN p.nodes = DOMAIN first.nodes /\ IsNode(a) /\ IsNode(c)
  BY NodesOfWhatIsLeft
<1>3. IsList(IdsRead(a)) /\ IsList(IdsRead(c))
  BY <1>2, ShortLists DEF IsNode, IdsRead, Get, Has
<1>4. ToSet(IdsRead(a)) \subseteq ContextIdsOf(first) /\ ToSet(IdsRead(c)) \subseteq ContextIdsOf(p)
  BY <1>2, NamedIds DEF IdsRead
<1> HIDE DEF a, c
<1>5. /\ ToSet(IdsRead(a)) \subseteq AllIds(first)
      /\ ToSet(IdsRead(a)) \cap RemovedIds(first, first) = {}
      /\ ToSet(IdsRead(c)) \subseteq AllIds(first)
      /\ ToSet(IdsRead(c)) \cap RemovedIds(first, p) = {}
  BY <1>1, <1>4 DEF AllIds, RemovedIds
<1>6. InputBlocks(first, a) = Spread(IdsRead(a), B)
  BY <1>1, <1>3, <1>5, BlocksRead
<1>7. InputBlocks(p, c) = Spread(IdsRead(c), B)
  BY <1>1, <1>3, <1>5, BlocksRead
<1>8. Distinct(Spread(Spread(IdsRead(a), B), K)) = Distinct(Spread(Reading(first, a), R))
  BY <1>1, <1>3, <1>5, MadeOfReading
<1>9. Distinct(Spread(Spread(IdsRead(c), B), K)) = Distinct(Spread(Reading(first, c), R))
  BY <1>1, <1>3, <1>5, MadeOfReading
<1>10. \A id \in AllIds(first) : IsList(B[id]) /\ ToSet(B[id]) \subseteq ToSet(first.context)
  <2>1. \A id \in IdsIn(first.context) : BlockOf(first, id) \in ToSet(first.context)
    <3>1. IdsIn(first.context) = {b.id : b \in ToSet(first.context)}
          /\ \A b \in ToSet(first.context) : BlockOf(first, b.id) = b
      BY <1>1, BlocksOfPlan, SaidOfIds
    <3>2. QED
      BY <3>1
  <2>2. \A id \in AllIds(first) : B[id] = <<>> \/ (id \in IdsIn(first.context) /\ B[id] = <<BlockOf(first, id)>>)
    BY DEF BlocksOf
  <2> HIDE DEF B
  <2>3. ASSUME NEW id \in AllIds(first)
        PROVE  IsList(B[id]) /\ ToSet(B[id]) \subseteq ToSet(first.context)
    <3>1. B[id] = <<>> \/ \E b \in ToSet(first.context) : B[id] = <<b>>
      BY <2>1, <2>2
    <3>2. CASE B[id] = <<>>
      BY <3>2, ShortLists
    <3>3. CASE \E b \in ToSet(first.context) : B[id] = <<b>>
      <4>1. PICK b \in ToSet(first.context) : B[id] = <<b>>
        BY <3>3
      <4>2. IsList(<<b>>) /\ ToSet(<<b>>) = {b}
        BY ShortLists
      <4>3. QED
        BY <4>1, <4>2
    <3>4. QED
      BY <3>1, <3>2, <3>3
  <2>4. QED
    BY <2>3
<1> HIDE DEF B
<1>11. ASSUME NEW ids, IsList(ids), ToSet(ids) \subseteq AllIds(first)
       PROVE  IsList(Spread(ids, B)) /\ ToSet(Spread(ids, B)) \subseteq ToSet(first.context)
  <2>1. \A y \in ToSet(ids) : IsList(B[y]) /\ ToSet(B[y]) \subseteq ToSet(first.context)
    BY <1>10, <1>11
  <2>2. /\ IsList(Spread(ids, B))
        /\ ToSet(Spread(ids, B)) = UNION {ToSet(B[y]) : y \in ToSet(ids)}
    BY <1>11, <2>1, SpreadItems
  <2>3. QED
    BY <2>1, <2>2
<1>12. /\ Distinct(Spread(InputBlocks(first, a), K)) = Distinct(Spread(InputBlocks(p, c), K))
       /\ IsList(InputBlocks(first, a)) /\ IsList(InputBlocks(p, c))
       /\ ToSet(InputBlocks(first, a)) \subseteq ToSet(first.context)
       /\ ToSet(InputBlocks(p, c)) \subseteq ToSet(first.context)
  BY <1>1, <1>3, <1>5, <1>6, <1>7, <1>8, <1>9, <1>11
<1>13. QED
  BY <1>12 DEF a, c

-----------------------------------------------------------------------------
\* The roles and contents of some blocks, and the contents of those of some roles; g
\* says what becomes of a role.
Rendered(first, blocks, g) ==
  [k \in DOMAIN blocks |-> <<g[blocks[k].role], ContentOf(first.context, blocks[k].contentRef)>>]
OfRoles(blocks, roles) == Picked(blocks, {k \in DOMAIN blocks : blocks[k].role \in roles})
ContentsOf(first, blocks) == [k \in DOMAIN blocks |-> ContentOf(first.context, blocks[k].contentRef)]

\* The messages of a call say what they said.
LEMMA MessagesSaySame ==
  ASSUME NEW first, NEW p, IsLeft(first, p), NEW i \in DOMAIN first.nodes, NEW g
  PROVE  Distinct(Rendered(first, InputBlocks(first, first.nodes[i]), g))
           = Distinct(Rendered(first, InputBlocks(p, p.nodes[i]), g))
<1> DEFINE blocks == ToSet(first.context)
           Message(b) == MessageOf(first, b)
           h == [b \in blocks |-> <<g[b.role], ContentOf(first.context, b.contentRef)>>]
           K == [b \in blocks |-> <<h[b]>>]
           R == [m \in {Message(b) : b \in blocks} |-> << <<g[m[1]], m[2]>> >>]
           before == InputBlocks(first, first.nodes[i])
           after == InputBlocks(p, p.nodes[i])
<1>1. \A b \in blocks : Message(b)[1] = b.role /\ Message(b)[2] = ContentOf(first.context, b.contentRef)
  BY DEF MessageOf
<1>2. \A b \in blocks : K[b] = R[Message(b)] /\ AtMostOne(K[b]) /\ K[b] = <<h[b]>>
  <2> SUFFICES ASSUME NEW b \in blocks PROVE K[b] = R[Message(b)] /\ AtMostOne(K[b]) /\ K[b] = <<h[b]>>
    OBVIOUS
  <2>1. K[b] = <<h[b]>> /\ h[b] = <<g[b.role], ContentOf(first.context, b.contentRef)>>
    OBVIOUS
  <2>2. R[Message(b)] = << <<g[Message(b)[1]], Message(b)[2]>> >>
    <3> DEFINE all == {Message(c) : c \in blocks}
    <3>1. Message(b) \in all
      OBVIOUS
    <3>2. R = [m \in all |-> << <<g[m[1]], m[2]>> >>]
      OBVIOUS
    <3> HIDE DEF all, R, Message
    <3>3. QED
      BY <3>1, <3>2
  <2> HIDE DEF K, R, h, Message
  <2>3. R[Message(b)] = <<h[b]>>
    BY <1>1, <2>1, <2>2
  <2>4. AtMostOne(K[b])
    BY <2>1 DEF AtMostOne
  <2>5. QED
    BY <2>1, <2>3, <2>4
<1>3. \A b \in blocks : h[b] = <<g[b.role], ContentOf(first.context, b.contentRef)>>
  OBVIOUS
<1> HIDE DEF K, R, h
<1>4. /\ Distinct(Spread(before, K)) = Distinct(Spread(after, K))
      /\ IsList(before) /\ IsList(after)
      /\ ToSet(before) \subseteq blocks /\ ToSet(after) \subseteq blocks
  BY <1>2, NodesReadTheSame
<1> HIDE DEF before, after, blocks
<1>5. ASSUME NEW u, IsList(u), ToSet(u) \subseteq blocks
      PROVE  Spread(u, K) = Rendered(first, u, g)
  <2>1. \A x \in ToSet(u) : K[x] = <<h[x]>>
    BY <1>2, <1>5
  <2>2. Spread(u, K) = [k \in DOMAIN u |-> h[u[k]]]
    BY <1>5, <2>1, SpreadSingles
  <2>3. \A k \in DOMAIN u : u[k] \in blocks
    BY <1>5 DEF ToSet
  <2>4. QED
    BY <1>3, <2>2, <2>3 DEF Rendered
<1>6. QED
  BY <1>4, <1>5 DEF before, after

\* The contents of some roles that a call has are those it had.
LEMMA ContentsOfRolesStay ==
  ASSUME NEW first, NEW p, IsLeft(first, p), NEW i \in DOMAIN first.nodes, NEW roles
  PROVE  Distinct(ContentsOf(first, OfRoles(InputBlocks(first, first.nodes[i]), roles)))
           = Distinct(ContentsOf(first, OfRoles(InputBlocks(p, p.nodes[i]), roles)))
<1> DEFINE blocks == ToSet(first.context)
           Message(b) == MessageOf(first, b)
           h == [b \in blocks |-> ContentOf(first.context, b.contentRef)]
           H == [b \in blocks |-> <<h[b]>>]
           W == [b \in blocks |-> IF b.role \in roles THEN <<b>> ELSE <<>>]
           K == [b \in blocks |-> IF b.role \in roles THEN <<h[b]>> ELSE <<>>]
           R == [m \in {Message(b) : b \in blocks} |-> IF m[1] \in roles THEN <<m[2]>> ELSE <<>>]
           before == InputBlocks(first, first.nodes[i])
           after == InputBlocks(p, p.nodes[i])
<1>1. \A b \in blocks : Message(b)[1] = b.role /\ Message(b)[2] = ContentOf(first.context, b.contentRef)
  BY DEF MessageOf
<1>2. \A b \in blocks : /\ h[b] = ContentOf(first.context, b.contentRef)
                        /\ H[b] = <<h[b]>>
                        /\ W[b] = IF b.role \in roles THEN <<b>> ELSE <<>>
                        /\ K[b] = IF b.role \in roles THEN <<h[b]>> ELSE <<>>
  OBVIOUS
<1>3. \A b \in blocks : R[Message(b)] = IF Message(b)[1] \in roles THEN <<Message(b)[2]>> ELSE <<>>
  <2> DEFINE all == {Message(c) : c \in blocks}
  <2>1. \A b \in blocks : Message(b) \in all
    OBVIOUS
  <2>2. R = [m \in all |-> IF m[1] \in roles THEN <<m[2]>> ELSE <<>>]
    OBVIOUS
  <2> HIDE DEF all, R, Message
  <2>3. QED
    BY <2>1, <2>2
<1> HIDE DEF K, R, h, H, W
<1>4. \A b \in blocks : K[b] = R[Message(b)] /\ AtMostOne(K[b])
  BY <1>1, <1>2, <1>3 DEF AtMostOne
<1>5. /\ Distinct(Spread(before, K)) = Distinct(Spread(after, K))
      /\ IsList(before) /\ IsList(after)
      /\ ToSet(before) \subseteq blocks /\ ToSet(after) \subseteq blocks
  BY <1>4, NodesReadTheSame
<1> HIDE DEF before, after, blocks, Message
<1>6. ASSUME NEW u, IsList(u), ToSet(u) \subseteq blocks
      PROVE  Spread(u, K) = ContentsOf(first, OfRoles(u, roles))
  <2>1. \A k \in DOMAIN u : u[k] \in blocks
    BY <1>6 DEF ToSet
  <2>2. OfRoles(u, roles) = Spread(u, W)
    <3> DEFINE f == [k \in DOMAIN u |-> IF k \in {l \in DOMAIN u : u[l].role \in roles} THEN <<u[k]>> ELSE <<>>]
               t == [k \in DOMAIN u |-> W[u[k]]]
    <3>1. f = t
      BY <1>2, <2>1
    <3>2. OfRoles(u, roles) = FlattenSeq(f)
      BY DEF OfRoles, Picked
    <3>3. Spread(u, W) = FlattenSeq(t)
      BY DEF Spread
    <3> HIDE DEF f, t
    <3>4. QED
      BY <3>1, <3>2, <3>3
  <2>3. \A x \in ToSet(u) : \/ W[x] = <<>> /\ K[x] = <<>>
                            \/ \E y : W[x] = <<y>> /\ IsList(H[y]) /\ K[x] = H[y]
    <3> SUFFICES ASSUME NEW x \in ToSet(u)
                 PROVE  \/ W[x] = <<>> /\ K[x] = <<>>
                        \/ W[x] = <<x>> /\ IsList(H[x]) /\ K[x] = H[x]
      OBVIOUS
    <3>1. x \in blocks /\ IsList(<<h[x]>>)
      BY <1>6, ShortLists
    <3>2. QED
      BY <1>2, <3>1
  <2>4. Spread(Spread(u, W), H) = Spread(u, K)
    BY <1>6, <2>3, SpreadTwice
  <2>5. IsList(OfRoles(u, roles)) /\ ToSet(OfRoles(u, roles)) \subseteq blocks
    <3> DEFINE places == {k \in DOMAIN u : u[k].role \in roles}
    <3>1. OfRoles(u, roles) = Picked(u, places)
      BY DEF OfRoles
    <3> HIDE DEF places
    <3>2. /\ IsList(OfRoles(u, roles))
          /\ \A x : x \in ToSet(OfRoles(u, roles)) <=> \E k \in 1 .. Len(u) : k \in places /\ x = u[k]
      BY <1>6, <3>1, PickedItems
    <3>3. DOMAIN u = 1 .. Len(u)
      BY <1>6, ListItems
    <3>4. QED
      BY <2>1, <3>2, <3>3
  <2> DEFINE v == OfRoles(u, roles)
  <2> HIDE DEF v
  <2>6. IsList(v) /\ ToSet(v) \subseteq blocks
    BY <2>5 DEF v
  <2>7. \A x \in ToSet(v) : H[x] = <<h[x]>>
    BY <1>2, <2>6
  <2>8. Spread(v, H) = [k \in DOMAIN v |-> h[v[k]]]
    BY <2>6, <2>7, SpreadSingles
  <2>9. \A k \in DOMAIN v : v[k] \in blocks
    BY <2>6 DEF ToSet
  <2>10. Spread(v, H) = ContentsOf(first, v)
    BY <1>2, <2>8, <2>9 DEF ContentsOf
  <2>11. QED
    BY <2>2, <2>4, <2>10 DEF v
<1>7. QED
  BY <1>5, <1>6 DEF before, after

-----------------------------------------------------------------------------
\* A node of the plan that is left is looked up where it was at first.
LEMMA ModelNodesAreLeft ==
  ASSUME NEW first, NEW p, IsLeft(first, p), NEW id
  PROVE  \/ ModelNode(first, id) = <<>> /\ ModelNode(p, id) = <<>>
         \/ \E i \in DOMAIN first.nodes : /\ ModelNode(first, id) = <<first.nodes[i]>>
                                          /\ ModelNode(p, id) = <<p.nodes[i]>>
<1> DEFINE I(nodes) == {i \in 1 .. Len(nodes) : nodes[i].id = id}
           Place(nodes) == IF I(nodes) # {} THEN Min(I(nodes)) ELSE 0
           Found(nodes) == IF Place(nodes) = 0 THEN <<>>
                           ELSE IF nodes[Place(nodes)].kind = "model_call"
                                THEN <<nodes[Place(nodes)]>> ELSE <<>>
<1>1. ModelNode(first, id) = Found(first.nodes) /\ ModelNode(p, id) = Found(p.nodes)
  BY DEF ModelNode, SelectInSeq
<1>2. /\ DOMAIN first.nodes = 1 .. Len(first.nodes) /\ Len(p.nodes) = Len(first.nodes)
      /\ \A i \in DOMAIN first.nodes : /\ p.nodes[i].kind = first.nodes[i].kind
                                       /\ p.nodes[i].id = first.nodes[i].id
  BY NodesOfWhatIsLeft DEF IsLeft
<1>3. I(p.nodes) = I(first.nodes)
  BY <1>2
<1>4. I(first.nodes) \subseteq DOMAIN first.nodes /\ I(first.nodes) \subseteq Nat \ {0}
  <2>1. \A i \in 1 .. Len(first.nodes) : i \in Nat /\ i # 0
    OBVIOUS
  <2>2. QED
    BY <1>2, <2>1
<1>5. Place(p.nodes) = Place(first.nodes)
  BY <1>3
<1>6. Place(first.nodes) = 0 \/ Place(first.nodes) \in DOMAIN first.nodes
  <2> DEFINE J == I(first.nodes)
  <2>1. J \subseteq Nat /\ J \subseteq DOMAIN first.nodes
    BY <1>4
  <2>2. Place(first.nodes) = IF J # {} THEN Min(J) ELSE 0
    OBVIOUS
  <2> HIDE DEF J, Place
  <2>3. J # {} => Min(J) \in J
    BY <2>1, LeastPlace
  <2>4. QED
    BY <2>1, <2>2, <2>3
<1> HIDE DEF Place
<1>7. CASE Place(first.nodes) = 0
  BY <1>1, <1>5, <1>7
<1>8. CASE Place(first.nodes) \in DOMAIN first.nodes /\ Place(first.nodes) # 0
  BY <1>1, <1>2, <1>5, <1>8
<1>9. QED
  BY <1>6, <1>7, <1>8

\* The requests of the property, with what their messages say.
SaysOpenAI(first, p, node) ==
  LET shape == OpenAIShape(p, node, OpenAIStyleCapabilities, <<>>)
      Said1(messages) ==
        Distinct([i \in DOMAIN messages |->
                    <<messages[i].role, ContentOf(first.context, messages[i].contentRef)>>])
  IN [shape EXCEPT !.input = Said1(@)]
SaysLiteLLM(first, p, node) ==
  LET shape == LiteLLMShape(p, node, LiteLLMCompatibleCapabilities, <<>>)
      Said1(messages) ==
        Distinct([i \in DOMAIN messages |->
                    <<messages[i].role, ContentOf(first.context, messages[i].contentRef)>>])
  IN [shape EXCEPT !.messages = Said1(@)]
ShowsAnthropic(first, p, node) ==
  LET shape == AnthropicShape(p, node, AnthropicStyleCapabilities, <<>>)
      Shown(blocks) == Distinct([i \in DOMAIN blocks |-> ContentOf(first.context, blocks[i].contentRef)])
  IN [shape EXCEPT !.system = Shown(@), !.user = Shown(@)]

\* The roles that the blocks have, as the adapters name them.
RolesOf(first) == {b.role : b \in ToSet(first.context)}

\* The blocks that a call reads are blocks of the first plan.
LEMMA BlocksReadAreFirst ==
  ASSUME NEW first, NEW p, IsLeft(first, p), NEW i \in DOMAIN first.nodes
  PROVE  /\ IsList(InputBlocks(first, first.nodes[i])) /\ IsList(InputBlocks(p, p.nodes[i]))
         /\ ToSet(InputBlocks(first, first.nodes[i])) \subseteq ToSet(first.context)
         /\ ToSet(InputBlocks(p, p.nodes[i])) \subseteq ToSet(first.context)
<1> DEFINE blocks == ToSet(first.context)
           K == [b \in blocks |-> <<>>]
           R == [m \in {MessageOf(first, b) : b \in blocks} |-> <<>>]
<1>1. \A b \in blocks : K[b] = R[MessageOf(first, b)] /\ AtMostOne(K[b])
  BY DEF AtMostOne
<1> HIDE DEF K, R
<1>2. QED
  BY <1>1, NodesReadTheSame

\* What the adapters take from a node besides its blocks is as it was.
LEMMA NodesAskTheSame ==
  ASSUME NEW a, NEW b, IsLike(a, b)
  PROVE  /\ \A key : AdapterMetadata(b, key) = AdapterMetadata(a, key)
         /\ Get(b, "parameters", <<>>) = Get(a, "parameters", <<>>)
<1>1. \A key, default : key \notin {"inputContext", "queryContext"} =>
        Get(b, key, default) = Get(a, key, default)
  BY DEF IsLike, Get
<1>2. QED
  BY <1>1 DEF AdapterMetadata

\* The input of a request of the OpenAI style says what it said.
LEMMA OpenAISaysSame ==
  ASSUME NEW first, NEW p, IsLeft(first, p), NEW i \in DOMAIN first.nodes
  PROVE  SaysOpenAI(first, first, first.nodes[i]) = SaysOpenAI(first, p, p.nodes[i])
<1> DEFINE g == [role \in RolesOf(first) |-> OpenAIRole(role)]
           Asks(node) == [model |-> ChosenModel(<<>>, AdapterMetadata(node, "openaiStyle"), "openai-style-synthesis"),
                          parameters |-> Get(node, "parameters", <<>>),
                          responseFormat |-> Offered(OpenAIStyleCapabilities, "structured_outputs",
                                               ReadResponseFormat(AdapterMetadata(node, "openaiStyle"))),
                          tools |-> Offered(OpenAIStyleCapabilities, "tool_calling",
                                            ReadTools(AdapterMetadata(node, "openaiStyle")))]
           Whole(said, asks) == [input |-> said, model |-> asks.model, parameters |-> asks.parameters,
                                 responseFormat |-> asks.responseFormat, tools |-> asks.tools]
<1>1. ASSUME NEW q, NEW node, IsList(InputBlocks(q, node)),
             ToSet(InputBlocks(q, node)) \subseteq ToSet(first.context)
      PROVE  SaysOpenAI(first, q, node) = Whole(Distinct(Rendered(first, InputBlocks(q, node), g)), Asks(node))
  <2> DEFINE blocks == InputBlocks(q, node)
             items == [k \in DOMAIN blocks |->
                         [role |-> OpenAIRole(blocks[k].role), contentRef |-> blocks[k].contentRef,
                          contextId |-> blocks[k].id]]
             said == [k \in DOMAIN items |->
                        <<items[k].role, ContentOf(first.context, items[k].contentRef)>>]
  <2>1. OpenAIShape(q, node, OpenAIStyleCapabilities, <<>>) = Whole(items, Asks(node))
    BY DEF OpenAIShape
  <2>2. \A k \in DOMAIN blocks : blocks[k].role \in RolesOf(first)
    BY <1>1 DEF ToSet, RolesOf
  <2>3. said = Rendered(first, blocks, g)
    <3>1. DOMAIN items = DOMAIN blocks
          /\ \A k \in DOMAIN blocks : items[k].role = OpenAIRole(blocks[k].role)
                                      /\ items[k].contentRef = blocks[k].contentRef
      OBVIOUS
    <3>2. \A k \in DOMAIN blocks : OpenAIRole(blocks[k].role) = g[blocks[k].role]
      BY <2>2
    <3> HIDE DEF items, g, blocks
    <3>3. QED
      BY <3>1, <3>2 DEF Rendered
  <2> HIDE DEF Asks
  <2>4. SaysOpenAI(first, q, node) = [Whole(items, Asks(node)) EXCEPT !.input = Distinct(said)]
    <3>1. Whole(items, Asks(node)).input = items
      OBVIOUS
    <3> HIDE DEF Whole, items, blocks
    <3>2. QED
      BY <2>1, <3>1 DEF SaysOpenAI
  <2> HIDE DEF items, said, blocks
  <2>5. [Whole(items, Asks(node)) EXCEPT !.input = Distinct(said)] = Whole(Distinct(said), Asks(node))
    OBVIOUS
  <2>6. QED
    BY <2>3, <2>4, <2>5 DEF blocks
<1>2. /\ IsList(InputBlocks(first, first.nodes[i])) /\ IsList(InputBlocks(p, p.nodes[i]))
      /\ ToSet(InputBlocks(first, first.nodes[i])) \subseteq ToSet(first.context)
      /\ ToSet(InputBlocks(p, p.nodes[i])) \subseteq ToSet(first.context)
  BY BlocksReadAreFirst
<1>3. IsLike(first.nodes[i], p.nodes[i])
  BY DEF IsLeft
<1>4. Asks(first.nodes[i]) = Asks(p.nodes[i])
  BY <1>3, NodesAskTheSame
<1> HIDE DEF g, Asks, Whole
<1>5. Distinct(Rendered(first, InputBlocks(first, first.nodes[i]), g))
        = Distinct(Rendered(first, InputBlocks(p, p.nodes[i]), g))
  BY MessagesSaySame
<1>6. QED
  BY <1>1, <1>2, <1>4, <1>5

-----------------------------------------------------------------------------
\* The messages of a request for a gateway say what they said.
LEMMA LiteLLMSaysSame ==
  ASSUME NEW first, NEW p, IsLeft(first, p), NEW i \in DOMAIN first.nodes
  PROVE  SaysLiteLLM(first, first, first.nodes[i]) = SaysLiteLLM(first, p, p.nodes[i])
<1> DEFINE g == [role \in RolesOf(first) |-> LiteLLMRole(role)]
           Asks(node) == [model |-> ChosenModel(<<>>, AdapterMetadata(node, "litellmCompatible"), "litellm-compatible-synthesis"),
                          parameters |-> Get(node, "parameters", <<>>),
                          responseFormat |-> Offered(LiteLLMCompatibleCapabilities, "structured_outputs",
                                               ReadResponseFormat(AdapterMetadata(node, "litellmCompatible"))),
                          tools |-> Offered(LiteLLMCompatibleCapabilities, "tool_calling",
                                            ReadTools(AdapterMetadata(node, "litellmCompatible")))]
           Whole(said, asks) == [messages |-> said, model |-> asks.model, parameters |-> asks.parameters,
                                 responseFormat |-> asks.responseFormat, tools |-> asks.tools]
<1>1. ASSUME NEW q, NEW node, IsList(InputBlocks(q, node)),
             ToSet(InputBlocks(q, node)) \subseteq ToSet(first.context)
      PROVE  SaysLiteLLM(first, q, node) = Whole(Distinct(Rendered(first, InputBlocks(q, node), g)), Asks(node))
  <2> DEFINE blocks == InputBlocks(q, node)
             items == [k \in DOMAIN blocks |->
                         [role |-> LiteLLMRole(blocks[k].role), contentRef |-> blocks[k].contentRef,
                          contextId |-> blocks[k].id]]
             said == [k \in DOMAIN items |->
                        <<items[k].role, ContentOf(first.context, items[k].contentRef)>>]
  <2>1. LiteLLMShape(q, node, LiteLLMCompatibleCapabilities, <<>>) = Whole(items, Asks(node))
    BY DEF LiteLLMShape
  <2>2. \A k \in DOMAIN blocks : blocks[k].role \in RolesOf(first)
    BY <1>1 DEF ToSet, RolesOf
  <2>3. said = Rendered(first, blocks, g)
    <3>1. DOMAIN items = DOMAIN blocks
          /\ \A k \in DOMAIN blocks : items[k].role = LiteLLMRole(blocks[k].role)
                                      /\ items[k].contentRef = blocks[k].contentRef
      OBVIOUS
    <3>2. \A k \in DOMAIN blocks : LiteLLMRole(blocks[k].role) = g[blocks[k].role]
      BY <2>2
    <3> HIDE DEF items, g, blocks
    <3>3. QED
      BY <3>1, <3>2 DEF Rendered
  <2> HIDE DEF Asks
  <2>4. SaysLiteLLM(first, q, node) = [Whole(items, Asks(node)) EXCEPT !.messages = Distinct(said)]
    <3>1. Whole(items, Asks(node)).messages = items
      OBVIOUS
    <3> HIDE DEF Whole, items, blocks
    <3>2. QED
      BY <2>1, <3>1 DEF SaysLiteLLM
  <2> HIDE DEF items, said, blocks
  <2>5. [Whole(items, Asks(node)) EXCEPT !.messages = Distinct(said)] = Whole(Distinct(said), Asks(node))
    OBVIOUS
  <2>6. QED
    BY <2>3, <2>4, <2>5 DEF blocks
<1>2. /\ IsList(InputBlocks(first, first.nodes[i])) /\ IsList(InputBlocks(p, p.nodes[i]))
      /\ ToSet(InputBlocks(first, first.nodes[i])) \subseteq ToSet(first.context)
      /\ ToSet(InputBlocks(p, p.nodes[i])) \subseteq ToSet(first.context)
  BY BlocksReadAreFirst
<1>3. IsLike(first.nodes[i], p.nodes[i])
  BY DEF IsLeft
<1>4. Asks(first.nodes[i]) = Asks(p.nodes[i])
  BY <1>3, NodesAskTheSame
<1> HIDE DEF g, Asks, Whole
<1>5. Distinct(Rendered(first, InputBlocks(first, first.nodes[i]), g))
        = Distinct(Rendered(first, InputBlocks(p, p.nodes[i]), g))
  BY MessagesSaySame
<1>6. QED
  BY <1>1, <1>2, <1>4, <1>5

\* The blocks of one kind of role are those of some roles.
LEMMA FilteredByRole ==
  ASSUME NEW first, NEW blocks, ToSet(blocks) \subseteq ToSet(first.context)
  PROVE  /\ Where(blocks, LAMBDA b : b.role = "system_instruction")
              = OfRoles(blocks, {"system_instruction"})
         /\ Where(blocks, LAMBDA b : b.role # "system_instruction")
              = OfRoles(blocks, RolesOf(first) \ {"system_instruction"})
<1>1. \A k \in DOMAIN blocks : blocks[k].role \in RolesOf(first)
  BY DEF ToSet, RolesOf
<1>2. {k \in DOMAIN blocks : blocks[k].role \in {"system_instruction"}}
        = {k \in DOMAIN blocks : blocks[k].role = "system_instruction"}
  OBVIOUS
<1>3. {k \in DOMAIN blocks : blocks[k].role \in RolesOf(first) \ {"system_instruction"}}
        = {k \in DOMAIN blocks : blocks[k].role # "system_instruction"}
  BY <1>1
<1> DEFINE system == {k \in DOMAIN blocks : blocks[k].role = "system_instruction"}
           others == {k \in DOMAIN blocks : blocks[k].role # "system_instruction"}
<1>4. Where(blocks, LAMBDA b : b.role = "system_instruction") = Picked(blocks, system)
  BY DEF Where, Picked
<1>5. Where(blocks, LAMBDA b : b.role # "system_instruction") = Picked(blocks, others)
  BY DEF Where, Picked
<1>6. OfRoles(blocks, {"system_instruction"}) = Picked(blocks, system)
  BY <1>2 DEF OfRoles
<1>7. OfRoles(blocks, RolesOf(first) \ {"system_instruction"}) = Picked(blocks, others)
  BY <1>3 DEF OfRoles
<1>8. QED
  BY <1>4, <1>5, <1>6, <1>7

\* The system blocks and the user message of a request show what they showed.
LEMMA AnthropicShowsSame ==
  ASSUME NEW first, NEW p, IsLeft(first, p), NEW i \in DOMAIN first.nodes
  PROVE  ShowsAnthropic(first, first, first.nodes[i]) = ShowsAnthropic(first, p, p.nodes[i])
<1> DEFINE system == {"system_instruction"}
           others == RolesOf(first) \ {"system_instruction"}
           Metadata(node) == AdapterMetadata(node, "anthropicStyle")
           Asks(node) == [model |-> ChosenModel(<<>>, Metadata(node), "anthropic-style-synthesis"),
                          parameters |-> Get(node, "parameters", <<>>),
                          tools |-> Offered(AnthropicStyleCapabilities, "tool_calling",
                                            ReadTools(Metadata(node)))]
           Whole(shown, read, asks) ==
             [system |-> shown, user |-> read, model |-> asks.model,
              parameters |-> asks.parameters, tools |-> asks.tools]
           Shows(blocks, roles) == Distinct(ContentsOf(first, OfRoles(blocks, roles)))
<1>1. ASSUME NEW q, NEW node, ToSet(InputBlocks(q, node)) \subseteq ToSet(first.context)
      PROVE  ShowsAnthropic(first, q, node)
               = Whole(Shows(InputBlocks(q, node), system), Shows(InputBlocks(q, node), others),
                       Asks(node))
  <2> DEFINE blocks == InputBlocks(q, node)
             Content(some) == [k \in DOMAIN some |->
                                 ContentBlock(some[k], AnthropicStyleCapabilities, Metadata(node))]
             Told(some) == [k \in DOMAIN some |-> ContentOf(first.context, some[k].contentRef)]
             mine == OfRoles(blocks, system)
             theirs == OfRoles(blocks, others)
  <2>1. /\ Where(blocks, LAMBDA b : b.role = "system_instruction") = mine
        /\ Where(blocks, LAMBDA b : b.role # "system_instruction") = theirs
    BY <1>1, FilteredByRole
  <2>2. AnthropicShape(q, node, AnthropicStyleCapabilities, <<>>)
          = Whole(Content(mine), Content(theirs), Asks(node))
    <3> DEFINE one == Where(blocks, LAMBDA b : b.role = "system_instruction")
               two == Where(blocks, LAMBDA b : b.role # "system_instruction")
    <3>1. AnthropicShape(q, node, AnthropicStyleCapabilities, <<>>)
            = Whole(Content(one), Content(two), Asks(node))
      BY DEF AnthropicShape
    <3> HIDE DEF mine, theirs, blocks, Content, Asks, Whole
    <3>2. QED
      BY <2>1, <3>1
  <2>3. \A some : Told(Content(some)) = ContentsOf(first, some)
    <3> SUFFICES ASSUME NEW some PROVE Told(Content(some)) = ContentsOf(first, some)
      OBVIOUS
    <3> DEFINE content == Content(some)
    <3>1. DOMAIN content = DOMAIN some
          /\ \A k \in DOMAIN some : content[k].contentRef = some[k].contentRef
      BY DEF ContentBlock
    <3> HIDE DEF content
    <3>2. Told(content) = ContentsOf(first, some)
      BY <3>1 DEF ContentsOf
    <3>3. QED
      BY <3>2 DEF content
  <2> DEFINE here == Content(mine)
             there == Content(theirs)
             asks == Asks(node)
             shape == Whole(here, there, asks)
             shown == Distinct(Told(here))
             read == Distinct(Told(there))
  <2>4. ShowsAnthropic(first, q, node) = [shape EXCEPT !.system = shown, !.user = read]
    <3>1. shape.system = here /\ shape.user = there
      OBVIOUS
    <3>2. ShowsAnthropic(first, q, node)
            = [shape EXCEPT !.system = Distinct(Told(@)), !.user = Distinct(Told(@))]
      <4> HIDE DEF shape
      <4>1. AnthropicShape(q, node, AnthropicStyleCapabilities, <<>>) = shape
        BY <2>2 DEF shape
      <4>2. QED
        BY <4>1 DEF ShowsAnthropic
    <3> HIDE DEF shape, here, there
    <3>3. QED
      BY <3>1, <3>2
  <2>5. shown = Shows(blocks, system) /\ read = Shows(blocks, others)
    <3> HIDE DEF Content
    <3>1. QED
      BY <2>3
  <2>6. [shape EXCEPT !.system = shown, !.user = read] = Whole(shown, read, asks)
    <3>1. DOMAIN shape = {"system", "user", "model", "parameters", "tools"}
      OBVIOUS
    <3>2. [shape EXCEPT !.system = shown, !.user = read]
            = [key \in DOMAIN shape |-> CASE key = "system" -> shown
                                          [] key = "user" -> read
                                          [] OTHER -> shape[key]]
      <4> HIDE DEF shape, shown, read
      <4>1. QED
        BY <3>1
    <3>3. Whole(shown, read, asks)
            = [key \in DOMAIN shape |-> CASE key = "system" -> shown
                                          [] key = "user" -> read
                                          [] OTHER -> shape[key]]
      <4> HIDE DEF here, there, asks, shown, read
      <4>1. QED
        OBVIOUS
    <3> HIDE DEF Whole, shape, shown, read, asks
    <3>4. QED
      BY <3>2, <3>3
  <2> HIDE DEF here, there, asks, shown, read
  <2>7. QED
    BY <2>4, <2>5, <2>6 DEF asks
<1>2. /\ ToSet(InputBlocks(first, first.nodes[i])) \subseteq ToSet(first.context)
      /\ ToSet(InputBlocks(p, p.nodes[i])) \subseteq ToSet(first.context)
  BY BlocksReadAreFirst
<1>3. IsLike(first.nodes[i], p.nodes[i])
  BY DEF IsLeft
<1>4. Asks(first.nodes[i]) = Asks(p.nodes[i])
  BY <1>3, NodesAskTheSame
<1>5. /\ Shows(InputBlocks(first, first.nodes[i]), system) = Shows(InputBlocks(p, p.nodes[i]), system)
      /\ Shows(InputBlocks(first, first.nodes[i]), others) = Shows(InputBlocks(p, p.nodes[i]), others)
  BY ContentsOfRolesStay
<1> HIDE DEF Asks, Whole, Shows, others
<1>6. QED
  BY <1>1, <1>2, <1>4, <1>5

\* While the plan that is left is right, the requests made of it read the same.
LEMMA RightPlansReadTheSame == PlanInv => RequestsReadTheSame
<1> SUFFICES ASSUME PlanInv PROVE RequestsReadTheSame
  OBVIOUS
<1> DEFINE first == configuration.plan
<1>1. IsLeft(first, plan)
  BY DEF PlanInv, IsRightSoFar
<1> HIDE DEF first
<1>2. ASSUME NEW id
      PROVE  /\ Len(ModelNode(first, id)) = Len(ModelNode(plan, id))
             /\ \A k \in DOMAIN ModelNode(first, id) :
                  LET before == ModelNode(first, id)[k]
                      after == ModelNode(plan, id)[k]
                  IN /\ SaysOpenAI(first, first, before) = SaysOpenAI(first, plan, after)
                     /\ SaysLiteLLM(first, first, before) = SaysLiteLLM(first, plan, after)
                     /\ ShowsAnthropic(first, first, before) = ShowsAnthropic(first, plan, after)
  <2>1. CASE ModelNode(first, id) = <<>> /\ ModelNode(plan, id) = <<>>
    BY <2>1
  <2>2. CASE \E i \in DOMAIN first.nodes : /\ ModelNode(first, id) = <<first.nodes[i]>>
                                           /\ ModelNode(plan, id) = <<plan.nodes[i]>>
    <3>1. PICK i \in DOMAIN first.nodes : /\ ModelNode(first, id) = <<first.nodes[i]>>
                                          /\ ModelNode(plan, id) = <<plan.nodes[i]>>
      BY <2>2
    <3>2. /\ SaysOpenAI(first, first, first.nodes[i]) = SaysOpenAI(first, plan, plan.nodes[i])
          /\ SaysLiteLLM(first, first, first.nodes[i]) = SaysLiteLLM(first, plan, plan.nodes[i])
          /\ ShowsAnthropic(first, first, first.nodes[i]) = ShowsAnthropic(first, plan, plan.nodes[i])
      BY <1>1, OpenAISaysSame, LiteLLMSaysSame, AnthropicShowsSame
    <3>3. QED
      BY <3>1, <3>2
  <2>3. QED
    BY <1>1, <2>1, <2>2, ModelNodesAreLeft
<1>3. QED
  BY <1>2 DEF RequestsReadTheSame, SaysOpenAI, SaysLiteLLM, ShowsAnthropic, first

\* Whatever became of the duplicates, every adapter makes of a model call a request that
\* says what the first plan's would: only repetitions are gone
\* (exact-duplicate-context.ts with openai-style.ts, anthropic-style.ts and
\* litellm-compatible.ts).
THEOREM RequestsStayTheSame == PipelineSpec => []RequestsReadTheSame
BY PlansStayRight, RightPlansReadTheSame, PTL

-----------------------------------------------------------------------------
\* An object or an array.
IsRecord(object) == object = [key \in DOMAIN object |-> object[key]]

\* Junk stands for a value of a type that is not expected where an object or an array is: it
\* is neither.  (TLC takes it for a model value, which is equal to nothing else.)
JunkIsNoObject == \A object : IsRecord(object) => object # Junk

\* An array is a record of its items.
LEMMA ListsAreRecords ==
  ASSUME NEW items, IsList(items)
  PROVE  IsRecord(items)
<1>1. items = [i \in 1 .. Len(items) |-> items[i]]
  BY DEF IsList
<1>2. DOMAIN items = 1 .. Len(items)
  BY <1>1
<1>3. QED
  BY <1>1, <1>2 DEF IsRecord

\* When a check finds nothing.
LEMMA NothingTyped ==
  ASSUME NEW value, NEW errors
  PROVE  Typed(value, errors) = {} <=> value # Junk /\ errors = {}
BY DEF Typed

\* Unless finds nothing of what holds.
LEMMA NothingUnless ==
  ASSUME NEW holds \in BOOLEAN, NEW code
  PROVE  Unless(holds, code) = {} <=> holds
BY DEF Unless

\* A reference is faultless if it is the id of one of the items.
LEMMA NothingReferred ==
  ASSUME NEW value, NEW ids
  PROVE  Ref(value, ids) = {} <=> value # Junk /\ value \in ids
BY DEF Ref, Typed, Unless

\* A list of references is faultless if each of them is.
LEMMA NothingReferredIn ==
  ASSUME NEW value, NEW ids
  PROVE  Refs(value, ids) = {} <=> value # Junk /\ \A x \in ToSet(value) : x # Junk /\ x \in ids
<1> DEFINE faults == UNION {Ref(value[i], ids) : i \in DOMAIN value}
<1>1. Refs(value, ids) = Typed(value, IF Junk \in ToSet(value) THEN {"invalid_type"}
                                      ELSE Typed(value, faults))
  BY DEF Refs, Strings, Each
<1>2. faults = {} <=> \A i \in DOMAIN value : Ref(value[i], ids) = {}
  OBVIOUS
<1>3. \A i \in DOMAIN value : Ref(value[i], ids) = {} <=> value[i] # Junk /\ value[i] \in ids
  BY NothingReferred
<1> HIDE DEF faults
<1>4. Refs(value, ids) = {} <=> value # Junk /\ Junk \notin ToSet(value) /\ faults = {}
  BY <1>1 DEF Typed
<1>5. \A x : x \in ToSet(value) <=> \E i \in DOMAIN value : x = value[i]
  BY DEF ToSet
<1>6. QED
  BY <1>2, <1>3, <1>4, <1>5

-----------------------------------------------------------------------------
\* The items of a list that all have ids.
AreNamed(items) ==
  /\ IsList(items)
  /\ \A i \in DOMAIN items : items[i] # Junk /\ "id" \in DOMAIN items[i] /\ items[i].id # Junk

\* Their ids are unique if there are as many as items.
LEMMA UniqueNames ==
  ASSUME NEW items, AreNamed(items)
  PROVE  UniqueIds(items) = {} <=> Cardinality({x.id : x \in ToSet(items)}) = Len(items)
<1> DEFINE named == Where(items, LAMBDA r : r # Junk /\ Get(r, "id", Junk) # Junk)
           h == [x \in ToSet(items) |-> x]
           H == [x \in ToSet(items) |-> <<x>>]
<1>1. \A i \in DOMAIN items : items[i] # Junk /\ Get(items[i], "id", Junk) # Junk
  BY DEF AreNamed, Get
<1>2. IsList(items) /\ \A i \in DOMAIN items : items[i] \in ToSet(items)
  BY DEF AreNamed, ToSet
<1>3. named = Spread(items, H)
  <2>1. [i \in DOMAIN items |-> IF items[i] # Junk /\ Get(items[i], "id", Junk) # Junk
                                THEN <<items[i]>> ELSE <<>>]
          = [k \in DOMAIN items |-> H[items[k]]]
    BY <1>1, <1>2
  <2>2. QED
    BY <2>1 DEF Where, Spread
<1>4. UniqueIds(items) = Unless(Cardinality({r.id : r \in ToSet(named)}) = Len(named), "duplicate_id")
  BY DEF UniqueIds
<1> HIDE DEF named
<1>5. Spread(items, H) = [k \in DOMAIN items |-> h[items[k]]]
  <2>1. \A x \in ToSet(items) : H[x] = <<h[x]>>
    OBVIOUS
  <2> HIDE DEF h, H
  <2>2. QED
    BY <1>2, <2>1, SpreadSingles
<1>6. [k \in DOMAIN items |-> h[items[k]]] = items
  <2>1. items = [k \in DOMAIN items |-> items[k]]
    BY <1>2, ListsAreRecords DEF IsRecord
  <2>2. QED
    BY <1>2, <2>1
<1>7. named = items
  BY <1>3, <1>5, <1>6
<1>8. QED
  BY <1>4, <1>7, NothingUnless

\* Ids that no two items share are as many as the items.
LEMMA NamesApart ==
  ASSUME NEW items, AreNamed(items), \A i, j \in DOMAIN items : items[i].id = items[j].id => i = j
  PROVE  UniqueIds(items) = {}
<1> DEFINE n == Len(items)
           ids == {x.id : x \in ToSet(items)}
           f == [i \in 1 .. n |-> items[i].id]
<1>1. n \in Nat /\ DOMAIN items = 1 .. n /\ \A x : x \in ToSet(items) <=> \E i \in 1 .. n : x = items[i]
  BY ListItems DEF AreNamed
<1>2. ExistsBijection(1 .. n, ids)
  <2>1. f \in [1 .. n -> ids]
    BY <1>1
  <2>2. \A i, j \in 1 .. n : f[i] = f[j] => i = j
    BY <1>1
  <2>3. \A id \in ids : \E i \in 1 .. n : f[i] = id
    BY <1>1
  <2> HIDE DEF f, ids
  <2>4. QED
    BY <2>1, <2>2, <2>3 DEF ExistsBijection, Bijection, Injection, Surjection, IsInjective
<1>3. IsFiniteSet(1 .. n) /\ Cardinality(1 .. n) = n
  BY <1>1, FS_Interval
<1>4. Cardinality(ids) = n
  <2> HIDE DEF f, ids
  <2>1. QED
    BY <1>2, <1>3, FS_Bijection
<1>5. QED
  BY <1>4, UniqueNames

\* The ids that are collected of named items.
LEMMA NamesCollected ==
  ASSUME NEW p, NEW collection, collection \in DOMAIN p, p[collection] # Junk, AreNamed(p[collection])
  PROVE  \A id : id \in IdsOf(p, collection) <=> \E i \in DOMAIN p[collection] : id = p[collection][i].id
<1> DEFINE items == p[collection]
<1>1. IdsOf(p, collection) = {r.id : r \in {x \in ToSet(items) \ {Junk} : Get(x, "id", Junk) # Junk}}
  BY DEF IdsOf, Get
<1>2. QED
  BY <1>1 DEF AreNamed, Get, ToSet

-----------------------------------------------------------------------------
\* The members of a plan.
PlanKeys == {"id", "version", "metadata", "constraints", "context", "nodes", "edges"}

\* What validateMIRPlan asks of a plan, part by part.
HeadIsValid(p) ==
  /\ p # Junk
  /\ PlanKeys \subseteq DOMAIN p
  /\ p.id # Junk /\ p.version = "migaki.mir.v0" /\ p.version # Junk
  /\ MetadataErrors(p.metadata) = {} /\ ConstraintErrors(p.constraints) = {}

BlocksAreValid(p) ==
  /\ p.context # Junk /\ UniqueIds(p.context) = {}
  /\ \A i \in DOMAIN p.context : ContextBlockErrors(p.context[i]) = {}

NodesAreValid(p) ==
  /\ p.nodes # Junk /\ UniqueIds(p.nodes) = {}
  /\ \A i \in DOMAIN p.nodes : NodeErrors(p.nodes[i], IdsOf(p, "nodes"), IdsOf(p, "context")) = {}

EdgesAreValid(p) ==
  /\ p.edges # Junk /\ UniqueIds(p.edges) = {}
  /\ \A i \in DOMAIN p.edges : EdgeErrors(p.edges[i], IdsOf(p, "nodes"), IdsOf(p, "context")) = {}

\* A plan is valid if its members and its collections are.
LEMMA ValidPlans ==
  ASSUME NEW p
  PROVE  IsMirPlan(p) <=> /\ HeadIsValid(p)
                          /\ BlocksAreValid(p) /\ NodesAreValid(p) /\ EdgesAreValid(p)
<1> DEFINE contextIds == IdsOf(p, "context")
           nodeIds == IdsOf(p, "nodes")
           Asked(key, errors) == IF key \in DOMAIN p THEN errors ELSE {"missing_required"}
           Blocks(v) == Typed(v, UNION {ContextBlockErrors(v[i]) : i \in DOMAIN v}) \cup Typed(v, UniqueIds(v))
           Nodes(v) == Typed(v, UNION {NodeErrors(v[i], nodeIds, contextIds) : i \in DOMAIN v})
                         \cup Typed(v, UniqueIds(v))
           Edges(v) == Typed(v, UNION {EdgeErrors(v[i], nodeIds, contextIds) : i \in DOMAIN v})
                         \cup Typed(v, UniqueIds(v))
           Version(v) == Typed(v, Unless(v = "migaki.mir.v0", "unknown_version"))
<1>1. PlanErrors(p) =
        Typed(p, Asked("id", Scalar(p["id"])) \cup Asked("version", Version(p["version"]))
                   \cup Asked("metadata", MetadataErrors(p["metadata"]))
                   \cup Asked("constraints", ConstraintErrors(p["constraints"]))
                   \cup Asked("context", Blocks(p["context"]))
                   \cup Asked("nodes", Nodes(p["nodes"]))
                   \cup Asked("edges", Edges(p["edges"])))
  BY DEF PlanErrors, Require, Each
<1>2. \A key, errors : Asked(key, errors) = {} <=> key \in DOMAIN p /\ errors = {}
  OBVIOUS
<1>3. Version(p["version"]) = {} <=> p.version # Junk /\ p.version = "migaki.mir.v0"
  BY DEF Typed, Unless
<1>4. Scalar(p["id"]) = {} <=> p.id # Junk
  BY DEF Scalar, Typed
<1>5. Blocks(p["context"]) = {} <=> BlocksAreValid(p)
  <2> DEFINE faults == UNION {ContextBlockErrors(p.context[i]) : i \in DOMAIN p.context}
  <2>1. faults = {} <=> \A i \in DOMAIN p.context : ContextBlockErrors(p.context[i]) = {}
    OBVIOUS
  <2>2. Blocks(p["context"]) = Typed(p.context, faults) \cup Typed(p.context, UniqueIds(p.context))
    OBVIOUS
  <2> HIDE DEF faults, Blocks
  <2>3. Blocks(p["context"]) = {} <=> p.context # Junk /\ faults = {} /\ UniqueIds(p.context) = {}
    BY <2>2, NothingTyped
  <2>4. QED
    BY <2>1, <2>3 DEF BlocksAreValid
<1>6. Nodes(p["nodes"]) = {} <=> NodesAreValid(p)
  <2> DEFINE faults == UNION {NodeErrors(p.nodes[i], nodeIds, contextIds) : i \in DOMAIN p.nodes}
  <2>1. faults = {} <=> \A i \in DOMAIN p.nodes : NodeErrors(p.nodes[i], nodeIds, contextIds) = {}
    OBVIOUS
  <2>2. Nodes(p["nodes"]) = Typed(p.nodes, faults) \cup Typed(p.nodes, UniqueIds(p.nodes))
    OBVIOUS
  <2> HIDE DEF faults, Nodes
  <2>3. Nodes(p["nodes"]) = {} <=> p.nodes # Junk /\ faults = {} /\ UniqueIds(p.nodes) = {}
    BY <2>2, NothingTyped
  <2>4. QED
    BY <2>1, <2>3 DEF NodesAreValid
<1>7. Edges(p["edges"]) = {} <=> EdgesAreValid(p)
  <2> DEFINE faults == UNION {EdgeErrors(p.edges[i], nodeIds, contextIds) : i \in DOMAIN p.edges}
  <2>1. faults = {} <=> \A i \in DOMAIN p.edges : EdgeErrors(p.edges[i], nodeIds, contextIds) = {}
    OBVIOUS
  <2>2. Edges(p["edges"]) = Typed(p.edges, faults) \cup Typed(p.edges, UniqueIds(p.edges))
    OBVIOUS
  <2> HIDE DEF faults, Edges
  <2>3. Edges(p["edges"]) = {} <=> p.edges # Junk /\ faults = {} /\ UniqueIds(p.edges) = {}
    BY <2>2, NothingTyped
  <2>4. QED
    BY <2>1, <2>3 DEF EdgesAreValid
<1> HIDE DEF contextIds, nodeIds, Asked, Blocks, Nodes, Edges, Version
<1>8. IsMirPlan(p) <=>
        /\ p # Junk
        /\ Asked("id", Scalar(p["id"])) = {} /\ Asked("version", Version(p["version"])) = {}
        /\ Asked("metadata", MetadataErrors(p["metadata"])) = {}
        /\ Asked("constraints", ConstraintErrors(p["constraints"])) = {}
        /\ Asked("context", Blocks(p["context"])) = {}
        /\ Asked("nodes", Nodes(p["nodes"])) = {}
        /\ Asked("edges", Edges(p["edges"])) = {}
  BY <1>1, NothingTyped DEF IsMirPlan
<1>9. QED
  BY <1>2, <1>3, <1>4, <1>5, <1>6, <1>7, <1>8 DEF HeadIsValid, PlanKeys

-----------------------------------------------------------------------------
\* A node that differs from a valid one in what it reads.
ReadsOf(node, ids) ==
  /\ "inputContext" \in DOMAIN node => Refs(node["inputContext"], ids) = {}
  /\ "outputContext" \in DOMAIN node => Ref(node["outputContext"], ids) = {}
  /\ node.kind = "retrieval_call" => /\ Ref(node["queryContext"], ids) = {}
                                     /\ Ref(node["resultContext"], ids) = {}

\* A node of a plan: what each check reads of it is the same or what it reads of the blocks.
LEMMA SameKinds ==
  ASSUME NEW old, NEW new, IsLike(old, new), "kind" \in DOMAIN old, NEW nodeIds, NEW oldIds, NEW ids,
         ReadsOf(new, ids)
  PROVE  /\ ModelCallErrors(old) = {} => ModelCallErrors(new) = {}
         /\ ToolCallErrors(old) = {} => ToolCallErrors(new) = {}
         /\ new.kind = "retrieval_call" /\ RetrievalCallErrors(old, oldIds) = {} => RetrievalCallErrors(new, ids) = {}
         /\ ContextTransformErrors(old, oldIds) = {} => ContextTransformErrors(new, ids) = {}
         /\ ValidatorErrors(old, oldIds) = {} => ValidatorErrors(new, ids) = {}
         /\ ApprovalErrors(old, oldIds) = {} => ApprovalErrors(new, ids) = {}
         /\ CacheReadErrors(old, oldIds) = {} => CacheReadErrors(new, ids) = {}
         /\ CacheWriteErrors(old, oldIds) = {} => CacheWriteErrors(new, ids) = {}
         /\ BranchErrors(old, nodeIds) = {} => BranchErrors(new, nodeIds) = {}
         /\ JoinErrors(old, nodeIds) = {} => JoinErrors(new, nodeIds) = {}
         /\ NodeBaseErrors(old, oldIds) = {} => NodeBaseErrors(new, ids) = {}
<1>1. DOMAIN new = DOMAIN old
  BY DEF IsLike
<1>2. \A key \in DOMAIN old : key \notin {"inputContext", "queryContext"} => new[key] = old[key]
  BY DEF IsLike
<1>3. ModelCallErrors(old) = {} => ModelCallErrors(new) = {}
  <2>1. ModelCallErrors(new) = ModelCallErrors(old)
    <3>1. "model" \in DOMAIN old => new["model"] = old["model"]
      BY <1>2
    <3>2. "parameters" \in DOMAIN old => new["parameters"] = old["parameters"]
      BY <1>2
    <3>3. "validators" \in DOMAIN old => new["validators"] = old["validators"]
      BY <1>2
    <3>4. QED
      BY <1>1, <3>1, <3>2, <3>3 DEF ModelCallErrors, Require, Optional
  <2>2. QED
    BY <2>1
<1>4. ToolCallErrors(new) = ToolCallErrors(old)
  <2>1. "tool" \in DOMAIN old => new["tool"] = old["tool"]
    BY <1>2
  <2>2. QED
    BY <1>1, <2>1 DEF ToolCallErrors, Require
<1>5. new.kind = "retrieval_call" /\ RetrievalCallErrors(old, oldIds) = {} => RetrievalCallErrors(new, ids) = {}
  <2>1. "retrieval" \in DOMAIN old => new["retrieval"] = old["retrieval"]
    BY <1>2
  <2>2. QED
    BY <1>1, <2>1 DEF RetrievalCallErrors, Require, ReadsOf
<1>6. ContextTransformErrors(old, oldIds) = {} => ContextTransformErrors(new, ids) = {}
  <2>1. "transform" \in DOMAIN old => new["transform"] = old["transform"]
    BY <1>2
  <2>2. QED
    BY <1>1, <2>1 DEF ContextTransformErrors, Require, ReadsOf
<1>7. ValidatorErrors(old, oldIds) = {} => ValidatorErrors(new, ids) = {}
  <2>1. "validator" \in DOMAIN old => new["validator"] = old["validator"]
    BY <1>2
  <2>2. "failurePolicy" \in DOMAIN old => new["failurePolicy"] = old["failurePolicy"]
    BY <1>2
  <2>3. QED
    BY <1>1, <2>1, <2>2 DEF ValidatorErrors, Require, Optional, ReadsOf
<1>8. ApprovalErrors(old, oldIds) = {} => ApprovalErrors(new, ids) = {}
  <2>1. "approval" \in DOMAIN old => new["approval"] = old["approval"]
    BY <1>2
  <2>2. QED
    BY <1>1, <2>1 DEF ApprovalErrors, Require, ReadsOf
<1>9. /\ CacheReadErrors(old, oldIds) = {} => CacheReadErrors(new, ids) = {}
      /\ CacheWriteErrors(old, oldIds) = {} => CacheWriteErrors(new, ids) = {}
  <2>1. /\ "cacheKeyRef" \in DOMAIN old => new["cacheKeyRef"] = old["cacheKeyRef"]
        /\ "cachePolicy" \in DOMAIN old => new["cachePolicy"] = old["cachePolicy"]
    BY <1>2
  <2>2. CacheReadErrors(old, oldIds) = {} => CacheReadErrors(new, ids) = {}
    BY <1>1, <2>1 DEF CacheReadErrors, Require, Optional, ReadsOf
  <2>3. CacheWriteErrors(old, oldIds) = {} => CacheWriteErrors(new, ids) = {}
    BY <1>1, <2>1 DEF CacheWriteErrors, Require, Optional, ReadsOf
  <2>4. QED
    BY <2>2, <2>3
<1>10. BranchErrors(new, nodeIds) = BranchErrors(old, nodeIds)
  <2>1. "branches" \in DOMAIN old => new["branches"] = old["branches"]
    BY <1>2
  <2>2. QED
    BY <1>1, <2>1 DEF BranchErrors, Require
<1>11. JoinErrors(new, nodeIds) = JoinErrors(old, nodeIds)
  <2>1. /\ "strategy" \in DOMAIN old => new["strategy"] = old["strategy"]
        /\ "inputNodeIds" \in DOMAIN old => new["inputNodeIds"] = old["inputNodeIds"]
    BY <1>2
  <2>2. QED
    BY <1>1, <2>1 DEF JoinErrors, Require
<1>12. NodeBaseErrors(old, oldIds) = {} => NodeBaseErrors(new, ids) = {}
  <2>1. "label" \in DOMAIN old => new["label"] = old["label"]
    BY <1>2
  <2>2. QED
    BY <1>1, <2>1 DEF NodeBaseErrors, Optional, ReadsOf
<1>13. QED
  BY <1>3, <1>4, <1>5, <1>6, <1>7, <1>8, <1>9, <1>10, <1>11, <1>12

-----------------------------------------------------------------------------
\* What a node without a fault is.
LEMMA FaultlessNodes ==
  ASSUME NEW node, NEW nodeIds, NEW ids
  PROVE  NodeErrors(node, nodeIds, ids) = {} <=>
           /\ node # Junk
           /\ {"id", "kind"} \subseteq DOMAIN node /\ node.id # Junk
           /\ node.kind # Junk /\ node.kind \in NodeKinds
           /\ NodeBaseErrors(node, ids) = {} /\ KindErrors(node, nodeIds, ids) = {}
<1> DEFINE Asked(key, errors) == IF key \in DOMAIN node THEN errors ELSE {"missing_required"}
           kind == IF "kind" \in DOMAIN node THEN node["kind"] ELSE Junk
           rest == CASE kind = Junk -> {}
                     [] kind \in NodeKinds -> NodeBaseErrors(node, ids) \cup KindErrors(node, nodeIds, ids)
                     [] OTHER -> {"unknown_node_kind"}
<1>1. NodeErrors(node, nodeIds, ids) =
        Typed(node, Asked("id", Scalar(node["id"])) \cup Asked("kind", Scalar(node["kind"])) \cup rest)
  BY DEF NodeErrors, Require, Get
<1>2. \A key, errors : Asked(key, errors) = {} <=> key \in DOMAIN node /\ errors = {}
  OBVIOUS
<1>3. \A x : Scalar(x) = {} <=> x # Junk
  BY DEF Scalar, Typed
<1>4. "kind" \in DOMAIN node /\ node.kind # Junk =>
        (rest = {} <=> /\ node.kind \in NodeKinds
                       /\ NodeBaseErrors(node, ids) = {} /\ KindErrors(node, nodeIds, ids) = {})
  <2>1. CASE kind \in NodeKinds /\ kind # Junk
    <3>1. rest = NodeBaseErrors(node, ids) \cup KindErrors(node, nodeIds, ids)
      BY <2>1
    <3> HIDE DEF rest
    <3>2. QED
      BY <2>1, <3>1
  <2>2. CASE kind \notin NodeKinds /\ kind # Junk
    <3>1. rest = {"unknown_node_kind"}
      BY <2>2
    <3> HIDE DEF rest
    <3>2. QED
      BY <2>2, <3>1
  <2>3. QED
    BY <2>1, <2>2
<1> HIDE DEF Asked, rest, kind
<1>5. NodeErrors(node, nodeIds, ids) = {} <=>
        /\ node # Junk /\ Asked("id", Scalar(node["id"])) = {}
        /\ Asked("kind", Scalar(node["kind"])) = {} /\ rest = {}
  BY <1>1, NothingTyped
<1>6. QED
  BY <1>2, <1>3, <1>4, <1>5

\* It reads and writes blocks of the plan.
LEMMA FaultlessReads ==
  ASSUME NEW node, NEW nodeIds, NEW ids, NodeErrors(node, nodeIds, ids) = {}
  PROVE  ReadsOf(node, ids)
<1>1. NodeBaseErrors(node, ids) = {} /\ KindErrors(node, nodeIds, ids) = {}
  BY FaultlessNodes
<1>2. /\ "inputContext" \in DOMAIN node => Refs(node["inputContext"], ids) = {}
      /\ "outputContext" \in DOMAIN node => Ref(node["outputContext"], ids) = {}
  <2> DEFINE IfHas(key, errors) == IF key \in DOMAIN node THEN errors ELSE {}
  <2>1. NodeBaseErrors(node, ids) = IfHas("label", Scalar(node["label"]))
          \cup IfHas("inputContext", Refs(node["inputContext"], ids))
          \cup IfHas("outputContext", Ref(node["outputContext"], ids))
    BY DEF NodeBaseErrors, Optional
  <2>2. \A key, errors : key \in DOMAIN node /\ IfHas(key, errors) = {} => errors = {}
    OBVIOUS
  <2> HIDE DEF IfHas
  <2>3. IfHas("inputContext", Refs(node["inputContext"], ids)) = {}
        /\ IfHas("outputContext", Ref(node["outputContext"], ids)) = {}
    BY <1>1, <2>1
  <2>4. QED
    BY <2>2, <2>3
<1>3. ASSUME node.kind = "retrieval_call"
      PROVE  Ref(node["queryContext"], ids) = {} /\ Ref(node["resultContext"], ids) = {}
  <2>1. RetrievalCallErrors(node, ids) = {}
    BY <1>1, <1>3 DEF KindErrors
  <2>2. \A k \in {"queryContext", "resultContext"} : Require(node, k, LAMBDA v : Ref(v, ids)) = {}
    BY <2>1 DEF RetrievalCallErrors
  <2>3. QED
    BY <2>2 DEF Require
<1>4. QED
  BY <1>2, <1>3 DEF ReadsOf

\* A node like it that reads and writes blocks of a plan has no fault there.
LEMMA FaultlessLikeness ==
  ASSUME NEW old, NEW new, IsLike(old, new), NEW nodeIds, NEW oldIds, NEW ids,
         NodeErrors(old, nodeIds, oldIds) = {}, new # Junk, ReadsOf(new, ids)
  PROVE  NodeErrors(new, nodeIds, ids) = {}
<1>1. /\ {"id", "kind"} \subseteq DOMAIN old /\ old.id # Junk
      /\ old.kind # Junk /\ old.kind \in NodeKinds
      /\ NodeBaseErrors(old, oldIds) = {} /\ KindErrors(old, nodeIds, oldIds) = {}
  BY FaultlessNodes
<1>2. {"id", "kind"} \subseteq DOMAIN new /\ new.id = old.id /\ new.kind = old.kind
  BY <1>1 DEF IsLike
<1>3. NodeBaseErrors(new, ids) = {}
  BY <1>1, SameKinds
<1>4. /\ ModelCallErrors(old) = {} => ModelCallErrors(new) = {}
      /\ ToolCallErrors(old) = {} => ToolCallErrors(new) = {}
      /\ new.kind = "retrieval_call" /\ RetrievalCallErrors(old, oldIds) = {} => RetrievalCallErrors(new, ids) = {}
      /\ ContextTransformErrors(old, oldIds) = {} => ContextTransformErrors(new, ids) = {}
      /\ ValidatorErrors(old, oldIds) = {} => ValidatorErrors(new, ids) = {}
      /\ ApprovalErrors(old, oldIds) = {} => ApprovalErrors(new, ids) = {}
      /\ CacheReadErrors(old, oldIds) = {} => CacheReadErrors(new, ids) = {}
      /\ CacheWriteErrors(old, oldIds) = {} => CacheWriteErrors(new, ids) = {}
      /\ BranchErrors(old, nodeIds) = {} => BranchErrors(new, nodeIds) = {}
      /\ JoinErrors(old, nodeIds) = {} => JoinErrors(new, nodeIds) = {}
  BY <1>1, SameKinds
<1>5. KindErrors(new, nodeIds, ids) = {}
  <2>1. CASE old.kind = "approval"
    BY <1>1, <1>2, <1>4, <2>1 DEF KindErrors
  <2>2. CASE old.kind = "branch"
    BY <1>1, <1>2, <1>4, <2>2 DEF KindErrors
  <2>3. CASE old.kind = "cache_read"
    BY <1>1, <1>2, <1>4, <2>3 DEF KindErrors
  <2>4. CASE old.kind = "cache_write"
    BY <1>1, <1>2, <1>4, <2>4 DEF KindErrors
  <2>5. CASE old.kind = "context_transform"
    BY <1>1, <1>2, <1>4, <2>5 DEF KindErrors
  <2>6. CASE old.kind = "join"
    BY <1>1, <1>2, <1>4, <2>6 DEF KindErrors
  <2>7. CASE old.kind = "model_call"
    BY <1>1, <1>2, <1>4, <2>7 DEF KindErrors
  <2>8. CASE old.kind = "retrieval_call"
    BY <1>1, <1>2, <1>4, <2>8 DEF KindErrors
  <2>9. CASE old.kind = "tool_call"
    BY <1>1, <1>2, <1>4, <2>9 DEF KindErrors
  <2>10. CASE old.kind = "validator"
    BY <1>1, <1>2, <1>4, <2>10 DEF KindErrors
  <2>11. QED
    BY <1>1, <2>1, <2>2, <2>3, <2>4, <2>5, <2>6, <2>7, <2>8, <2>9, <2>10 DEF NodeKinds
<1>6. QED
  BY <1>1, <1>2, <1>3, <1>5, FaultlessNodes

-----------------------------------------------------------------------------
\* What an edge without a fault is.
LEMMA FaultlessEdges ==
  ASSUME NEW edge, NEW nodeIds, NEW ids, EdgeErrors(edge, nodeIds, ids) = {}
  PROVE  /\ edge # Junk /\ "id" \in DOMAIN edge /\ edge.id # Junk
         /\ "contextIds" \in DOMAIN edge => Refs(edge["contextIds"], ids) = {}
<1>1. /\ edge # Junk
      /\ Require(edge, "id", Scalar) = {}
      /\ Optional(edge, "contextIds", LAMBDA v : Refs(v, ids)) = {}
  BY DEF EdgeErrors, Typed
<1>2. QED
  BY <1>1 DEF Require, Optional, Scalar, Typed

\* An edge that is the same but for the blocks it carries.
LEMMA FaultlessCarriers ==
  ASSUME NEW old, NEW new, DOMAIN new = DOMAIN old,
         \A key \in DOMAIN old : key # "contextIds" => new[key] = old[key],
         NEW nodeIds, NEW oldIds, NEW ids, EdgeErrors(old, nodeIds, oldIds) = {},
         new # Junk, "contextIds" \in DOMAIN new => Refs(new["contextIds"], ids) = {}
  PROVE  EdgeErrors(new, nodeIds, ids) = {}
<1>1. /\ Require(old, "id", Scalar) = {}
      /\ Require(old, "kind", LAMBDA v : Enum(v, {"control", "data", "fallback", "validation"})) = {}
      /\ Optional(old, "conditionRef", Scalar) = {}
      /\ \A k \in {"fromNodeId", "toNodeId"} : Require(old, k, LAMBDA v : Ref(v, nodeIds)) = {}
  BY DEF EdgeErrors, Typed
<1>2. Require(new, "id", Scalar) = {}
  BY <1>1 DEF Require
<1>3. Require(new, "kind", LAMBDA v : Enum(v, {"control", "data", "fallback", "validation"})) = {}
  BY <1>1 DEF Require
<1>4. Optional(new, "conditionRef", Scalar) = {}
  BY <1>1 DEF Optional
<1>5. \A k \in {"fromNodeId", "toNodeId"} : Require(new, k, LAMBDA v : Ref(v, nodeIds)) = {}
  BY <1>1 DEF Require
<1>6. Optional(new, "contextIds", LAMBDA v : Refs(v, ids)) = {}
  BY DEF Optional
<1>7. UNION {Require(new, k, LAMBDA v : Ref(v, nodeIds)) : k \in {"fromNodeId", "toNodeId"}} = {}
  BY <1>5
<1>8. QED
  BY <1>2, <1>3, <1>4, <1>6, <1>7 DEF EdgeErrors, Typed

-----------------------------------------------------------------------------
\* What the passes leave as it was besides: all members of the plan but its collections, and
\* all of an edge but what it carries.
HasRest(first, p) ==
  /\ DOMAIN p = DOMAIN first
  /\ \A key \in DOMAIN first : key \notin {"context", "nodes", "edges"} => p[key] = first[key]
  /\ Len(p.edges) = Len(first.edges)
  /\ \A i \in DOMAIN first.edges :
       /\ DOMAIN p.edges[i] = DOMAIN first.edges[i]
       /\ \A key \in DOMAIN first.edges[i] : key # "contextIds" => p.edges[i][key] = first.edges[i][key]

\* It is the same, or it was made by a pass.
IsMadeOf(old, new) == new = old \/ IsRecord(new)

AreMadeOf(first, p) ==
  /\ IsMadeOf(first, p)
  /\ \A i \in DOMAIN first.nodes : IsMadeOf(first.nodes[i], p.nodes[i])
  /\ \A i \in DOMAIN first.edges : IsMadeOf(first.edges[i], p.edges[i])

\* A rewritten plan has the rest of the plan.
LEMMA RewrittenRest ==
  ASSUME NEW first, IsPlan(first), NEW p, IsPlan(p), Len(p.nodes) = Len(first.nodes),
         HasRest(first, p), AreMadeOf(first, p), NEW r
  PROVE  HasRest(first, RewritePlan(p, r)) /\ AreMadeOf(first, RewritePlan(p, r))
<1>1. CASE DOMAIN r = {}
  BY <1>1 DEF RewritePlan
<1>2. CASE DOMAIN r # {}
  <2> DEFINE q == RewritePlan(p, r)
             left == Where(p.context, LAMBDA block : block.id \notin DOMAIN r)
             nodes == [i \in DOMAIN p.nodes |-> RewriteNode(p.nodes[i], r)]
             edges == [i \in DOMAIN p.edges |-> RewriteEdge(p.edges[i], r)]
  <2>1. q = [p EXCEPT !.context = left, !.nodes = nodes, !.edges = edges]
    BY <1>2 DEF RewritePlan
  <2>2. {"context", "nodes", "edges"} \subseteq DOMAIN p
    BY DEF IsPlan
  <2>3. IsList(p.nodes) /\ IsList(p.edges) /\ IsList(first.nodes) /\ IsList(first.edges)
    BY DEF IsPlan
  <2>4. /\ DOMAIN p.nodes = DOMAIN first.nodes
        /\ DOMAIN p.edges = DOMAIN first.edges
    BY <2>3, ListItems DEF HasRest
  <2>5. /\ nodes = [i \in DOMAIN p.nodes |-> nodes[i]]
        /\ edges = [i \in DOMAIN p.edges |-> edges[i]]
        /\ \A i \in DOMAIN p.nodes : nodes[i] = RewriteNode(p.nodes[i], r)
        /\ \A i \in DOMAIN p.edges : edges[i] = RewriteEdge(p.edges[i], r)
    OBVIOUS
  <2> HIDE DEF left, nodes, edges
  <2>6. /\ DOMAIN q = DOMAIN p /\ IsRecord(q)
        /\ \A key \in DOMAIN p : key \notin {"context", "nodes", "edges"} => q[key] = p[key]
        /\ q.nodes = nodes /\ q.edges = edges
    BY <2>1, <2>2 DEF IsRecord
  <2> HIDE DEF q
  <2>7. Len(q.edges) = Len(first.edges)
    BY <2>3, <2>5, <2>6, ByPlace DEF HasRest
  <2>8. ASSUME NEW i \in DOMAIN first.edges
        PROVE  /\ DOMAIN q.edges[i] = DOMAIN first.edges[i]
               /\ \A key \in DOMAIN first.edges[i] : key # "contextIds" => q.edges[i][key] = first.edges[i][key]
               /\ IsRecord(q.edges[i])
    <3>1. q.edges[i] = RewriteEdge(p.edges[i], r)
      BY <2>4, <2>5, <2>6
    <3>2. /\ DOMAIN RewriteEdge(p.edges[i], r) = DOMAIN p.edges[i]
          /\ \A key \in DOMAIN p.edges[i] : key # "contextIds" => RewriteEdge(p.edges[i], r)[key] = p.edges[i][key]
          /\ IsRecord(RewriteEdge(p.edges[i], r))
      BY DEF RewriteEdge, IsRecord
    <3>3. QED
      BY <3>1, <3>2 DEF HasRest
  <2>9. \A i \in DOMAIN first.nodes : IsRecord(q.nodes[i])
    <3>1. \A node : IsRecord(RewriteNode(node, r))
      BY DEF RewriteNode, IsRecord
    <3>2. \A i \in DOMAIN first.nodes : q.nodes[i] = RewriteNode(p.nodes[i], r)
      BY <2>4, <2>5, <2>6
    <3>3. QED
      BY <3>1, <3>2
  <2>10. HasRest(first, q)
    BY <2>6, <2>7, <2>8 DEF HasRest
  <2>11. AreMadeOf(first, q)
    BY <2>6, <2>8, <2>9 DEF AreMadeOf, IsMadeOf
  <2>12. QED
    BY <2>10, <2>11 DEF q
<1>3. QED
  BY <1>1, <1>2

\* Every pass leaves the plan or rewrites it.
LEMMA PassesRewrite ==
  ASSUME NEW p, IsPlan(p), NEW providers, IsList(providers), NEW name \in ToSet(PassNames)
  PROVE  \/ ApplyPass(name, p, providers).plan = p
         \/ \E r : ApplyPass(name, p, providers).plan = RewritePlan(p, r)
<1>1. name \in {"exact_duplicates", "stable_prefix", "prompt_cache_layout", "static_routing",
                "retry_fallback"}
  BY DEF PassNames, ToSet
<1>2. CASE name = "exact_duplicates"
  <2>1. ApplyPass(name, p, providers) = ExactDuplicates(p, providers)
    BY <1>2 DEF ApplyPass
  <2>2. ExactDuplicates(p, providers).plan = RewritePlan(p, ReplacementsOf(RemovedOf(p)))
    BY DuplicatesResult
  <2>3. QED
    BY <2>1, <2>2
<1>3. CASE name = "stable_prefix"
  BY <1>3, StablePrefixReports DEF ApplyPass, ReportsOnly
<1>4. CASE name = "prompt_cache_layout"
  BY <1>4, LayoutReports DEF ApplyPass, ReportsOnly
<1>5. CASE name = "static_routing"
  BY <1>5, RoutingReports DEF ApplyPass, ReportsOnly
<1>6. CASE name = "retry_fallback"
  BY <1>6, FallbacksReport DEF ApplyPass, ReportsOnly
<1>7. QED
  BY <1>1, <1>2, <1>3, <1>4, <1>5, <1>6

\* The invariant of what is left besides.
RestInv == HasRest(configuration.plan, plan) /\ AreMadeOf(configuration.plan, plan)

\* No step changes the rest of the plan.
LEMMA RestInvNext == PlanInv /\ RestInv /\ [PipelineNext]_pipelineVars => RestInv'
<1> SUFFICES ASSUME PlanInv, RestInv, [PipelineNext]_pipelineVars PROVE RestInv'
  OBVIOUS
<1>1. ASSUME UNCHANGED <<configuration, plan>>
      PROVE  RestInv'
  BY <1>1 DEF RestInv
<1>2. CASE Apply
  <2>1. at \in Nat /\ IsRightSoFar(configuration.plan, plan, evidence, warnings)
    BY DEF PlanInv
  <2>2. IsLeft(configuration.plan, plan)
    BY <2>1 DEF IsRightSoFar
  <2>3. /\ IsList(configuration.providers) /\ IsList(configuration.passes)
        /\ \A i \in DOMAIN configuration.passes : configuration.passes[i].name \in ToSet(PassNames)
    BY ConfigurationsAssumption DEF PlanInv
  <2>4. Current.name \in ToSet(PassNames)
    <3>1. DOMAIN configuration.passes = 1 .. Len(configuration.passes) /\ Len(configuration.passes) \in Nat
      BY <2>3, ListItems
    <3>2. at < Len(configuration.passes)
      BY <1>2 DEF Apply, IsNext
    <3>3. at + 1 \in DOMAIN configuration.passes
      BY <2>1, <3>1, <3>2
    <3>4. QED
      BY <2>3, <3>3 DEF Current
  <2> DEFINE result == ApplyPass(Current.name, plan, configuration.providers)
  <2>5. plan' = result.plan /\ configuration' = configuration
    BY <1>2 DEF Apply
  <2>6. /\ IsPlan(configuration.plan) /\ IsPlan(plan)
        /\ Len(plan.nodes) = Len(configuration.plan.nodes)
    BY <2>2 DEF IsLeft
  <2>7. result.plan = plan \/ \E r : result.plan = RewritePlan(plan, r)
    BY <2>3, <2>4, <2>6, PassesRewrite
  <2>8. HasRest(configuration.plan, plan) /\ AreMadeOf(configuration.plan, plan)
    BY DEF RestInv
  <2> HIDE DEF result
  <2>9. HasRest(configuration.plan, result.plan) /\ AreMadeOf(configuration.plan, result.plan)
    BY <2>6, <2>7, <2>8, RewrittenRest
  <2>10. QED
    BY <2>5, <2>9 DEF RestInv
<1>3. CASE SkipDisabled
  BY <1>1, <1>3 DEF SkipDisabled
<1>4. CASE Throw
  BY <1>1, <1>4 DEF Throw
<1>5. CASE ReturnReport
  BY <1>1, <1>5 DEF ReturnReport
<1>6. CASE Execute
  BY <1>1, <1>6 DEF Execute, runnerVars
<1>7. CASE Export
  BY <1>1, <1>7 DEF Export, runnerVars
<1>8. CASE UNCHANGED pipelineVars
  BY <1>1, <1>8 DEF pipelineVars, runnerVars
<1>9. QED
  BY <1>2, <1>3, <1>4, <1>5, <1>6, <1>7, <1>8 DEF PipelineNext, Optimize, RunnerNext

-----------------------------------------------------------------------------
\* The blocks, nodes and edges of a valid plan have ids.
LEMMA ValidNames ==
  ASSUME NEW p, IsPlan(p), IsMirPlan(p)
  PROVE  AreNamed(p.context) /\ AreNamed(p.nodes) /\ AreNamed(p.edges)
<1>1. IsList(p.context) /\ IsList(p.nodes) /\ IsList(p.edges)
  BY DEF IsPlan
<1>2. BlocksAreValid(p) /\ NodesAreValid(p) /\ EdgesAreValid(p)
  BY ValidPlans
<1>3. ASSUME NEW i \in DOMAIN p.context
      PROVE  p.context[i] # Junk /\ "id" \in DOMAIN p.context[i] /\ p.context[i].id # Junk
  <2> DEFINE block == p.context[i]
  <2>1. ContextBlockErrors(block) = {}
    BY <1>2 DEF BlocksAreValid
  <2>2. block # Junk /\ RequireScalars(block, {"id", "contentRef"}) = {}
    BY <2>1 DEF ContextBlockErrors, Typed
  <2>3. Require(block, "id", Scalar) = {}
    BY <2>2 DEF RequireScalars
  <2>4. QED
    BY <2>2, <2>3 DEF Require, Scalar, Typed
<1>4. \A i \in DOMAIN p.nodes : p.nodes[i] # Junk /\ "id" \in DOMAIN p.nodes[i] /\ p.nodes[i].id # Junk
  BY <1>2, FaultlessNodes DEF NodesAreValid
<1>5. \A i \in DOMAIN p.edges : p.edges[i] # Junk /\ "id" \in DOMAIN p.edges[i] /\ p.edges[i].id # Junk
  BY <1>2, FaultlessEdges DEF EdgesAreValid
<1>6. QED
  BY <1>1, <1>3, <1>4, <1>5 DEF AreNamed

\* The ids that a plan's references are looked up in are those of its blocks.
LEMMA BlockIds ==
  ASSUME NEW p, IsPlan(p), p.context # Junk, AreNamed(p.context)
  PROVE  IdsOf(p, "context") = IdsIn(p.context)
<1>1. "context" \in DOMAIN p
  BY DEF IsPlan
<1>2. \A id : id \in IdsOf(p, "context") <=> \E i \in DOMAIN p.context : id = p.context[i].id
  BY <1>1, NamesCollected
<1>3. QED
  BY <1>2 DEF IdsIn

\* Whatever a valid plan names is a block of it.
LEMMA ValidReferences ==
  ASSUME NEW p, IsPlan(p), IsMirPlan(p)
  PROVE  ContextIdsOf(p) \subseteq IdsIn(p.context)
<1> DEFINE ids == IdsOf(p, "context")
<1>1. BlocksAreValid(p) /\ NodesAreValid(p) /\ EdgesAreValid(p)
  BY ValidPlans
<1>2. ids = IdsIn(p.context)
  BY <1>1, ValidNames, BlockIds DEF BlocksAreValid
<1> HIDE DEF ids
<1>3. \A i \in DOMAIN p.nodes : ReadsOf(p.nodes[i], ids)
  BY <1>1, FaultlessReads DEF NodesAreValid, ids
<1>4. \A i \in DOMAIN p.edges :
        "contextIds" \in DOMAIN p.edges[i] => Refs(p.edges[i]["contextIds"], ids) = {}
  BY <1>1, FaultlessEdges DEF EdgesAreValid, ids
<1>5. ASSUME NEW i \in DOMAIN p.nodes, NEW x \in ToSet(Get(p.nodes[i], "inputContext", <<>>))
      PROVE  x \in ids
  <2>1. "inputContext" \in DOMAIN p.nodes[i]
    BY <1>5, ShortLists DEF Get
  <2>2. x \in ToSet(p.nodes[i]["inputContext"])
    BY <1>5, <2>1 DEF Get
  <2>3. QED
    BY <1>3, <2>1, <2>2, NothingReferredIn DEF ReadsOf
<1>6. ASSUME NEW i \in DOMAIN p.edges, NEW x \in ToSet(Get(p.edges[i], "contextIds", <<>>))
      PROVE  x \in ids
  <2>1. "contextIds" \in DOMAIN p.edges[i]
    BY <1>6, ShortLists DEF Get
  <2>2. x \in ToSet(p.edges[i]["contextIds"])
    BY <1>6, <2>1 DEF Get
  <2>3. QED
    BY <1>4, <2>1, <2>2, NothingReferredIn
<1>7. \A i \in DOMAIN p.nodes : p.nodes[i].kind = "retrieval_call" => p.nodes[i].queryContext \in ids
  BY <1>3, NothingReferred DEF ReadsOf
<1>8. \A x \in ProtectedOutputContextIds(p) : x \in ids
  <2>1. \A i \in DOMAIN p.nodes : Has(p.nodes[i], "outputContext") => p.nodes[i].outputContext \in ids
    BY <1>3, NothingReferred DEF ReadsOf, Has
  <2>2. \A i \in DOMAIN p.nodes : p.nodes[i].kind = "retrieval_call" => p.nodes[i].resultContext \in ids
    BY <1>3, NothingReferred DEF ReadsOf
  <2>3. QED
    BY <2>1, <2>2 DEF ProtectedOutputContextIds
<1>9. \A x \in ContextIdsOf(p) : x \in ids
  BY <1>5, <1>6, <1>7, <1>8, NamedIds
<1>10. QED
  BY <1>2, <1>9

-----------------------------------------------------------------------------
\* What is left of a valid plan names blocks that are left.
LEMMA ReferencesAreLeft ==
  ASSUME NEW first, NEW p, IsLeft(first, p), IsMirPlan(first)
  PROVE  ContextIdsOf(p) \subseteq IdsIn(p.context)
<1>1. IsPlan(first) /\ ContextIdsOf(p) \subseteq AllIds(first)
      /\ ContextIdsOf(p) \cap RemovedIds(first, p) = {}
  BY DEF IsLeft
<1>2. ContextIdsOf(first) \subseteq IdsIn(first.context)
  BY <1>1, ValidReferences
<1>3. QED
  BY <1>1, <1>2 DEF AllIds, RemovedIds

\* The blocks that are left of a valid plan are valid.
LEMMA BlocksStayValid ==
  ASSUME JunkIsNoObject, NEW first, NEW p, IsLeft(first, p), IsMirPlan(first)
  PROVE  BlocksAreValid(p) /\ AreNamed(p.context)
<1>1. IsPlan(first) /\ IsPlan(p) /\ ToSet(p.context) \subseteq ToSet(first.context)
  BY DEF IsLeft
<1>2. BlocksAreValid(first) /\ AreNamed(first.context)
  BY <1>1, ValidPlans, ValidNames
<1>3. \A b \in ToSet(first.context) :
        ContextBlockErrors(b) = {} /\ b # Junk /\ "id" \in DOMAIN b /\ b.id # Junk
  BY <1>2 DEF BlocksAreValid, AreNamed, ToSet
<1>4. \A i \in DOMAIN p.context : p.context[i] \in ToSet(first.context)
  BY <1>1 DEF ToSet
<1>5. IsList(p.context) /\ \A i, j \in DOMAIN p.context : p.context[i].id = p.context[j].id => i = j
  BY <1>1 DEF IsPlan
<1>6. AreNamed(p.context)
  BY <1>3, <1>4, <1>5 DEF AreNamed
<1>7. p.context # Junk
  BY <1>5, ListsAreRecords DEF JunkIsNoObject
<1>8. UniqueIds(p.context) = {}
  BY <1>5, <1>6, NamesApart
<1>9. QED
  BY <1>3, <1>4, <1>6, <1>7, <1>8 DEF BlocksAreValid

\* Lists that are like valid lists and have the same ids have unique ids too.
LEMMA SameNames ==
  ASSUME NEW old, NEW new, AreNamed(old), AreNamed(new), Len(new) = Len(old),
         \A i \in DOMAIN old : new[i].id = old[i].id, UniqueIds(old) = {}
  PROVE  UniqueIds(new) = {}
<1>1. DOMAIN old = DOMAIN new
  BY ListItems DEF AreNamed
<1>2. {x.id : x \in ToSet(new)} = {x.id : x \in ToSet(old)}
  <2>1. {x.id : x \in ToSet(new)} = {new[i].id : i \in DOMAIN new}
    BY DEF ToSet
  <2>2. {x.id : x \in ToSet(old)} = {old[i].id : i \in DOMAIN old}
    BY DEF ToSet
  <2>3. QED
    BY <1>1, <2>1, <2>2
<1>3. QED
  BY <1>2, UniqueNames

\* Refs to blocks that a plan has.
LEMMA RefsAreLeft ==
  ASSUME JunkIsNoObject, NEW ids, Junk \notin ids, NEW value, IsList(value), ToSet(value) \subseteq ids
  PROVE  Refs(value, ids) = {}
<1>1. value # Junk
  BY ListsAreRecords DEF JunkIsNoObject
<1>2. QED
  BY <1>1, NothingReferredIn

-----------------------------------------------------------------------------
\* What is not an id of a block.
LEMMA NoJunkIds ==
  ASSUME NEW items, AreNamed(items)
  PROVE  Junk \notin IdsIn(items)
BY DEF AreNamed, IdsIn

\* What is made of something that is not Junk is not Junk.
LEMMA MadeOfSomething ==
  ASSUME JunkIsNoObject, NEW old, NEW new, IsMadeOf(old, new), old # Junk
  PROVE  new # Junk
BY DEF IsMadeOf, JunkIsNoObject

\* The nodes that are left of a valid plan are valid.
LEMMA NodesStayValid ==
  ASSUME JunkIsNoObject, NEW first, NEW p, IsLeft(first, p), AreMadeOf(first, p), IsMirPlan(first)
  PROVE  NodesAreValid(p) /\ IdsOf(p, "nodes") = IdsOf(first, "nodes")
<1> DEFINE ids == IdsOf(p, "context")
           oldIds == IdsOf(first, "context")
           nodeIds == IdsOf(first, "nodes")
<1>1. /\ IsPlan(first) /\ IsPlan(p) /\ Len(p.nodes) = Len(first.nodes)
      /\ \A i \in DOMAIN first.nodes : IsLike(first.nodes[i], p.nodes[i])
  BY DEF IsLeft
<1>2. NodesAreValid(first) /\ AreNamed(first.nodes)
  BY <1>1, ValidPlans, ValidNames
<1>3. /\ ids = IdsIn(p.context) /\ Junk \notin ids /\ ContextIdsOf(p) \subseteq ids
  <2>1. p.context # Junk /\ AreNamed(p.context)
    BY BlocksStayValid DEF BlocksAreValid
  <2>2. QED
    BY <1>1, <2>1, BlockIds, NoJunkIds, ReferencesAreLeft
<1>4. \A i \in DOMAIN first.nodes : NodeErrors(first.nodes[i], nodeIds, oldIds) = {}
  BY <1>2 DEF NodesAreValid
<1> HIDE DEF ids, oldIds, nodeIds
<1>5. DOMAIN p.nodes = DOMAIN first.nodes
  BY NodesOfWhatIsLeft
<1>6. ASSUME NEW i \in DOMAIN first.nodes
      PROVE  p.nodes[i] # Junk
  <2>1. first.nodes[i] # Junk /\ IsMadeOf(first.nodes[i], p.nodes[i])
    BY <1>2 DEF AreNamed, AreMadeOf
  <2>2. QED
    BY <2>1, MadeOfSomething
<1>7. ASSUME NEW i \in DOMAIN first.nodes
      PROVE  ReadsOf(p.nodes[i], ids)
  <2> DEFINE node == p.nodes[i]
             old == first.nodes[i]
  <2>1. ReadsOf(old, oldIds) /\ IsLike(old, node) /\ IsNode(node) /\ IsNode(old)
    BY <1>1, <1>4, <1>5, FaultlessReads, NodesOfWhatIsLeft
  <2>2. node.kind = old.kind
    BY NodesOfWhatIsLeft
  <2>3. /\ \A x : x \in ToSet(Get(node, "inputContext", <<>>)) => x \in ids
        /\ node.kind = "retrieval_call" => node.queryContext \in ids
    BY <1>3, <1>5, NamedIds
  <2>4. /\ Has(node, "outputContext") => node.outputContext \in ids
        /\ node.kind = "retrieval_call" => node.resultContext \in ids
    <3>1. ProtectedOutputContextIds(p) \subseteq ids
      BY <1>3, NamedIds
    <3>2. /\ Has(node, "outputContext") => node.outputContext \in ProtectedOutputContextIds(p)
          /\ node.kind = "retrieval_call" => node.resultContext \in ProtectedOutputContextIds(p)
      BY <1>5 DEF ProtectedOutputContextIds
    <3>3. QED
      BY <3>1, <3>2
  <2> HIDE DEF node, old
  <2>5. "inputContext" \in DOMAIN node => Refs(node["inputContext"], ids) = {}
    <3>1. SUFFICES ASSUME "inputContext" \in DOMAIN node PROVE Refs(node["inputContext"], ids) = {}
      OBVIOUS
    <3>2. IsList(node["inputContext"])
      BY <2>1, <3>1 DEF IsNode, Has
    <3>3. ToSet(node["inputContext"]) \subseteq ids
      BY <2>3, <3>1 DEF Get
    <3>4. QED
      BY <1>3, <3>2, <3>3, RefsAreLeft
  <2>6. "outputContext" \in DOMAIN node => Ref(node["outputContext"], ids) = {}
    <3>1. "outputContext" \in DOMAIN node => node["outputContext"] \in ids
      BY <2>4 DEF Has
    <3>2. QED
      BY <1>3, <3>1, NothingReferred
  <2>7. node.kind = "retrieval_call" => /\ Ref(node["queryContext"], ids) = {}
                                        /\ Ref(node["resultContext"], ids) = {}
    BY <1>3, <2>3, <2>4, NothingReferred
  <2>8. ReadsOf(node, ids)
    BY <2>5, <2>6, <2>7 DEF ReadsOf
  <2>9. QED
    BY <2>8 DEF node
<1>8. \A i \in DOMAIN p.nodes : NodeErrors(p.nodes[i], nodeIds, ids) = {}
  <2>1. SUFFICES ASSUME NEW i \in DOMAIN first.nodes
                 PROVE  NodeErrors(p.nodes[i], nodeIds, ids) = {}
    BY <1>5
  <2>2. IsLike(first.nodes[i], p.nodes[i]) /\ NodeErrors(first.nodes[i], nodeIds, oldIds) = {}
    BY <1>1, <1>4
  <2>3. p.nodes[i] # Junk /\ ReadsOf(p.nodes[i], ids)
    BY <1>6, <1>7
  <2> DEFINE node == p.nodes[i]
             old == first.nodes[i]
  <2>4. IsLike(old, node) /\ NodeErrors(old, nodeIds, oldIds) = {} /\ node # Junk /\ ReadsOf(node, ids)
    BY <2>2, <2>3
  <2> HIDE DEF node, old
  <2>5. NodeErrors(node, nodeIds, ids) = {}
    BY <2>4, FaultlessLikeness
  <2>6. QED
    BY <2>5 DEF node
<1>9. AreNamed(p.nodes) /\ \A i \in DOMAIN first.nodes : p.nodes[i].id = first.nodes[i].id
  <2>1. IsList(p.nodes)
    BY <1>1 DEF IsPlan
  <2>2. \A i \in DOMAIN p.nodes : p.nodes[i] # Junk /\ "id" \in DOMAIN p.nodes[i] /\ p.nodes[i].id # Junk
    BY <1>8, FaultlessNodes
  <2>3. QED
    BY <2>1, <2>2, NodesOfWhatIsLeft DEF AreNamed
<1>10. p.nodes # Junk
  BY <1>1, ListsAreRecords DEF IsPlan, JunkIsNoObject
<1>11. UniqueIds(p.nodes) = {}
  BY <1>1, <1>2, <1>9, SameNames DEF NodesAreValid
<1>12. IdsOf(p, "nodes") = nodeIds
  <2>1. "nodes" \in DOMAIN p /\ "nodes" \in DOMAIN first /\ first.nodes # Junk
    BY <1>1, <1>2 DEF IsPlan, NodesAreValid
  <2>2. \A id : id \in IdsOf(p, "nodes") <=> \E i \in DOMAIN p.nodes : id = p.nodes[i].id
    BY <1>9, <1>10, <2>1, NamesCollected
  <2>3. \A id : id \in nodeIds <=> \E i \in DOMAIN first.nodes : id = first.nodes[i].id
    BY <1>2, <2>1, NamesCollected DEF nodeIds
  <2>4. QED
    BY <1>5, <1>9, <2>2, <2>3
<1>13. NodesAreValid(p)
  BY <1>8, <1>10, <1>11, <1>12 DEF NodesAreValid, ids
<1>14. QED
  BY <1>12, <1>13 DEF nodeIds

\* The edges that are left of a valid plan are valid.
LEMMA EdgesStayValid ==
  ASSUME JunkIsNoObject, NEW first, NEW p, IsLeft(first, p), HasRest(first, p), AreMadeOf(first, p),
         IsMirPlan(first)
  PROVE  EdgesAreValid(p)
<1> DEFINE ids == IdsOf(p, "context")
           oldIds == IdsOf(first, "context")
           nodeIds == IdsOf(first, "nodes")
<1>1. IsPlan(first) /\ IsPlan(p)
  BY DEF IsLeft
<1>2. EdgesAreValid(first) /\ AreNamed(first.edges)
  BY <1>1, ValidPlans, ValidNames
<1>3. /\ ids = IdsIn(p.context) /\ Junk \notin ids /\ ContextIdsOf(p) \subseteq ids
  <2>1. p.context # Junk /\ AreNamed(p.context)
    BY BlocksStayValid DEF BlocksAreValid
  <2>2. QED
    BY <1>1, <2>1, BlockIds, NoJunkIds, ReferencesAreLeft
<1>4. \A i \in DOMAIN first.edges : EdgeErrors(first.edges[i], nodeIds, oldIds) = {}
  BY <1>2 DEF EdgesAreValid
<1>5. IdsOf(p, "nodes") = nodeIds
  BY NodesStayValid
<1> HIDE DEF ids, oldIds, nodeIds
<1>6. IsList(p.edges) /\ IsList(first.edges) /\ Len(p.edges) = Len(first.edges)
  BY <1>1 DEF IsPlan, HasRest
<1>7. DOMAIN p.edges = DOMAIN first.edges
  BY <1>6, ListItems
<1>8. ASSUME NEW i \in DOMAIN first.edges
      PROVE  /\ EdgeErrors(p.edges[i], nodeIds, ids) = {}
             /\ p.edges[i].id = first.edges[i].id
  <2> DEFINE edge == p.edges[i]
             old == first.edges[i]
  <2>1. /\ DOMAIN edge = DOMAIN old
        /\ \A key \in DOMAIN old : key # "contextIds" => edge[key] = old[key]
    BY DEF HasRest
  <2>2. edge # Junk
    <3>1. old # Junk /\ IsMadeOf(old, edge)
      BY <1>2 DEF AreNamed, AreMadeOf
    <3>2. QED
      BY <3>1, MadeOfSomething
  <2>3. IsList(Get(edge, "contextIds", <<>>))
    BY <1>1, <1>7 DEF IsPlan
  <2>4. \A x : x \in ToSet(Get(edge, "contextIds", <<>>)) => x \in ids
    BY <1>3, <1>7, NamedIds
  <2>5. EdgeErrors(old, nodeIds, oldIds) = {} /\ "id" \in DOMAIN old
    BY <1>2, <1>4 DEF AreNamed
  <2> HIDE DEF edge, old
  <2>6. "contextIds" \in DOMAIN edge => Refs(edge["contextIds"], ids) = {}
    <3>1. SUFFICES ASSUME "contextIds" \in DOMAIN edge PROVE Refs(edge["contextIds"], ids) = {}
      OBVIOUS
    <3>2. IsList(edge["contextIds"]) /\ ToSet(edge["contextIds"]) \subseteq ids
      BY <2>3, <2>4, <3>1 DEF Get
    <3>3. QED
      BY <1>3, <3>2, RefsAreLeft
  <2>7. EdgeErrors(edge, nodeIds, ids) = {}
    BY <2>1, <2>2, <2>5, <2>6, FaultlessCarriers
  <2>8. edge.id = old.id
    BY <2>1, <2>5
  <2>9. QED
    BY <2>7, <2>8 DEF edge, old
<1>9. AreNamed(p.edges)
  <2>1. \A i \in DOMAIN p.edges : p.edges[i] # Junk /\ "id" \in DOMAIN p.edges[i] /\ p.edges[i].id # Junk
    BY <1>7, <1>8, FaultlessEdges
  <2>2. QED
    BY <1>6, <2>1 DEF AreNamed
<1>10. p.edges # Junk
  BY <1>6, ListsAreRecords DEF JunkIsNoObject
<1>11. UniqueIds(p.edges) = {}
  BY <1>2, <1>6, <1>8, <1>9, SameNames DEF EdgesAreValid
<1>12. QED
  BY <1>5, <1>7, <1>8, <1>10, <1>11 DEF EdgesAreValid, ids

\* What the passes leave of a valid plan is valid.
LEMMA WhatIsLeftIsValid ==
  ASSUME JunkIsNoObject, NEW first, NEW p, IsLeft(first, p), HasRest(first, p), AreMadeOf(first, p),
         IsMirPlan(first)
  PROVE  IsMirPlan(p)
<1>1. BlocksAreValid(p) /\ NodesAreValid(p) /\ EdgesAreValid(p)
  BY BlocksStayValid, NodesStayValid, EdgesStayValid
<1>2. HeadIsValid(first)
  BY ValidPlans
<1>3. p # Junk
  BY <1>2, MadeOfSomething DEF HeadIsValid, AreMadeOf
<1>4. HeadIsValid(p)
  BY <1>2, <1>3 DEF HeadIsValid, PlanKeys, HasRest
<1>5. QED
  BY <1>1, <1>4, ValidPlans

-----------------------------------------------------------------------------
\* What the ledger reports of a block.
FaultsOf(block) ==
  {d \in {[code |-> "missing_content_ref", contextId |-> block.id],
          [code |-> "unsafe_mutability", contextId |-> block.id]} :
     /\ d.code = "missing_content_ref" => block.contentRef = Blank
     /\ d.code = "unsafe_mutability" => IsUnsafeMutability(block)}

\* The ledger of a plan reports its blocks one by one, since no two have one id.
LEMMA LedgerReportsBlocks ==
  ASSUME NEW p, IsPlan(p)
  PROVE  \A d : d \in Diagnostics(p) <=> \E block \in ToSet(p.context) : d \in FaultsOf(block)
<1> DEFINE all == LedgerOrder(p.context)
           Report(code, id, holds) == IF holds THEN <<[code |-> code, contextId |-> id]>> ELSE <<>>
           Of(i) == Report("duplicate_id", all[i].id, \E j \in 1..(i - 1) : all[j].id = all[i].id)
                      \o Report("missing_content_ref", all[i].id, all[i].contentRef = Blank)
                      \o Report("unsafe_mutability", all[i].id, IsUnsafeMutability(all[i]))
           reports == [i \in DOMAIN all |-> Of(i)]
<1>1. LedgerDiagnostics(all) = FlattenSeq(reports)
  BY DEF LedgerDiagnostics
<1>2. /\ IsList(p.context)
      /\ \A i \in 1 .. Len(p.context) : p.context[i].id \in Nat
      /\ \A i, j \in 1 .. Len(p.context) : p.context[i].id = p.context[j].id => i = j
  BY ListItems DEF IsPlan, IsBlock
<1>3. /\ IsList(all) /\ ToSet(all) = ToSet(p.context)
      /\ \A k, l \in 1 .. Len(all) : k < l => all[k].id < all[l].id
  BY <1>2, LedgerIsSorted
<1>4. Diagnostics(p) = ToSet(LedgerDiagnostics(all))
  BY DEF Diagnostics
<1> HIDE DEF all
<1>5. DOMAIN all = 1 .. Len(all) /\ Len(all) \in Nat
      /\ \A x : x \in ToSet(all) <=> \E i \in 1 .. Len(all) : x = all[i]
  BY <1>3, ListItems
<1>6. \A i \in DOMAIN all : ~\E j \in 1..(i - 1) : all[j].id = all[i].id
  <2> SUFFICES ASSUME NEW i \in DOMAIN all, NEW j \in 1..(i - 1), all[j].id = all[i].id PROVE FALSE
    OBVIOUS
  <2>1. i \in 1 .. Len(all) /\ j \in 1 .. Len(all) /\ j < i
    BY <1>5
  <2>2. all[i].id \in Nat
    BY <1>2, <1>3, <1>5, <2>1, ListItems
  <2>3. QED
    BY <1>3, <2>1, <2>2
<1>7. \A code, id, holds : /\ IsList(Report(code, id, holds))
                           /\ \A d : d \in ToSet(Report(code, id, holds)) <=>
                                       holds /\ d = [code |-> code, contextId |-> id]
  BY ShortLists
<1>8. ASSUME NEW i \in DOMAIN all
      PROVE  IsList(Of(i)) /\ \A d : d \in ToSet(Of(i)) <=> d \in FaultsOf(all[i])
  <2> DEFINE a == Report("duplicate_id", all[i].id, \E j \in 1..(i - 1) : all[j].id = all[i].id)
             b == Report("missing_content_ref", all[i].id, all[i].contentRef = Blank)
             c == Report("unsafe_mutability", all[i].id, IsUnsafeMutability(all[i]))
  <2>1. IsList(a) /\ ToSet(a) = {}
    BY <1>6, ShortLists
  <2>2. IsList(b) /\ \A d : d \in ToSet(b) <=>
          all[i].contentRef = Blank /\ d = [code |-> "missing_content_ref", contextId |-> all[i].id]
    BY ShortLists
  <2>3. IsList(c) /\ \A d : d \in ToSet(c) <=>
          IsUnsafeMutability(all[i]) /\ d = [code |-> "unsafe_mutability", contextId |-> all[i].id]
    BY ShortLists
  <2>4. Of(i) = a \o b \o c
    OBVIOUS
  <2> HIDE DEF a, b, c, Of
  <2>5. IsList(Of(i)) /\ ToSet(Of(i)) = ToSet(a) \cup ToSet(b) \cup ToSet(c)
    <3>1. IsList(a \o b) /\ ToSet(a \o b) = ToSet(a) \cup ToSet(b)
      BY <2>1, <2>2, JoinedLists
    <3>2. QED
      BY <2>3, <2>4, <3>1, JoinedLists
  <2>6. QED
    BY <2>1, <2>2, <2>3, <2>5 DEF FaultsOf
<1>9. reports = [i \in DOMAIN all |-> reports[i]] /\ \A i \in DOMAIN all : reports[i] = Of(i)
  OBVIOUS
<1> HIDE DEF reports, Of, Report
<1>10. \A d : d \in ToSet(FlattenSeq(reports)) <=> \E i \in DOMAIN all : d \in ToSet(reports[i])
  BY <1>3, <1>8, <1>9, JoinedByPlace
<1>11. QED
  BY <1>1, <1>3, <1>4, <1>5, <1>8, <1>9, <1>10

\* What is left of a plan has no other diagnostics.
LEMMA NoNewDiagnostics ==
  ASSUME NEW first, NEW p, IsLeft(first, p)
  PROVE  Diagnostics(p) \subseteq Diagnostics(first)
<1>1. IsPlan(first) /\ IsPlan(p) /\ ToSet(p.context) \subseteq ToSet(first.context)
  BY DEF IsLeft
<1>2. QED
  BY <1>1, LedgerReportsBlocks

\* Whatever passes run, in whatever order, and whichever of them throw or are disabled, they
\* leave a plan that validateMIRPlan accepts if it accepted the first one: no reference of a
\* node or an edge is left dangling, and nothing else of the plan has changed.
THEOREM PlansStayValid ==
  ASSUME JunkIsNoObject
  PROVE  PipelineSpec => []PlanStaysValid
<1>1. PipelineInit => PlanInv /\ RestInv
  <2> SUFFICES ASSUME PipelineInit PROVE PlanInv /\ RestInv
    OBVIOUS
  <2>1. plan = configuration.plan
    BY DEF PipelineInit, RunnerInit
  <2>2. QED
    BY <2>1, PlanInvInit DEF RestInv, HasRest, AreMadeOf, IsMadeOf
<1>2. PlanInv /\ RestInv /\ [PipelineNext]_pipelineVars => (PlanInv /\ RestInv)'
  BY PlanInvNext, RestInvNext
<1>3. PlanInv /\ RestInv => PlanStaysValid
  <2> SUFFICES ASSUME PlanInv, RestInv PROVE PlanStaysValid
    OBVIOUS
  <2>1. IsLeft(configuration.plan, plan)
    BY DEF PlanInv, IsRightSoFar
  <2>2. IsMirPlan(configuration.plan) => IsMirPlan(plan)
    <3> DEFINE first == configuration.plan
               left == plan
    <3>1. IsLeft(first, left) /\ HasRest(first, left) /\ AreMadeOf(first, left)
      BY <2>1 DEF RestInv
    <3> HIDE DEF first, left
    <3>2. IsMirPlan(first) => IsMirPlan(left)
      BY <3>1, WhatIsLeftIsValid
    <3>3. QED
      BY <3>2 DEF first, left
  <2>3. QED
    BY <2>1, <2>2, NoNewDiagnostics DEF PlanStaysValid
<1>4. QED
  BY <1>1, <1>2, <1>3, PTL DEF PipelineSpec

=============================================================================
