--------------------------- MODULE TestRun_proofs ---------------------------
(***************************************************************************)
(* One invocation, for every must-map, set of handlers, request and        *)
(* evidence: each requested test has one result, in the must-map's order,  *)
(* the adapter's scope is kept and exit code 0 is earned.                  *)
(*                                                                         *)
(* The argument is that the results so far, followed by what is left to    *)
(* do, are always the order Load computed; so the lemmas are about that    *)
(* order, and the steps only move its head.                                *)
(***************************************************************************)
EXTENDS TestRun, FiniteSetTheorems, SequenceTheorems, WellFoundedInduction, TLAPS

-----------------------------------------------------------------------------
\* A set of natural numbers has a least element.
LEMMA LeastOf ==
    ASSUME NEW T \in SUBSET Nat, T # {}
    PROVE  /\ Min(T) \in T
           /\ \A j \in T : Min(T) <= j
<1> DEFINE R == OpToRel(<, Nat)
<1>1. \E i \in T : \A j \in T : <<j, i>> \notin R
  <2>1. IsWellFoundedOn(R, Nat)
    BY NatLessThanWellFounded
  <2> HIDE DEF R
  <2> QED BY <2>1, WFMin
<1>2. \A i, j \in T : <<j, i>> \notin R => i <= j
  BY DEF OpToRel
<1>3. \E i \in T : \A j \in T : i <= j
  BY <1>1, <1>2
<1> QED BY <1>3 DEF Min

\* A finite set of numbers has its elements in ascending order: a set that had
\* not would have a smallest cardinality, and its least element would be missing.
LEMMA AscendingExists ==
    ASSUME NEW T \in SUBSET Nat, IsFiniteSet(T)
    PROVE  \E s \in Orders(T) : \A i, j \in DOMAIN s : i < j => s[i] < s[j]
<1> DEFINE Has(U) == \E s \in Orders(U) : \A i, j \in DOMAIN s : i < j => s[i] < s[j]
           without == {n \in Nat : \E U \in SUBSET Nat :
                                      IsFiniteSet(U) /\ Cardinality(U) = n /\ ~Has(U)}
<1>1. SUFFICES ASSUME without # {}
               PROVE  FALSE
  BY FS_CardinalityType
<1> DEFINE n == Min(without)
<1>2. n \in without /\ \A k \in without : n <= k
  BY <1>1, LeastOf
<1>3. PICK U \in SUBSET Nat : IsFiniteSet(U) /\ Cardinality(U) = n /\ ~Has(U)
  BY <1>2
<1>4. CASE U = {}
  <2>1. Cardinality(U) = 0
    BY <1>4, FS_EmptySet
  <2> DEFINE s == <<>>
  <2>2. s \in Orders(U)
    BY <1>4, <2>1 DEF Orders, ToSet
  <2>3. Has(U)
    BY <2>2
  <2> QED BY <1>3, <2>3
<1>5. CASE U # {}
  <2> DEFINE m == Min(U)
             V == U \ {m}
  <2>1. m \in U /\ \A j \in U : m <= j
    BY <1>5, LeastOf
  <2>2. n \in Nat /\ n # 0
    BY <1>2, <1>3, <1>5, FS_EmptySet
  <2>3. IsFiniteSet(V) /\ Cardinality(V) = n - 1 /\ V \in SUBSET Nat
    BY <1>3, <2>1, FS_RemoveElement
  <2> HIDE DEF n
  <2>4. n - 1 \notin without /\ n - 1 \in Nat
    BY <1>2, <2>2
  <2> HIDE DEF m
  <2>5. Has(V)
    BY <2>3, <2>4
  <2>6. PICK t \in Orders(V) : \A i, j \in DOMAIN t : i < j => t[i] < t[j]
    BY <2>5
  <2>7. t \in [1 .. n - 1 -> V] /\ ToSet(t) = V
    BY <2>3, <2>6 DEF Orders
  <2> DEFINE s == [i \in 1 .. n |-> IF i = 1 THEN m ELSE t[i - 1]]
  <2>8. \A i \in 1 .. n : i # 1 => i - 1 \in 1 .. n - 1
    BY <2>2
  <2>9. s \in [1 .. n -> U]
    BY <2>1, <2>7, <2>8
  <2>10. ToSet(s) = U
    <3>1. ToSet(s) \subseteq U
      BY <2>9 DEF ToSet
    <3>2. m \in ToSet(s)
      BY <2>2 DEF ToSet
    <3>3. ASSUME NEW v \in V
          PROVE  v \in ToSet(s)
      <4>1. PICK i \in 1 .. n - 1 : t[i] = v
        BY <2>7 DEF ToSet
      <4>2. i + 1 \in 1 .. n /\ s[i + 1] = v
        BY <2>2, <4>1
      <4> QED BY <4>2 DEF ToSet
    <3> QED BY <3>1, <3>2, <3>3
  <2>11. \A i, j \in 1 .. n : i < j => s[i] < s[j]
    <3> SUFFICES ASSUME NEW i \in 1 .. n, NEW j \in 1 .. n, i < j
                 PROVE  s[i] < s[j]
      OBVIOUS
    <3>1. j - 1 \in 1 .. n - 1 /\ s[j] = t[j - 1] /\ t[j - 1] \in V
      BY <2>2, <2>7
    <3>2. CASE i = 1
      <4>1. m \in Nat /\ t[j - 1] \in Nat /\ m <= t[j - 1] /\ m # t[j - 1]
        BY <2>1, <3>1
      <4> QED BY <3>1, <3>2, <4>1
    <3>3. CASE i # 1
      BY <2>6, <2>7, <2>8, <3>1, <3>3
    <3> QED BY <3>2, <3>3
  <2>12. s \in Orders(U)
    BY <1>3, <2>9, <2>10 DEF Orders
  <2> HIDE DEF s
  <2>13. DOMAIN s = 1 .. n
    BY <2>9
  <2>14. Has(U)
    BY <2>11, <2>12, <2>13
  <2> QED BY <1>3, <2>14
<1> QED BY <1>4, <1>5

\* Ascending lists the set, from the smallest to the largest.
LEMMA AscendingSorts ==
    ASSUME NEW T \in SUBSET Nat, IsFiniteSet(T)
    PROVE  /\ Ascending(T) \in Seq(T)
           /\ ToSet(Ascending(T)) = T
           /\ \A i, j \in DOMAIN Ascending(T) : i < j => Ascending(T)[i] < Ascending(T)[j]
<1>1. /\ Ascending(T) \in Orders(T)
      /\ \A i, j \in DOMAIN Ascending(T) : i < j => Ascending(T)[i] < Ascending(T)[j]
  BY AscendingExists DEF Ascending
<1>2. Cardinality(T) \in Nat
  BY FS_CardinalityType
<1>3. Ascending(T) \in [1 .. Cardinality(T) -> T] /\ ToSet(Ascending(T)) = T
  BY <1>1 DEF Orders
<1>4. Ascending(T) \in Seq(T)
  BY <1>2, <1>3, IsASeq
<1> QED BY <1>1, <1>3, <1>4

-----------------------------------------------------------------------------
\* The flattening of a sequence of sequences is a sequence of their elements: the
\* recursion that defines it has a solution for every number of them, since the
\* smallest number without one would follow one with it.
LEMMA FlattenType ==
    ASSUME NEW X, NEW ss \in Seq(Seq(X))
    PROVE  FlattenSeq(ss) \in Seq(X)
<1> DEFINE L == Len(ss)
           Solves(g, n) == g = [i \in 1 .. n |-> IF i = 1 THEN ss[i] ELSE g[i - 1] \o ss[i]]
           without == {n \in Nat : n <= L /\ ~\E g : Solves(g, n)}
           flatten == CHOOSE g : Solves(g, L)
           wrong   == {i \in Nat : i \in 1 .. L /\ flatten[i] \notin Seq(X)}
<1>1. CASE L = 0
  BY <1>1 DEF FlattenSeq
<1>2. CASE L # 0
  <2>1. L \in Nat /\ L \in 1 .. L /\ \A i \in 1 .. L : ss[i] \in Seq(X)
    BY <1>2
  <2>2. without = {}
    <3> SUFFICES ASSUME without # {}
                 PROVE  FALSE
      OBVIOUS
    <3> DEFINE n == Min(without)
    <3>1. n \in without /\ \A k \in without : n <= k
      BY LeastOf
    <3>2. n \in Nat /\ n <= L /\ ~\E g : Solves(g, n)
      BY <3>1
    <3> HIDE DEF n
    <3>3. Solves(<<>>, 0)
      OBVIOUS
    <3>4. n # 0
      BY <3>2, <3>3
    <3>5. n - 1 \in Nat /\ n - 1 <= L /\ ~(n <= n - 1)
      BY <2>1, <3>2, <3>4
    <3> HIDE DEF Solves
    <3>11. n - 1 \notin without
      BY <3>1, <3>5
    <3>6. PICK g : Solves(g, n - 1)
      BY <3>5, <3>11
    <3> USE DEF Solves
    <3> DEFINE h == [i \in 1 .. n |-> IF i = n THEN (IF n = 1 THEN ss[n] ELSE g[n - 1] \o ss[n])
                                     ELSE g[i]]
               step == [i \in 1 .. n |-> IF i = 1 THEN ss[i] ELSE h[i - 1] \o ss[i]]
    <3>7. ASSUME NEW i \in 1 .. n
          PROVE  h[i] = step[i]
      <4>1. CASE i = n
        <5>1. n # 1 => n - 1 \in 1 .. n /\ n - 1 # n
          BY <3>2, <3>4
        <5>2. n # 1 => h[n - 1] = g[n - 1]
          BY <5>1
        <5> QED BY <4>1, <5>2
      <4>2. CASE i # n
        <5>1. i \in 1 .. n - 1
          BY <3>2, <4>2
        <5>2. h[i] = g[i]
          BY <4>2
        <5>3. g[i] = IF i = 1 THEN ss[i] ELSE g[i - 1] \o ss[i]
          BY <3>6, <5>1
        <5>4. i # 1 => i - 1 \in 1 .. n /\ i - 1 # n
          BY <3>2, <5>1
        <5>5. i # 1 => h[i - 1] = g[i - 1]
          BY <5>4
        <5> HIDE DEF h
        <5>6. step[i] = IF i = 1 THEN ss[i] ELSE h[i - 1] \o ss[i]
          OBVIOUS
        <5> QED BY <5>2, <5>3, <5>5, <5>6
      <4> QED BY <4>1, <4>2
    <3>8. DOMAIN h = 1 .. n /\ DOMAIN step = 1 .. n
      OBVIOUS
    <3>9. h = step
      BY <3>7, <3>8
    <3>10. Solves(h, n)
      BY <3>9
    <3> QED BY <3>2, <3>10
  <2>3. \E g : Solves(g, L)
    <3>1. L \in Nat /\ L <= L
      BY <2>1
    <3> HIDE DEF Solves, L
    <3> QED BY <2>2, <3>1
  <2>4. Solves(flatten, L)
    BY <2>3
  <2> HIDE DEF flatten
  <2>5. \A i \in 1 .. L : flatten[i] = IF i = 1 THEN ss[i] ELSE flatten[i - 1] \o ss[i]
    BY <2>4
  <2>6. wrong = {}
    <3> SUFFICES ASSUME wrong # {}
                 PROVE  FALSE
      OBVIOUS
    <3> DEFINE n == Min(wrong)
    <3>1. n \in wrong /\ \A k \in wrong : n <= k
      BY LeastOf
    <3>2. n \in Nat /\ n \in 1 .. L /\ flatten[n] \notin Seq(X)
      BY <3>1
    <3> HIDE DEF n
    <3>3. n # 1
      BY <2>1, <2>5, <3>2
    <3>4. n - 1 \in Nat /\ n - 1 \in 1 .. L
      BY <2>1, <3>2, <3>3
    <3>5. n - 1 \notin wrong
      BY <3>1, <3>4
    <3>6. flatten[n - 1] \in Seq(X)
      BY <3>4, <3>5
    <3>7. ss[n] \in Seq(X) /\ flatten[n] = flatten[n - 1] \o ss[n]
      BY <2>1, <2>5, <3>2, <3>3
    <3>8. flatten[n - 1] \o ss[n] \in Seq(X)
      BY <3>6, <3>7, ConcatProperties
    <3> QED BY <3>2, <3>7, <3>8
  <2>7. flatten[L] \in Seq(X)
    BY <2>1, <2>6
  <2>8. FlattenSeq(ss) = flatten[L]
    BY <1>2 DEF FlattenSeq, flatten
  <2> QED BY <2>7, <2>8
<1> QED BY <1>1, <1>2

-----------------------------------------------------------------------------
\* The place of x in s, of those it has the first.
First(s, x) == Min({k \in DOMAIN s : s[k] = x})

\* It is one, for each member of s.
LEMMA FirstIsFirst ==
    ASSUME NEW X, NEW s \in Seq(X), NEW x \in ToSet(s)
    PROVE  /\ First(s, x) \in DOMAIN s /\ First(s, x) \in Nat
           /\ s[First(s, x)] = x
           /\ \A k \in DOMAIN s : s[k] = x => First(s, x) <= k
<1> DEFINE T == {k \in DOMAIN s : s[k] = x}
<1>1. T # {} /\ T \in SUBSET Nat
  BY DEF ToSet
<1>2. Min(T) \in T /\ \A k \in T : Min(T) <= k
  BY <1>1, LeastOf
<1> QED BY <1>1, <1>2 DEF First

\* Firsts keeps the members of W, each once, in the order of their first places.
LEMMA FirstsOnce ==
    ASSUME NEW X, NEW s \in Seq(X), NEW W
    PROVE  /\ Firsts(s, W) \in Seq(X)
           /\ ToSet(Firsts(s, W)) = ToSet(s) \cap W
           /\ IsInjective(Firsts(s, W))
           /\ \A i, j \in DOMAIN Firsts(s, W) :
                i < j => First(s, Firsts(s, W)[i]) < First(s, Firsts(s, W)[j])
<1> DEFINE places == {k \in DOMAIN s : s[k] \in W /\ \A j \in 1 .. k - 1 : s[j] # s[k]}
           order  == Ascending(places)
           f      == [k \in DOMAIN order |-> s[order[k]]]
<1>1. Firsts(s, W) = f
  BY DEF Firsts
<1>2. DOMAIN s = 1 .. Len(s) /\ Len(s) \in Nat /\ \A k \in DOMAIN s : s[k] \in X
  OBVIOUS
<1>3. places \in SUBSET Nat /\ places \subseteq DOMAIN s /\ IsFiniteSet(places)
  <2>1. IsFiniteSet(1 .. Len(s))
    BY <1>2, FS_Interval
  <2> QED BY <1>2, <2>1, FS_Subset
<1>4. ASSUME NEW k \in places
      PROVE  First(s, s[k]) = k /\ s[k] \in W /\ s[k] \in ToSet(s)
  <2>1. s[k] \in ToSet(s)
    BY DEF ToSet
  <2>2. First(s, s[k]) \in DOMAIN s /\ s[First(s, s[k])] = s[k] /\ First(s, s[k]) <= k
    BY <1>3, <2>1, FirstIsFirst
  <2>3. ~(First(s, s[k]) < k)
    BY <1>2, <2>2
  <2> QED BY <1>2, <2>1, <2>2, <2>3
<1>5. ASSUME NEW x \in ToSet(s) \cap W
      PROVE  First(s, x) \in places /\ s[First(s, x)] = x
  <2>1. /\ First(s, x) \in DOMAIN s /\ First(s, x) \in Nat /\ s[First(s, x)] = x
        /\ \A k \in DOMAIN s : s[k] = x => First(s, x) <= k
    BY FirstIsFirst
  <2>2. \A j \in 1 .. First(s, x) - 1 : j \in DOMAIN s /\ ~(First(s, x) <= j)
    BY <1>2, <2>1
  <2> QED BY <2>1, <2>2
<1> HIDE DEF places
<1>6. /\ order \in Seq(places) /\ ToSet(order) = places
      /\ \A i, j \in DOMAIN order : i < j => order[i] < order[j]
  BY <1>3, AscendingSorts
<1>7. DOMAIN order = 1 .. Len(order) /\ Len(order) \in Nat /\ \A i \in DOMAIN order : order[i] \in places
  BY <1>6
<1> HIDE DEF order
<1>8. f \in Seq(X)
  <2>1. f \in [1 .. Len(order) -> X]
    BY <1>2, <1>3, <1>7
  <2> QED BY <1>7, <2>1, IsASeq
<1>9. \A i \in DOMAIN f : f[i] = s[order[i]] /\ First(s, f[i]) = order[i]
  BY <1>4, <1>7
<1>10. ToSet(f) = ToSet(s) \cap W
  <2>1. ToSet(f) \subseteq ToSet(s) \cap W
    BY <1>4, <1>7 DEF ToSet
  <2>2. ASSUME NEW x \in ToSet(s) \cap W
        PROVE  x \in ToSet(f)
    <3>1. PICK i \in DOMAIN order : order[i] = First(s, x)
      BY <1>5, <1>6 DEF ToSet
    <3>2. f[i] = x /\ i \in DOMAIN f
      BY <1>5, <3>1
    <3> QED BY <3>2 DEF ToSet
  <2> QED BY <2>1, <2>2
<1>11. DOMAIN f = DOMAIN order
  OBVIOUS
<1> HIDE DEF f
<1>12. \A i, j \in DOMAIN f : i < j => First(s, f[i]) < First(s, f[j])
  BY <1>6, <1>9, <1>11
<1>13. IsInjective(f)
  <2> SUFFICES ASSUME NEW a \in DOMAIN f, NEW b \in DOMAIN f, f[a] = f[b], a # b
               PROVE  FALSE
    BY DEF IsInjective
  <2>1. a \in Nat /\ b \in Nat
    BY <1>7, <1>11
  <2>2. order[a] = order[b] /\ order[a] \in Nat
    BY <1>3, <1>7, <1>9, <1>11
  <2>3. a < b \/ b < a
    BY <2>1
  <2> QED BY <1>6, <1>11, <2>2, <2>3
<1> QED BY <1>1, <1>8, <1>10, <1>12, <1>13

-----------------------------------------------------------------------------
\* Where the phases list a test, or behind them all.
Place(id, ph) ==
    LET flat == FlattenSeq(ph)
    IN IF id \in ToSet(flat) THEN First(flat, id) ELSE Len(flat) + 1

\* orderByPhase returns each requested test once, in the order of the phases.
LEMMA OrderedByPhase ==
    ASSUME NEW ids \in Seq(STRING), NEW ph \in Seq(Seq(STRING))
    PROVE  LET o == orderByPhase(ids, ph)
           IN /\ o \in Seq(STRING) /\ ToSet(o) = ToSet(ids) /\ IsInjective(o)
              /\ \A i, j \in DOMAIN o : i < j => Place(o[i], ph) <= Place(o[j], ph)
<1> DEFINE flat == FlattenSeq(ph)
           all  == flat \o ids
           o    == orderByPhase(ids, ph)
<1>1. flat \in Seq(STRING)
  BY FlattenType
<1> HIDE DEF flat
<1>2. /\ all \in Seq(STRING) /\ Len(all) = Len(flat) + Len(ids)
      /\ \A k \in 1 .. Len(flat) : all[k] = flat[k]
      /\ \A k \in 1 .. Len(ids) : all[Len(flat) + k] = ids[k]
  BY <1>1, ConcatProperties
<1>3. /\ Len(flat) \in Nat /\ DOMAIN flat = 1 .. Len(flat)
      /\ Len(ids) \in Nat /\ DOMAIN ids = 1 .. Len(ids)
      /\ DOMAIN all = 1 .. Len(flat) + Len(ids)
  BY <1>1, <1>2
<1>4. ToSet(ids) \subseteq ToSet(all)
  <2> SUFFICES ASSUME NEW k \in DOMAIN ids
               PROVE  ids[k] \in ToSet(all)
    BY DEF ToSet
  <2>1. Len(flat) + k \in DOMAIN all /\ all[Len(flat) + k] = ids[k]
    BY <1>2, <1>3
  <2> QED BY <2>1 DEF ToSet
<1> HIDE DEF all
<1>5. /\ o \in Seq(STRING) /\ ToSet(o) = ToSet(all) \cap ToSet(ids) /\ IsInjective(o)
      /\ \A i, j \in DOMAIN o : i < j => First(all, o[i]) < First(all, o[j])
  <2>1. o = Firsts(all, ToSet(ids))
    BY DEF orderByPhase, all, flat
  <2> QED BY <1>2, <2>1, FirstsOnce
<1>6. ToSet(o) = ToSet(ids)
  BY <1>4, <1>5
<1> HIDE DEF o
<1>7. ASSUME NEW x \in ToSet(all)
      PROVE  /\ x \in ToSet(flat) => Place(x, ph) = First(all, x) /\ First(all, x) <= Len(flat)
             /\ x \notin ToSet(flat) => Place(x, ph) = Len(flat) + 1
  <2>1. /\ First(all, x) \in DOMAIN all /\ all[First(all, x)] = x
        /\ \A k \in DOMAIN all : all[k] = x => First(all, x) <= k
    BY <1>2, FirstIsFirst
  <2>2. CASE x \in ToSet(flat)
    <3>1. /\ First(flat, x) \in DOMAIN flat /\ flat[First(flat, x)] = x
          /\ \A k \in DOMAIN flat : flat[k] = x => First(flat, x) <= k
      BY <1>1, <2>2, FirstIsFirst
    <3>2. First(all, x) <= First(flat, x)
      BY <1>2, <1>3, <2>1, <3>1
    <3>3. First(all, x) \in 1 .. Len(flat)
      BY <1>3, <2>1, <3>1, <3>2
    <3>4. First(flat, x) <= First(all, x)
      BY <1>2, <1>3, <2>1, <3>1, <3>3
    <3>5. First(all, x) = First(flat, x)
      BY <1>3, <3>1, <3>2, <3>3, <3>4
    <3> QED BY <1>3, <2>2, <3>3, <3>5 DEF Place, flat
  <2>3. CASE x \notin ToSet(flat)
    BY <2>3 DEF Place, flat
  <2> QED BY <2>2, <2>3
<1>8. ASSUME NEW i \in DOMAIN o, NEW j \in DOMAIN o, i < j
      PROVE  Place(o[i], ph) <= Place(o[j], ph)
  <2>1. o[i] \in ToSet(all) /\ o[j] \in ToSet(all)
    BY <1>4, <1>6 DEF ToSet
  <2>2. First(all, o[i]) < First(all, o[j]) /\ First(all, o[i]) \in Nat /\ First(all, o[j]) \in Nat
    BY <1>2, <1>5, <1>8, <2>1, FirstIsFirst
  <2>3. CASE o[j] \in ToSet(flat)
    <3>1. First(all, o[i]) <= Len(flat)
      BY <1>3, <1>7, <2>1, <2>2, <2>3
    <3>2. all[First(all, o[i])] = o[i] /\ First(all, o[i]) \in 1 .. Len(flat)
      BY <1>2, <1>3, <2>1, <2>2, <3>1, FirstIsFirst
    <3>3. o[i] \in ToSet(flat)
      BY <1>2, <1>3, <3>2 DEF ToSet
    <3> QED BY <1>7, <2>1, <2>2, <2>3, <3>3
  <2>4. CASE o[j] \notin ToSet(flat)
    BY <1>3, <1>7, <2>1, <2>2, <2>4
  <2> QED BY <2>3, <2>4
<1> QED BY <1>5, <1>6, <1>8 DEF o

-----------------------------------------------------------------------------
\* What Load computed, of which the results so far are the beginning.
Plan == \E ids \in Requested : /\ wanted = ToSet(ids)
                               /\ Ids \o todo = orderByPhase(ids, phases)

\* A status hides no failure that is in its evidence.
Honest(r) == ToSet(r.evidence) \cap {"fail", "error"} # {} => r.status \in {"fail", "error"}

RunInv ==
    /\ TypeOK
    /\ pc = "load" => results = <<>>
    /\ pc \in {"run", "junit", "gate"} \/ results # <<>> => Plan
    /\ Done => todo = <<>>
    /\ \A i \in DOMAIN results : Honest(results[i])
    /\ pc = "gate" => junit = "new"
    /\ pc # "exited" => exit = -1
    /\ exit = 0 => junit = "new" /\ gate = "new" /\ ~anyFailed

\* Every request is a sequence of ids.
LEMMA RequestedType ==
    ASSUME TestRunAssumption, NEW ids \in Requested
    PROVE  ids \in Seq(STRING) /\ ToSet(ids) \subseteq AllIds
<1>1. PICK r \in Requests : ids \in IF r = <<>> THEN Orders(Handlers) ELSE {r}
  BY DEF Requested
<1>2. CASE r = <<>>
  <2>1. ids \in [1 .. Cardinality(Handlers) -> Handlers] /\ ToSet(ids) = Handlers
    BY <1>1, <1>2 DEF Orders
  <2>2. Cardinality(Handlers) \in Nat /\ Handlers \subseteq STRING
    BY FS_CardinalityType DEF TestRunAssumption
  <2>3. ids \in Seq(Handlers)
    BY <2>1, <2>2, IsASeq
  <2>4. ids \in Seq(STRING)
    BY <2>2, <2>3, SeqMonotonic
  <2> QED BY <2>1, <2>4 DEF AllIds
<1>3. CASE r # <<>>
  <2>1. ids = r
    BY <1>1, <1>3
  <2> QED BY <2>1 DEF AllIds, TestRunAssumption
<1> QED BY <1>2, <1>3

\* Aggregate is a status, and hides nothing.
LEMMA AggregateIsHonest ==
    ASSUME NEW ev \in Seq(Statuses)
    PROVE  /\ Aggregate(ev) \in Statuses
           /\ ToSet(ev) \cap {"fail", "error"} # {} => Aggregate(ev) \in {"fail", "error"}
<1> DEFINE bad == {i \in DOMAIN ev : ev[i] \in {"fail", "error"}}
<1>1. bad \in SUBSET Nat
  OBVIOUS
<1>2. CASE bad # {}
  <2>1. Min(bad) \in bad
    BY <1>1, <1>2, LeastOf
  <2>2. Aggregate(ev) = ev[Min(bad)]
    BY <1>2 DEF Aggregate
  <2>3. Aggregate(ev) \in {"fail", "error"}
    BY <2>1, <2>2
  <2> QED BY <2>3 DEF Statuses
<1>3. CASE bad = {}
  <2>1. ToSet(ev) \cap {"fail", "error"} = {}
    BY <1>3 DEF ToSet
  <2>2. Aggregate(ev) \in {"pass", "skip"}
    BY <1>3 DEF Aggregate
  <2> QED BY <2>1, <2>2 DEF Statuses
<1> QED BY <1>2, <1>3

\* The ids of the results, in their order.
LEMMA IdsType ==
    ASSUME TypeOK
    PROVE  Ids \in Seq(AllIds) /\ Len(Ids) = Len(results)
<1> DEFINE Result == [id : AllIds, status : Statuses, evidence : Seq(Statuses)]
<1>1. results \in Seq(Result)
  BY DEF TypeOK
<1>2. \A r \in Result : r.id \in AllIds
  OBVIOUS
<1> HIDE DEF Result
<1>3. DOMAIN results = 1 .. Len(results) /\ Len(results) \in Nat
  BY <1>1
<1>4. Ids \in [1 .. Len(results) -> AllIds]
  BY <1>1, <1>2, <1>3 DEF Ids
<1> QED BY <1>3, <1>4, IsASeq

\* A result moves the head of what is left behind the results.
LEMMA RecordStep ==
    ASSUME RunInv, pc = "run", todo # <<>>,
           NEW status \in Statuses, NEW ev \in Seq(Statuses),
           ToSet(ev) \cap {"fail", "error"} # {} => status \in {"fail", "error"},
           Record(status, ev), wanted' = wanted, phases' = phases
    PROVE  /\ results' \in Seq([id : AllIds, status : Statuses, evidence : Seq(Statuses)])
           /\ todo' \in Seq(AllIds)
           /\ Plan'
           /\ \A i \in DOMAIN results' : Honest(results'[i])
<1> DEFINE Result == [id : AllIds, status : Statuses, evidence : Seq(Statuses)]
           new == [id |-> Head(todo), status |-> status, evidence |-> ev]
<1>1. results \in Seq(Result) /\ todo \in Seq(AllIds) /\ Plan /\ \A i \in DOMAIN results : Honest(results[i])
  BY DEF RunInv, TypeOK
<1>2. results' = Append(results, new) /\ todo' = Tail(todo)
  BY DEF Record
<1>3. Head(todo) \in AllIds /\ Tail(todo) \in Seq(AllIds)
  BY <1>1
<1>4. new \in Result /\ new.id = Head(todo) /\ Honest(new)
  BY <1>3 DEF Honest
<1> HIDE DEF Result, new
<1>5. /\ results' \in Seq(Result) /\ Len(results') = Len(results) + 1
      /\ \A i \in 1 .. Len(results) : results'[i] = results[i]
      /\ results'[Len(results) + 1] = new
  BY <1>1, <1>2, <1>4, AppendProperties
<1>6. Len(results) \in Nat /\ DOMAIN results = 1 .. Len(results) /\ DOMAIN results' = 1 .. Len(results) + 1
  BY <1>1, <1>5
<1>7. \A i \in DOMAIN results' : Honest(results'[i])
  BY <1>1, <1>4, <1>5, <1>6
<1>8. Ids' \o todo' = Ids \o todo
  <2>1. Ids \in Seq(AllIds) /\ Ids' \in Seq(AllIds) /\ Len(Ids) = Len(results) /\ Len(Ids') = Len(results) + 1
    <3>0. \A r \in Result : r.id \in AllIds
      BY DEF Result
    <3>1. \A i \in DOMAIN results : results[i].id \in AllIds
      BY <1>1, <3>0
    <3>2. \A i \in DOMAIN results' : results'[i].id \in AllIds
      BY <1>5, <3>0
    <3>3. Ids \in [1 .. Len(results) -> AllIds] /\ Ids' \in [1 .. Len(results) + 1 -> AllIds]
      BY <1>6, <3>1, <3>2 DEF Ids
    <3> QED BY <1>6, <3>3, IsASeq
  <2>2. \A i \in 1 .. Len(results) : Ids'[i] = Ids[i]
    BY <1>5, <1>6 DEF Ids
  <2>3. Ids'[Len(results) + 1] = Head(todo)
    BY <1>4, <1>5, <1>6 DEF Ids
  <2>4. Ids' = Append(Ids, Head(todo))
    <3>1. /\ Append(Ids, Head(todo)) \in Seq(AllIds) /\ Len(Append(Ids, Head(todo))) = Len(results) + 1
          /\ \A i \in 1 .. Len(results) : Append(Ids, Head(todo))[i] = Ids[i]
          /\ Append(Ids, Head(todo))[Len(results) + 1] = Head(todo)
      BY <1>3, <2>1, AppendProperties
    <3>2. \A i \in 1 .. Len(results) + 1 : Ids'[i] = Append(Ids, Head(todo))[i]
      BY <1>6, <2>2, <2>3, <3>1
    <3> QED BY <2>1, <3>1, <3>2, SeqEqual
  <2> HIDE DEF Ids
  <2>5. Append(Ids, Head(todo)) \o Tail(todo) = Ids \o todo
    BY <1>1, <2>1
  <2> QED BY <1>2, <2>4, <2>5
<1>9. Plan'
  <2>1. PICK ids \in Requested : wanted = ToSet(ids) /\ Ids \o todo = orderByPhase(ids, phases)
    BY <1>1 DEF Plan
  <2>2. wanted' = ToSet(ids) /\ Ids' \o todo' = orderByPhase(ids, phases')
    BY <1>8, <2>1
  <2> QED BY <2>2 DEF Plan
<1> QED BY <1>2, <1>3, <1>5, <1>7, <1>9 DEF Result

-----------------------------------------------------------------------------
\* main.run starts with nothing loaded, nothing run and the old reports on disk.
LEMMA RunInitially ==
    ASSUME TestRunAssumption, Init
    PROVE  RunInv
<1>1. TypeOK
  BY DEF Init, TypeOK, TestRunAssumption
<1> QED BY <1>1 DEF RunInv, Init, Done, Honest

\* What a recorded result leaves to show: the conjuncts that are not about it.
LEMMA RecordingStep ==
    ASSUME TestRunAssumption, RunInv, pc = "run", todo # <<>>,
           NEW status \in Statuses, NEW ev \in Seq(Statuses),
           ToSet(ev) \cap {"fail", "error"} # {} => status \in {"fail", "error"},
           Record(status, ev), UNCHANGED <<adapter, wanted, pc, phases, junit, gate, exit>>,
           invoked' \subseteq Handlers
    PROVE  RunInv'
<1>1. /\ results' \in Seq([id : AllIds, status : Statuses, evidence : Seq(Statuses)])
      /\ todo' \in Seq(AllIds)
      /\ Plan'
      /\ \A i \in DOMAIN results' : Honest(results'[i])
  BY RecordStep
<1>2. TypeOK /\ exit = -1
  BY DEF RunInv
<1>3. TypeOK'
  BY <1>1, <1>2 DEF TypeOK
<1> QED BY <1>1, <1>2, <1>3 DEF RunInv, Done

\* Loading, each way a test is disposed of, and the two reports.
LEMMA RunStep ==
    ASSUME TestRunAssumption, RunInv, [Next]_vars
    PROVE  RunInv'
<1> USE DEF RunInv
<1>1. CASE LoadFails
  <2>1. UNCHANGED <<adapter, wanted, phases, todo, results, invoked, junit, gate>> /\ pc' = "exited" /\ exit' = 1
    BY <1>1 DEF LoadFails
  <2>2. TypeOK'
    BY <2>1 DEF TypeOK
  <2>3. pc = "load" /\ results' = <<>>
    BY <1>1, <2>1 DEF LoadFails
  <2> QED BY <2>1, <2>2, <2>3 DEF Done, Honest
<1>2. CASE Load
  <2>1. PICK ids \in Requested : wanted' = ToSet(ids) /\ todo' = orderByPhase(ids, phases)
    BY <1>2 DEF Load
  <2>2. /\ UNCHANGED <<adapter, phases, results, invoked, junit, gate, exit>>
        /\ pc = "load" /\ pc' = "run" /\ results = <<>>
    BY <1>2 DEF Load
  <2>3. ids \in Seq(STRING) /\ ToSet(ids) \subseteq AllIds
    BY RequestedType
  <2>4. phases \in Seq(Seq(STRING))
    BY DEF TypeOK, TestRunAssumption
  <2>5. todo' \in Seq(STRING) /\ ToSet(todo') = ToSet(ids)
    BY <2>1, <2>3, <2>4, OrderedByPhase
  <2>6. todo' \in Seq(AllIds)
    <3>1. \A i \in DOMAIN todo' : todo'[i] \in AllIds
      BY <2>3, <2>5 DEF ToSet
    <3>2. todo' \in [1 .. Len(todo') -> AllIds] /\ Len(todo') \in Nat
      BY <2>5, <3>1
    <3> QED BY <3>2, IsASeq
  <2>7. TypeOK'
    BY <2>1, <2>2, <2>3, <2>6 DEF TypeOK
  <2>8. Plan'
    <3>1. Ids' = <<>>
      BY <2>2 DEF Ids
    <3>2. Ids' \o todo' = todo'
      BY <2>5, <3>1, ConcatEmptySeq
    <3> QED BY <2>1, <2>2, <3>2 DEF Plan
  <2> QED BY <2>2, <2>7, <2>8 DEF Done, anyFailed
<1>3. CASE Unknown
  <2>1. Record("error", <<>>) /\ pc = "run" /\ todo # <<>>
    BY <1>3 DEF Unknown
  <2>2. UNCHANGED <<adapter, wanted, pc, phases, invoked, junit, gate, exit>>
    BY <1>3 DEF Unknown
  <2>3. "error" \in Statuses /\ <<>> \in Seq(Statuses)
    BY DEF Statuses
  <2>4. invoked' \subseteq Handlers
    BY <2>2 DEF TypeOK
  <2> HIDE DEF RunInv
  <2> QED BY <2>1, <2>2, <2>3, <2>4, RecordingStep
<1>4. CASE Skip
  <2>1. Record("skip", <<"skip">>) /\ pc = "run" /\ todo # <<>>
    BY <1>4 DEF Skip
  <2>2. UNCHANGED <<adapter, wanted, pc, phases, invoked, junit, gate, exit>>
    BY <1>4 DEF Skip
  <2>3. "skip" \in Statuses /\ <<"skip">> \in Seq(Statuses) /\ ToSet(<<"skip">>) \cap {"fail", "error"} = {}
    BY DEF Statuses, ToSet
  <2>4. invoked' \subseteq Handlers
    BY <2>2 DEF TypeOK
  <2> HIDE DEF RunInv
  <2> QED BY <2>1, <2>2, <2>3, <2>4, RecordingStep
<1>5. CASE NoHandler
  <2>1. Record("error", <<>>) /\ pc = "run" /\ todo # <<>>
    BY <1>5 DEF NoHandler, Due
  <2>2. UNCHANGED <<adapter, wanted, pc, phases, invoked, junit, gate, exit>>
    BY <1>5 DEF NoHandler
  <2>3. "error" \in Statuses /\ <<>> \in Seq(Statuses)
    BY DEF Statuses
  <2>4. invoked' \subseteq Handlers
    BY <2>2 DEF TypeOK
  <2> HIDE DEF RunInv
  <2> QED BY <2>1, <2>2, <2>3, <2>4, RecordingStep
<1>6. CASE Execute
  <2>1. PICK ev \in Evidence : Record(Aggregate(ev), ev)
    BY <1>6 DEF Execute
  <2>2. /\ UNCHANGED <<adapter, wanted, pc, phases, junit, gate, exit>>
        /\ pc = "run" /\ todo # <<>>
    BY <1>6 DEF Execute, Due
  <2>3. ev \in Seq(Statuses)
    BY DEF TestRunAssumption
  <2>4. Aggregate(ev) \in Statuses /\ (ToSet(ev) \cap {"fail", "error"} # {} => Aggregate(ev) \in {"fail", "error"})
    BY <2>3, AggregateIsHonest
  <2>5. Head(todo) \in Handlers /\ invoked' = invoked \cup {Head(todo)}
    BY <1>6 DEF Execute, Due
  <2>6. invoked' \subseteq Handlers
    BY <2>2, <2>5 DEF TypeOK
  <2> HIDE DEF RunInv
  <2> QED BY <2>1, <2>2, <2>3, <2>4, <2>6, RecordingStep
<1>7. CASE Panic
  <2>1. /\ UNCHANGED <<adapter, wanted, phases, todo, results, junit, gate>>
        /\ pc = "run" /\ pc' = "exited" /\ exit' = 2
    BY <1>7 DEF Panic, Due
  <2>2. Head(todo) \in Handlers /\ invoked' = invoked \cup {Head(todo)}
    BY <1>7 DEF Panic, Due
  <2>3. TypeOK'
    BY <2>1, <2>2 DEF TypeOK
  <2>4. Plan'
    BY <2>1, <2>2 DEF Plan, Ids
  <2> QED BY <2>1, <2>3, <2>4 DEF Done, Honest
<1>8. CASE RunEnds
  <2>1. /\ UNCHANGED <<adapter, wanted, phases, todo, results, invoked, junit, gate, exit>>
        /\ pc = "run" /\ todo = <<>> /\ pc' = "junit"
    BY <1>8 DEF RunEnds
  <2>2. TypeOK' /\ Plan'
    BY <2>1 DEF TypeOK, Plan, Ids
  <2> QED BY <2>1, <2>2 DEF Done, Honest, anyFailed
<1>9. CASE WriteJUnit
  <2>1. /\ UNCHANGED <<adapter, wanted, phases, todo, results, invoked, gate>>
        /\ pc = "junit" /\ junit' \in {"stale", "partial", "new"}
        /\ \/ junit' = "new" /\ pc' = "gate" /\ exit' = exit
           \/ pc' = "exited" /\ exit' = 1
    BY <1>9 DEF WriteJUnit
  <2>2. exit' \in {-1, 1} /\ pc' \in {"gate", "exited"}
    BY <2>1
  <2>3. TypeOK'
    BY <2>1, <2>2 DEF TypeOK
  <2>4. Plan
    BY <2>1
  <2>5. UNCHANGED <<adapter, wanted, phases, todo, results, invoked>>
    BY <2>1
  <2>6. Plan'
    <3>1. wanted' = wanted /\ phases' = phases /\ Ids' \o todo' = Ids \o todo
      BY <2>5 DEF Ids
    <3> HIDE DEF RunInv
    <3> QED BY <2>4, <3>1 DEF Plan
  <2> QED BY <2>1, <2>3, <2>5, <2>6 DEF Done, Honest, anyFailed
<1>10. CASE WriteGate
  <2>1. /\ UNCHANGED <<adapter, wanted, phases, todo, results, invoked, junit>>
        /\ pc = "gate" /\ pc' = "exited" /\ gate' \in {"stale", "partial", "new"}
        /\ \/ gate' = "new" /\ exit' = IF anyFailed THEN 1 ELSE 0
           \/ exit' = 1
    BY <1>10 DEF WriteGate
  <2>2. exit' \in {0, 1} /\ (exit' = 0 => gate' = "new" /\ ~anyFailed)
    BY <2>1
  <2>3. anyFailed' = anyFailed
    BY <2>1 DEF anyFailed
  <2>4. TypeOK' /\ Plan'
    BY <2>1, <2>2 DEF TypeOK, Plan, Ids
  <2> QED BY <2>1, <2>2, <2>3, <2>4 DEF Done, Honest
<1>11. CASE UNCHANGED vars
  <2>1. UNCHANGED <<adapter, wanted, pc, phases, todo, results, invoked, junit, gate, exit>>
    BY <1>11 DEF vars
  <2>2. TypeOK'
    BY <2>1 DEF TypeOK
  <2>3. Plan => Plan'
    BY <2>1 DEF Plan, Ids
  <2> QED BY <2>1, <2>2, <2>3 DEF Done, Honest, anyFailed
<1> QED BY <1>1, <1>2, <1>3, <1>4, <1>5, <1>6, <1>7, <1>8, <1>9, <1>10, <1>11 DEF Next

\* So the invariant holds in every state of an invocation.
LEMMA RunInvariant == Spec => []RunInv
<1>1. Init => RunInv
  BY TestRunAssumption, RunInitially
<1>2. RunInv /\ [Next]_vars => RunInv'
  BY TestRunAssumption, RunStep
<1> QED BY <1>1, <1>2, PTL DEF Spec

-----------------------------------------------------------------------------
\* Every state of an invocation is one of the types declared.
THEOREM TestRunTypeOK == Spec => []TypeOK
<1>1. RunInv => TypeOK
  BY DEF RunInv
<1> QED BY <1>1, RunInvariant, PTL

\* Run returns one result for each requested test, and for nothing else.
THEOREM RunOneResultEach == Spec => []OneResultEach
<1>1. RunInv => OneResultEach
  <2> SUFFICES ASSUME RunInv, Done
               PROVE  IsInjective(Ids) /\ ToSet(Ids) = wanted
    BY DEF OneResultEach
  <2>1. Plan /\ todo = <<>> /\ TypeOK
    BY DEF RunInv, Done
  <2>2. Ids \in Seq(AllIds)
    BY <2>1, IdsType
  <2>3. PICK ids \in Requested : wanted = ToSet(ids) /\ Ids \o todo = orderByPhase(ids, phases)
    BY <2>1 DEF Plan
  <2>4. Ids \o todo = Ids
    BY <2>1, <2>2, ConcatEmptySeq
  <2>5. ids \in Seq(STRING) /\ phases \in Seq(Seq(STRING))
    BY <2>1, TestRunAssumption, RequestedType DEF TypeOK, TestRunAssumption
  <2> QED BY <2>3, <2>4, <2>5, OrderedByPhase
<1> QED BY <1>1, RunInvariant, PTL

\* At every moment the results are in the order of the phases.
THEOREM RunPhaseOrder == Spec => []PhaseOrder
<1>1. RunInv => PhaseOrder
  <2> SUFFICES ASSUME RunInv, NEW i \in DOMAIN results, NEW j \in DOMAIN results, i < j
               PROVE  Place(results[i].id, phases) <= Place(results[j].id, phases)
    BY DEF PhaseOrder, Place, First
  <2>1. Plan /\ TypeOK
    BY DEF RunInv
  <2>2. Ids \in Seq(AllIds) /\ todo \in Seq(AllIds) /\ Len(Ids) = Len(results) /\ DOMAIN results = 1 .. Len(results)
    BY <2>1, IdsType DEF TypeOK
  <2>3. PICK ids \in Requested : wanted = ToSet(ids) /\ Ids \o todo = orderByPhase(ids, phases)
    BY <2>1 DEF Plan
  <2>4. ids \in Seq(STRING) /\ phases \in Seq(Seq(STRING))
    BY <2>1, TestRunAssumption, RequestedType DEF TypeOK, TestRunAssumption
  <2> DEFINE o == orderByPhase(ids, phases)
  <2>5. \A k, l \in DOMAIN o : k < l => Place(o[k], phases) <= Place(o[l], phases)
    BY <2>4, OrderedByPhase
  <2>6. /\ Len(o) = Len(Ids) + Len(todo) /\ DOMAIN o = 1 .. Len(o)
        /\ Len(Ids) \in Nat /\ Len(todo) \in Nat
        /\ \A k \in 1 .. Len(Ids) : o[k] = Ids[k]
    <3> DEFINE both == Ids \o todo
    <3>1. Len(Ids) \in Nat /\ Len(todo) \in Nat
      BY <2>2
    <3>2. both \in Seq(AllIds) /\ Len(both) = Len(Ids) + Len(todo)
      BY <2>2, ConcatProperties
    <3>3. \A k \in 1 .. Len(Ids) : both[k] = Ids[k]
      <4> HIDE DEF Ids
      <4> QED BY <2>2, <3>1, ConcatProperties
    <3> HIDE DEF both
    <3>4. DOMAIN both = 1 .. Len(both)
      BY <3>2
    <3> QED BY <2>3, <3>1, <3>2, <3>3, <3>4 DEF both
  <2> HIDE DEF o
  <2>7. i \in DOMAIN o /\ j \in DOMAIN o
    BY <2>2, <2>6
  <2>8. o[i] = results[i].id /\ o[j] = results[j].id
    BY <2>2, <2>6 DEF Ids
  <2> QED BY <2>5, <2>7, <2>8
<1> QED BY <1>1, RunInvariant, PTL

\* Exit code 0 means two new reports and not one failing piece of evidence.
THEOREM RunExitZeroEarned == Spec => []ExitZeroEarned
<1>1. RunInv => ExitZeroEarned
  BY DEF RunInv, ExitZeroEarned, Honest, anyFailed
<1> QED BY <1>1, RunInvariant, PTL

=============================================================================
