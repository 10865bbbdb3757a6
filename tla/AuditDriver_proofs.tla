-------------------------- MODULE AuditDriver_proofs --------------------------
(***************************************************************************)
(* The audit driver for every number of records, list of tools, pace and   *)
(* rate limit, of an implementation that replays identical calls or not.   *)
(* The inductive invariant says which rows the log holds: those of earlier *)
(* records and, while its 201 is not yet taken, of the current one; every  *)
(* earlier record is settled.  Two more are about the rate limit: what a   *)
(* refusal with a hint leaves room for, and how far apart the requests in  *)
(* the window are.                                                         *)
(***************************************************************************)
EXTENDS AuditDriver, SequenceTheorems, FiniteSetTheorems, WellFoundedInduction, TLAPS

\* Outside a request nothing is in flight, and the counters add up to i.
Balanced ==
    /\ pc \in {"send", "sleep", "done"} => net = "none"
    /\ pc = "done" => i = N
    /\ net # "none" => i < N
    /\ net = "pda" => Tool(i) \in PromptTools
    /\ written + skipped = i
    /\ written = Cardinality(Reported)

\* Rows come from earlier records, but for the one whose 201 is pending, and that
\* record is in the log, by its own row or that of an identical call.
Below ==
    /\ \A j \in Range(rows) : Tool(j) \notin PromptTools /\ (j < i \/ (net = "201" /\ j = i))
    /\ net = "201" => Tool(i) \notin PromptTools /\ Recorded(i)

Distinct == \A a, b \in 1 .. Len(rows) : rows[a] = rows[b] => a = b

\* Every record counted as written is in the log.
Settled == \A k \in Reported : Recorded(k)

DriverInv == TypeOK /\ Balanced /\ Below /\ Distinct /\ Settled

-----------------------------------------------------------------------------
\* Aging keeps the window a window.
LEMMA AgeType ==
    ASSUME DriverAssumption, L!TypeOK, L!Age PROVE L!TypeOK'
<1>1. \A a \in 0 .. Window - 1 : a # 0 => a - 1 \in 0 .. Window - 1
  BY DEF DriverAssumption
<1> QED BY <1>1 DEF L!TypeOK, L!Age

\* Admitting a request keeps a limiter's window a limiter's window.
LEMMA AdmitType ==
    ASSUME DriverAssumption, L!TypeOK, L!Admit PROVE L!TypeOK'
BY DEF DriverAssumption, L!TypeOK, L!Admit

\* The invariant holds before the first request.
LEMMA InitInv == Init => DriverInv
<1> SUFFICES ASSUME Init PROVE DriverInv OBVIOUS
<1>1. recent \in [0 .. Window - 1 -> Nat]
  BY DriverAssumption DEF Init, DriverAssumption
<1>2. TypeOK BY <1>1, DriverAssumption DEF Init, TypeOK, DriverAssumption, L!TypeOK, Answers
<1>3. Balanced /\ Below /\ Distinct /\ Settled
  <2>1. Reported = {} /\ Range(rows) = {} BY DEF Init, Reported, Range
  <2>2. Cardinality(Reported) = 0 BY <2>1, FS_EmptySet
  <2> QED BY <2>1, <2>2 DEF Init, Balanced, Below, Distinct, Settled
<1> QED BY <1>2, <1>3 DEF DriverInv

\* Every step keeps the types.
LEMMA TypeStep == DriverInv /\ [Next]_vars => TypeOK'
<1> SUFFICES ASSUME DriverInv, [Next]_vars PROVE TypeOK' OBVIOUS
<1> USE DriverAssumption DEF DriverInv, TypeOK, Answers
<1>1. CASE Send BY <1>1 DEF Send, loop, setting, L!TypeOK
<1>2. CASE Finish BY <1>2 DEF Finish, loop, setting, L!TypeOK
<1>3. CASE Accepted
  BY <1>3 DEF Accepted, NextRecord, setting, Balanced, DriverAssumption, L!TypeOK
<1>4. CASE Throttled
  <2>1. wake' \in Nat /\ retried' \in Nat /\ tries' \in Nat
    <3>1. /\ retried' = retried + 1 /\ tries' = tries + 1
          /\ wake' = (IF hint > 0 THEN hint ELSE DefaultRetry) + 1
      BY <1>4 DEF Throttled
    <3>2. {retried, tries} \subseteq Nat /\ hint \in 0 .. Window /\ {Window, DefaultRetry} \subseteq Nat
      BY DEF DriverAssumption
    <3> HIDE DEF DriverInv, TypeOK, Answers
    <3> QED BY <3>1, <3>2
  <2> QED BY <1>4, <2>1 DEF Throttled, setting, L!TypeOK
<1>5. CASE Unverified
  BY <1>5 DEF Unverified, NextRecord, setting, Balanced, DriverAssumption, L!TypeOK
<1>6. CASE Rejected BY <1>6 DEF Rejected, loop, setting, L!TypeOK
<1>7. CASE Lost BY <1>7 DEF Lost, loop, setting, L!TypeOK
<1>8. CASE Wake BY <1>8 DEF Wake, loop, setting, L!TypeOK
<1>9. CASE Refuse BY <1>9 DEF Refuse, loop, setting, L!TypeOK
<1>10. CASE Decide
  <2>1. L!TypeOK' BY <1>10, AdmitType DEF Decide
  <2>2. rows' \in Seq(0 .. N - 1)
    <3>1. i \in 0 .. N - 1 BY <1>10 DEF Decide, Balanced, DriverAssumption
    <3>2. rows' = rows \/ rows' = Append(rows, i) BY <1>10 DEF Decide
    <3>3. rows \in Seq(0 .. N - 1) OBVIOUS
    <3>4. Append(rows, i) \in Seq(0 .. N - 1)
      <4> HIDE DEF TypeOK, DriverInv
      <4> QED BY <3>1, <3>3, AppendProperties
    <3> QED BY <3>2, <3>3, <3>4
  <2>3. net' \in {"201", "pda", "other"} BY <1>10 DEF Decide
  <2> QED BY <1>10, <2>1, <2>2, <2>3 DEF Decide, loop, setting
<1>11. CASE Others
  <2>1. L!TypeOK' BY <1>11, AdmitType DEF Others
  <2> QED BY <1>11, <2>1 DEF Others, loop, setting, DriverAssumption
<1>12. CASE Tick
  <2>1. L!TypeOK' BY <1>12, AgeType DEF Tick
  <2> QED BY <1>12, <2>1 DEF Tick, loop, setting
<1>13. CASE UNCHANGED vars BY <1>13 DEF vars, loop, setting, L!TypeOK
<1> QED BY <1>1, <1>2, <1>3, <1>4, <1>5, <1>6, <1>7, <1>8, <1>9, <1>10, <1>11, <1>12, <1>13
        DEF Next, Driver

\* Counting the current record: the records counted as written grow by it, or not.
LEMMA ReportedStep ==
    ASSUME DriverAssumption, i \in Nat, i' = i + 1
    PROVE  /\ Tool(i) \in PromptTools => Reported' = Reported
           /\ Tool(i) \notin PromptTools =>
                 Reported' = Reported \cup {i} /\ Cardinality(Reported') = Cardinality(Reported) + 1
<1>1. 0 .. i' - 1 = (0 .. i - 1) \cup {i}
  OBVIOUS
<1>2. \A k : Tool(k)' = Tool(k)
  BY DEF Tool
<1>3. Reported' = {k \in (0 .. i - 1) \cup {i} : Tool(k) \notin PromptTools}
  BY <1>1, <1>2 DEF Reported
<1>4. IsFiniteSet(Reported) /\ i \notin Reported
  <2>1. IsFiniteSet(0 .. i - 1) BY FS_Interval
  <2> QED BY <2>1, FS_Subset DEF Reported
<1>5. Cardinality(Reported \cup {i}) = Cardinality(Reported) + 1
  BY <1>4, FS_AddElement
<1> QED BY <1>3, <1>5 DEF Reported

\* The log grows only by the row of the current record, in Decide.
LEMMA LogStep == DriverInv /\ [Next]_vars => (Balanced /\ Below /\ Distinct /\ Settled)'
<1> SUFFICES ASSUME DriverInv, [Next]_vars PROVE (Balanced /\ Below /\ Distinct /\ Settled)'
    OBVIOUS
<1> USE DEF DriverInv, TypeOK, Balanced, Below, Distinct, Settled, Answers
<1>0. /\ i \in Nat /\ written \in Nat /\ skipped \in Nat /\ Len(rows) \in Nat
      /\ \A a \in 1 .. Len(rows) : rows[a] \in Nat
  <2>1. N \in Nat BY DriverAssumption DEF DriverAssumption
  <2>2. rows \in Seq(0 .. N - 1) OBVIOUS
  <2>3. Len(rows) \in Nat /\ \A a \in 1 .. Len(rows) : rows[a] \in 0 .. N - 1
    <3> HIDE DEF TypeOK, DriverInv
    <3> QED BY <2>2, LenProperties, ElementOfSeq
  <2> QED BY <2>1, <2>3
<1>s. ASSUME UNCHANGED <<i, written, skipped, rows, replays>>,
             net' = net \/ (net' # "201" /\ net # "201"),
             pc' \in {"send", "sleep", "done"} => net' = "none",
             pc' = "done" => i = N, net' # "none" => i < N,
             net' = "pda" => Tool(i) \in PromptTools
      PROVE  (Balanced /\ Below /\ Distinct /\ Settled)'
  <2>1. \A k : Tool(k)' = Tool(k) BY DEF Tool
  <2>2. Reported' = Reported /\ Range(rows)' = Range(rows)
    BY <1>s, <2>1 DEF Reported, Range
  <2>3. \A k : Recorded(k)' <=> Recorded(k)
    BY <1>s, <2>1, <2>2 DEF Recorded, Identical
  <2>4. Balanced' BY <1>s, <2>1, <2>2
  <2>5. Distinct' BY <1>s
  <2>6. Below' /\ Settled' BY <1>s, <2>1, <2>2, <2>3
  <2> QED BY <2>4, <2>5, <2>6
<1>n. ASSUME NextRecord, UNCHANGED <<rows, replays>>, net \in {"201", "pda"},
             net = "201" => written' = written + 1 /\ skipped' = skipped,
             net = "pda" => written' = written /\ skipped' = skipped + 1
      PROVE  (Balanced /\ Below /\ Distinct /\ Settled)'
  <2>1. i' = i + 1 /\ net' = "none" /\ pc' = "sleep" /\ net # "none"
    BY <1>n DEF NextRecord
  <2>2. Tool(i) \in PromptTools <=> net = "pda" BY <1>n
  <2>3. \A k : Tool(k)' = Tool(k) BY DEF Tool
  <2>4. Range(rows)' = Range(rows) BY <1>n DEF Range
  <2>5. \A k : Recorded(k)' <=> Recorded(k)
    BY <1>n, <2>3, <2>4 DEF Recorded, Identical
  <2>6. /\ net = "pda" => Reported' = Reported
        /\ net = "201" => Reported' = Reported \cup {i} /\ Cardinality(Reported') = Cardinality(Reported) + 1
    BY <1>0, <1>n, <2>1, <2>2, DriverAssumption, ReportedStep
  <2>7. Balanced' BY <1>0, <1>n, <2>1, <2>6
  <2>8. Distinct' BY <1>n
  <2>9. Range(rows) \subseteq Nat BY <1>0 DEF Range
  <2>10. Below' BY <1>0, <2>1, <2>3, <2>4, <2>9
  <2>11. Settled' BY <1>n, <2>1, <2>5, <2>6
  <2> QED BY <2>7, <2>8, <2>10, <2>11
<1>1. CASE Send BY <1>1, <1>0, <1>s, DriverAssumption DEF Send, loop, setting, DriverAssumption
<1>2. CASE Finish BY <1>2, <1>s DEF Finish, loop, setting
<1>3. CASE Accepted
  <2>1. /\ NextRecord /\ UNCHANGED <<rows, replays>> /\ net = "201"
        /\ written' = written + 1 /\ skipped' = skipped
    BY <1>3 DEF Accepted, NextRecord, setting
  <2> QED BY <1>n, <2>1
<1>4. CASE Throttled BY <1>4, <1>s DEF Throttled, setting
<1>5. CASE Unverified
  <2>1. /\ NextRecord /\ UNCHANGED <<rows, replays>> /\ net = "pda"
        /\ written' = written /\ skipped' = skipped + 1
    BY <1>5 DEF Unverified, NextRecord, setting
  <2> QED BY <1>n, <2>1
<1>6. CASE Rejected BY <1>6, <1>s DEF Rejected, loop, setting
<1>7. CASE Lost BY <1>7, <1>s DEF Lost, loop, setting
<1>8. CASE Wake BY <1>8, <1>s DEF Wake, loop, setting
<1>9. CASE Refuse BY <1>9, <1>s DEF Refuse, loop, setting
<1>10. CASE Decide
  <2>0. UNCHANGED <<pc, i, written, skipped, replays>> /\ net = "sent" /\ net' \in {"201", "pda", "other"}
    BY <1>10 DEF Decide, loop, setting
  <2>1. CASE Tool(i) \in PromptTools
    <3>1. net' = "pda" /\ UNCHANGED rows BY <1>10, <2>1 DEF Decide
    <3> QED BY <1>s, <2>0, <2>1, <3>1
  <2>2. CASE net' = "201" /\ Tool(i) \notin PromptTools
    <3>0. \A k : Tool(k)' = Tool(k) BY DEF Tool
    <3>1. Reported' = Reported BY <2>0, <3>0 DEF Reported
    <3>2. Balanced' BY <2>0, <2>2, <3>1
    <3>3. CASE rows' = Append(rows, i)
      <4>1. /\ Len(rows') = Len(rows) + 1 /\ rows'[Len(rows) + 1] = i
            /\ \A a \in 1 .. Len(rows) : rows'[a] = rows[a]
        BY <3>3
      <4>2. \A a \in 1 .. Len(rows) : rows[a] \in Range(rows)
        BY DEF Range
      <4>3. \A a \in 1 .. Len(rows) : rows[a] < i
        BY <2>0, <4>2
      <4>4. Range(rows') = Range(rows) \cup {i}
        <5>1. DOMAIN rows = 1 .. Len(rows) /\ DOMAIN rows' = 1 .. Len(rows) + 1
          BY <3>3
        <5>2. 1 .. Len(rows) + 1 = (1 .. Len(rows)) \cup {Len(rows) + 1} BY <1>0
        <5> QED BY <4>1, <5>1, <5>2 DEF Range
      <4>5. Range(rows)' = Range(rows) \cup {i} BY <4>4 DEF Range
      <4>6. Distinct' BY <1>0, <4>1, <4>3
      <4>7. Recorded(i)' /\ \A k : Recorded(k) => Recorded(k)'
        BY <2>0, <3>0, <4>5 DEF Recorded, Identical
      <4>8. Below' BY <2>0, <2>2, <3>0, <4>5, <4>7
      <4>9. Settled' BY <3>1, <4>7
      <4> QED BY <3>2, <4>6, <4>8, <4>9
    <3>4. CASE replays /\ (\E j \in Range(rows) : Identical(j, i)) /\ UNCHANGED rows
      <4>1. Range(rows)' = Range(rows) BY <3>4 DEF Range
      <4>2. \A k : Recorded(k)' <=> Recorded(k)
        BY <2>0, <3>0, <4>1 DEF Recorded, Identical
      <4>3. Recorded(i) BY <2>0, <3>4 DEF Recorded
      <4>4. Distinct' BY <3>4
      <4>5. Recorded(i)' BY <2>0, <4>2, <4>3
      <4>6. Below' BY <2>0, <2>2, <3>0, <4>1, <4>5
      <4>7. Settled' BY <3>1, <4>2
      <4> QED BY <3>2, <4>4, <4>6, <4>7
    <3> QED BY <1>10, <2>2, <3>3, <3>4 DEF Decide
  <2>3. CASE net' = "other" /\ Tool(i) \notin PromptTools
    <3>1. UNCHANGED rows BY <1>10, <2>3 DEF Decide
    <3> QED BY <1>s, <2>0, <2>3, <3>1
  <2>4. net' = "pda" => Tool(i) \in PromptTools BY <1>10 DEF Decide
  <2> QED BY <2>0, <2>1, <2>2, <2>3, <2>4
<1>11. CASE Others BY <1>11, <1>s DEF Others, loop, setting
<1>12. CASE Tick BY <1>12, <1>s DEF Tick, loop, setting
<1>13. CASE UNCHANGED vars BY <1>13, <1>s DEF vars, loop, setting
<1> QED BY <1>1, <1>2, <1>3, <1>4, <1>5, <1>6, <1>7, <1>8, <1>9, <1>10, <1>11, <1>12, <1>13
        DEF Next, Driver

\* The invariant holds of every reachable state.
LEMMA InvHolds == Spec => []DriverInv
<1>1. DriverInv /\ [Next]_vars => DriverInv' BY TypeStep, LogStep DEF DriverInv
<1> QED BY InitInv, <1>1, PTL DEF Spec

-----------------------------------------------------------------------------
\* The driver's variables keep their types, whatever the server answers.
THEOREM DriverTypeOK == Spec => []TypeOK
<1>1. DriverInv => TypeOK BY DEF DriverInv
<1> QED BY <1>1, InvHolds, PTL

\* No record is written twice, however many are retried or lost.
THEOREM DriverRowsOnce == Spec => []RowsOnce
<1>1. DriverInv => RowsOnce
  BY DEF DriverInv, TypeOK, Distinct, RowsOnce, IsInjective
<1> QED BY <1>1, InvHolds, PTL

\* The log answers for every record reported as written, by a row of its own or by that
\* of an identical call replayed, and holds at most one row more, the one in flight.
THEOREM DriverStatsHonest == Spec => []StatsHonest
<1>1. ASSUME DriverInv PROVE StatsHonest
  <2>1. written = Cardinality(Reported) /\ \A k \in Reported : Recorded(k)
    BY <1>1 DEF DriverInv, Balanced, Settled
  <2>2. ASSUME NEW k \in Range(rows) \ Reported
        PROVE  k = i /\ net = "201" /\ pc \in {"flight", "stopped"}
    <3>1. k \in Nat /\ i \in Int
      <4>1. rows \in Seq(0 .. N - 1) /\ i \in 0 .. N /\ N \in Nat
        BY <1>1, DriverAssumption DEF DriverInv, TypeOK, DriverAssumption
      <4>2. \A a \in 1 .. Len(rows) : rows[a] \in 0 .. N - 1 BY <4>1, ElementOfSeq
      <4>3. DOMAIN rows = 1 .. Len(rows) BY <4>1
      <4> QED BY <4>1, <4>2, <4>3 DEF Range
    <3>2. Tool(k) \notin PromptTools /\ (k < i \/ (net = "201" /\ k = i))
      BY <1>1 DEF DriverInv, Below
    <3>3. ~(k < i) BY <3>1, <3>2 DEF Reported
    <3> QED BY <1>1, <3>2, <3>3 DEF DriverInv, TypeOK, Balanced
  <2> QED BY <2>1, <2>2 DEF StatsHonest
<1> QED BY <1>1, InvHolds, PTL

\* A driver that ends without an error has dealt with every record, and the log answers
\* for exactly those whose tool needs no verified PDA.
THEOREM DriverAllAccounted == Spec => []AllAccounted
<1>1. ASSUME DriverInv, pc = "done" PROVE AllAccounted
  <2>1. i = N /\ written + skipped = N BY <1>1 DEF DriverInv, Balanced
  <2>2. ASSUME NEW k \in 0 .. N - 1 PROVE Recorded(k) <=> Tool(k) \notin PromptTools
    <3>1. Tool(k) \notin PromptTools => Recorded(k)
      BY <1>1, <2>1 DEF DriverInv, Settled, Reported
    <3>2. Recorded(k) => Tool(k) \notin PromptTools
      BY <1>1 DEF DriverInv, Below, Recorded, Identical
    <3> QED BY <3>1, <3>2
  <2> QED BY <2>1, <2>2 DEF AllAccounted
<1>2. DriverInv => AllAccounted BY <1>1 DEF AllAccounted
<1> QED BY <1>2, InvHolds, PTL

-----------------------------------------------------------------------------
(***************************************************************************)
(* The rate limit.  What the driver is refused depends on how many         *)
(* requests the window holds, a sum; so first about sums.                  *)
(***************************************************************************)
\* A set of natural numbers has a least element.
LEMMA LeastIn ==
    ASSUME NEW T \in SUBSET Nat, T # {}
    PROVE  \E x \in T : \A j \in T : x <= j
<1> DEFINE R == OpToRel(<, Nat)
<1>1. \E x \in T : \A j \in T : <<j, x>> \notin R
  <2>1. IsWellFoundedOn(R, Nat)
    BY NatLessThanWellFounded
  <2> HIDE DEF R
  <2> QED BY <2>1, WFMin
<1>2. \A x, j \in T : <<j, x>> \notin R => x <= j
  BY DEF OpToRel
<1> QED BY <1>1, <1>2

\* The recursion of a sum over the members of T, up to sets of n of them.
Pick(s)          == CHOOSE x \in s : TRUE
Upto(T, n)       == {s \in SUBSET T : Cardinality(s) <= n}
Adds(g, f, D)    == g = [s \in D |-> IF s = {} THEN 0 ELSE f[Pick(s)] + g[s \ {Pick(s)}]]

\* The library's sum is the solution of that recursion.
LEMMA SumIsFold ==
    ASSUME NEW f, NEW T
    PROVE  SumFunctionOnSet(f, T) = (CHOOSE g : Adds(g, f, SUBSET T))[T]
BY DEF SumFunctionOnSet, FoldFunctionOnSet, MapThenFoldSet, Adds, Pick

\* Taking one member away.
LEMMA PickStep ==
    ASSUME NEW T, IsFiniteSet(T), NEW s \in SUBSET T, NEW x \in s
    PROVE  /\ IsFiniteSet(s) /\ Cardinality(s) \in Nat \ {0}
           /\ s \ {x} \in SUBSET T
           /\ Cardinality(s \ {x}) = Cardinality(s) - 1
<1>1. IsFiniteSet(s)
  BY FS_Subset
<1>2. Cardinality(s) \in Nat /\ Cardinality(s \ {x}) \in Nat /\ Cardinality(s \ {x}) = Cardinality(s) - 1
  BY <1>1, FS_RemoveElement, FS_CardinalityType
<1> QED BY <1>1, <1>2

\* The recursion has a solution, for all the subsets of a finite set.
LEMMA SumExists ==
    ASSUME NEW f, NEW T, IsFiniteSet(T)
    PROVE  \E g : Adds(g, f, SUBSET T)
<1> DEFINE without == {n \in Nat : ~\E g : Adds(g, f, Upto(T, n))}
<1>1. without = {}
  <2> SUFFICES ASSUME without # {}
               PROVE  FALSE
    OBVIOUS
  <2>1. PICK n \in without : \A k \in without : n <= k
    BY LeastIn
  <2>2. n \in Nat /\ ~\E g : Adds(g, f, Upto(T, n))
    BY <2>1
  <2>3. n # 0
    <3>1. ASSUME NEW s \in Upto(T, 0)
          PROVE  s = {}
      <4>1. IsFiniteSet(s) /\ Cardinality(s) \in Nat /\ Cardinality(s) <= 0
        BY FS_Subset, FS_CardinalityType DEF Upto
      <4> QED BY <4>1, FS_EmptySet
    <3> DEFINE g == [s \in Upto(T, 0) |-> 0]
    <3>2. Adds(g, f, Upto(T, 0))
      BY <3>1 DEF Adds
    <3> QED BY <2>2, <3>2
  <2>4. n - 1 \in Nat /\ ~(n <= n - 1)
    BY <2>2, <2>3
  <2>5. PICK g : Adds(g, f, Upto(T, n - 1))
    BY <2>1, <2>4
  <2> DEFINE D == Upto(T, n)
             h == [s \in D |-> IF Cardinality(s) = n THEN f[Pick(s)] + g[s \ {Pick(s)}] ELSE g[s]]
             step == [s \in D |-> IF s = {} THEN 0 ELSE f[Pick(s)] + h[s \ {Pick(s)}]]
  <2>6. ASSUME NEW s \in D
        PROVE  h[s] = step[s]
    <3>1. s \in SUBSET T /\ IsFiniteSet(s) /\ Cardinality(s) \in Nat /\ Cardinality(s) <= n
      BY FS_Subset, FS_CardinalityType DEF Upto
    <3>2. CASE s = {}
      <4>1. Cardinality(s) = 0
        BY <3>2, FS_EmptySet
      <4>2. s \in Upto(T, n - 1)
        BY <2>4, <3>1, <4>1 DEF Upto
      <4>3. g[s] = 0
        BY <2>5, <3>2, <4>2 DEF Adds
      <4> QED BY <2>3, <3>2, <4>1, <4>3
    <3>3. CASE s # {}
      <4> DEFINE r == s \ {Pick(s)}
      <4>1. Pick(s) \in s
        BY <3>3 DEF Pick
      <4>2. r \in SUBSET T /\ Cardinality(r) = Cardinality(s) - 1
        BY <3>1, <4>1, PickStep
      <4>3. Cardinality(r) # n /\ Cardinality(r) <= n - 1 /\ Cardinality(r) <= n
        BY <2>2, <3>1, <4>2
      <4>4. r \in D /\ r \in Upto(T, n - 1)
        BY <4>2, <4>3 DEF Upto
      <4>5. h[r] = g[r]
        BY <4>3, <4>4
      <4>6. CASE Cardinality(s) = n
        BY <3>3, <4>5, <4>6
      <4>7. CASE Cardinality(s) # n
        <5>1. s \in Upto(T, n - 1)
          BY <2>2, <3>1, <4>7 DEF Upto
        <5>2. g[s] = f[Pick(s)] + g[r]
          BY <2>5, <3>3, <5>1 DEF Adds
        <5> HIDE DEF r
        <5>3. h[s] = g[s]
          BY <4>7
        <5>4. step[s] = f[Pick(s)] + h[r]
          BY <3>3 DEF r
        <5> QED BY <4>5, <5>2, <5>3, <5>4
      <4> QED BY <4>6, <4>7
    <3> QED BY <3>2, <3>3
  <2>7. DOMAIN h = D /\ DOMAIN step = D
    OBVIOUS
  <2>8. h = step
    BY <2>6, <2>7
  <2>9. Adds(h, f, D)
    BY <2>8 DEF Adds
  <2> QED BY <2>2, <2>9
<1>2. Cardinality(T) \in Nat
  BY FS_CardinalityType
<1>3. Upto(T, Cardinality(T)) = SUBSET T
  BY FS_Subset DEF Upto
<1>4. \E g : Adds(g, f, Upto(T, Cardinality(T)))
  BY <1>1, <1>2
<1> QED BY <1>3, <1>4

\* The library's sum is the value of one.
LEMMA SumIsSolution ==
    ASSUME NEW f, NEW T, IsFiniteSet(T)
    PROVE  \E g : Adds(g, f, SUBSET T) /\ SumFunctionOnSet(f, T) = g[T]
<1> DEFINE g == CHOOSE g : Adds(g, f, SUBSET T)
<1>1. Adds(g, f, SUBSET T)
  BY SumExists
<1>2. SumFunctionOnSet(f, T) = g[T]
  BY SumIsFold
<1> QED BY <1>1, <1>2

\* A solution adds what its members add, whichever is taken first.
LEMMA SumTakesAny ==
    ASSUME NEW f, NEW T, IsFiniteSet(T), \A x \in T : f[x] \in Nat,
           NEW g, Adds(g, f, SUBSET T)
    PROVE  \A s \in SUBSET T : g[s] \in Nat /\ \A x \in s : g[s] = f[x] + g[s \ {x}]
<1> DEFINE Good(s) == g[s] \in Nat /\ \A x \in s : g[s] = f[x] + g[s \ {x}]
           bad == {n \in Nat : \E s \in SUBSET T : Cardinality(s) = n /\ ~Good(s)}
<1>1. bad = {}
  <2> SUFFICES ASSUME bad # {}
               PROVE  FALSE
    OBVIOUS
  <2>1. PICK n \in bad : \A k \in bad : n <= k
    BY LeastIn
  <2>2. PICK s \in SUBSET T : Cardinality(s) = n /\ ~Good(s)
    BY <2>1
  <2>3. n \in Nat /\ n - 1 \notin bad
    BY <2>1
  <2>4. g[s] = IF s = {} THEN 0 ELSE f[Pick(s)] + g[s \ {Pick(s)}]
    BY DEF Adds
  <2>5. s # {}
    BY <2>2, <2>4
  <2> DEFINE p == Pick(s)
             r == s \ {p}
  <2>6. p \in s
    BY <2>5 DEF Pick
  <2> HIDE DEF p
  <2>7. \A x \in s : /\ s \ {x} \in SUBSET T /\ Cardinality(s \ {x}) = n - 1
                     /\ n - 1 \in Nat /\ x \in T
    BY <2>2, PickStep
  <2> HIDE DEF Good
  <2>8. \A x \in s : Good(s \ {x})
    BY <2>3, <2>7
  <2> USE DEF Good
  <2>9. g[s] = f[p] + g[r]
    BY <2>4, <2>5 DEF p
  <2>10. g[s] \in Nat
    <3>1. f[p] \in Nat /\ g[r] \in Nat
      BY <2>6, <2>7, <2>8
    <3> QED BY <2>9, <3>1
  <2>11. ASSUME NEW x \in s
         PROVE  g[s] = f[x] + g[s \ {x}]
    <3>1. CASE x = p
      BY <2>9, <3>1
    <3>2. CASE x # p
      <4>1. x \in r /\ p \in s \ {x}
        BY <2>6, <3>2
      <4>2. g[r] = f[x] + g[r \ {x}]
        BY <2>6, <2>8, <4>1
      <4>3. g[s \ {x}] = f[p] + g[(s \ {x}) \ {p}]
        BY <2>8, <4>1
      <4>4. r \ {x} = (s \ {x}) \ {p}
        OBVIOUS
      <4>5. r \ {x} \in SUBSET T /\ g[r \ {x}] \in Nat
        <5>1. r \in SUBSET T /\ g[r] \in Nat
          BY <2>6, <2>7, <2>8
        <5>2. Cardinality(r \ {x}) = n - 2 /\ n - 2 \in Nat
          <6>1. Cardinality(r) = n - 1
            BY <2>6, <2>7
          <6>2. Cardinality(r) \in Nat \ {0} /\ Cardinality(r \ {x}) = Cardinality(r) - 1
            BY <4>1, <5>1, PickStep
          <6> QED BY <2>3, <6>1, <6>2
        <5>3. n - 2 \notin bad
          BY <2>1, <2>3, <5>2
        <5> HIDE DEF Good
        <5>4. r \ {x} \in SUBSET T
          BY <5>1
        <5>5. Good(r \ {x})
          BY <5>2, <5>3, <5>4
        <5> QED BY <5>4, <5>5 DEF Good
      <4>6. f[x] \in Nat /\ f[p] \in Nat
        BY <2>6, <2>7
      <4>7. g[s \ {x}] = f[p] + g[r \ {x}]
        BY <4>3, <4>4
      <4> DEFINE rest == g[r \ {x}]
      <4>8. g[r] = f[x] + rest /\ g[s \ {x}] = f[p] + rest /\ rest \in Nat
        BY <4>2, <4>5, <4>7
      <4> HIDE DEF r, rest
      <4> QED BY <2>9, <4>6, <4>8
    <3> QED BY <3>1, <3>2
  <2> QED BY <2>2, <2>10, <2>11
<1>2. \A s \in SUBSET T : Cardinality(s) \in Nat
  BY FS_Subset, FS_CardinalityType
<1> HIDE DEF Good
<1>3. \A s \in SUBSET T : Good(s)
  BY <1>1, <1>2
<1> QED BY <1>3 DEF Good

\* Two sums of the same numbers over the same set are the same.
LEMMA SumsAgree ==
    ASSUME NEW f, NEW T, IsFiniteSet(T),
           NEW g, Adds(g, f, SUBSET T), NEW h, Adds(h, f, SUBSET T)
    PROVE  \A s \in SUBSET T : g[s] = h[s]
<1> DEFINE bad == {n \in Nat : \E s \in SUBSET T : Cardinality(s) = n /\ g[s] # h[s]}
<1>1. bad = {}
  <2> SUFFICES ASSUME bad # {}
               PROVE  FALSE
    OBVIOUS
  <2>1. PICK n \in bad : \A j \in bad : n <= j
    BY LeastIn
  <2>2. PICK s \in SUBSET T : Cardinality(s) = n /\ g[s] # h[s]
    BY <2>1
  <2>3. n \in Nat /\ n - 1 \notin bad
    BY <2>1
  <2>4. /\ g[s] = IF s = {} THEN 0 ELSE f[Pick(s)] + g[s \ {Pick(s)}]
        /\ h[s] = IF s = {} THEN 0 ELSE f[Pick(s)] + h[s \ {Pick(s)}]
    BY DEF Adds
  <2>5. s # {}
    BY <2>2, <2>4
  <2>6. Pick(s) \in s
    BY <2>5 DEF Pick
  <2>7. s \ {Pick(s)} \in SUBSET T /\ Cardinality(s \ {Pick(s)}) = n - 1 /\ n - 1 \in Nat
    BY <2>2, <2>6, PickStep
  <2>8. g[s \ {Pick(s)}] = h[s \ {Pick(s)}]
    BY <2>3, <2>7
  <2> QED BY <2>2, <2>4, <2>5, <2>6, <2>8
<1>2. \A s \in SUBSET T : Cardinality(s) \in Nat
  BY FS_Subset, FS_CardinalityType
<1> QED BY <1>1, <1>2

-----------------------------------------------------------------------------
\* The sum over a finite set takes away any member ...
LEMMA SumStep ==
    ASSUME NEW f, NEW T, IsFiniteSet(T), \A x \in T : f[x] \in Nat
    PROVE  /\ SumFunctionOnSet(f, T) \in Nat
           /\ \A x \in T : SumFunctionOnSet(f, T) = f[x] + SumFunctionOnSet(f, T \ {x})
<1>1. PICK g : Adds(g, f, SUBSET T) /\ SumFunctionOnSet(f, T) = g[T]
  BY SumIsSolution
<1>3. g[T] \in Nat /\ \A x \in T : g[T] = f[x] + g[T \ {x}]
  <2>1. \A s \in SUBSET T : g[s] \in Nat /\ \A x \in s : g[s] = f[x] + g[s \ {x}]
    BY <1>1, SumTakesAny
  <2> QED BY <2>1
<1>4. ASSUME NEW x \in T
      PROVE  g[T \ {x}] = SumFunctionOnSet(f, T \ {x})
  <2>1. PICK V : V = T \ {x} /\ IsFiniteSet(V) /\ V \subseteq T
    <3>1. IsFiniteSet(T \ {x})
      BY FS_Subset
    <3> QED BY <3>1
  <2>2. PICK h : Adds(h, f, SUBSET V) /\ SumFunctionOnSet(f, V) = h[V]
    BY <2>1, SumIsSolution
  <2>3. PICK r : r = [s \in SUBSET V |-> g[s]]
    OBVIOUS
  <2>4. Adds(r, f, SUBSET V)
    <3>1. \A s \in SUBSET V : /\ s \in SUBSET T /\ s \ {Pick(s)} \in SUBSET V
                              /\ g[s] = IF s = {} THEN 0 ELSE f[Pick(s)] + g[s \ {Pick(s)}]
      BY <1>1, <2>1 DEF Adds
    <3>2. \A s \in SUBSET V : r[s] = g[s] /\ r[s \ {Pick(s)}] = g[s \ {Pick(s)}]
      BY <2>3, <3>1
    <3> QED BY <2>3, <3>1, <3>2 DEF Adds
  <2>5. r[V] = h[V]
    <3>1. IsFiniteSet(V) /\ V \in SUBSET V
      BY <2>1
    <3>2. Adds(h, f, SUBSET V)
      BY <2>2
    <3>3. \A s \in SUBSET V : r[s] = h[s]
      BY <2>4, <3>1, <3>2, SumsAgree
    <3> QED BY <3>1, <3>3
  <2> QED BY <2>1, <2>2, <2>3, <2>5
<1> QED BY <1>1, <1>3, <1>4

\* ... is nothing over nothing, and depends on the numbers in the set only.
LEMMA SumOfNothing ==
    ASSUME NEW f
    PROVE  SumFunctionOnSet(f, {}) = 0
<1>1. PICK g : Adds(g, f, SUBSET {}) /\ SumFunctionOnSet(f, {}) = g[{}]
  BY SumIsSolution, FS_EmptySet
<1> QED BY <1>1 DEF Adds

\* Functions that agree on T have the same sum over it.
LEMMA SumCongruence ==
    ASSUME NEW f, NEW k, NEW T, IsFiniteSet(T), \A x \in T : f[x] = k[x]
    PROVE  SumFunctionOnSet(f, T) = SumFunctionOnSet(k, T)
<1>1. PICK g : Adds(g, f, SUBSET T) /\ SumFunctionOnSet(f, T) = g[T]
  BY SumIsSolution
<1>2. PICK h : Adds(h, k, SUBSET T) /\ SumFunctionOnSet(k, T) = h[T]
  BY SumIsSolution
<1>3. Adds(h, f, SUBSET T)
  <2>1. \A s \in SUBSET T : s # {} => f[Pick(s)] = k[Pick(s)]
    BY DEF Pick
  <2> QED BY <1>2, <2>1 DEF Adds
<1>4. \A s \in SUBSET T : g[s] = h[s]
  BY <1>1, <1>3, SumsAgree
<1> QED BY <1>1, <1>2, <1>4

-----------------------------------------------------------------------------
\* How many of the requests in f are younger than n.
Youngest(f, n) == SumFunctionOnSet(f, 0 .. n - 1)

\* They are counted age by age.
LEMMA YoungestStep ==
    ASSUME NEW W \in Nat, NEW f \in [0 .. W - 1 -> Nat]
    PROVE  /\ \A n \in Int : n <= 0 => Youngest(f, n) = 0
           /\ \A n \in 0 .. W : Youngest(f, n) \in Nat
           /\ \A n \in 0 .. W - 1 : Youngest(f, n + 1) = Youngest(f, n) + f[n]
           /\ DOMAIN f = 0 .. W - 1
<1>1. \A n \in Int : n <= 0 => Youngest(f, n) = 0
  <2>1. \A n \in Int : n <= 0 => 0 .. n - 1 = {}
    OBVIOUS
  <2> QED BY <2>1, SumOfNothing DEF Youngest
<1>2. ASSUME NEW n \in 0 .. W
      PROVE  /\ IsFiniteSet(0 .. n - 1) /\ Youngest(f, n) \in Nat
             /\ \A x \in 0 .. n - 1 : Youngest(f, n) = f[x] + SumFunctionOnSet(f, (0 .. n - 1) \ {x})
  <2>1. IsFiniteSet(0 .. n - 1)
    BY FS_Interval
  <2>2. \A x \in 0 .. n - 1 : f[x] \in Nat
    OBVIOUS
  <2> QED BY <2>1, <2>2, SumStep DEF Youngest
<1>3. ASSUME NEW n \in 0 .. W - 1
      PROVE  Youngest(f, n + 1) = Youngest(f, n) + f[n]
  <2>1. n + 1 \in 0 .. W /\ n \in 0 .. n + 1 - 1 /\ (0 .. n + 1 - 1) \ {n} = 0 .. n - 1
    OBVIOUS
  <2>2. Youngest(f, n + 1) = f[n] + SumFunctionOnSet(f, (0 .. n + 1 - 1) \ {n})
    BY <1>2, <2>1
  <2>3. Youngest(f, n + 1) = f[n] + Youngest(f, n)
    BY <2>1, <2>2 DEF Youngest
  <2>4. Youngest(f, n) \in Nat /\ f[n] \in Nat
    BY <1>2
  <2> QED BY <2>3, <2>4
<1> QED BY <1>1, <1>2, <1>3

\* A tick makes everything one older.
LEMMA YoungestAged ==
    ASSUME NEW W \in Nat, NEW f \in [0 .. W - 1 -> Nat],
           NEW h, h = [a \in 0 .. W - 1 |-> IF a = 0 THEN 0 ELSE f[a - 1]]
    PROVE  \A n \in 0 .. W - 1 : Youngest(h, n + 1) = Youngest(f, n)
<1> DEFINE bad == {n \in Nat : n <= W - 1 /\ Youngest(h, n + 1) # Youngest(f, n)}
<1>1. h \in [0 .. W - 1 -> Nat]
  <2>1. \A a \in 0 .. W - 1 : a # 0 => a - 1 \in 0 .. W - 1
    OBVIOUS
  <2> QED BY <2>1
<1>2. bad = {}
  <2> SUFFICES ASSUME bad # {}
               PROVE  FALSE
    OBVIOUS
  <2>1. PICK n \in bad : \A j \in bad : n <= j
    BY LeastIn
  <2>2. n \in Nat /\ n <= W - 1 /\ n \in 0 .. W - 1 /\ Youngest(h, n + 1) # Youngest(f, n)
    BY <2>1
  <2>6. n - 1 \notin bad
    <3>1. ~(n <= n - 1)
      BY <2>2
    <3> HIDE DEF bad
    <3> QED BY <2>1, <3>1
  <2>3. Youngest(h, n + 1) = Youngest(h, n) + h[n]
    BY <1>1, <2>2, YoungestStep
  <2>4. CASE n = 0
    <3>1. Youngest(h, 0) = 0
      <4>1. 0 .. 0 - 1 = {}
        OBVIOUS
      <4> QED BY <4>1, SumOfNothing DEF Youngest
    <3>2. Youngest(f, 0) = 0
      BY YoungestStep
    <3>3. h[0] = 0
      BY <2>2, <2>4
    <3> QED BY <2>2, <2>3, <2>4, <3>1, <3>2, <3>3
  <2>5. CASE n # 0
    <3>1. n - 1 \in 0 .. W - 1 /\ n - 1 \in Nat /\ n - 1 <= W - 1 /\ n - 1 + 1 = n
      BY <2>2, <2>5
    <3>2. Youngest(h, n) = Youngest(f, n - 1)
      BY <2>6, <3>1
    <3>3. Youngest(f, n) = Youngest(f, n - 1) + f[n - 1]
      BY <3>1, YoungestStep
    <3>4. h[n] = f[n - 1]
      BY <2>2, <2>5
    <3> QED BY <2>2, <2>3, <3>2, <3>3, <3>4
  <2> QED BY <2>4, <2>5
<1>3. \A n \in 0 .. W - 1 : n \in Nat /\ n <= W - 1
  OBVIOUS
<1> QED BY <1>2, <1>3

\* One more at age 0 is one more.
LEMMA YoungestAdmitted ==
    ASSUME NEW W \in Nat \ {0}, NEW f \in [0 .. W - 1 -> Nat],
           NEW h, h[0] = f[0] + 1, \A x \in 1 .. W - 1 : h[x] = f[x]
    PROVE  Youngest(h, W) = Youngest(f, W) + 1
<1> DEFINE D == 0 .. W - 1
           E == D \ {0}
<1>1. IsFiniteSet(D) /\ 0 \in D /\ DOMAIN f = D
  BY FS_Interval
<1>2. IsFiniteSet(E)
  BY <1>1, FS_Subset
<1>3. h[0] = f[0] + 1 /\ f[0] \in Nat /\ \A x \in E : h[x] = f[x]
  BY <1>1
<1>4. \A x \in D : h[x] \in Nat /\ f[x] \in Nat
  BY <1>1, <1>3
<1>5. SumFunctionOnSet(h, D) = h[0] + SumFunctionOnSet(h, E)
  <2>1. \A x \in D : h[x] \in Nat
    BY <1>4
  <2>2. IsFiniteSet(D) /\ 0 \in D
    BY <1>1
  <2> HIDE DEF D
  <2>3. \A x \in D : SumFunctionOnSet(h, D) = h[x] + SumFunctionOnSet(h, D \ {x})
    BY <2>1, <2>2, SumStep
  <2> QED BY <2>2, <2>3
<1>6. SumFunctionOnSet(f, D) = f[0] + SumFunctionOnSet(f, E)
  <2>1. \A x \in D : f[x] \in Nat
    BY <1>4
  <2>2. IsFiniteSet(D) /\ 0 \in D
    BY <1>1
  <2> HIDE DEF D
  <2>3. \A x \in D : SumFunctionOnSet(f, D) = f[x] + SumFunctionOnSet(f, D \ {x})
    BY <2>1, <2>2, SumStep
  <2> QED BY <2>2, <2>3
<1>7. SumFunctionOnSet(h, E) = SumFunctionOnSet(f, E)
  <2>1. \A x \in E : h[x] = f[x]
    BY <1>3
  <2> HIDE DEF E
  <2> QED BY <1>2, <2>1, SumCongruence
<1>8. SumFunctionOnSet(f, E) \in Nat
  <2>1. \A x \in E : f[x] \in Nat
    BY <1>4
  <2> HIDE DEF E
  <2> QED BY <1>2, <2>1, SumStep
<1> QED BY <1>3, <1>5, <1>6, <1>7, <1>8 DEF Youngest

\* Where nothing is as old as the last r ages, all are younger.
LEMMA YoungestBefore ==
    ASSUME NEW W \in Nat, NEW f \in [0 .. W - 1 -> Nat], NEW r \in 1 .. W,
           \A q \in 1 .. r - 1 : f[W - q] = 0, f[W - r] > 0
    PROVE  Youngest(f, W - r) < Youngest(f, W)
<1> DEFINE bad == {q \in Nat : q <= r - 1 /\ Youngest(f, W - q) # Youngest(f, W)}
<1>1. bad = {}
  <2> SUFFICES ASSUME bad # {}
               PROVE  FALSE
    OBVIOUS
  <2>1. PICK q \in bad : \A j \in bad : q <= j
    BY LeastIn
  <2>2. q \in Nat /\ q <= r - 1 /\ Youngest(f, W - q) # Youngest(f, W)
    BY <2>1
  <2>8. q - 1 \notin bad
    <3>1. ~(q <= q - 1)
      BY <2>2
    <3> HIDE DEF bad
    <3> QED BY <2>1, <3>1
  <2>3. q # 0
    BY <2>2
  <2>4. q - 1 \in Nat /\ q - 1 <= r - 1 /\ W - q \in 0 .. W - 1 /\ W - q + 1 = W - (q - 1)
    BY <2>2, <2>3
  <2>5. Youngest(f, W - (q - 1)) = Youngest(f, W)
    BY <2>8, <2>4
  <2> DEFINE m == W - q
  <2>6. Youngest(f, m + 1) = Youngest(f, m) + f[m] /\ Youngest(f, m) \in Nat
    <3>1. m \in 0 .. W - 1 /\ m \in 0 .. W
      BY <2>4
    <3> HIDE DEF m
    <3> QED BY <3>1, YoungestStep
  <2>7. f[W - q] = 0
    BY <2>2, <2>3
  <2> QED BY <2>2, <2>4, <2>5, <2>6, <2>7
<1>2. r - 1 \in Nat /\ W - r \in 0 .. W - 1 /\ W - (r - 1) = W - r + 1
  OBVIOUS
<1>3. Youngest(f, W - r + 1) = Youngest(f, W)
  <2>1. r - 1 \notin bad
    <3> HIDE DEF bad
    <3> QED BY <1>1
  <2>3. r - 1 \in Nat /\ r - 1 <= r - 1
    BY <1>2
  <2>2. Youngest(f, W - (r - 1)) = Youngest(f, W)
    BY <2>1, <2>3
  <2> QED BY <1>2, <2>2
<1>4. Youngest(f, W - r + 1) = Youngest(f, W - r) + f[W - r] /\ Youngest(f, W - r) \in Nat /\ f[W - r] \in Nat
  BY <1>2, YoungestStep
<1> QED BY <1>3, <1>4

\* Requests at least p ticks apart: no more than one for every p ages.
LEMMA YoungestSpaced ==
    ASSUME NEW W \in Nat, NEW f \in [0 .. W - 1 -> {0, 1}], NEW p \in Nat \ {0}, NEW l \in Nat,
           \A a, b \in 0 .. W - 1 : a < b /\ f[a] = 1 /\ f[b] = 1 => b - a >= p,
           W <= p * (l - 1)
    PROVE  Youngest(f, W) < l
<1> DEFINE Sparse(n) == \/ Youngest(f, n) = 0
                        \/ \E a \in 0 .. n - 1 : f[a] = 1 /\ p * Youngest(f, n) <= a + p
           bad == {n \in Nat : n <= W /\ ~Sparse(n)}
<1>1. f \in [0 .. W - 1 -> Nat]
  OBVIOUS
<1>2. bad = {}
  <2> SUFFICES ASSUME bad # {}
               PROVE  FALSE
    OBVIOUS
  <2>1. PICK n \in bad : \A j \in bad : n <= j
    BY LeastIn
  <2>2. n \in 0 .. W /\ n - 1 \notin bad /\ ~Sparse(n)
    BY <2>1
  <2>3. n # 0
    BY <1>1, <2>2, YoungestStep
  <2>4. n - 1 \in Nat /\ n - 1 <= W /\ n - 1 \in 0 .. W - 1 /\ n - 1 + 1 = n
    BY <2>2, <2>3
  <2> HIDE DEF Sparse
  <2>5. Sparse(n - 1)
    BY <2>2, <2>4
  <2> USE DEF Sparse
  <2> DEFINE m == n - 1
             y == Youngest(f, m)
  <2>6. Youngest(f, n) = y + f[m] /\ y \in Nat /\ f[m] \in {0, 1}
    <3>1. m \in 0 .. W - 1 /\ m \in 0 .. W /\ m + 1 = n
      BY <2>4
    <3>2. f[m] \in {0, 1}
      BY <3>1
    <3> HIDE DEF m
    <3>3. Youngest(f, m + 1) = Youngest(f, m) + f[m] /\ Youngest(f, m) \in Nat
      BY <1>1, <3>1, YoungestStep
    <3> QED BY <3>1, <3>2, <3>3
  <2>7. CASE f[m] = 0
    <3>1. Youngest(f, n) = y
      BY <2>6, <2>7
    <3>2. \A a \in 0 .. m - 1 : a \in 0 .. n - 1
      BY <2>4
    <3> QED BY <2>2, <2>5, <3>1, <3>2
  <2>8. CASE f[m] = 1
    <3>1. Youngest(f, n) = y + 1
      BY <2>6, <2>8
    <3>2. p * (y + 1) = p * y + p
      BY <2>6
    <3>3. p * y <= m
      <4>1. CASE y = 0
        BY <2>4, <4>1
      <4>2. CASE y # 0
        <5>1. PICK a \in 0 .. m - 1 : f[a] = 1 /\ p * y <= a + p
          BY <2>5, <4>2
        <5>2. m - a >= p
          BY <2>4, <2>8, <5>1
        <5>3. a \in Nat /\ m \in Nat /\ p * y \in Nat
          BY <2>4, <2>6
        <5> HIDE DEF m, y
        <5> QED BY <5>1, <5>2, <5>3
      <4> QED BY <4>1, <4>2
    <3>4. p * y \in Nat /\ m \in Nat
      BY <2>4, <2>6
    <3>5. p * Youngest(f, n) <= m + p
      <4> HIDE DEF m, y
      <4> QED BY <3>1, <3>2, <3>3, <3>4
    <3>6. m \in 0 .. n - 1
      BY <2>4
    <3> QED BY <2>2, <2>8, <3>5, <3>6
  <2> QED BY <2>6, <2>7, <2>8
<1> DEFINE t == Youngest(f, W)
<1>3. t \in Nat
  BY <1>1, YoungestStep
<1>4. t = 0 \/ p * t < W + p
  <2>1. Sparse(W)
    BY <1>2
  <2>2. p * t \in Nat
    BY <1>3
  <2> HIDE DEF t
  <2> QED BY <2>1, <2>2 DEF t
<1> HIDE DEF t
<1>5. SUFFICES ASSUME t >= l
               PROVE  FALSE
  BY <1>3 DEF t
<1>6. l # 0
  BY <1>3
<1>7. p * (l - 1) = p * l - p
  OBVIOUS
<1>8. p * l <= p * t
  <2>1. PICK d \in Nat : t = l + d
    BY <1>3, <1>5
  <2>2. p * (l + d) = p * l + p * d /\ p * d \in Nat
    OBVIOUS
  <2> QED BY <2>1, <2>2
<1>9. p * l \in Nat /\ p * t \in Nat
  BY <1>3
<1>10. t # 0
  BY <1>3, <1>5, <1>6
<1> QED BY <1>4, <1>7, <1>8, <1>9, <1>10

-----------------------------------------------------------------------------
\* What the limiter counts.
LEMMA TakenIsYoungest ==
    ASSUME DriverAssumption, L!TypeOK
    PROVE  L!Taken = Youngest(recent, Window)
<1>1. DOMAIN recent = 0 .. Window - 1
  BY DEF L!TypeOK
<1> QED BY <1>1 DEF L!Taken, L!SumFunction, L!SumFunctionOnSet, L!FoldFunctionOnSet, L!MapThenFoldSet,
            Youngest, SumFunctionOnSet, FoldFunctionOnSet, MapThenFoldSet

\* An admitted request is one more, and there was room for it.
LEMMA AdmitCounts ==
    ASSUME DriverAssumption, L!TypeOK, L!Admit
    PROVE  L!Taken \in Nat /\ L!Taken < Limit /\ L!Taken' = L!Taken + 1
<1>1. recent \in [0 .. Window - 1 -> Nat] /\ recent' = [recent EXCEPT ![0] = @ + 1] /\ ~L!Full
  BY DEF L!TypeOK, L!Admit
<1>2. Window \in Nat \ {0} /\ Limit \in Nat
  BY DEF DriverAssumption
<1>3. Youngest(recent', Window) = Youngest(recent, Window) + 1
  <2>1. 0 \in 0 .. Window - 1
    BY <1>2
  <2>2. recent'[0] = recent[0] + 1 /\ \A x \in 1 .. Window - 1 : recent'[x] = recent[x]
    BY <1>1, <2>1
  <2>3. PICK h : h = recent'
    OBVIOUS
  <2>4. h[0] = recent[0] + 1 /\ \A x \in 1 .. Window - 1 : h[x] = recent[x]
    BY <2>2, <2>3
  <2>5. Youngest(h, Window) = Youngest(recent, Window) + 1
    BY <1>1, <1>2, <2>4, YoungestAdmitted
  <2> QED BY <2>3, <2>5
<1>4. L!TypeOK'
  BY AdmitType
<1>5. L!Taken = Youngest(recent, Window)
  BY TakenIsYoungest
<1>6. L!Taken' = Youngest(recent', Window)
  <2>1. DOMAIN recent' = 0 .. Window - 1
    BY <1>4 DEF L!TypeOK
  <2> QED BY <2>1 DEF L!Taken, L!SumFunction, L!SumFunctionOnSet, L!FoldFunctionOnSet, L!MapThenFoldSet,
            Youngest, SumFunctionOnSet, FoldFunctionOnSet, MapThenFoldSet
<1>7. Window \in 0 .. Window
  BY <1>2
<1>8. Youngest(recent, Window) \in Nat
  BY <1>1, <1>2, <1>7, YoungestStep
<1> QED BY <1>1, <1>2, <1>3, <1>5, <1>6, <1>8 DEF L!Full

\* A tick makes the window no fuller.
LEMMA AgeCounts ==
    ASSUME DriverAssumption, L!TypeOK, L!Age
    PROVE  /\ \A n \in 0 .. Window - 1 : Youngest(recent', n + 1) = Youngest(recent, n)
           /\ \A n \in Int : n <= 0 => Youngest(recent', n) = 0
           /\ L!Taken \in Nat /\ L!Taken' <= L!Taken
<1>1. recent \in [0 .. Window - 1 -> Nat]
  BY DEF L!TypeOK
<1>2. Window \in Nat \ {0} /\ Window - 1 \in 0 .. Window - 1 /\ Window - 1 + 1 = Window
  BY DEF DriverAssumption
<1>3. L!TypeOK'
  BY AgeType
<1>4. \A n \in 0 .. Window - 1 : Youngest(recent', n + 1) = Youngest(recent, n)
  <2>1. recent' = [a \in 0 .. Window - 1 |-> IF a = 0 THEN 0 ELSE recent[a - 1]]
    BY DEF L!Age
  <2>2. Window \in Nat
    BY <1>2
  <2>3. PICK h : h = recent'
    OBVIOUS
  <2>4. h = [a \in 0 .. Window - 1 |-> IF a = 0 THEN 0 ELSE recent[a - 1]]
    BY <2>1, <2>3
  <2>5. \A n \in 0 .. Window - 1 : Youngest(h, n + 1) = Youngest(recent, n)
    BY <1>1, <2>2, <2>4, YoungestAged, ZenonT(60)
  <2> QED BY <2>3, <2>5
<1>5. \A n \in Int : n <= 0 => Youngest(recent', n) = 0
  BY <1>2, <1>3, YoungestStep DEF L!TypeOK
<1>6. L!Taken = Youngest(recent, Window)
  BY TakenIsYoungest
<1>7. L!Taken' = Youngest(recent', Window)
  <2>1. DOMAIN recent' = 0 .. Window - 1
    BY <1>3 DEF L!TypeOK
  <2> QED BY <2>1 DEF L!Taken, L!SumFunction, L!SumFunctionOnSet, L!FoldFunctionOnSet, L!MapThenFoldSet,
            Youngest, SumFunctionOnSet, FoldFunctionOnSet, MapThenFoldSet
<1>8. Youngest(recent', Window) = Youngest(recent, Window - 1)
  <2>1. Youngest(recent', Window - 1 + 1) = Youngest(recent, Window - 1)
    BY <1>2, <1>4
  <2> QED BY <1>2, <2>1
<1>9. /\ Youngest(recent, Window - 1 + 1) = Youngest(recent, Window - 1) + recent[Window - 1]
      /\ Youngest(recent, Window - 1) \in Nat /\ recent[Window - 1] \in Nat
  BY <1>1, <1>2, YoungestStep
<1> QED BY <1>2, <1>4, <1>5, <1>6, <1>7, <1>8, <1>9

-----------------------------------------------------------------------------
\* Who is refused as often as others were admitted, and once more, has slept since,
\* and nobody took the place that sleeping makes: when it wakes there is room.
RetryInv ==
    /\ L!Taken <= Limit
    /\ RetriesBounded
    /\ hinted /\ tries = 1 + others =>
         /\ pc = "sleep" => Youngest(recent, Window - wake) < Limit
         /\ pc \in {"send", "flight"} => net # "429" /\ (net \in {"none", "sent"} => L!Taken < Limit)
    /\ hinted /\ pc = "flight" /\ net = "429" =>
         /\ hint \in 1 .. Window /\ tries <= others
         /\ tries = others => Youngest(recent, Window - hint) < Limit

\* Before the first request the window holds what a limiter lets it hold.
LEMMA RetryInit ==
    ASSUME DriverAssumption, Init
    PROVE  RetryInv
<1>1. recent \in Filled /\ SumFunction(recent) <= Limit
  BY DEF Init, DriverAssumption
<1>2. L!Taken <= Limit
  <2>1. L!Taken = SumFunction(recent)
    BY DEF L!Taken, L!SumFunction, L!SumFunctionOnSet, L!FoldFunctionOnSet, L!MapThenFoldSet,
           SumFunction, SumFunctionOnSet, FoldFunctionOnSet, MapThenFoldSet
  <2> QED BY <1>1, <2>1
<1>3. tries = 0 /\ others = 0 /\ net = "none"
  BY DEF Init
<1> QED BY <1>2, <1>3 DEF RetryInv, RetriesBounded

\* Each step keeps that: only an admitted request of another holder takes a place.
LEMMA RetryStep ==
    ASSUME DriverAssumption, DriverInv, RetryInv, [Next]_vars
    PROVE  RetryInv'
<1> USE DEF RetryInv, RetriesBounded
<1>0. /\ L!TypeOK /\ tries \in Nat /\ others \in Nat /\ wake \in Nat /\ hint \in 0 .. Window
      /\ Window \in Nat \ {0} /\ Limit \in Nat \ {0} /\ recent \in [0 .. Window - 1 -> Nat]
  BY DEF DriverInv, TypeOK, DriverAssumption, L!TypeOK
<1>a. L!Taken = Youngest(recent, Window)
  BY <1>0, TakenIsYoungest
<1>b. ASSUME recent' = recent
      PROVE  L!Taken' = L!Taken /\ \A n : Youngest(recent', n) = Youngest(recent, n)
  BY <1>b DEF L!Taken, Youngest
<1>c. pc \in {"send", "sleep", "done"} => net = "none"
  BY DEF DriverInv, Balanced
<1>1. CASE Send
  <2>1. UNCHANGED <<hinted, tries, others, recent>> /\ pc = "send" /\ pc' = "flight" /\ net' = "sent"
    BY <1>1 DEF Send, setting, loop
  <2> QED BY <1>b, <1>c, <2>1
<1>2. CASE Finish
  <2>1. UNCHANGED <<hinted, tries, others, recent>> /\ pc' = "done"
    BY <1>2 DEF Finish, setting, loop
  <2> QED BY <1>b, <2>1
<1>3. CASE Accepted
  <2>1. UNCHANGED <<hinted, others, recent>> /\ tries' = 0 /\ pc' = "sleep"
    BY <1>3 DEF Accepted, NextRecord, setting
  <2> QED BY <1>0, <1>b, <2>1
<1>4. CASE Throttled
  <2>1. /\ UNCHANGED <<hinted, others, recent>> /\ tries' = tries + 1 /\ pc = "flight" /\ net = "429"
        /\ pc' = "sleep"
        /\ hint > 0 => wake' = hint + 1
    BY <1>4 DEF Throttled, setting
  <2>2. ASSUME hinted, tries = others
        PROVE  Youngest(recent, Window - wake') < Limit
    <3> DEFINE n == Window - hint - 1
    <3>0. hint \in 1 .. Window /\ Youngest(recent, Window - hint) < Limit
      BY <2>1, <2>2
    <3>1. wake' = hint + 1 /\ Youngest(recent, n + 1) < Limit /\ Window - wake' = n
      <4>1. wake' = hint + 1
        BY <2>1, <3>0
      <4>2. Window - hint = n + 1 /\ Window - (hint + 1) = n
        BY <1>0
      <4> HIDE DEF n
      <4> QED BY <3>0, <4>1, <4>2
    <3>2. CASE n \in 0 .. Window - 1
      <4>1. n \in 0 .. Window /\ recent[n] \in Nat
        BY <1>0, <3>2
      <4> HIDE DEF n
      <4>2. Youngest(recent, n + 1) = Youngest(recent, n) + recent[n] /\ Youngest(recent, n) \in Nat
        BY <1>0, <3>2, <4>1, YoungestStep
      <4> QED BY <1>0, <3>1, <4>1, <4>2
    <3>3. CASE n \notin 0 .. Window - 1
      <4>1. n \in Int /\ n <= 0
        BY <1>0, <3>1, <3>3
      <4> HIDE DEF n
      <4>2. Youngest(recent, n) = 0
        BY <1>0, <4>1, YoungestStep
      <4> QED BY <1>0, <3>1, <4>2
    <3> QED BY <3>2, <3>3
  <2>3. hinted => tries <= others
    BY <2>1
  <2>4. hinted /\ tries' = 1 + others' => Youngest(recent', Window - wake') < Limit
    BY <1>0, <1>b, <2>1, <2>2
  <2> QED BY <1>0, <1>b, <2>1, <2>3, <2>4
<1>5. CASE Unverified
  <2>1. UNCHANGED <<hinted, others, recent>> /\ tries' = 0 /\ pc' = "sleep"
    BY <1>5 DEF Unverified, NextRecord, setting
  <2> QED BY <1>0, <1>b, <2>1
<1>6. CASE Rejected
  <2>1. UNCHANGED <<hinted, tries, others, recent>> /\ pc' = "stopped"
    BY <1>6 DEF Rejected, setting, loop
  <2> QED BY <1>b, <2>1
<1>7. CASE Lost
  <2>1. UNCHANGED <<hinted, tries, others, recent>> /\ pc' = "stopped"
    BY <1>7 DEF Lost, setting, loop
  <2> QED BY <1>b, <2>1
<1>8. CASE Wake
  <2>1. UNCHANGED <<hinted, tries, others, recent, net>> /\ pc = "sleep" /\ pc' = "send" /\ wake = 0
    BY <1>8 DEF Wake, setting, loop
  <2>2. Window - wake = Window
    BY <1>0, <2>1
  <2> QED BY <1>a, <1>b, <1>c, <2>1, <2>2
<1>9. CASE Refuse
  <2>1. /\ UNCHANGED <<hinted, tries, others, recent, pc>> /\ net = "sent" /\ net' = "429" /\ L!Full
        /\ hinted => \E r \in 1 .. Window : L!RetryAfter(r) /\ hint' = r
    BY <1>9 DEF Refuse, setting, loop
  <2>2. L!Taken = Limit
    <3>1. Window \in 0 .. Window
      BY <1>0
    <3>2. L!Taken \in Nat
      BY <1>0, <1>a, <3>1, YoungestStep
    <3> QED BY <1>0, <2>1, <3>2 DEF L!Full
  <2>3. pc = "flight" /\ hinted => tries <= others
    BY <1>0, <2>1, <2>2
  <2>4. ASSUME hinted
        PROVE  hint' \in 1 .. Window /\ Youngest(recent, Window - hint') < Limit
    <3>1. PICK r \in 1 .. Window : L!RetryAfter(r) /\ hint' = r
      BY <2>1, <2>4
    <3>2. recent[Window - r] > 0 /\ \A q \in 1 .. r - 1 : recent[Window - q] = 0
      BY <3>1 DEF L!RetryAfter
    <3>3. Youngest(recent, Window - r) < Youngest(recent, Window)
      BY <1>0, <3>2, YoungestBefore
    <3> QED BY <1>a, <2>2, <3>1, <3>3
  <2>5. hinted' => hint' \in 1 .. Window /\ Youngest(recent', Window - hint') < Limit
    BY <1>b, <2>1, <2>4
  <2> QED BY <1>0, <1>b, <1>c, <2>1, <2>3, <2>5
<1>10. CASE Decide
  <2>1. UNCHANGED <<hinted, tries, others, pc>> /\ net = "sent" /\ L!Admit /\ net' \in {"201", "pda", "other"}
    BY <1>10 DEF Decide, setting, loop
  <2>2. L!Taken \in Nat /\ L!Taken < Limit /\ L!Taken' = L!Taken + 1
    BY <1>0, <2>1, AdmitCounts
  <2>3. pc \notin {"send", "sleep", "done"}
    BY <1>c, <2>1
  <2> QED BY <1>0, <2>1, <2>2, <2>3
<1>11. CASE Others
  <2>1. UNCHANGED <<hinted, tries, pc, net, hint>> /\ L!Admit /\ others' = others + 1
    BY <1>11 DEF Others, setting, loop
  <2>2. L!Taken \in Nat /\ L!Taken < Limit /\ L!Taken' = L!Taken + 1
    BY <1>0, <2>1, AdmitCounts
  <2> QED BY <1>0, <2>1, <2>2
<1>12. CASE Tick
  <2>1. /\ UNCHANGED <<hinted, tries, others, pc, net, hint>> /\ L!Age /\ pc \in {"sleep", "flight"}
        /\ pc = "sleep" => wake > 0 /\ wake' = wake - 1
    BY <1>12 DEF Tick, setting, loop
  <2>2. /\ \A n \in 0 .. Window - 1 : Youngest(recent', n + 1) = Youngest(recent, n)
        /\ \A n \in Int : n <= 0 => Youngest(recent', n) = 0
        /\ L!Taken \in Nat /\ L!Taken' <= L!Taken
    BY <1>0, <2>1, AgeCounts
  <2>t. L!Taken' \in Nat
    <3>1. L!TypeOK'
      BY <1>0, <2>1, AgeType
    <3>2. Window \in 0 .. Window /\ DOMAIN recent' = 0 .. Window - 1
      BY <1>0, <3>1 DEF L!TypeOK
    <3>3. Youngest(recent', Window) \in Nat
      BY <1>0, <3>1, <3>2, YoungestStep DEF L!TypeOK
    <3>4. L!Taken' = Youngest(recent', Window)
      BY <3>2 DEF L!Taken, L!SumFunction, L!SumFunctionOnSet, L!FoldFunctionOnSet, L!MapThenFoldSet,
            Youngest, SumFunctionOnSet, FoldFunctionOnSet, MapThenFoldSet
    <3> QED BY <3>3, <3>4
  <2>3. ASSUME hinted, tries = 1 + others, pc = "sleep"
        PROVE  Youngest(recent', Window - wake') < Limit
    <3> DEFINE n == Window - wake
    <3>1. n \in Int /\ n <= Window - 1 /\ Window - wake' = n + 1 /\ Youngest(recent, n) < Limit
      BY <1>0, <2>1, <2>3
    <3>2. CASE n >= 0
      <4>1. n \in 0 .. Window - 1
        BY <1>0, <3>1, <3>2
      <4> QED BY <2>2, <3>1, <4>1
    <3>3. CASE n < 0
      <4>1. n + 1 \in Int /\ n + 1 <= 0
        BY <3>1, <3>3
      <4> HIDE DEF n
      <4>2. Youngest(recent', n + 1) = 0
        BY <2>2, <4>1
      <4> QED BY <1>0, <3>1, <4>2
    <3> QED BY <3>1, <3>2, <3>3
  <2>4. ASSUME hinted, pc = "flight", net = "429", tries = others
        PROVE  Youngest(recent', Window - hint) < Limit
    <3> DEFINE n == Window - hint - 1
    <3>1. hint \in 1 .. Window /\ Youngest(recent, n + 1) < Limit /\ n + 1 = Window - hint
      BY <1>0, <2>4
    <3>2. CASE n >= 0
      <4>1. n \in 0 .. Window - 1 /\ n \in 0 .. Window
        BY <1>0, <3>1, <3>2
      <4>2. recent[n] \in Nat
        BY <1>0, <4>1
      <4>3. Youngest(recent', n + 1) = Youngest(recent, n)
        BY <2>2, <4>1
      <4> HIDE DEF n
      <4>4. Youngest(recent, n + 1) = Youngest(recent, n) + recent[n] /\ Youngest(recent, n) \in Nat
        BY <1>0, <4>1, YoungestStep
      <4> QED BY <1>0, <3>1, <4>2, <4>3, <4>4
    <3>3. CASE n < 0
      <4>1. n + 1 \in Int /\ n + 1 <= 0
        BY <1>0, <3>1, <3>3
      <4> HIDE DEF n
      <4>2. Youngest(recent', n + 1) = 0
        BY <2>2, <4>1
      <4> QED BY <1>0, <3>1, <4>2
    <3>4. n \in Int
      BY <1>0, <3>1
    <3> QED BY <3>2, <3>3, <3>4
  <2>5. L!Taken' <= Limit /\ (L!Taken < Limit => L!Taken' < Limit)
    BY <1>0, <2>2, <2>t
  <2> QED BY <2>1, <2>3, <2>4, <2>5
<1>13. CASE UNCHANGED vars
  <2>1. UNCHANGED <<hinted, tries, others, recent, pc, net, hint, wake>>
    BY <1>13 DEF vars, setting, loop
  <2> QED BY <1>b, <2>1
<1> QED BY <1>1, <1>2, <1>3, <1>4, <1>5, <1>6, <1>7, <1>8, <1>9, <1>10, <1>11, <1>12, <1>13
        DEF Next, Driver

\* A record is refused again only when somebody else took the place: with hints, no
\* more often than others were admitted, and once.
THEOREM DriverRetriesBounded == Spec => []RetriesBounded
<1>1. Init => RetryInv
  BY DriverAssumption, RetryInit
<1>2. DriverInv /\ RetryInv /\ [Next]_vars => RetryInv'
  BY DriverAssumption, RetryStep
<1>3. RetryInv => RetriesBounded
  BY DEF RetryInv
<1> QED BY <1>1, <1>2, <1>3, InvHolds, PTL DEF Spec

-----------------------------------------------------------------------------
\* Alone with the bearer, on a window that was empty, at a pace that leaves headroom.
Calm == pace > 0 /\ others = 0 /\ Window <= pace * (Limit - 1) /\ fresh

\* How old the latest admitted request is at least.
Gap == IF net \notin {"none", "sent"} THEN 0 ELSE IF pc = "sleep" THEN pace - wake ELSE pace

\* Then nothing is refused, and the requests in the window are a pace apart.
PaceInv ==
    Calm => /\ retried = 0 /\ net # "429"
            /\ \A a \in 0 .. Window - 1 : recent[a] \in {0, 1} /\ (recent[a] = 1 => a >= Gap)
            /\ \A a, b \in 0 .. Window - 1 : a < b /\ recent[a] = 1 /\ recent[b] = 1 => b - a >= pace

\* Requests a pace apart leave room in the window.
LEMMA PaceLeavesRoom ==
    ASSUME DriverAssumption, TypeOK, PaceInv, Calm
    PROVE  L!Taken < Limit
<1>1. /\ L!TypeOK /\ recent \in [0 .. Window - 1 -> Nat] /\ Window \in Nat /\ Limit \in Nat
      /\ pace \in Nat \ {0}
  BY DEF TypeOK, L!TypeOK, DriverAssumption, Calm
<1>2. \A a \in 0 .. Window - 1 : recent[a] \in {0, 1}
  BY DEF PaceInv
<1>3. recent \in [0 .. Window - 1 -> {0, 1}]
  BY <1>1, <1>2
<1>4. \A a, b \in 0 .. Window - 1 : a < b /\ recent[a] = 1 /\ recent[b] = 1 => b - a >= pace
  BY DEF PaceInv
<1>5. Window <= pace * (Limit - 1)
  BY DEF Calm
<1>6. Youngest(recent, Window) < Limit
  BY <1>1, <1>3, <1>4, <1>5, YoungestSpaced
<1>7. L!Taken = Youngest(recent, Window)
  BY <1>1, TakenIsYoungest
<1> QED BY <1>6, <1>7

\* The first request meets an empty window.
LEMMA PaceInit ==
    ASSUME DriverAssumption, Init
    PROVE  PaceInv
<1>1. retried = 0 /\ net = "none" /\ fresh = (recent = L!Empty)
  BY DEF Init
<1>2. Calm => \A a \in 0 .. Window - 1 : recent[a] = 0
  BY <1>1 DEF Calm, L!Empty
<1> QED BY <1>1, <1>2 DEF PaceInv

\* Each step keeps the pace: a request enters the window only when the latest is a
\* pace old, and a tick makes all of them older.
LEMMA PaceStep ==
    ASSUME DriverAssumption, DriverInv, PaceInv, [Next]_vars
    PROVE  PaceInv'
<1> SUFFICES ASSUME Calm'
             PROVE  PaceInv'
  BY DEF PaceInv
<1>0. /\ L!TypeOK /\ wake \in Nat /\ others \in Nat /\ pace \in Nat /\ Window \in Nat \ {0}
      /\ recent \in [0 .. Window - 1 -> Nat]
  <2>1. L!TypeOK /\ wake \in Nat /\ others \in 0 .. OtherCalls /\ pace \in Paces
    BY DEF DriverInv, TypeOK
  <2>2. OtherCalls \in Nat /\ Paces \subseteq Nat /\ Window \in Nat \ {0}
    BY DEF DriverAssumption
  <2> QED BY <2>1, <2>2 DEF L!TypeOK
<1>c. pc \in {"send", "sleep", "done"} => net = "none"
  BY DEF DriverInv, Balanced
<1>d. UNCHANGED setting
  BY DEF Next, Driver, Send, Finish, Accepted, NextRecord, Throttled, Unverified, Rejected, Lost, Wake,
         Refuse, Decide, Others, Tick, vars
<1>e. others' = others
  <2>1. others' = others \/ others' = others + 1
    BY DEF Next, Driver, Send, Finish, Accepted, NextRecord, Throttled, Unverified, Rejected, Lost, Wake,
           Refuse, Decide, Others, Tick, vars, loop
  <2> QED BY <1>0, <2>1 DEF Calm
<1>p. pace' = pace
  BY <1>d DEF setting
<1>f. Calm
  BY <1>d, <1>e DEF Calm, setting
<1>g. pace > 0
  BY <1>f DEF Calm
<1>h. /\ retried = 0 /\ net # "429"
      /\ \A a \in 0 .. Window - 1 : recent[a] \in {0, 1} /\ (recent[a] = 1 => a >= Gap)
      /\ \A a, b \in 0 .. Window - 1 : a < b /\ recent[a] = 1 /\ recent[b] = 1 => b - a >= pace
  BY <1>f DEF PaceInv
<1>s. ASSUME recent' = recent, retried' = retried, net' # "429", Gap' <= Gap, Gap \in Int, Gap' \in Int
      PROVE  PaceInv'
  <2>1. \A a \in 0 .. Window - 1 : recent'[a] \in {0, 1} /\ (recent'[a] = 1 => a >= Gap')
    BY <1>h, <1>s
  <2> QED BY <1>h, <1>p, <1>s, <2>1 DEF PaceInv
<1>t. Gap \in Int
  BY <1>0 DEF Gap
<1>1. CASE Send
  <2>1. UNCHANGED <<retried, recent>> /\ pc = "send" /\ pc' = "flight" /\ net' = "sent"
    BY <1>1 DEF Send, loop
  <2>2. Gap' = Gap
    BY <1>c, <1>p, <2>1 DEF Gap
  <2> QED BY <1>s, <1>t, <2>1, <2>2
<1>2. CASE Finish
  <2>1. UNCHANGED <<retried, recent, net>> /\ pc = "send" /\ pc' = "done"
    BY <1>2 DEF Finish, loop
  <2>2. Gap' = Gap
    BY <1>p, <2>1 DEF Gap
  <2> QED BY <1>h, <1>s, <1>t, <2>1, <2>2
<1>3. CASE Accepted \/ Unverified
  <2>1. UNCHANGED <<retried, recent>> /\ net \in {"201", "pda"} /\ pc' = "sleep" /\ net' = "none" /\ wake' = pace
    BY <1>3 DEF Accepted, Unverified, NextRecord
  <2>2. Gap = 0 /\ Gap' = 0
    BY <1>0, <1>p, <2>1 DEF Gap
  <2> QED BY <1>s, <2>1, <2>2
<1>4. CASE Throttled
  BY <1>4, <1>h DEF Throttled
<1>6. CASE Rejected \/ Lost
  <2>1. UNCHANGED <<retried, recent, net>> /\ pc = "flight" /\ pc' = "stopped"
    BY <1>6 DEF Rejected, Lost, loop
  <2>2. Gap' = Gap
    BY <1>p, <2>1 DEF Gap
  <2> QED BY <1>h, <1>s, <1>t, <2>1, <2>2
<1>8. CASE Wake
  <2>1. UNCHANGED <<retried, recent, net>> /\ pc = "sleep" /\ pc' = "send" /\ wake = 0
    BY <1>8 DEF Wake, loop
  <2>2. Gap' = Gap
    BY <1>0, <1>p, <2>1 DEF Gap
  <2> QED BY <1>h, <1>s, <1>t, <2>1, <2>2
<1>9. CASE Refuse
  <2>1. L!Taken < Limit
    BY <1>f, PaceLeavesRoom DEF DriverInv
  <2>2. L!Taken >= Limit
    BY <1>9 DEF Refuse, L!Full
  <2>3. L!Taken \in Int
    <3>1. Window \in 0 .. Window
      BY <1>0
    <3>2. L!Taken = Youngest(recent, Window)
      BY <1>0, TakenIsYoungest
    <3>3. Youngest(recent, Window) \in Nat
      BY <1>0, <3>1, YoungestStep
    <3> QED BY <3>2, <3>3
  <2>4. Limit \in Int
    BY DEF DriverAssumption
  <2> QED BY <2>1, <2>2, <2>3, <2>4
<1>10. CASE Decide
  <2>1. UNCHANGED <<retried, pc>> /\ net = "sent" /\ L!Admit /\ net' \in {"201", "pda", "other"}
    BY <1>10 DEF Decide, loop
  <2>2. Gap = pace /\ Gap' = 0
    BY <1>c, <2>1 DEF Gap
  <2>3. 0 \in 0 .. Window - 1 /\ recent[0] = 0
    BY <1>0, <1>g, <1>h, <2>2
  <2>4. recent' = [recent EXCEPT ![0] = 1]
    BY <1>0, <2>1, <2>3 DEF L!Admit
  <2>5. recent'[0] = 1 /\ \A a \in 0 .. Window - 1 : a # 0 => recent'[a] = recent[a]
    BY <1>0, <2>3, <2>4
  <2>6. \A a \in 0 .. Window - 1 : recent'[a] \in {0, 1} /\ a >= 0
    BY <1>h, <2>5
  <2>7. ASSUME NEW a \in 0 .. Window - 1, NEW b \in 0 .. Window - 1, a < b, recent'[a] = 1, recent'[b] = 1
        PROVE  b - a >= pace
    <3>1. b # 0 /\ recent[b] = 1
      BY <2>5, <2>7
    <3>2. CASE a = 0
      BY <1>h, <2>2, <3>1, <3>2
    <3>3. CASE a # 0
      BY <1>h, <2>5, <2>7, <3>1, <3>3
    <3> QED BY <3>2, <3>3
  <2> QED BY <1>h, <1>p, <2>1, <2>2, <2>6, <2>7 DEF PaceInv
<1>11. CASE Others
  BY <1>0, <1>e, <1>11 DEF Others
<1>12. CASE Tick
  <2>1. /\ UNCHANGED <<retried, pc, net>> /\ L!Age /\ pc \in {"sleep", "flight"}
        /\ pc = "sleep" => wake > 0 /\ wake' = wake - 1
    BY <1>12 DEF Tick, loop
  <2>2. Gap' \in Int /\ Gap' <= Gap + 1
    BY <1>0, <1>p, <2>1 DEF Gap
  <2>3. recent' = [a \in 0 .. Window - 1 |-> IF a = 0 THEN 0 ELSE recent[a - 1]]
    BY <2>1 DEF L!Age
  <2>4. \A a \in 0 .. Window - 1 : recent'[a] = IF a = 0 THEN 0 ELSE recent[a - 1]
    BY <2>3
  <2>5. ASSUME NEW a \in 0 .. Window - 1
        PROVE  /\ recent'[a] \in {0, 1}
               /\ recent'[a] = 1 => a >= Gap' /\ a - 1 \in 0 .. Window - 1 /\ recent[a - 1] = 1
    <3>1. CASE a = 0
      BY <2>4, <3>1
    <3>2. CASE a # 0
      <4>1. a - 1 \in 0 .. Window - 1 /\ recent'[a] = recent[a - 1]
        BY <2>4, <3>2
      <4>2. recent[a - 1] \in {0, 1} /\ (recent[a - 1] = 1 => a - 1 >= Gap)
        BY <1>h, <4>1
      <4> QED BY <1>t, <2>2, <4>1, <4>2
    <3> QED BY <3>1, <3>2
  <2>6. ASSUME NEW a \in 0 .. Window - 1, NEW b \in 0 .. Window - 1, a < b, recent'[a] = 1, recent'[b] = 1
        PROVE  b - a >= pace
    <3>1. /\ a - 1 \in 0 .. Window - 1 /\ recent[a - 1] = 1 /\ b - 1 \in 0 .. Window - 1 /\ recent[b - 1] = 1
          /\ a - 1 < b - 1
      BY <2>5, <2>6
    <3>2. (b - 1) - (a - 1) >= pace
      BY <1>h, <3>1
    <3> QED BY <3>2
  <2> QED BY <1>h, <1>p, <2>1, <2>5, <2>6 DEF PaceInv
<1>13. CASE UNCHANGED vars
  <2>1. UNCHANGED <<retried, recent, pc, net, wake>>
    BY <1>13 DEF vars, loop
  <2>2. Gap' = Gap
    BY <1>p, <2>1 DEF Gap
  <2> QED BY <1>h, <1>s, <1>t, <2>1, <2>2
<1> QED BY <1>1, <1>2, <1>3, <1>4, <1>6, <1>8, <1>9, <1>10, <1>11, <1>12, <1>13 DEF Next, Driver

\* The pace keeps the window from filling: alone with the bearer, from an empty
\* window, the driver leaves room in it and is never refused, whatever the limit.
THEOREM DriverHeadroomKept == Spec => []HeadroomKept
<1>1. Init => PaceInv
  BY DriverAssumption, PaceInit
<1>2. DriverInv /\ PaceInv /\ [Next]_vars => PaceInv'
  BY DriverAssumption, PaceStep
<1>3. DriverInv /\ PaceInv => HeadroomKept
  <2>1. ASSUME DriverInv, PaceInv, Calm
        PROVE  L!Taken < Limit /\ retried = 0
    BY <2>1, DriverAssumption, PaceLeavesRoom DEF DriverInv, PaceInv
  <2> QED BY <2>1 DEF HeadroomKept, Calm
<1> QED BY <1>1, <1>2, <1>3, InvHolds, PTL DEF Spec

=============================================================================
