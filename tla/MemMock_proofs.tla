--------------------------- MODULE MemMock_proofs ---------------------------
(***************************************************************************)
(* The Memory MCP mock for every number of clients, set of ids, corpus,    *)
(* call budget and number of calls.  The inductive invariant has a part    *)
(* for each promise: how far the counter can get past its budget, which    *)
(* tombstone an id has, what a deleted note can still appear in, and what  *)
(* an acknowledged note is found by.                                       *)
(***************************************************************************)
EXTENDS MemMock, FiniteSetTheorems, TLAPS

Busy == {c \in Clients : pc[c] \notin {"idle", "hang"}}

\* The control points belong to the tool that goes through them.
ToolByPc ==
    \A c \in Clients :
        /\ pc[c] \in {"addCheck", "addMint", "addInsert"} => tool[c] = "add"
        /\ pc[c] = "addCheck" => named[c]
        /\ pc[c] = "addMint" => ~named[c]
        /\ pc[c] \in {"timeLock", "timeScan"} => tool[c] = "byTime"
        /\ pc[c] \in {"readTomb", "readNote"} => tool[c] = "read"
        /\ pc[c] = "tomb" => tool[c] = "delete"
        /\ pc[c] \in {"idle", "addCheck", "addMint", "addInsert", "timeLock", "readTomb",
                      "readNote", "tomb"} => hits[c] = {}

\* Once the budget is used up nobody enters, so what is still to be counted is
\* bounded by the handlers that are busy.
Budget ==
    TimeoutAfter >= 0 =>
        \/ count < TimeoutAfter
        \/ count + Cardinality(Busy) <= TimeoutAfter + Cardinality(Clients) - 1

\* Tombstones are numbered in the order they were minted.
Tombs ==
    /\ \A i \in Ids : tombs[i] <= tombSeq
    /\ \A i, j \in Ids : tombs[i] # 0 /\ tombs[i] = tombs[j] => i = j
    /\ \A c \in Clients : Answers(c, "delete") =>
         tomb[c] = tombs[arg[c]] /\ tombs[arg[c]] # 0

\* What was dead when a request began has a tombstone now, and is kept out.
Hidden ==
    /\ \A i \in gone : tombs[i] # 0
    /\ \A c \in Clients : dead[c] \subseteq gone
    /\ \A c \in Clients : pc[c] = "readNote" => arg[c] \notin dead[c]
    /\ \A c \in Clients : tool[c] \in {"read", "byTime"} => hits[c] \cap dead[c] = {}

\* What was acknowledged when a request began is stored now, and is found.
Kept ==
    /\ acked \subseteq notes
    /\ \A c \in Clients : known[c] \subseteq acked
    /\ \A c \in Clients : Answers(c, "add") => arg[c] \in notes
    /\ \A c \in Clients : tool[c] = "byTime" /\ pc[c] \in {"timeScan", "reply"} =>
         \A i \in known[c] : \/ pc[c] = "timeScan" /\ i \in left[c]
                             \/ i \in hits[c]
                             \/ tombs[i] # 0
    /\ \A c \in Clients : tool[c] = "add" /\ named[c] /\ pc[c] \in {"addInsert", "reply"} =>
         arg[c] \notin known[c]

MemInv == TypeOK /\ ToolByPc /\ Budget /\ Tombs /\ Hidden /\ Kept

-----------------------------------------------------------------------------
\* The ids the requests name exist.
LEMMA IdsExist ==
    /\ Ranked[1] \in Ids
    /\ Given \subseteq Ids
    /\ \A n \in Nat : n < Len(AutoIds) => AutoIds[n + 1] \in Ids
    /\ \A limit : Hits(limit) \subseteq Ids
<1>1. Ranked[1] \in Corpus
      BY MemMockAssumption DEF MemMockAssumption, Corpus
<1>2. \A n \in Nat : n < Len(AutoIds) => AutoIds[n + 1] \in Minted
      BY MemMockAssumption DEF MemMockAssumption, Minted
<1>3. \A limit : Hits(limit) \subseteq Corpus
      BY DEF Hits, Corpus
<1> QED BY <1>1, <1>2, <1>3 DEF Ids

\* There is at least one client.
LEMMA ClientsCount == Cardinality(Clients) \in Nat \ {0}
BY MemMockAssumption, FS_CardinalityType, FS_EmptySet DEF MemMockAssumption

\* The initial state satisfies every part of the invariant.
LEMMA InitInv == Init => MemInv
<1> SUFFICES ASSUME Init PROVE MemInv
    OBVIOUS
<1> USE IdsExist, MemMockAssumption DEF Init, MemMockAssumption
<1>1. TypeOK
      BY DEF TypeOK, PCs, Tools
<1>2. ToolByPc
      BY DEF ToolByPc
<1>3. Budget
  <2>1. Busy = {}
        BY DEF Busy
  <2>2. Cardinality(Busy) = 0
        BY <2>1, FS_EmptySet
  <2> QED BY <2>2, ClientsCount DEF Budget
<1>4. Tombs
      BY DEF Tombs, Answers
<1>5. Hidden
      BY DEF Hidden
<1>6. Kept
      BY DEF Kept, Answers
<1> QED
    BY <1>1, <1>2, <1>3, <1>4, <1>5, <1>6 DEF MemInv

-----------------------------------------------------------------------------
\* Every step keeps the types.
LEMMA TypeStep ==
    ASSUME TypeOK, [Next]_vars
    PROVE  TypeOK'
<1> USE IdsExist, MemMockAssumption DEF TypeOK, PCs, Goto, Load, Found, Return
<1>1. CASE UNCHANGED vars
      BY <1>1 DEF vars, request, answer, shared, books
<1>2. ASSUME NEW c \in Clients, Request(c)
      PROVE  TypeOK'
  <2> USE DEF Arrive, MemMockAssumption
  <2>1. ASSUME NEW limit, Search(c, limit)
        PROVE  TypeOK'
        BY <2>1 DEF Search, Tools
  <2>2. ASSUME NEW t \in Tools, NEW i \in Ids, NEW n \in BOOLEAN, Pass(c, t, i, n)
        PROVE  TypeOK'
    <3>1. pc' \in [Clients -> PCs]
          BY <2>2 DEF Pass
    <3>2. UNCHANGED <<hits, searches>> /\ Arrive(c, t, i, n)
          BY <2>2 DEF Pass
    <3> QED BY <3>1, <3>2
  <2>3. ASSUME NEW t \in Tools, HangOrError(c, t)
        PROVE  TypeOK'
    <3>1. pc' \in [Clients -> PCs]
          BY <2>3 DEF HangOrError
    <3>2. UNCHANGED <<hits, searches>> /\ Arrive(c, t, Ranked[1], TRUE)
          BY <2>3 DEF HangOrError
    <3> QED BY <3>1, <3>2
  <2>4. "add" \in Tools
        BY DEF Tools
  <2> QED BY <1>2, <2>1, <2>2, <2>3, <2>4 DEF Request
<1>3. ASSUME NEW c \in Clients, Handle(c)
      PROVE  TypeOK'
  <2> USE DEF request, answer, shared, books
  <2>1. CASE AddCheck(c)
        BY <2>1 DEF AddCheck
  <2>2. CASE AddMint(c)
        BY <2>2 DEF AddMint
  <2>3. CASE AddInsert(c)
        BY <2>3 DEF AddInsert
  <2>4. CASE TimeLock(c)
        BY <2>4 DEF TimeLock
  <2>5. CASE TimeNote(c)
        BY <2>5 DEF TimeNote
  <2>6. CASE TimeUnlock(c)
        BY <2>6 DEF TimeUnlock
  <2>7. CASE ReadTomb(c)
        BY <2>7 DEF ReadTomb
  <2>8. CASE ReadNote(c)
    <3>1. pc' \in [Clients -> PCs]
          BY <2>8 DEF ReadNote
    <3>3. hits' \in [Clients -> SUBSET Ids]
      <4>1. {arg[c]} \in SUBSET Ids
            OBVIOUS
      <4> QED BY <2>8, <4>1 DEF ReadNote
    <3>2. UNCHANGED <<request, left, tomb, shared>>
          BY <2>8 DEF ReadNote
    <3> QED BY <3>1, <3>2, <3>3
  <2>9. CASE Delete(c)
    <3>1. pc' \in [Clients -> PCs]
          BY <2>9 DEF Delete
    <3>2. arg[c] \in Ids
          OBVIOUS
    <3>3. tombSeq' \in Nat /\ tombs' \in [Ids -> Nat] /\ tomb' \in [Clients -> Nat]
      <4>1. CASE tombs[arg[c]] = 0
        <5>1. tombSeq + 1 \in Nat
              OBVIOUS
        <5>2. /\ tombSeq' = tombSeq + 1
              /\ tombs' = [tombs EXCEPT ![arg[c]] = tombSeq + 1]
              /\ tomb' = [tomb EXCEPT ![c] = tombSeq + 1]
              BY <2>9, <4>1 DEF Delete
        <5> HIDE DEF Goto, Load, Found, Return, PCs
        <5>3. tombSeq' \in Nat
              BY <5>1, <5>2
        <5>4. tombs' \in [Ids -> Nat]
              BY <3>2, <5>1, <5>2
        <5>5. tomb' \in [Clients -> Nat]
              BY <5>1, <5>2
        <5> QED BY <5>3, <5>4, <5>5
      <4>2. CASE tombs[arg[c]] # 0
            BY <2>9, <3>2, <4>2 DEF Delete
      <4> QED BY <4>1, <4>2
    <3>4. UNCHANGED <<request, left, hits, addedMu, notes, addSeq, books>>
          BY <2>9 DEF Delete
    <3> QED BY <3>1, <3>3, <3>4
  <2>10. CASE Refuse(c)
        BY <2>10 DEF Refuse
  <2>11. CASE Reply(c)
        BY <2>11 DEF Reply
  <2> QED BY <1>3, <2>1, <2>2, <2>3, <2>4, <2>5, <2>6, <2>7, <2>8, <2>9, <2>10, <2>11 DEF Handle
<1>4. ASSUME NEW c \in Clients, Disconnect(c)
      PROVE  TypeOK'
      BY <1>4 DEF Disconnect, shared, books
<1> QED BY <1>1, <1>2, <1>3, <1>4 DEF Next

-----------------------------------------------------------------------------
\* A step that counts nothing and makes nobody busy keeps the budget.
LEMMA BudgetKept ==
    ASSUME Budget, TypeOK, Busy' \subseteq Busy, count' = count
    PROVE  Budget'
<1>1. IsFiniteSet(Busy) /\ Cardinality(Busy) \in Nat
      BY MemMockAssumption, FS_Subset, FS_CardinalityType DEF MemMockAssumption, Busy
<1>2. Cardinality(Busy') \in Nat /\ Cardinality(Busy') <= Cardinality(Busy)
      BY <1>1, FS_Subset, FS_CardinalityType
<1> QED BY <1>1, <1>2, ClientsCount, MemMockAssumption DEF Budget, MemMockAssumption, TypeOK

\* Nobody starts to be busy but in the handler that was entered.
LEMMA BusyStays ==
    ASSUME TypeOK, NEW c \in Clients, NEW at, Goto(c, at),
           pc[c] \notin {"idle", "hang"} \/ at \in {"idle", "hang"}
    PROVE  Busy' \subseteq Busy
BY DEF TypeOK, Goto, Busy

\* Every step keeps the budget: only an answer counts, and it frees its handler.
LEMMA BudgetStep ==
    ASSUME Budget, TypeOK, [Next]_vars
    PROVE  Budget'
<1> USE DEF request, answer, shared, books
<1>1. CASE UNCHANGED vars
  <2>1. Busy' = Busy /\ count' = count
        BY <1>1 DEF vars, Busy
  <2> QED BY <2>1, BudgetKept
<1>2. ASSUME NEW c \in Clients, Request(c)
      PROVE  Budget'
  <2>1. count' = count
        BY <1>2 DEF Request, Search, Pass, HangOrError, Arrive
  <2>2. CASE shouldTimeout
    <3>1. Goto(c, "hang")
          BY <1>2, <2>2 DEF Request, Search, Pass, HangOrError
    <3> QED BY <2>1, <3>1, BusyStays, BudgetKept
  <2>3. CASE ~shouldTimeout
        BY <2>1, <2>3, MemMockAssumption DEF shouldTimeout, Budget, TypeOK, MemMockAssumption
  <2> QED BY <2>2, <2>3
<1>3. ASSUME NEW c \in Clients, Reply(c)
      PROVE  Budget'
  <2>1. c \in Busy /\ Busy' = Busy \ {c} /\ count' = count + 1
        BY <1>3 DEF Reply, Return, Goto, TypeOK, Busy
  <2>2. IsFiniteSet(Busy) /\ Cardinality(Busy) \in Nat /\ Cardinality(Busy) <= Cardinality(Clients)
        BY MemMockAssumption, FS_Subset, FS_CardinalityType DEF MemMockAssumption, Busy
  <2>3. Cardinality(Busy') = Cardinality(Busy) - 1
        BY <2>1, <2>2, FS_RemoveElement
  <2> QED BY <2>1, <2>2, <2>3, ClientsCount, MemMockAssumption DEF Budget, TypeOK, MemMockAssumption
<1>4. ASSUME NEW c \in Clients, Refuse(c) \/ Disconnect(c)
      PROVE  Budget'
  <2>1. Goto(c, "idle") /\ count' = count
        BY <1>4 DEF Refuse, Disconnect, Return
  <2> QED BY <2>1, BusyStays, BudgetKept
<1>5. ASSUME NEW c \in Clients, Handle(c), ~Reply(c), ~Refuse(c)
      PROVE  Budget'
  <2>1. count' = count
        BY <1>5 DEF Handle, AddCheck, AddMint, AddInsert, TimeLock, TimeNote, TimeUnlock,
                    ReadTomb, ReadNote, Delete
  <2>2. pc[c] \notin {"idle", "hang"} /\ (UNCHANGED pc \/ \E at : Goto(c, at))
        BY <1>5 DEF Handle, AddCheck, AddMint, AddInsert, TimeLock, TimeNote, TimeUnlock,
                    ReadTomb, ReadNote, Delete
  <2>3. CASE UNCHANGED pc
    <3>1. Busy' = Busy
          BY <2>3 DEF Busy
    <3> QED BY <2>1, <3>1, BudgetKept
  <2>4. ASSUME NEW at, Goto(c, at)
        PROVE  Budget'
        BY <2>1, <2>2, <2>4, BusyStays, BudgetKept
  <2> QED BY <2>2, <2>3, <2>4
<1> QED BY <1>1, <1>2, <1>3, <1>4, <1>5 DEF Next, Handle

-----------------------------------------------------------------------------
\* Every step keeps the control points with their tool.
LEMMA ToolStep ==
    ASSUME TypeOK, ToolByPc, [Next]_vars
    PROVE  ToolByPc'
<1> USE IdsExist DEF TypeOK, ToolByPc, Goto, Load, Found, Return, request, answer, shared, books
<1>1. CASE UNCHANGED vars
      BY <1>1 DEF vars
<1>2. ASSUME NEW c \in Clients, Request(c)
      PROVE  ToolByPc'
  <2> USE DEF Arrive
  <2>1. ASSUME NEW limit, Search(c, limit)
        PROVE  ToolByPc'
        BY <2>1 DEF Search
  <2>2. ASSUME NEW t, NEW i \in Ids, NEW n \in BOOLEAN, Pass(c, t, i, n)
        PROVE  ToolByPc'
        BY <2>2 DEF Pass
  <2>3. ASSUME NEW t, HangOrError(c, t)
        PROVE  ToolByPc'
        BY <2>3 DEF HangOrError
  <2> QED BY <1>2, <2>1, <2>2, <2>3 DEF Request
<1>3. ASSUME NEW c \in Clients, Handle(c)
      PROVE  ToolByPc'
  <2>1. CASE AddCheck(c)
        BY <2>1 DEF AddCheck
  <2>2. CASE AddMint(c)
        BY <2>2 DEF AddMint
  <2>3. CASE AddInsert(c)
        BY <2>3 DEF AddInsert
  <2>4. CASE TimeLock(c)
        BY <2>4 DEF TimeLock
  <2>5. CASE TimeNote(c)
        BY <2>5 DEF TimeNote
  <2>6. CASE TimeUnlock(c)
        BY <2>6 DEF TimeUnlock
  <2>7. CASE ReadTomb(c)
        BY <2>7 DEF ReadTomb
  <2>8. CASE ReadNote(c)
        BY <2>8 DEF ReadNote
  <2>9. CASE Delete(c)
        BY <2>9 DEF Delete
  <2>10. CASE Refuse(c)
        BY <2>10 DEF Refuse
  <2>11. CASE Reply(c)
        BY <2>11 DEF Reply
  <2> QED BY <1>3, <2>1, <2>2, <2>3, <2>4, <2>5, <2>6, <2>7, <2>8, <2>9, <2>10, <2>11 DEF Handle
<1>4. ASSUME NEW c \in Clients, Disconnect(c)
      PROVE  ToolByPc'
      BY <1>4 DEF Disconnect
<1> QED BY <1>1, <1>2, <1>3, <1>4 DEF Next

-----------------------------------------------------------------------------
\* Every step keeps the tombstones apart: only the first delete of an id mints one.
LEMMA TombsStep ==
    ASSUME TypeOK, ToolByPc, Tombs, [Next]_vars
    PROVE  Tombs'
<1> USE IdsExist DEF TypeOK, ToolByPc, Tombs, Answers, Goto, Load, Found, Return, request, answer, shared, books
<1>1. CASE UNCHANGED vars
      BY <1>1 DEF vars
<1>2. ASSUME NEW c \in Clients, Request(c)
      PROVE  Tombs'
  <2> USE DEF Arrive
  <2>1. ASSUME NEW limit, Search(c, limit)
        PROVE  Tombs'
        BY <2>1 DEF Search
  <2>2. ASSUME NEW t, NEW i \in Ids, NEW n \in BOOLEAN, Pass(c, t, i, n)
        PROVE  Tombs'
        BY <2>2 DEF Pass
  <2>3. ASSUME NEW t, HangOrError(c, t)
        PROVE  Tombs'
        BY <2>3 DEF HangOrError
  <2> QED BY <1>2, <2>1, <2>2, <2>3 DEF Request
<1>3. ASSUME NEW c \in Clients, Handle(c)
      PROVE  Tombs'
  <2>1. CASE AddCheck(c)
        BY <2>1 DEF AddCheck
  <2>2. CASE AddMint(c)
        BY <2>2 DEF AddMint
  <2>3. CASE AddInsert(c)
        BY <2>3 DEF AddInsert
  <2>4. CASE TimeLock(c)
        BY <2>4 DEF TimeLock
  <2>5. CASE TimeNote(c)
        BY <2>5 DEF TimeNote
  <2>6. CASE TimeUnlock(c)
        BY <2>6 DEF TimeUnlock
  <2>7. CASE ReadTomb(c)
        BY <2>7 DEF ReadTomb
  <2>8. CASE ReadNote(c)
        BY <2>8 DEF ReadNote
  <2>9. CASE Delete(c)
    <3>1. CASE tombs[arg[c]] = 0
      <4>1. /\ tombSeq' = tombSeq + 1 /\ UNCHANGED arg
            /\ tombs' = [tombs EXCEPT ![arg[c]] = tombSeq + 1]
            /\ tomb' = [tomb EXCEPT ![c] = tombSeq + 1]
            BY <2>9, <3>1 DEF Delete
      <4>2. arg[c] \in Ids /\ pc' = [pc EXCEPT ![c] = "reply"] /\ UNCHANGED tool
            BY <2>9 DEF Delete
      <4>3. \A i \in Ids : tombs'[i] <= tombSeq'
            BY <4>1, <4>2
      <4>4. \A i, j \in Ids : tombs'[i] # 0 /\ tombs'[i] = tombs'[j] => i = j
            BY <4>1, <4>2
      <4>5. \A d \in Clients : pc'[d] = "reply" /\ tool'[d] = "delete" =>
              tomb'[d] = tombs'[arg'[d]] /\ tombs'[arg'[d]] # 0
            BY <4>1, <4>2, <3>1
      <4> QED BY <4>3, <4>4, <4>5
    <3>2. CASE tombs[arg[c]] # 0
          BY <2>9, <3>2 DEF Delete
    <3> QED BY <3>1, <3>2
  <2>10. CASE Refuse(c)
        BY <2>10 DEF Refuse
  <2>11. CASE Reply(c)
        BY <2>11 DEF Reply
  <2> QED BY <1>3, <2>1, <2>2, <2>3, <2>4, <2>5, <2>6, <2>7, <2>8, <2>9, <2>10, <2>11 DEF Handle
<1>4. ASSUME NEW c \in Clients, Disconnect(c)
      PROVE  Tombs'
      BY <1>4 DEF Disconnect
<1> QED BY <1>1, <1>2, <1>3, <1>4 DEF Next

-----------------------------------------------------------------------------
\* Every step keeps the dead notes out of reads and time searches.
LEMMA HiddenStep ==
    ASSUME TypeOK, ToolByPc, Tombs, Hidden, [Next]_vars
    PROVE  Hidden'
<1> USE IdsExist DEF TypeOK, ToolByPc, Tombs, Hidden, Answers, Goto, Load, Found, Return, request, answer, shared, books
<1>1. CASE UNCHANGED vars
      BY <1>1 DEF vars
<1>2. ASSUME NEW c \in Clients, Request(c)
      PROVE  Hidden'
  <2> USE DEF Arrive
  <2>1. ASSUME NEW limit, Search(c, limit)
        PROVE  Hidden'
        BY <2>1 DEF Search
  <2>2. ASSUME NEW t, NEW i \in Ids, NEW n \in BOOLEAN, Pass(c, t, i, n)
        PROVE  Hidden'
        BY <2>2 DEF Pass
  <2>3. ASSUME NEW t, HangOrError(c, t)
        PROVE  Hidden'
        BY <2>3 DEF HangOrError
  <2> QED BY <1>2, <2>1, <2>2, <2>3 DEF Request
<1>3. ASSUME NEW c \in Clients, Handle(c)
      PROVE  Hidden'
  <2>1. CASE AddCheck(c)
        BY <2>1 DEF AddCheck
  <2>2. CASE AddMint(c)
        BY <2>2 DEF AddMint
  <2>3. CASE AddInsert(c)
        BY <2>3 DEF AddInsert
  <2>4. CASE TimeLock(c)
        BY <2>4 DEF TimeLock
  <2>5. CASE TimeNote(c)
        BY <2>5 DEF TimeNote
  <2>6. CASE TimeUnlock(c)
        BY <2>6 DEF TimeUnlock
  <2>7. CASE ReadTomb(c)
        BY <2>7 DEF ReadTomb
  <2>8. CASE ReadNote(c)
        BY <2>8 DEF ReadNote
  <2>9. CASE Delete(c)
        BY <2>9 DEF Delete
  <2>10. CASE Refuse(c)
        BY <2>10 DEF Refuse
  <2>11. CASE Reply(c)
        BY <2>11 DEF Reply
  <2> QED BY <1>3, <2>1, <2>2, <2>3, <2>4, <2>5, <2>6, <2>7, <2>8, <2>9, <2>10, <2>11 DEF Handle
<1>4. ASSUME NEW c \in Clients, Disconnect(c)
      PROVE  Hidden'
      BY <1>4 DEF Disconnect
<1> QED BY <1>1, <1>2, <1>3, <1>4 DEF Next

-----------------------------------------------------------------------------
\* Every step keeps the acknowledged notes stored and within a time search's reach.
LEMMA KeptStep ==
    ASSUME TypeOK, ToolByPc, Kept, [Next]_vars
    PROVE  Kept'
<1> USE IdsExist DEF TypeOK, ToolByPc, Kept, Answers, Goto, Load, Found, Return, request, answer, shared, books
<1>1. CASE UNCHANGED vars
      BY <1>1 DEF vars
<1>2. ASSUME NEW c \in Clients, Request(c)
      PROVE  Kept'
  <2> USE DEF Arrive
  <2>1. ASSUME NEW limit, Search(c, limit)
        PROVE  Kept'
        BY <2>1 DEF Search
  <2>2. ASSUME NEW t, NEW i \in Ids, NEW n \in BOOLEAN, Pass(c, t, i, n)
        PROVE  Kept'
        BY <2>2 DEF Pass
  <2>3. ASSUME NEW t, HangOrError(c, t)
        PROVE  Kept'
        BY <2>3 DEF HangOrError
  <2> QED BY <1>2, <2>1, <2>2, <2>3 DEF Request
<1>3. ASSUME NEW c \in Clients, Handle(c)
      PROVE  Kept'
  <2>1. CASE AddCheck(c)
        BY <2>1 DEF AddCheck
  <2>2. CASE AddMint(c)
        BY <2>2 DEF AddMint
  <2>3. CASE AddInsert(c)
        BY <2>3 DEF AddInsert
  <2>4. CASE TimeLock(c)
        BY <2>4 DEF TimeLock
  <2>5. CASE TimeNote(c)
        BY <2>5 DEF TimeNote
  <2>6. CASE TimeUnlock(c)
        BY <2>6 DEF TimeUnlock
  <2>7. CASE ReadTomb(c)
        BY <2>7 DEF ReadTomb
  <2>8. CASE ReadNote(c)
        BY <2>8 DEF ReadNote
  <2>9. CASE Delete(c)
        BY <2>9 DEF Delete
  <2>10. CASE Refuse(c)
        BY <2>10 DEF Refuse
  <2>11. CASE Reply(c)
        BY <2>11 DEF Reply
  <2> QED BY <1>3, <2>1, <2>2, <2>3, <2>4, <2>5, <2>6, <2>7, <2>8, <2>9, <2>10, <2>11 DEF Handle
<1>4. ASSUME NEW c \in Clients, Disconnect(c)
      PROVE  Kept'
      BY <1>4 DEF Disconnect
<1> QED BY <1>1, <1>2, <1>3, <1>4 DEF Next

-----------------------------------------------------------------------------
\* The invariant is inductive.
LEMMA NextInv == MemInv /\ [Next]_vars => MemInv'
<1> SUFFICES ASSUME MemInv, [Next]_vars PROVE MemInv'
    OBVIOUS
<1>1. TypeOK'
      BY TypeStep DEF MemInv
<1>2. ToolByPc'
      BY ToolStep DEF MemInv
<1>3. Budget'
      BY BudgetStep DEF MemInv
<1>4. Tombs'
      BY TombsStep DEF MemInv
<1>5. Hidden'
      BY HiddenStep DEF MemInv
<1>6. Kept'
      BY KeptStep DEF MemInv
<1> QED BY <1>1, <1>2, <1>3, <1>4, <1>5, <1>6 DEF MemInv

\* It holds in every reachable state.
LEMMA InvHolds == Spec => []MemInv
<1>1. Init => MemInv
      BY InitInv
<1>2. MemInv /\ [Next]_vars => MemInv'
      BY NextInv
<1> QED BY <1>1, <1>2, PTL DEF Spec

-----------------------------------------------------------------------------
\* Every variable of the mock keeps its type, for any bound on the calls.
THEOREM MemTypeOK == Spec => []TypeOK
<1>1. MemInv => TypeOK
      BY DEF MemInv
<1> QED BY <1>1, InvHolds, PTL

\* However many clients call at once, at most one call per further client is
\* counted beyond opts.TimeoutAfterNCalls.
THEOREM MemCountBound == Spec => []CountBound
<1>1. MemInv => CountBound
  <2> SUFFICES ASSUME MemInv, TimeoutAfter >= 0
               PROVE  count <= TimeoutAfter + Cardinality(Clients) - 1
      BY DEF CountBound
  <2>1. Cardinality(Busy) \in Nat
        BY MemMockAssumption, FS_Subset, FS_CardinalityType DEF MemMockAssumption, Busy
  <2> QED BY <2>1, ClientsCount, MemMockAssumption DEF MemMockAssumption, MemInv, Budget, TypeOK
<1> QED BY <1>1, InvHolds, PTL

\* Concurrent and repeated deletes of an id all answer its one tombstone.
THEOREM MemDeleteIdempotent == Spec => []DeleteIdempotent
<1>1. MemInv => DeleteIdempotent
      BY DEF MemInv, Tombs, DeleteIdempotent
<1> QED BY <1>1, InvHolds, PTL

\* A note deleted before a read or a time search began is not in its answer.
THEOREM MemDeletedStaysHidden == Spec => []DeletedStaysHidden
<1>1. MemInv => DeletedStaysHidden
      BY DEF MemInv, Hidden, DeletedStaysHidden, Answers
<1> QED BY <1>1, InvHolds, PTL

\* A note acknowledged before a read or a time search began is found by it,
\* unless its id has been deleted.
THEOREM MemAckedIsFound == Spec => []AckedIsFound
<1>1. MemInv => AckedIsFound
  <2> SUFFICES ASSUME MemInv, NEW c \in Clients
               PROVE  /\ pc[c] = "readNote" /\ arg[c] \in known[c] => arg[c] \in notes
                      /\ Answers(c, "byTime") =>
                           \A i \in known[c] : i \in hits[c] \/ tombs[i] # 0
      BY DEF AckedIsFound
  <2>1. pc[c] = "readNote" /\ arg[c] \in known[c] => arg[c] \in notes
        BY DEF MemInv, Kept
  <2>2. Answers(c, "byTime") => \A i \in known[c] : i \in hits[c] \/ tombs[i] # 0
        BY DEF MemInv, Kept, Answers
  <2> QED BY <2>1, <2>2
<1> QED BY <1>1, InvHolds, PTL

\* An add that names an id acknowledged before it began is never acknowledged.
THEOREM MemLaterAddRefused == Spec => []LaterAddRefused
<1>1. MemInv => LaterAddRefused
      BY DEF MemInv, Kept, LaterAddRefused, Answers
<1> QED BY <1>1, InvHolds, PTL
=============================================================================
