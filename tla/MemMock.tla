------------------------------- MODULE MemMock -------------------------------
(***************************************************************************)
(* The Memory MCP mock (internal/memmock/memmock.go), an HTTP server the   *)
(* implementation under test calls while a SV-MEM test watches.  Every     *)
(* request runs in a goroutine of its own: net/http serves the Clients     *)
(* concurrently, and a handler is atomic only between two lock operations. *)
(*                                                                         *)
(* A note is its id; search_memories_by_time is asked without bounds, and  *)
(* the ranking of search_memories is a constant order of the corpus.       *)
(***************************************************************************)
EXTENDS Integers, Sequences, FiniteSets

CONSTANTS
    Clients,        \* connections with a request in progress
    Given,          \* ids a caller may name
    AutoIds,        \* the ids add_memory_note mints, in order
    Ranked,         \* the seeded corpus, best match first
    TimeoutAfter,   \* opts.TimeoutAfterNCalls
    ErrTool,        \* opts.ReturnErrorForTool
    MaxCalls        \* bound on the requests made

Corpus == {Ranked[i] : i \in 1 .. Len(Ranked)}
Minted == {AutoIds[i] : i \in 1 .. Len(AutoIds)}
Ids    == Given \cup Corpus \cup Minted

ASSUME MemMockAssumption ==
    /\ IsFiniteSet(Clients) /\ Clients # {}
    /\ "free" \notin Clients /\ TimeoutAfter \in Int /\ MaxCalls \in Nat
    /\ AutoIds \in Seq(STRING) /\ Ranked \in Seq(STRING)
    /\ MaxCalls <= Len(AutoIds) /\ Len(Ranked) > 0

VARIABLES
    pc,             \* pc[c]: where the handler serving client c is
    tool, arg,      \* its request: the tool, the note id,
    named,          \* whether the caller named the id,
    known, dead,    \* which adds and deletes had been answered when it began
    left, hits,     \* notes still to look at, notes found
    tomb,           \* the tombstone it will answer
    addedMu,        \* holder of addedMu across a loop, or "free"
    notes,          \* addedNotes
    tombs,          \* tombstones: 0 for none, else the tombstone's number
    addSeq, tombSeq,
    count,          \* callCount
    calls,          \* length of callLog
    searches,       \* length of searchCalls
    acked, gone     \* ids whose add, whose delete, has been answered

request == <<tool, arg, named, known, dead>>
answer  == <<left, hits, tomb>>
books   == <<count, calls, searches, acked, gone>>
shared  == <<addedMu, notes, tombs, addSeq, tombSeq, books>>
vars    == <<pc, request, answer, shared>>

Tools == {"search", "add", "byTime", "read", "consolidate", "delete"}
PCs   == {"idle", "hang", "addCheck", "addMint", "addInsert", "timeLock", "timeScan",
          "readTomb", "readNote", "tomb", "reply", "refuse"}

TypeOK ==
    /\ pc \in [Clients -> PCs]
    /\ tool \in [Clients -> Tools \cup {"none"}] /\ arg \in [Clients -> Ids]
    /\ named \in [Clients -> BOOLEAN]
    /\ known \in [Clients -> SUBSET Ids] /\ dead \in [Clients -> SUBSET Ids]
    /\ left \in [Clients -> SUBSET Ids] /\ hits \in [Clients -> SUBSET Ids]
    /\ tomb \in [Clients -> Nat]
    /\ addedMu \in Clients \cup {"free"}
    /\ notes \subseteq Ids /\ tombs \in [Ids -> Nat]
    /\ addSeq \in Nat /\ tombSeq \in Nat /\ count \in Nat /\ searches \in Nat
    /\ calls \in 0 .. MaxCalls
    /\ acked \subseteq Ids /\ gone \subseteq Ids

Init ==
    /\ pc = [c \in Clients |-> "idle"]
    /\ tool = [c \in Clients |-> "none"] /\ arg = [c \in Clients |-> Ranked[1]]
    /\ named = [c \in Clients |-> FALSE]
    /\ known = [c \in Clients |-> {}] /\ dead = [c \in Clients |-> {}]
    /\ left = [c \in Clients |-> {}] /\ hits = [c \in Clients |-> {}]
    /\ tomb = [c \in Clients |-> 0]
    /\ addedMu = "free" /\ notes = {} /\ tombs = [i \in Ids |-> 0]
    /\ addSeq = 0 /\ tombSeq = 0 /\ count = 0 /\ calls = 0 /\ searches = 0
    /\ acked = {} /\ gone = {}

Goto(c, at) == pc' = [pc EXCEPT ![c] = at]

-----------------------------------------------------------------------------
\* The request a handler works on, and what was answered before it began.
Load(c, t, i, n, k, d) ==
    /\ tool' = [tool EXCEPT ![c] = t] /\ arg' = [arg EXCEPT ![c] = i]
    /\ named' = [named EXCEPT ![c] = n]
    /\ known' = [known EXCEPT ![c] = k] /\ dead' = [dead EXCEPT ![c] = d]

Found(c, set) == hits' = [hits EXCEPT ![c] = set]

\* The handler returns: its locals are gone.
Return(c) ==
    /\ Goto(c, "idle")
    /\ Load(c, "none", Ranked[1], FALSE, {}, {})
    /\ left' = [left EXCEPT ![c] = {}] /\ Found(c, {})
    /\ tomb' = [tomb EXCEPT ![c] = 0]

\* A request arrives; logCall records it.
Arrive(c, t, i, n) ==
    /\ pc[c] = "idle" /\ calls < MaxCalls     \* bound: MaxCalls requests
    /\ calls' = calls + 1
    /\ Load(c, t, i, n, acked, gone)
    /\ UNCHANGED <<left, tomb, addedMu, notes, tombs, addSeq, tombSeq, count, acked, gone>>

\* Mutant: the first call past the budget is still served.
timeoutLate == TimeoutAfter >= 0 /\ count > TimeoutAfter

\* shouldTimeout: the handlers read the counter and later increment it.
shouldTimeout == TimeoutAfter >= 0 /\ count >= TimeoutAfter

Hits(limit) == {Ranked[i] : i \in {j \in 1 .. Len(Ranked) : j <= limit}}

\* search_memories ranks the seeded corpus and cuts it at the limit.
Search(c, limit) ==
    /\ Arrive(c, "search", Ranked[1], TRUE) /\ ~shouldTimeout /\ ErrTool # "search"
    /\ searches' = searches + 1
    /\ Found(c, Hits(limit))
    /\ Goto(c, "reply")

\* Any other request gets past the hang and the mock error to the first step of
\* its handler, or is malformed and refused.
Pass(c, t, i, n) ==
    /\ Arrive(c, t, i, n) /\ ~shouldTimeout /\ ErrTool # t
    /\ \/ t = "consolidate" /\ Goto(c, "reply")
       \/ t = "add" /\ n /\ Goto(c, "addCheck")
       \/ t = "add" /\ ~n /\ Goto(c, "addMint")
       \/ t = "byTime" /\ Goto(c, "timeLock")
       \/ t = "read" /\ Goto(c, "readTomb")
       \/ t = "delete" /\ Goto(c, "tomb")
       \/ t \in {"add", "byTime", "read"} /\ Goto(c, "refuse")
    /\ UNCHANGED <<hits, searches>>

\* The budget is used up: the handler hangs.  Else a mock error is due.
HangOrError(c, t) ==
    /\ Arrive(c, t, Ranked[1], TRUE)
    /\ \/ shouldTimeout /\ Goto(c, "hang")
       \/ ~shouldTimeout /\ ErrTool = t /\ Goto(c, "refuse")
    /\ UNCHANGED <<hits, searches>>

Request(c) ==
    \/ \E limit \in 1 .. Len(Ranked) : Search(c, limit)
    \/ \E t \in Tools \ {"search"}, i \in Given : Pass(c, t, i, TRUE)
    \/ Pass(c, "add", Ranked[1], FALSE)
    \/ \E t \in Tools : HangOrError(c, t)

-----------------------------------------------------------------------------
\* Mutant: the id is taken without looking whether it exists.
AddCheckSkipped(c) ==
    /\ pc[c] = "addCheck" /\ addedMu = "free"
    /\ Goto(c, "addInsert")
    /\ UNCHANGED <<request, answer, shared>>

\* add_memory_note with an id: MemoryDuplicate when it exists, under addedMu.
AddCheck(c) ==
    /\ pc[c] = "addCheck" /\ addedMu = "free"
    /\ Goto(c, IF arg[c] \in notes THEN "refuse" ELSE "addInsert")
    /\ UNCHANGED <<request, answer, shared>>

\* Without an id: the next number, atomically; nothing is looked up.
AddMint(c) ==
    /\ pc[c] = "addMint" /\ addSeq < Len(AutoIds)     \* bound: ids to mint
    /\ addSeq' = addSeq + 1
    /\ arg' = [arg EXCEPT ![c] = AutoIds[addSeq + 1]]
    /\ Goto(c, "addInsert")
    /\ UNCHANGED <<tool, named, known, dead, answer, addedMu, notes, tombs, tombSeq, books>>

\* Mutant: the note is stored after the answer has been decided, or not at all.
AddInsertLost(c) ==
    /\ pc[c] = "addInsert" /\ addedMu = "free"
    /\ notes' \in {notes, notes \cup {arg[c]}}
    /\ Goto(c, "reply")
    /\ UNCHANGED <<request, answer, addedMu, tombs, addSeq, tombSeq, books>>

\* The note is stored, under addedMu again.
AddInsert(c) ==
    /\ pc[c] = "addInsert" /\ addedMu = "free"
    /\ notes' = notes \cup {arg[c]}
    /\ Goto(c, "reply")
    /\ UNCHANGED <<request, answer, addedMu, tombs, addSeq, tombSeq, books>>

\* search_memories_by_time locks addedMu for its whole loop.
TimeLock(c) ==
    /\ pc[c] = "timeLock" /\ addedMu = "free"
    /\ addedMu' = c
    /\ left' = [left EXCEPT ![c] = notes]
    /\ Goto(c, "timeScan")
    /\ UNCHANGED <<request, hits, tomb, notes, tombs, addSeq, tombSeq, books>>

\* The next note, in the map's arbitrary order: a hit unless it has a tombstone.
TimeNote(c) ==
    /\ pc[c] = "timeScan"
    /\ \E i \in left[c] :
         /\ left' = [left EXCEPT ![c] = @ \ {i}]
         /\ Found(c, IF tombs[i] = 0 THEN hits[c] \cup {i} ELSE hits[c])
    /\ UNCHANGED <<pc, request, tomb, shared>>

\* Mutant: the lock is kept when there is nothing to answer.
TimeUnlockHits(c) ==
    /\ pc[c] = "timeScan" /\ left[c] = {}
    /\ addedMu' = IF hits[c] = {} THEN addedMu ELSE "free"
    /\ Goto(c, "reply")
    /\ UNCHANGED <<request, answer, notes, tombs, addSeq, tombSeq, books>>

TimeUnlock(c) ==
    /\ pc[c] = "timeScan" /\ left[c] = {}
    /\ addedMu' = "free"
    /\ Goto(c, "reply")
    /\ UNCHANGED <<request, answer, notes, tombs, addSeq, tombSeq, books>>

\* Mutant: the tombstone is not looked up.
ReadTombSkipped(c) ==
    /\ pc[c] = "readTomb"
    /\ Goto(c, "readNote")
    /\ UNCHANGED <<request, answer, shared>>

\* read_memory_note: a tombstoned id is not found.
ReadTomb(c) ==
    /\ pc[c] = "readTomb"
    /\ Goto(c, IF tombs[arg[c]] # 0 THEN "refuse" ELSE "readNote")
    /\ UNCHANGED <<request, answer, shared>>

\* Then the added notes, and the corpus behind them.
ReadNote(c) ==
    /\ pc[c] = "readNote" /\ addedMu = "free"
    /\ IF arg[c] \in notes \cup Corpus
       THEN Goto(c, "reply") /\ Found(c, {arg[c]})
       ELSE Goto(c, "refuse") /\ UNCHANGED hits
    /\ UNCHANGED <<request, left, tomb, shared>>

\* Mutant: the check and the insertion are not one critical section.
DeleteUnlocked(c) ==
    /\ pc[c] = "tomb"
    /\ tombSeq' = tombSeq + 1
    /\ tombs' = [tombs EXCEPT ![arg[c]] = tombSeq + 1]
    /\ tomb' = [tomb EXCEPT ![c] = tombSeq + 1]
    /\ Goto(c, "reply")
    /\ UNCHANGED <<request, left, hits, addedMu, notes, addSeq, books>>

\* delete_memory_note: the first delete of an id mints its tombstone, a repeated
\* one finds it; one critical section of tombMu.
Delete(c) ==
    /\ pc[c] = "tomb"
    /\ \/ /\ tombs[arg[c]] = 0
          /\ tombSeq' = tombSeq + 1
          /\ tombs' = [tombs EXCEPT ![arg[c]] = tombSeq + 1]
          /\ tomb' = [tomb EXCEPT ![c] = tombSeq + 1]
       \/ /\ tombs[arg[c]] # 0
          /\ tomb' = [tomb EXCEPT ![c] = tombs[arg[c]]]
          /\ UNCHANGED <<tombs, tombSeq>>
    /\ Goto(c, "reply")
    /\ UNCHANGED <<request, left, hits, addedMu, notes, addSeq, books>>

\* An error is answered, and not counted.
Refuse(c) ==
    /\ pc[c] = "refuse" /\ Return(c)
    /\ UNCHANGED shared

\* A result is answered, and counted.
Reply(c) ==
    /\ pc[c] = "reply" /\ Return(c)
    /\ count' = count + 1
    /\ acked' = IF tool[c] = "add" THEN acked \cup {arg[c]} ELSE acked
    /\ gone' = IF tool[c] = "delete" THEN gone \cup {arg[c]} ELSE gone
    /\ UNCHANGED <<addedMu, notes, tombs, addSeq, tombSeq, calls, searches>>

\* hang: until the client goes away.
Disconnect(c) ==
    /\ pc[c] = "hang" /\ Return(c)
    /\ UNCHANGED shared

Handle(c) ==
    \/ AddCheck(c) \/ AddMint(c) \/ AddInsert(c)
    \/ TimeLock(c) \/ TimeNote(c) \/ TimeUnlock(c)
    \/ ReadTomb(c) \/ ReadNote(c) \/ Delete(c) \/ Refuse(c) \/ Reply(c)

Next == \E c \in Clients : Request(c) \/ Handle(c) \/ Disconnect(c)

\* The Go scheduler runs every handler, and a sync.Mutex is handed to a waiter
\* that has starved: strong fairness.
Spec == Init /\ [][Next]_vars /\ \A c \in Clients : SF_vars(Handle(c))

-----------------------------------------------------------------------------
Answers(c, t) == pc[c] = "reply" /\ tool[c] = t

\* At most one call per further client slips past the budget: the check of the
\* counter and its increment are apart, but every handler that passed the check
\* increments at most once.
CountBound == TimeoutAfter >= 0 => count <= TimeoutAfter + Cardinality(Clients) - 1

\* Repeated deletes are idempotent, concurrent ones included: every answer to a
\* delete of an id carries that id's one tombstone, shared with no other id.
DeleteIdempotent ==
    /\ \A c \in Clients : Answers(c, "delete") => tomb[c] = tombs[arg[c]]
    /\ \A i, j \in Ids : tombs[i] # 0 /\ tombs[i] = tombs[j] => i = j

\* A note whose delete was answered before a read or a time search began is not
\* in its answer, whatever adds and deletes run at the same time.
DeletedStaysHidden ==
    \A c \in Clients : Answers(c, "read") \/ Answers(c, "byTime") =>
        hits[c] \cap dead[c] = {}

\* A note whose add was answered before a read or a time search began is found,
\* unless somebody deleted its id.
AckedIsFound ==
    \A c \in Clients :
        /\ pc[c] = "readNote" /\ arg[c] \in known[c] => arg[c] \in notes
        /\ Answers(c, "byTime") =>
             \A i \in known[c] : i \in hits[c] \/ tombs[i] # 0

\* An id whose add was answered before another named add of it began is refused
\* to that one: the duplicate check is missed only by overlapping requests.
LaterAddRefused ==
    \A c \in Clients : Answers(c, "add") /\ named[c] => arg[c] \notin known[c]

\* Every request is answered, unless it was made to hang: addedMu is always
\* released.
Answered == \A c \in Clients : pc[c] # "idle" ~> pc[c] \in {"idle", "hang"}

-----------------------------------------------------------------------------
\* memmock.go:375-376: a note id that already exists is MemoryDuplicate, so no
\* id is acknowledged twice.
AddedOnce ==
    [][\A c \in Clients : Answers(c, "add") /\ pc'[c] = "idle" => arg[c] \notin acked]_vars

\* memmock.go:572-573: tombstoned ids do not reappear in search_memories.
SearchHidesDeleted ==
    \A c \in Clients : Answers(c, "search") => hits[c] \cap dead[c] = {}
=============================================================================
