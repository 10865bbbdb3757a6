----------------------------- MODULE AuditDriver -----------------------------
(***************************************************************************)
(* driveAuditRecordsWith (cmd/soa-validate/main.go): before the tests, post *)
(* N permission decisions so that the audit chain has rows to judge.       *)
(*                                                                         *)
(* The driver is sequential; its peers are not.  The implementation        *)
(* rate-limits the bearer, the reply may be lost after the row was         *)
(* written, the client gives up after ten seconds while the server works   *)
(* on, and other clients may share the bearer.  The records of one tool    *)
(* are identical calls (one session, one args_digest), and an              *)
(* implementation may answer a repeated call 201 from its replay cache,    *)
(* without a row of its own (handlers.go:1947-1948, 1984-1985).  A tick is *)
(* the default pace of 2.5 s.                                              *)
(***************************************************************************)
EXTENDS Integers, Sequences, FiniteSets, Functions

CONSTANTS
    N,               \* records to write
    Tools,           \* SOA_DRIVE_AUDIT_TOOLS, cycled through
    PromptTools,     \* tools the deployment answers 503 pda-verify-unavailable
    Paces,           \* paces SOA_DRIVE_PACE_MS may set, in ticks
    Filled,          \* what may already be in the bearer's window
    OtherCalls,      \* bound on the requests of other holders of the bearer
    DefaultRetry,    \* ticks slept for an absent Retry-After
    HintsAlways,     \* whether every 429 may carry a usable Retry-After
    Replays,         \* whether the implementation may replay identical calls
    Limit, Window

ASSUME DriverAssumption ==
    /\ N \in Nat /\ Len(Tools) > 0 /\ PromptTools \subseteq Range(Tools)
    /\ Paces \subseteq Nat /\ {OtherCalls, DefaultRetry} \subseteq Nat
    /\ HintsAlways \subseteq BOOLEAN /\ Replays \subseteq BOOLEAN /\ {Limit, Window} \subseteq Nat \ {0}
    /\ Filled \subseteq [0 .. Window - 1 -> Nat] /\ \A f \in Filled : SumFunction(f) <= Limit

VARIABLES
    pc,              \* "send", "flight", "sleep", "done" or "stopped"
    pace, hinted, fresh,      \* the pace, HintsAlways, an empty window at the start
    replays,         \* identical calls may be answered from the replay cache
    i,               \* the loop counter
    written, skipped, retried,      \* driveStats
    tries,           \* 429s of the current record
    wake,            \* ticks left to sleep
    net,             \* the request in flight: "none", "sent" or its answer
    hint,            \* the Retry-After of a 429, 0 when absent
    rows,            \* the records the server has written
    others,          \* requests other holders got admitted
    recent             \* the bearer's window

loop == <<i, written, skipped, retried, tries>>
setting == <<pace, hinted, fresh, replays>>
vars == <<pc, setting, loop, wake, net, hint, rows, others, recent>>

L == INSTANCE Limiter

Answers == {"201", "429", "pda", "other"}

TypeOK ==
    /\ pc \in {"send", "flight", "sleep", "done", "stopped"}
    /\ pace \in Paces /\ {hinted, fresh, replays} \subseteq BOOLEAN /\ i \in 0 .. N
    /\ {written, skipped, retried, tries, wake} \subseteq Nat
    /\ net \in {"none", "sent"} \cup Answers
    /\ hint \in 0 .. Window
    /\ rows \in Seq(0 .. N - 1) /\ others \in 0 .. OtherCalls
    /\ L!TypeOK

Init ==
    /\ pc = "send" /\ pace \in Paces /\ hinted \in HintsAlways /\ replays \in Replays
    /\ i = 0 /\ written = 0 /\ skipped = 0 /\ retried = 0 /\ tries = 0
    /\ wake = 0 /\ net = "none" /\ hint = 0 /\ rows = <<>> /\ others = 0
    /\ recent \in Filled /\ fresh = (recent = L!Empty)

Tool(k) == Tools[(k % Len(Tools)) + 1]

\* Record j is the same call as k: the session is the driver's own and args_digest is
\* the same for all, so only the tool tells two of its calls apart.
Identical(j, k) == Tool(j) = Tool(k)

-----------------------------------------------------------------------------
\* The driver.

Send ==
    /\ pc = "send" /\ i < N
    /\ pc' = "flight" /\ net' = "sent"
    /\ UNCHANGED <<setting, loop, wake, hint, rows, others, recent>>

Finish ==
    /\ pc = "send" /\ i = N /\ pc' = "done"
    /\ UNCHANGED <<setting, loop, wake, net, hint, rows, others, recent>>

\* goto nextRecord, after the pace.
NextRecord ==
    /\ i' = i + 1 /\ tries' = 0
    /\ wake' = pace /\ pc' = "sleep" /\ net' = "none"
    /\ UNCHANGED <<setting, hint, rows, others, recent>>

Accepted ==
    /\ pc = "flight" /\ net = "201"
    /\ written' = written + 1
    /\ NextRecord /\ UNCHANGED <<skipped, retried>>

\* Mutant: a refused record is counted as written and retried.
ThrottledCounted ==
    /\ pc = "flight" /\ net = "429"
    /\ written' = written + 1 /\ tries' = tries + 1
    /\ wake' = DefaultRetry /\ pc' = "sleep" /\ net' = "none"
    /\ UNCHANGED <<setting, i, retried, skipped, hint, rows, others, recent>>

\* Mutant: a refused record is skipped like one without PDA verification.
ThrottledSkips ==
    /\ pc = "flight" /\ net = "429"
    /\ skipped' = skipped + 1
    /\ NextRecord /\ UNCHANGED <<written, retried>>

\* Mutant: Retry-After is not read.
ThrottledDefault ==
    /\ pc = "flight" /\ net = "429"
    /\ retried' = retried + 1 /\ tries' = tries + 1
    /\ wake' = DefaultRetry
    /\ pc' = "sleep" /\ net' = "none"
    /\ UNCHANGED <<setting, i, written, skipped, hint, rows, others, recent>>

\* Sleep Retry-After and one more second (a tick here), then the same record again.
Throttled ==
    /\ pc = "flight" /\ net = "429"
    /\ retried' = retried + 1 /\ tries' = tries + 1
    /\ wake' = (IF hint > 0 THEN hint ELSE DefaultRetry) + 1
    /\ pc' = "sleep" /\ net' = "none"
    /\ UNCHANGED <<setting, i, written, skipped, hint, rows, others, recent>>

\* Mutant: no pace after a skipped record.
UnverifiedUnpaced ==
    /\ pc = "flight" /\ net = "pda"
    /\ skipped' = skipped + 1
    /\ i' = i + 1 /\ tries' = 0
    /\ pc' = "send" /\ net' = "none"
    /\ UNCHANGED <<setting, wake, written, retried, hint, rows, others, recent>>

\* 503 whose body says pda-verify-unavailable.
Unverified ==
    /\ pc = "flight" /\ net = "pda"
    /\ skipped' = skipped + 1
    /\ NextRecord /\ UNCHANGED <<written, retried>>

\* Any other status, or a 503 whose body could not be read.
Rejected ==
    /\ pc = "flight" /\ net \in {"other", "pda"}
    /\ pc' = "stopped"
    /\ UNCHANGED <<setting, loop, wake, net, hint, rows, others, recent>>

\* Mutant: a request without an answer is sent again.
LostRetried ==
    /\ pc = "flight" /\ pc' = "send" /\ net' = "none"
    /\ UNCHANGED <<setting, loop, wake, hint, rows, others, recent>>

\* Mutant: the client has no timeout, only a broken answer ends the wait.
LostAnswered ==
    /\ pc = "flight" /\ net # "sent" /\ pc' = "stopped"
    /\ UNCHANGED <<setting, loop, wake, net, hint, rows, others, recent>>

\* hc.Do fails: the connection breaks, or ten seconds pass.  The server may
\* still be at work on the request, or have answered it.
Lost ==
    /\ pc = "flight" /\ pc' = "stopped"
    /\ UNCHANGED <<setting, loop, wake, net, hint, rows, others, recent>>

Wake ==
    /\ pc = "sleep" /\ wake = 0 /\ pc' = "send"
    /\ UNCHANGED <<setting, loop, wake, net, hint, rows, others, recent>>

Driver == Send \/ Finish \/ Accepted \/ Throttled \/ Unverified \/ Rejected \/ Lost \/ Wake

-----------------------------------------------------------------------------
\* The implementation, and the others.

Refuse ==
    /\ net = "sent" /\ L!Full
    /\ net' = "429"
    /\ \/ \E r \in 1 .. Window : L!RetryAfter(r) /\ hint' = r
       \/ ~hinted /\ hint' = 0
    /\ UNCHANGED <<pc, setting, loop, wake, rows, others, recent>>

\* A 201 stands for a new row, or for the row of an earlier identical call while the
\* cache remembers it.
Decide ==
    /\ net = "sent" /\ L!Admit
    /\ IF Tool(i) \in PromptTools
       THEN net' = "pda" /\ UNCHANGED rows
       ELSE \/ net' = "201" /\ rows' = Append(rows, i)
            \/ replays /\ (\E j \in Range(rows) : Identical(j, i)) /\ net' = "201" /\ UNCHANGED rows
            \/ net' = "other" /\ UNCHANGED rows
    /\ UNCHANGED <<pc, setting, loop, wake, hint, others>>

Others ==
    /\ others < OtherCalls /\ L!Admit /\ others' = others + 1
    /\ UNCHANGED <<pc, setting, loop, wake, net, hint, rows>>

Tick ==
    /\ pc \in {"sleep", "flight"} /\ (pc = "sleep" => wake > 0)
    /\ wake' = IF wake > 0 THEN wake - 1 ELSE 0
    /\ L!Age
    /\ UNCHANGED <<pc, setting, loop, net, hint, rows, others>>

Next == Driver \/ Refuse \/ Decide \/ Others \/ Tick

\* The driver's goroutine runs, its client's timeout bounds every request, and
\* the clock advances while it sleeps.
Spec == Init /\ [][Next]_vars /\ WF_vars(Driver) /\ WF_vars(Tick /\ pc = "sleep")

-----------------------------------------------------------------------------
\* No record is written twice, whatever is retried, lost or late.
RowsOnce == IsInjective(rows)

\* The records counted as written: those dealt with whose tool needs no PDA.
Reported == {k \in 0 .. i - 1 : Tool(k) \notin PromptTools}

\* The log answers for record k: by its own row or, where identical calls are
\* replayed, by that of an earlier one.
Recorded(k) == \E j \in Range(rows) : j = k \/ (replays /\ j < k /\ Identical(j, k))

\* The log answers for every record the driver counts as written, and holds no other
\* row than theirs and one more: the one whose answer was lost or is on its way.
StatsHonest ==
    /\ written = Cardinality(Reported)
    /\ \A k \in Reported : Recorded(k)
    /\ \A k \in Range(rows) \ Reported : k = i /\ net = "201" /\ pc \in {"flight", "stopped"}

\* A driver that ends without an error has dealt with every record, and the log
\* answers for all but those whose tool needs a verified PDA.
AllAccounted ==
    pc = "done" => /\ written + skipped = N
                   /\ \A k \in 0 .. N - 1 : Recorded(k) <=> Tool(k) \notin PromptTools

\* The pace keeps the window from filling (main.go:86-89): started on an empty
\* window and alone with the bearer, the driver leaves room in it, and is never
\* refused.
HeadroomKept ==
    pace > 0 /\ others = 0 /\ Window <= pace * (Limit - 1) /\ fresh =>
        L!Taken < Limit /\ retried = 0

\* Sleeping Retry-After and one more is long enough: a record is refused again
\* only when somebody else took the place.
RetriesBounded == hinted => tries <= 1 + others

\* The driver ends, however full the window was.
DriverEnds == <>(pc \in {"done", "stopped"})

-----------------------------------------------------------------------------
\* A claim of the source that does not hold where identical calls are replayed.

\* What the driver's comment says of its calls (main.go:77, "Each accepted call writes
\* one hash-chained audit row"): the log has a row for each record reported as written.
RowPerAcceptedCall == Len(rows) >= written
=============================================================================
