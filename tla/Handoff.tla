------------------------------ MODULE Handoff ------------------------------
(***************************************************************************)
(* The SV-A2A handlers (internal/testrunner/handlers_a2a.go): JSON-RPC     *)
(* conversations about handing a task to the Runner.                       *)
(*                                                                         *)
(* A handler is a script of calls, each with the answers it accepts, what  *)
(* a transport error costs, and a row of evidence.  The Runner is external *)
(* and has at most one flaw: it breaks one of the rules the handlers are   *)
(* there to test.  Time is in seconds; an answer takes up to Latency.      *)
(***************************************************************************)
EXTENDS Integers, Sequences

CONSTANTS
    Latency,        \* bound on the time a request is on its way
    HookN,          \* SOA_A2A_PROBE_EXECUTE_HOOK_N_S, 0 when unset
    ProbeSleep,     \* SOA_A2A_PROBE_DEADLINE_SLEEP_S
    Deadline,       \* SOA_A2A_TASK_DEADLINE_S of the Runner
    Shared,         \* one Runner serves every test with both settings
    MaxLost,        \* bound: so many requests get no answer
    CardEtag        \* what the Runner computes as the etag of the caller's card

Tests == {"03", "04", "10", "11", "12", "13", "14", "15", "16", "17"}
Tasks == {"t1", "t2", "t3"}

\* The rules a Runner can break, with the tests documented to notice.
Covered(t) ==
    CASE t = "03" -> {"describe"}
      [] t = "04" -> {"refuse"}
      [] t = "10" -> {"alg"}
      [] t = "11" -> {"key"}
      [] t = "12" -> {"replay", "key"}
      [] t = "13" -> {"drift"}
      [] t = "14" -> {"digest", "retention", "transfer"}
      [] t = "15" -> {"unknown", "stuck", "regress", "unlisted", "bare"}
                     \cup IF HookN > 0 THEN {"hook"} ELSE {}
      [] t = "16" -> {"deadline"}
      [] t = "17" -> {"refuse", "capsNone", "capsSome", "capsBare"}

\* Rules the handlers' comments name and their calls do not reach: a signature
\* that is not looked at, a workflow digest that is not recomputed.
Unnoticed(t) ==
    CASE t = "11" -> {"signature"} [] t = "14" -> {"workflow"} [] OTHER -> {}

VARIABLES
    test, flaw, advertises,     \* the call, and the Runner it meets
    step,                       \* the position in the script
    rows,                       \* the evidence, as pairs <<assertion, status>>
    net,                        \* "idle", "sent" or "served"
    reply, lost,                \* the answer; answers that never came
    clock, waited, wake,        \* time, of the request, end of a sleep
    tasks, seen                 \* the Runner's registry and replay cache

vars == <<test, flaw, advertises, step, rows, net, reply, lost, clock, waited,
          wake, tasks, seen>>
call == <<test, flaw, advertises>>

-----------------------------------------------------------------------------
\* Scripts.  `skip` says how many further entries a transport error gives up.

Rest == 100
Ask(do, task, row, want) ==
    [do |-> do, task |-> task, row |-> row, want |-> want, read |-> TRUE, skip |-> 0]
\* A call whose answer is not looked at.
Setup(do, task, row, skip) ==
    [do |-> do, task |-> task, row |-> row, want |-> {}, read |-> FALSE, skip |-> skip]
Sleep(n) ==
    [do |-> "sleep", task |-> "t1", row |-> "-", want |-> {n}, read |-> FALSE, skip |-> 0]

Statuses == {"accepted", "accepted-bare", "executing", "completed", "timed-out", "unlisted"}
Results  == {"described", "result"}

\* result.card an object, result.jws a compact detached signature.
SVA2A03 == <<Ask("describe", "t1", "verdict", {"described"})>>
SVA2A04 == <<Ask("offer", "t1", "verdict", {"accept"})>>
SVA2A10 == <<Ask("hs256", "t1", "verdict", {"bad-alg"})>>
SVA2A11 == <<Ask("signed", "t1", "verdict", Results)>>
\* A first call that fails is an error, not a fail, and ends the test.
SVA2A12 == <<Ask("signed", "t1", "first", Results),
             Ask("signed", "t1", "verdict", {"jti-replay"})>>
SVA2A13 == <<Ask("stale", "t1", "verdict", {"card-version-drift"})>>

SVA2A14 ==
    <<Setup("offer", "t1", "accept", 1),
      Ask("transfer", "t1", "accept", {"transferred"}),
      Setup("offer", "t2", "tamper", 1),
      Ask("tampered", "t2", "tamper", {"digest-mismatch"}),
      Ask("transfer", "t3", "never-seen", {"workflow-state-incompatible"})>>

\* Mutant: the second wait of the hook is gone.
ExecuteHookHasty ==
    IF HookN = 0 THEN <<>> ELSE
    <<Setup("offer", "t3", "hook", 4), Setup("transfer", "t3", "hook", 3),
      Sleep(HookN + 1), Ask("status", "t3", "executing", {"executing"}),
      Ask("status", "t3", "completed", {"completed"})>>

\* (g): wait N + 1 seconds, expect "executing"; N more, expect "completed".
ExecuteHook ==
    IF HookN = 0 THEN <<>> ELSE
    <<Setup("offer", "t3", "hook", 5), Setup("transfer", "t3", "hook", 4),
      Sleep(HookN + 1), Ask("status", "t3", "executing", {"executing"}),
      Sleep(HookN), Ask("status", "t3", "completed", {"completed"})>>

SVA2A15 ==
    <<Ask("status", "t1", "unknown", {"incompatible"}),
      Setup("offer", "t2", "setup", Rest), Setup("transfer", "t2", "setup", Rest),
      Ask("status", "t2", "after-transfer", {"accepted", "accepted-bare"}),
      Setup("return", "t2", "return", Rest),
      Ask("status", "t2", "after-return", {"completed"})>>
    \o ExecuteHook
    \o <<Ask("status", "t2", "terminal", {"completed"})>>

SVA2A16 ==
    <<Setup("offer", "t1", "verdict", Rest), Setup("transfer", "t1", "verdict", Rest),
      Sleep(ProbeSleep), Ask("status", "t1", "verdict", {"timed-out"})>>

\* The card is read first; whether it lists capabilities decides the rest.
SVA2A17 ==
    <<Setup("card", "t1", "card", Rest), Ask("offer", "t1", "empty", {"accept"}),
      Ask("offer-other", "t2", "unmatched", {IF advertises THEN "mismatch" ELSE "no-caps"})>>
    \o IF advertises THEN <<Ask("offer-own", "t3", "subset", {"accept"})>> ELSE <<>>

Script ==
    CASE test = "03" -> SVA2A03 [] test = "04" -> SVA2A04 [] test = "10" -> SVA2A10
      [] test = "11" -> SVA2A11 [] test = "12" -> SVA2A12 [] test = "13" -> SVA2A13
      [] test = "14" -> SVA2A14 [] test = "15" -> SVA2A15 [] test = "16" -> SVA2A16
      [] test = "17" -> SVA2A17

Ended == step > Len(Script)
Entry == Script[step]

-----------------------------------------------------------------------------
\* The Runner.

Unseen == [st |-> "unseen", at |-> 0]
Age(k) == clock - tasks[k].at
\* Its settings: each timed test wants a Runner started for it.
Hook  == IF test = "15" \/ Shared THEN HookN ELSE 0
Limit == IF test = "16" \/ Shared THEN Deadline ELSE 0

\* Where a transferred task has got to: executing after N seconds, completed
\* after 2N, timed out at the deadline.
Progress(k) ==
    IF Limit > 0 /\ Age(k) >= Limit /\ flaw # "deadline" /\ ~(Hook > 0 /\ 2 * Hook <= Limit)
    THEN "timed-out"
    ELSE IF Hook > 0 /\ Age(k) >= 2 * Hook /\ flaw # "hook" THEN "completed"
    ELSE IF Hook > 0 /\ Age(k) >= Hook /\ flaw # "hook" THEN "executing"
    ELSE IF flaw = "bare" THEN "accepted-bare" ELSE "accepted"

StatusAnswer(k) ==
    IF tasks[k].st \in {"unseen", "offered"} THEN (IF flaw = "unknown" THEN "accepted" ELSE "incompatible")
    ELSE IF flaw = "unlisted" THEN "unlisted"
    ELSE CASE tasks[k].st = "returned"  -> "completed"
           [] tasks[k].st = "regressed" -> "executing"
           [] OTHER -> Progress(k)

\* Algorithm, key and signature, replay, etag: in this order.
JwtAnswer(do) ==
    IF do = "hs256" THEN (IF flaw = "alg" THEN "described" ELSE "bad-alg")
    ELSE IF flaw = "key" THEN "key-unknown"
    ELSE IF seen /\ flaw # "replay" THEN "jti-replay"
    ELSE IF (do = "stale" \/ CardEtag # "placeholder") /\ flaw # "drift" THEN "card-version-drift"
    ELSE "described"

OfferAnswer(do) ==
    IF flaw = "refuse" THEN "no-caps"
    ELSE IF do # "offer-other" THEN "accept"
    ELSE IF ~advertises THEN (IF flaw = "capsNone" THEN "accept" ELSE "no-caps")
    ELSE CASE flaw = "capsSome" -> "accept"
           [] flaw = "capsBare" -> "mismatch-bare"
           [] OTHER -> "mismatch"

TransferAnswer(do, k) ==
    IF tasks[k].st = "unseen" /\ flaw # "retention" THEN "workflow-state-incompatible"
    ELSE IF flaw = "transfer" \/ (do = "tampered" /\ flaw # "digest") THEN "digest-mismatch"
    ELSE "transferred"

Answer(do, k) ==
    CASE do \in {"hs256", "signed", "stale"} -> JwtAnswer(do)
      [] do = "describe" -> IF flaw = "describe" THEN "result" ELSE "described"
      [] do = "card" -> "card"
      [] do \in {"offer", "offer-other", "offer-own"} -> OfferAnswer(do)
      [] do \in {"transfer", "tampered"} -> TransferAnswer(do, k)
      [] do = "status" -> StatusAnswer(k)
      [] do = "return" -> "returned"

Registered(do, k) ==
    CASE do = "offer" /\ OfferAnswer(do) = "accept" -> [tasks EXCEPT ![k].st = "offered"]
      [] do \in {"transfer", "tampered"} /\ TransferAnswer(do, k) = "transferred" ->
           [tasks EXCEPT ![k] = [st |-> "live", at |-> clock]]
      [] do = "return" /\ tasks[k].st = "live" /\ flaw # "stuck"
           /\ Progress(k) \in {"accepted", "accepted-bare", "executing"} ->
           [tasks EXCEPT ![k].st = "returned"]
      [] do = "status" /\ tasks[k].st = "returned" /\ flaw = "regress" ->
           [tasks EXCEPT ![k].st = "regressed"]
      [] OTHER -> tasks

\* It answers; an accepted token is remembered, nothing else is.
Serve ==
    /\ net = "sent" /\ net' = "served"
    /\ reply' = Answer(Entry.do, Entry.task)
    /\ tasks' = Registered(Entry.do, Entry.task)
    /\ seen' = (seen \/ (Entry.do = "signed" /\ reply' = "described"))
    /\ UNCHANGED <<call, step, rows, lost, clock, waited, wake>>

-----------------------------------------------------------------------------
\* The handler.

Init ==
    /\ test \in Tests /\ flaw \in {"none"} \cup Covered(test) \cup Unnoticed(test)
    /\ advertises \in IF test = "17" THEN BOOLEAN ELSE {FALSE}
    /\ flaw = "capsNone" => ~advertises
    /\ flaw \in {"capsSome", "capsBare"} => advertises
    /\ step = 1 /\ rows = {} /\ net = "idle" /\ reply = "none" /\ lost = 0
    /\ clock = 0 /\ waited = 0 /\ wake = 0
    /\ tasks = [k \in Tasks |-> Unseen] /\ seen = FALSE

TypeOK ==
    /\ test \in Tests /\ flaw \in {"none"} \cup UNION {Covered(t) \cup Unnoticed(t) : t \in Tests}
    /\ {advertises, seen} \subseteq BOOLEAN
    /\ step \in Nat \ {0} /\ net \in {"idle", "sent", "served"} /\ lost \in 0 .. MaxLost
    /\ \A r \in rows : r[2] \in {"pass", "fail", "error"}
    /\ clock \in Nat /\ waited \in 0 .. Latency /\ wake \in Nat
    /\ \A k \in Tasks : tasks[k].st \in {"unseen", "offered", "live", "returned", "regressed"}
                        /\ tasks[k].at \in 0 .. clock

Passed(row, ok) == <<row, IF ok THEN "pass" ELSE "fail">>

\* The rows an answer gives: three for the status after the transfer.
Judged(e, a) ==
    IF ~e.read THEN {}
    ELSE CASE e.row = "first" -> IF a \in e.want THEN {} ELSE {<<"verdict", "error">>}
           [] e.row = "after-transfer" /\ a \in Statuses ->
                {Passed("after-transfer", a \in e.want), Passed("enum", a # "unlisted"),
                 Passed("last-event", a # "accepted-bare")}
           [] OTHER -> {Passed(e.row, a \in e.want)}

Send ==
    /\ ~Ended /\ Entry.do # "sleep" /\ net = "idle"
    /\ net' = "sent"
    /\ UNCHANGED <<call, step, rows, reply, lost, clock, waited, wake, tasks, seen>>

Take ==
    /\ net = "served" /\ net' = "idle" /\ reply' = "none" /\ waited' = 0
    /\ rows' = rows \cup Judged(Entry, reply)
    /\ step' = IF Entry.row = "first" /\ reply \notin Entry.want THEN step + Rest ELSE step + 1
    /\ UNCHANGED <<call, lost, clock, wake, tasks, seen>>

\* Mutant: a transport error is no evidence and stops nothing.
LoseQuiet ==
    /\ net \in {"sent", "served"} /\ lost < MaxLost
    /\ net' = "idle" /\ lost' = lost + 1 /\ reply' = "none" /\ waited' = 0
    /\ rows' = rows /\ step' = step + 1
    /\ UNCHANGED <<call, clock, wake, tasks, seen>>

\* Refused, broken off or timed out, before or after the Runner acted on it.
Lose ==
    /\ net \in {"sent", "served"} /\ lost < MaxLost
    /\ net' = "idle" /\ lost' = lost + 1 /\ reply' = "none" /\ waited' = 0
    /\ rows' = rows \cup {<<IF Entry.row = "first" THEN "verdict" ELSE Entry.row, "error">>}
    /\ step' = step + 1 + IF Entry.row = "first" THEN Rest ELSE Entry.skip
    /\ UNCHANGED <<call, clock, wake, tasks, seen>>

Asleep == ~Ended /\ Entry.do = "sleep"

Doze ==
    /\ Asleep /\ wake = 0
    /\ wake' = clock + CHOOSE n \in Entry.want : TRUE
    /\ UNCHANGED <<call, step, rows, net, reply, lost, clock, waited, tasks, seen>>

Wake ==
    /\ Asleep /\ wake # 0 /\ clock >= wake
    /\ wake' = 0 /\ step' = step + 1
    /\ UNCHANGED <<call, rows, net, reply, lost, clock, waited, tasks, seen>>

\* Time passes while a request is on its way or the handler sleeps.
Tick ==
    /\ \/ net # "idle" /\ waited < Latency /\ waited' = waited + 1
       \/ Asleep /\ clock < wake /\ UNCHANGED waited
    /\ clock' = clock + 1
    /\ UNCHANGED <<call, step, rows, net, reply, lost, wake, tasks, seen>>

Handler == Send \/ Take \/ Lose \/ Doze \/ Wake
Next    == Handler \/ Serve \/ Tick

Spec == Init /\ [][Next]_vars /\ WF_vars(Handler) /\ WF_vars(Serve) /\ WF_vars(Tick)

-----------------------------------------------------------------------------
AllPass == \A r \in rows : r[2] = "pass"

\* A Runner that keeps every rule is not failed: by no delay within Latency,
\* and by no lost request, which costs an error at most.
ConformingNeverFails ==
    flaw = "none" => \A r \in rows : r[2] = "pass" \/ (lost > 0 /\ r[2] = "error")

\* A handler that ends with nothing but passes met a Runner without the flaws
\* it notices, whatever was lost on the way.
PassIsEarned == Ended /\ AllPass => rows # {} /\ flaw \notin Covered(test)

-----------------------------------------------------------------------------
\* A claim of the source that does not hold: handlers_a2a.go:271 says that
\* SV-A2A-11 asserts a verified signature, :472 that SV-A2A-14 covers the
\* recomputation of each digest.
EveryFlawNoticed == Ended /\ AllPass => flaw = "none"
=============================================================================
