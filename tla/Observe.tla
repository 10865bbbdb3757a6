------------------------------- MODULE Observe -------------------------------
(***************************************************************************)
(* The handlers that read what a Runner lets be observed: session and      *)
(* memory state, budget, tools, events and spans (internal/testrunner,     *)
(* handlers_m2.go, _m3.go, _m3_wk2.go, _m5_live.go).                       *)
(*                                                                         *)
(* A behaviour is a round of tests, in an order nobody fixed, on the one   *)
(* session sharedBootstrap keeps for them; what one test does to that      *)
(* session the next one finds.  SV-SESS tests mint their own session and   *)
(* are a round each.  The Runner is external and has at most one flaw.     *)
(***************************************************************************)
EXTENDS Integers, Sequences

CONSTANTS
    Drives,         \* driveCount, 10 in the code
    MaxRound,       \* bound: tests in a round
    MaxMoves,       \* bound: phase transitions
    MaxBusy,        \* bound: mints the Runner refuses
    MaxLost         \* bound: so many requests get no answer

OwnTests    == {"SESS01", "SESSSTATE01", "SESS03"}
SharedTests == {"MEMSTATE01", "MEMSTATE02", "MEM01", "MEM02", "PROJ01", "PROJ02", "BUD01", "BUD05",
                "REG", "REGOBS02", "STR01", "STR02", "STR03", "STR06", "STR07", "STR08", "STROBS01"}
Tests == OwnTests \cup SharedTests

VARIABLES
    test, flaw, deploy,     \* the call, and the Runner it meets
    step, verdict,
    net, reply, lost,       \* "idle", "sent", "served"
    mark, got, busy,        \* what the handler remembers; mints refused
    left,                   \* tests the round still has
    cache,                  \* sharedSessionSID is set
    known,                  \* the Runner knows the session
    used, due,              \* decisions taken on it, of them not yet published
    effects, now,           \* its side effects; a clock, in half seconds
    reads,                  \* parity of the reads served
    late                    \* a pause was over before everything was published

vars == <<test, flaw, deploy, step, verdict, net, reply, lost, mark, got, busy,
          left, cache, known, used, due, effects, now, reads, late>>
call    == <<test, flaw, deploy, left>>
session == <<known, used, due, effects, now>>

\* The rules a Runner can break, with the tests documented to notice.
Covered(t) ==
    CASE t \in {"SESS01", "MEMSTATE01", "PROJ01", "STROBS01"} -> {"shape"}
      [] t \in {"SESSSTATE01", "PROJ02", "REGOBS02"}          -> {"shape", "vary"}
      [] t = "MEMSTATE02" -> {"vary"}
      [] t = "MEM01"      -> {"empty"}
      [] t = "MEM02"      -> {"empty", "vary"}
      [] t = "BUD01"      -> {"shape", "warm"}
      [] t = "BUD05"      -> {"spanTag", "auditTag", "eventTag"}
      [] t = "REG"        -> {"shape", "fields"}
      [] t = "STR01"      -> {"foreign", "silent"}
      [] t = "STR02"      -> {"stuck"}
      [] t = "STR03"      -> {"twice"}
      [] t = "STR06"      -> {"shape", "noTurn", "noAttrs"}
      [] t = "STR07"      -> {"shape", "spanTag"}
      [] t = "STR08"      -> {"shape", "capacity"}
      [] t = "SESS03"     -> {"regress", "backwards"}

\* Timestamps that go backwards and are left out of every second answer.
Unnoticed(t) == IF t = "SESS03" THEN {"patchy"} ELSE {}

-----------------------------------------------------------------------------
\* Scripts: what is sent; for a read also what a transport error, a refusal and
\* a 404 lead to.

Own         == [do |-> "mint"]
Bootstrap   == [do |-> "shared"]
Decide(bad) == [do |-> "decide", bad |-> bad]
Pause       == [do |-> "pause"]
Read(e, check, on) == [do |-> "read", arg |-> e, check |-> check, on |-> on]

Usual   == [lost |-> "error", refused |-> "fail", absent |-> "skip"]
Blind   == [lost |-> "fail",  refused |-> "fail", absent |-> "skip"]
Strict  == [lost |-> "fail",  refused |-> "fail", absent |-> "fail"]
Lenient == [lost |-> "skip",  refused |-> "skip", absent |-> "skip"]
Reach   == [lost |-> "error", refused |-> "go",   absent |-> "skip"]

handleSVSESS01      == <<Own, Read("state", "shape", Usual)>>
handleSVSESSSTATE01 == <<Own, Read("state", "note", Usual), Read("state", "same", Strict)>>

\* driveAndObservePhases gives up the test as soon as a request fails.
handleSVSESS03 == [i \in 1 .. 2 + 2 * Drives |->
    CASE i = 1 -> Own
      [] i = 2 -> Read("state", "any", Reach)
      [] i > 2 /\ i % 2 = 1 -> Decide("skip")
      [] OTHER -> Read("state", "observe", Lenient)]

handleSVMEMSTATE01 == <<Bootstrap, Read("memory", "shape", Usual)>>
handleSVMEMSTATE02 == <<Bootstrap, Read("memory", "keep", Blind), Read("memory", "same", Strict)>>
liveRunnerSVMEM01  == <<Bootstrap, Read("memory", "notes", Usual)>>
liveRunnerSVMEM02  == <<Bootstrap, Read("memory", "keep", Lenient), Bootstrap, Read("memory", "sameNotes", Lenient)>>

byteIdentity(e) == <<Bootstrap, Read(e, "note", Usual), Read(e, "same", Strict)>>
budgetProjectionProbe(identity) ==
    IF identity THEN byteIdentity("budget") ELSE <<Bootstrap, Read("budget", "shape", Usual)>>
toolsRegisteredProbe   == byteIdentity("tools")
budgetProjectionAssert == <<Bootstrap, Read("budget", "fresh", Usual)>>
registryMetadataProbe  == <<Bootstrap, Read("tools", "fields", Usual)>>

streamProbe(check)    == <<Bootstrap, Decide("go"), Pause, Read("events", check, Lenient)>>
otelSpansProbe(check) == <<Bootstrap, Decide("go"), Pause, Read("spans", check, Usual)>>
handleSVSTR08    == <<Bootstrap, Read("pressure", "capacity", Usual)>>
handleSVSTROBS01 == <<Bootstrap, Read("events", "shape", Usual)>>
handleSVBUD05 ==
    <<Bootstrap, Decide("go"), Pause, Read("spans", "tag", Strict),
      Read("audit", "tag", Strict), Read("events", "tag", Strict)>>

Script ==
    CASE test = "SESS01" -> handleSVSESS01 [] test = "SESSSTATE01" -> handleSVSESSSTATE01
      [] test = "SESS03" -> handleSVSESS03
      [] test = "MEMSTATE01" -> handleSVMEMSTATE01 [] test = "MEMSTATE02" -> handleSVMEMSTATE02
      [] test = "MEM01" -> liveRunnerSVMEM01 [] test = "MEM02" -> liveRunnerSVMEM02
      [] test = "PROJ01" -> budgetProjectionProbe(FALSE) [] test = "PROJ02" -> budgetProjectionProbe(TRUE)
      [] test = "BUD01" -> budgetProjectionAssert [] test = "BUD05" -> handleSVBUD05
      [] test = "REG" -> registryMetadataProbe [] test = "REGOBS02" -> toolsRegisteredProbe
      [] test = "STR01" -> streamProbe("types") [] test = "STR02" -> streamProbe("ascending")
      [] test = "STR03" -> streamProbe("unique")
      [] test = "STR06" -> otelSpansProbe("turns") [] test = "STR07" -> otelSpansProbe("tagged")
      [] test = "STR08" -> handleSVSTR08 [] test = "STROBS01" -> handleSVSTROBS01

Entry == Script[step]
Ended == verdict # "none" /\ (test \in OwnTests \/ left = 0)
Silent == [status |-> "-"]

-----------------------------------------------------------------------------
\* The Runner: what it answers to a read.

Published == used - due
Varied    == IF flaw = "vary" THEN reads ELSE 0

\* A timestamp that is left out, and the first one.
NoTime == 0
Start  == 2

\* RFC 3339 in half seconds.  A Runner that trims a zero fraction prints the
\* whole second after its half: "05.5Z" sorts before "05Z".
Printed(t) == IF deploy.trims THEN t + 1 - 2 * (t % 2) ELSE t

Effects == [k \in DOMAIN effects |->
    [phase |-> effects[k].phase,
     at    |-> IF flaw = "patchy" /\ reads = 0 THEN NoTime ELSE Printed(effects[k].at)]]

Events == [i \in 1 .. (IF flaw = "silent" THEN 0 ELSE 1 + Published) |->
    [id   |-> IF flaw = "twice" /\ i = 2 THEN 1 ELSE i,
     seq  |-> IF flaw = "stuck" /\ i = 2 THEN 1 ELSE i,
     type |-> IF i = 1 THEN "SessionStart" ELSE IF flaw = "foreign" THEN "other" ELSE "PermissionDecision",
     tag  |-> i > 1 /\ flaw # "eventTag"]]

Spans == [i \in 1 .. Published |-> [turn |-> flaw # "noTurn", attrs |-> flaw # "noAttrs", tag |-> flaw # "spanTag"]]

Body(e) ==
    CASE e = "state"    -> <<Effects, Varied>>
      [] e = "memory"   -> IF flaw = "empty" THEN <<>> ELSE IF Varied = 1 THEN <<2, 1>> ELSE <<1, 2>>
      [] e = "budget"   -> [cumulative |-> Published, cold |-> Published = 0 /\ flaw # "warm", rev |-> Varied]
      [] e = "tools"    -> [extra |-> flaw = "fields", rev |-> Varied]
      [] e = "events"   -> Events
      [] e = "spans"    -> Spans
      [] e = "audit"    -> [i \in 1 .. used |-> [tag |-> flaw # "auditTag"]]
      [] e = "pressure" -> IF flaw = "capacity" THEN 1 ELSE 10000

ServeRead ==
    /\ net = "sent" /\ Entry.do = "read" /\ net' = "served"
    /\ reply' = IF ~deploy.shipped THEN [status |-> "404"]
                ELSE IF ~known THEN [status |-> "401"]
                ELSE [status |-> "200", valid |-> flaw # "shape", body |-> Body(Entry.arg)]
    /\ reads' = IF flaw \in {"vary", "patchy"} THEN 1 - reads ELSE reads
    /\ UNCHANGED <<call, step, verdict, lost, mark, got, busy, cache, session, late>>

\* A session, or a refusal by the rate limit.
ServeMint ==
    /\ net = "sent" /\ Entry.do \in {"mint", "shared"} /\ net' = "served"
    /\ \/ /\ reply' = [status |-> "201"] /\ known' = TRUE
          /\ used' = 0 /\ due' = 0 /\ effects' = <<>> /\ now' = Start
          /\ UNCHANGED busy
       \/ /\ busy < MaxBusy /\ busy' = busy + 1 /\ reply' = [status |-> "429"]
          /\ UNCHANGED session
    /\ UNCHANGED <<call, step, verdict, lost, mark, got, cache, reads, late>>

\* A decision, whose events, spans and turn are published later.  The requests of
\* postDecisionSeed are alike, and a Runner may answer a repeated one from its
\* cache: that one is modelled as a decision like the first, as no handler
\* compares a number of decisions with a number of rows.
ServeDecide ==
    /\ net = "sent" /\ Entry.do = "decide" /\ net' = "served"
    /\ \/ /\ ~known /\ reply' = [status |-> "401"]
          /\ UNCHANGED session
       \/ /\ known /\ reply' = [status |-> "201"]
          /\ used' = used + 1 /\ due' = due + 1
          /\ effects' = IF deploy.brackets THEN Append(effects, [phase |-> "pending", at |-> now]) ELSE effects
          /\ UNCHANGED <<known, now>>
    /\ UNCHANGED <<call, step, verdict, lost, mark, got, busy, cache, reads, late>>

Publish ==
    /\ due > 0 /\ test \in SharedTests /\ due' = 0     \* SV-SESS-03 does not look
    /\ UNCHANGED <<call, step, verdict, net, reply, lost, mark, got, busy, cache, known, used, effects, now, reads, late>>

\* What may follow a phase in the bracket of a Runner.
Successors(phase) ==
    CASE phase = "pending"  -> {"committed", "compensated"} \cup (IF deploy.inflight THEN {"inflight"} ELSE {})
      [] phase = "inflight" -> {"committed", "compensated"}
      [] OTHER -> IF flaw = "regress" THEN {"pending"} ELSE {}

Progress(k) ==
    /\ test = "SESS03" /\ ~Ended /\ now < Start + MaxMoves /\ now' = now + 1
    /\ \E p \in Successors(effects[k].phase) :
         effects' = [effects EXCEPT ![k] =
                       [phase |-> p, at |-> IF flaw \in {"backwards", "patchy"} THEN @.at - 1 ELSE now + 1]]
    /\ UNCHANGED <<call, step, verdict, net, reply, lost, mark, got, busy, cache, known, used, due, reads, late>>

\* A restart, or a time-to-live shorter than the cache's.
Forget ==
    /\ cache /\ known /\ ~Ended /\ known' = FALSE
    /\ UNCHANGED <<call, step, verdict, net, reply, lost, mark, got, busy, cache, used, due, effects, now, reads, late>>

Runner == ServeRead \/ ServeMint \/ ServeDecide
Others == Publish \/ Forget \/ \E k \in DOMAIN effects : Progress(k)

-----------------------------------------------------------------------------
\* The handler: what an answer leads to, "go" or the verdict.

\* assertPhaseTransitions looks at neighbouring observations of a side effect.
\* A timestamp left out also hides the one before it.
Legal(a, b) ==
    /\ a.phase # b.phase => a.phase = "pending" /\ b.phase \in {"committed", "compensated", "inflight"}
    /\ a.at # NoTime /\ b.at # NoTime => a.at <= b.at

assertPhaseTransitions(obs) ==
    \A i \in 2 .. Len(obs) : \A k \in DOMAIN obs[i - 1] : Legal(obs[i - 1][k], obs[i][k])

Seen(check, b) ==
    /\ check \in {"notes", "sameNotes", "types", "ascending", "unique", "turns", "tagged"} => b # <<>>
    /\ check \in {"same", "sameNotes"} => <<b>> = mark
    /\ check = "fresh"     => b.cold /\ b.cumulative = 0
    /\ check = "fields"    => ~b.extra
    /\ check = "capacity"  => b = 10000
    /\ check = "types"     => \A i \in DOMAIN b : b[i].type # "other"
    /\ check = "ascending" => \A i \in 2 .. Len(b) : b[i - 1].seq < b[i].seq
    /\ check = "unique"    => \A i, j \in DOMAIN b : i # j => b[i].id # b[j].id
    /\ check = "turns"     => /\ \E i \in DOMAIN b : b[i].turn
                              /\ \A i \in DOMAIN b : b[i].turn => b[i].attrs
    /\ check = "tagged"    => \A i \in DOMAIN b : b[i].tag
    /\ check = "tag"       => \E i \in DOMAIN b : b[i].tag

\* Only these are validated against a schema.
Validates == Entry.check \in {"shape", "note", "fresh", "fields", "capacity", "turns", "tagged"}

\* With the last observation SV-SESS-03 judges them all.
JudgeSeries(obs) ==
    IF \A i \in DOMAIN obs : obs[i] = <<>> THEN "skip"
    ELSE IF assertPhaseTransitions(obs) THEN "go" ELSE "fail"

JudgeRead ==
    CASE reply.status = "404" -> Entry.on.absent
      [] reply.status = "401" -> Entry.on.refused
      [] OTHER -> IF Validates /\ ~reply.valid THEN "fail"
                  ELSE IF Entry.check = "observe" /\ step = Len(Script) THEN JudgeSeries(Append(got, reply.body[1]))
                  ELSE IF Seen(Entry.check, reply.body) THEN "go" ELSE "fail"

Outcome ==
    CASE Entry.do \in {"mint", "shared"} -> IF reply.status = "201" THEN "go" ELSE "skip"
      [] Entry.do = "decide" -> IF reply.status = "201" THEN "go" ELSE Entry.bad
      [] Entry.do = "read"   -> JudgeRead

Advance(outcome) ==
    IF outcome = "go" /\ step < Len(Script) THEN step' = step + 1 /\ UNCHANGED verdict
    ELSE verdict' = (IF outcome = "go" THEN "pass" ELSE outcome) /\ UNCHANGED step

Deployments == [shipped : BOOLEAN, brackets : BOOLEAN, inflight : BOOLEAN, trims : BOOLEAN]

Init ==
    /\ test \in Tests /\ deploy \in Deployments
    /\ flaw \in {"none"} \cup Covered(test) \cup Unnoticed(test)
    \* Each setting varies where the test looks at it.
    /\ test # "SESS03" => ~deploy.brackets
    /\ ~deploy.brackets => ~deploy.inflight /\ ~deploy.trims
    /\ flaw # "none" => deploy.shipped /\ ~deploy.inflight /\ ~deploy.trims
    /\ step = 1 /\ verdict = "none" /\ net = "idle" /\ reply = Silent /\ lost = 0
    /\ mark = <<>> /\ got = <<>> /\ busy = 0
    /\ left = IF test \in OwnTests THEN 0 ELSE MaxRound - 1
    /\ cache = FALSE /\ known = FALSE /\ used = 0 /\ due = 0 /\ effects = <<>> /\ now = Start
    /\ reads = 0 /\ late = FALSE

TypeOK ==
    /\ test \in Tests /\ deploy \in Deployments
    /\ step \in 1 .. Len(Script) /\ verdict \in {"none", "pass", "fail", "error", "skip"}
    /\ net \in {"idle", "sent", "served"} /\ lost \in 0 .. MaxLost /\ busy \in 0 .. MaxBusy
    /\ left \in 0 .. MaxRound - 1 /\ {cache, known, late} \subseteq BOOLEAN
    /\ used \in 0 .. Drives + MaxRound /\ due \in 0 .. used /\ now \in Start .. Start + MaxMoves
    /\ Len(effects) \in {0, used} /\ Len(got) <= Drives

\* sharedBootstrap: a session minted less than 55 minutes ago is used again.
Reuse ==
    /\ ~Ended /\ verdict = "none" /\ net = "idle" /\ Entry.do = "shared" /\ cache
    /\ step' = step + 1
    /\ UNCHANGED <<call, verdict, net, reply, lost, mark, got, busy, cache, session, reads, late>>

\* The pause is over; on time when everything is published.
Wake ==
    /\ verdict = "none" /\ net = "idle" /\ Entry.do = "pause"
    /\ step' = step + 1 /\ late' = (late \/ due > 0)
    /\ UNCHANGED <<call, verdict, net, reply, lost, mark, got, busy, cache, session, reads>>

Send ==
    /\ verdict = "none" /\ net = "idle" /\ Entry.do # "pause" /\ net' = "sent"
    /\ cache' = (cache /\ Entry.do # "shared")
    /\ UNCHANGED <<call, step, verdict, reply, lost, mark, got, busy, session, reads, late>>

Take ==
    /\ net = "served" /\ net' = "idle" /\ reply' = Silent
    /\ Advance(Outcome)
    /\ cache' = (cache \/ (Entry.do = "shared" /\ reply.status = "201"))
    /\ LET read == Entry.do = "read" /\ reply.status = "200" IN
         /\ mark' = IF read /\ Entry.check \in {"note", "keep"} THEN <<reply.body>> ELSE mark
         /\ got'  = IF read /\ Entry.check = "observe" THEN Append(got, reply.body[1]) ELSE got
    /\ UNCHANGED <<call, lost, busy, session, reads, late>>

Lose ==
    /\ net \in {"sent", "served"} /\ lost < MaxLost
    /\ net' = "idle" /\ lost' = lost + 1 /\ reply' = Silent
    /\ Advance(CASE Entry.do = "read" -> Entry.on.lost [] Entry.do = "decide" -> Entry.bad [] OTHER -> "skip")
    /\ UNCHANGED <<call, mark, got, busy, cache, session, reads, late>>

\* testrunner.Run goes on to another test.
NextTest ==
    /\ verdict # "none" /\ ~Ended /\ left' = left - 1
    /\ test' \in SharedTests
    /\ step' = 1 /\ verdict' = "none" /\ mark' = <<>> /\ got' = <<>>
    /\ UNCHANGED <<flaw, deploy, net, reply, lost, busy, cache, session, reads, late>>

Handler == Reuse \/ Wake \/ Send \/ Take \/ Lose \/ NextTest
Next    == Handler \/ Runner \/ Others

Spec == Init /\ [][Next]_vars /\ WF_vars(Handler) /\ WF_vars(Runner)

-----------------------------------------------------------------------------
\* While answers arrive and everything is published by the end of a pause.
Orderly == lost = 0 /\ ~late

\* What a Runner that keeps every rule is failed for: it has forgotten the session;
\* the session had decisions before SV-BUD-01, which wants a fresh one (FreshIsFresh);
\* it has no consumption to show to SV-BUD-05; or its brackets go through "inflight"
\* or its timestamps are trimmed, which SV-SESS-03 refuses (BracketAccepted).
Forgotten  == ~known
Spent      == test = "BUD01" /\ used > 0
Unshipped  == test = "BUD05" /\ ~deploy.shipped
Bracketing == test = "SESS03" /\ (deploy.inflight \/ deploy.trims)
Excused    == Forgotten \/ Spent \/ Unshipped \/ Bracketing

\* And for nothing else, while answers arrive on time.
ConformingNeverFails ==
    flaw = "none" /\ Orderly /\ verdict \in {"fail", "error"} => Excused

\* The bracket of a side effect: what a later observation may show.
After(phase) == CASE phase = "pending"  -> {"pending", "inflight", "committed", "compensated"}
                  [] phase = "inflight" -> {"inflight", "committed", "compensated"}
                  [] OTHER -> {phase}
Bracketed ==
    \A j \in DOMAIN got : \A i \in 1 .. j - 1 : \A k \in DOMAIN got[i] :
        got[j][k].phase \in After(got[i][k].phase) /\ got[i][k].at <= got[j][k].at

\* A pass means that the Runner has none of the flaws the test notices, in
\* SV-SESS-03 that no two observations, however far apart, contradict the bracket.
PassIsEarned ==
    verdict = "pass" /\ Orderly =>
        IF test = "SESS03" THEN flaw # "patchy" => Bracketed ELSE flaw \notin Covered(test)

-----------------------------------------------------------------------------
\* Claims of the source that do not hold.

Conforming == flaw = "none" /\ Orderly /\ known /\ deploy.shipped

\* handlers_m3_wk2.go:44: what is found wrong is found "on fresh session".  The
\* session may have had the decisions of SV-STR and SV-BUD-05 tests.
FreshIsFresh == Conforming /\ test = "BUD01" => verdict # "fail"

\* handlers_m2.go:639: "only pending -> {inflight, committed, compensated}".  The
\* bracket of a Runner that shows "inflight" goes on, and a trimmed fraction
\* sorts after a longer one.
BracketAccepted == Conforming /\ test = "SESS03" => verdict # "fail"

\* handlers_m2.go:488: "last_phase_transition_at monotonically non-decreasing".
PassIsMonotone == verdict = "pass" /\ Orderly /\ test = "SESS03" =>
    \A j \in DOMAIN got : \A i \in 1 .. j - 1 : \A k \in DOMAIN got[i] :
        got[j][k].at # NoTime => got[i][k].at <= got[j][k].at

\* handlers_m3.go:714 and handlers_m3_wk2.go:474: "status=%d; want 200" is what
\* is reported of a reading whose answer was lost.
LostIsError == flaw = "none" /\ ~late /\ known /\ test \in {"MEMSTATE02", "PROJ02"} => verdict # "fail"

\* handlers_m2.go:763: the cache expires before the session does.
CacheOutlived == flaw = "none" /\ Orderly /\ cache => known
=============================================================================
