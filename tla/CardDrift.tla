------------------------------ MODULE CardDrift ------------------------------
(***************************************************************************)
(* resumeCrashArmCardDrift (internal/testrunner/handlers_m2_crash.go),     *)
(* SV-SESS-09: launch once to leave a session on disk, stop, launch again  *)
(* on the same session directory with another card version, and look for   *)
(* the drift in what the boot scan of the second process reports.          *)
(*                                                                         *)
(* Both launches are Spawn.  The first one's readiness probe mints the     *)
(* session; a probe that fails is repeated, and mints again.  The second   *)
(* one's waits for the boot scan, which starts after /ready is served.     *)
(***************************************************************************)
EXTENDS Integers

CONSTANTS MintTimeout, ScanTimeout,      \* 20 s and 15 s
          Horizon, MayFork, ExitCodes    \* as in Spawn

VARIABLES
    pc, proc, code, held, exitCh, deadline, res,              \* phase A
    pc2, proc2, code2, held2, exitCh2, deadline2, res2,       \* phase B
    ctxDone, now,
    up, up2,         \* the process has bound its port
    minted,          \* the probe in flight: "no", "lost" or "ok", as answered
    stored,          \* the session directory holds a session of phase A
    ready2,          \* the probe in flight was answered 200
    scan2,           \* the boot scan of phase B is over
    cited2,          \* what phase B has logged: "nothing", "digest", "failed" or "drift"
    outer,           \* the handler: "mint", "scan", "lookup", "done"
    verdict          \* "none", "skip" or "pass"

phaseA  == <<pc, proc, code, held, exitCh, deadline, res>>
phaseB  == <<pc2, proc2, code2, held2, exitCh2, deadline2, res2>>
runner  == <<up, minted, stored>>
runner2 == <<up2, ready2, scan2, cited2>>
handler == <<outer, verdict>>
clock   == <<ctxDone, now>>
vars    == <<phaseA, phaseB, runner, runner2, handler, clock>>

serving  == up /\ proc = "running"
serving2 == up2 /\ proc2 = "running"

\* Its probe answers nil 300 ms after its mint was answered, whatever became
\* of the process meanwhile.
A == INSTANCE Spawn WITH
        Timeout <- MintTimeout, HasProbe <- TRUE, AsksChild <- FALSE,
        MayCancel <- FALSE, probeOk <- up

\* Its probe answers nil once /ready was 200 and the wait that follows is over:
\* three seconds in a context of 250 ms.
B == INSTANCE Spawn WITH
        Timeout <- ScanTimeout, HasProbe <- TRUE, AsksChild <- FALSE,
        MayCancel <- FALSE, probeOk <- up2,
        pc <- pc2, proc <- proc2, code <- code2, held <- held2,
        exitCh <- exitCh2, deadline <- deadline2, res <- res2

TypeOK ==
    /\ A!TypeOK /\ B!TypeOK
    /\ {stored, ready2, scan2} \subseteq BOOLEAN /\ minted \in {"no", "lost", "ok"}
    /\ cited2 \in {"nothing", "digest", "failed", "drift"}
    /\ outer \in {"mint", "scan", "lookup", "done"} /\ verdict \in {"none", "skip", "pass"}

Init ==
    /\ A!Init /\ B!Init
    /\ minted = "no" /\ stored = FALSE /\ ready2 = FALSE /\ scan2 = FALSE /\ cited2 = "nothing"
    /\ outer = "mint" /\ verdict = "none"

-----------------------------------------------------------------------------
\* Phase A.

\* m2Bootstrap: the process mints and persists a session, at once or soon; its
\* answer reaches the probe or is too late for it.
Mint ==
    /\ pc = "probe" /\ minted = "no" /\ serving
    /\ minted' \in {"lost", "ok"} /\ stored' \in {TRUE, stored}
    /\ UNCHANGED <<phaseA, phaseB, up, runner2, handler, clock>>

\* Spawn's loop; only a probe whose mint was not answered fails.
LoopA ==
    /\ IF pc # "probe" THEN A!Harness
       ELSE IF minted = "ok" THEN A!ProbeNil ELSE A!ProbeErr
    /\ minted' = IF pc = "probe" THEN "no" ELSE minted
    /\ UNCHANGED <<phaseB, up, stored, runner2, handler>>

ReapedA == A!Wait /\ UNCHANGED <<phaseB, runner, runner2, handler>>

\* The process binds, persists a session it has minted, or ends.
ProcessA ==
    /\ \/ proc = "running" /\ ~up /\ up' = TRUE /\ UNCHANGED <<phaseA, clock, stored>>
       \/ proc = "running" /\ minted # "no" /\ ~stored /\ stored' = TRUE
          /\ UNCHANGED <<phaseA, clock, up>>
       \/ A!Exit /\ UNCHANGED <<up, stored>>
    /\ UNCHANGED <<phaseB, minted, runner2, handler>>

-----------------------------------------------------------------------------
\* Phase B.
InB(step) == /\ outer = "scan" /\ step
             /\ UNCHANGED <<phaseA, runner, up2, scan2, cited2, handler>>

\* GET /ready is answered 200; the wait in the probe begins.
ReadyB ==
    /\ pc2 = "probe" /\ serving2 /\ ~ready2 /\ ready2' = TRUE
    /\ UNCHANGED <<phaseA, phaseB, runner, up2, scan2, cited2, handler, clock>>

\* Spawn's loop; only a probe without that answer fails.
LoopB ==
    /\ InB(IF pc2 # "probe" THEN B!Harness
           ELSE IF ready2 THEN B!ProbeNil ELSE B!ProbeErr)
    /\ ready2' = IF pc2 = "probe" THEN FALSE ELSE ready2

ReapedB == InB(B!Wait) /\ UNCHANGED ready2
ExitB   == InB(B!Exit) /\ UNCHANGED ready2

\* The process refuses the card, or binds and serves /ready.
BootB ==
    /\ proc2 = "running" /\ ~up2 /\ cited2 = "nothing"
    /\ \/ up2' = TRUE /\ UNCHANGED cited2
       \/ cited2' = "digest" /\ UNCHANGED up2
    /\ UNCHANGED <<phaseA, phaseB, runner, ready2, scan2, handler, clock>>

\* Its boot scan ends, with or without a word about the stored session.
BootScan ==
    /\ serving2 /\ ~scan2 /\ scan2' = TRUE
    /\ cited2' \in IF stored THEN {"nothing", "failed", "drift"} ELSE {"nothing"}
    /\ UNCHANGED <<phaseA, phaseB, runner, up2, ready2, handler, clock>>

-----------------------------------------------------------------------------
\* The handler.

\* Phase A never got ready: a skip.
NotMinted ==
    /\ outer = "mint" /\ pc = "returned" /\ ~res.ready
    /\ outer' = "done" /\ verdict' = "skip"
    /\ UNCHANGED <<phaseA, phaseB, runner, runner2, clock>>

\* Mutant: phase B starts as soon as the session was minted.
MintedEarly ==
    /\ outer = "mint" /\ res.ready
    /\ outer' = "scan"
    /\ UNCHANGED <<phaseA, phaseB, runner, runner2, verdict, clock>>

Minted ==
    /\ outer = "mint" /\ pc = "returned" /\ res.ready
    /\ outer' = "scan"
    /\ UNCHANGED <<phaseA, phaseB, runner, runner2, verdict, clock>>

\* The verdict ladder over phase B's output; there is no failure in it.
Judge ==
    /\ outer = "scan" /\ pc2 = "returned"
    /\ verdict' = IF cited2 \in {"failed", "drift"} THEN "pass" ELSE "skip"
    /\ outer' = IF cited2 = "failed" THEN "lookup" ELSE "done"
    /\ UNCHANGED <<phaseA, phaseB, runner, runner2, clock>>

\* probeAuditChainForDrift returns; found or not, the verdict stands.
Lookup ==
    /\ outer = "lookup" /\ outer' = "done"
    /\ UNCHANGED <<phaseA, phaseB, runner, runner2, verdict, clock>>

Handler == NotMinted \/ Minted \/ Judge \/ Lookup

\* Neither probes nor the start of a process are overslept.
Tick ==
    /\ now < Horizon /\ now' = now + 1
    /\ pc # "start" /\ outer # "lookup"
    /\ outer = "mint" => now <= deadline /\ pc # "returned"
    /\ outer = "scan" => pc2 # "start"
    /\ UNCHANGED <<phaseA, phaseB, runner, runner2, handler, ctxDone>>

Loop   == LoopA \/ LoopB
Reaped == ReapedA \/ ReapedB

Next == Mint \/ Loop \/ Reaped \/ ProcessA \/ ExitB \/ ReadyB \/ BootB \/ BootScan \/ Handler \/ Tick

Spec == /\ Init /\ [][Next]_vars
        /\ WF_vars(Loop) /\ WF_vars(Reaped) /\ WF_vars(Handler) /\ WF_vars(Tick)

-----------------------------------------------------------------------------

\* A pass means that a second process scanned a session which the first one
\* had persisted before it was stopped.
PassIsEarned ==
    verdict = "pass" => res.ready /\ stored /\ scan2 /\ proc \in {"exited", "killed"}

-----------------------------------------------------------------------------
\* As documented (handlers_m2_crash.go:327-330): the lookup queries the phase-B
\* Runner's /audit/records.
LookupAsksRunner == outer = "lookup" => proc2 = "running"
=============================================================================
