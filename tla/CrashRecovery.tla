---------------------------- MODULE CrashRecovery ----------------------------
(***************************************************************************)
(* subprocrunner.RunCrashRecovery (internal/subprocrunner/relaunch.go) and *)
(* the verdict the SV-SESS-06/07/08/10 handlers draw from it.              *)
(*                                                                         *)
(* Two launches on one port and one session directory are composed: the    *)
(* first is KillAtMarker, the second Spawn run in a goroutine whose        *)
(* readiness probe waits for the channel `proceed`.  The driver goroutine  *)
(* of the first launch outlives it and polls the same ready URL, which the *)
(* relaunched process answers.  Time units are 5 s.                        *)
(***************************************************************************)
EXTENDS Integers, Sequences

CONSTANTS
    FirstTimeout,      \* cfg.FirstLaunchTimeout
    RelaunchTimeout,   \* cfg.RelaunchTimeout
    Horizon, ExitCodes, Script, Marker, Reach, PreKill, HasDriver,
    ProbeTalks         \* the caller's probe depends on HTTP answers

VARIABLES
    pc, proc, code, held, exitCh, deadline, serving, emitted, scanned, scan,
    pipe, markerCh, driver, fired, driven, strayed, res,   \* first launch
    pc2, proc2, code2, held2, exitCh2, deadline2, res2,    \* relaunch
    up2,               \* the relaunched process has come up on the port
    ctxDone, now,
    outer,             \* control point of RunCrashRecovery
    readyBy,           \* end of the relaunch window
    proceed,           \* the channel is closed
    recovery           \* the CrashRecoveryResult

first    == <<pc, proc, code, held, exitCh, deadline, serving, emitted, scanned,
              scan, pipe, markerCh, driver, fired, driven, strayed, res>>
relaunch == <<pc2, proc2, code2, held2, exitCh2, deadline2, res2, up2>>
control  == <<outer, readyBy, proceed, recovery>>
vars     == <<first, relaunch, control, ctxDone, now>>

\* The relaunched process answers at the ready URL.
serving2 == up2 /\ proc2 = "running"

\* Mutant: the relaunch gets no time beyond the poll of its ready URL.
SpawnTimeoutShort == RelaunchTimeout - 1

\* The lifetime given to the second Spawn: RelaunchTimeout + 5 s.
SpawnTimeout == RelaunchTimeout + 1

P1 == INSTANCE KillAtMarker WITH
        Timeout <- FirstTimeout, MayFork <- FALSE, MayCancel <- FALSE, MayUsurp <- FALSE,
        foreign <- serving2

P2 == INSTANCE Spawn WITH
        Timeout <- SpawnTimeout, HasProbe <- TRUE, AsksChild <- FALSE, MayFork <- FALSE, MayCancel <- FALSE,
        pc <- pc2, proc <- proc2, code <- code2, held <- held2, exitCh <- exitCh2,
        deadline <- deadline2, probeOk <- proceed, res <- res2

TypeOK ==
    /\ P1!TypeOK /\ P2!TypeOK
    /\ up2 \in BOOLEAN
    /\ outer \in {"first", "poll", "probe", "collect", "done"}
    /\ readyBy \in 0 .. Horizon
    /\ recovery \in [started : BOOLEAN, ready : BOOLEAN, pass : BOOLEAN]

Init ==
    /\ up2 = FALSE /\ P2!Init /\ P1!Init
    /\ outer = "first" /\ readyBy = 0
    /\ recovery = [started |-> FALSE, ready |-> FALSE, pass |-> FALSE]

-----------------------------------------------------------------------------
\* RunCrashRecovery itself.

\* The first launch returned without the marker: the probe is skipped.
GiveUp ==
    /\ outer = "first" /\ pc = "returned" /\ ~res.markerSeen
    /\ outer' = "done"
    /\ UNCHANGED <<first, relaunch, readyBy, proceed, recovery, ctxDone, now>>

\* The relaunch goroutine is started, and RelaunchStarted set at once.
Relaunch ==
    /\ outer = "first" /\ pc = "returned" /\ res.markerSeen
    /\ outer' = "poll"
    /\ readyBy' = now + RelaunchTimeout
    /\ recovery' = [recovery EXCEPT !.started = TRUE]
    /\ UNCHANGED <<first, relaunch, proceed, ctxDone, now>>

\* Mutant: the poll of the ready URL also ends when the window closes, and the
\* probe runs all the same.
PollGivesUpReady ==
    /\ outer = "poll"
    /\ now >= readyBy \/ serving2
    /\ outer' = "probe"
    /\ recovery' = [recovery EXCEPT !.ready = TRUE]
    /\ UNCHANGED <<first, relaunch, readyBy, proceed, ctxDone, now>>

\* RelaunchReadyURL answers 200, whichever process answers.
PollReady ==
    /\ outer = "poll" /\ now < readyBy
    /\ serving \/ serving2
    /\ outer' = "probe"
    /\ recovery' = [recovery EXCEPT !.ready = TRUE]
    /\ UNCHANGED <<first, relaunch, readyBy, proceed, ctxDone, now>>

\* Mutant: the not-ready path forgets close(proceed) and does not wait.
PollExpiresDetached ==
    /\ outer = "poll" /\ now >= readyBy
    /\ outer' = "done"
    /\ UNCHANGED <<first, relaunch, readyBy, proceed, recovery, ctxDone, now>>

\* The window closes first: the relaunch is released and its result awaited.
PollExpires ==
    /\ outer = "poll" /\ now >= readyBy
    /\ outer' = "collect" /\ proceed' = TRUE
    /\ UNCHANGED <<first, relaunch, readyBy, recovery, ctxDone, now>>

\* probe(probeCtx) returns; one that talks HTTP passes only on answers.
ProbeReturns ==
    /\ outer = "probe"
    /\ \E pass \in BOOLEAN :
         /\ pass /\ ProbeTalks => serving2
         /\ recovery' = [recovery EXCEPT !.pass = pass]
    /\ outer' = "collect" /\ proceed' = TRUE
    /\ UNCHANGED <<first, relaunch, readyBy, ctxDone, now>>

\* r.RelaunchProcessResult = <-resCh.
Collect ==
    /\ outer = "collect" /\ pc2 = "returned"
    /\ outer' = "done"
    /\ UNCHANGED <<first, relaunch, readyBy, proceed, recovery, ctxDone, now>>

Sequence == GiveUp \/ Relaunch \/ PollReady \/ PollExpires \/ ProbeReturns \/ Collect

-----------------------------------------------------------------------------
\* The two launches and the clock.

FirstRuns(step) == UNCHANGED <<relaunch, control>> /\ step

FirstLoop    == FirstRuns(P1!Loop)
FirstReaped  == FirstRuns(P1!Wait)
FirstScan    == FirstRuns(P1!ScanLine)
FirstScanEnd == FirstRuns(P1!ScanEnd)
FirstStep    == FirstLoop \/ FirstRuns(P1!Goroutine \/ P1!Process)

RelaunchRuns(step) ==
    /\ recovery.started
    /\ step
    /\ UNCHANGED <<first, up2, outer, readyBy, recovery>>

SecondLoop   == RelaunchRuns(P2!Harness)
SecondReaped == RelaunchRuns(P2!Wait)
RelaunchStep == SecondLoop \/ SecondReaped \/ RelaunchRuns(P2!Exit)

\* The relaunched process recovers its session directory and serves.
Boot2 ==
    /\ proc2 = "running" /\ ~up2 /\ ~serving
    /\ up2' = TRUE
    /\ UNCHANGED <<first, pc2, proc2, code2, held2, exitCh2, deadline2, res2,
                   control, ctxDone, now>>

\* Time does not pass while the sequence is late for a step: polls and probes
\* end with their own windows, and starting a process takes far less than 5 s.
Tick ==
    /\ now < Horizon /\ pc # "start"
    /\ outer = "first" => now <= deadline /\ pc # "returned"
    /\ outer \in {"poll", "probe"} => now < readyBy /\ pc2 # "start"
    /\ now' = now + 1
    /\ UNCHANGED <<first, relaunch, control, ctxDone>>

Next == Sequence \/ FirstStep \/ RelaunchStep \/ Boot2 \/ Tick

Fairness ==
    /\ WF_vars(Sequence) /\ WF_vars(Tick)
    /\ WF_vars(FirstLoop) /\ WF_vars(FirstReaped)
    /\ WF_vars(FirstScan) /\ WF_vars(FirstScanEnd)
    /\ WF_vars(SecondLoop) /\ WF_vars(SecondReaped)

Spec == Init /\ [][Next]_vars /\ Fairness

-----------------------------------------------------------------------------
\* classifyCrashResult: the verdict once the sequence has returned.
Verdict ==
    IF ~res.markerSeen THEN "skip"
    ELSE IF ~recovery.ready THEN "fail"
    ELSE IF recovery.pass THEN "pass" ELSE "fail"

\* A PASS means a real crash and a real recovery: the first process was stopped
\* with its marker announced, and afterwards a second process came up on the
\* same session directory and port.
PassIsEarned ==
    outer = "done" /\ Verdict = "pass" =>
        /\ P1!MarkerIn(emitted) /\ proc \in {"killed", "exited"}
        /\ up2 /\ recovery.ready /\ ~res2.startErr

\* The relaunched process is not timed out while the caller may still probe it
\* (its Spawn outlives the relaunch window by five seconds).
RelaunchOutlivesProbe == res2.timedOut => proceed

-----------------------------------------------------------------------------
\* FirstLaunchOnReady as documented (relaunch.go:64-66): an HTTP drive during
\* phase 1, so never against the relaunched process.
DriveStaysInFirstLaunch == ~strayed

\* RelaunchStarted as documented (relaunch.go:76): true iff Cmd.Start()
\* succeeded for the second launch.
StartedMeansStarted == recovery.started => ~res2.startErr
=============================================================================
