------------------------------ MODULE StrCrash ------------------------------
(***************************************************************************)
(* handleSVSTR10Real (internal/testrunner/handlers_m3_bbcf.go): crash the  *)
(* implementation in the middle of a decision, relaunch it on the same     *)
(* session directory and look for the CrashEvent of the resumed bracket.   *)
(*                                                                         *)
(* Both launches are Spawn.  The first one's readiness probe is the test's *)
(* state machine: it starts the driver once the process is healthy and     *)
(* answers nil when /health stops answering.  The second one's probe never *)
(* answers, so only its timeout stops the relaunched process.  Time units  *)
(* are about 15 s.                                                         *)
(***************************************************************************)
EXTENDS Integers

CONSTANTS
    FirstTimeout,    \* 45 s
    Window,          \* the 25 s poll for /ready and the event
    HoldTimeout,     \* 45 s given to the relaunch
    MaySlow,         \* /health may take longer than the probe's 150 ms
    Horizon, MayFork, ExitCodes

VARIABLES
    pc, proc, code, held, exitCh, deadline, res,              \* first launch
    pc2, proc2, code2, held2, exitCh2, deadline2, res2,       \* relaunch
    ctxDone, now,
    up, up2,         \* the process has bound its port
    slow,            \* the first process answers, but not within 150 ms
    driveOnce,       \* the flag of the first probe
    drive,           \* its driver goroutine: "none", "minting", "posting", "done"
    bracket,         \* the session directory holds an open bracket
    event,           \* the relaunched process reports its CrashEvent
    outer,           \* the handler: "first", "poll", "settle", "done"
    readyBy,         \* end of the poll
    verdict          \* "none", "fail" or "pass"

first    == <<pc, proc, code, held, exitCh, deadline, res>>
relaunch == <<pc2, proc2, code2, held2, exitCh2, deadline2, res2>>
runner   == <<up, up2, slow, bracket, event>>
driver   == <<driveOnce, drive>>
handler  == <<outer, readyBy, verdict>>
vars     == <<first, relaunch, runner, driver, handler, ctxDone, now>>

serving  == up /\ proc = "running"
serving2 == up2 /\ proc2 = "running"
healthy  == serving /\ ~slow           \* cli.Get returns without an error

\* The driver ran and the GET fails: a dead port, or an answer that is late.
gone == driveOnce /\ ~healthy

\* Its probe answers nil only after the driver ran, see FirstLoop.
P1 == INSTANCE Spawn WITH
        Timeout <- FirstTimeout, HasProbe <- TRUE, AsksChild <- FALSE,
        MayCancel <- FALSE, probeOk <- driveOnce

\* Its probe is answered by RelaunchLoop.
P2 == INSTANCE Spawn WITH
        Timeout <- HoldTimeout, HasProbe <- TRUE, AsksChild <- FALSE,
        MayCancel <- FALSE, probeOk <- driveOnce,
        pc <- pc2, proc <- proc2, code <- code2, held <- held2,
        exitCh <- exitCh2, deadline <- deadline2, res <- res2

TypeOK ==
    /\ P1!TypeOK /\ P2!TypeOK
    /\ {up, up2, slow, driveOnce, bracket, event} \subseteq BOOLEAN
    /\ drive \in {"none", "minting", "posting", "done"}
    /\ outer \in {"first", "poll", "settle", "done"}
    /\ readyBy \in 0 .. Horizon /\ verdict \in {"none", "fail", "pass"}

Init ==
    /\ up = FALSE /\ up2 = FALSE /\ slow = FALSE /\ bracket = FALSE /\ event = FALSE
    /\ driveOnce = FALSE /\ drive = "none"
    /\ outer = "first" /\ readyBy = 0 /\ verdict = "none"
    /\ P1!Init /\ P2!Init

-----------------------------------------------------------------------------
\* The first launch.

\* The first successful GET starts the driver and reports an error.
LaunchDriver ==
    /\ pc = "probe" /\ ~driveOnce /\ healthy
    /\ P1!CheckDeadline
    /\ driveOnce' = TRUE /\ drive' = "minting"
    /\ UNCHANGED <<proc, code, held, exitCh, deadline, relaunch, runner, handler, ctxDone, now>>

\* Any other step of Spawn; the probe answers nil exactly when it is gone.
FirstLoop ==
    /\ IF pc # "probe" THEN P1!Harness
       ELSE IF gone THEN P1!ProbeNil ELSE (driveOnce \/ ~healthy) /\ P1!ProbeErr
    /\ UNCHANGED <<relaunch, runner, driver, handler>>

\* m2Bootstrap: the process answers, with a session or without, and the decision follows.
Mint ==
    /\ drive = "minting" /\ serving
    /\ drive' = "posting"
    /\ UNCHANGED <<first, relaunch, runner, driveOnce, handler, ctxDone, now>>

\* The decision reaches the process, which opens a bracket unless it denies it.
Decide ==
    /\ drive = "posting" /\ serving
    /\ drive' = "done" /\ bracket' \in {TRUE, bracket}
    /\ UNCHANGED <<first, relaunch, up, up2, slow, event, driveOnce, handler, ctxDone, now>>

\* A request fails or the eight seconds of both are over.
DriveFails ==
    /\ drive \in {"minting", "posting"} /\ drive' = "done"
    /\ UNCHANGED <<first, relaunch, runner, driveOnce, handler, ctxDone, now>>

\* The process binds, is busy for a while, or ends: by itself at the marker.
FirstProcess ==
    /\ \/ proc = "running" /\ ~up /\ up' = TRUE /\ UNCHANGED <<first, slow, ctxDone, now>>
       \/ serving /\ MaySlow /\ slow' = ~slow /\ UNCHANGED <<first, up, ctxDone, now>>
       \/ P1!Exit /\ UNCHANGED <<up, slow>>
    /\ UNCHANGED <<relaunch, up2, bracket, event, driver, handler>>

FirstSpawn  == LaunchDriver \/ FirstLoop
FirstReaped == P1!Wait /\ UNCHANGED <<relaunch, runner, driver, handler>>

-----------------------------------------------------------------------------
\* The relaunch and the handler.

\* Mutant: the window is multiplied by the unit twice.
RelaunchSeconds ==
    /\ outer = "first" /\ pc = "returned"
    /\ outer' = "poll" /\ readyBy' = now + 5 * Window
    /\ UNCHANGED <<first, relaunch, runner, driver, verdict, ctxDone, now>>

\* Whatever became of the first launch, the second follows.
Relaunch ==
    /\ outer = "first" /\ pc = "returned"
    /\ outer' = "poll" /\ readyBy' = now + Window
    /\ UNCHANGED <<first, relaunch, runner, driver, verdict, ctxDone, now>>

\* The relaunch's probe waits 40 s in a context of 250 ms: it never says nil.
RelaunchLoop == IF pc2 = "probe" THEN P2!ProbeErr ELSE P2!Harness

\* Mutant: the goroutine's loop does not outlive the handler.
RelaunchUntilDone(step) ==
    /\ outer \in {"poll", "settle"} /\ step
    /\ UNCHANGED <<first, runner, driver, handler>>

\* The goroutine `resultCh <- Spawn`, and the process it started.
RelaunchRuns(step) ==
    /\ outer # "first" /\ step
    /\ UNCHANGED <<first, runner, driver, handler>>

SecondLoop   == RelaunchRuns(RelaunchLoop)
SecondReaped == RelaunchRuns(P2!Wait)
RelaunchStep == SecondLoop \/ SecondReaped \/ RelaunchRuns(P2!Exit)

\* The relaunched process binds; its boot scan reports the open bracket or not.
Boot2 ==
    /\ proc2 = "running" /\ ~up2 /\ up2' = TRUE
    /\ event' \in {FALSE, bracket}
    /\ UNCHANGED <<first, relaunch, up, slow, bracket, driver, handler, ctxDone, now>>

\* /ready is 200 and /events/recent lists a CrashEvent.
PollFinds ==
    /\ outer = "poll" /\ now < readyBy /\ serving2 /\ event
    /\ outer' = "settle" /\ verdict' = "pass"
    /\ UNCHANGED <<first, relaunch, runner, driver, readyBy, ctxDone, now>>

\* No event in 25 s: the evidence is returned at once.
PollExpires ==
    /\ outer = "poll" /\ now >= readyBy
    /\ outer' = "done" /\ verdict' = "fail"
    /\ UNCHANGED <<first, relaunch, runner, driver, readyBy, ctxDone, now>>

\* The result of the relaunch, or one second, whichever comes first.
Settle ==
    /\ outer = "settle" /\ outer' = "done"
    /\ UNCHANGED <<first, relaunch, runner, driver, readyBy, verdict, ctxDone, now>>

Handler == Relaunch \/ PollFinds \/ PollExpires \/ Settle

\* The handler's windows and the start of a process are not overslept.
Tick ==
    /\ now < Horizon /\ pc # "start" /\ outer # "settle"
    /\ outer = "first" => now <= deadline /\ pc # "returned"
    /\ outer = "poll" => pc2 # "start" /\ now < readyBy
    /\ now' = now + 1
    /\ UNCHANGED <<first, relaunch, runner, driver, handler, ctxDone>>

Next == \/ FirstSpawn \/ FirstReaped \/ FirstProcess \/ Mint \/ Decide \/ DriveFails
        \/ RelaunchStep \/ Boot2 \/ Handler \/ Tick

\* Every goroutine that can run does, as long as the command lives.
Fairness ==
    /\ WF_vars(FirstSpawn) /\ WF_vars(FirstReaped)
    /\ WF_vars(SecondLoop) /\ WF_vars(SecondReaped)
    /\ WF_vars(Handler) /\ WF_vars(Tick)

Spec == Init /\ [][Next]_vars /\ Fairness

-----------------------------------------------------------------------------
\* A pass means that a decision was interrupted: its bracket was open when the
\* first process stopped, and a second process came up and found it.
PassIsEarned ==
    verdict = "pass" => bracket /\ up2 /\ proc \in {"exited", "killed"}

\* The relaunched process is not timed out while the handler still polls it.
PolledAlive == outer = "poll" => ~res2.timedOut

-----------------------------------------------------------------------------
\* The first probe as documented (handlers_m3_bbcf.go:873-874): nil only when
\* the implementation has killed itself.
NilMeansSelfKill == [][~res.ready /\ res'.ready => proc # "running"]_vars

\* As documented (handlers_m3_bbcf.go:992): the relaunch's Spawn finishes before
\* the handler returns.
RelaunchFinished == outer = "done" => pc2 = "returned"
=============================================================================
