---------------------------- MODULE KillAtMarker ----------------------------
(***************************************************************************)
(* subprocrunner.SpawnUntilMarker (internal/subprocrunner/killatmarker.go):*)
(* start the implementation, read its stderr line by line, and kill it when*)
(* the configured crash marker is read.                                    *)
(*                                                                         *)
(* Five activities interleave: the select loop, the goroutine scanning     *)
(* stderr, the goroutine in cmd.Wait, the OnReady goroutine that polls the *)
(* ready URL and then drives HTTP at the implementation (called the driver *)
(* here), and the process, which announces the markers of Script in order. *)
(***************************************************************************)
EXTENDS Integers, Sequences

CONSTANTS
    Timeout, Horizon, MayFork, MayCancel, ExitCodes,   \* as in Spawn
    Script,       \* the markers the process announces, in order
    Marker,       \* cfg.Marker
    Reach,        \* how many of them it gets to while booting, once a session is
                  \* minted, and once a decision is posted
    PreKill,      \* cfg.PreKillDelay > 0
    HasDriver,    \* cfg.ReadyURL and cfg.OnReady are set
    MayUsurp      \* another process may answer on the port

ASSUME KillAtMarkerAssumption ==
    /\ Timeout \in Nat /\ Horizon \in Nat /\ Reach \in [1 .. 3 -> Nat]
    /\ {MayFork, MayCancel, PreKill, HasDriver, MayUsurp} \subseteq BOOLEAN
    /\ ExitCodes \subseteq Nat
    /\ Script \in Seq(STRING) /\ Marker \in STRING

VARIABLES
    pc, proc, code, held, exitCh, ctxDone, now, deadline,   \* as in Spawn
    serving,      \* the process answers 200 at the ready URL
    foreign,      \* some other process answers 200 at the ready URL
    emitted,      \* lines of Script written to stderr
    scanned,      \* lines of Script the scanner has processed
    scan,         \* "scanning" or "done" (scanDone closed)
    pipe,         \* the read end of stderr: "open" or "closed" by cmd.Wait
    markerCh,     \* "empty", "full", "taken"
    driver,       \* "off", "polling", "answered", "minting", "posting", "done"
    fired,        \* r.OnReadyFired, which the driver writes
    driven,       \* how many of its two requests reached the process
    strayed,      \* one of its requests reached another process
    res           \* the KillAtMarkerResult

procVars   == <<proc, code, held, serving>>
streamVars == <<emitted, scanned, scan, pipe, markerCh>>
driverVars == <<driver, fired, driven, strayed>>
envVars    == <<ctxDone, now, foreign>>
loopVars   == <<pc, exitCh, deadline, res>>
vars == <<loopVars, procVars, streamVars, driverVars, envVars>>

PCs   == {"start", "select", "delay", "kill", "reap", "drain", "returned"}
Codes == ExitCodes \cup {-1}

Blank == [startErr |-> FALSE, exited |-> FALSE, timedOut |-> FALSE, code |-> -1,
          markerSeen |-> FALSE, killed |-> FALSE, observed |-> 0, fired |-> FALSE]

Results == [startErr : BOOLEAN, exited : BOOLEAN, timedOut : BOOLEAN, code : Codes,
            markerSeen : BOOLEAN, killed : BOOLEAN, observed : 0 .. Len(Script), fired : BOOLEAN]

TypeOK ==
    /\ pc \in PCs
    /\ proc \in {"none", "running", "exited", "killed"}
    /\ code \in Codes
    /\ held \in BOOLEAN /\ ctxDone \in BOOLEAN /\ serving \in BOOLEAN
    /\ foreign \in BOOLEAN /\ fired \in BOOLEAN /\ strayed \in BOOLEAN
    /\ exitCh \in {"waiting", "full", "taken"}
    /\ now \in 0 .. Horizon /\ deadline \in 0 .. Horizon
    /\ emitted \in 0 .. Len(Script) /\ scanned \in 0 .. emitted
    /\ scan \in {"scanning", "done"} /\ pipe \in {"open", "closed"}
    /\ markerCh \in {"empty", "full", "taken"}
    /\ driver \in {"off", "polling", "answered", "minting", "posting", "done"} /\ driven \in 0 .. 2
    /\ res \in Results

Init ==
    /\ pc = "start" /\ exitCh = "waiting" /\ deadline = 0 /\ res = Blank
    /\ proc = "none" /\ code = -1 /\ held = FALSE /\ serving = FALSE
    /\ emitted = 0 /\ scanned = 0 /\ scan = "scanning" /\ pipe = "open"
    /\ markerCh = "empty"
    /\ driver = "off" /\ fired = FALSE /\ driven = 0 /\ strayed = FALSE
    /\ ctxDone = FALSE /\ now = 0 /\ foreign = FALSE

-----------------------------------------------------------------------------
\* The select loop.

\* cmd.StderrPipe() or cmd.Start() fails.
StartFails ==
    /\ pc = "start"
    /\ pc' = "returned" /\ res' = [res EXCEPT !.startErr = TRUE]
    /\ UNCHANGED <<exitCh, deadline, procVars, streamVars, driverVars, envVars>>

StartWorks ==
    /\ pc = "start" /\ now + Timeout < Horizon     \* bound: the deadline fits
    /\ pc' = "select" /\ deadline' = now + Timeout
    /\ proc' = "running" /\ held' \in IF MayFork THEN BOOLEAN ELSE {FALSE}
    /\ driver' = IF HasDriver THEN "polling" ELSE "off"
    /\ UNCHANGED <<exitCh, res, code, serving, streamVars, fired, driven, strayed, envVars>>

Start == StartFails \/ StartWorks

\* case err := <-exitCh.
TakeExit ==
    /\ pc = "select" /\ exitCh = "full"
    /\ exitCh' = "taken" /\ pc' = "drain"
    /\ res' = [res EXCEPT !.exited = TRUE, !.code = code]
    /\ UNCHANGED <<deadline, procVars, streamVars, driverVars, envVars>>

\* case at := <-markerCh.
TakeMarker ==
    /\ pc = "select" /\ markerCh = "full"
    /\ markerCh' = "taken"
    /\ pc' = IF PreKill THEN "delay" ELSE "kill"
    /\ res' = [res EXCEPT !.markerSeen = TRUE]
    /\ UNCHANGED <<exitCh, deadline, procVars, emitted, scanned, scan, pipe,
                   driverVars, envVars>>

\* The pause before the kill ends, on its own or with the context.
DelayEnds ==
    /\ pc = "delay" /\ pc' = "kill"
    /\ UNCHANGED <<exitCh, deadline, res, procVars, streamVars, driverVars, envVars>>

\* Mutant: the deadline test is off by one.
TimeOutEarly ==
    /\ pc = "select" /\ now >= deadline
    /\ pc' = "kill" /\ res' = [res EXCEPT !.timedOut = TRUE]
    /\ UNCHANGED <<exitCh, deadline, procVars, streamVars, driverVars, envVars>>

\* case <-time.After(100ms), once the deadline is behind.
TimeOut ==
    /\ pc = "select" /\ now > deadline
    /\ pc' = "kill" /\ res' = [res EXCEPT !.timedOut = TRUE]
    /\ UNCHANGED <<exitCh, deadline, procVars, streamVars, driverVars, envVars>>

\* Mutant: a cancelled launch returns at once, with its child running.
CancelledNoKill ==
    /\ pc = "select" /\ ctxDone /\ pc' = "returned"
    /\ UNCHANGED <<exitCh, deadline, res, procVars, streamVars, driverVars, envVars>>

\* case <-ctx.Done().
Cancelled ==
    /\ pc = "select" /\ ctxDone /\ pc' = "kill"
    /\ UNCHANGED <<exitCh, deadline, res, procVars, streamVars, driverVars, envVars>>

\* killAndWait: the kill, then the waiter's answer or two seconds.
Kill ==
    /\ pc = "kill" /\ pc' = "reap"
    /\ proc' = IF proc = "running" THEN "killed" ELSE proc
    /\ serving' = FALSE
    /\ UNCHANGED <<exitCh, deadline, res, code, held, streamVars, driverVars, envVars>>

Reap ==
    /\ pc = "reap" /\ pc' = "drain"
    /\ exitCh' \in {exitCh, IF exitCh = "full" THEN "taken" ELSE exitCh}
    /\ res' = [res EXCEPT !.killed = res.markerSeen]
    /\ UNCHANGED <<deadline, procVars, streamVars, driverVars, envVars>>

\* Mutant: the result is taken without waiting for the scanner.
DrainNoWait ==
    /\ pc = "drain"
    /\ pc' = "returned"
    /\ res' = [res EXCEPT !.observed = scanned, !.fired = fired]
    /\ UNCHANGED <<exitCh, deadline, procVars, streamVars, driverVars, envVars>>

\* <-scanDone, snapshot() and the return, which copies r.
Drain ==
    /\ pc = "drain" /\ scan = "done"
    /\ pc' = "returned"
    /\ res' = [res EXCEPT !.observed = scanned, !.fired = fired]
    /\ UNCHANGED <<exitCh, deadline, procVars, streamVars, driverVars, envVars>>

Loop == Start \/ TakeExit \/ TakeMarker \/ DelayEnds \/ TimeOut \/ Cancelled
        \/ Kill \/ Reap \/ Drain

-----------------------------------------------------------------------------
\* The other goroutines.

\* Mutant: any marker line is signalled, not only the configured one.
ScanAnyLine ==
    /\ scan = "scanning" /\ scanned < emitted
    /\ scanned' = scanned + 1
    /\ markerCh' = IF markerCh = "empty" THEN "full" ELSE markerCh
    /\ UNCHANGED <<loopVars, procVars, emitted, scan, pipe, driverVars, envVars>>

\* One line read: recorded, and signalled when it is the first with Marker.
ScanLine ==
    /\ scan = "scanning" /\ scanned < emitted
    /\ scanned' = scanned + 1
    /\ markerCh' = IF Script[scanned + 1] = Marker /\ markerCh = "empty"
                   THEN "full" ELSE markerCh
    /\ UNCHANGED <<loopVars, procVars, emitted, scan, pipe, driverVars, envVars>>

\* Mutant: the scanner goroutine closes scanDone only after a marker.
ScanEndOnMarkerOnly ==
    /\ proc # "none" /\ scan = "scanning" /\ markerCh # "empty"
    /\ \/ pipe = "closed"
       \/ proc # "running" /\ ~held /\ scanned = emitted
    /\ scan' = "done"
    /\ UNCHANGED <<loopVars, procVars, emitted, scanned, pipe, markerCh, driverVars, envVars>>

\* scanner.Scan() returns false: end of file when every writer is gone, or the
\* read end closed under it by cmd.Wait, whatever was still unread.
ScanEnd ==
    /\ proc # "none" /\ scan = "scanning"
    /\ \/ pipe = "closed"
       \/ proc # "running" /\ ~held /\ scanned = emitted
    /\ scan' = "done"
    /\ UNCHANGED <<loopVars, procVars, emitted, scanned, pipe, markerCh, driverVars, envVars>>

\* exitCh <- cmd.Wait(): waits for the process and for the copy of stdout, then
\* closes the stderr pipe.
Wait ==
    /\ proc \in {"exited", "killed"} /\ ~held /\ exitCh = "waiting"
    /\ exitCh' = "full" /\ pipe' = "closed"
    /\ UNCHANGED <<pc, deadline, res, procVars, emitted, scanned, scan, markerCh,
                   driverVars, envVars>>

\* The driver's GET of the ready URL answers 200.  The driver takes its deadline a
\* moment after the loop's, and a GET sent before it may be answered after it: both
\* are within a unit of time.
Answered ==
    /\ driver = "polling" /\ now <= deadline /\ ~ctxDone
    /\ serving \/ foreign
    /\ driver' = "answered"
    /\ UNCHANGED <<loopVars, procVars, streamVars, fired, driven, strayed, envVars>>

\* Then r.OnReadyFired is set and OnReady called.
Fire ==
    /\ driver = "answered"
    /\ driver' = "minting" /\ fired' = TRUE
    /\ UNCHANGED <<loopVars, procVars, streamVars, driven, strayed, envVars>>

\* The driver's own deadline, or the context, ends its polling.
StopPolling ==
    /\ driver = "polling" /\ (now >= deadline \/ ctxDone)
    /\ driver' = "done"
    /\ UNCHANGED <<loopVars, procVars, streamVars, fired, driven, strayed, envVars>>

AfterRequest == IF driver = "minting" THEN "posting" ELSE "done"

\* One of OnReady's two requests (mint a session, post a decision): served by
\* whoever holds the port, or failing, which ends OnReady.
Request ==
    /\ driver \in {"minting", "posting"}
    /\ \/ serving /\ driven' = driven + 1 /\ driver' = AfterRequest /\ UNCHANGED strayed
       \/ foreign /\ strayed' = TRUE /\ driver' = AfterRequest /\ UNCHANGED driven
       \/ driver' = "done" /\ UNCHANGED <<driven, strayed>>
    /\ UNCHANGED <<loopVars, procVars, streamVars, fired, envVars>>

Driver == Answered \/ Fire \/ StopPolling \/ Request

-----------------------------------------------------------------------------
\* The process, os/exec and the environment.

\* The process comes up behind the ready URL.
Boot ==
    /\ proc = "running" /\ ~serving /\ ~foreign
    /\ serving' = TRUE
    /\ UNCHANGED <<loopVars, proc, code, held, streamVars, driverVars, envVars>>

\* It announces the next marker its work so far leads to.
Emit ==
    /\ proc = "running" /\ emitted < Len(Script)
    /\ emitted < Reach[driven + 1]
    /\ emitted' = emitted + 1
    /\ UNCHANGED <<loopVars, procVars, scanned, scan, pipe, markerCh, driverVars, envVars>>

Exit ==
    /\ proc = "running" /\ proc' = "exited" /\ code' \in ExitCodes
    /\ serving' = FALSE
    /\ UNCHANGED <<loopVars, held, streamVars, driverVars, envVars>>

ExecKill ==
    /\ ctxDone /\ proc = "running" /\ proc' = "killed" /\ serving' = FALSE
    /\ UNCHANGED <<loopVars, code, held, streamVars, driverVars, envVars>>

Cancel ==
    /\ MayCancel /\ ~ctxDone /\ ctxDone' = TRUE
    /\ UNCHANGED <<loopVars, procVars, streamVars, driverVars, now, foreign>>

Tick ==
    /\ now < Horizon /\ now' = now + 1
    /\ UNCHANGED <<loopVars, procVars, streamVars, driverVars, ctxDone, foreign>>

\* Another process takes or leaves the port while the child is not serving.
Usurp ==
    /\ MayUsurp /\ ~serving /\ foreign' = ~foreign
    /\ UNCHANGED <<loopVars, procVars, streamVars, driverVars, ctxDone, now>>

Process   == Boot \/ Emit \/ Exit \/ ExecKill
Goroutine == ScanLine \/ ScanEnd \/ Wait \/ Driver

Next == Loop \/ Goroutine \/ Process \/ Cancel \/ Tick \/ Usurp

Fairness ==
    /\ WF_vars(Loop) /\ WF_vars(ScanLine) /\ WF_vars(ScanEnd) /\ WF_vars(Wait)
    /\ WF_vars(Driver) /\ WF_vars(ExecKill) /\ WF_vars(Tick)

Spec == Init /\ [][Next]_vars /\ Fairness

-----------------------------------------------------------------------------
MarkerIn(n) == \E i \in 1 .. n : Script[i] = Marker
FirstMarker == CHOOSE i \in 1 .. Len(Script) :
                 Script[i] = Marker /\ ~MarkerIn(i - 1)

\* MarkerSeen is backed by evidence: the marker is among the lines the scanner
\* has read and, in the returned result, among ObservedMarkers.
SeenIsEvidenced ==
    res.markerSeen => /\ MarkerIn(scanned)
                      /\ pc = "returned" => MarkerIn(res.observed)

\* The process is killed only at the marker: the harness never kills a process
\* whose marker it has not read, unless the deadline is behind or the context
\* has ended.
KillNeedsMarker ==
    [][proc = "running" /\ proc' = "killed" =>
         MarkerIn(scanned) \/ now > deadline \/ ctxDone]_vars

\* Once the call has returned no goroutine of it still appends stderr lines, so
\* ObservedMarkers is the complete list of what was read.
ScannerQuiet ==
    pc = "returned" /\ ~res.startErr => scan = "done" /\ res.observed = scanned

OutcomeOf(r) ==
    IF r.startErr THEN "startErr" ELSE IF r.exited THEN "exited"
    ELSE IF r.timedOut THEN "timedOut" ELSE IF r.killed THEN "marker" ELSE "cancelled"

PhaseOf(c) == IF c = "start" THEN "idle" ELSE IF c = "returned" THEN "returned" ELSE "running"

L == INSTANCE Launch WITH
        Outcomes <- {"exited", "timedOut", "marker", "cancelled"},
        phase    <- PhaseOf(pc),
        alive    <- proc = "running",
        outcome  <- IF pc = "returned" THEN OutcomeOf(res) ELSE "none"

\* SpawnUntilMarker implements Launch: one outcome, with the child stopped.
ImplementsLaunch == L!Spec

\* Every started launch returns (killatmarker.go:98-101: at the latest when
\* cfg.Timeout elapses).  It needs MayFork = FALSE: a descendant that keeps
\* stdout and stderr open blocks cmd.Wait and the scanner, and with them the
\* unbounded <-scanDone.
Returns == L!Concludes

-----------------------------------------------------------------------------
\* MarkerSeen as documented (killatmarker.go:67): true iff the marker appeared
\* in stderr before the process exited.  Here the weaker direction a reader
\* relies on: a marker listed in ObservedMarkers of an exited launch was seen.
ExitReportsMarker == pc = "returned" /\ res.exited /\ MarkerIn(res.observed)
                       => res.markerSeen

\* OnReadyFired as documented (killatmarker.go:85): true iff OnReady was invoked.
FiredIsReported == pc = "returned" => (fired => res.fired)

\* The kill-point as documented (relaunch.go:41): the write that triggered the
\* marker lands, then the kill comes before the next boundary.
KillBeforeNextBoundary == pc = "returned" /\ res.killed => emitted = FirstMarker
=============================================================================
