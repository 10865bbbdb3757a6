-------------------------------- MODULE Spawn --------------------------------
(***************************************************************************)
(* subprocrunner.Spawn (internal/subprocrunner/subprocrunner.go): start    *)
(* the implementation, poll a readiness probe, and return when the process *)
(* exits, the probe succeeds, the deadline passes or the context ends.     *)
(*                                                                         *)
(* Four activities interleave: the select loop of Spawn, the goroutine     *)
(* blocked in cmd.Wait, the process itself, and os/exec's own watch on the *)
(* context (exec.CommandContext).  Time is counted in coarse units; a      *)
(* tick of the poll timer may fall anywhere between two units.             *)
(***************************************************************************)
EXTENDS Integers

CONSTANTS
    Timeout,      \* cfg.Timeout in time units
    Horizon,      \* bound on the clock
    HasProbe,     \* cfg.ReadinessProbe # nil
    AsksChild,    \* the probe is answered by the child, not by a channel
    MayFork,      \* the process may leave a descendant that keeps its stdio open
    MayCancel,    \* the caller's context may end (the command passes Background)
    ExitCodes     \* exit codes the process may choose

ASSUME SpawnAssumption ==
    /\ Timeout \in Nat /\ Horizon \in Nat
    /\ {HasProbe, AsksChild, MayFork, MayCancel} \subseteq BOOLEAN
    /\ ExitCodes \subseteq Nat

VARIABLES
    pc,           \* control point of Spawn
    proc,         \* the child: "none", "running", "exited" (by itself), "killed"
    code,         \* the exit code the child chose, -1 when it chose none
    held,         \* a descendant holds the child's stdout or stderr
    exitCh,       \* "waiting" (cmd.Wait blocked), "full", "taken"
    ctxDone,      \* the caller's context is cancelled
    now,          \* the clock
    deadline,     \* time.Now().Add(timeout), fixed at start
    probeOk,      \* what the probe asks (an endpoint, a channel) would say yes
    res           \* the Result being filled in

child == <<proc, code, held>>
vars  == <<pc, proc, code, held, exitCh, ctxDone, now, deadline, probeOk, res>>

PCs   == {"start", "select", "probe", "kill", "reap", "returned"}
Codes == ExitCodes \cup {-1}

Blank == [startErr |-> FALSE, exited |-> FALSE, timedOut |-> FALSE,
          ready |-> FALSE, code |-> -1]

TypeOK ==
    /\ pc \in PCs
    /\ proc \in {"none", "running", "exited", "killed"}
    /\ code \in Codes
    /\ held \in BOOLEAN
    /\ exitCh \in {"waiting", "full", "taken"}
    /\ ctxDone \in BOOLEAN
    /\ now \in 0 .. Horizon
    /\ deadline \in 0 .. Horizon
    /\ probeOk \in BOOLEAN
    /\ res \in [startErr : BOOLEAN, exited : BOOLEAN, timedOut : BOOLEAN,
                ready : BOOLEAN, code : Codes]

-----------------------------------------------------------------------------
Init ==
    /\ pc = "start" /\ proc = "none" /\ code = -1 /\ held = FALSE
    /\ exitCh = "waiting" /\ ctxDone = FALSE
    /\ now = 0 /\ deadline = 0 /\ probeOk = FALSE
    /\ res = Blank

\* cmd.Start() fails: StartErr is set and Spawn returns.
StartFails ==
    /\ pc = "start"
    /\ pc' = "returned"
    /\ res' = [res EXCEPT !.startErr = TRUE]
    /\ UNCHANGED <<proc, code, held, exitCh, ctxDone, now, deadline, probeOk>>

\* cmd.Start() succeeds: the deadline is set and the waiter goroutine starts.
StartWorks ==
    /\ pc = "start" /\ now + Timeout < Horizon     \* bound: the deadline fits
    /\ proc' = "running"
    /\ held' \in IF MayFork THEN BOOLEAN ELSE {FALSE}
    /\ deadline' = now + Timeout
    /\ pc' = "select"
    /\ UNCHANGED <<code, exitCh, ctxDone, now, probeOk, res>>

Start == StartFails \/ StartWorks

\* Mutant: an exit whose code is unavailable is reported as code 0.
TakeExitZero ==
    /\ pc = "select" /\ exitCh = "full"
    /\ exitCh' = "taken"
    /\ res' = [res EXCEPT !.exited = TRUE, !.code = IF code = -1 THEN 0 ELSE code]
    /\ pc' = "returned"
    /\ UNCHANGED <<proc, code, held, ctxDone, now, deadline, probeOk>>

\* case err := <-exitCh.  A process killed by a signal has ExitCode -1.
TakeExit ==
    /\ pc = "select" /\ exitCh = "full"
    /\ exitCh' = "taken"
    /\ res' = [res EXCEPT !.exited = TRUE, !.code = code]
    /\ pc' = "returned"
    /\ UNCHANGED <<proc, code, held, ctxDone, now, deadline, probeOk>>

\* The tail of the poll branch: kill once the deadline is behind, else loop.
CheckDeadline ==
    IF now > deadline
    THEN pc' = "kill" /\ res' = [res EXCEPT !.timedOut = TRUE]
    ELSE pc' = "select" /\ UNCHANGED res

\* case <-time.After(pollInterval).
Poll ==
    /\ pc = "select"
    /\ IF HasProbe THEN pc' = "probe" /\ UNCHANGED res ELSE CheckDeadline
    /\ UNCHANGED <<proc, code, held, exitCh, ctxDone, now, deadline, probeOk>>

\* Mutant: after a successful probe the loop goes on to the deadline check.
ProbeNilFallsThrough ==
    /\ pc = "probe" /\ probeOk /\ (AsksChild => proc = "running")
    /\ IF now > deadline
       THEN pc' = "kill" /\ res' = [res EXCEPT !.ready = TRUE, !.timedOut = TRUE]
       ELSE pc' = "kill" /\ res' = [res EXCEPT !.ready = TRUE]
    /\ UNCHANGED <<proc, code, held, exitCh, ctxDone, now, deadline, probeOk>>

\* The probe returns nil.
ProbeNil ==
    /\ pc = "probe" /\ probeOk /\ (AsksChild => proc = "running")
    /\ res' = [res EXCEPT !.ready = TRUE]
    /\ pc' = "kill"
    /\ UNCHANGED <<proc, code, held, exitCh, ctxDone, now, deadline, probeOk>>

\* The probe returns an error, its own pollInterval context at the latest.
ProbeErr ==
    /\ pc = "probe"
    /\ CheckDeadline
    /\ UNCHANGED <<proc, code, held, exitCh, ctxDone, now, deadline, probeOk>>

\* case <-ctx.Done().
Cancelled ==
    /\ pc = "select" /\ ctxDone
    /\ pc' = "kill"
    /\ UNCHANGED <<proc, code, held, exitCh, ctxDone, now, deadline, probeOk, res>>

\* Mutant: the kill is skipped when the child is still up (a lost Kill call).
KillLost ==
    /\ pc = "kill"
    /\ pc' = "reap"
    /\ UNCHANGED <<proc, code, held, exitCh, ctxDone, now, deadline, probeOk, res>>

\* killAndWait: cmd.Process.Kill(), an ignored error on a finished process.
Kill ==
    /\ pc = "kill"
    /\ proc' = IF proc = "running" THEN "killed" ELSE proc
    /\ pc' = "reap"
    /\ UNCHANGED <<code, held, exitCh, ctxDone, now, deadline, probeOk, res>>

\* Mutant: no two-second bound on the wait after the kill.
ReapUnbounded ==
    /\ pc = "reap" /\ exitCh = "full"
    /\ exitCh' = "taken"
    /\ pc' = "returned"
    /\ UNCHANGED <<proc, code, held, ctxDone, now, deadline, probeOk, res>>

\* killAndWait: the waiter's answer, or give up after two seconds.
Reap ==
    /\ pc = "reap"
    /\ \/ exitCh = "full" /\ exitCh' = "taken"
       \/ UNCHANGED exitCh
    /\ pc' = "returned"
    /\ UNCHANGED <<proc, code, held, ctxDone, now, deadline, probeOk, res>>

Harness == Start \/ TakeExit \/ Poll \/ ProbeNil \/ ProbeErr \/ Cancelled
           \/ Kill \/ Reap

\* The goroutine exitCh <- cmd.Wait(): Wait returns when the process is dead
\* and the goroutines copying its stdio have seen end of file.
Wait ==
    /\ proc \in {"exited", "killed"} /\ ~held /\ exitCh = "waiting"
    /\ exitCh' = "full"
    /\ UNCHANGED <<pc, proc, code, held, ctxDone, now, deadline, probeOk, res>>

\* os/exec kills the process itself when the command's context ends.
ExecKill ==
    /\ ctxDone /\ proc = "running"
    /\ proc' = "killed"
    /\ UNCHANGED <<pc, code, held, exitCh, ctxDone, now, deadline, probeOk, res>>

\* The child ends on its own.
Exit ==
    /\ proc = "running"
    /\ proc' = "exited"
    /\ code' \in ExitCodes
    /\ UNCHANGED <<pc, held, exitCh, ctxDone, now, deadline, probeOk, res>>

\* What the probe asks changes its answer.
Flip ==
    /\ probeOk' = ~probeOk
    /\ UNCHANGED <<pc, proc, code, held, exitCh, ctxDone, now, deadline, res>>

Cancel ==
    /\ MayCancel /\ ~ctxDone /\ ctxDone' = TRUE
    /\ UNCHANGED <<pc, proc, code, held, exitCh, now, deadline, probeOk, res>>

Tick ==
    /\ now < Horizon /\ now' = now + 1
    /\ UNCHANGED <<pc, proc, code, held, exitCh, ctxDone, deadline, probeOk, res>>

Next == Harness \/ Wait \/ ExecKill \/ Exit \/ Flip \/ Cancel \/ Tick

\* The Go scheduler runs every ready goroutine, os/exec its watch on the
\* context, and the clock advances.
Fairness == WF_vars(Harness) /\ WF_vars(Wait) /\ WF_vars(ExecKill) /\ WF_vars(Tick)

Spec == Init /\ [][Next]_vars /\ Fairness

-----------------------------------------------------------------------------
\* A Result reports at most one way for the launch to have ended: the callers'
\* verdict ladders test StartErr, ReadinessReached, TimedOut and Exited in
\* different orders and agree only because of this.
OutcomeExclusive ==
    /\ res.startErr => ~res.exited /\ ~res.timedOut /\ ~res.ready
    /\ res.exited   => ~res.timedOut /\ ~res.ready
    /\ res.timedOut => ~res.ready

\* Whatever branch Spawn leaves by, the child it started is not running when
\* it returns, so the next launch can bind the same port.
NoOrphan == pc = "returned" => proc # "running"

\* A Result with an exit code other than -1 reports the code the child chose
\* itself, never one of a process that was killed: the refuse-to-start tests
\* read ExitCode # 0 as the implementation's own refusal.
ExitCodeHonest ==
    res.code # -1 => res.exited /\ proc = "exited" /\ res.code = code

\* Unless its context ended, Spawn reports Exited only for a child that ended
\* by itself: the loop never kills and then takes the exit of its own kill.
ExitedWithoutKill == res.exited /\ ~ctxDone => proc = "exited"

Outcome(r) ==
    IF r.startErr THEN "startErr" ELSE IF r.exited THEN "exited"
    ELSE IF r.timedOut THEN "timedOut" ELSE IF r.ready THEN "ready" ELSE "cancelled"

PhaseOf(c) == IF c = "start" THEN "idle" ELSE IF c = "returned" THEN "returned" ELSE "running"

L == INSTANCE Launch WITH
        Outcomes <- {"exited", "timedOut", "ready", "cancelled"},
        phase    <- PhaseOf(pc),
        alive    <- proc = "running",
        outcome  <- IF pc = "returned" THEN Outcome(res) ELSE "none"

\* Spawn implements Launch: one outcome, reported once, with the child stopped.
ImplementsLaunch == L!Spec

\* Every started lifecycle returns, even when a descendant keeps the waiter
\* blocked: the deadline forces the kill and the wait for it is bounded.
Returns == L!Concludes

-----------------------------------------------------------------------------
\* What Result.Exited is documented to mean (subprocrunner.go:36): the process
\* exited on its own, not killed by us.
ExitedMeansSelfExit == res.exited => proc = "exited"

\* What Result.ReadinessReached is documented to mean (subprocrunner.go:38):
\* the probe returned nil before exit or timeout.
ReadyBeforeExitOrTimeout ==
    [][~res.ready /\ res'.ready => proc = "running" /\ now <= deadline]_vars
=============================================================================
