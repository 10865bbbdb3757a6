------------------------------ MODULE SessBoot02 ------------------------------
(***************************************************************************)
(* svSessBoot02ViaSubprocess (internal/testrunner/handlers.go): launch an  *)
(* implementation with a ReadOnly card and assert that POST /sessions with *)
(* DangerFullAccess answers 403.                                           *)
(*                                                                         *)
(* Spawn runs in a goroutine with the health check itself as its readiness *)
(* probe, while the handler polls the same endpoint and then asserts: the  *)
(* two compete for the process's first healthy answer.  PickFreePort has   *)
(* closed the port before the process binds it, so that a stranger may     *)
(* take it in between and answer in its place.                             *)
(***************************************************************************)
EXTENDS Integers

CONSTANTS SpawnTimeout, PollWindow,     \* 20 s and 15 s, in 5 s units
          Horizon, MayFork, ExitCodes

VARIABLES
    pc, proc, code, held, exitCh, ctxDone, now, deadline, res,   \* Spawn
    up,           \* the process serves /health
    foreign,      \* a stranger has taken the port and serves /health
    conform,      \* the process answers the assertion with 403
    outer,        \* the handler: "poll", "assert", "await", "done"
    ev            \* its evidence: "none", "error", "fail", "pass"

spawnVars == <<pc, proc, code, held, exitCh, ctxDone, deadline, res>>
vars == <<spawnVars, now, up, foreign, conform, outer, ev>>

S == INSTANCE Spawn WITH
        Timeout <- SpawnTimeout, HasProbe <- TRUE, AsksChild <- TRUE,
        MayCancel <- FALSE, probeOk <- up

\* Spawn with the stranger's answers.
F == INSTANCE Spawn WITH
        Timeout <- SpawnTimeout, HasProbe <- TRUE, AsksChild <- FALSE,
        MayCancel <- FALSE, probeOk <- foreign

TypeOK ==
    /\ S!TypeOK /\ {foreign, conform} \subseteq BOOLEAN
    /\ outer \in {"poll", "assert", "await", "done"}
    /\ ev \in {"none", "error", "fail", "pass"}

\* The port was free when it was closed.
PickFreePort == foreign = FALSE

Init == S!Init /\ PickFreePort /\ conform \in BOOLEAN /\ outer = "poll" /\ ev = "none"

Loop      == UNCHANGED <<up, foreign, conform, outer, ev>> /\ (S!Harness \/ (foreign /\ F!Harness))
Reaped    == UNCHANGED <<foreign, conform, outer, ev>> /\ S!Wait
ProcessExit == UNCHANGED <<foreign, conform, outer, ev>> /\ S!Exit

\* Another program takes the port while nobody holds it, and keeps it.
Usurp ==
    /\ ~foreign /\ ~(up /\ proc = "running") /\ foreign' = TRUE
    /\ UNCHANGED <<spawnVars, now, up, conform, outer, ev>>

Bind ==
    /\ proc = "running" /\ ~up /\ ~foreign /\ up' = TRUE
    /\ UNCHANGED <<spawnVars, now, foreign, conform, outer, ev>>

\* case <-done: Spawn returned before the handler saw /health.
SpawnDone ==
    /\ outer = "poll" /\ pc = "returned"
    /\ outer' = "done" /\ ev' = "error"
    /\ UNCHANGED <<spawnVars, now, up, foreign, conform>>

\* probeClient.Health answers.
Healthy ==
    /\ outer = "poll" /\ now < PollWindow
    /\ (up /\ proc = "running") \/ foreign
    /\ outer' = "assert"
    /\ UNCHANGED <<spawnVars, now, up, foreign, conform, ev>>

\* Never healthy within the window: wait for Spawn.
WindowOver ==
    /\ outer = "poll" /\ now >= PollWindow
    /\ outer' = "await" /\ ev' = "error"
    /\ UNCHANGED <<spawnVars, now, up, foreign, conform>>

\* Mutant: no answer counts as a wrong status.
AssertStrict ==
    /\ outer = "assert"
    /\ IF foreign THEN ev' \in {"error", "fail", "pass"}
       ELSE ev' = IF proc = "running" /\ conform THEN "pass" ELSE "fail"
    /\ outer' = "await"
    /\ UNCHANGED <<spawnVars, now, up, foreign, conform>>

\* assertSessBoot02: an error when the process is gone, else by its answer.
Assert ==
    /\ outer = "assert"
    /\ IF foreign THEN ev' \in {"error", "fail", "pass"}
       ELSE ev' = IF proc # "running" THEN "error" ELSE IF conform THEN "pass" ELSE "fail"
    /\ outer' = "await"
    /\ UNCHANGED <<spawnVars, now, up, foreign, conform>>

\* Mutant: the handler waits for Spawn to report an exit.
AwaitExit ==
    /\ outer = "await" /\ pc = "returned" /\ res.exited
    /\ outer' = "done"
    /\ UNCHANGED <<spawnVars, now, up, foreign, conform, ev>>

\* <-done.
Await ==
    /\ outer = "await" /\ pc = "returned"
    /\ outer' = "done"
    /\ UNCHANGED <<spawnVars, now, up, foreign, conform, ev>>

Handler == SpawnDone \/ Healthy \/ WindowOver \/ Assert \/ Await

Tick ==
    /\ pc # "start" /\ outer # "assert" /\ now < Horizon
    /\ now' = now + 1
    /\ UNCHANGED <<spawnVars, up, foreign, conform, outer, ev>>

Next == Loop \/ Reaped \/ ProcessExit \/ Bind \/ Usurp \/ Handler \/ Tick

Spec == /\ Init /\ [][Next]_vars
        /\ WF_vars(Loop) /\ WF_vars(Reaped) /\ WF_vars(Handler) /\ WF_vars(Tick)

-----------------------------------------------------------------------------
\* Whoever wins the race for the process, a conforming implementation is never
\* failed: the worst it gets is an error, as long as the port is its own.
ConformingNeverFails == conform /\ ~foreign => ev # "fail"

-----------------------------------------------------------------------------
\* Claims of the source that do not hold.

\* "Waits for /health, runs the assertion, kills the subprocess", in this order
\* (handlers.go:991-994).
KillAfterAssertion ==
    [][proc = "running" /\ proc' = "killed" /\ ~res.timedOut => ev # "none"]_vars

\* "Dynamic allocation eliminates the contention surface per test"
\* (handlers.go:2015): what is judged is the process launched.
JudgedIsLaunched == ev \in {"fail", "pass"} => up
=============================================================================
