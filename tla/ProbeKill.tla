------------------------------ MODULE ProbeKill ------------------------------
(***************************************************************************)
(* launchProbeKill (internal/testrunner/handlers_m2.go), under 33 of the    *)
(* tests: launch the implementation, wait for /health, run the test's      *)
(* probe against it, stop it.                                              *)
(*                                                                         *)
(* Spawn runs in a goroutine; its readiness probe waits for the channel    *)
(* `proceed`, which the caller closes when it needs the process no more.   *)
(* Three windows that start together bound the three activities: the poll  *)
(* of /health, the probe's context and Spawn's timeout.  Units are 5 s.    *)
(* A stranger may take the port before the process binds it (port.go).     *)
(***************************************************************************)
EXTENDS Integers

CONSTANTS SpawnTimeout, PollWindow, ProbeWindow,      \* 30 s, 15 s, 20 s
          Horizon, MayFork, ExitCodes

VARIABLES
    pc, proc, code, held, exitCh, ctxDone, deadline, res,   \* Spawn
    now,
    proceed,      \* the channel is closed
    up,           \* the process has bound the port and is healthy
    foreign,      \* a stranger has
    outer,        \* the caller: "poll", "probe", "await", "done"
    pass          \* what the probe returned

spawnVars == <<pc, proc, code, held, exitCh, ctxDone, deadline, res>>
caller    == <<outer, pass>>
vars      == <<spawnVars, now, proceed, up, foreign, caller>>

S == INSTANCE Spawn WITH
        Timeout <- SpawnTimeout, HasProbe <- TRUE, AsksChild <- FALSE,
        MayCancel <- FALSE, probeOk <- proceed

serving == (up /\ proc = "running") \/ foreign

TypeOK ==
    /\ S!TypeOK /\ {up, foreign, pass} \subseteq BOOLEAN
    /\ outer \in {"poll", "probe", "await", "done"}

Init ==
    /\ S!Init /\ up = FALSE /\ foreign = FALSE
    /\ outer = "poll" /\ pass = FALSE

-----------------------------------------------------------------------------
Loop      == UNCHANGED <<up, foreign, caller>> /\ S!Harness
Reaped    == UNCHANGED <<up, foreign, caller>> /\ S!Wait
ProcessExit == UNCHANGED <<up, foreign, caller>> /\ S!Exit

\* The process binds its port and serves.
Bind ==
    /\ proc = "running" /\ ~up /\ ~foreign /\ up' = TRUE
    /\ UNCHANGED <<spawnVars, now, proceed, foreign, caller>>

\* Another program takes the port while nobody holds it, and keeps it.
Usurp ==
    /\ ~serving /\ foreign' = TRUE
    /\ UNCHANGED <<spawnVars, now, proceed, up, caller>>

\* /health answers 200.
Healthy ==
    /\ outer = "poll" /\ now < PollWindow /\ serving
    /\ outer' = "probe"
    /\ UNCHANGED <<spawnVars, now, proceed, up, foreign, pass>>

\* Mutant: a process that never came up is given up at once.
PollExpiresFails ==
    /\ outer = "poll" /\ now >= PollWindow
    /\ outer' = "failed"
    /\ UNCHANGED <<spawnVars, now, proceed, up, foreign, pass>>

\* Never healthy: close the channel and take the result.
PollExpires ==
    /\ outer = "poll" /\ now >= PollWindow
    /\ outer' = "await" /\ proceed' = TRUE
    /\ UNCHANGED <<spawnVars, now, up, foreign, pass>>

\* The probe returns; it passes only on answers.
ProbeReturns ==
    /\ outer = "probe"
    /\ outer' = "await" /\ proceed' = TRUE
    /\ pass' \in {FALSE, serving}
    /\ UNCHANGED <<spawnVars, now, up, foreign>>

\* Mutant: the caller does not wait for the result.
CollectDetached ==
    /\ outer = "await" /\ outer' = "done"
    /\ UNCHANGED <<spawnVars, now, proceed, up, foreign, pass>>

\* res := <-resCh.
Collect ==
    /\ outer = "await" /\ pc = "returned" /\ outer' = "done"
    /\ UNCHANGED <<spawnVars, now, proceed, up, foreign, pass>>

Caller == Healthy \/ PollExpires \/ ProbeReturns \/ Collect

\* Mutant: the probe runs under the test's own context, which has no end.
TickUnbounded ==
    /\ now < Horizon /\ pc # "start" /\ (outer = "poll" => now < PollWindow)
    /\ now' = now + 1
    /\ UNCHANGED <<spawnVars, proceed, up, foreign, caller>>

\* The poll ends with its window and the probe with its context.
Tick ==
    /\ now < Horizon /\ pc # "start"
    /\ (outer = "poll" => now < PollWindow) /\ (outer = "probe" => now < ProbeWindow)
    /\ now' = now + 1
    /\ UNCHANGED <<spawnVars, proceed, up, foreign, caller>>

Next == Loop \/ Reaped \/ ProcessExit \/ Bind \/ Usurp \/ Caller \/ Tick

\* Both goroutines run, and the clock advances.
Spec == /\ Init /\ [][Next]_vars
        /\ WF_vars(Loop) /\ WF_vars(Reaped) /\ WF_vars(Caller) /\ WF_vars(Tick)

-----------------------------------------------------------------------------
\* While the caller polls or probes, nothing but the process itself ends it:
\* Spawn neither times out nor is told to proceed before the caller is done.
NotCutOff == proc = "killed" => outer \in {"await", "done"}
=============================================================================
