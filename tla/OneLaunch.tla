------------------------------ MODULE OneLaunch ------------------------------
(***************************************************************************)
(* The handlers that launch the implementation once, and what they owe     *)
(* their caller alike.  The runner calls handlers one after another, so a  *)
(* behaviour is one call of one of them: a refuse-to-start arm             *)
(* (RefuseStart), SV-SESS-BOOT-02 (SessBoot02) or a launchProbeKill test   *)
(* (ProbeKill).                                                            *)
(***************************************************************************)
EXTENDS Integers

CONSTANTS
    Horizon, MayFork, ExitCodes,              \* as in Spawn
    Arms, RefuseTimeout,                      \* RefuseStart
    BootTimeout, BootWindow,                  \* SessBoot02
    KillTimeout, KillPoll, KillProbe          \* ProbeKill

ASSUME OneLaunchAssumption ==
    /\ {Horizon, RefuseTimeout, BootTimeout, BootWindow, KillTimeout, KillPoll, KillProbe}
         \subseteq Nat
    /\ MayFork \in BOOLEAN /\ ExitCodes \subseteq Nat
    /\ KillPoll <= KillTimeout /\ KillProbe <= KillTimeout     \* 15 s, 20 s and 30 s

VARIABLES
    kind,         \* "refuse", "boot" or "kill", fixed at the start
    pc, proc, code, held, exitCh, ctxDone, now, deadline, res,    \* Spawn
    arm, boundAt, cited,                                          \* RefuseStart
    up, foreign, outer,                                           \* both others
    conform, ev,                                                  \* SessBoot02
    proceed, pass                                                 \* ProbeKill

refuseVars == <<arm, boundAt, cited>>
bootVars   == <<conform, ev>>
killVars   == <<proceed, pass>>
shared     == <<up, foreign, outer>>
vars == <<kind, pc, proc, code, held, exitCh, ctxDone, now, deadline, res,
          refuseVars, shared, bootVars, killVars>>

R == INSTANCE RefuseStart WITH Timeout <- RefuseTimeout
B == INSTANCE SessBoot02 WITH SpawnTimeout <- BootTimeout, PollWindow <- BootWindow
K == INSTANCE ProbeKill WITH
        SpawnTimeout <- KillTimeout, PollWindow <- KillPoll, ProbeWindow <- KillProbe

\* The state of the handlers that are not called.
NoRefuse == arm = "HR-12" /\ boundAt = 0 /\ cited = "nothing"
NoBoot   == conform = FALSE /\ ev = "none"
NoKill   == proceed = FALSE /\ pass = FALSE

Init ==
    \/ kind = "refuse" /\ R!Init /\ NoBoot /\ NoKill
       /\ up = FALSE /\ foreign = FALSE /\ outer = "poll"
    \/ kind = "boot" /\ B!Init /\ NoRefuse /\ NoKill
    \/ kind = "kill" /\ K!Init /\ NoRefuse /\ NoBoot

TypeOK ==
    CASE kind = "refuse" -> R!TypeOK /\ NoBoot /\ NoKill
      [] kind = "boot"   -> B!TypeOK /\ NoRefuse /\ NoKill
      [] kind = "kill"   -> K!TypeOK /\ NoRefuse /\ NoBoot

-----------------------------------------------------------------------------
In(k) == kind = k /\ UNCHANGED kind
InRefuse == In("refuse") /\ UNCHANGED <<shared, bootVars, killVars>>
InBoot   == In("boot") /\ UNCHANGED <<refuseVars, killVars>>
InKill   == In("kill") /\ UNCHANGED <<refuseVars, bootVars>>

Refuse == InRefuse /\ R!Next
Boot   == InBoot /\ B!Next
Probe  == InKill /\ K!Next

Next == Refuse \/ Boot \/ Probe

\* The goroutines of the call in progress: Spawn's loop, its waiter, the
\* handler; and the clock.
Loop    == (InRefuse /\ R!RunArm) \/ (InBoot /\ B!Loop) \/ (InKill /\ K!Loop)
Reaped  == (InRefuse /\ R!Reaped) \/ (InBoot /\ B!Reaped) \/ (InKill /\ K!Reaped)
Handler == (InBoot /\ B!Handler) \/ (InKill /\ K!Caller)
Tick    == (InRefuse /\ R!Tick) \/ (InBoot /\ B!Tick) \/ (InKill /\ K!Tick)

Spec == /\ Init /\ [][Next]_vars
        /\ WF_vars(Loop) /\ WF_vars(Reaped) /\ WF_vars(Handler) /\ WF_vars(Tick)

-----------------------------------------------------------------------------
\* The call has come to its verdict.
Ended == IF kind = "refuse" THEN R!Judged ELSE outer = "done"

\* A refuse-to-start arm that demands an exit passes only an implementation
\* that ended by itself, never one the harness had to kill, and never with
\* exit code 0.
ExitArmsSound == kind = "refuse" => R!ExitArmsSound

\* No race between Spawn, the process and the handler fails an implementation
\* that behaves: a refusal that Spawn observed (own exit, non-zero, reason
\* named) passes whichever design the arm uses, and a Runner that answers SV-SESS-BOOT-02's request with 403 gets at worst an error.
ConformingNeverFails ==
    /\ kind = "refuse" => R!RefusalNeverFails
    /\ kind = "boot" => B!ConformingNeverFails

\* While a launchProbeKill test polls or probes, nothing but the process
\* itself ends it: Spawn neither times out nor is told to proceed before.
NotCutOff == kind = "kill" => K!NotCutOff

\* The verdict is handed back with the process stopped and the port free.
NothingLeftRunning == Ended => proc # "running"

\* Every call returns: no goroutine waits for a channel the other never serves.
HandlerEnds == <>Ended
=============================================================================
