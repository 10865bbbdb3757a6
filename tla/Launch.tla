------------------------------- MODULE Launch -------------------------------
(***************************************************************************)
(* What one launch of the implementation under test promises its caller,   *)
(* whichever of the two lifecycles of internal/subprocrunner runs it: the  *)
(* call returns once, with one outcome that never changes afterwards, and  *)
(* the process it started is no longer running by then.  Spawn and         *)
(* KillAtMarker each implement this specification.                         *)
(***************************************************************************)

CONSTANT Outcomes      \* the outcomes the lifecycle can report besides startErr

VARIABLES
    phase,             \* "idle", "running" or "returned"
    alive,             \* the started process is running
    outcome            \* "none" until the call returns

vars == <<phase, alive, outcome>>

TypeOK ==
    /\ phase \in {"idle", "running", "returned"}
    /\ alive \in BOOLEAN
    /\ outcome \in Outcomes \cup {"none", "startErr"}

Init == phase = "idle" /\ ~alive /\ outcome = "none"

\* cmd.Start fails: the call returns at once.
Refuse ==
    /\ phase = "idle"
    /\ phase' = "returned" /\ outcome' = "startErr"
    /\ UNCHANGED alive

Begin ==
    /\ phase = "idle"
    /\ phase' = "running" /\ alive' = TRUE
    /\ UNCHANGED outcome

\* The process stops: by itself, or killed.
Die ==
    /\ alive /\ alive' = FALSE
    /\ UNCHANGED <<phase, outcome>>

Conclude ==
    /\ phase = "running" /\ ~alive
    /\ phase' = "returned" /\ outcome' \in Outcomes
    /\ UNCHANGED alive

Next == Refuse \/ Begin \/ Die \/ Conclude

Spec == Init /\ [][Next]_vars

\* Every launch that starts its process returns.
Concludes == phase = "running" ~> phase = "returned"
=============================================================================
