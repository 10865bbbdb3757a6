---------------------------- MODULE Spawn_proofs ----------------------------
(***************************************************************************)
(* Spawn for every timeout, horizon and set of exit codes: type            *)
(* correctness, the safety invariants the runs check, and the step         *)
(* simulation of Launch.  The inductive invariant SpawnInv says, for each  *)
(* control point, which fields of the Result may already be set and what   *)
(* may have happened to the child by then.                                 *)
(***************************************************************************)
EXTENDS Spawn, TLAPS

\* Which fields the Result carries at each control point.
ResultByPc ==
    /\ pc \in {"start", "select", "probe"} => res = Blank
    /\ pc \in {"kill", "reap"} => /\ ~res.startErr /\ ~res.exited /\ res.code = -1
                                  /\ ~(res.timedOut /\ res.ready)
                                  /\ res.timedOut \/ res.ready \/ ctxDone
    /\ res.timedOut => now > deadline
    /\ pc = "returned" => OutcomeExclusive

\* What has happened to the child at each control point.
ChildByPc ==
    /\ proc = "none" => pc = "start" \/ res.startErr
    /\ pc = "start" => proc = "none"
    /\ pc \in {"reap", "returned"} => proc # "running"
    /\ exitCh # "waiting" => proc \in {"exited", "killed"}
    /\ code # -1 => proc = "exited"
    /\ proc = "killed" /\ pc \in {"select", "probe", "kill"} => ctxDone
    /\ proc = "killed" => res.timedOut \/ res.ready \/ ctxDone
    /\ res.startErr => proc = "none"

\* How the Result relates to the child.
ResultOfChild ==
    /\ res.code # -1 => res.exited /\ res.code = code
    /\ res.exited => proc \in {"exited", "killed"} /\ res.code = code
    /\ res.exited /\ ~ctxDone => proc = "exited"
    /\ ctxDone => MayCancel

SpawnInv == TypeOK /\ ResultByPc /\ ChildByPc /\ ResultOfChild

-----------------------------------------------------------------------------
\* The invariant holds before Cmd.Start.
LEMMA InitInv == Init => SpawnInv
<1> SUFFICES ASSUME Init PROVE SpawnInv
    OBVIOUS
<1> USE SpawnAssumption DEF SpawnAssumption, Init, Blank
<1>1. TypeOK
  <2>1. res \in [startErr : BOOLEAN, exited : BOOLEAN, timedOut : BOOLEAN,
                 ready : BOOLEAN, code : Codes]
        BY DEF Codes
  <2>2. /\ pc \in PCs /\ proc \in {"none", "running", "exited", "killed"}
        /\ code \in Codes /\ held \in BOOLEAN /\ exitCh \in {"waiting", "full", "taken"}
        /\ ctxDone \in BOOLEAN /\ probeOk \in BOOLEAN
        BY DEF PCs, Codes
  <2>3. now \in 0 .. Horizon /\ deadline \in 0 .. Horizon
        OBVIOUS
  <2> QED BY <2>1, <2>2, <2>3 DEF TypeOK
<1>2. ResultByPc
      BY DEF ResultByPc
<1>3. ChildByPc
      BY DEF ChildByPc
<1>4. ResultOfChild
      BY DEF ResultOfChild
<1> QED
    BY <1>1, <1>2, <1>3, <1>4 DEF SpawnInv

\* Every step of the harness, the child or the clock preserves the invariant.
LEMMA NextInv == SpawnInv /\ [Next]_vars => SpawnInv'
<1> SUFFICES ASSUME SpawnInv, [Next]_vars
             PROVE  SpawnInv'
    OBVIOUS
<1> USE SpawnAssumption
        DEF SpawnAssumption, SpawnInv, PCs, Codes, Blank
<1>1a. CASE StartFails
  <2> USE <1>1a DEF StartFails
  <2>1. TypeOK'
        BY DEF TypeOK
  <2>2. ResultByPc'
        BY DEF TypeOK, ResultByPc, OutcomeExclusive
  <2>3. ChildByPc'
        BY DEF TypeOK, ChildByPc
  <2>4. ResultOfChild'
        BY DEF TypeOK, ResultByPc, ChildByPc, ResultOfChild
  <2> QED BY <2>1, <2>2, <2>3, <2>4
<1>1b. CASE StartWorks
  <2> USE <1>1b DEF StartWorks
  <2>a. held' \in BOOLEAN
        BY Zenon
  <2>b. deadline' \in 0 .. Horizon
        BY SMT DEF TypeOK
  <2>1. TypeOK'
        BY <2>a, <2>b DEF TypeOK
  <2>2. ResultByPc'
        BY DEF TypeOK, ResultByPc, OutcomeExclusive
  <2>3. ChildByPc'
        BY DEF TypeOK, ResultByPc, ChildByPc
  <2>4. ResultOfChild'
        BY DEF TypeOK, ResultByPc, ChildByPc, ResultOfChild
  <2> QED BY <2>1, <2>2, <2>3, <2>4
<1>2. CASE TakeExit
  <2> USE <1>2 DEF TakeExit
  <2>1. TypeOK'
        BY DEF TypeOK
  <2>2. ResultByPc'
        BY DEF TypeOK, ResultByPc, OutcomeExclusive
  <2>3. ChildByPc'
        BY DEF TypeOK, ChildByPc
  <2>4. ResultOfChild'
        BY DEF TypeOK, ResultByPc, ChildByPc, ResultOfChild
  <2> QED BY <2>1, <2>2, <2>3, <2>4
<1>3. CASE Poll
  <2> USE <1>3 DEF Poll, CheckDeadline
  <2>1. TypeOK'
        BY DEF TypeOK
  <2>2. ResultByPc'
        BY DEF TypeOK, ResultByPc, OutcomeExclusive
  <2>3. ChildByPc'
        BY DEF TypeOK, ChildByPc
  <2>4. ResultOfChild'
        BY DEF TypeOK, ResultByPc, ChildByPc, ResultOfChild
  <2> QED BY <2>1, <2>2, <2>3, <2>4
<1>4. CASE ProbeNil
  <2> USE <1>4 DEF ProbeNil
  <2>1. TypeOK'
        BY DEF TypeOK
  <2>2. ResultByPc'
        BY DEF TypeOK, ResultByPc, OutcomeExclusive
  <2>3. ChildByPc'
        BY DEF TypeOK, ChildByPc
  <2>4. ResultOfChild'
        BY DEF TypeOK, ResultByPc, ChildByPc, ResultOfChild
  <2> QED BY <2>1, <2>2, <2>3, <2>4
<1>5. CASE ProbeErr
  <2> USE <1>5 DEF ProbeErr, CheckDeadline
  <2>1. TypeOK'
        BY DEF TypeOK
  <2>2. ResultByPc'
        BY DEF TypeOK, ResultByPc, OutcomeExclusive
  <2>3. ChildByPc'
        BY DEF TypeOK, ChildByPc
  <2>4. ResultOfChild'
        BY DEF TypeOK, ResultByPc, ChildByPc, ResultOfChild
  <2> QED BY <2>1, <2>2, <2>3, <2>4
<1>6. CASE Cancelled
      BY <1>6 DEF Cancelled, TypeOK, ResultByPc, ChildByPc, ResultOfChild, OutcomeExclusive
<1>7. CASE Kill
      BY <1>7 DEF Kill, TypeOK, ResultByPc, ChildByPc, ResultOfChild, OutcomeExclusive
<1>8. CASE Reap
      BY <1>8 DEF Reap, TypeOK, ResultByPc, ChildByPc, ResultOfChild, OutcomeExclusive
<1>9. CASE Wait
      BY <1>9 DEF Wait, TypeOK, ResultByPc, ChildByPc, ResultOfChild, OutcomeExclusive
<1>10. CASE ExecKill
      BY <1>10 DEF ExecKill, TypeOK, ResultByPc, ChildByPc, ResultOfChild, OutcomeExclusive
<1>11. CASE Exit
      BY <1>11 DEF Exit, TypeOK, ResultByPc, ChildByPc, ResultOfChild, OutcomeExclusive
<1>12. CASE Flip
      BY <1>12 DEF Flip, TypeOK, ResultByPc, ChildByPc, ResultOfChild, OutcomeExclusive
<1>13. CASE Cancel
      BY <1>13 DEF Cancel, TypeOK, ResultByPc, ChildByPc, ResultOfChild, OutcomeExclusive
<1>14. CASE Tick
      BY <1>14 DEF Tick, TypeOK, ResultByPc, ChildByPc, ResultOfChild, OutcomeExclusive
<1>15. CASE UNCHANGED vars
      BY <1>15 DEF vars, TypeOK, ResultByPc, ChildByPc, ResultOfChild, OutcomeExclusive
<1> QED
    BY <1>1a, <1>2, <1>3, <1>4, <1>5, <1>6, <1>7, <1>8, <1>9, <1>10, <1>11, <1>12, <1>13, <1>14, <1>15, <1>1b DEF Next, Harness, Start

\* What the probe asks is no matter to the invariant.
LEMMA ProbeInv ==
    ASSUME SpawnInv, probeOk' \in BOOLEAN,
           UNCHANGED <<pc, proc, code, held, exitCh, ctxDone, now, deadline, res>>
    PROVE  SpawnInv'
BY DEF SpawnInv, TypeOK, ResultByPc, ChildByPc, ResultOfChild, OutcomeExclusive

\* A probe that fails while what it asks changes keeps the invariant all the same.
LEMMA ProbeErrInv ==
    ASSUME SpawnInv, pc = "probe", CheckDeadline, probeOk' \in BOOLEAN,
           UNCHANGED <<proc, code, held, exitCh, ctxDone, now, deadline>>
    PROVE  SpawnInv'
<1> USE SpawnAssumption DEF SpawnAssumption, SpawnInv, PCs, Codes, Blank, CheckDeadline
<1>1. TypeOK'
      BY DEF TypeOK
<1>2. ResultByPc'
      BY DEF TypeOK, ResultByPc, OutcomeExclusive
<1>3. ChildByPc' /\ ResultOfChild'
      BY DEF TypeOK, ResultByPc, ChildByPc, ResultOfChild
<1> QED BY <1>1, <1>2, <1>3

\* What every step of the select loop respects: it ends with its return, starts
\* the child at most once and with the deadline a timeout away.
LEMMA HarnessStep ==
    ASSUME SpawnInv, Harness
    PROVE  /\ pc # "returned" /\ pc' # "start" /\ now' = now /\ ctxDone' = ctxDone
           /\ proc = "none" => pc = "start"
           /\ proc # "none" => proc' # "none" /\ deadline' = deadline
           /\ proc = "none" /\ proc' = "none" => deadline' = deadline
           /\ proc = "none" /\ proc' # "none" => deadline' = now + Timeout
<1> USE DEF SpawnInv, TypeOK, ResultByPc, ChildByPc, Blank
<1>1. CASE Start
      BY <1>1 DEF Start, StartFails, StartWorks
<1>2. CASE TakeExit \/ Poll \/ ProbeNil \/ ProbeErr
      BY <1>2 DEF TakeExit, Poll, ProbeNil, ProbeErr, CheckDeadline
<1>3. CASE Cancelled \/ Kill \/ Reap
      BY <1>3 DEF Cancelled, Kill, Reap
<1> QED BY <1>1, <1>2, <1>3 DEF Harness

\* The invariant holds of every reachable state.
LEMMA InvHolds == Spec => []SpawnInv
BY InitInv, NextInv, PTL DEF Spec

-----------------------------------------------------------------------------
\* Type correctness of Spawn.
THEOREM SpawnTypeOK == Spec => []TypeOK
<1>1. SpawnInv => TypeOK
      BY DEF SpawnInv
<1> QED BY <1>1, InvHolds, PTL

\* A Result reports at most one way for the launch to have ended.
THEOREM SpawnOutcomeExclusive == Spec => []OutcomeExclusive
<1>1. SpawnInv => OutcomeExclusive
      BY DEF SpawnInv, TypeOK, PCs, ResultByPc, OutcomeExclusive, Blank
<1> QED BY <1>1, InvHolds, PTL

\* Spawn never returns with its child running.
THEOREM SpawnNoOrphan == Spec => []NoOrphan
<1>1. SpawnInv => NoOrphan
      BY DEF SpawnInv, ChildByPc, NoOrphan
<1> QED BY <1>1, InvHolds, PTL

\* An exit code other than -1 is the one the child itself chose.
THEOREM SpawnExitCodeHonest == Spec => []ExitCodeHonest
<1>1. SpawnInv => ExitCodeHonest
      BY DEF SpawnInv, ChildByPc, ResultOfChild, ExitCodeHonest
<1> QED BY <1>1, InvHolds, PTL

\* Exited is never the exit of the harness's own kill while the context lives.
THEOREM SpawnExitedWithoutKill == Spec => []ExitedWithoutKill
<1>1. SpawnInv => ExitedWithoutKill
      BY DEF SpawnInv, ResultOfChild, ExitedWithoutKill
<1> QED BY <1>1, InvHolds, PTL

\* The documented meaning of Exited holds for every caller whose context cannot
\* end, as the command's cannot: the run that violates it needs MayCancel.
THEOREM SpawnExitedMeansSelfExit ==
    ASSUME MayCancel = FALSE
    PROVE  Spec => []ExitedMeansSelfExit
<1>1. SpawnInv => ExitedMeansSelfExit
      BY DEF SpawnInv, TypeOK, ResultOfChild, ExitedMeansSelfExit
<1> QED BY <1>1, InvHolds, PTL

-----------------------------------------------------------------------------
\* Spawn's initial states and steps are Launch's, under the refinement mapping:
\* a step starts, stops or concludes the abstract launch, or leaves it alone.
LEMMA InitSimulates == Init => L!Init
BY DEF Init, L!Init, PhaseOf

\* A step of Spawn, from a state of the invariant, is a step of Launch or a stutter.
LEMMA NextSimulates ==
    SpawnInv /\ [Next]_vars => [L!Next]_L!vars
<1> SUFFICES ASSUME SpawnInv, [Next]_vars
             PROVE  [L!Next]_L!vars
    OBVIOUS
<1> USE DEF SpawnInv, TypeOK, PCs, L!Next, L!vars, L!Refuse, L!Begin, L!Die,
            L!Conclude, PhaseOf, Outcome
<1>1. CASE StartFails
      BY <1>1 DEF StartFails, ChildByPc
<1>2. CASE StartWorks
      BY <1>2 DEF StartWorks, ChildByPc
<1>3. CASE TakeExit
      BY <1>3 DEF TakeExit, ChildByPc, ResultByPc, Blank
<1>4. CASE Poll
      BY <1>4 DEF Poll, CheckDeadline
<1>5. CASE ProbeNil
      BY <1>5 DEF ProbeNil
<1>6. CASE ProbeErr
      BY <1>6 DEF ProbeErr, CheckDeadline
<1>7. CASE Cancelled
      BY <1>7 DEF Cancelled
<1>8. CASE Kill
      BY <1>8 DEF Kill
<1>9. CASE Reap
      BY <1>9 DEF Reap, ChildByPc, ResultByPc
<1>10. CASE Wait
      BY <1>10 DEF Wait
<1>11. CASE ExecKill
      BY <1>11 DEF ExecKill
<1>12. CASE Exit
      BY <1>12 DEF Exit
<1>13. CASE Flip \/ Cancel \/ Tick
      BY <1>13 DEF Flip, Cancel, Tick
<1>14. CASE UNCHANGED vars
      BY <1>14 DEF vars
<1> QED
    BY <1>1, <1>2, <1>3, <1>4, <1>5, <1>6, <1>7, <1>8, <1>9, <1>10, <1>11, <1>12,
       <1>13, <1>14 DEF Next, Harness, Start

\* Spawn implements Launch: it concludes once, with one outcome, and only with
\* the child stopped.
THEOREM SpawnImplementsLaunch == Spec => ImplementsLaunch
BY InitSimulates, NextSimulates, InvHolds, PTL DEF Spec, ImplementsLaunch, L!Spec
=============================================================================
