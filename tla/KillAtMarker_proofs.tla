------------------------- MODULE KillAtMarker_proofs -------------------------
(***************************************************************************)
(* SpawnUntilMarker for every script of markers, timeout and descendant:   *)
(* the invariants the run checks, the kill that needs its marker, and the  *)
(* step simulation of Launch.  The inductive invariant KillInv follows the *)
(* evidence: a line with the marker is among those scanned before the      *)
(* channel is filled, the channel is taken before MarkerSeen is set, and   *)
(* the loop comes to its kill only with that, a deadline behind or a       *)
(* context that has ended.                                                 *)
(***************************************************************************)
EXTENDS KillAtMarker, TLAPS

\* Where the marker is known from.
SeenByScan ==
    /\ markerCh # "empty" => MarkerIn(scanned)
    /\ res.markerSeen => markerCh = "taken"

\* What the result carries at each control point, and why the loop is there.
ResultByPc ==
    /\ pc # "returned" => ~res.startErr
    /\ pc = "start" => ~res.markerSeen
    /\ pc = "delay" => res.markerSeen
    /\ pc = "kill" => res.markerSeen \/ now > deadline \/ ctxDone
    /\ pc = "returned" => IF res.startErr THEN ~res.markerSeen /\ proc = "none"
                          ELSE scan = "done" /\ res.observed = scanned

\* What has happened to the child at each control point.
ChildByPc ==
    /\ pc = "start" => proc = "none"
    /\ proc = "none" => pc = "start" \/ res.startErr
    /\ pc \in {"reap", "drain", "returned"} => proc # "running"
    /\ exitCh # "waiting" => proc \in {"exited", "killed"}
    /\ serving => proc = "running"

\* How many requests the driver can have got through.
DrivenByDriver ==
    /\ pc = "start" => driver = "off"
    /\ driver \in {"off", "polling", "answered", "minting"} => driven = 0
    /\ driver = "posting" => driven <= 1

KillInv == TypeOK /\ SeenByScan /\ ResultByPc /\ ChildByPc /\ DrivenByDriver

-----------------------------------------------------------------------------
\* A marker that was read stays read.
LEMMA MarkerStays ==
    ASSUME NEW m \in Nat, NEW n \in Nat, m <= n, MarkerIn(m)
    PROVE  MarkerIn(n)
BY DEF MarkerIn

\* The script has a length.
LEMMA ScriptLength == Len(Script) \in Nat
BY KillAtMarkerAssumption DEF KillAtMarkerAssumption

\* The invariant holds before Cmd.Start.
LEMMA InitInv == Init => KillInv
<1> SUFFICES ASSUME Init PROVE KillInv
    OBVIOUS
<1> USE KillAtMarkerAssumption, ScriptLength DEF KillAtMarkerAssumption, Init, Blank
<1>1. TypeOK
  <2>1. res \in Results
        BY DEF Results, Codes
  <2>2. /\ held \in BOOLEAN /\ ctxDone \in BOOLEAN /\ serving \in BOOLEAN
        /\ foreign \in BOOLEAN /\ fired \in BOOLEAN /\ strayed \in BOOLEAN
        BY Zenon
  <2>3. emitted \in 0 .. Len(Script) /\ scanned \in 0 .. emitted
        BY SMT
  <2>4. now \in 0 .. Horizon /\ deadline \in 0 .. Horizon /\ driven \in 0 .. 2
        BY SMT
  <2> QED BY <2>1, <2>2, <2>3, <2>4 DEF TypeOK, PCs, Codes
<1>2. SeenByScan /\ ResultByPc /\ ChildByPc /\ DrivenByDriver
      BY DEF SeenByScan, ResultByPc, ChildByPc, DrivenByDriver
<1> QED
    BY <1>1, <1>2 DEF KillInv

\* What another process does with the port is no matter to the invariant.
LEMMA ForeignInv ==
    ASSUME KillInv, foreign' \in BOOLEAN,
           UNCHANGED <<loopVars, procVars, streamVars, driverVars, ctxDone, now>>
    PROVE  KillInv'
BY DEF KillInv, TypeOK, SeenByScan, ResultByPc, ChildByPc, DrivenByDriver, MarkerIn,
       loopVars, procVars, streamVars, driverVars

\* The clock passing is none either.
LEMMA TickInv ==
    ASSUME KillInv, now' \in 0 .. Horizon, now' >= now, foreign' \in BOOLEAN,
           UNCHANGED <<loopVars, procVars, streamVars, driverVars, ctxDone>>
    PROVE  KillInv'
BY KillAtMarkerAssumption
   DEF KillInv, TypeOK, SeenByScan, ResultByPc, ChildByPc, DrivenByDriver, MarkerIn,
       loopVars, procVars, streamVars, driverVars, KillAtMarkerAssumption

\* Every step of the select loop keeps the invariant.
LEMMA LoopInv == KillInv /\ Loop => KillInv'
<1> SUFFICES ASSUME KillInv, Loop PROVE KillInv'
    OBVIOUS
<1> USE ScriptLength
        DEF KillInv, PCs, Codes, MarkerIn, loopVars, procVars,
            streamVars, driverVars, envVars
<1>1. CASE StartFails
  <2> USE <1>1 DEF StartFails
  <2>1. res' \in Results
        BY DEF TypeOK, Results
  <2>1a. TypeOK'
        BY <2>1 DEF TypeOK
  <2>2. SeenByScan' /\ ResultByPc'
        BY DEF TypeOK, SeenByScan, ResultByPc, ChildByPc
  <2>3. ChildByPc' /\ DrivenByDriver'
        BY DEF TypeOK, ResultByPc, ChildByPc, DrivenByDriver
  <2> QED BY <2>1a, <2>2, <2>3
<1>2. CASE StartWorks
  <2> USE <1>2 DEF StartWorks
  <2>a. held' \in BOOLEAN
        BY Zenon
  <2>b. now' \in 0 .. Horizon /\ deadline' \in 0 .. Horizon
        BY KillAtMarkerAssumption DEF KillAtMarkerAssumption, TypeOK
  <2>1. TypeOK'
        BY <2>a, <2>b DEF TypeOK
  <2>2. SeenByScan' /\ ResultByPc'
        BY DEF TypeOK, SeenByScan, ResultByPc, ChildByPc
  <2>3. ChildByPc' /\ DrivenByDriver'
        BY DEF TypeOK, ResultByPc, ChildByPc, DrivenByDriver
  <2> QED BY <2>1, <2>2, <2>3
<1>3. CASE TakeExit
  <2> USE <1>3 DEF TakeExit
  <2>1. res' \in Results
        BY DEF TypeOK, Results
  <2>1a. TypeOK'
        BY <2>1 DEF TypeOK
  <2>2. SeenByScan' /\ ResultByPc'
        BY DEF TypeOK, SeenByScan, ResultByPc, ChildByPc
  <2>3. ChildByPc' /\ DrivenByDriver'
        BY DEF TypeOK, ResultByPc, ChildByPc, DrivenByDriver
  <2> QED BY <2>1a, <2>2, <2>3
<1>4. CASE TakeMarker
  <2> USE <1>4 DEF TakeMarker
  <2>1. res' \in Results
        BY DEF TypeOK, Results
  <2>1a. TypeOK'
        BY <2>1 DEF TypeOK
  <2>2. SeenByScan' /\ ResultByPc'
        BY DEF TypeOK, SeenByScan, ResultByPc, ChildByPc
  <2>3. ChildByPc' /\ DrivenByDriver'
        BY DEF TypeOK, ResultByPc, ChildByPc, DrivenByDriver
  <2> QED BY <2>1a, <2>2, <2>3
<1>5. CASE DelayEnds
  <2> USE <1>5 DEF DelayEnds
  <2>1. TypeOK'
        BY DEF TypeOK
  <2>2. SeenByScan' /\ ResultByPc'
        BY DEF TypeOK, SeenByScan, ResultByPc, ChildByPc
  <2>3. ChildByPc' /\ DrivenByDriver'
        BY DEF TypeOK, ResultByPc, ChildByPc, DrivenByDriver
  <2> QED BY <2>1, <2>2, <2>3
<1>6. CASE TimeOut
  <2> USE <1>6 DEF TimeOut
  <2>1. res' \in Results
        BY DEF TypeOK, Results
  <2>1a. TypeOK'
        BY <2>1 DEF TypeOK
  <2>2. SeenByScan' /\ ResultByPc'
        BY DEF TypeOK, SeenByScan, ResultByPc, ChildByPc
  <2>3. ChildByPc' /\ DrivenByDriver'
        BY DEF TypeOK, ResultByPc, ChildByPc, DrivenByDriver
  <2> QED BY <2>1a, <2>2, <2>3
<1>7. CASE Cancelled
  <2> USE <1>7 DEF Cancelled
  <2>1. TypeOK'
        BY DEF TypeOK
  <2>2. SeenByScan' /\ ResultByPc'
        BY DEF TypeOK, SeenByScan, ResultByPc, ChildByPc
  <2>3. ChildByPc' /\ DrivenByDriver'
        BY DEF TypeOK, ResultByPc, ChildByPc, DrivenByDriver
  <2> QED BY <2>1, <2>2, <2>3
<1>8. CASE Kill
  <2> USE <1>8 DEF Kill
  <2>a. serving' \in BOOLEAN
        BY Zenon
  <2>1. TypeOK'
        BY <2>a DEF TypeOK
  <2>2. SeenByScan' /\ ResultByPc'
        BY DEF TypeOK, SeenByScan, ResultByPc, ChildByPc
  <2>3. ChildByPc' /\ DrivenByDriver'
        BY DEF TypeOK, ResultByPc, ChildByPc, DrivenByDriver
  <2> QED BY <2>1, <2>2, <2>3
<1>9. CASE Reap
  <2> USE <1>9 DEF Reap
  <2>1. res' \in Results
        BY DEF TypeOK, Results
  <2>1a. TypeOK'
        BY <2>1 DEF TypeOK
  <2>2. SeenByScan' /\ ResultByPc'
        BY DEF TypeOK, SeenByScan, ResultByPc, ChildByPc
  <2>3. ChildByPc' /\ DrivenByDriver'
        BY DEF TypeOK, ResultByPc, ChildByPc, DrivenByDriver
  <2> QED BY <2>1a, <2>2, <2>3
<1>10. CASE Drain
  <2> USE <1>10 DEF Drain
  <2>a. scanned \in 0 .. Len(Script) /\ fired \in BOOLEAN
        BY DEF TypeOK
  <2>1. res' \in Results
        BY <2>a DEF TypeOK, Results
  <2>1a. TypeOK'
        BY <2>1 DEF TypeOK
  <2>2. SeenByScan' /\ ResultByPc'
        BY DEF TypeOK, SeenByScan, ResultByPc, ChildByPc
  <2>3. ChildByPc' /\ DrivenByDriver'
        BY DEF TypeOK, ResultByPc, ChildByPc, DrivenByDriver
  <2> QED BY <2>1a, <2>2, <2>3
<1> QED
    BY <1>1, <1>2, <1>3, <1>4, <1>5, <1>6, <1>7, <1>8, <1>9, <1>10 DEF Loop, Start

\* So does every step of the scanner, the waiter and the driver.
LEMMA GoroutineInv == KillInv /\ Goroutine => KillInv'
<1> SUFFICES ASSUME KillInv, Goroutine PROVE KillInv'
    OBVIOUS
<1> USE ScriptLength
        DEF KillInv, PCs, Codes, loopVars, procVars,
            streamVars, driverVars, envVars
<1>1. CASE ScanLine
  <2> USE <1>1 DEF ScanLine
  <2>1. TypeOK'
        BY DEF TypeOK, DrivenByDriver
  <2>2. SeenByScan' /\ ResultByPc'
        BY DEF TypeOK, SeenByScan, ResultByPc, ChildByPc, MarkerIn
  <2>3. ChildByPc' /\ DrivenByDriver'
        BY DEF TypeOK, ResultByPc, ChildByPc, DrivenByDriver, AfterRequest
  <2> QED BY <2>1, <2>2, <2>3
<1>2. CASE ScanEnd
  <2> USE <1>2 DEF ScanEnd
  <2>1. TypeOK'
        BY DEF TypeOK, DrivenByDriver
  <2>2. SeenByScan' /\ ResultByPc'
        BY DEF TypeOK, SeenByScan, ResultByPc, ChildByPc, MarkerIn
  <2>3. ChildByPc' /\ DrivenByDriver'
        BY DEF TypeOK, ResultByPc, ChildByPc, DrivenByDriver, AfterRequest
  <2> QED BY <2>1, <2>2, <2>3
<1>3. CASE Wait
  <2> USE <1>3 DEF Wait
  <2>1. TypeOK'
        BY DEF TypeOK, DrivenByDriver
  <2>2. SeenByScan' /\ ResultByPc'
        BY DEF TypeOK, SeenByScan, ResultByPc, ChildByPc, MarkerIn
  <2>3. ChildByPc' /\ DrivenByDriver'
        BY DEF TypeOK, ResultByPc, ChildByPc, DrivenByDriver, AfterRequest
  <2> QED BY <2>1, <2>2, <2>3
<1>4. CASE Answered
  <2> USE <1>4 DEF Answered
  <2>1. TypeOK'
        BY DEF TypeOK, DrivenByDriver
  <2>2. SeenByScan' /\ ResultByPc'
        BY DEF TypeOK, SeenByScan, ResultByPc, ChildByPc, MarkerIn
  <2>3. ChildByPc' /\ DrivenByDriver'
        BY DEF TypeOK, ResultByPc, ChildByPc, DrivenByDriver, AfterRequest
  <2> QED BY <2>1, <2>2, <2>3
<1>5. CASE Fire
  <2> USE <1>5 DEF Fire
  <2>1. TypeOK'
        BY DEF TypeOK, DrivenByDriver
  <2>2. SeenByScan' /\ ResultByPc'
        BY DEF TypeOK, SeenByScan, ResultByPc, ChildByPc, MarkerIn
  <2>3. ChildByPc' /\ DrivenByDriver'
        BY DEF TypeOK, ResultByPc, ChildByPc, DrivenByDriver, AfterRequest
  <2> QED BY <2>1, <2>2, <2>3
<1>6. CASE StopPolling
  <2> USE <1>6 DEF StopPolling
  <2>1. TypeOK'
        BY DEF TypeOK, DrivenByDriver
  <2>2. SeenByScan' /\ ResultByPc'
        BY DEF TypeOK, SeenByScan, ResultByPc, ChildByPc, MarkerIn
  <2>3. ChildByPc' /\ DrivenByDriver'
        BY DEF TypeOK, ResultByPc, ChildByPc, DrivenByDriver, AfterRequest
  <2> QED BY <2>1, <2>2, <2>3
<1>7. CASE Request
  <2> USE <1>7 DEF Request
  <2>a. strayed' \in BOOLEAN
        BY Zenon DEF TypeOK
  <2>b. driven' \in 0 .. 2
        BY DEF TypeOK, DrivenByDriver
  <2>1. TypeOK'
        BY <2>a, <2>b DEF TypeOK, AfterRequest
  <2>2. SeenByScan' /\ ResultByPc'
        BY DEF TypeOK, SeenByScan, ResultByPc, ChildByPc, MarkerIn
  <2>3. ChildByPc' /\ DrivenByDriver'
        BY DEF TypeOK, ResultByPc, ChildByPc, DrivenByDriver, AfterRequest
  <2> QED BY <2>1, <2>2, <2>3
<1> QED
    BY <1>1, <1>2, <1>3, <1>4, <1>5, <1>6, <1>7 DEF Goroutine, Driver

\* And of the process itself.
LEMMA ProcessInv == KillInv /\ Process => KillInv'
<1> SUFFICES ASSUME KillInv, Process PROVE KillInv'
    OBVIOUS
<1> USE ScriptLength
        DEF KillInv, PCs, Codes, loopVars, procVars,
            streamVars, driverVars, envVars
<1>1. CASE Boot
  <2> USE <1>1 DEF Boot
  <2>1. TypeOK'
        BY DEF TypeOK, DrivenByDriver
  <2>2. SeenByScan' /\ ResultByPc'
        BY DEF TypeOK, SeenByScan, ResultByPc, ChildByPc, MarkerIn
  <2>3. ChildByPc' /\ DrivenByDriver'
        BY DEF TypeOK, ResultByPc, ChildByPc, DrivenByDriver, AfterRequest
  <2> QED BY <2>1, <2>2, <2>3
<1>2. CASE Emit
  <2> USE <1>2 DEF Emit
  <2>1. TypeOK'
        BY DEF TypeOK, DrivenByDriver
  <2>2. SeenByScan' /\ ResultByPc'
        BY DEF TypeOK, SeenByScan, ResultByPc, ChildByPc, MarkerIn
  <2>3. ChildByPc' /\ DrivenByDriver'
        BY DEF TypeOK, ResultByPc, ChildByPc, DrivenByDriver, AfterRequest
  <2> QED BY <2>1, <2>2, <2>3
<1>3. CASE Exit
  <2> USE <1>3 DEF Exit
  <2>a. serving' \in BOOLEAN
        BY Zenon
  <2>1. TypeOK'
        BY <2>a DEF TypeOK
  <2>2. SeenByScan' /\ ResultByPc'
        BY DEF TypeOK, SeenByScan, ResultByPc, ChildByPc, MarkerIn
  <2>3. ChildByPc' /\ DrivenByDriver'
        BY DEF TypeOK, ResultByPc, ChildByPc, DrivenByDriver, AfterRequest
  <2> QED BY <2>1, <2>2, <2>3
<1>4. CASE ExecKill
  <2> USE <1>4 DEF ExecKill
  <2>a. serving' \in BOOLEAN
        BY Zenon
  <2>1. TypeOK'
        BY <2>a DEF TypeOK
  <2>2. SeenByScan' /\ ResultByPc'
        BY DEF TypeOK, SeenByScan, ResultByPc, ChildByPc, MarkerIn
  <2>3. ChildByPc' /\ DrivenByDriver'
        BY DEF TypeOK, ResultByPc, ChildByPc, DrivenByDriver, AfterRequest
  <2> QED BY <2>1, <2>2, <2>3
<1> QED
    BY <1>1, <1>2, <1>3, <1>4 DEF Process

\* The invariant is inductive.
LEMMA NextInv == KillInv /\ [Next]_vars => KillInv'
<1> SUFFICES ASSUME KillInv, [Next]_vars PROVE KillInv'
    OBVIOUS
<1>1. CASE Loop \/ Goroutine \/ Process
      BY <1>1, LoopInv, GoroutineInv, ProcessInv
<1>2. CASE Cancel
      BY <1>2 DEF Cancel, KillInv, TypeOK, SeenByScan, ResultByPc, ChildByPc, DrivenByDriver,
                  MarkerIn, loopVars, procVars, streamVars, driverVars
<1>3. CASE Tick
  <2>1. now' \in 0 .. Horizon /\ now' >= now /\ foreign' \in BOOLEAN
        BY <1>3, KillAtMarkerAssumption DEF Tick, KillInv, TypeOK, KillAtMarkerAssumption
  <2> QED BY <1>3, <2>1, TickInv DEF Tick
<1>4. CASE Usurp
      BY <1>4, ForeignInv DEF Usurp, KillInv, TypeOK
<1>5. CASE UNCHANGED vars
      BY <1>5, ForeignInv DEF vars, envVars, KillInv, TypeOK
<1> QED BY <1>1, <1>2, <1>3, <1>4, <1>5 DEF Next

\* What every step of the select loop respects: it ends with its return, and
\* starts the child with the deadline a timeout away.
LEMMA LoopStep ==
    ASSUME KillInv, Loop
    PROVE  /\ pc # "returned" /\ pc' # "start" /\ now' = now /\ ctxDone' = ctxDone
           /\ deadline' = deadline \/ (pc = "start" /\ deadline' = now + Timeout)
<1> USE DEF Loop, loopVars, envVars
<1>1. CASE Start
      BY <1>1 DEF Start, StartFails, StartWorks
<1>2. CASE ~Start
      BY <1>2 DEF TakeExit, TakeMarker, DelayEnds, TimeOut, Cancelled, Kill, Reap, Drain
<1> QED BY <1>1, <1>2

\* Its goroutines and the process leave the loop's control point, its deadline
\* and its result alone, and bring no child back.
LEMMA OthersStep ==
    ASSUME KillInv, Goroutine \/ Process
    PROVE  /\ pc' = pc /\ deadline' = deadline /\ res' = res
           /\ now' = now /\ ctxDone' = ctxDone
           /\ proc # "running" => proc' = proc
<1>1. CASE Goroutine
      BY <1>1 DEF Goroutine, ScanLine, ScanEnd, Wait, Driver, Answered, Fire, StopPolling,
         Request, loopVars, procVars, envVars
<1>2. CASE Process
      BY <1>2 DEF Process, Boot, Emit, Exit, ExecKill, loopVars, procVars, envVars
<1> QED BY <1>1, <1>2

\* The invariant holds of every reachable state.
LEMMA InvHolds == Spec => []KillInv
BY InitInv, NextInv, PTL DEF Spec

-----------------------------------------------------------------------------
\* Type correctness of SpawnUntilMarker.
THEOREM KillTypeOK == Spec => []TypeOK
<1>1. KillInv => TypeOK
      BY DEF KillInv
<1> QED BY <1>1, InvHolds, PTL

\* MarkerSeen is backed by a line the scanner read and the result reports.
THEOREM KillSeenIsEvidenced == Spec => []SeenIsEvidenced
<1>1. KillInv => SeenIsEvidenced
      BY DEF KillInv, TypeOK, SeenByScan, ResultByPc, SeenIsEvidenced
<1> QED BY <1>1, InvHolds, PTL

\* When the call has returned nothing more is read: ObservedMarkers is complete.
THEOREM KillScannerQuiet == Spec => []ScannerQuiet
<1>1. KillInv => ScannerQuiet
      BY DEF KillInv, ResultByPc, ScannerQuiet
<1> QED BY <1>1, InvHolds, PTL

\* The harness kills no process whose marker it has not read, but at the
\* deadline or with its context.
THEOREM KillKillNeedsMarker == Spec => KillNeedsMarker
<1> DEFINE Due == proc = "running" /\ proc' = "killed" =>
                      MarkerIn(scanned) \/ now > deadline \/ ctxDone
<1>1. ASSUME KillInv, [Next]_vars, proc = "running", proc' = "killed"
      PROVE  MarkerIn(scanned) \/ now > deadline \/ ctxDone
  <2>1. CASE Kill
        BY <1>1, <2>1 DEF Kill, KillInv, TypeOK, SeenByScan, ResultByPc
  <2>2. CASE ExecKill
        BY <2>2 DEF ExecKill
  <2>3. CASE ~Kill /\ ~ExecKill
        BY <1>1, <2>3 DEF Next, Loop, Start, StartFails, StartWorks, TakeExit, TakeMarker,
           DelayEnds, TimeOut, Cancelled, Reap, Drain, Goroutine, ScanLine, ScanEnd, Wait,
           Driver, Answered, Fire, StopPolling, Request, Process, Boot, Emit, Exit, Cancel,
           Tick, Usurp, vars, loopVars, procVars
  <2> QED BY <2>1, <2>2, <2>3
<1>2. KillInv /\ [Next]_vars => [Due]_vars
      BY <1>1
<1> QED BY <1>2, InvHolds, PTL DEF Spec, KillNeedsMarker

-----------------------------------------------------------------------------
\* Under the refinement mapping the call is idle, running or returned.
LEMMA InitSimulates == Init => L!Init
BY DEF Init, L!Init, PhaseOf

\* What concludes the call concludes Launch; what stops the process stops it.
LEMMA NextSimulates ==
    KillInv /\ [Next]_vars => [L!Next]_L!vars
<1> SUFFICES ASSUME KillInv, [Next]_vars
             PROVE  [L!Next]_L!vars
    OBVIOUS
<1> USE DEF KillInv, L!Next, L!vars, L!Refuse, L!Begin, L!Die, L!Conclude, PhaseOf,
            OutcomeOf, loopVars, procVars, streamVars, driverVars, envVars
<1>1. CASE StartFails
      BY <1>1 DEF StartFails, TypeOK, Results
<1>2. CASE StartWorks
      BY <1>2 DEF StartWorks, ChildByPc
<1>3. CASE TakeExit \/ TakeMarker \/ DelayEnds \/ TimeOut \/ Cancelled \/ Reap
      BY <1>3 DEF TakeExit, TakeMarker, DelayEnds, TimeOut, Cancelled, Reap
<1>4. CASE Kill
      BY <1>4 DEF Kill
<1>5. CASE Drain
  <2>1. /\ res'.startErr = FALSE /\ res'.exited = res.exited
        /\ res'.timedOut = res.timedOut /\ res'.killed = res.killed
        BY <1>5 DEF Drain, TypeOK, Results, ResultByPc
  <2> QED BY <1>5, <2>1 DEF Drain, ChildByPc
<1>6. CASE Goroutine
      BY <1>6 DEF Goroutine, ScanLine, ScanEnd, Wait, Driver, Answered, Fire, StopPolling,
                  Request
<1>7. CASE Process
      BY <1>7 DEF Process, Boot, Emit, Exit, ExecKill
<1>8. CASE Cancel \/ Tick \/ Usurp
      BY <1>8 DEF Cancel, Tick, Usurp
<1>9. CASE UNCHANGED vars
      BY <1>9 DEF vars
<1> QED
    BY <1>1, <1>2, <1>3, <1>4, <1>5, <1>6, <1>7, <1>8, <1>9 DEF Next, Loop, Start

\* SpawnUntilMarker implements Launch: it concludes once, with one outcome, and
\* only with the process stopped.
THEOREM KillImplementsLaunch == Spec => ImplementsLaunch
BY InitSimulates, NextSimulates, InvHolds, PTL DEF Spec, ImplementsLaunch, L!Spec
=============================================================================
