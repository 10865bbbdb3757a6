-------------------------- MODULE TwoLaunches_proofs --------------------------
(***************************************************************************)
(* The handlers that launch twice, for every timeout and window, exit code *)
(* and script of markers.  Each launch is the proved one (Spawn_proofs,    *)
(* KillAtMarker_proofs), instantiated with the handler's timeout and       *)
(* probe.  What is added here relates the two: the second begins only      *)
(* after the first has returned, its deadline lies beyond the handler's    *)
(* window, and what the handler found points back to what the first left.  *)
(***************************************************************************)
EXTENDS TwoLaunches, TLAPS

\* RunCrashRecovery's two launches,
KC == INSTANCE KillAtMarker_proofs WITH
        Timeout <- FirstTimeout, MayFork <- FALSE, MayCancel <- FALSE, MayUsurp <- FALSE,
        PreKill <- TRUE, HasDriver <- TRUE, foreign <- C!serving2
SC == INSTANCE Spawn_proofs WITH
        Timeout <- C!SpawnTimeout, HasProbe <- TRUE, AsksChild <- FALSE, MayFork <- FALSE,
        MayCancel <- FALSE, pc <- pc2, proc <- proc2, code <- code2, held <- held2,
        exitCh <- exitCh2, deadline <- deadline2, probeOk <- proceed, res <- res2

\* SV-STR-10's,
S1 == INSTANCE Spawn_proofs WITH
        Timeout <- StrTimeout, HasProbe <- TRUE, AsksChild <- FALSE, MayFork <- TRUE,
        MayCancel <- FALSE, probeOk <- driveOnce
S2 == INSTANCE Spawn_proofs WITH
        Timeout <- StrHold, HasProbe <- TRUE, AsksChild <- FALSE, MayFork <- TRUE,
        MayCancel <- FALSE, pc <- pc2, proc <- proc2, code <- code2, held <- held2,
        exitCh <- exitCh2, deadline <- deadline2, probeOk <- driveOnce, res <- res2

\* and SV-SESS-09's.
D1 == INSTANCE Spawn_proofs WITH
        Timeout <- MintTimeout, HasProbe <- TRUE, AsksChild <- FALSE, MayFork <- TRUE,
        MayCancel <- FALSE, probeOk <- up
D2 == INSTANCE Spawn_proofs WITH
        Timeout <- ScanTimeout, HasProbe <- TRUE, AsksChild <- FALSE, MayFork <- TRUE,
        MayCancel <- FALSE, pc <- pc2, proc <- proc2, code <- code2, held <- held2,
        exitCh <- exitCh2, deadline <- deadline2, probeOk <- up2, res <- res2

-----------------------------------------------------------------------------
\* RunCrashRecovery: where the sequence is, what it has found, and the clock
\* between its windows and the deadlines of the two launches.
CrashOrder ==
    /\ outer \in {"first", "poll", "probe", "collect", "done"}
    /\ recovery \in [started : BOOLEAN, ready : BOOLEAN, pass : BOOLEAN]
    /\ outer = "first" => ~recovery.started
    /\ outer \in {"poll", "probe", "collect"} => recovery.started
    /\ outer # "first" => pc = "returned"
    /\ recovery.started => res.markerSeen
    /\ ~recovery.started => pc2 = "start" /\ proc2 = "none"
    /\ outer = "done" /\ recovery.started => pc2 = "returned"
CrashFound ==
    /\ up2 \in BOOLEAN /\ (up2 => proc2 # "none")
    /\ recovery.ready => up2
CrashTimes ==
    /\ readyBy \in 0 .. Horizon
    /\ outer = "first" => now <= deadline + 1 /\ deadline <= FirstTimeout
    /\ pc = "start" => now = 0 /\ deadline = 0
    /\ outer \in {"poll", "probe"} => now <= readyBy
    /\ outer \in {"poll", "probe"} /\ pc2 = "start" => readyBy = now + RelaunchTimeout
    /\ outer \in {"poll", "probe"} /\ proc2 # "none" => readyBy < deadline2
    /\ recovery.started /\ ~proceed => outer \in {"poll", "probe"}
CrashInv == KC!KillInv /\ SC!SpawnInv /\ CrashOrder /\ CrashFound /\ CrashTimes

\* SV-STR-10.
StrOrder ==
    /\ outer \in {"first", "poll", "settle", "done"} /\ verdict \in {"none", "fail", "pass"}
    /\ outer = "first" => pc2 = "start" /\ proc2 = "none"
    /\ outer # "first" => pc = "returned"
StrFound ==
    /\ up \in BOOLEAN /\ up2 \in BOOLEAN /\ slow \in BOOLEAN /\ driveOnce \in BOOLEAN
    /\ bracket \in BOOLEAN /\ event \in BOOLEAN /\ drive \in {"none", "minting", "posting", "done"}
    /\ event => bracket
    /\ bracket => proc # "none"
    /\ verdict = "pass" => bracket /\ up2 /\ outer # "first"
StrTimes ==
    /\ readyBy \in 0 .. Horizon
    /\ outer = "first" => now <= deadline + 1 /\ deadline <= StrTimeout
    /\ pc = "start" => now = 0 /\ deadline = 0
    /\ outer = "poll" => now <= readyBy
    /\ outer = "poll" /\ pc2 = "start" => readyBy = now + StrWindow
    /\ outer = "poll" /\ proc2 # "none" => readyBy <= deadline2
StrInv == S1!SpawnInv /\ S2!SpawnInv /\ StrOrder /\ StrFound /\ StrTimes

\* SV-SESS-09.
DriftOrder ==
    /\ outer \in {"mint", "scan", "lookup", "done"} /\ verdict \in {"none", "skip", "pass"}
    /\ outer = "mint" => pc2 = "start" /\ proc2 = "none"
    /\ outer # "mint" => pc = "returned"
    /\ outer \in {"scan", "lookup"} => res.ready
    /\ outer \in {"lookup", "done"} => proc2 # "running"
DriftFound ==
    /\ stored \in BOOLEAN /\ ready2 \in BOOLEAN /\ scan2 \in BOOLEAN
    /\ minted \in {"no", "lost", "ok"} /\ cited2 \in {"nothing", "digest", "failed", "drift"}
    /\ cited2 \in {"failed", "drift"} => stored /\ scan2
    /\ verdict = "pass" => res.ready /\ stored /\ scan2 /\ outer \in {"lookup", "done"}
DriftInv == D1!SpawnInv /\ D2!SpawnInv /\ DriftOrder /\ DriftFound

LaunchInv ==
    \/ kind = "crash" /\ CrashInv /\ NoStr /\ NoDrift /\ NoProbe
    \/ kind = "str" /\ StrInv /\ NoCrash /\ NoDrift
    \/ kind = "drift" /\ DriftInv /\ NoCrash /\ NoStr /\ readyBy = 0

-----------------------------------------------------------------------------
\* The constants are what the launches assume of them.
LEMMA Assumptions ==
    /\ KC!KillAtMarkerAssumption /\ SC!SpawnAssumption
    /\ S1!SpawnAssumption /\ S2!SpawnAssumption /\ D1!SpawnAssumption /\ D2!SpawnAssumption
<1>1. KC!KillAtMarkerAssumption
  BY TwoLaunchesAssumption DEF TwoLaunchesAssumption, KC!KillAtMarkerAssumption
<1>2. SC!SpawnAssumption
  <2>1. C!SpawnTimeout \in Nat
    BY TwoLaunchesAssumption DEF TwoLaunchesAssumption, C!SpawnTimeout
  <2> QED BY <2>1, TwoLaunchesAssumption DEF TwoLaunchesAssumption, SC!SpawnAssumption
<1>3. S1!SpawnAssumption /\ S2!SpawnAssumption
  BY TwoLaunchesAssumption DEF TwoLaunchesAssumption, S1!SpawnAssumption, S2!SpawnAssumption
<1>4. D1!SpawnAssumption /\ D2!SpawnAssumption
  BY TwoLaunchesAssumption DEF TwoLaunchesAssumption, D1!SpawnAssumption, D2!SpawnAssumption
<1> QED BY <1>1, <1>2, <1>3, <1>4

\* Whether the relaunched process serves is a Boolean.
LEMMA ServingType == C!serving2 \in BOOLEAN
BY DEF C!serving2

\* A step of the select loop of RunCrashRecovery's first launch is one of the
\* proved launch,
LEMMA FirstLoop ==
    ASSUME KC!KillInv, C!P1!Loop
    PROVE  KC!KillInv' /\ KC!Loop
<1>1. KC!Loop
  BY DEF C!P1!StartFails, C!P1!StartWorks, C!P1!Start, C!P1!TakeExit, C!P1!TakeMarker,
         C!P1!DelayEnds, C!P1!TimeOut, C!P1!Cancelled, C!P1!Kill, C!P1!Reap,
         C!P1!Drain, C!P1!Loop, C!P1!loopVars, C!P1!procVars, C!P1!streamVars,
         C!P1!driverVars, C!P1!envVars, KC!StartFails, KC!StartWorks, KC!Start,
         KC!TakeExit, KC!TakeMarker, KC!DelayEnds, KC!TimeOut, KC!Cancelled, KC!Kill,
         KC!Reap, KC!Drain, KC!Loop, KC!loopVars, KC!procVars, KC!streamVars,
         KC!driverVars, KC!envVars
<1> QED BY <1>1, Assumptions, KC!LoopInv

\* and so is one of its goroutines or its process.
LEMMA FirstOthers ==
    ASSUME KC!KillInv, C!P1!Goroutine \/ C!P1!Process
    PROVE  KC!KillInv' /\ (KC!Goroutine \/ KC!Process)
<1>1. CASE C!P1!Goroutine
  <2>1. KC!Goroutine
    BY <1>1 DEF C!P1!ScanLine, C!P1!ScanEnd, C!P1!Wait, C!P1!Answered, C!P1!Fire,
         C!P1!StopPolling, C!P1!AfterRequest, C!P1!Request, C!P1!Driver,
         C!P1!Goroutine, C!P1!loopVars, C!P1!procVars, C!P1!streamVars,
         C!P1!driverVars, C!P1!envVars, KC!ScanLine, KC!ScanEnd, KC!Wait, KC!Answered,
         KC!Fire, KC!StopPolling, KC!AfterRequest, KC!Request, KC!Driver, KC!Goroutine,
         KC!loopVars, KC!procVars, KC!streamVars, KC!driverVars, KC!envVars
  <2> QED BY <2>1, Assumptions, KC!GoroutineInv
<1>2. CASE C!P1!Process
  <2>1. KC!Process
    BY <1>2 DEF C!P1!Boot, C!P1!Emit, C!P1!Exit, C!P1!ExecKill, C!P1!Process, C!P1!loopVars,
         C!P1!procVars, C!P1!streamVars, C!P1!driverVars, C!P1!envVars, KC!Boot,
         KC!Emit, KC!Exit, KC!ExecKill, KC!Process, KC!loopVars, KC!procVars,
         KC!streamVars, KC!driverVars, KC!envVars
  <2> QED BY <2>1, Assumptions, KC!ProcessInv
<1> QED BY <1>1, <1>2

\* A step of the select loop of its relaunch is one of the proved Spawn,
LEMMA SecondLoop ==
    ASSUME SC!SpawnInv, C!P2!Harness
    PROVE  /\ SC!SpawnInv' /\ SC!Harness
<1>1. SC!Harness
  BY DEF C!P2!StartFails, C!P2!StartWorks, C!P2!Start, C!P2!CheckDeadline,
         C!P2!TakeExit, C!P2!Poll, C!P2!ProbeNil, C!P2!ProbeErr, C!P2!Cancelled,
         C!P2!Kill, C!P2!Reap, C!P2!Harness, SC!StartFails, SC!StartWorks, SC!Start,
         SC!CheckDeadline, SC!TakeExit, SC!Poll, SC!ProbeNil, SC!ProbeErr,
         SC!Cancelled, SC!Kill, SC!Reap, SC!Harness
<1> QED BY <1>1, Assumptions, SC!NextInv DEF SC!Next

\* as are those of SV-STR-10's launches,
LEMMA StrFirst ==
    ASSUME S1!SpawnInv, S!P1!Harness
    PROVE  /\ S1!SpawnInv' /\ S1!Harness
<1>1. S1!Harness
  BY DEF S!P1!StartFails, S!P1!StartWorks, S!P1!Start, S!P1!CheckDeadline,
         S!P1!TakeExit, S!P1!Poll, S!P1!ProbeNil, S!P1!ProbeErr, S!P1!Cancelled,
         S!P1!Kill, S!P1!Reap, S!P1!Harness, S1!StartFails, S1!StartWorks, S1!Start,
         S1!CheckDeadline, S1!TakeExit, S1!Poll, S1!ProbeNil, S1!ProbeErr,
         S1!Cancelled, S1!Kill, S1!Reap, S1!Harness
<1> QED BY <1>1, Assumptions, S1!NextInv DEF S1!Next

\* the second as the first,
LEMMA StrSecond ==
    ASSUME S2!SpawnInv, S!P2!Harness
    PROVE  /\ S2!SpawnInv' /\ S2!Harness
<1>1. S2!Harness
  BY DEF S!P2!StartFails, S!P2!StartWorks, S!P2!Start, S!P2!CheckDeadline,
         S!P2!TakeExit, S!P2!Poll, S!P2!ProbeNil, S!P2!ProbeErr, S!P2!Cancelled,
         S!P2!Kill, S!P2!Reap, S!P2!Harness, S2!StartFails, S2!StartWorks, S2!Start,
         S2!CheckDeadline, S2!TakeExit, S2!Poll, S2!ProbeNil, S2!ProbeErr,
         S2!Cancelled, S2!Kill, S2!Reap, S2!Harness
<1> QED BY <1>1, Assumptions, S2!NextInv DEF S2!Next

\* and of SV-SESS-09's phase A
LEMMA DriftFirst ==
    ASSUME D1!SpawnInv, D!A!Harness
    PROVE  /\ D1!SpawnInv' /\ D1!Harness
<1>1. D1!Harness
  BY DEF D!A!StartFails, D!A!StartWorks, D!A!Start, D!A!CheckDeadline, D!A!TakeExit,
         D!A!Poll, D!A!ProbeNil, D!A!ProbeErr, D!A!Cancelled, D!A!Kill, D!A!Reap,
         D!A!Harness, D1!StartFails, D1!StartWorks, D1!Start, D1!CheckDeadline,
         D1!TakeExit, D1!Poll, D1!ProbeNil, D1!ProbeErr, D1!Cancelled, D1!Kill,
         D1!Reap, D1!Harness
<1> QED BY <1>1, Assumptions, D1!NextInv DEF D1!Next

\* and phase B.
LEMMA DriftSecond ==
    ASSUME D2!SpawnInv, D!B!Harness
    PROVE  /\ D2!SpawnInv' /\ D2!Harness
<1>1. D2!Harness
  BY DEF D!B!StartFails, D!B!StartWorks, D!B!Start, D!B!CheckDeadline, D!B!TakeExit,
         D!B!Poll, D!B!ProbeNil, D!B!ProbeErr, D!B!Cancelled, D!B!Kill, D!B!Reap,
         D!B!Harness, D2!StartFails, D2!StartWorks, D2!Start, D2!CheckDeadline,
         D2!TakeExit, D2!Poll, D2!ProbeNil, D2!ProbeErr, D2!Cancelled, D2!Kill,
         D2!Reap, D2!Harness
<1> QED BY <1>1, Assumptions, D2!NextInv DEF D2!Next

\* The waiter and the process of a Spawn keep its invariant: RunCrashRecovery's,
LEMMA SecondEnds ==
    ASSUME SC!SpawnInv, C!P2!Wait \/ C!P2!Exit
    PROVE  SC!SpawnInv'
<1>1. SC!Wait \/ SC!Exit
  BY DEF C!P2!Wait, C!P2!Exit, SC!Wait, SC!Exit
<1> QED BY <1>1, Assumptions, SC!NextInv DEF SC!Next

\* SV-STR-10's first
LEMMA StrFirstEnds ==
    ASSUME S1!SpawnInv, S!P1!Wait \/ S!P1!Exit
    PROVE  S1!SpawnInv'
<1>1. S1!Wait \/ S1!Exit
  BY DEF S!P1!Wait, S!P1!Exit, S1!Wait, S1!Exit
<1> QED BY <1>1, Assumptions, S1!NextInv DEF S1!Next

\* and second,
LEMMA StrSecondEnds ==
    ASSUME S2!SpawnInv, S!P2!Wait \/ S!P2!Exit
    PROVE  S2!SpawnInv'
<1>1. S2!Wait \/ S2!Exit
  BY DEF S!P2!Wait, S!P2!Exit, S2!Wait, S2!Exit
<1> QED BY <1>1, Assumptions, S2!NextInv DEF S2!Next

\* SV-SESS-09's phase A
LEMMA DriftFirstEnds ==
    ASSUME D1!SpawnInv, D!A!Wait \/ D!A!Exit
    PROVE  D1!SpawnInv'
<1>1. D1!Wait \/ D1!Exit
  BY DEF D!A!Wait, D!A!Exit, D1!Wait, D1!Exit
<1> QED BY <1>1, Assumptions, D1!NextInv DEF D1!Next

\* and phase B.
LEMMA DriftSecondEnds ==
    ASSUME D2!SpawnInv, D!B!Wait \/ D!B!Exit
    PROVE  D2!SpawnInv'
<1>1. D2!Wait \/ D2!Exit
  BY DEF D!B!Wait, D!B!Exit, D2!Wait, D2!Exit
<1> QED BY <1>1, Assumptions, D2!NextInv DEF D2!Next

-----------------------------------------------------------------------------
\* RunCrashRecovery.  What is left of a launch that takes no step: its invariant.
LEMMA FirstRests ==
    ASSUME KC!KillInv, UNCHANGED <<C!first, ctxDone, now>>
    PROVE  KC!KillInv'
<1>1. UNCHANGED <<KC!loopVars, KC!procVars, KC!streamVars, KC!driverVars, ctxDone, now>>
  BY DEF C!first, KC!loopVars, KC!procVars, KC!streamVars, KC!driverVars
<1>2. C!serving2' \in BOOLEAN
  BY DEF C!serving2
<1> QED BY <1>1, <1>2, Assumptions, KC!ForeignInv

\* The same of the relaunch, whose channel may be closed meanwhile.
LEMMA SecondRests ==
    ASSUME SC!SpawnInv, proceed' \in BOOLEAN, UNCHANGED <<C!relaunch, ctxDone, now>>
    PROVE  SC!SpawnInv'
<1>1. UNCHANGED <<pc2, proc2, code2, held2, exitCh2, ctxDone, now, deadline2, res2>>
  BY DEF C!relaunch
<1> QED BY <1>1, Assumptions, SC!ProbeInv

\* The invariant holds when RunCrashRecovery is called,
LEMMA CrashInit == C!Init => CrashInv
<1> SUFFICES ASSUME C!Init PROVE CrashInv
    OBVIOUS
<1>1. KC!KillInv
  <2>1. KC!Init
    BY DEF C!Init, C!P1!Init, C!P1!Blank, KC!Init, KC!Blank
  <2> QED BY <2>1, Assumptions, KC!InitInv
<1>2. SC!SpawnInv
  <2>1. SC!Init
    BY DEF C!Init, C!P2!Init, C!P2!Blank, SC!Init, SC!Blank
  <2> QED BY <2>1, Assumptions, SC!InitInv
<1>3. pc = "start" /\ now = 0 /\ deadline = 0 /\ pc2 = "start" /\ proc2 = "none"
  BY DEF C!Init, C!P1!Init, C!P2!Init
<1>4. CrashOrder
  BY <1>3 DEF C!Init, CrashOrder
<1>5. CrashFound
  BY DEF C!Init, CrashFound
<1>6. CrashTimes
  <2>1. 0 \in 0 .. Horizon /\ 0 <= FirstTimeout
    BY TwoLaunchesAssumption DEF TwoLaunchesAssumption
  <2> QED BY <1>3, <2>1 DEF C!Init, CrashTimes
<1> QED BY <1>1, <1>2, <1>4, <1>5, <1>6 DEF CrashInv

\* a step of its own sequence keeps it,
LEMMA CrashSequence == CrashInv /\ C!Sequence => CrashInv'
<1> SUFFICES ASSUME CrashInv, C!Sequence PROVE CrashInv'
    OBVIOUS
<1>1. KC!KillInv' /\ SC!SpawnInv'
  <2>1. UNCHANGED <<C!first, C!relaunch, ctxDone, now>>
    BY DEF C!Sequence, C!GiveUp, C!Relaunch, C!PollReady, C!PollExpires, C!ProbeReturns,
       C!Collect
  <2>2. proceed' \in BOOLEAN
    BY DEF C!Sequence, C!GiveUp, C!Relaunch, C!PollReady, C!PollExpires, C!ProbeReturns,
       C!Collect, CrashInv, SC!SpawnInv, SC!TypeOK
  <2> QED BY <2>1, <2>2, FirstRests, SecondRests DEF CrashInv
<1>2. CASE C!GiveUp
  BY <1>1, <1>2 DEF C!GiveUp, C!first, C!relaunch, CrashInv, CrashOrder, CrashFound,
     CrashTimes
<1>3. CASE C!Relaunch
  <2>1. readyBy' \in 0 .. Horizon
    <3>1. now \in Nat /\ deadline \in Nat
      BY DEF CrashInv, KC!KillInv, KC!TypeOK
    <3>2. now <= deadline + 1 /\ deadline <= FirstTimeout /\ readyBy' = now + RelaunchTimeout
      BY <1>3 DEF C!Relaunch, CrashInv, CrashTimes
    <3>3. /\ FirstTimeout \in Nat /\ RelaunchTimeout \in Nat /\ Horizon \in Nat
          /\ FirstTimeout + RelaunchTimeout + 2 < Horizon
      BY TwoLaunchesAssumption DEF TwoLaunchesAssumption
    <3> QED BY <3>1, <3>2, <3>3
  <2>2. readyBy' = now + RelaunchTimeout /\ now \in Nat /\ RelaunchTimeout \in Nat
    BY <1>3, TwoLaunchesAssumption DEF C!Relaunch, CrashInv, SC!SpawnInv, SC!TypeOK,
       TwoLaunchesAssumption
  <2>3. CrashOrder' /\ CrashFound'
    BY <1>3 DEF C!Relaunch, C!first, C!relaunch, CrashInv, CrashOrder, CrashFound
  <2>4. CrashTimes'
    BY <1>3, <2>1, <2>2
       DEF C!Relaunch, C!first, C!relaunch, CrashInv, CrashOrder, CrashTimes
  <2> QED BY <1>1, <2>3, <2>4 DEF CrashInv
<1>4. CASE C!PollReady
  <2>1. up2
    BY <1>4 DEF C!PollReady, C!serving2, CrashInv, CrashOrder, KC!KillInv, KC!ChildByPc
  <2>2. CrashOrder' /\ CrashFound'
    BY <1>4, <2>1
       DEF C!PollReady, C!first, C!relaunch, CrashInv, CrashOrder, CrashFound
  <2>3. CrashTimes'
    BY <1>4 DEF C!PollReady, C!first, C!relaunch, CrashInv, CrashOrder, CrashTimes
  <2> QED BY <1>1, <2>2, <2>3 DEF CrashInv
<1>5. CASE C!PollExpires
  BY <1>1, <1>5 DEF C!PollExpires, C!first, C!relaunch, CrashInv, CrashOrder, CrashFound,
     CrashTimes
<1>6. CASE C!ProbeReturns
  <2>1. CrashOrder' /\ CrashFound'
    BY <1>6 DEF C!ProbeReturns, C!first, C!relaunch, CrashInv, CrashOrder, CrashFound
  <2>2. CrashTimes'
    BY <1>6 DEF C!ProbeReturns, C!first, C!relaunch, CrashInv, CrashOrder, CrashTimes
  <2> QED BY <1>1, <2>1, <2>2 DEF CrashInv
<1>7. CASE C!Collect
  BY <1>1, <1>7 DEF C!Collect, C!first, C!relaunch, CrashInv, CrashOrder, CrashFound,
     CrashTimes
<1> QED BY <1>2, <1>3, <1>4, <1>5, <1>6, <1>7 DEF C!Sequence

\* one of the first launch, which takes them only before the relaunch,
LEMMA CrashFirst == CrashInv /\ C!FirstStep => CrashInv'
<1> SUFFICES ASSUME CrashInv, C!FirstStep PROVE CrashInv'
    OBVIOUS
<1>1. UNCHANGED <<C!relaunch, C!control>>
  BY DEF C!FirstStep, C!FirstLoop, C!FirstRuns
<1>2. CASE C!P1!Loop
  <2>1. KC!KillInv' /\ KC!Loop
    BY <1>2, FirstLoop DEF CrashInv
  <2>2. /\ pc # "returned" /\ pc' # "start" /\ now' = now /\ ctxDone' = ctxDone
        /\ deadline' = deadline \/ (pc = "start" /\ deadline' = now + FirstTimeout)
    BY <2>1, Assumptions, KC!LoopStep DEF CrashInv
  <2>3. SC!SpawnInv'
    BY <1>1, <2>2, SecondRests DEF C!control, CrashInv, SC!SpawnInv, SC!TypeOK
  <2>4. CrashOrder' /\ CrashFound'
    BY <1>1, <2>2 DEF C!relaunch, C!control, CrashInv, CrashOrder, CrashFound
  <2>5. FirstTimeout \in Nat /\ deadline \in Nat
    BY TwoLaunchesAssumption DEF TwoLaunchesAssumption, CrashInv, KC!KillInv, KC!TypeOK
  <2>6. CrashTimes'
    BY <1>1, <2>2, <2>5 DEF C!relaunch, C!control, CrashInv, CrashOrder, CrashTimes
  <2> QED BY <2>1, <2>3, <2>4, <2>6 DEF CrashInv
<1>3. CASE C!P1!Goroutine \/ C!P1!Process
  <2>1. KC!KillInv' /\ (KC!Goroutine \/ KC!Process)
    BY <1>3, FirstOthers DEF CrashInv
  <2>2. pc' = pc /\ deadline' = deadline /\ res' = res /\ now' = now /\ ctxDone' = ctxDone
    BY <2>1, Assumptions, KC!OthersStep DEF CrashInv
  <2>3. SC!SpawnInv'
    BY <1>1, <2>2, SecondRests DEF C!control, CrashInv, SC!SpawnInv, SC!TypeOK
  <2> QED BY <1>1, <2>1, <2>2, <2>3
          DEF C!relaunch, C!control, CrashInv, CrashOrder, CrashFound, CrashTimes
<1> QED BY <1>2, <1>3 DEF C!FirstStep, C!FirstLoop, C!FirstRuns

\* and one of the relaunch or the clock.
LEMMA CrashSecond == CrashInv /\ (C!RelaunchStep \/ C!Boot2 \/ C!Tick) => CrashInv'
<1> SUFFICES ASSUME CrashInv, C!RelaunchStep \/ C!Boot2 \/ C!Tick PROVE CrashInv'
    OBVIOUS
<1>1. CASE C!SecondLoop
  <2>1. recovery.started /\ UNCHANGED <<C!first, up2, outer, readyBy, recovery>>
    BY <1>1 DEF C!SecondLoop, C!RelaunchRuns
  <2>2. SC!SpawnInv' /\ SC!Harness
    BY <1>1, SecondLoop DEF C!SecondLoop, C!RelaunchRuns, CrashInv
  <2>3. /\ pc2 # "returned" /\ pc2' # "start" /\ now' = now /\ ctxDone' = ctxDone
        /\ proc2 = "none" => pc2 = "start"
        /\ proc2 # "none" => proc2' # "none" /\ deadline2' = deadline2
        /\ proc2 = "none" /\ proc2' # "none" => deadline2' = now + C!SpawnTimeout
    BY <2>2, Assumptions, SC!HarnessStep DEF CrashInv
  <2>4. proceed' = proceed
    BY <2>2 DEF SC!StartFails, SC!StartWorks, SC!Start, SC!CheckDeadline, SC!TakeExit,
         SC!Poll, SC!ProbeNil, SC!ProbeErr, SC!Cancelled, SC!Kill, SC!Reap, SC!Harness
  <2>5. KC!KillInv'
    BY <2>1, <2>3, FirstRests DEF CrashInv
  <2>6. CrashOrder' /\ CrashFound'
    BY <2>1, <2>3 DEF C!first, CrashInv, CrashOrder, CrashFound
  <2>7. now \in Nat /\ RelaunchTimeout \in Nat /\ readyBy \in Nat
    BY TwoLaunchesAssumption
       DEF TwoLaunchesAssumption, CrashInv, SC!SpawnInv, SC!TypeOK, CrashTimes
  <2>8. CrashTimes'
    BY <2>1, <2>3, <2>4, <2>7
       DEF C!first, C!SpawnTimeout, CrashInv, CrashOrder, CrashTimes
  <2> QED BY <2>2, <2>5, <2>6, <2>8 DEF CrashInv
<1>2. CASE C!RelaunchRuns(C!P2!Wait \/ C!P2!Exit)
  <2>1. SC!SpawnInv'
    BY <1>2, SecondEnds DEF C!RelaunchRuns, CrashInv
  <2>2. KC!KillInv'
    BY <1>2, FirstRests DEF C!RelaunchRuns, C!P2!Wait, C!P2!Exit, CrashInv
  <2> QED BY <1>2, <2>1, <2>2
          DEF C!RelaunchRuns, C!P2!Wait, C!P2!Exit, C!first, CrashInv, CrashOrder,
              CrashFound, CrashTimes
<1>3. CASE C!Boot2
  <2>1. KC!KillInv'
    BY <1>3, FirstRests DEF C!Boot2, CrashInv
  <2>2. SC!SpawnInv'
    <3>1. UNCHANGED <<pc2, proc2, code2, held2, exitCh2, ctxDone, now, deadline2, res2>> /\ proceed' \in BOOLEAN
      BY <1>3 DEF C!Boot2, C!control, CrashInv, SC!SpawnInv, SC!TypeOK
    <3> QED BY <3>1, Assumptions, SC!ProbeInv DEF CrashInv
  <2> QED BY <1>3, <2>1, <2>2
          DEF C!Boot2, C!first, C!control, CrashInv, CrashOrder, CrashFound, CrashTimes
<1>4. CASE C!Tick
  <2>1. now \in Nat /\ now' \in 0 .. Horizon /\ now' = now + 1
    BY <1>4, TwoLaunchesAssumption
       DEF C!Tick, CrashInv, SC!SpawnInv, SC!TypeOK, TwoLaunchesAssumption
  <2>2. KC!KillInv'
    <3>1. UNCHANGED <<KC!loopVars, KC!procVars, KC!streamVars, KC!driverVars, ctxDone>>
      BY <1>4 DEF C!Tick, C!first, KC!loopVars, KC!procVars, KC!streamVars, KC!driverVars
    <3>2. C!serving2' \in BOOLEAN
      BY DEF C!serving2
    <3>3. now' >= now
      BY <2>1
    <3> QED BY <2>1, <3>1, <3>2, <3>3, Assumptions, KC!TickInv DEF CrashInv
  <2>3. SC!SpawnInv'
    <3>1. SC!Tick
      BY <1>4 DEF C!Tick, C!relaunch, C!control, SC!Tick
    <3> QED BY <3>1, Assumptions, SC!NextInv DEF SC!Next, CrashInv
  <2>4. CrashOrder' /\ CrashFound'
    BY <1>4 DEF C!Tick, C!first, C!relaunch, C!control, CrashInv, CrashOrder, CrashFound
  <2>5. deadline \in Nat
    BY DEF CrashInv, KC!KillInv, KC!TypeOK
  <2>6. CrashTimes'
    BY <1>4, <2>1, <2>5
       DEF C!Tick, C!first, C!relaunch, C!control, CrashInv, CrashOrder, CrashTimes
  <2> QED BY <2>2, <2>3, <2>4, <2>6 DEF CrashInv
<1> QED BY <1>1, <1>2, <1>3, <1>4
        DEF C!RelaunchStep, C!SecondReaped, C!RelaunchRuns

-----------------------------------------------------------------------------
\* SV-STR-10, likewise: a launch that takes no step keeps its invariant,
LEMMA StrFirstRests ==
    ASSUME S1!SpawnInv, driveOnce' \in BOOLEAN, UNCHANGED <<S!first, ctxDone, now>>
    PROVE  S1!SpawnInv'
<1>1. UNCHANGED <<pc, proc, code, held, exitCh, ctxDone, now, deadline, res>>
  BY DEF S!first
<1> QED BY <1>1, Assumptions, S1!ProbeInv

\* the second as the first.
LEMMA StrSecondRests ==
    ASSUME S2!SpawnInv, driveOnce' \in BOOLEAN, UNCHANGED <<S!relaunch, ctxDone, now>>
    PROVE  S2!SpawnInv'
<1>1. UNCHANGED <<pc2, proc2, code2, held2, exitCh2, ctxDone, now, deadline2, res2>>
  BY DEF S!relaunch
<1> QED BY <1>1, Assumptions, S2!ProbeInv

\* The invariant holds when the handler is called,
LEMMA StrInit == S!Init => StrInv
<1> SUFFICES ASSUME S!Init PROVE StrInv
    OBVIOUS
<1>1. S1!SpawnInv
  <2>1. S1!Init
    BY DEF S!Init, S!P1!Init, S!P1!Blank, S1!Init, S1!Blank
  <2> QED BY <2>1, Assumptions, S1!InitInv
<1>2. S2!SpawnInv
  <2>1. S2!Init
    BY DEF S!Init, S!P2!Init, S!P2!Blank, S2!Init, S2!Blank
  <2> QED BY <2>1, Assumptions, S2!InitInv
<1>3. pc = "start" /\ now = 0 /\ deadline = 0 /\ pc2 = "start" /\ proc2 = "none"
  BY DEF S!Init, S!P1!Init, S!P2!Init
<1>4. StrOrder /\ StrFound
  BY <1>3 DEF S!Init, StrOrder, StrFound
<1>5. StrTimes
  <2>1. 0 \in 0 .. Horizon /\ 0 <= StrTimeout
    BY TwoLaunchesAssumption DEF TwoLaunchesAssumption
  <2> QED BY <1>3, <2>1 DEF S!Init, StrTimes
<1> QED BY <1>1, <1>2, <1>4, <1>5 DEF StrInv

\* the first Spawn keeps it: it runs only before the relaunch, and brings no
\* process back,
LEMMA StrSpawn == StrInv /\ S!FirstSpawn => StrInv'
<1> SUFFICES ASSUME StrInv, S!FirstSpawn PROVE StrInv'
    OBVIOUS
<1>1. CASE S!LaunchDriver
  <2>1. /\ UNCHANGED <<proc, code, held, exitCh, deadline, S!relaunch, S!runner, S!handler>>
        /\ UNCHANGED <<ctxDone, now>>
        /\ pc = "probe" /\ driveOnce' = TRUE /\ drive' = "minting" /\ S!P1!CheckDeadline
    BY <1>1 DEF S!LaunchDriver
  <2>2. S1!SpawnInv'
    <3>1. S1!CheckDeadline /\ driveOnce' \in BOOLEAN
      BY <2>1 DEF S!P1!CheckDeadline, S1!CheckDeadline
    <3>2. UNCHANGED <<proc, code, held, exitCh, ctxDone, now, deadline>>
      BY <2>1
    <3> QED BY <2>1, <3>1, <3>2, Assumptions, S1!ProbeErrInv DEF StrInv
  <2>3. S2!SpawnInv'
    BY <2>1, StrSecondRests DEF StrInv
  <2>4. pc' \in {"kill", "select"}
    BY <2>1 DEF S!P1!CheckDeadline
  <2>5. StrOrder'
    BY <2>1, <2>4 DEF S!relaunch, S!handler, StrInv, StrOrder
  <2>6. StrFound' /\ StrTimes'
    BY <2>1, <2>4, <2>5
       DEF S!relaunch, S!runner, S!handler, StrInv, StrOrder, StrFound, StrTimes
  <2> QED BY <2>2, <2>3, <2>5, <2>6 DEF StrInv
<1>2. CASE S!FirstLoop
  <2>1. UNCHANGED <<S!relaunch, S!runner, S!driver, S!handler>> /\ S!P1!Harness
    BY <1>2 DEF S!FirstLoop, S!P1!Harness
  <2>2. S1!SpawnInv' /\ S1!Harness
    BY <2>1, StrFirst DEF StrInv
  <2>3. /\ pc # "returned" /\ pc' # "start" /\ now' = now /\ ctxDone' = ctxDone
        /\ proc = "none" => pc = "start"
        /\ proc # "none" => proc' # "none" /\ deadline' = deadline
        /\ proc = "none" /\ proc' = "none" => deadline' = deadline
        /\ proc = "none" /\ proc' # "none" => deadline' = now + StrTimeout
    BY <2>2, Assumptions, S1!HarnessStep DEF StrInv
  <2>4. S2!SpawnInv'
    BY <2>1, <2>3, StrSecondRests DEF S!driver, StrInv, S1!SpawnInv, S1!TypeOK
  <2>5. StrOrder' /\ StrFound'
    BY <2>1, <2>3 DEF S!relaunch, S!runner, S!driver, S!handler, StrInv, StrOrder, StrFound
  <2>6. StrTimeout \in Nat
    BY TwoLaunchesAssumption DEF TwoLaunchesAssumption
  <2>7. StrTimes'
    BY <2>1, <2>3, <2>6 DEF S!relaunch, S!handler, StrInv, StrOrder, StrTimes
  <2> QED BY <2>2, <2>4, <2>5, <2>7 DEF StrInv
<1> QED BY <1>1, <1>2 DEF S!FirstSpawn

\* its process, its waiter and the driver keep it,
LEMMA StrDrive ==
    StrInv /\ (S!FirstReaped \/ S!FirstProcess \/ S!Mint \/ S!Decide \/ S!DriveFails) => StrInv'
<1> SUFFICES ASSUME StrInv, S!FirstReaped \/ S!FirstProcess \/ S!Mint \/ S!Decide \/ S!DriveFails
             PROVE  StrInv'
    OBVIOUS
<1> USE DEF S!relaunch, S!runner, S!driver, S!handler
<1>0. driveOnce \in BOOLEAN
  BY DEF StrInv, StrFound
<1>1. CASE S!FirstReaped \/ S!P1!Exit
  <2>1. S1!SpawnInv'
    BY <1>1, StrFirstEnds DEF S!FirstReaped, StrInv
  <2>2. S!P1!Wait \/ S!P1!Exit
    BY <1>1 DEF S!FirstReaped
  <2>3. driveOnce' = driveOnce /\ ctxDone' = ctxDone /\ now' = now
    BY <2>2 DEF S!P1!Wait, S!P1!Exit
  <2>4. UNCHANGED <<S!relaunch, outer, readyBy, verdict, up2, bracket, event, drive>>
        /\ up' \in BOOLEAN /\ slow' \in BOOLEAN
    BY <1>1, <2>2 DEF S!FirstReaped, S!FirstProcess, S!Mint, S!Decide, S!DriveFails, S!P1!Wait,
       S!P1!Exit, S!first, StrInv, StrFound
  <2>5. S2!SpawnInv'
    BY <1>0, <2>3, <2>4, StrSecondRests DEF StrInv
  <2>6. StrOrder' /\ StrFound' /\ StrTimes'
    BY <1>0, <2>2, <2>3, <2>4 DEF S!P1!Wait, S!P1!Exit, StrInv, StrOrder, StrFound, StrTimes
  <2> QED BY <2>1, <2>5, <2>6 DEF StrInv
<1>2. CASE (S!FirstProcess /\ ~S!P1!Exit) \/ S!Mint \/ S!Decide \/ S!DriveFails
  <2>1. UNCHANGED <<S!first, S!relaunch, ctxDone, now, driveOnce, outer, readyBy, verdict>>
        /\ up2' = up2 /\ event' = event
    BY <1>2 DEF S!FirstProcess, S!Mint, S!Decide, S!DriveFails
  <2>2. S1!SpawnInv' /\ S2!SpawnInv'
    BY <1>0, <2>1, StrFirstRests, StrSecondRests DEF StrInv
  <2>3. StrOrder' /\ StrTimes'
    BY <2>1 DEF S!first, StrInv, StrOrder, StrTimes
  <2>4. /\ up' \in BOOLEAN /\ slow' \in BOOLEAN /\ drive' \in {"none", "minting", "posting", "done"}
        /\ bracket' \in BOOLEAN /\ (bracket => bracket')
        /\ bracket' => bracket \/ proc = "running"
    <3>1. CASE S!FirstProcess
      BY <1>2, <3>1 DEF S!FirstProcess, StrInv, StrFound
    <3>2. CASE S!Decide
      <4>1. bracket' = TRUE \/ bracket' = bracket
        BY <3>2, Zenon DEF S!Decide
      <4>2. bracket' \in BOOLEAN /\ (bracket => bracket')
        BY <4>1, Zenon DEF StrInv, StrFound
      <4>3. up' = up /\ slow' = slow /\ drive' = "done" /\ proc = "running"
        BY <3>2 DEF S!Decide, S!serving
      <4> QED BY <4>2, <4>3, Zenon DEF StrInv, StrFound
    <3>3. CASE S!Mint \/ S!DriveFails
      BY <1>2, <3>3 DEF S!Mint, S!DriveFails, StrInv, StrFound
    <3> QED BY <1>2, <3>1, <3>2, <3>3
  <2>5. StrFound'
    BY <1>0, <2>1, <2>4 DEF S!first, StrInv, StrFound
  <2> QED BY <2>2, <2>3, <2>5 DEF StrInv
<1> QED BY <1>1, <1>2

\* the relaunch and its process keep it,
LEMMA StrRelaunch == StrInv /\ (S!RelaunchStep \/ S!Boot2) => StrInv'
<1> SUFFICES ASSUME StrInv, S!RelaunchStep \/ S!Boot2 PROVE StrInv'
    OBVIOUS
<1> USE DEF S!runner, S!driver, S!handler
<1>0. driveOnce \in BOOLEAN
  BY DEF StrInv, StrFound
<1>1. CASE S!SecondLoop
  <2>1. outer # "first" /\ UNCHANGED <<S!first, S!runner, S!driver, S!handler>> /\ S!P2!Harness
    BY <1>1 DEF S!SecondLoop, S!RelaunchRuns, S!RelaunchLoop, S!P2!Harness
  <2>2. S2!SpawnInv' /\ S2!Harness
    BY <2>1, StrSecond DEF StrInv
  <2>3. /\ pc2 # "returned" /\ pc2' # "start" /\ now' = now /\ ctxDone' = ctxDone
        /\ proc2 = "none" => pc2 = "start"
        /\ proc2 # "none" => proc2' # "none" /\ deadline2' = deadline2
        /\ proc2 = "none" /\ proc2' # "none" => deadline2' = now + StrHold
    BY <2>2, Assumptions, S2!HarnessStep DEF StrInv
  <2>4. S1!SpawnInv'
    BY <1>0, <2>1, <2>3, StrFirstRests DEF StrInv
  <2>5. StrOrder' /\ StrFound'
    BY <2>1, <2>3 DEF S!first, StrInv, StrOrder, StrFound
  <2>6. /\ StrHold \in Nat /\ StrWindow \in Nat /\ StrWindow <= StrHold
        /\ now \in Nat /\ readyBy \in Nat
    BY TwoLaunchesAssumption
       DEF TwoLaunchesAssumption, StrInv, StrTimes, S1!SpawnInv, S1!TypeOK
  <2>7. StrTimes'
    BY <2>1, <2>3, <2>6 DEF S!first, StrInv, StrOrder, StrTimes
  <2> QED BY <2>2, <2>4, <2>5, <2>7 DEF StrInv
<1>2. CASE S!RelaunchRuns(S!P2!Wait \/ S!P2!Exit)
  <2>1. S2!SpawnInv'
    BY <1>2, StrSecondEnds DEF S!RelaunchRuns, StrInv
  <2>2. S1!SpawnInv'
    BY <1>0, <1>2, StrFirstRests DEF S!RelaunchRuns, S!P2!Wait, S!P2!Exit, StrInv
  <2> QED BY <1>2, <2>1, <2>2
          DEF S!RelaunchRuns, S!P2!Wait, S!P2!Exit, S!first, StrInv, StrOrder, StrFound,
              StrTimes
<1>3. CASE S!Boot2
  <2>1. UNCHANGED <<S!first, S!relaunch, ctxDone, now, driveOnce, drive, outer, readyBy, verdict>>
        /\ up' = up /\ slow' = slow /\ bracket' = bracket /\ up2' = TRUE
        /\ event' \in {FALSE, bracket}
    BY <1>3 DEF S!Boot2
  <2>2. S1!SpawnInv' /\ S2!SpawnInv'
    BY <1>0, <2>1, StrFirstRests, StrSecondRests DEF StrInv
  <2>3. StrOrder' /\ StrTimes'
    BY <2>1 DEF S!first, S!relaunch, StrInv, StrOrder, StrTimes
  <2>4. event' \in BOOLEAN /\ (event' => bracket)
    <3>1. event' = FALSE \/ event' = bracket
      BY <2>1, Zenon
    <3>2. bracket \in BOOLEAN
      BY DEF StrInv, StrFound
    <3>3. CASE event' = FALSE
      BY <3>3, Zenon
    <3>4. CASE event' = bracket
      BY <3>2, <3>4, Zenon
    <3> QED BY <3>1, <3>3, <3>4
  <2>5. StrFound'
    BY <2>1, <2>4 DEF S!first, StrInv, StrFound
  <2> QED BY <2>2, <2>3, <2>5 DEF StrInv
<1> QED BY <1>1, <1>2, <1>3 DEF S!RelaunchStep, S!SecondReaped, S!RelaunchRuns

\* and so do the handler and the clock.
LEMMA StrHandler == StrInv /\ (S!Handler \/ S!Tick) => StrInv'
<1> SUFFICES ASSUME StrInv, S!Handler \/ S!Tick PROVE StrInv'
    OBVIOUS
<1> USE DEF S!runner, S!driver
<1>0. driveOnce \in BOOLEAN /\ now \in Nat /\ deadline \in Nat
  BY DEF StrInv, StrFound, S1!SpawnInv, S1!TypeOK
<1>1. CASE S!Handler
  <2>1. UNCHANGED <<S!first, S!relaunch, S!runner, S!driver, ctxDone, now>>
    BY <1>1 DEF S!Handler, S!Relaunch, S!PollFinds, S!PollExpires, S!Settle
  <2>2. S1!SpawnInv' /\ S2!SpawnInv'
    BY <1>0, <2>1, StrFirstRests, StrSecondRests DEF StrInv
  <2>3. CASE S!Relaunch
    <3>1. StrOrder' /\ StrFound'
      BY <2>1, <2>3 DEF S!Relaunch, S!first, S!relaunch, StrInv, StrOrder, StrFound
    <3>2. now <= deadline + 1 /\ deadline <= StrTimeout /\ readyBy' = now + StrWindow
      BY <2>3 DEF S!Relaunch, StrInv, StrTimes
    <3>3. /\ StrTimeout \in Nat /\ StrWindow \in Nat /\ StrHold \in Nat /\ Horizon \in Nat
          /\ StrWindow <= StrHold /\ StrTimeout + StrHold + 1 < Horizon
      BY TwoLaunchesAssumption DEF TwoLaunchesAssumption
    <3>4. readyBy' \in 0 .. Horizon /\ now <= readyBy'
      BY <1>0, <3>2, <3>3
    <3>5. StrTimes'
      BY <2>1, <2>3, <3>2, <3>4
         DEF S!Relaunch, S!first, S!relaunch, StrInv, StrOrder, StrTimes
    <3> QED BY <2>2, <3>1, <3>5 DEF StrInv
  <2>4. CASE S!PollFinds
    BY <2>1, <2>2, <2>4
       DEF S!PollFinds, S!serving2, S!first, S!relaunch, StrInv, StrOrder, StrFound, StrTimes
  <2>5. CASE S!PollExpires \/ S!Settle
    BY <2>1, <2>2, <2>5
       DEF S!PollExpires, S!Settle, S!first, S!relaunch, StrInv, StrOrder, StrFound, StrTimes
  <2> QED BY <1>1, <2>3, <2>4, <2>5 DEF S!Handler
<1>2. CASE S!Tick
  <2>1. S1!Tick /\ S2!Tick
    BY <1>2 DEF S!Tick, S!first, S!relaunch, S1!Tick, S2!Tick
  <2>2. S1!SpawnInv' /\ S2!SpawnInv'
    BY <2>1, Assumptions, S1!NextInv, S2!NextInv DEF S1!Next, S2!Next, StrInv
  <2>3. StrOrder' /\ StrFound'
    BY <1>2 DEF S!Tick, S!first, S!relaunch, S!handler, StrInv, StrOrder, StrFound
  <2>4. StrTimes'
    BY <1>0, <1>2 DEF S!Tick, S!first, S!relaunch, S!handler, StrInv, StrOrder, StrTimes
  <2> QED BY <2>2, <2>3, <2>4 DEF StrInv
<1> QED BY <1>1, <1>2

-----------------------------------------------------------------------------
\* SV-SESS-09, likewise: a phase that takes no step keeps its invariant,
LEMMA DriftFirstRests ==
    ASSUME D1!SpawnInv, up' \in BOOLEAN, UNCHANGED <<D!phaseA, D!clock>>
    PROVE  D1!SpawnInv'
<1>1. UNCHANGED <<pc, proc, code, held, exitCh, ctxDone, now, deadline, res>>
  BY DEF D!phaseA, D!clock
<1> QED BY <1>1, Assumptions, D1!ProbeInv

\* the second as the first.
LEMMA DriftSecondRests ==
    ASSUME D2!SpawnInv, up2' \in BOOLEAN, UNCHANGED <<D!phaseB, D!clock>>
    PROVE  D2!SpawnInv'
<1>1. UNCHANGED <<pc2, proc2, code2, held2, exitCh2, ctxDone, now, deadline2, res2>>
  BY DEF D!phaseB, D!clock
<1> QED BY <1>1, Assumptions, D2!ProbeInv

\* The invariant holds when the handler is called,
LEMMA DriftInit == D!Init => DriftInv
<1> SUFFICES ASSUME D!Init PROVE DriftInv
    OBVIOUS
<1>1. D1!SpawnInv
  <2>1. D1!Init
    BY DEF D!Init, D!A!Init, D!A!Blank, D1!Init, D1!Blank
  <2> QED BY <2>1, Assumptions, D1!InitInv
<1>2. D2!SpawnInv
  <2>1. D2!Init
    BY DEF D!Init, D!B!Init, D!B!Blank, D2!Init, D2!Blank
  <2> QED BY <2>1, Assumptions, D2!InitInv
<1>3. pc2 = "start" /\ proc2 = "none"
  BY DEF D!Init, D!B!Init
<1>4. DriftOrder /\ DriftFound
  BY <1>3 DEF D!Init, DriftOrder, DriftFound
<1> QED BY <1>1, <1>2, <1>4 DEF DriftInv

\* phase A keeps it: its Spawn runs only before phase B,
LEMMA DriftPhaseA == DriftInv /\ (D!Mint \/ D!LoopA \/ D!ReapedA \/ D!ProcessA) => DriftInv'
<1> SUFFICES ASSUME DriftInv, D!Mint \/ D!LoopA \/ D!ReapedA \/ D!ProcessA
             PROVE  DriftInv'
    OBVIOUS
<1> USE DEF D!runner, D!runner2, D!handler, D!clock
<1>0. up \in BOOLEAN /\ up2 \in BOOLEAN
  BY DEF DriftInv, D1!SpawnInv, D1!TypeOK, D2!SpawnInv, D2!TypeOK
<1>1. CASE D!LoopA
  <2>1. D!A!Harness /\ UNCHANGED <<D!phaseB, up, stored, D!runner2, D!handler>>
        /\ minted' \in {"no", minted}
    BY <1>1 DEF D!LoopA, D!A!Harness
  <2>2. D1!SpawnInv' /\ D1!Harness
    BY <2>1, DriftFirst DEF DriftInv
  <2>3. pc # "returned" /\ now' = now /\ ctxDone' = ctxDone
    BY <2>2, Assumptions, D1!HarnessStep DEF DriftInv
  <2>4. D2!SpawnInv'
    BY <1>0, <2>1, <2>3, DriftSecondRests DEF DriftInv
  <2>5. DriftOrder' /\ DriftFound'
    BY <2>1, <2>3 DEF D!phaseB, DriftInv, DriftOrder, DriftFound
  <2> QED BY <2>2, <2>4, <2>5 DEF DriftInv
<1>2. CASE D!ReapedA \/ D!A!Exit
  <2>1. D1!SpawnInv'
    BY <1>2, DriftFirstEnds DEF D!ReapedA, DriftInv
  <2>2. D!A!Wait \/ D!A!Exit
    BY <1>2 DEF D!ReapedA
  <2>3. pc' = pc /\ res' = res /\ ctxDone' = ctxDone /\ now' = now /\ up' = up
    BY <2>2 DEF D!A!Wait, D!A!Exit
  <2>4. UNCHANGED <<D!phaseB, D!runner2, D!handler, minted, stored>>
    BY <1>2, <2>2 DEF D!ReapedA, D!ProcessA, D!Mint, D!LoopA, D!phaseA, D!A!Wait, D!A!Exit,
       D!A!Harness, D!A!ProbeNil, D!A!ProbeErr, D!A!Start, D!A!StartFails, D!A!StartWorks,
       D!A!TakeExit, D!A!Poll, D!A!Cancelled, D!A!Kill, D!A!Reap
  <2>5. D2!SpawnInv'
    BY <1>0, <2>3, <2>4, DriftSecondRests DEF DriftInv
  <2>6. DriftOrder' /\ DriftFound'
    BY <2>3, <2>4 DEF D!phaseB, DriftInv, DriftOrder, DriftFound
  <2> QED BY <2>1, <2>5, <2>6 DEF DriftInv
<1>3. CASE D!Mint \/ (D!ProcessA /\ ~D!A!Exit)
  <2>1. UNCHANGED <<D!phaseA, D!phaseB, D!runner2, D!handler, D!clock>>
        /\ minted' \in {"no", "lost", "ok"}
    BY <1>3 DEF D!Mint, D!ProcessA, DriftInv, DriftFound
  <2>2. up' \in BOOLEAN
    BY <1>0, <1>3 DEF D!Mint, D!ProcessA
  <2>3. stored' = TRUE \/ stored' = stored
    BY <1>3, Zenon DEF D!Mint, D!ProcessA
  <2>4. stored' \in BOOLEAN /\ (stored => stored')
    BY <2>3, Zenon DEF DriftInv, DriftFound
  <2>5. D1!SpawnInv' /\ D2!SpawnInv'
    BY <1>0, <2>1, <2>2, DriftFirstRests, DriftSecondRests DEF DriftInv
  <2>6. DriftOrder' /\ DriftFound'
    BY <2>1, <2>4 DEF D!phaseA, D!phaseB, DriftInv, DriftOrder, DriftFound
  <2> QED BY <2>5, <2>6 DEF DriftInv
<1> QED BY <1>1, <1>2, <1>3

\* phase B keeps it,
LEMMA DriftPhaseB ==
    DriftInv /\ (D!LoopB \/ D!ReapedB \/ D!ExitB \/ D!ReadyB \/ D!BootB \/ D!BootScan)
        => DriftInv'
<1> SUFFICES ASSUME DriftInv,
                    D!LoopB \/ D!ReapedB \/ D!ExitB \/ D!ReadyB \/ D!BootB \/ D!BootScan
             PROVE  DriftInv'
    OBVIOUS
<1> USE DEF D!runner, D!runner2, D!handler, D!clock
<1>0. up \in BOOLEAN /\ up2 \in BOOLEAN
  BY DEF DriftInv, D1!SpawnInv, D1!TypeOK, D2!SpawnInv, D2!TypeOK
<1>1. CASE D!LoopB
  <2>1. /\ outer = "scan" /\ D!B!Harness
        /\ UNCHANGED <<D!phaseA, D!runner, up2, scan2, cited2, D!handler>>
        /\ ready2' \in {FALSE, ready2}
    BY <1>1 DEF D!LoopB, D!InB, D!B!Harness
  <2>2. D2!SpawnInv' /\ D2!Harness
    BY <2>1, DriftSecond DEF DriftInv
  <2>3. now' = now /\ ctxDone' = ctxDone
    BY <2>2, Assumptions, D2!HarnessStep DEF DriftInv
  <2>4. D1!SpawnInv'
    BY <1>0, <2>1, <2>3, DriftFirstRests DEF DriftInv
  <2>5. ready2' \in BOOLEAN
    BY <2>1, Zenon DEF DriftInv, DriftFound
  <2>6. DriftOrder' /\ DriftFound'
    BY <2>1, <2>5 DEF D!phaseA, DriftInv, DriftOrder, DriftFound
  <2> QED BY <2>2, <2>4, <2>6 DEF DriftInv
<1>2. CASE D!ReapedB \/ D!ExitB
  <2>1. D2!SpawnInv'
    BY <1>2, DriftSecondEnds DEF D!ReapedB, D!ExitB, D!InB, DriftInv
  <2>2. /\ outer = "scan" /\ ready2' = ready2 /\ (D!B!Wait \/ D!B!Exit)
        /\ UNCHANGED <<D!phaseA, D!runner, up2, scan2, cited2, D!handler>>
    BY <1>2 DEF D!ReapedB, D!ExitB, D!InB
  <2>3. now' = now /\ ctxDone' = ctxDone
    BY <2>2 DEF D!B!Wait, D!B!Exit
  <2>4. D1!SpawnInv'
    BY <1>0, <2>2, <2>3, DriftFirstRests DEF DriftInv
  <2>5. DriftOrder' /\ DriftFound'
    BY <2>2 DEF D!phaseA, DriftInv, DriftOrder, DriftFound
  <2> QED BY <2>1, <2>4, <2>5 DEF DriftInv
<1>3. CASE D!ReadyB \/ D!BootB \/ D!BootScan
  <2>1. UNCHANGED <<D!phaseA, D!phaseB, D!runner, D!handler, D!clock>>
    BY <1>3 DEF D!ReadyB, D!BootB, D!BootScan
  <2>2. up2' \in BOOLEAN /\ ready2' \in BOOLEAN /\ scan2' \in BOOLEAN /\ (scan2 => scan2')
    BY <1>0, <1>3 DEF D!ReadyB, D!BootB, D!BootScan, DriftInv, DriftFound
  <2>3. /\ cited2' \in {"nothing", "digest", "failed", "drift"}
        /\ cited2' \in {"failed", "drift"} => stored /\ scan2'
    BY <1>3 DEF D!ReadyB, D!BootB, D!BootScan, DriftInv, DriftFound
  <2>4. D1!SpawnInv' /\ D2!SpawnInv'
    BY <1>0, <2>1, <2>2, DriftFirstRests, DriftSecondRests DEF DriftInv
  <2>5. DriftOrder' /\ DriftFound'
    BY <2>1, <2>2, <2>3 DEF D!phaseA, D!phaseB, DriftInv, DriftOrder, DriftFound
  <2> QED BY <2>4, <2>5 DEF DriftInv
<1> QED BY <1>1, <1>2, <1>3

\* and so do the handler and the clock.
LEMMA DriftHandler == DriftInv /\ (D!Handler \/ D!Tick) => DriftInv'
<1> SUFFICES ASSUME DriftInv, D!Handler \/ D!Tick PROVE DriftInv'
    OBVIOUS
<1> USE DEF D!runner, D!runner2, D!clock
<1>0. up \in BOOLEAN /\ up2 \in BOOLEAN
  BY DEF DriftInv, D1!SpawnInv, D1!TypeOK, D2!SpawnInv, D2!TypeOK
<1>1. CASE D!Handler
  <2>1. UNCHANGED <<D!phaseA, D!phaseB, D!runner, D!runner2, D!clock>>
    BY <1>1 DEF D!Handler, D!NotMinted, D!Minted, D!Judge, D!Lookup
  <2>2. D1!SpawnInv' /\ D2!SpawnInv'
    BY <1>0, <2>1, DriftFirstRests, DriftSecondRests DEF DriftInv
  <2>3. CASE D!NotMinted \/ D!Minted \/ D!Lookup
    BY <2>1, <2>2, <2>3
       DEF D!NotMinted, D!Minted, D!Lookup, D!phaseA, D!phaseB, DriftInv, DriftOrder,
           DriftFound
  <2>4. CASE D!Judge
    <3>1. proc2 # "running"
      BY <2>4 DEF D!Judge, DriftInv, D2!SpawnInv, D2!ChildByPc
    <3> QED BY <2>1, <2>2, <2>4, <3>1
            DEF D!Judge, D!phaseA, D!phaseB, DriftInv, DriftOrder, DriftFound
  <2> QED BY <1>1, <2>3, <2>4 DEF D!Handler
<1>2. CASE D!Tick
  <2>1. D1!Tick /\ D2!Tick
    BY <1>2 DEF D!Tick, D!phaseA, D!phaseB, D1!Tick, D2!Tick
  <2>2. D1!SpawnInv' /\ D2!SpawnInv'
    BY <2>1, Assumptions, D1!NextInv, D2!NextInv DEF D1!Next, D2!Next, DriftInv
  <2>3. DriftOrder' /\ DriftFound'
    BY <1>2 DEF D!Tick, D!phaseA, D!phaseB, D!handler, DriftInv, DriftOrder, DriftFound
  <2> QED BY <2>2, <2>3 DEF DriftInv
<1> QED BY <1>1, <1>2

-----------------------------------------------------------------------------
\* The invariant holds initially, whichever handler is called,
LEMMA InitInv == Init => LaunchInv
BY CrashInit, StrInit, DriftInit DEF Init, LaunchInv

\* every step of that handler keeps it and leaves the others' state alone,
LEMMA NextInv == LaunchInv /\ [Next]_vars => LaunchInv'
<1> SUFFICES ASSUME LaunchInv, [Next]_vars PROVE LaunchInv'
    OBVIOUS
<1> USE DEF crashVars, strVars, driftVars, probeVars
<1>1. CASE Crash
  <2>1. CrashInv /\ C!Next
    BY <1>1 DEF Crash, InCrash, In, LaunchInv
  <2>2. CrashInv'
    BY <2>1, CrashSequence, CrashFirst, CrashSecond DEF C!Next
  <2> QED BY <1>1, <2>2 DEF Crash, InCrash, In, LaunchInv, NoStr, NoDrift, NoProbe
<1>2. CASE Str
  <2>1. StrInv /\ S!Next
    BY <1>2 DEF Str, InStr, In, LaunchInv
  <2>2. StrInv'
    BY <2>1, StrSpawn, StrDrive, StrRelaunch, StrHandler DEF S!Next
  <2> QED BY <1>2, <2>2 DEF Str, InStr, In, LaunchInv, NoCrash, NoDrift
<1>3. CASE Drift
  <2>1. DriftInv /\ D!Next
    BY <1>3 DEF Drift, InDrift, In, LaunchInv
  <2>2. DriftInv'
    BY <2>1, DriftPhaseA, DriftPhaseB, DriftHandler DEF D!Next, D!Loop, D!Reaped
  <2> QED BY <1>3, <2>2 DEF Drift, InDrift, In, LaunchInv, NoCrash, NoStr
<1>4. CASE UNCHANGED vars
  <2>1. ASSUME CrashInv PROVE CrashInv'
    <3>1. KC!KillInv' /\ SC!SpawnInv'
      <4>1. UNCHANGED <<C!first, C!relaunch, ctxDone, now>> /\ proceed' = proceed
        BY <1>4 DEF vars, C!first, C!relaunch
      <4>2. proceed' \in BOOLEAN
        BY <2>1, <4>1 DEF CrashInv, SC!SpawnInv, SC!TypeOK
      <4> QED BY <2>1, <4>1, <4>2, FirstRests, SecondRests DEF CrashInv
    <3> QED BY <1>4, <2>1, <3>1 DEF vars, CrashInv, CrashOrder, CrashFound, CrashTimes
  <2>2. ASSUME StrInv PROVE StrInv'
    <3>1. S1!SpawnInv' /\ S2!SpawnInv'
      <4>1. UNCHANGED <<S!first, S!relaunch, ctxDone, now>>
        BY <1>4 DEF vars, S!first, S!relaunch
      <4>2. driveOnce' \in BOOLEAN
        BY <1>4, <2>2 DEF vars, StrInv, StrFound
      <4> QED BY <2>2, <4>1, <4>2, StrFirstRests, StrSecondRests DEF StrInv
    <3> QED BY <1>4, <2>2, <3>1 DEF vars, StrInv, StrOrder, StrFound, StrTimes
  <2>3. ASSUME DriftInv PROVE DriftInv'
    <3>1. D1!SpawnInv' /\ D2!SpawnInv'
      <4>1. UNCHANGED <<D!phaseA, D!phaseB, D!clock>>
        BY <1>4 DEF vars, D!phaseA, D!phaseB, D!clock
      <4>2. up' \in BOOLEAN /\ up2' \in BOOLEAN
        BY <1>4, <2>3 DEF vars, DriftInv, D1!SpawnInv, D1!TypeOK, D2!SpawnInv, D2!TypeOK
      <4> QED BY <2>3, <4>1, <4>2, DriftFirstRests, DriftSecondRests DEF DriftInv
    <3> QED BY <1>4, <2>3, <3>1 DEF vars, DriftInv, DriftOrder, DriftFound
  <2> QED BY <1>4, <2>1, <2>2, <2>3 DEF vars, LaunchInv, NoCrash, NoStr, NoDrift, NoProbe
<1> QED BY <1>1, <1>2, <1>3, <1>4 DEF Next

\* and so it holds of every reachable state.
LEMMA InvHolds == Spec => []LaunchInv
BY InitInv, NextInv, PTL DEF Spec

-----------------------------------------------------------------------------
\* Type correctness of whichever handler was called.
THEOREM TwoTypeOK == Spec => []TypeOK
<1>1. LaunchInv => TypeOK
  <2>1. ASSUME CrashInv PROVE C!TypeOK
    <3>1. C!P1!TypeOK
      BY <2>1 DEF CrashInv, KC!KillInv, KC!TypeOK, KC!PCs, KC!Codes, KC!Results, C!P1!TypeOK,
         C!P1!PCs, C!P1!Codes, C!P1!Results
    <3>2. C!P2!TypeOK
      BY <2>1 DEF CrashInv, SC!SpawnInv, SC!TypeOK, SC!PCs, SC!Codes, C!P2!TypeOK, C!P2!PCs,
         C!P2!Codes
    <3> QED BY <2>1, <3>1, <3>2 DEF CrashInv, CrashOrder, CrashFound, CrashTimes, C!TypeOK
  <2>2. ASSUME StrInv PROVE S!TypeOK
    <3>1. S!P1!TypeOK
      BY <2>2 DEF StrInv, S1!SpawnInv, S1!TypeOK, S1!PCs, S1!Codes, S!P1!TypeOK, S!P1!PCs,
         S!P1!Codes
    <3>2. S!P2!TypeOK
      BY <2>2 DEF StrInv, S2!SpawnInv, S2!TypeOK, S2!PCs, S2!Codes, S!P2!TypeOK, S!P2!PCs,
         S!P2!Codes
    <3>3. {up, up2, slow, driveOnce, bracket, event} \subseteq BOOLEAN
      BY <2>2 DEF StrInv, StrFound
    <3> QED BY <2>2, <3>1, <3>2, <3>3 DEF StrInv, StrOrder, StrFound, StrTimes, S!TypeOK
  <2>3. ASSUME DriftInv PROVE D!TypeOK
    <3>1. D!A!TypeOK
      BY <2>3 DEF DriftInv, D1!SpawnInv, D1!TypeOK, D1!PCs, D1!Codes, D!A!TypeOK, D!A!PCs,
         D!A!Codes
    <3>2. D!B!TypeOK
      BY <2>3 DEF DriftInv, D2!SpawnInv, D2!TypeOK, D2!PCs, D2!Codes, D!B!TypeOK, D!B!PCs,
         D!B!Codes
    <3>3. {stored, ready2, scan2} \subseteq BOOLEAN
      BY <2>3 DEF DriftInv, DriftFound
    <3> QED BY <2>3, <3>1, <3>2, <3>3 DEF DriftInv, DriftOrder, DriftFound, D!TypeOK
  <2> QED BY <2>1, <2>2, <2>3 DEF LaunchInv, TypeOK
<1> QED BY <1>1, InvHolds, PTL

\* A pass is earned: RunCrashRecovery's by a first process whose marker the
\* scanner read and a second that came up; SV-STR-10's by an open bracket and
\* the event of a second process; SV-SESS-09's by a session stored in phase A
\* and a boot scan of phase B.
THEOREM TwoPassIsEarned == Spec => []PassIsEarned
<1>1. LaunchInv => PassIsEarned
  <2>1. ASSUME CrashInv PROVE C!PassIsEarned
    <3> SUFFICES ASSUME outer = "done", C!Verdict = "pass"
                 PROVE  /\ C!P1!MarkerIn(emitted) /\ proc \in {"killed", "exited"}
                        /\ up2 /\ recovery.ready /\ ~res2.startErr
        BY DEF C!PassIsEarned
    <3>1. res.markerSeen /\ recovery.ready
      BY DEF C!Verdict
    <3>2. up2 /\ ~res2.startErr
      BY <2>1, <3>1 DEF CrashInv, CrashFound, SC!SpawnInv, SC!ChildByPc
    <3>3. proc \in {"killed", "exited"}
      BY <2>1, <3>1 DEF CrashInv, CrashOrder, KC!KillInv, KC!TypeOK, KC!ResultByPc, KC!ChildByPc
    <3>4. C!P1!MarkerIn(emitted)
      <4>1. PICK i \in 1 .. scanned : Script[i] = Marker
        BY <2>1, <3>1 DEF CrashInv, KC!KillInv, KC!SeenByScan, KC!MarkerIn
      <4>2. emitted \in Nat /\ scanned \in 0 .. emitted
        BY <2>1 DEF CrashInv, KC!KillInv, KC!TypeOK
      <4> QED BY <4>1, <4>2 DEF C!P1!MarkerIn
    <3> QED BY <3>1, <3>2, <3>3, <3>4
  <2>2. ASSUME StrInv PROVE S!PassIsEarned
    BY <2>2 DEF StrInv, StrOrder, StrFound, S1!SpawnInv, S1!TypeOK, S1!ChildByPc,
       S!PassIsEarned
  <2>3. ASSUME DriftInv PROVE D!PassIsEarned
    BY <2>3 DEF DriftInv, DriftOrder, DriftFound, D1!SpawnInv, D1!TypeOK, D1!ResultByPc,
       D1!ChildByPc, D1!OutcomeExclusive, D!PassIsEarned
  <2> QED BY <2>1, <2>2, <2>3 DEF LaunchInv, PassIsEarned
<1> QED BY <1>1, InvHolds, PTL

\* The two processes never run together: the second Spawn begins when the first
\* launch has returned, which leaves no process running.
THEOREM TwoOneAtATime == Spec => []OneAtATime
<1>1. LaunchInv => OneAtATime
  BY DEF LaunchInv, CrashInv, CrashOrder, StrInv, StrOrder, DriftInv, DriftOrder, OneAtATime,
     KC!KillInv, KC!ChildByPc, S1!SpawnInv, S1!ChildByPc, D1!SpawnInv, D1!ChildByPc
<1> QED BY <1>1, InvHolds, PTL

\* The relaunched process is not timed out while the handler polls or probes it:
\* its deadline is set after the handler's window and reaches beyond it.
THEOREM TwoPolledAlive == Spec => []PolledAlive
<1>1. LaunchInv => PolledAlive
  <2>1. ASSUME CrashInv PROVE C!RelaunchOutlivesProbe
    <3> SUFFICES ASSUME res2.timedOut, ~proceed PROVE FALSE
        BY DEF C!RelaunchOutlivesProbe
    <3>1. /\ now > deadline2 /\ proc2 # "none"
          /\ now \in Nat /\ deadline2 \in Nat
      BY <2>1 DEF CrashInv, SC!SpawnInv, SC!TypeOK, SC!ResultByPc, SC!ChildByPc, SC!Blank,
         SC!OutcomeExclusive, SC!PCs
    <3>2. recovery.started
      BY <2>1, <3>1 DEF CrashInv, CrashOrder
    <3>3. readyBy \in Nat /\ now <= readyBy /\ readyBy < deadline2
      BY <2>1, <3>1, <3>2 DEF CrashInv, CrashTimes
    <3> QED BY <3>1, <3>3
  <2>2. ASSUME StrInv PROVE S!PolledAlive
    <3> SUFFICES ASSUME outer = "poll", res2.timedOut PROVE FALSE
        BY DEF S!PolledAlive
    <3>1. /\ now > deadline2 /\ proc2 # "none"
          /\ now \in Nat /\ deadline2 \in Nat
      BY <2>2 DEF StrInv, S2!SpawnInv, S2!TypeOK, S2!ResultByPc, S2!ChildByPc, S2!Blank,
         S2!OutcomeExclusive, S2!PCs
    <3>2. readyBy \in Nat /\ now <= readyBy /\ readyBy <= deadline2
      BY <2>2, <3>1 DEF StrInv, StrTimes
    <3> QED BY <3>1, <3>2
  <2> QED BY <2>1, <2>2 DEF LaunchInv, PolledAlive
<1> QED BY <1>1, InvHolds, PTL

\* RunCrashRecovery and SV-SESS-09 return with both processes stopped.
THEOREM TwoNothingLeftRunning == Spec => []NothingLeftRunning
<1>1. LaunchInv => NothingLeftRunning
  BY DEF LaunchInv, CrashInv, CrashOrder, DriftInv, DriftOrder, NothingLeftRunning,
     KC!KillInv, KC!ChildByPc, SC!SpawnInv, SC!ChildByPc, D1!SpawnInv, D1!ChildByPc
<1> QED BY <1>1, InvHolds, PTL
=============================================================================
