--------------------------- MODULE OneLaunch_proofs ---------------------------
(***************************************************************************)
(* The handlers that launch once, for every timeout and window, exit code  *)
(* and set of arms.  Each handler's Spawn is the proved one: its inductive *)
(* invariant is instantiated with the handler's timeout and probe, and     *)
(* what is added here relates the handler's own control points, windows    *)
(* and evidence to it.                                                     *)
(***************************************************************************)
EXTENDS OneLaunch, TLAPS

\* The Spawn of an arm without and with a probe, of SV-SESS-BOOT-02 (its own
\* answers and a stranger's) and of launchProbeKill.
RS == INSTANCE Spawn_proofs WITH
        Timeout <- RefuseTimeout, HasProbe <- FALSE, AsksChild <- TRUE,
        MayCancel <- FALSE, probeOk <- R!probeOk
RP == INSTANCE Spawn_proofs WITH
        Timeout <- RefuseTimeout, HasProbe <- TRUE, AsksChild <- TRUE,
        MayCancel <- FALSE, probeOk <- R!probeOk
BS == INSTANCE Spawn_proofs WITH
        Timeout <- BootTimeout, HasProbe <- TRUE, AsksChild <- TRUE,
        MayCancel <- FALSE, probeOk <- up
BF == INSTANCE Spawn_proofs WITH
        Timeout <- BootTimeout, HasProbe <- TRUE, AsksChild <- FALSE,
        MayCancel <- FALSE, probeOk <- foreign
KS == INSTANCE Spawn_proofs WITH
        Timeout <- KillTimeout, HasProbe <- TRUE, AsksChild <- FALSE,
        MayCancel <- FALSE, probeOk <- proceed

\* A refuse-to-start arm.
RefuseInv ==
    /\ RS!SpawnInv
    /\ arm \in Arms /\ boundAt \in 0 .. R!Never /\ cited \in {"nothing", "other", "reason"}

\* SV-SESS-BOOT-02: it is over when Spawn is, and a failure has a cause.
BootInv ==
    /\ BS!SpawnInv
    /\ foreign \in BOOLEAN /\ conform \in BOOLEAN
    /\ outer \in {"poll", "assert", "await", "done"}
    /\ ev \in {"none", "error", "fail", "pass"}
    /\ outer = "done" => pc = "returned"
    /\ ev = "fail" => foreign \/ ~conform

\* launchProbeKill: the channel is closed when the caller is through, and the
\* clock stays within the caller's windows until then.
ProbeInv ==
    /\ KS!SpawnInv
    /\ up \in BOOLEAN /\ foreign \in BOOLEAN /\ pass \in BOOLEAN
    /\ outer \in {"poll", "probe", "await", "done"}
    /\ outer = "done" => pc = "returned"
    /\ proceed => outer \in {"await", "done"}
    /\ res.ready => proceed
    /\ pc = "start" => now = 0
    /\ pc \notin {"start", "returned"} \/ res.timedOut => deadline = KillTimeout
    /\ outer = "poll" => now <= KillPoll
    /\ outer = "probe" => now <= KillPoll \/ now <= KillProbe

LaunchInv ==
    \/ kind = "refuse" /\ RefuseInv /\ NoBoot /\ NoKill
    \/ kind = "boot" /\ BootInv /\ NoRefuse /\ NoKill
    \/ kind = "kill" /\ ProbeInv /\ NoRefuse /\ NoBoot

-----------------------------------------------------------------------------
\* The constants are what Spawn assumes of them.
LEMMA Assumptions ==
    /\ RS!SpawnAssumption /\ RP!SpawnAssumption
    /\ BS!SpawnAssumption /\ BF!SpawnAssumption /\ KS!SpawnAssumption
BY OneLaunchAssumption
   DEF OneLaunchAssumption, RS!SpawnAssumption, RP!SpawnAssumption, BS!SpawnAssumption,
       BF!SpawnAssumption, KS!SpawnAssumption

\* The probe of an arm has an answer.
LEMMA ProbeOkType == R!probeOk \in BOOLEAN
BY DEF R!probeOk

\* A step of a handler's Spawn is a step of the proved one and keeps its
\* invariant: of an arm without a probe,
LEMMA BareStep ==
    ASSUME RS!SpawnInv, R!Bare!Harness \/ R!Bare!Wait \/ R!Bare!Exit \/ R!Bare!Tick
    PROVE  RS!SpawnInv'
<1>1. RS!Next
  <2>1. CASE R!Bare!Harness
    <3>1. RS!Harness
      BY <2>1
      DEF R!Bare!StartFails, R!Bare!StartWorks, R!Bare!Start, R!Bare!CheckDeadline,
      R!Bare!TakeExit, R!Bare!Poll, R!Bare!ProbeNil, R!Bare!ProbeErr, R!Bare!Cancelled,
      R!Bare!Kill, R!Bare!Reap, R!Bare!Harness, RS!StartFails, RS!StartWorks, RS!Start,
      RS!CheckDeadline, RS!TakeExit, RS!Poll, RS!ProbeNil, RS!ProbeErr, RS!Cancelled,
      RS!Kill, RS!Reap, RS!Harness
    <3> QED BY <3>1 DEF RS!Next
  <2>2. CASE R!Bare!Wait \/ R!Bare!Exit \/ R!Bare!Tick
    BY <2>2 DEF RS!Next, R!Bare!Wait, R!Bare!Exit, R!Bare!Tick, RS!Wait, RS!Exit,
      RS!Tick
  <2> QED BY <2>1, <2>2
<1> QED BY <1>1, Assumptions, RS!NextInv

\* of an arm with one,
LEMMA ProbedStep ==
    ASSUME RS!SpawnInv, R!Probed!Harness
    PROVE  RS!SpawnInv'
<1>1. RP!Harness
  BY DEF R!Probed!StartFails, R!Probed!StartWorks, R!Probed!Start, R!Probed!CheckDeadline,
      R!Probed!TakeExit, R!Probed!Poll, R!Probed!ProbeNil, R!Probed!ProbeErr,
      R!Probed!Cancelled, R!Probed!Kill, R!Probed!Reap, R!Probed!Harness,
      RP!StartFails, RP!StartWorks, RP!Start, RP!CheckDeadline, RP!TakeExit, RP!Poll,
      RP!ProbeNil, RP!ProbeErr, RP!Cancelled, RP!Kill, RP!Reap, RP!Harness
<1>2. RP!SpawnInv
  BY DEF RS!SpawnInv, RS!TypeOK, RS!ResultByPc, RS!ChildByPc, RS!ResultOfChild,
      RS!OutcomeExclusive, RS!PCs, RS!Codes, RS!Blank, RP!SpawnInv, RP!TypeOK,
      RP!ResultByPc, RP!ChildByPc, RP!ResultOfChild, RP!OutcomeExclusive, RP!PCs,
      RP!Codes, RP!Blank
<1>3. RP!SpawnInv'
  BY <1>1, <1>2, Assumptions, RP!NextInv DEF RP!Next
<1> QED BY <1>3 DEF RS!SpawnInv, RS!TypeOK, RS!ResultByPc, RS!ChildByPc, RS!ResultOfChild,
      RS!OutcomeExclusive, RS!PCs, RS!Codes, RS!Blank, RP!SpawnInv, RP!TypeOK,
      RP!ResultByPc, RP!ChildByPc, RP!ResultOfChild, RP!OutcomeExclusive, RP!PCs,
      RP!Codes, RP!Blank

\* of SV-SESS-BOOT-02,
LEMMA BootStep ==
    ASSUME BS!SpawnInv, B!S!Harness \/ B!S!Wait \/ B!S!Exit \/ B!S!Tick
    PROVE  BS!SpawnInv'
<1>1. BS!Next
  <2>1. CASE B!S!Harness
    <3>1. BS!Harness
      BY <2>1
      DEF B!S!StartFails, B!S!StartWorks, B!S!Start, B!S!CheckDeadline, B!S!TakeExit,
      B!S!Poll, B!S!ProbeNil, B!S!ProbeErr, B!S!Cancelled, B!S!Kill, B!S!Reap,
      B!S!Harness, BS!StartFails, BS!StartWorks, BS!Start, BS!CheckDeadline,
      BS!TakeExit, BS!Poll, BS!ProbeNil, BS!ProbeErr, BS!Cancelled, BS!Kill, BS!Reap,
      BS!Harness
    <3> QED BY <3>1 DEF BS!Next
  <2>2. CASE B!S!Wait \/ B!S!Exit \/ B!S!Tick
    BY <2>2 DEF BS!Next, B!S!Wait, B!S!Exit, B!S!Tick, BS!Wait, BS!Exit,
      BS!Tick
  <2> QED BY <2>1, <2>2
<1> QED BY <1>1, Assumptions, BS!NextInv

\* of SV-SESS-BOOT-02 when a stranger answers its probe,
LEMMA StrangerStep ==
    ASSUME BS!SpawnInv, foreign \in BOOLEAN, up' = up /\ foreign' = foreign, B!F!Harness
    PROVE  BS!SpawnInv'
<1>1. BF!Harness
  BY DEF B!F!StartFails, B!F!StartWorks, B!F!Start, B!F!CheckDeadline, B!F!TakeExit,
      B!F!Poll, B!F!ProbeNil, B!F!ProbeErr, B!F!Cancelled, B!F!Kill, B!F!Reap,
      B!F!Harness, BF!StartFails, BF!StartWorks, BF!Start, BF!CheckDeadline,
      BF!TakeExit, BF!Poll, BF!ProbeNil, BF!ProbeErr, BF!Cancelled, BF!Kill, BF!Reap,
      BF!Harness
<1>2. BF!SpawnInv
  BY DEF BS!SpawnInv, BS!TypeOK, BS!ResultByPc, BS!ChildByPc, BS!ResultOfChild,
      BS!OutcomeExclusive, BS!PCs, BS!Codes, BS!Blank, BF!SpawnInv, BF!TypeOK,
      BF!ResultByPc, BF!ChildByPc, BF!ResultOfChild, BF!OutcomeExclusive, BF!PCs,
      BF!Codes, BF!Blank
<1>3. BF!SpawnInv'
  BY <1>1, <1>2, Assumptions, BF!NextInv DEF BF!Next
<1> QED BY <1>3 DEF BS!SpawnInv, BS!TypeOK, BS!ResultByPc, BS!ChildByPc, BS!ResultOfChild,
      BS!OutcomeExclusive, BS!PCs, BS!Codes, BS!Blank, BF!SpawnInv, BF!TypeOK,
      BF!ResultByPc, BF!ChildByPc, BF!ResultOfChild, BF!OutcomeExclusive, BF!PCs,
      BF!Codes, BF!Blank

\* and of launchProbeKill.
LEMMA KillStep ==
    ASSUME KS!SpawnInv, K!S!Harness \/ K!S!Wait \/ K!S!Exit \/ K!S!Tick
    PROVE  KS!SpawnInv'
<1>1. KS!Next
  <2>1. CASE K!S!Harness
    <3>1. KS!Harness
      BY <2>1
      DEF K!S!StartFails, K!S!StartWorks, K!S!Start, K!S!CheckDeadline, K!S!TakeExit,
      K!S!Poll, K!S!ProbeNil, K!S!ProbeErr, K!S!Cancelled, K!S!Kill, K!S!Reap,
      K!S!Harness, KS!StartFails, KS!StartWorks, KS!Start, KS!CheckDeadline,
      KS!TakeExit, KS!Poll, KS!ProbeNil, KS!ProbeErr, KS!Cancelled, KS!Kill, KS!Reap,
      KS!Harness
    <3> QED BY <3>1 DEF KS!Next
  <2>2. CASE K!S!Wait \/ K!S!Exit \/ K!S!Tick
    BY <2>2 DEF KS!Next, K!S!Wait, K!S!Exit, K!S!Tick, KS!Wait, KS!Exit,
      KS!Tick
  <2> QED BY <2>1, <2>2
<1> QED BY <1>1, Assumptions, KS!NextInv

-----------------------------------------------------------------------------
\* The invariant holds when the handler is called.
LEMMA InitInv == Init => LaunchInv
<1>1. ASSUME kind = "refuse", R!Init PROVE RefuseInv
  <2>1. RS!SpawnInv
    <3>1. RS!Init
      BY <1>1 DEF R!Init, RS!Init, RS!Blank, R!Bare!Blank, R!probeOk, R!SettleWait, R!PollInterval
    <3> QED BY <3>1, Assumptions, RS!InitInv
  <2>2. boundAt \in 0 .. R!Never
    BY <1>1, OneLaunchAssumption DEF R!Init, R!Never, OneLaunchAssumption
  <2> QED BY <1>1, <2>1, <2>2 DEF R!Init, RefuseInv
<1>2. ASSUME kind = "boot", B!Init PROVE BootInv
  <2>1. BS!SpawnInv
    <3>1. BS!Init
      BY <1>2 DEF B!Init, B!S!Init, BS!Init, B!S!Blank, BS!Blank
    <3> QED BY <3>1, Assumptions, BS!InitInv
  <2> QED BY <1>2, <2>1 DEF B!Init, B!PickFreePort, BootInv
<1>3. ASSUME kind = "kill", K!Init PROVE ProbeInv
  <2>1. KS!Init
    BY <1>3 DEF K!Init, K!S!Init, KS!Init, K!S!Blank, KS!Blank
  <2>2. KS!SpawnInv
    BY <2>1, Assumptions, KS!InitInv
  <2>3. ~res.timedOut /\ ~res.ready /\ pc = "start" /\ now = 0
    BY <2>1 DEF KS!Init, KS!Blank
  <2>4. proceed = FALSE
    BY <2>1 DEF KS!Init
  <2>5. 0 <= KillPoll
    BY OneLaunchAssumption DEF OneLaunchAssumption
  <2> QED BY <1>3, <2>2, <2>3, <2>4, <2>5 DEF K!Init, ProbeInv
<1> QED BY <1>1, <1>2, <1>3 DEF Init, LaunchInv

-----------------------------------------------------------------------------
\* Every step of an arm, its process or the clock keeps the arm's invariant.
LEMMA RefuseStep == RefuseInv /\ R!Next => RefuseInv'
<1> SUFFICES ASSUME RefuseInv, R!Next PROVE RefuseInv'
    OBVIOUS
<1>1. RS!SpawnInv /\ R!probeOk' \in BOOLEAN
  BY ProbeOkType DEF RefuseInv, R!probeOk
<1>2. CASE R!RunArm
  <2>1. RS!SpawnInv'
    BY <1>1, <1>2, BareStep, ProbedStep DEF R!RunArm
  <2> QED BY <1>2, <2>1 DEF R!RunArm, RefuseInv, R!Never
<1>3. CASE R!Reaped \/ R!ProcessExit \/ R!Tick
  <2>1. RS!SpawnInv'
    BY <1>1, <1>3, BareStep DEF R!Reaped, R!ProcessExit, R!Tick
  <2> QED BY <1>3, <2>1 DEF R!Reaped, R!ProcessExit, R!Tick, RefuseInv, R!Never
<1>4. CASE R!Bind
  <2>1. RS!SpawnInv'
    <3>1. UNCHANGED <<pc, proc, code, held, exitCh, ctxDone, now, deadline, res>>
      BY <1>4 DEF R!Bind, R!spawnVars
    <3> QED BY <1>1, <3>1, Assumptions, RS!ProbeInv
  <2>2. boundAt' \in 0 .. R!Never
    BY <1>1, <1>4, OneLaunchAssumption
       DEF R!Bind, RS!SpawnInv, RS!TypeOK, R!Never, OneLaunchAssumption
  <2> QED BY <1>4, <2>1, <2>2 DEF R!Bind, RefuseInv, R!Never
<1>5. CASE R!Cite
  <2>1. RS!SpawnInv'
    <3>1. UNCHANGED <<pc, proc, code, held, exitCh, ctxDone, now, deadline, res>>
      BY <1>5 DEF R!Cite, R!spawnVars
    <3> QED BY <1>1, <3>1, Assumptions, RS!ProbeInv
  <2> QED BY <1>5, <2>1 DEF R!Cite, RefuseInv, R!Never
<1> QED BY <1>2, <1>3, <1>4, <1>5 DEF R!Next

\* Every step of SV-SESS-BOOT-02, its process, a stranger or the clock keeps
\* the test's: a returned Spawn takes no step, a stranger stays.
LEMMA BootNext == BootInv /\ B!Next => BootInv'
<1> SUFFICES ASSUME BootInv, B!Next PROVE BootInv'
    OBVIOUS
<1> USE DEF BootInv
<1>1. CASE B!Loop
  <2>1. BS!SpawnInv'
    BY <1>1, BootStep, StrangerStep DEF B!Loop
  <2>2. pc # "returned"
    BY <1>1
    DEF B!Loop, B!S!StartFails, B!S!StartWorks, B!S!Start, B!S!TakeExit, B!S!Poll,
      B!S!ProbeNil, B!S!ProbeErr, B!S!Cancelled, B!S!Kill, B!S!Reap, B!S!Harness,
      B!F!StartFails, B!F!StartWorks, B!F!Start, B!F!TakeExit, B!F!Poll,
      B!F!ProbeNil, B!F!ProbeErr, B!F!Cancelled, B!F!Kill, B!F!Reap, B!F!Harness
  <2> QED BY <1>1, <2>1, <2>2 DEF B!Loop
<1>2. CASE B!Reaped \/ B!ProcessExit
  <2>1. BS!SpawnInv'
    BY <1>2, BootStep DEF B!Reaped, B!ProcessExit
  <2> QED BY <1>2, <2>1
          DEF B!Reaped, B!ProcessExit, B!S!Wait, B!S!Exit
<1>3. CASE B!Tick
  <2>1. BS!SpawnInv'
    BY <1>3, BootStep DEF B!Tick, B!S!Tick, B!spawnVars
  <2> QED BY <1>3, <2>1 DEF B!Tick, B!spawnVars
<1>4. CASE B!Bind \/ B!Usurp \/ B!Handler
  <2>1. up' \in BOOLEAN
    BY <1>4 DEF B!Bind, B!Usurp, B!Handler, B!SpawnDone, B!Healthy, B!WindowOver, B!Assert,
        B!Await, BS!SpawnInv, BS!TypeOK
  <2>2. BS!SpawnInv'
    <3>1. UNCHANGED <<pc, proc, code, held, exitCh, ctxDone, now, deadline, res>>
      BY <1>4 DEF B!Bind, B!Usurp, B!Handler, B!SpawnDone, B!Healthy, B!WindowOver,
          B!Assert, B!Await, B!spawnVars
    <3>2. BS!SpawnInv
      OBVIOUS
    <3> HIDE DEF BootInv
    <3> QED BY <2>1, <3>1, <3>2, Assumptions, BS!ProbeInv
  <2>3. CASE B!Bind \/ B!Usurp
    <3>1. foreign' \in BOOLEAN /\ (foreign => foreign')
      <4>1. CASE B!Bind
        BY <4>1 DEF B!Bind
      <4>2. CASE B!Usurp
        BY <4>2, Zenon DEF B!Usurp
      <4> QED BY <2>3, <4>1, <4>2
    <3> QED BY <2>2, <2>3, <3>1 DEF B!Bind, B!Usurp, B!spawnVars
  <2>4. CASE B!SpawnDone \/ B!Healthy \/ B!WindowOver \/ B!Await
    BY <2>2, <2>4 DEF B!SpawnDone, B!Healthy, B!WindowOver, B!Await, B!spawnVars
  <2>5. CASE B!Assert
    BY <2>2, <2>5 DEF B!Assert, B!spawnVars
  <2> QED BY <1>4, <2>3, <2>4, <2>5 DEF B!Handler
<1> QED BY <1>1, <1>2, <1>3, <1>4 DEF B!Next

\* What a step of launchProbeKill's Spawn does to the Result: it is ready only
\* when told to proceed, and every deadline is the timeout after its start.
LEMMA KillHarness ==
    ASSUME KS!SpawnInv, K!S!Harness,
           pc = "start" => now = 0,
           res.ready => proceed,
           pc \notin {"start", "returned"} \/ res.timedOut => deadline = KillTimeout
    PROVE  /\ pc # "returned" /\ pc' # "start"
           /\ res'.ready => proceed
           /\ pc' # "returned" \/ res'.timedOut => deadline' = KillTimeout
<1> USE DEF KS!SpawnInv, KS!TypeOK, KS!ResultByPc, KS!Blank
<1>1. CASE K!S!StartFails
  BY <1>1 DEF K!S!StartFails
<1>2. CASE K!S!StartWorks
  BY <1>2, OneLaunchAssumption DEF K!S!StartWorks, OneLaunchAssumption
<1>3. CASE K!S!TakeExit
  BY <1>3 DEF K!S!TakeExit
<1>4. CASE K!S!Poll \/ K!S!ProbeErr
  BY <1>4 DEF K!S!Poll, K!S!ProbeErr, K!S!CheckDeadline
<1>5. CASE K!S!ProbeNil
  BY <1>5 DEF K!S!ProbeNil
<1>6. CASE K!S!Cancelled \/ K!S!Kill \/ K!S!Reap
  BY <1>6 DEF K!S!Cancelled, K!S!Kill, K!S!Reap
<1> QED BY <1>1, <1>2, <1>3, <1>4, <1>5, <1>6 DEF K!S!Harness, K!S!Start

\* Every step of a launchProbeKill test, its process, a stranger or the clock
\* keeps its invariant.
LEMMA ProbeNext == ProbeInv /\ K!Next => ProbeInv'
<1> SUFFICES ASSUME ProbeInv, K!Next PROVE ProbeInv'
    OBVIOUS
<1> USE DEF ProbeInv
<1>1. CASE K!Loop
  <2>1. KS!SpawnInv'
    BY <1>1, KillStep DEF K!Loop
  <2>2. /\ pc # "returned" /\ pc' # "start"
        /\ res'.ready => proceed
        /\ pc' # "returned" \/ res'.timedOut => deadline' = KillTimeout
    BY <1>1, KillHarness DEF K!Loop
  <2>3. now' = now /\ proceed' = proceed
    BY <1>1 DEF K!Loop, K!S!StartFails, K!S!StartWorks, K!S!Start, K!S!TakeExit, K!S!Poll,
      K!S!ProbeNil, K!S!ProbeErr, K!S!Cancelled, K!S!Kill, K!S!Reap, K!S!Harness
  <2> QED BY <1>1, <2>1, <2>2, <2>3 DEF K!Loop, K!caller
<1>2. CASE K!Reaped \/ K!ProcessExit
  <2>1. KS!SpawnInv'
    BY <1>2, KillStep DEF K!Reaped, K!ProcessExit
  <2> QED BY <1>2, <2>1
          DEF K!Reaped, K!ProcessExit, K!S!Wait, K!S!Exit, K!caller
<1>3. CASE K!Tick
  <2>1. KS!SpawnInv'
    BY <1>3, KillStep DEF K!Tick, K!S!Tick, K!spawnVars
  <2>2. now \in Nat
    BY DEF KS!SpawnInv, KS!TypeOK
  <2> QED BY <1>3, <2>1, <2>2, OneLaunchAssumption
          DEF K!Tick, K!spawnVars, K!caller, OneLaunchAssumption
<1>4. CASE K!Bind \/ K!Usurp \/ K!Caller
  <2>1. proceed' \in BOOLEAN
    BY <1>4 DEF K!Bind, K!Usurp, K!Caller, K!Healthy, K!PollExpires, K!ProbeReturns,
        K!Collect, KS!SpawnInv, KS!TypeOK
  <2>2. KS!SpawnInv'
    <3>1. UNCHANGED <<pc, proc, code, held, exitCh, ctxDone, now, deadline, res>>
      BY <1>4 DEF K!Bind, K!Usurp, K!Caller, K!Healthy, K!PollExpires, K!ProbeReturns,
          K!Collect, K!spawnVars
    <3>2. KS!SpawnInv
      OBVIOUS
    <3> HIDE DEF ProbeInv
    <3> QED BY <2>1, <3>1, <3>2, Assumptions, KS!ProbeInv
  <2>3. CASE K!Bind \/ K!Usurp
    <3>1. up' \in BOOLEAN /\ foreign' \in BOOLEAN
      <4>1. CASE K!Bind
        BY <4>1, Zenon DEF K!Bind
      <4>2. CASE K!Usurp
        BY <4>2, Zenon DEF K!Usurp
      <4> QED BY <2>3, <4>1, <4>2
    <3> QED BY <2>2, <2>3, <3>1 DEF K!Bind, K!Usurp, K!spawnVars, K!caller
  <2>4. CASE K!Healthy \/ K!PollExpires \/ K!Collect
    BY <2>2, <2>4 DEF K!Healthy, K!PollExpires, K!Collect, K!spawnVars
  <2>5. CASE K!ProbeReturns
    <3>1. pass' \in BOOLEAN
      BY <2>5 DEF K!ProbeReturns, K!serving, KS!SpawnInv, KS!TypeOK
    <3> QED BY <2>2, <2>5, <3>1 DEF K!ProbeReturns, K!spawnVars
  <2> QED BY <1>4, <2>3, <2>4, <2>5 DEF K!Caller
<1> QED BY <1>1, <1>2, <1>3, <1>4 DEF K!Next

\* Whichever handler was called, every step keeps the invariant, and leaves the
\* state of the others alone.
LEMMA NextInv == LaunchInv /\ [Next]_vars => LaunchInv'
<1> SUFFICES ASSUME LaunchInv, [Next]_vars PROVE LaunchInv'
    OBVIOUS
<1>1. CASE Refuse
  <2>1. RefuseInv'
    BY <1>1, RefuseStep DEF Refuse, InRefuse, In, LaunchInv
  <2> QED BY <1>1, <2>1 DEF Refuse, InRefuse, In, LaunchInv, bootVars, killVars, shared,
             NoBoot, NoKill
<1>2. CASE Boot
  <2>1. BootInv'
    BY <1>2, BootNext DEF Boot, InBoot, In, LaunchInv
  <2> QED BY <1>2, <2>1 DEF Boot, InBoot, In, LaunchInv, refuseVars, killVars,
             NoRefuse, NoKill
<1>3. CASE Probe
  <2>1. ProbeInv'
    BY <1>3, ProbeNext DEF Probe, InKill, In, LaunchInv
  <2> QED BY <1>3, <2>1 DEF Probe, InKill, In, LaunchInv, refuseVars, bootVars,
             NoRefuse, NoBoot
<1>4. CASE UNCHANGED vars
  <2>1. CASE kind = "refuse"
    <3>1. RefuseInv /\ RS!SpawnInv /\ R!probeOk' \in BOOLEAN
      BY <2>1, ProbeOkType DEF LaunchInv, RefuseInv, R!probeOk
    <3>2. RS!SpawnInv'
      <4>1. UNCHANGED <<pc, proc, code, held, exitCh, ctxDone, now, deadline, res>>
        BY <1>4 DEF vars
      <4>2. R!probeOk' \in BOOLEAN
        BY <1>4, <3>1 DEF vars, R!probeOk
      <4> QED BY <3>1, <4>1, <4>2, Assumptions, RS!ProbeInv
    <3> QED BY <1>4, <2>1, <3>1, <3>2
            DEF vars, LaunchInv, RefuseInv, R!Never, NoBoot, NoKill, bootVars, killVars,
                refuseVars
  <2>2. CASE kind = "boot"
    <3>1. BootInv /\ up \in BOOLEAN /\ BS!SpawnInv
      BY <2>2 DEF LaunchInv, BootInv, BS!SpawnInv, BS!TypeOK
    <3>2. BS!SpawnInv'
      <4>1. UNCHANGED <<pc, proc, code, held, exitCh, ctxDone, now, deadline, res>>
        BY <1>4 DEF vars, shared
      <4>2. up' \in BOOLEAN
        BY <1>4, <3>1 DEF vars, shared
      <4> QED BY <3>1, <4>1, <4>2, Assumptions, BS!ProbeInv
    <3> QED BY <1>4, <2>2, <3>1, <3>2
            DEF vars, LaunchInv, BootInv, NoRefuse, NoKill, bootVars, killVars,
                refuseVars, shared
  <2>3. CASE kind = "kill"
    <3>1. ProbeInv /\ proceed \in BOOLEAN /\ KS!SpawnInv
      BY <2>3 DEF LaunchInv, ProbeInv, KS!SpawnInv, KS!TypeOK
    <3>2. KS!SpawnInv'
      <4>1. UNCHANGED <<pc, proc, code, held, exitCh, ctxDone, now, deadline, res>>
        BY <1>4 DEF vars, killVars
      <4>2. proceed' \in BOOLEAN
        BY <1>4, <3>1 DEF vars, killVars
      <4> QED BY <3>1, <4>1, <4>2, Assumptions, KS!ProbeInv
    <3> QED BY <1>4, <2>3, <3>1, <3>2
            DEF vars, LaunchInv, ProbeInv, NoRefuse, NoBoot, bootVars, killVars,
                refuseVars, shared
  <2> QED BY <2>1, <2>2, <2>3 DEF LaunchInv
<1> QED BY <1>1, <1>2, <1>3, <1>4 DEF Next

\* The invariant holds of every reachable state.
LEMMA InvHolds == Spec => []LaunchInv
BY InitInv, NextInv, PTL DEF Spec

-----------------------------------------------------------------------------
\* Type correctness of whichever handler was called.
THEOREM LaunchTypeOK == Spec => []TypeOK
<1>1. LaunchInv => TypeOK
  <2> SUFFICES ASSUME LaunchInv PROVE TypeOK
      OBVIOUS
  <2>1. CASE kind = "refuse"
    <3>1. RS!TypeOK
      BY <2>1 DEF LaunchInv, RefuseInv, RS!SpawnInv
    <3>2. R!Bare!TypeOK
      BY <3>1 DEF RS!TypeOK, R!Bare!TypeOK, RS!PCs, R!Bare!PCs, RS!Codes, R!Bare!Codes
    <3> QED BY <2>1, <3>2 DEF LaunchInv, RefuseInv, R!TypeOK, TypeOK
  <2>2. CASE kind = "boot"
    <3>1. BS!TypeOK
      BY <2>2 DEF LaunchInv, BootInv, BS!SpawnInv
    <3>2. B!S!TypeOK
      BY <3>1 DEF BS!TypeOK, B!S!TypeOK, BS!PCs, B!S!PCs, BS!Codes, B!S!Codes
    <3> QED BY <2>2, <3>2 DEF LaunchInv, BootInv, B!TypeOK, TypeOK
  <2>3. CASE kind = "kill"
    <3>1. KS!TypeOK
      BY <2>3 DEF LaunchInv, ProbeInv, KS!SpawnInv
    <3>2. K!S!TypeOK
      BY <3>1 DEF KS!TypeOK, K!S!TypeOK, KS!PCs, K!S!PCs, KS!Codes, K!S!Codes
    <3> QED BY <2>3, <3>2 DEF LaunchInv, ProbeInv, K!TypeOK, TypeOK
  <2> QED BY <2>1, <2>2, <2>3 DEF LaunchInv
<1> QED BY <1>1, InvHolds, PTL

\* A refuse-to-start arm that demands an exit passes only an implementation
\* that ended by itself with a non-zero code: its ladders read res.exited and
\* res.code, and Spawn reports -1 and never Exited for a process it killed.
THEOREM LaunchExitArmsSound == Spec => []ExitArmsSound
<1>1. LaunchInv => ExitArmsSound
  <2> SUFFICES ASSUME LaunchInv, kind = "refuse", pc = "returned", arm \in R!ExitArms,
                      R!Verdict = "pass"
               PROVE  proc = "exited" /\ code # 0
      BY DEF ExitArmsSound, R!ExitArmsSound, R!Judged
  <2>1. RS!SpawnInv
    BY DEF LaunchInv, RefuseInv
  <2>2. res.exited /\ res.code # 0
    BY DEF R!ExitArms, R!Verdict, R!VerdictHR12, R!VerdictExitAndReason, R!VerdictSess02
  <2> QED BY <2>1, <2>2 DEF RS!SpawnInv, RS!ResultOfChild
<1> QED BY <1>1, InvHolds, PTL

\* A refusal that Spawn observed passes in every arm, and a Runner that answers
\* 403 is never failed by SV-SESS-BOOT-02 while the port is its own.
THEOREM LaunchConformingNeverFails == Spec => []ConformingNeverFails
<1>1. LaunchInv => ConformingNeverFails
  <2>1. ASSUME LaunchInv, kind = "refuse" PROVE R!RefusalNeverFails
    <3> SUFFICES ASSUME pc = "returned", res.exited, proc = "exited", code > 0,
                        cited = "reason"
                 PROVE  R!Verdict = "pass"
        BY DEF R!RefusalNeverFails, R!Judged
    <3>1. RS!SpawnInv
      BY <2>1 DEF LaunchInv, RefuseInv
    <3>2. ~res.startErr /\ ~res.ready /\ res.code # 0
      BY <3>1 DEF RS!SpawnInv, RS!TypeOK, RS!ResultByPc, RS!OutcomeExclusive, RS!ResultOfChild
    <3> QED BY <3>2 DEF R!Verdict, R!VerdictHR12, R!VerdictExitAndReason, R!VerdictSess02,
               R!VerdictCard09, R!VerdictReadyAndReason
  <2>2. ASSUME LaunchInv, kind = "boot" PROVE B!ConformingNeverFails
    BY <2>2 DEF LaunchInv, BootInv, B!ConformingNeverFails
  <2> QED BY <2>1, <2>2 DEF ConformingNeverFails
<1> QED BY <1>1, InvHolds, PTL

\* While a launchProbeKill test polls or probes, only the process itself ends
\* it: Spawn's timeout outlasts both windows, and its probe is the channel the
\* caller closes when it is through.
THEOREM LaunchNotCutOff == Spec => []NotCutOff
<1>1. LaunchInv => NotCutOff
  <2> SUFFICES ASSUME ProbeInv, proc = "killed"
               PROVE  outer \in {"await", "done"}
      BY DEF LaunchInv, NotCutOff, K!NotCutOff
  <2>1. res.timedOut \/ res.ready
    BY DEF ProbeInv, KS!SpawnInv, KS!ChildByPc, KS!ResultOfChild
  <2>2. CASE res.ready
    BY <2>2 DEF ProbeInv
  <2>3. CASE res.timedOut
    <3>1. now > KillTimeout /\ now \in Nat
      BY <2>3 DEF ProbeInv, KS!SpawnInv, KS!TypeOK, KS!ResultByPc
    <3> QED BY <3>1, OneLaunchAssumption DEF ProbeInv, OneLaunchAssumption
  <2> QED BY <2>1, <2>2, <2>3
<1> QED BY <1>1, InvHolds, PTL

\* Every handler hands its verdict back with the process stopped and the port
\* free: its last step waits for Spawn, which kills before it returns.
THEOREM LaunchNothingLeftRunning == Spec => []NothingLeftRunning
<1>1. LaunchInv => NothingLeftRunning
  BY DEF LaunchInv, RefuseInv, BootInv, ProbeInv, NothingLeftRunning, Ended, R!Judged,
     RS!SpawnInv, RS!ChildByPc, BS!SpawnInv, BS!ChildByPc, KS!SpawnInv, KS!ChildByPc
<1> QED BY <1>1, InvHolds, PTL
=============================================================================
