----------------------------- MODULE RefuseStart -----------------------------
(***************************************************************************)
(* The tests that launch the implementation with a broken configuration    *)
(* and judge whether it refused to start.  One Spawn per arm, then a       *)
(* verdict ladder over its Result and the captured output.                 *)
(*                                                                         *)
(* Two designs exist.  HR-12, SV-BOOT-01, SV-SESS-02 and SV-SESS-05 pass   *)
(* no readiness probe and demand a non-zero exit.  SV-CARD-09 and          *)
(* SV-BOOT-02/03/05 pass a probe that first settles for 400 ms and then    *)
(* asks /health, and judge by ReadinessReached.                            *)
(***************************************************************************)
EXTENDS Integers

CONSTANTS Timeout, Horizon, MayFork, ExitCodes,   \* as in Spawn
          Arms                      \* the arms to run, of the two sets below

ExitArms  == {"HR-12", "SV-BOOT-01", "SV-SESS-02", "SV-SESS-05"}
ProbeArms == {"SV-CARD-09", "SV-BOOT-02", "SV-BOOT-03", "SV-BOOT-05"}

VARIABLES
    pc, proc, code, held, exitCh, ctxDone, now, deadline, res,   \* Spawn
    arm,          \* the arm being run
    boundAt,      \* when the implementation bound /health, Never before that
    cited         \* what its output names: "nothing", "other" or "reason"

spawnVars == <<pc, proc, code, held, exitCh, ctxDone, now, deadline, res>>
vars == <<spawnVars, arm, boundAt, cited>>

Never == Horizon + 1
up == boundAt # Never

SettleWait   == 400     \* ms before the probe's first GET
PollInterval == 250     \* ms Spawn gives a probe (the default)

\* The probe answers nil once it gets past its settle wait to a 200.
probeOk == SettleWait <= PollInterval /\ up

Bare   == INSTANCE Spawn WITH HasProbe <- FALSE, AsksChild <- TRUE, MayCancel <- FALSE
Probed == INSTANCE Spawn WITH HasProbe <- TRUE, AsksChild <- TRUE, MayCancel <- FALSE

TypeOK == /\ Bare!TypeOK
          /\ arm \in Arms /\ boundAt \in 0 .. Never /\ cited \in {"nothing", "other", "reason"}

Init == /\ arm \in Arms /\ boundAt = Never /\ cited = "nothing"
        /\ pc = "start" /\ proc = "none" /\ code = -1 /\ held = FALSE
        /\ exitCh = "waiting" /\ ctxDone = FALSE /\ now = 0 /\ deadline = 0
        /\ res = Bare!Blank

\* The arm's Spawn runs.
RunArm ==
    /\ UNCHANGED <<arm, boundAt, cited>>
    /\ \/ arm \in ExitArms /\ Bare!Harness
       \/ arm \in ProbeArms /\ Probed!Harness

Reaped == UNCHANGED <<arm, boundAt, cited>> /\ Bare!Wait

\* The implementation refuses or dies.
ProcessExit == UNCHANGED <<arm, boundAt, cited>> /\ Bare!Exit

\* It starts anyway and serves /health.
Bind ==
    /\ proc = "running" /\ ~up /\ boundAt' = now
    /\ UNCHANGED <<spawnVars, arm, cited>>

\* It writes to stdout or stderr.
Cite ==
    /\ proc = "running" /\ cited # "reason"
    /\ cited' \in {"other", "reason"}
    /\ UNCHANGED <<spawnVars, arm, boundAt>>

Tick == UNCHANGED <<arm, boundAt, cited>> /\ Bare!Tick

Next == RunArm \/ Reaped \/ ProcessExit \/ Bind \/ Cite \/ Tick

Spec == Init /\ [][Next]_vars
             /\ WF_vars(RunArm) /\ WF_vars(Reaped) /\ WF_vars(Tick)

-----------------------------------------------------------------------------
\* The verdict ladders.

\* handleHR12: any non-zero exit is a refusal.
VerdictHR12 ==
    IF res.startErr THEN "error" ELSE IF ~res.exited \/ res.code = 0 THEN "fail" ELSE "pass"

\* Mutant: the exit code is not looked at.
VerdictExitCites ==
    IF ~res.exited \/ cited # "reason" THEN "fail" ELSE "pass"

\* svBootNegativesEvidence and runToolPoolRefuse: the reason must be named too.
VerdictExitAndReason ==
    IF ~res.exited \/ res.code = 0 \/ cited # "reason" THEN "fail" ELSE "pass"

\* handleSVSESS02, a corrupt session file planted: an implementation still
\* running and silent about it is skipped, as one that resumes nothing yet.
VerdictSess02 ==
    IF ~res.exited /\ cited # "reason" THEN "skip" ELSE VerdictExitAndReason

\* handleSVCARD09: readiness not reached is a pass.
VerdictCard09 == IF res.ready THEN "fail" ELSE "pass"

\* handleSVBOOT02, svboot03Arm, handleSVBOOT05: the reason must be named.
VerdictReadyAndReason == IF res.ready \/ cited # "reason" THEN "fail" ELSE "pass"

Verdict ==
    IF arm = "HR-12" THEN VerdictHR12
    ELSE IF arm \in {"SV-BOOT-01", "SV-SESS-05"} THEN VerdictExitAndReason
    ELSE IF arm = "SV-SESS-02" THEN VerdictSess02
    ELSE IF arm = "SV-CARD-09" THEN VerdictCard09 ELSE VerdictReadyAndReason

Judged == pc = "returned"

\* An arm that demands an exit passes only an implementation that ended by
\* itself, never one the harness had to kill, and never with exit code 0.
ExitArmsSound ==
    Judged /\ arm \in ExitArms /\ Verdict = "pass" => proc = "exited" /\ code # 0

\* A proper refusal that Spawn observed (own exit, non-zero, reason named) is
\* never failed, whichever design the arm uses.
RefusalNeverFails ==
    Judged /\ res.exited /\ proc = "exited" /\ code > 0 /\ cited = "reason" =>
        Verdict = "pass"

\* SV-CARD-09's pass criterion as documented (handlers_m3_v9a.go:390): the
\* implementation refused to bind /health with the invalid card.  So one that
\* the harness had to kill at the deadline had not been serving before it.
Card09PassMeansRefused ==
    Judged /\ arm = "SV-CARD-09" /\ Verdict = "pass" /\ res.timedOut =>
        ~(boundAt < deadline)
=============================================================================
