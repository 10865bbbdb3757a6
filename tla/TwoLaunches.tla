----------------------------- MODULE TwoLaunches -----------------------------
(***************************************************************************)
(* The handlers that launch the implementation twice on one session        *)
(* directory, and what they owe their caller alike.  A behaviour is one    *)
(* call: of RunCrashRecovery (CrashRecovery, under SV-SESS-06/07/08/10),   *)
(* of SV-STR-10 (StrCrash) or of SV-SESS-09 (CardDrift).                   *)
(***************************************************************************)
EXTENDS Integers, Sequences

CONSTANTS
    Horizon, ExitCodes,
    Script, Marker, Reach,                     \* the markers, as in KillAtMarker
    FirstTimeout, RelaunchTimeout,             \* CrashRecovery
    StrTimeout, StrWindow, StrHold,            \* StrCrash
    MintTimeout, ScanTimeout                   \* CardDrift

ASSUME TwoLaunchesAssumption ==
    /\ {Horizon, FirstTimeout, RelaunchTimeout, StrTimeout, StrWindow, StrHold,
        MintTimeout, ScanTimeout} \subseteq Nat
    /\ ExitCodes \subseteq Nat
    /\ Script \in Seq(STRING) /\ Marker \in STRING /\ Reach \in [1 .. 3 -> Nat]
    /\ StrWindow <= StrHold                             \* 25 s of 45 s
    /\ FirstTimeout + RelaunchTimeout + 2 < Horizon     \* bound: the clock runs
    /\ StrTimeout + StrHold + 1 < Horizon               \* past every deadline

VARIABLES
    kind,         \* "crash", "str" or "drift", fixed at the start
    pc, proc, code, held, exitCh, deadline, res,              \* first launch
    pc2, proc2, code2, held2, exitCh2, deadline2, res2,       \* second launch
    up2, outer, ctxDone, now,
    serving, emitted, scanned, scan, pipe, markerCh, driver,
    fired, driven, strayed, proceed, recovery,                \* CrashRecovery only
    readyBy,                                                  \* and StrCrash
    slow, driveOnce, drive, bracket, event,                   \* StrCrash only
    up, verdict,                                              \* and CardDrift
    minted, stored, ready2, scan2, cited2                     \* CardDrift only

crashVars  == <<serving, emitted, scanned, scan, pipe, markerCh, driver,
                fired, driven, strayed, proceed, recovery>>
strVars    == <<slow, driveOnce, drive, bracket, event>>
driftVars  == <<minted, stored, ready2, scan2, cited2>>
probeVars  == <<up, verdict>>
vars == <<kind, pc, proc, code, held, exitCh, deadline, res, pc2, proc2, code2, held2,
          exitCh2, deadline2, res2, up2, outer, ctxDone, now, crashVars, readyBy,
          strVars, probeVars, driftVars>>

C == INSTANCE CrashRecovery WITH PreKill <- TRUE, HasDriver <- TRUE, ProbeTalks <- FALSE
S == INSTANCE StrCrash WITH
        FirstTimeout <- StrTimeout, Window <- StrWindow, HoldTimeout <- StrHold,
        MaySlow <- TRUE, MayFork <- TRUE
D == INSTANCE CardDrift WITH MayFork <- TRUE

\* The state of the handlers that are not called.
NoCrash ==
    /\ serving = FALSE /\ emitted = 0 /\ scanned = 0 /\ scan = "done" /\ pipe = "closed"
    /\ markerCh = "empty" /\ driver = "off" /\ fired = FALSE /\ driven = 0
    /\ strayed = FALSE /\ proceed = FALSE /\ recovery = "none"
NoStr   == slow = FALSE /\ driveOnce = FALSE /\ drive = "none" /\ bracket = FALSE /\ event = FALSE
NoDrift == minted = "no" /\ stored = FALSE /\ ready2 = FALSE /\ scan2 = FALSE /\ cited2 = "nothing"
NoProbe == up = FALSE /\ verdict = "none"

Init ==
    \/ kind = "crash" /\ C!Init /\ NoStr /\ NoDrift /\ NoProbe
    \/ kind = "str" /\ S!Init /\ NoCrash /\ NoDrift
    \/ kind = "drift" /\ D!Init /\ NoCrash /\ NoStr /\ readyBy = 0

TypeOK ==
    CASE kind = "crash" -> C!TypeOK /\ NoStr /\ NoDrift /\ NoProbe
      [] kind = "str"   -> S!TypeOK /\ NoCrash /\ NoDrift
      [] kind = "drift" -> D!TypeOK /\ NoCrash /\ NoStr /\ readyBy = 0

-----------------------------------------------------------------------------
In(k) == kind = k /\ UNCHANGED kind
InCrash == In("crash") /\ UNCHANGED <<strVars, driftVars, probeVars>>
InStr   == In("str") /\ UNCHANGED <<crashVars, driftVars>>
InDrift == In("drift") /\ UNCHANGED <<crashVars, strVars, readyBy>>

Crash == InCrash /\ C!Next
Str   == InStr /\ S!Next
Drift == InDrift /\ D!Next

Next == Crash \/ Str \/ Drift

\* The goroutines of the call in progress, in the order of their launches.
Loop    == (InCrash /\ C!FirstLoop) \/ (InStr /\ S!FirstSpawn) \/ (InDrift /\ D!Loop)
Reaped  == (InCrash /\ C!FirstReaped) \/ (InStr /\ S!FirstReaped) \/ (InDrift /\ D!Reaped)
Scanner == InCrash /\ C!FirstScan
ScanEnd == InCrash /\ C!FirstScanEnd
Loop2   == (InCrash /\ C!SecondLoop) \/ (InStr /\ S!SecondLoop)
Reaped2 == (InCrash /\ C!SecondReaped) \/ (InStr /\ S!SecondReaped)
Handler == (InCrash /\ C!Sequence) \/ (InStr /\ S!Handler) \/ (InDrift /\ D!Handler)
Tick    == (InCrash /\ C!Tick) \/ (InStr /\ S!Tick) \/ (InDrift /\ D!Tick)

Spec ==
    /\ Init /\ [][Next]_vars
    /\ WF_vars(Loop) /\ WF_vars(Reaped) /\ WF_vars(Scanner) /\ WF_vars(ScanEnd)
    /\ WF_vars(Loop2) /\ WF_vars(Reaped2) /\ WF_vars(Handler) /\ WF_vars(Tick)

-----------------------------------------------------------------------------
\* A pass is earned by a first process that left something to recover and was
\* stopped, and by a second one on the same session directory that came up and
\* gave the evidence.
PassIsEarned ==
    CASE kind = "crash" -> C!PassIsEarned
      [] kind = "str"   -> S!PassIsEarned
      [] kind = "drift" -> D!PassIsEarned

\* The two processes never run together: they would share the port and the
\* session directory whose recovery is judged.
OneAtATime == ~(proc = "running" /\ proc2 = "running")

\* The second process is not timed out while the handler still polls it.
PolledAlive ==
    CASE kind = "crash" -> C!RelaunchOutlivesProbe
      [] kind = "str"   -> S!PolledAlive
      [] OTHER          -> TRUE

\* RunCrashRecovery and SV-SESS-09 return with both processes stopped.  (Not
\* SV-STR-10, see StrCrash!RelaunchFinished.)
NothingLeftRunning ==
    outer = "done" /\ kind # "str" => proc # "running" /\ proc2 # "running"

\* Every call returns, and at last the second process is stopped too if the
\* command lives on.
Terminates == <>[](outer = "done" /\ proc2 # "running")
=============================================================================
