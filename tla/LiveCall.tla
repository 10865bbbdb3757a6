------------------------------ MODULE LiveCall ------------------------------
(***************************************************************************)
(* The handlers that hold a conversation with a running implementation:    *)
(* a behaviour is one call of an SV-A2A handler (Handoff), an SV-LLM       *)
(* handler (Dispatch), a handler about sessions, permissions and the audit *)
(* log (AuditTrail) or a probe of a Runner of its own (Probes), or a round *)
(* of calls of the handlers that only observe (Observe); beside them, one  *)
(* check that needs no implementation (Checks).  They owe their caller the *)
(* same things.                                                            *)
(***************************************************************************)
EXTENDS Integers, Sequences

CONSTANTS
    Latency, HookN, ProbeSleep, Deadline, Shared, CardEtag,      \* Handoff
    Codes, Deltas, Paced,                                        \* Dispatch
    Tools, PageSize, PageCap, MaxOthers,                         \* AuditTrail
    Drives, MaxRound, MaxMoves,                                  \* Observe
    MaxBusy,                                                     \* AuditTrail and Observe
    Boots,                                                       \* Probes
    MaxLength, Horizon, Hour, Skew,                              \* Checks
    MaxLost                                                      \* all but Checks

ASSUME LiveCallAssumption ==
    /\ {Latency, HookN, ProbeSleep, Deadline, Deltas, MaxOthers,
        Drives, MaxMoves, MaxBusy, MaxLost, Horizon} \subseteq Nat
    /\ Boots \subseteq Nat /\ Boots # {}
    /\ {PageSize, PageCap, MaxRound, MaxLength, Hour, Skew} \subseteq Nat \ {0}
    /\ {Shared, Paced} \subseteq BOOLEAN
    /\ CardEtag \in {"placeholder", "other"}
    /\ Codes \in Seq(STRING)

VARIABLES
    kind,                                                   \* which of the six
    test, flaw, step, net, reply, lost,                     \* all
    advertises, rows, clock, waited, wake, tasks, seen,     \* Handoff
    verdict, log,                                           \* the others, log not Observe
    wired, prior, pc, behavior, plan, wire, cancel, events, \* Dispatch
    mark,                                                   \* AuditTrail, Observe, Probes and Checks
    deploy,                                                 \* AuditTrail, Observe and Probes
    busy, got,                                              \* AuditTrail and Observe
    others, retried, denied, pages, seeded,                 \* AuditTrail
    left, cache, known, used, due, effects, now, reads,     \* Observe
    late,                                                   \* Observe and Probes
    queue, spent, tries                                     \* Probes

all          == <<test, flaw, step, net, reply, lost>>
handoffVars  == <<advertises, rows, clock, waited, wake, tasks, seen>>
logVars      == <<verdict, log>>
dispatchVars == <<wired, prior, pc, behavior, plan, wire, cancel, events>>
sharedVars   == <<deploy, mark>>
readVars     == <<busy, got>>
auditVars    == <<others, retried, denied, pages, seeded>>
observeVars  == <<left, cache, known, used, due, effects, now, reads>>
probeVars    == <<queue, spent, tries>>
vars         == <<kind, all, handoffVars, logVars, dispatchVars, sharedVars, readVars, auditVars,
                  observeVars, late, probeVars>>

H == INSTANCE Handoff
D == INSTANCE Dispatch
A == INSTANCE AuditTrail
O == INSTANCE Observe
P == INSTANCE Probes
C == INSTANCE Checks

\* The state of the handlers that are not called.
NoHandoff ==
    /\ advertises = FALSE /\ rows = {} /\ clock = 0 /\ waited = 0 /\ wake = 0
    /\ tasks = [k \in H!Tasks |-> H!Unseen] /\ seen = FALSE
NoDispatch ==
    /\ wired = FALSE /\ prior = FALSE /\ pc = "mint" /\ behavior = "ok"
    /\ plan = <<>> /\ wire = <<>> /\ cancel = "no" /\ events = <<>>
NoRead   == busy = 0 /\ got = <<>>
NoAudit  == others = 0 /\ retried = FALSE /\ denied = FALSE /\ pages = 0 /\ seeded = 0
NoObserve ==
    /\ left = 0 /\ cache = FALSE /\ known = FALSE /\ used = 0 /\ due = 0
    /\ effects = <<>> /\ now = 0 /\ reads = 0
NoProbe == queue = <<>> /\ spent = 0 /\ tries = 0
NoRequest == flaw = "none" /\ step = 1 /\ net = "idle" /\ reply = <<>> /\ lost = 0

\* What is idle in a call of each kind.
Idle ==
    /\ kind # "handoff" => NoHandoff
    /\ kind # "dispatch" => NoDispatch
    /\ kind = "check" => NoRequest
    /\ kind \in {"handoff", "dispatch"} => mark = <<>>
    /\ kind \in {"handoff", "dispatch", "check"} => deploy = <<>>
    /\ kind \notin {"audit", "observe"} => NoRead
    /\ kind # "audit" => NoAudit
    /\ kind # "observe" => NoObserve
    /\ kind \notin {"observe", "probe"} => late = FALSE
    /\ kind # "probe" => NoProbe
    /\ kind = "handoff" => verdict = "none"
    /\ kind \in {"handoff", "observe", "check"} => log = <<>>

Init ==
    /\ \/ kind = "handoff" /\ H!Init
       \/ kind = "dispatch" /\ D!Init
       \/ kind = "audit" /\ A!Init
       \/ kind = "observe" /\ O!Init
       \/ kind = "probe" /\ P!Init
       \/ kind = "check" /\ C!Init
    /\ Idle

TypeOK ==
    /\ CASE kind = "handoff"  -> H!TypeOK
         [] kind = "dispatch" -> D!TypeOK
         [] kind = "audit"    -> A!TypeOK
         [] kind = "observe"  -> O!TypeOK
         [] kind = "probe"    -> P!TypeOK
         [] kind = "check"    -> C!TypeOK
    /\ Idle

InHandoff  == kind = "handoff"
              /\ UNCHANGED <<kind, logVars, dispatchVars, sharedVars, readVars, auditVars, observeVars, late, probeVars>>
InDispatch == kind = "dispatch"
              /\ UNCHANGED <<kind, handoffVars, sharedVars, readVars, auditVars, observeVars, late, probeVars>>
InAudit    == kind = "audit" /\ UNCHANGED <<kind, handoffVars, dispatchVars, observeVars, late, probeVars>>
InObserve  == kind = "observe" /\ UNCHANGED <<kind, handoffVars, log, dispatchVars, auditVars, probeVars>>
InProbe    == kind = "probe" /\ UNCHANGED <<kind, handoffVars, dispatchVars, readVars, auditVars, observeVars>>
InCheck    == kind = "check"
              /\ UNCHANGED <<kind, flaw, step, net, reply, lost, handoffVars, log, dispatchVars, deploy, readVars,
                             auditVars, observeVars, late, probeVars>>

Handoff    == InHandoff /\ H!Next
Dispatch   == InDispatch /\ D!Next
AuditTrail == InAudit /\ A!Next
Observe    == InObserve /\ O!Next
Probe      == InProbe /\ P!Next
Check      == InCheck /\ C!Handler

Next == Handoff \/ Dispatch \/ AuditTrail \/ Observe \/ Probe \/ Check

\* The handler, the Runner it talks to, and the clock.  That the Runner answers
\* stands for the client's timeout once MaxLost answers have not come.
Handler ==
    \/ InHandoff /\ H!Handler
    \/ InDispatch /\ D!Handler
    \/ InAudit /\ A!Handler
    \/ InObserve /\ O!Handler
    \/ InProbe /\ P!Handler
    \/ Check
Runner ==
    \/ InHandoff /\ H!Serve
    \/ InDispatch /\ D!Runner
    \/ InAudit /\ A!Runner
    \/ InObserve /\ O!Runner
    \/ InProbe /\ P!Runner
Tick    == InHandoff /\ H!Tick

Spec == Init /\ [][Next]_vars /\ WF_vars(Handler) /\ WF_vars(Runner) /\ WF_vars(Tick)

-----------------------------------------------------------------------------
Ended == CASE kind = "handoff" -> H!Ended [] kind = "dispatch" -> D!Ended
           [] kind = "audit" -> A!Ended [] kind = "observe" -> O!Ended
           [] kind = "probe" -> P!Ended [] kind = "check" -> C!Ended

\* A Runner that keeps every rule is not failed.  An A2A handler stands by this
\* even when answers are lost, which costs it an error; the others only while
\* they arrive.  The configuration leaves the timed rows room for the latency:
\* N + 1 + 2 * Latency < 2 * N for SV-A2A-15, a deadline of at most the sleep
\* for SV-A2A-16; no Runner is set up for both; its etag of the caller's card is
\* the placeholder that SV-A2A-11 and SV-A2A-12 send; it answers one mint with 429;
\* PageCap pages hold its log; an observing test finds everything published by the
\* end of its pause, and fails the Runner only for a cause that Observe!Excused
\* names; and a probed Runner starts in time and has published what it owes when
\* it is asked.  A diff that keeps to the rule is not refused if what it adds fits
\* between the markers of the old file; a list or a token that keeps it never is.
ConformingNeverFails ==
    CASE kind = "handoff"  -> H!ConformingNeverFails
      [] kind = "dispatch" -> D!ConformingNeverFails
      [] kind = "audit"    -> A!ConformingNeverFails
      [] kind = "observe"  -> O!ConformingNeverFails
      [] kind = "probe"    -> P!ConformingNeverFails
      [] kind = "check"    -> C!ConformingNeverFails

\* A pass means that the Runner has none of the flaws the test is there to find,
\* and that a list or a token that was checked keeps the rule; of an accepted diff
\* only that no hunk goes further beyond the markers than Checks!PassIsEarned says.
PassIsEarned ==
    CASE kind = "handoff"  -> H!PassIsEarned
      [] kind = "dispatch" -> D!PassIsEarned
      [] kind = "audit"    -> A!PassIsEarned
      [] kind = "observe"  -> O!PassIsEarned
      [] kind = "probe"    -> P!PassIsEarned
      [] kind = "check"    -> C!PassIsEarned

\* Every call returns, whatever the Runner does with its requests.
HandlerEnds == <>Ended

-----------------------------------------------------------------------------
\* Claims of the source that do not hold; they are documented in Handoff,
\* Dispatch, AuditTrail, Observe and Probes.
EveryFlawNoticed ==
    CASE kind = "handoff"  -> H!EveryFlawNoticed
      [] kind = "dispatch" -> D!EveryFlawNoticed
      [] kind = "audit"    -> A!EveryFlawNoticed
      [] kind = "probe"    -> P!EveryFlawNoticed
      [] OTHER -> TRUE
CountedAfterCancel == kind = "dispatch" => D!CountedAfterCancel
LostIsError ==
    CASE kind = "handoff"  -> TRUE
      [] kind = "dispatch" -> D!LostIsError
      [] kind = "audit"    -> A!LostIsError
      [] OTHER -> kind = "observe" => O!LostIsError
AloneInLog       == kind = "audit" => A!AloneInLog
FreshIsFresh     == kind = "observe" => O!FreshIsFresh
BracketAccepted  == kind = "observe" => O!BracketAccepted
PassIsMonotone   == kind = "observe" => O!PassIsMonotone
CacheOutlived    == kind = "observe" => O!CacheOutlived
HealthyIsReady   == kind = "probe" => P!HealthyIsReady
BootLeavesRoom   == kind = "probe" => P!BootLeavesRoom
EveryWayAccepted == kind = "probe" => P!EveryWayAccepted
NeverPanics      == kind = "probe" => P!NeverPanics
CountedOnce      == kind = "probe" => P!CountedOnce
=============================================================================
