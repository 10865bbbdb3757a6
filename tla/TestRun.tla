------------------------------- MODULE TestRun -------------------------------
(***************************************************************************)
(* One invocation of the command: main.run loads and validates the         *)
(* must-map, testrunner.Run executes the tests one after the other, and    *)
(* the two reports are written before the exit code is decided.            *)
(*                                                                         *)
(* A test is its id; what a handler finds out is a sequence of evidence    *)
(* statuses, chosen freely.  A panic in a handler ends the process.        *)
(***************************************************************************)
EXTENDS Integers, Sequences, FiniteSets, FiniteSetsExt, SequencesExt

CONSTANTS
    Handlers,        \* ids with a registered handler
    Defs,            \* the must-map: id -> [milestone, profile]
    PhaseChoices,    \* execution orders the must-map may carry
    Requests,        \* values of cfg.TestIDs, <<>> in the command
    AdapterTests,    \* ids with the prefix SV-ADAPTER-
    Adapters,        \* whether --adapter may be given
    Profile,         \* --profile
    Evidence         \* sequences of statuses a handler may return

Statuses == {"pass", "fail", "skip", "error"}

ASSUME TestRunAssumption ==
    /\ Evidence \subseteq Seq(Statuses) /\ Adapters \subseteq BOOLEAN
    /\ IsFiniteSet(Handlers) /\ Handlers \subseteq STRING
    /\ Requests \subseteq Seq(STRING) /\ PhaseChoices \subseteq Seq(Seq(STRING))

VARIABLES
    adapter,         \* --adapter is given
    wanted,          \* the ids of this run
    pc,              \* "load", "run", "junit", "gate", "exited"
    phases,          \* the must-map's execution order
    todo,            \* what is left of `ordered`
    results,         \* the results so far: id, status and evidence
    invoked,         \* ids whose handler was called
    junit, gate,     \* the reports on disk: "stale", "partial" or "new"
    exit             \* the exit code, -1 while running

vars == <<adapter, wanted, pc, phases, todo, results, invoked, junit, gate, exit>>

AllIds == Handlers \cup DOMAIN Defs \cup UNION {ToSet(ids) : ids \in Requests}

TypeOK ==
    /\ pc \in {"load", "run", "junit", "gate", "exited"}
    /\ adapter \in BOOLEAN /\ phases \in PhaseChoices
    /\ wanted \subseteq AllIds /\ todo \in Seq(AllIds) /\ invoked \subseteq Handlers
    /\ results \in Seq([id : AllIds, status : Statuses, evidence : Seq(Statuses)])
    /\ {junit, gate} \subseteq {"stale", "partial", "new"}
    /\ exit \in {-1, 0, 1, 2}

Init ==
    /\ adapter \in Adapters /\ pc = "load" /\ phases \in PhaseChoices
    /\ wanted = {} /\ todo = <<>> /\ results = <<>> /\ invoked = {}
    /\ junit = "stale" /\ gate = "stale" /\ exit = -1

-----------------------------------------------------------------------------
\* A Go map is ranged over in any order.
Orders(S) == {s \in [1 .. Cardinality(S) -> S] : ToSet(s) = S}

\* Numbers from the smallest to the largest.
Ascending(S) == CHOOSE s \in Orders(S) : \A i, j \in DOMAIN s : i < j => s[i] < s[j]

\* The members of W in s, each at its first place.
Firsts(s, W) ==
    LET places == {k \in DOMAIN s : s[k] \in W /\ \A j \in 1 .. k - 1 : s[j] # s[k]}
        order  == Ascending(places)
    IN [k \in DOMAIN order |-> s[order[k]]]

\* Mutant: the test ids that no phase lists are forgotten.
phasesOnly(ids, ph) == Firsts(FlattenSeq(ph), ToSet(ids))

\* Mutant: the phases come after the tests no phase lists.
phasesLast(ids, ph) ==
    LET listed == ToSet(FlattenSeq(ph))
    IN Firsts(ids, ToSet(ids) \ listed) \o Firsts(FlattenSeq(ph), ToSet(ids))

\* The wanted tests by phase, each once, then those no phase lists.
orderByPhase(ids, ph) == Firsts(FlattenSeq(ph) \o ids, ToSet(ids))

\* The ids to run: all with a handler unless cfg.TestIDs names some.
Requested == UNION {IF ids = <<>> THEN Orders(Handlers) ELSE {ids} : ids \in Requests}

\* ValidateSV: every phase names known tests.
ValidateSV == ToSet(FlattenSeq(phases)) \subseteq DOMAIN Defs

scope == {"", "M1", "M2", "M3"}      \* DefaultMilestonesInScope

InScope(id) == Defs[id].milestone \in scope \/ (adapter /\ id \in AdapterTests)

\* Mutant: only the last evidence counts.
LastEvidence(ev) == IF ev = <<>> THEN "skip" ELSE ev[Len(ev)]

\* Aggregate: the first FAIL or ERROR, else a PASS, else SKIP.
Aggregate(ev) ==
    LET bad == {i \in DOMAIN ev : ev[i] \in {"fail", "error"}}
    IN IF bad # {} THEN ev[Min(bad)]
       ELSE IF "pass" \in ToSet(ev) THEN "pass" ELSE "skip"

Record(status, ev) ==
    /\ results' = Append(results, [id |-> Head(todo), status |-> status, evidence |-> ev])
    /\ todo' = Tail(todo)

-----------------------------------------------------------------------------
\* The must-map cannot be read, parsed or validated.
LoadFails ==
    /\ pc = "load"
    /\ pc' = "exited" /\ exit' = 1
    /\ UNCHANGED <<adapter, wanted, phases, todo, results, invoked, junit, gate>>

Load ==
    /\ pc = "load" /\ ValidateSV
    /\ \E ids \in Requested : wanted' = ToSet(ids) /\ todo' = orderByPhase(ids, phases)
    /\ pc' = "run"
    /\ UNCHANGED <<adapter, phases, results, invoked, junit, gate, exit>>

\* The id is not in the must-map.
Unknown ==
    /\ pc = "run" /\ todo # <<>> /\ Head(todo) \notin DOMAIN Defs
    /\ Record("error", <<>>)
    /\ UNCHANGED <<adapter, wanted, pc, phases, invoked, junit, gate, exit>>

\* --adapter limits the run to the adapter's tests; then come the milestones.
\* The skip is recorded as evidence.
Skipped(id) == (adapter /\ id \notin AdapterTests) \/ ~InScope(id)

Skip ==
    /\ pc = "run" /\ todo # <<>> /\ Head(todo) \in DOMAIN Defs
    /\ Skipped(Head(todo))
    /\ Record("skip", <<"skip">>)
    /\ UNCHANGED <<adapter, wanted, pc, phases, invoked, junit, gate, exit>>

Due == pc = "run" /\ todo # <<>> /\ Head(todo) \in DOMAIN Defs /\ ~Skipped(Head(todo))

NoHandler ==
    /\ Due /\ Head(todo) \notin Handlers
    /\ Record("error", <<>>)
    /\ UNCHANGED <<adapter, wanted, pc, phases, invoked, junit, gate, exit>>

\* The handler returns its evidence.
Execute ==
    /\ Due /\ Head(todo) \in Handlers
    /\ invoked' = invoked \cup {Head(todo)}
    /\ \E ev \in Evidence : Record(Aggregate(ev), ev)
    /\ UNCHANGED <<adapter, wanted, pc, phases, junit, gate, exit>>

\* Nothing recovers a panic: the process ends with code 2 and writes nothing.
Panic ==
    /\ Due /\ Head(todo) \in Handlers
    /\ invoked' = invoked \cup {Head(todo)}
    /\ pc' = "exited" /\ exit' = 2
    /\ UNCHANGED <<adapter, wanted, phases, todo, results, junit, gate>>

RunEnds ==
    /\ pc = "run" /\ todo = <<>> /\ pc' = "junit"
    /\ UNCHANGED <<adapter, wanted, phases, todo, results, invoked, junit, gate, exit>>

\* writeJUnit: it fails before the old file is truncated, or after.
WriteJUnit ==
    /\ pc = "junit"
    /\ \/ junit' = "new" /\ pc' = "gate" /\ UNCHANGED exit
       \/ junit' \in {"stale", "partial"} /\ pc' = "exited" /\ exit' = 1
    /\ UNCHANGED <<adapter, wanted, phases, todo, results, invoked, gate>>

anyFailed == \E i \in DOMAIN results : results[i].status \in {"fail", "error"}

\* writeReleaseGate, and the exit code when it succeeds.
WriteGate ==
    /\ pc = "gate"
    /\ \/ gate' = "new" /\ exit' = IF anyFailed THEN 1 ELSE 0
       \/ gate' \in {"stale", "partial"} /\ exit' = 1
    /\ pc' = "exited"
    /\ UNCHANGED <<adapter, wanted, phases, todo, results, invoked, junit>>

Next == \/ LoadFails \/ Load \/ Unknown \/ Skip \/ NoHandler \/ Execute \/ Panic
        \/ RunEnds \/ WriteJUnit \/ WriteGate

Spec == Init /\ [][Next]_vars

-----------------------------------------------------------------------------
Done == pc \in {"junit", "gate"}      \* Run has returned
Ids  == [i \in DOMAIN results |-> results[i].id]

\* Every requested test has exactly one result, however often the phases list
\* it, and nothing else has one.
OneResultEach ==
    Done => /\ IsInjective(Ids)
            /\ ToSet(Ids) = wanted

\* The results follow the execution order: a test listed in an earlier place
\* comes before one listed later, and both before one that is not listed.
PhaseOrder ==
    LET flat == FlattenSeq(phases)
        place(id) == IF id \in ToSet(flat) THEN Min({k \in DOMAIN flat : flat[k] = id})
                     ELSE Len(flat) + 1
    IN \A i, j \in DOMAIN results : i < j => place(results[i].id) <= place(results[j].id)

\* Exit code 0 is earned: both reports are the ones of this run, and no handler
\* of it produced a single failing or erroneous piece of evidence.
ExitZeroEarned ==
    exit = 0 => /\ junit = "new" /\ gate = "new"
                /\ \A i \in DOMAIN results :
                     ToSet(results[i].evidence) \cap {"fail", "error"} = {}

-----------------------------------------------------------------------------
\* result.go:44: any FAIL -> fail.
AnyFailFails ==
    \A i \in DOMAIN results : "fail" \in ToSet(results[i].evidence) => results[i].status = "fail"

\* README.md:34: exit code 0 means all required tests passed, a required test
\* being one in scope of the run.
ExitZeroAllPassed ==
    exit = 0 => \A i \in DOMAIN results :
                  ~Skipped(results[i].id) => results[i].status = "pass"

\* main.go:253: --dry-run lists the tests that would execute for the profile.
Runnable == {id \in DOMAIN Defs \cap Handlers :
                /\ Defs[id].profile \in {Profile, "core"}
                /\ Defs[id].milestone \in scope}
DryRunAgrees == invoked \subseteq Runnable

\* runner.go:27-29: by default M3 and later milestones stay deferred.
M3Deferred == \A id \in invoked : Defs[id].milestone # "M3"
=============================================================================
