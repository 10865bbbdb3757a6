# TLA+ verification of soa-validate

soa-validate is a conformance validator: it launches an implementation of the
SOA specification as a subprocess, talks to it over HTTP, reads what it prints,
and turns what it saw into test results, a JUnit report and an exit code.  A
verdict is only worth something when the harness that produced it did what it
believes it did: that the process it judged was the one it launched, that it
died when the harness thinks it died, that a crash really happened before a
recovery is judged, that no result is lost or counted twice.  These modules
model that harness.  The implementation under test is the environment: it may
start, fail, hang, answer late, exit or leave descendants whenever the operating
system would allow it to.

## 1. The system

### 1.1 Parts, state, operations

| part (source) | state it keeps | operations | what is hard | correct when |
|---|---|---|---|---|
| `subprocrunner.Spawn` (`internal/subprocrunner/subprocrunner.go`) | the child, its stdio buffers, the `Result`, the deadline | start; one `select` over exit, poll tick and context; readiness probe; kill and bounded reap | four goroutines or agents (loop, `cmd.Wait`, child, os/exec's watch on the context); several cases ready at once | one outcome, an honest exit code, child stopped, always returns |
| `SpawnUntilMarker` (`killatmarker.go`) | the above, the stderr pipe, `markerCh`, `scanDone`, the `OnReady` goroutine | scan stderr for a marker, kill after it, poll a ready URL and drive HTTP meanwhile | six goroutines; the driver is never awaited; pipes held by descendants | kills only at an announced marker; `MarkerSeen` backed by evidence; no writer left behind the result |
| `RunCrashRecovery` (`relaunch.go`), `classifyCrashResult` and the SV-SESS-06/07/08/10 handlers (`handlers_m2_crash.go`) | first result, relaunch goroutine, `proceed`, `resCh` | crash at a marker, relaunch on the same session directory and port, poll, probe, release, collect | two launches whose goroutines overlap; three windows | a PASS needs a real crash and a real recovery |
| SV-SESS-09 (`resumeCrashArmCardDrift`, `handlers_m2_crash.go`) | two results, the session directory | mint in a readiness probe, stop, launch with another card, judge the boot scan's output | the mint may be repeated; the scan may not be over | a PASS needs a session persisted by the first process and scanned by the second |
| SV-STR-10 (`handlers_m3_bbcf.go`) | two results, the driver's flag, the open bracket | crash inside a decision, relaunch, look for `CrashEvent` | driver goroutine, late health answers, relaunch never awaited | a PASS needs an interrupted decision found by the second process |
| `launchProbeKill` (`handlers_m2.go`) | the result, `proceed` | poll `/health`, probe, stop | three windows on one process; a stranger on the port | process alive under the probe, gone afterwards |
| the probes it is given: hooks, sinks, SV-MEM-01..06, SV-BUD-02/04, SV-REG-03/04, SV-PERM-03..15, SV-PRIV, AGENTS.md and card tests (`handlers_m2.go`, `_m3*.go`) | what was read before; the mock's call log; the context's 20 s | mint, decide, pause, write a watched file, poll, read what was published | events published after the answer, a Runner that is healthy but not ready, a context the boot has begun to use up, nil answers | a conforming Runner is never failed, a pass excludes the flaws tested for |
| refuse-to-start arms (HR-12, SV-BOOT-01/02/03/05, SV-SESS-02/05, SV-CARD-09) | a `Result`, captured output | one Spawn, a verdict ladder | two designs (exit code, readiness) that must agree | a refusal is never failed, a non-refusal never passed |
| SV-SESS-BOOT-02 (`handlers.go`) | a `Result`, the evidence | health poll and assertion beside a Spawn with its own probe | two agents compete for the first healthy answer | a conforming implementation is never failed |
| memmock (`internal/memmock`) | notes, tombstones, call counters and logs, each under a lock or atomic of its own | six tools over HTTP | handlers run concurrently, atomic only between two lock operations | idempotent delete, read-your-writes, bounded call budget |
| test runner and command (`internal/testrunner/runner.go`, `result.go`, `cmd/soa-validate/main.go`) | requested tests, results, two report files, exit code | order by phase, skip, execute, aggregate, write reports | panics, partial writes, stale reports | one result per test, exit 0 earned |
| audit-record driver (`cmd/soa-validate/main.go`) | loop counter, statistics | post N decisions, obey 429 and the pace | lost answers, late rows, a shared rate limit | no row twice, honest statistics, it ends |
| SV-A2A-03..17 (`handlers_a2a.go`) | rows of evidence; the Runner's tasks and replay cache | JSON-RPC calls in sequence, sleeps of N + 1 and N seconds | lost answers after the Runner acted, latency against timed statuses | a conforming Runner is never failed, a pass excludes the flaws tested for |
| SV-LLM-03..10 (`handlers_m7_llm.go`) | one verdict; the test double's behaviour and its log | set a behaviour, dispatch, stream, cancel in mid-stream, read the log | cancel against deltas in flight, broken streams, one correlation id for all rows | as above |
| SV-PERM-01/20/21/22, SV-AUDIT-TAIL/RECORDS, SV-SESS-BOOT-01, HR-14 (`handlers.go`), SV-PERM-05/16 (`_m3_v9b.go`), SV-ADAPTER-04 (`_m4.go`), with `permresolve` and `auditchain` | what was read of the log; pages collected | mint with one retry after a 429, resolve 24 cells, decide, read tail and records, verify and tamper with the chain | others write the log meanwhile; refused mints; lost answers; a page limit | as above, and the oracle only tightens, and a tampered row is found |
| observing tests (`handlers_m2.go`, `_m3.go`, `_m3_wk2.go`, `_m5_live.go`) | the cached session (`sharedSessionSID`), the bodies or observations compared | mint or reuse, decide, pause, read state, memory, budget, tools, events, spans | tests find what earlier tests did to the session; events published after the answer; the cached session outliving the Runner | as above, in any order of tests |
| `sidiff`, `crlstate`, `inittrust`, under HR-01/02/09/10, and the clock-skew rule of SV-ENC-06 | none | judge a diff, a list, a bundle, a token | hunks that shift the ones after them; boundaries of age and skew; looking again later | what is accepted keeps the rule, and what keeps it is accepted |
| other M1, M2, M3 and later handlers (`internal/testrunner/handlers*.go`) | per test: a conversation with the implementation | requests and assertions in sequence | few beyond those above | see the plan |
| other pure functions (`jcs`, `digest`, `agentcard`, `toolregistry`, ...) | none | parsing, canonicalisation, schema validation | as their libraries | equal to the rule they cite |

The command calls the driver, then `Run`, which calls one handler after another;
handlers call the launchers and (SV-MEM) start a mock; launchers run goroutines
that communicate with them by channels (`exitCh`, `markerCh`, `scanDone`,
`proceed`, `resCh`, `done`) and, in one place, by an unsynchronised field
(`OnReadyFired`).  All launches of a run share one port when `SOA_IMPL_TEST_PORT`
is set, and both launches of a crash test share a session directory.  The command
passes `context.Background()` (main.go:522, 532), so the context never ends in
production; the packages take any context, and Spawn and SpawnUntilMarker are
modelled, checked and proved with one that may end.

### 1.2 Hazards

`PROJECT.json` lists what is hard to test in this code, each at its line, with the
properties that would catch it going wrong.

## 2. Modules

    Launch            what every launcher promises: idle, running, one outcome
      ^     ^
    Spawn  KillAtMarker                 (implement Launch)
      |        |
      +--------+--- CrashRecovery       KillAtMarker, then Spawn
      +------------ StrCrash            Spawn, then Spawn, and a driver
      +------------ CardDrift           Spawn, then Spawn
      |             TwoLaunches         a call of one of the three
      +------------ RefuseStart         Spawn and a verdict ladder
      +------------ SessBoot02          Spawn and a competing handler
      +------------ ProbeKill           Spawn and three windows
                    OneLaunch           a call of one of the three
    Handoff, Dispatch,                  conversations with a Runner
    AuditTrail, Observe
    Probes                              conversations of a launchProbeKill test
    Checks                              the checkers and the handlers on them
      ^        LiveCall                 a call of one of the six
    PermResolve, AuditChain             oracles AuditTrail uses
    SiDiff, Freshness                   the checkers as operators
    Limiter <- AuditDriver              the rate limit, external, and its client
    MemMock                             the mock
    TestRun                             the run and the command around it
    *_proofs                            theorems: Spawn, KillAtMarker, OneLaunch,
                                        TwoLaunches, MemMock, AuditDriver, TestRun,
                                        LiveCall with the oracles it rests on

State corresponds to the code as follows (`PROJECT.json` "map" gives the lines of
every definition).

- **Launch**: `phase` (not called, in progress, returned), `alive`, `outcome`.  A
  returned launch has one outcome and no living child.
- **Spawn**: `pc` is the point of `Spawn`'s loop (`"select"`, `"probe"` while the
  probe runs, `"kill"` and `"reap"` in `killAndWait`); `proc`, `code`, `held` are
  the child, the exit code it chose and whether a descendant keeps its stdio open
  (`cmd.Wait` does not return before that ends); `exitCh` is the channel; `res`
  the `Result`.  `HasProbe` and `AsksChild` say whether there is a probe and
  whether it is the child or a channel that answers; a composition substitutes an
  expression of its own for `probeOk`.
- **KillAtMarker**: adds `emitted`, `scanned` (the lines written and read), `scan`,
  `pipe` (`cmd.Wait` closes the read end), `markerCh`, and the OnReady goroutine
  `driver` with what it has sent.  `Script` and `Reach` are the markers the
  process announces and how far it gets by itself, after a session was minted and
  after a decision was posted.  `foreign` is another process answering on the port.
- **CrashRecovery**: instantiates KillAtMarker for the first launch and Spawn for
  the second; the relaunched process is the first one's `foreign`.  `outer` is
  the point of `RunCrashRecovery`, `proceed` the channel and, substituted, the
  answer of the second Spawn's probe.  `Verdict` is `classifyCrashResult`.
- **StrCrash**, **CardDrift**: two Spawns; the readiness probes are modelled by
  their steps (`LaunchDriver`, `Mint`, `Decide`, `FirstLoop`; `Mint`, `LoopA`, `ReadyB`, `LoopB`).
  The processes' boot scans are the environment's choice.
- **RefuseStart**: one Spawn per arm, with or without a probe, and the arm's
  ladder.  `probeOk` is `SettleWait <= PollInterval /\ up`: the probe's own 400 ms
  against the 250 ms Spawn gives it.
- **SessBoot02**, **ProbeKill**: the handler beside its Spawn goroutine.  `foreign` is
  another program that takes the port after `PickFreePort` has closed it and before the
  implementation binds it (`Usurp`), and answers in its place.
- **OneLaunch**, **TwoLaunches**: handlers are called one at a time, so a behaviour
  is one call of one of them (`kind`); the instances share the variables of the
  launches, and those of the handlers not called keep an idle value.  They state
  what all of these handlers owe their caller.
- **Handoff**, **Dispatch**: a handler is a `Script` of requests; each entry says what
  is sent, which answers it accepts and what a lost one costs, and the actions
  (`Send`, `Take`, `Lose`, in Handoff `Doze` and `Wake`, in Dispatch `Read`,
  `CancelAnswered`, `EndOfStream`) walk through it.  The Runner is external: it
  keeps every rule or has one `flaw`.  `Covered` lists the flaws a test is there to
  find, `Unnoticed` those its comments name and its checks do not reach.  Handoff
  collects `rows` of evidence, Dispatch has one `verdict`; `plan` and `wire` are what
  a stream still holds and what is on its way.  An SV-LLM call begins with the request for a
  session or, where an earlier test has left one, after it.
- **AuditTrail**: `deploy` is how the Runner is set up (its card's mode, what it ships),
  `log` its audit log, written by the handler's decisions and by `others`.  `mark` is
  the reading a later one is compared with; `got`, `pages` and `seeded` belong to the
  records handlers; `retried` and `busy` to the retry of a refused mint.
  **PermResolve** and **AuditChain** are the pure functions of the packages of these
  names; the handler's verdict on a cell is a comparison with `Resolve`, HR-14's one
  with `VerifyChain` before and after `Tamper`.
- **Observe**: a behaviour is a *round* of tests on the session `sharedBootstrap` keeps
  (`cache`; `known` is the Runner's side of it), chosen freely one after another
  (`NextTest`), since `Run` orders them by the must-map.  `used` and `due` are the decisions
  taken on that session and those whose events, spans and turns are not yet
  published; `Publish` is the Runner's, at any time, and `late` remembers that a pause was
  over first.  The tests that mint a session of their own are a round each;
  SV-SESS-03 drives `Drives` decisions while the Runner moves its side effects along
  (`Progress`), and `got` collects the observations `assertPhaseTransitions` judges.
  `Forget` is a restart of the Runner or a shorter time-to-live.  The decisions of
  `postDecisionSeed` are identical calls; that a Runner may collapse them is left out here,
  because no handler of these compares their number with what it reads.
- **Probes**: `ProbeKill` models the process of a launchProbeKill test, this module what its
  probe says to it.  A `Script` has requests, pollings, pauses, writes of a watched file
  and looks at the memory mock's log; each request names the status it wants, the
  `check` of its body and the verdicts on another answer, a 404 and none.  `queue` is what
  the Runner has still to publish and `log` what it has; `late` remembers that something
  was read too early.  `spent` counts the seconds since the launch against the `probeCtx`
  of 20 s that the wait for `/health` has begun to use up; a request that outlasts it reads
  as no answer.  `deploy.way` is a way of keeping the rule (`Misjudged` lists those that are
  failed for it), `"panic"` the verdict of a handler that reads a nil response.
- **SiDiff**, **Freshness** are `ValidateDiff`, `Classify`, `SemanticValidate` and the
  token rule of SV-ENC-06 as operators, with what the rule asks for beside them
  (`Confined`).  **Checks** calls the handlers that rest on them, and the operators
  themselves with every diff, list and token of a bound: the diffs are those a diff tool
  prints, each hunk shifted by the ones before it.
- **LiveCall** is a call of one of the six.
- **MemMock**: `pc[c]` is the position of the handler that serves connection `c`
  between two lock operations; `notes`, `tombs`, `addSeq`, `tombSeq`, `count`,
  `calls`, `searches` are the mock's fields, `addedMu` the one lock held across a
  loop.  `known` and `dead` remember which adds and deletes had been answered when
  a request began, and only properties read them.
- **AuditDriver**, **Limiter**: the loop of `driveAuditRecordsWith`, the request in
  flight (`net`), the server's log (`rows`), the bearer's sliding window (`recent`).
  All records of one tool are `Identical` calls, with one session and one `args_digest`;
  where the implementation `replays` those, `Decide` may answer 201 without a new row.
- **TestRun**: `run` of the command from the loaded must-map to the exit code; a
  handler is a choice of evidence or a panic.

## 3. What is checked

All runs are exhaustive.  Clocks are counted in coarse units, and every bound is a
constant of the configuration.

| run | module | states | what it shows |
|---|---|---|---|
| `spawn` | Spawn | 2,302 | one honest outcome per launch (`OutcomeExclusive`, `ExitCodeHonest`), it returns (`Returns`), and it implements Launch |
| `kill_at_marker` | KillAtMarker | 49,596 | a kill before the deadline only at an announced marker (`KillNeedsMarker`), `MarkerSeen` backed by what was read (`SeenIsEvidenced`), nobody writes to the result after it was returned (`ScannerQuiet`), returns, implements Launch |
| `two_launches` | TwoLaunches | 444,865 | a PASS is earned (`PassIsEarned`), the processes never overlap on port and session directory (`OneAtATime`), the second is not timed out under the poll (`PolledAlive`), both are stopped when the call returns (`NothingLeftRunning`), every call returns (`Terminates`) |
| `one_launch` | OneLaunch | 206,146 | exit-judged arms pass only a self-exit (`ExitArmsSound`), no race fails a well-behaved implementation (`ConformingNeverFails`), a probe's process is not cut off (`NotCutOff`), nothing left running, every handler ends |
| `live_call` | LiveCall | 448,919 | no delay within the latency, no lost answer (A2A), no refused mint, no row of others and no earlier test on the same session fails a Runner that keeps the rules, but for the causes each module names (`Excused` of Observe, `TokensMeetEtag` of Handoff), and the checkers of diffs, lists and tokens refuse nothing within their bounds (`ConformingNeverFails`); a pass excludes each flaw the test is documented to find, for a probe also after lost answers and under a context that ends in mid-conversation, and what a checker accepts is within its bounds (`PassIsEarned`), which for diffs is less than the source claims: `Bounded`, not `Confined` (section 5); every conversation ends |
| `mem_mock` | MemMock | 515,817 | budget overrun at most one call per further client (`CountBound`), one tombstone per id (`DeleteIdempotent`), deleted notes hidden and acknowledged notes found under any interleaving (`DeletedStaysHidden`, `AckedIsFound`), a later named add refused, every request answered |
| `audit_driver` | AuditDriver | 281,531 | no row twice (`RowsOnce`); the log answers for every record counted as written, by its own row or that of an identical call (`StatsHonest`), and for all of them at the end (`AllAccounted`); the documented headroom (`HeadroomKept`), one retry suffices (`RetriesBounded`), it ends |
| `test_run` | TestRun | 3,609 | one result per requested test however the phases list it, in phase order; exit 0 needs both reports and no failing evidence |

Each property of these runs has a mutant in its module (a definition commented
"Mutant") which, put in place of the definition it varies, makes TLC find that
property violated.

### 3.1 Bounds

- *Spawn, KillAtMarker*: timeout 1, horizon 3.  The deadline can be ahead, met and
  behind, and the clock keeps running after it.  KillAtMarker announces two
  markers, so that there is a boundary after the one waited for; one process
  without descendants (with `MayFork` the call may hang, see section 5).
- *Compositions*: windows keep their order and, in units of 5 s (15 s for
  StrCrash), nearly their proportion: relaunch window and Spawn's five seconds
  more; 15 s poll, 20 s probe, 30 s Spawn for launchProbeKill; 15 s and 20 s for
  SV-SESS-BOOT-02; for SV-STR-10 a 25 s poll under a 45 s hold.  `Tick` is
  disabled where the code cannot oversleep: a handler's own window, and the start
  of a process, which is far shorter than a unit.  The harness is otherwise as
  slow as it likes.
- *LiveCall*: a request takes up to a second, one answer is lost, the execute hook has
  N = 4 (at 4 + 1 + 2 seconds the task must not yet be complete), the deadline is
  2 under the default sleep of 4; no Runner is set up for both; it returns the
  etag placeholder that the probe's own token carries.  Streams have four deltas,
  two beyond the cancel, and the test double paces them as the handler reads
  (`Paced`); the error taxonomy is cut to two codes, one of them SV-LLM-06's.  The
  log starts empty or with a row of an earlier test.  The registry has three tools,
  one per risk class, that the three modes decide differently; pages hold two rows and
  a walk takes up to four (a longer log runs into the code's own page limit); one row is written by others, one mint is refused (two are too many, see section 5).  A round has two observing tests, enough for
  one to disturb the next, since every test leaves only decisions behind;
  SV-SESS-03 drives three decisions of ten and sees four transitions, so that a side effect
  passes a whole bracket between, before and after observations.
- *Probes*: the Runner answers `/health` at once, after 13 s, which leaves SV-HOOK-03 less
  than the ten it needs, or too late; one answer is lost.  What has effects publishes at
  most three events.
- *Checks*: hunks of one to three lines in files of three to seven, one hunk or two; an hour
  and the clock skew are two ticks of seven, so that a list passes through all its states
  and a token outlives its window.
- *MemMock*: two connections with a request in progress, five requests in all, a
  corpus note, one id callers may name that the mock also mints, a budget of
  three: two overlapping adds, deletes and searches of one id, and an overrun.
- *AuditDriver*: four records over three tools, a limiter of three per four ticks
  that starts empty, half full or full, paced and unpaced, two requests of others; the
  fourth record repeats the first one's call, with and without a replay cache.
- *TestRun*: five tests that between them are listed twice, once, never, unknown,
  of another milestone and of another profile; evidence lists of length 0 to 2.

### 3.2 Fairness

Weak fairness of each goroutine (loop, waiter, scanner, handler) and of the clock:
the Go scheduler is preemptive, and no goroutine of these modules waits for a lock
another holds forever.  MemMock assumes strong fairness of a handler's steps, since
a `sync.Mutex` is handed to a waiter that has starved for a millisecond.
AuditDriver's driver includes its client's ten-second timeout.  LiveCall's Runner
answers or the request is lost: the client's timeout of 3 to 30 seconds stands
behind it.  Nothing is assumed
of the implementation under test: processes need not bind, answer or exit.
`CHECK_DEADLOCK FALSE` is set because calls really end.

## 4. What is proved

TLAPS checks the theorems for every value of the constants that the modules' ASSUMEs
allow.  Every invariant of the passing runs is proved; the
two of LiveCall for four of its six kinds of call, for the kinds AuditTrail and Probes
they are left to TLC.

- **Spawn_proofs**: `SpawnInv` adds to type correctness what each `pc` implies for
  the child, the channel and the result (before the kill the child was never killed
  by the loop; a filled `exitCh` means a dead child; the result is blank until an
  outcome is chosen; the deadline lies the timeout after the start and the clock at
  most a tick beyond it while the loop runs).  None of the four properties is inductive
  alone: that a `Result` taken from `exitCh` is honest needs to know that no kill came
  before, and that needs `pc`.  From it: `TypeOK`, `OutcomeExclusive`, `NoOrphan`,
  `ExitCodeHonest`, `ExitedWithoutKill`; for a context that never ends, the
  documented meaning of `Exited`; and that every step of Spawn is a step or a
  stutter of Launch, hence `ImplementsLaunch` in full (`L!Spec` has no fairness).
- **KillAtMarker_proofs**: `KillInv` follows the evidence.  A line with the marker is among
  those scanned before `markerCh` is filled, the channel is taken before `MarkerSeen` is
  set, and the loop comes to its kill only with that, with the deadline behind it or with
  an ended context; it returns only when the scanner is through, with what the scanner
  saw.  From it `SeenIsEvidenced`, `ScannerQuiet`, the action property `KillNeedsMarker`
  and `ImplementsLaunch`, for every script, descendant, driver and stranger.
- **OneLaunch_proofs**: each handler's Spawn is an instance of the proved one, with
  the handler's timeout and probe, so `SpawnInv` is inherited and `LaunchInv` only adds the
  handler: its control point against Spawn's, its window against Spawn's deadline, its
  evidence against the process.  All five invariants of the run follow.  `NotCutOff`
  needs `KillPoll <= KillTimeout /\ KillProbe <= KillTimeout` (15, 20 and 30 s in the code);
  each window is compared with the timeout by itself and not their sum, because the
  probe's context is made when the launch is.
- **TwoLaunches_proofs**: the same with two launches, KillAtMarker and Spawn or Spawn twice.
  `LaunchInv` says in what order they come (the second is not started before the first has
  returned), what was found (a reading that counts points back to a process that was really
  there), and where the handler's window lies between the deadlines.  `PassIsEarned`
  needs all three, `OneAtATime` the order and the children's state, `PolledAlive` the times, with
  `StrWindow <= StrHold` (25 and 45 s).  The clock's bound must lie beyond the deadlines,
  otherwise a window is cut by the bound.
- **MemMock_proofs**: `MemInv` says, per handler position, what the handler already
  knows (an `AddInsert` holds a fresh or unrefused id, a scan under `addedMu` has
  dealt with every note not in `left`, tombstone numbers are at most `tombSeq` and
  distinct, the callers past the budget check number at most the others).  It
  carries all six safety properties of the run for any number of connections, ids
  and any budget; `CountBound` needs cardinalities of the set of handlers past the
  check.
- **AuditDriver_proofs**: three invariants.  `DriverInv` is type correctness, the balance
  `written + skipped = i` with the row in flight, rows below the counter, distinct,
  and up to it a record of the log for each (`Recorded`: its own row or, with a replay
  cache, that of an earlier identical call); from it `TypeOK`, `RowsOnce`, `StatsHonest`
  and `AllAccounted` for every number of records, tool list, pace and limiter.  That
  each accepted call has a row of its own (main.go:77) is false, see section 5.
  `RetryInv`: who has been refused once more often than others were admitted has slept since, and
  the requests that will still be in the window when it wakes leave room in it.  It is
  inductive because `Retry-After` names the age at which the oldest request leaves,
  so that the requests younger than that are fewer than the limit; from it
  `RetriesBounded`.  `PaceInv`: alone on an empty window, the requests in it are a pace apart
  and the latest is as old as the driver has waited; so there is at most one for each
  pace, which leaves room, so none is refused.  From it `HeadroomKept`, the comment of
  main.go:86-89, for every limit and window and not only for 120 a minute.
  Both rest on lemmas about sums (`SumStep`, `YoungestStep`, `YoungestAged`,
  `YoungestSpaced`): the library's sum is a recursive function, and that the recursion has one
  solution, whichever member it takes first, is shown from a least counterexample.
- **TestRun_proofs**: `Plan`, that the results so far followed by what is left to do are the order
  `Load` computed, is the whole of the induction; the work is in the order.
  `OrderedByPhase` shows that `orderByPhase` lists each wanted id once, nothing else, and
  never a later phase before an earlier one, for must-maps that list an id in several
  phases or several times.  From it `OneResultEach` and `PhaseOrder`; `ExitZeroEarned`
  needs that an aggregate other than fail or error hides none.
- **LiveCall_proofs**.  First the pure functions, for all inputs.
  *auditchain*: `TamperIsFoundInPlace`, in a chain of any length over any hashes that verifies, one
  tampered row is found, and at its own index.  It is why HR-14's check
  asks nothing of a Runner beyond the baseline it has already verified.
  *permresolve*: `ResolveTightens` and `ResolveIsMonotone`, by cases over the
  two orders: no override makes the oracle more lenient than the default or than
  itself, and less capability never resolves more leniently.
  *sidiff*, for files of any text and diffs of any number of hunks:
  `AcceptedIsBounded` says exactly which diffs of the entrypoint are accepted: those whose
  old lines begin behind the opening marker and end before the closing one, by the count
  of lines the hunks have removed so far less those they added (`Bounded`).  That is not what
  sidiff.go:1-3 claims of every diff (`Confined`, false in run `si_diff_doc`): a diff that has
  removed lines may reach past the closing marker, and one that has added lines is refused
  in front of it.  Two corollaries say where the claim holds: `GrowingStaysInside`, an
  accepted diff none of whose hunks removes more than it adds is confined;
  `ShrinkingIsAccepted`, a confined one none of whose hunks adds more than it removes is
  accepted; so for edits that keep the number of lines the check is exact.  The first
  refused hunk decides, which needs a least natural number.
  *crlstate* and the token rule: `RefreshBeforeRefusal` and `FreshnessOnlyFades`, a list
  that was fresh is stale before it is refused, and no state is ever left for a better one;
  `AcceptanceIsBrief`, no token is accepted for longer than twice the skew.

  Then `PassIsEarned` and `ConformingNeverFails` of LiveCall, one kind of call after
  another; `kind` never changes, so each kind has an invariant of its own.
  *Checks*: `CheckInv` says that a handler was given what the bounds allow and answers what
  the checkers answer; what those answer is decided by the functions above, for files, diffs
  and times of any bound.  Of diffs it says `Bounded`, in both directions.
  *Handoff*: `HandoffInv` relates `rows` to the Runner's tasks and the clock.  For the passes: what
  a handler that found no fault has compared, also when answers were lost, which leave an
  error among the rows.  For the failures: every row is a pass, or an error after a
  lost answer.  The rows of SV-A2A-15 hold for every hook round N and every
  latency L with N + 1 + 2L < 2N, for a Runner that is not set up for both tests (`HookHasRoom`), those of SV-A2A-16 for a
  deadline within the sleep (`DeadlineHasRoom`), and
  SV-A2A-11 and -12 are excused a Runner that does not compute the placeholder as its
  etag (`TokensMeetEtag`): their tokens carry the placeholder, so they
  fail a Runner that computes the real one, as the comment of SV-A2A-13 asks.  Section 5 shows
  what happens without each.
  *Dispatch*: `DispatchInv` says, for each test and position, how the test double is set,
  which rows of its log are this call's, and, in SV-LLM-05, that what was read, what
  is on the wire and what is still planned make up the whole stream or one that
  was cut, wherever the cancel overtook it.  Hypotheses: there are error codes and they
  can be told apart (`CodesDiffer`; the code walks through six), and for SV-LLM-05 at least three
  paced deltas (`StreamHasRoom`); without pacing the claim is false (`CountedAfterCancel`).
  A refusal by status counts as a lost answer there, which is also what becomes of a session
  kept from an earlier test that the Runner has forgotten.
  *Observe*: a failed verdict on a Runner that keeps the rules has one of the causes
  `Excused` lists: the session was forgotten (`Forgotten`), SV-BUD-01 came after decisions
  (`Spent`), an endpoint is not shipped (`Unshipped`), or a bracket goes through "inflight" or
  prints trimmed timestamps (`Bracketing`).  Section 5 has each of them.
  The induction is `ObserveInv`, for rounds of any number of tests.  `Quiet`: something is unpublished only between
  a decision and the end of its pause; `Answered`: an answer shows the session
  and the Runner as they are, though others may have changed the session before; `Marked`:
  the reading a second one is compared with differs from it only if the Runner varies;
  `Decided`: which flaws the earlier readings of SV-BUD-05 have ruled out.  Of SV-SESS-03
  `Watched`: each observation is continued by the next, by the one on its way to the
  handler and by what the Runner would show now, for any number of decisions and of moves.
  `NeighboursSuffice` is the point of the pass: `assertPhaseTransitions` compares only neighbours,
  and the bracket is transitive, so no two observations contradict it.  It needs that no
  timestamp is left out (`flaw # "patchy"`; `PassIsMonotone` of section 5).

`TypeOK` of Spawn, KillAtMarker, MemMock, AuditDriver and TestRun is left to the theorems;
`two_launches` and `one_launch` check it too, for a mutant of their handlers.

The assumptions a theorem rests on are those of its module, and each is a property of
what the code passes: windows no longer than the timeouts behind them, finitely many
handlers, ids that are strings, a window that does not already hold more than the
limit admits (`Filled`).

Where an argument goes by induction over data (the order of the phases, a sum, a
diff's hunks), it is put as a least counterexample: the library's well-founded minimum
gives the smallest number at which a claim fails, and the step below it
contradicts it.  That needs no operator as a parameter, which the provers cannot
instantiate.

Only model-checked: all liveness (fairness and ENABLED are out of the prover's reach);
`PassIsEarned` and `ConformingNeverFails` of the kinds AuditTrail and Probes; and the documented
claims of section 5, which are false.  AuditTrail's rows name each other by `ToString`, which is
injective for TLC and unknown to the prover, and its scripts are folds; the scripts of
Probes are one for each of forty tests and their checks look at logs filtered by
`SelectSeq`, so that its invariant would be a list as long as the scripts.

## 5. Where code and documents disagree

Four disagreements are runs of their own, each with a counterexample:

- `refuse_card09_doc`: SV-CARD-09's probe sleeps 400 ms, Spawn cancels every probe
  after 250 ms, so the probe never asks, and an implementation that serves with an
  invalid card is passed.
- `crash_drive_doc`: the driver of the first launch is neither cancelled nor awaited
  and may post to the relaunched process.
- `si_diff_doc`: sidiff compares the new-file range of a hunk with the span of the old
  file, so a hunk that removes three lines and adds one is accepted although it takes the
  closing marker with it.
- `mem_delete_doc`: `handleSearch` ranks the whole corpus and never reads the tombstones, so
  a deleted corpus note comes back in a search.

The models refute further documented claims.  They stand at the end of their modules;
to see the counterexample, list the property alone in the configuration named.

| claim (module) | documented at | configuration |
|---|---|---|
| `ExitedMeansSelfExit` (Spawn), with a context that ends | subprocrunner.go:36 | MCSpawn |
| `ReadyBeforeExitOrTimeout` (Spawn) | subprocrunner.go:38 | MCSpawn |
| `ExitReportsMarker` (KillAtMarker): exit wins over a full `markerCh` | killatmarker.go:67 | MCKillAtMarker |
| `FiredIsReported` (KillAtMarker): the field is written after the return | killatmarker.go:85 | MCKillAtMarker |
| `KillBeforeNextBoundary` (KillAtMarker): the process runs on during the delay | relaunch.go:41 | MCKillAtMarker |
| `Returns` (KillAtMarker) with `MayFork = TRUE`: `<-scanDone` has no bound | killatmarker.go:98 | MCKillAtMarker |
| `StartedMeansStarted` (CrashRecovery) | relaunch.go:76 | CrashDrive |
| `RelaunchFinished` (StrCrash): the port stays taken for up to 45 s | handlers_m3_bbcf.go:992 | constants of StrCrash as in MCTwoLaunches |
| `LookupAsksRunner` (CardDrift): the audit-chain lookup runs after Spawn has stopped the process, so it never confirms anything | handlers_m2_crash.go:327 | constants of CardDrift as in MCTwoLaunches |
| `RowPerAcceptedCall` (AuditDriver): the records of a tool are identical calls (main.go:142-143), which the comments at handlers.go:1947-1948 and 1984-1985 say the implementation collapses into one row, so the driver counts records as written that have no row of their own | main.go:77 | MCAuditDriver |
| `AddedOnce` (MemMock): check and insertion are two critical sections | memmock.go:375 | MCMemMock |
| `EveryFlawNoticed` (LiveCall): SV-A2A-11 never sees whether a signature was verified, SV-A2A-14 not whether the workflow digest was recomputed, SV-LLM-05 passes without the row, SV-LLM-06's ok, error, ok reads the same in either order | handlers_a2a.go:271, :472; handlers_m7_llm.go:211, :303 | MCLiveCall |
| `CountedAfterCancel` (LiveCall): the deltas counted may have been emitted before it | handlers_m7_llm.go:255 | MCLiveCall, `Paced = FALSE` |
| `LostIsError` (LiveCall): a dispatch without an answer fails the Runner, where the A2A handlers report an error | handlers_a2a.go:626 | MCLiveCall |
| `EveryFlawNoticed` (LiveCall), of SV-PERM-22: a refusal with 403 or 503 that is audited passes, only after a 400 does it look at the log | handlers.go:2330 | MCLiveCall |
| `LostIsError` (LiveCall), of the permission handlers: an answer that never came is reported as a wrong one | handlers.go:1825, :2354 | MCLiveCall |
| `LostIsError` (LiveCall), of SV-MEM-STATE-02 and SV-BUD-PROJ-02: the second reading is "status=0; want 200" | handlers_m3.go:714, handlers_m3_wk2.go:474 | MCLiveCall |
| `AloneInLog` (LiveCall): rows of others come between two readings | handlers.go:520 | MCLiveCall |
| `ConformingNeverFails` (LiveCall): a second refusal of its mint is an error in SV-SESS-BOOT-01 and a fail in SV-PERM-01 | handlers.go:716 | MCLiveCall, `MaxBusy = 2` |
| `ConformingNeverFails` (LiveCall): a log longer than the page limit is an error in HR-14 and fails SV-AUDIT-RECORDS-01 | handlers.go:2441 | MCLiveCall, `PageCap = 1` |
| `FreshIsFresh` (LiveCall): SV-BUD-01 reads a session on which SV-STR or SV-BUD-05 tests have taken decisions | handlers_m3_wk2.go:44 | MCLiveCall |
| `BracketAccepted` (LiveCall): pending, inflight, committed is refused at its second step, and a timestamp with a trimmed fraction sorts after a later one | handlers_m2.go:639 | MCLiveCall |
| `PassIsMonotone` (LiveCall): a timestamp that is left out hides the one before it | handlers_m2.go:488 | MCLiveCall |
| `CacheOutlived` (LiveCall): nothing ties the 55 minutes to the session's time-to-live or to the Runner's life | handlers_m2.go:763 | MCLiveCall |
| `ConformingNeverFails` (LiveCall): with N = 1 the status is "completed" when "executing" is asked for | handlers_a2a.go:753 | MCLiveCall, `HookN = 1` |
| `ConformingNeverFails` (LiveCall): a Runner with both a hook and a deadline times the hook's task out | handlers_a2a.go:718 | MCLiveCall, `Shared = TRUE` |
| `ConformingNeverFails` (LiveCall): a Runner that computes the etag of the caller's card, as SV-A2A-13 wants, refuses the placeholder in the tokens of SV-A2A-11 and -12 | handlers_a2a.go:415 | MCLiveCall, `CardEtag = "other"` |
| `EveryFlawNoticed` (LiveCall), of SV-PERM-05 and SV-ADAPTER-04: one page is fetched, and SV-ADAPTER-04 passes on older rows where its own were not written | handlers_m3_v9b.go:108, handlers_m4.go:404 | MCLiveCall |
| `RefusedIsRepeated` (AuditTrail): SV-PERM-16 does not repeat a mint refused with 429 | handlers.go:716 | MCLiveCall, as `kind = "audit" => A!RefusedIsRepeated` |
| `EveryFlawNoticed` (LiveCall), of the probes: SV-HOOK-01 passes without a hook, SV-BUD-02 a session that is exhausted too early, SV-PERM-10 a Runner that never compares key ids, and others listed in `Unnoticed` | Probes | MCLiveCall |
| `HealthyIsReady` (LiveCall): a 200 of `/health` is not readiness, and one reading decides about what may be published later | handlers_m2.go:827 | MCLiveCall |
| `BootLeavesRoom` (LiveCall): the context of the probe has begun with the launch, a Runner that boots in 13 s has 7 left | handlers_m2.go:814 | MCLiveCall |
| `EveryWayAccepted` (LiveCall): SV-PERM-06 fails a 401 its comment accepts, SV-BUD-02 a session that is deleted once exhausted, SV-HOOK-03 a Runner that answers before its hook | handlers_m3_bbcf.go:420 | MCLiveCall |
| `NeverPanics` (LiveCall): a lost answer is read as a response, and a short record id is sliced | handlers_m3_bbcf.go:409 | MCLiveCall |
| `CountedOnce` (LiveCall): a second event after the one reading | handlers_m2.go:290 | MCLiveCall |
| `RemovalIsRefused` (Checks): a hunk that removes the file is of no known path | sidiff.go:1 | SiDiff |
| `ConfinedIsAccepted` (Checks): lines added at the end of the surface push the hunk past the old marker | sidiff.go:141 | SiDiff |
| `SharperCode` (Checks): only if no hunk before it was refused | sidiff.go:124 | SiDiff |
| `GraceIsOpen` (Checks): a token that expired exactly thirty seconds ago is accepted | handlers_m3_v10.go:255 | SiDiff |
| `PinnedBundleLasts` (Checks): HR-01 judges a pinned bundle by the clock of the day | handlers.go (handleHR01) | SiDiff |
| `KillAfterAssertion` (SessBoot02): Spawn kills the process as soon as it is healthy, possibly before the handler's assertion, and a conforming implementation gets an error | handlers.go:991 | SpawnTimeout 4, PollWindow 3, Horizon 6, MayFork TRUE, ExitCodes {0, 1} |
| `JudgedIsLaunched` (SessBoot02): a stranger on the port is judged in its place | handlers.go:2015 | as above |
| `NilMeansSelfKill` (StrCrash): a health answer later than 150 ms counts as the self-kill of the process | handlers_m3_bbcf.go:873 | constants of StrCrash as in MCTwoLaunches |
| `AnyFailFails` (TestRun): error then fail aggregates to error | result.go:44 | MCTestRun |
| `ExitZeroAllPassed` (TestRun): skips do not count | README.md:34 | MCTestRun |
| `DryRunAgrees` (TestRun): a run ignores the profile | main.go:253 | MCTestRun |
| `M3Deferred` (TestRun): the default scope contains M3 | runner.go:28 | MCTestRun |

Three more, read off the code while modelling: `driveDecisionAndFetchEvents` "mints a
fresh session" (handlers_m3.go:784) and tests that mutate session state "MUST call
m2Bootstrap" (handlers_m2.go:755), but the SV-STR and SV-BUD-05 handlers take decisions on
the shared one; SV-BUD-05 fails a Runner that ships none of the three endpoints, which
every neighbour skips, and may pass on rows that decisions of earlier tests left;
on a card of mode ReadOnly SV-PERM-01 skips what SV-SESS-BOOT-01 and SV-PERM-21
report as an error.

## 6. Not modelled

`PROJECT.json` "components" names every part.  Left out: bytes and wording (JSON, JUnit
XML, messages), parsers and schema validation by libraries, file digests and `--check-pins`;
the handlers that scan files or check one answer (SV-ENC and SV-PRIN but SV-ENC-06, SV-CARD-02..08, SV-SIGN,
SV-GOV, SV-PERM-11..13, -17 and -18, SV-ADAPTER-01..03, SV-COMPAT, SV-LLM-01, -02 and -09, SV-BOOT-06, SV-PRIV-01): what can go
wrong in them is an assertion, and no order of steps reaches it that a test would not.
Capture buffers are represented by what a verdict reads from them.  A stderr line longer than
the scanner's buffer is not in KillAtMarker.

## 7. Plan

1. *Extend.*  Done: the conversations, the permission sweep, the observing tests, the probes,
   the checkers, a stranger on the port.
2. *Prove.*  Done: the launchers, both compositions, the mock, the audit driver, the
   run, the oracles, and of LiveCall the checks, both conversations and the observing rounds.
   Left: AuditTrail, with hashes the prover can tell apart, and Probes.
