------------------------------- MODULE Probes -------------------------------
(***************************************************************************)
(* The handlers that talk to a Runner of their own: launchProbeKill spawns *)
(* it with a prepared environment, waits for /health, and lets a probe     *)
(* hold a conversation with it (internal/testrunner, handlers_m2.go, _m3,  *)
(* _m3_hooks, _m3_wk2, _m3_t12, _m3_bbcf, _m3_v9a, _m3_v9c, _m3_v11, _v12).*)
(*                                                                         *)
(* What the probe looks for is often published some time after the answer  *)
(* that caused it, the whole conversation runs under one context of        *)
(* CtxLimit seconds that the wait for /health has begun to use up, and     *)
(* after a 200 of /health the Runner need not be ready.  Time is counted   *)
(* in whole seconds; pauses and answers of less are free.  The Runner is   *)
(* external and has at most one flaw.  ProbeKill models the process.       *)
(***************************************************************************)
EXTENDS Integers, Sequences, SequencesExt

CONSTANTS
    Boots,          \* seconds the Runner may take to answer /health
    MaxLost         \* bound: so many requests get no answer

HealthWindow == 15  \* how long /health is polled
CtxLimit     == 20  \* probeCtx

Hooks   == {"HOOK01", "HOOK02", "HOOK03", "HOOK04", "HOOK05", "HOOK06", "HOOK07", "HOOK08"}
Sinks   == {"PERM19", "SINKEV"}
\* The Runner must not become ready.
Refused == {"CARD10", "LOOSEN", "AGENTS", "MEM03"}
Tests == Hooks \cup Sinks \cup Refused \cup
    {"POOL", "BUD02", "BUD04", "REG03", "REG04", "MEM01", "MEM02", "MEM04", "MEM05", "MEM06",
     "PERM03", "PERM04", "PERM06", "PERM07", "PERM08", "PERM09", "PERM10", "PERM14", "PERM15",
     "PRIV02", "PRIV03", "PRIV04", "PRIV05", "AGENTS07", "BOOT04", "HR07"}

VARIABLES
    test, flaw, deploy,     \* the call, and the Runner it launches
    step, verdict,
    net, reply, lost,       \* "idle", "sent", "served"
    mark,                   \* the readings the probe remembers
    log, queue,             \* what the Runner has published, and what it will
    spent, tries,           \* seconds since the launch, and of this polling
    late                    \* something was read before it was all published

vars == <<test, flaw, deploy, step, verdict, net, reply, lost, mark, log, queue, spent, tries, late>>
call == <<test, flaw, deploy>>

\* The refusal a decision must get, by the test that asks for one.
Denial(t) ==
    CASE t = "HOOK02" -> <<"hook-deny">>          [] t = "HR07"   -> <<"agent-type-insufficient">>
      [] t = "PERM03" -> <<"escalation-timeout">> [] t = "PERM04" -> <<"hitl-required", "autonomous">>
      [] t = "PERM08" -> <<"HandlerKeyExpired">>  [] t = "PERM09" -> <<"HandlerKeyRevoked">>
      [] t = "PRIV05" -> <<"residency-violation">>
      [] OTHER -> <<>>
Denied == {t \in Tests : Denial(t) # <<>>}

\* What the test looks for in events, records or the memory mock's call log, and
\* what makes the Runner publish it.
Event(t) ==
    CASE t \in Sinks              -> "AuditSinkDegraded"
      [] t \in {"HOOK05", "HOOK06"} -> "replaced"
      [] t = "HOOK08" -> "HookReentrancy"   [] t = "BUD02" -> "BudgetExhausted"
      [] t = "MEM01"  -> "search_memories"  [] t = "MEM03" -> "memory-mcp-unavailable"
      [] t = "MEM04"  -> "memory-timeout"   [] t = "MEM05" -> "consolidate_memories"
      [] t = "MEM06"  -> "project"          [] t = "REG03" -> "added"
      [] t = "PERM06" -> "row"              [] t = "PERM07" -> "near"
      [] t = "PERM09" -> "revoked"          [] t = "PERM14" -> "crl-refresh"
      [] t = "PERM15" -> "SuspectDecision"  [] t = "PRIV02" -> "MemoryDeletionForbidden"
      [] t = "PRIV04" -> "retention-sweep-ran" [] t = "PRIV05" -> "ResidencyCheck"
      [] t \in {"CARD10", "LOOSEN"} -> "ConfigPrecedenceViolation"
      [] t = "AGENTS" -> "AgentsMdInvalid"  [] t = "BOOT04" -> "bootstrap-revoked"
      [] OTHER -> "-"
Cause(t) ==
    CASE t \in Sinks \cup Refused \cup {"PRIV04", "PERM14"} -> "boot"
      [] t \in {"MEM01", "MEM04", "MEM05", "MEM06", "PRIV02"} -> "mint"
      [] t \in {"HOOK05", "HOOK06", "HOOK07", "HOOK08", "PERM06", "PERM07", "PRIV05"} -> "decide"
      [] t \in {"REG03", "PERM09", "PERM15", "BOOT04"} -> "write"
      [] OTHER -> "-"

\* The rules a Runner can break, with the tests documented to notice.
Covered(t) ==
    (IF t \in Denied THEN {"approves", "otherReason"} ELSE {})
    \cup (IF Event(t) # "-" THEN {"silent"} ELSE {})
    \cup (IF t \in Refused THEN {"opens"} ELSE {})
    \cup CASE t = "PERM19" -> {"twice"}          [] t = "SINKEV" -> {"twice", "shape"}
           [] t = "MEM04"  -> {"twice", "shape", "terminal"}
           [] t = "POOL"   -> {"allows"}         [] t = "HOOK01" -> {"stdin"}
           [] t = "HOOK02" -> {"slowKill", "unkilled"}
           [] t = "HOOK03" -> {"denies", "noHook", "unkilled"}
           [] t = "HOOK04" -> {"ignores"}
           [] t \in {"HOOK05", "HOOK06"} -> {"other", "noDigest", "sameDigest"}
           [] t = "HOOK07" -> {"noPre", "noPost", "noDecision", "swapped"}
           [] t \in {"HOOK08", "BUD02", "MEM06", "AGENTS"} -> {"other"}
           [] t = "BUD04"  -> {"half", "double"}
           [] t = "REG03"  -> {"noTool", "unpinned"} [] t = "REG04" -> {"keepsDenied", "dropsOther"}
           [] t = "MEM01"  -> {"empty"}          [] t = "MEM02" -> {"empty", "vary"}
           [] t = "MEM03"  -> {"otherReason"}    [] t = "PERM04" -> {"noDetail"}
           [] t = "PERM06" -> {"mutable"}        [] t = "PERM07" -> {"skewed", "noStamp"}
           [] t = "PERM10" -> {"rejects"}        [] t = "PRIV03" -> {"noEcho", "noExport", "open"}
           [] t = "AGENTS07" -> {"refuses"}      [] t = "BOOT04" -> {"flipsOnly"}
           [] OTHER -> {}

\* The rules these tests name and cannot see broken.
Unnoticed(t) ==
    CASE t \in Sinks    -> {"spurious"}     [] t = "HOOK01" -> {"noHook"}
      [] t = "HOOK02"   -> {"hasty"}        [] t = "HOOK07" -> {"decisionLast"}
      [] t = "HOOK08"   -> {"noRefusal"}    [] t = "BUD02"  -> {"premature"}
      [] t = "MEM06"    -> {"mixed"}        [] t = "PERM07" -> {"skewLater"}
      [] t = "PERM10"   -> {"oneKid"}       [] t = "PRIV02" -> {"loads"}
      [] t = "AGENTS07" -> {"reloads"}
      [] OTHER -> {}

\* Ways to keep the rules, the usual one first, and those that are failed for it.
Ways(t) ==
    CASE t \in Sinks  -> <<"degraded", "healthy", "unshipped">>
      [] t = "HOOK08" -> <<"keeps", "deletes">> [] t = "BUD02" -> <<"keeps", "deletes", "refuses">>
      [] t = "HOOK03" -> <<"blocks", "answers">>
      [] t = "MEM04"  -> <<"quick", "patient">> [] t = "PERM06" -> <<"405", "401", "shortId">>
      [] OTHER -> <<"-">>
Misjudged(t) ==
    CASE t = "BUD02" -> {"deletes"} [] t = "HOOK03" -> {"answers"}
      [] t = "MEM04" -> {"patient"} [] t = "PERM06" -> {"401", "shortId"}
      [] OTHER -> {}

-----------------------------------------------------------------------------
\* Scripts: a request with the status it wants and a check of the answer; what
\* an answer that meets them, one that does not, a 404 and none lead to: "go" or
\* the verdict.  A polling asks again for some seconds before it gives up.

Ask(a, status, check) ==
    [do |-> "ask", arg |-> a, want |-> status, check |-> check, for |-> 0,
     met |-> "go", other |-> "fail", absent |-> "fail", lost |-> "fail"]
Poll(a, status, check, seconds) == [Ask(a, status, check) EXCEPT !.do = "poll", !.for = seconds]
Loud(a)        == Ask(a, "any", "-")      \* any answer will do
Quiet(a)       == [Loud(a) EXCEPT !.lost = "go"]
Look(a, s, c)  == [Ask(a, s, c) EXCEPT !.met = "pass", !.other = "go", !.absent = "go"]
OrSkip(entry)  == [entry EXCEPT !.other = "skip", !.absent = "skip", !.lost = "skip"]
OrPanic(entry) == [entry EXCEPT !.lost = "panic"]
Local(d, c)    == [Ask("-", "-", c) EXCEPT !.do = d]

launchProbeKill == Poll("health", "200", "-", HealthWindow)
m2Bootstrap     == Ask("mint", "201", "-")
Pause           == Local("pause", "-")
WriteFile       == Local("write", "-")
Inspect(c)      == Local("inspect", c)
Launched        == <<launchProbeKill, m2Bootstrap>>

runSinkFailureArm ==
    <<launchProbeKill, OrSkip(m2Bootstrap),
      [Ask("sink", "200", "sink") EXCEPT !.absent = "skip", !.lost = "skip"]>>
runToolPoolAccept == Launched \o <<Ask("resolve", "200", "Prompt")>>

\* The harness mints a session, and the probe another one.
mintSessionForHook == m2Bootstrap
runHookHarness(probe) == Launched \o <<mintSessionForHook>> \o probe
Outcome(check) == <<Ask("decide", "201", "-"), Pause, Ask("events", "200", check)>>
handleSVHOOK08 ==
    <<Ask("events", "200", "-"), Loud("decide"), Pause,
      [Look("events", "200", "event") EXCEPT !.absent = "pass", !.other = "fail"]>>

\* At most five decisions; after the last nothing has been seen.
handleSVBUD02 ==
    Launched
    \o FlattenSeq([i \in 1 .. 5 |-> <<Look("decide", "403", "event"), Pause,
                                      [Look("events", "200", "event") EXCEPT !.lost = "go"]>>])
    \o <<Inspect("never")>>
handleSVBUD04 == Launched \o <<Loud("decide"), Pause, Ask("budget", "200", "cached")>>

handleSVREG03 ==
    Launched \o <<Ask("state", "200", "note"), Ask("tools", "200", "note"), WriteFile,
                  Poll("tools", "200", "advanced", 8), Inspect("oneMore"), Ask("state", "200", "pinned")>>
handleSVREG04 == Launched \o <<Ask("tools", "200", "subtracted")>>

handleSVMEM01 == Launched \o <<Ask("memory", "200", "notes"), Inspect("event")>>
handleSVMEM02 == Launched \o <<Ask("memory", "200", "note"), m2Bootstrap, Ask("memory", "200", "sameNotes")>>
handleSVMEM03 == <<launchProbeKill, [Poll("ready", "503", "event", 15) EXCEPT !.met = "pass"]>>
handleSVMEM04 == Launched \o <<Pause, Ask("syslog", "200", "once")>>
handleSVMEM05 == Launched \o <<Pause, Inspect("event"), Quiet("syslog")>>
handleSVMEM06 == Launched \o <<Pause, Inspect("event")>>

autonomousPdaProbe == Launched \o <<Ask("enroll", "201", "-"), Ask("decide", "403", "denial")>>
handleSVPERM03Real == autonomousPdaProbe
handleSVPERM06Real ==
    Launched \o <<Loud("decide"), OrPanic(Ask("audit", "any", "event")),
                  [Ask("remove", "405", "-") EXCEPT !.absent = "pass"]>>
handleSVPERM07Real == Launched \o <<Quiet("decide"), OrPanic(Ask("audit", "any", "stamped"))>>
handleSVPERM08Real == Launched \o <<Ask("decide", "403", "denial")>>
handleHR07         == handleSVPERM08Real
handleSVPERM09Real == Launched \o <<WriteFile, Pause, Ask("decide", "403", "denial")>>
handleSVPERM10Real == Launched \o <<Ask("decide", "201", "-")>>
\* The one probe of this module of the Runner all tests share.
handleSVPERM14Real == <<[Ask("syslog", "200", "event") EXCEPT !.lost = "error"]>>
handleSVPERM15Real ==
    Launched \o <<Quiet("decide"), Quiet("decide"), Quiet("decide"), WriteFile, Pause, Ask("audit", "any", "event")>>

handleSVPRIV02 == Launched \o <<Pause, Ask("syslog", "200", "event")>>
handleSVPRIV03 ==
    <<launchProbeKill, Ask("delete", "200", "echo"), Ask("export", "200", "suppression"), Ask("noauth", "401", "-")>>
handleSVPRIV04 == <<OrSkip(launchProbeKill), Pause, OrSkip(Ask("syslog", "200", "event"))>>
handleSVPRIV05 == Launched \o <<Ask("decide", "403", "denial"), Ask("audit", "any", "event")>>

\* SV-PERM-02 and HR-11, SV-AGENTS-01 .. 05 and -08, and SV-CARD-10: each on a card or
\* an AGENTS.md of its own.
awLooseningCardProbe == <<launchProbeKill, Ask("ready", "503", "-"), Ask("syslog", "200", "event")>>
agentsMdGrammarProbe == awLooseningCardProbe
handleSVCARD10       == awLooseningCardProbe
handleSVAGENTS07     == <<launchProbeKill, Ask("ready", "200", "-")>>
handleSVBOOT04 ==
    <<launchProbeKill, Pause, Ask("ready", "200", "-"), WriteFile, Poll("ready", "503", "-", 3),
      Ask("syslog", "any", "event")>>

Script ==
    CASE test \in Sinks -> runSinkFailureArm [] test = "POOL" -> runToolPoolAccept
      [] test = "HOOK01" -> runHookHarness(<<Ask("decide", "201", "-")>>)
      [] test = "HOOK02" -> runHookHarness(<<Ask("decide", "403", "timely")>>)
      [] test = "HOOK03" -> runHookHarness(<<Ask("decide", "201", "waited")>>)
      [] test = "HOOK04" -> runHookHarness(<<Ask("decide", "201", "Prompt")>>)
      [] test \in {"HOOK05", "HOOK06"} -> runHookHarness(Outcome("event"))
      [] test = "HOOK07" -> runHookHarness(Outcome("order"))
      [] test = "HOOK08" -> runHookHarness(handleSVHOOK08)
      [] test = "BUD02" -> handleSVBUD02 [] test = "BUD04" -> handleSVBUD04
      [] test = "REG03" -> handleSVREG03 [] test = "REG04" -> handleSVREG04
      [] test = "MEM01" -> handleSVMEM01 [] test = "MEM02" -> handleSVMEM02 [] test = "MEM03" -> handleSVMEM03
      [] test = "MEM04" -> handleSVMEM04 [] test = "MEM05" -> handleSVMEM05 [] test = "MEM06" -> handleSVMEM06
      [] test = "PERM03" -> handleSVPERM03Real [] test = "PERM04" -> autonomousPdaProbe
      [] test = "PERM06" -> handleSVPERM06Real [] test = "PERM07" -> handleSVPERM07Real
      [] test = "PERM08" -> handleSVPERM08Real [] test = "HR07" -> handleHR07
      [] test = "PERM09" -> handleSVPERM09Real [] test = "PERM10" -> handleSVPERM10Real
      [] test = "PERM14" -> handleSVPERM14Real [] test = "PERM15" -> handleSVPERM15Real
      [] test = "PRIV02" -> handleSVPRIV02 [] test = "PRIV03" -> handleSVPRIV03
      [] test = "PRIV04" -> handleSVPRIV04 [] test = "PRIV05" -> handleSVPRIV05
      [] test = "LOOSEN" -> awLooseningCardProbe
      [] test = "CARD10" -> handleSVCARD10 [] test = "AGENTS" -> agentsMdGrammarProbe
      [] test = "AGENTS07" -> handleSVAGENTS07 [] test = "BOOT04" -> handleSVBOOT04

Entry  == Script[step]
Ended  == verdict # "none"
Silent == [status |-> "-"]

-----------------------------------------------------------------------------
\* The Runner: what it answers, and what it publishes.

Said(item) ==
    CASE flaw = "silent" -> <<>> [] flaw = "twice" -> <<item, item>>
      [] flaw \in {"other", "noDigest", "sameDigest"} -> <<"other">>
      [] flaw = "skewed" -> <<"far">> [] flaw = "noStamp" -> <<"bare">> [] flaw = "skewLater" -> <<item, "far">>
      [] flaw = "mixed" -> <<"session", item>>
      [] OTHER -> <<item>>

\* The flip of /ready and the record of it are two steps of SV-BOOT-04's Runner.
Publication(t) ==
    CASE t \in Sinks /\ deploy.way = "healthy" -> IF flaw = "spurious" THEN <<Event(t)>> ELSE <<>>
      [] t = "BOOT04" -> CASE flaw = "silent" -> <<>> [] flaw = "flipsOnly" -> <<"flip">>
                           [] OTHER -> <<"flip", Event(t)>>
      [] t = "HOOK07" -> CASE flaw = "swapped"      -> <<"post", "decision", "pre">>
                           [] flaw = "decisionLast" -> <<"pre", "post", "decision">>
                           [] OTHER -> SelectSeq(<<"pre", "decision", "post">>,
                                                 LAMBDA e : <<flaw, e>> \notin {<<"noPre", "pre">>,
                                                     <<"noDecision", "decision">>, <<"noPost", "post">>})
      [] OTHER -> Said(Event(t))

In(item) == item \in ToSet(log)
\* Decisions taken that use the budget; the second one exhausts it.
Turns    == Len(SelectSeq(log \o queue, LAMBDA e : e = "turn"))
OverRun  == test = "BUD02" /\ Turns >= 2 /\ flaw # "silent"
Gone     == deploy.way = "deletes" /\ In(Event(test))

Effects(a) ==
    CASE a = "decide" /\ test = "BUD04" -> <<"turn">>
      [] a = "decide" /\ test = "BUD02" ->
            IF OverRun THEN <<>>
            ELSE <<"turn">> \o (IF (Turns = 1 /\ deploy.way # "refuses") \/ flaw = "premature"
                                THEN Publication(test) ELSE <<>>)
      [] a = Cause(test) -> Publication(test)
      [] OTHER -> <<>>

Is(status, body) == [status |-> status, body |-> body]
Decision ==
    CASE test = "BUD02" /\ OverRun ->
            CASE deploy.way = "refuses" -> Is("403", Said("BudgetExhausted"))
              [] deploy.way = "deletes" -> Is("404", <<>>)
              [] OTHER -> Is("403", <<"ended">>)
      [] test \in Denied /\ flaw # "approves" /\ (test = "PERM09" => In("revoked")) ->
            Is("403", CASE flaw = "otherReason" -> <<"other">> [] flaw = "noDetail" -> <<Denial(test)[1]>>
                        [] OTHER -> Denial(test))
      [] flaw \in {"denies", "rejects", "stdin"} -> Is("403", <<"hook-deny">>)
      [] OTHER -> Is("201", <<IF test = "HOOK04" /\ flaw # "ignores" THEN "Prompt" ELSE "AutoAllow">>)
Readiness ==
    CASE test \in Refused /\ flaw # "opens" ->
            Is("503", IF test = "MEM03" /\ ~In(Event(test)) THEN <<"starting">>
                      ELSE IF flaw = "otherReason" THEN <<"other">> ELSE <<Event(test)>>)
      [] flaw = "refuses" \/ In("flip") \/ ~(In("ready") \/ test \in Refused) -> Is("503", <<"starting">>)
      [] OTHER -> Is("200", <<>>)
Memory == IF flaw = "empty" THEN <<>> ELSE IF flaw = "vary" /\ mark # <<>> THEN <<"n2", "n1">> ELSE <<"n1", "n2">>
ToolPool ==
    CASE test = "REG04" -> <<"t1", "t2", "t3">> \o (IF flaw = "dropsOther" THEN <<>> ELSE <<"t4">>)
                                               \o (IF flaw = "keepsDenied" THEN <<"denied">> ELSE <<>>)
      [] In("added") -> <<"v2", "t1">> \o (IF flaw = "noTool" THEN <<>> ELSE <<"t2">>)
      [] OTHER -> <<"v1", "t1">>

Answer(a) ==
    CASE a = "mint"    -> IF flaw = "terminal" \/ ~In("ready") THEN Is("503", <<>>) ELSE Is("201", <<>>)
      [] a = "ready"   -> Readiness
      [] a = "decide"  -> Decision
      [] a = "resolve" -> Is("200", <<IF flaw = "allows" THEN "AutoAllow" ELSE "Prompt">>)
      [] a = "sink"    -> IF deploy.way = "unshipped" THEN Is("404", <<>>) ELSE Is("200", log)
      [] a = "events"  -> IF Gone THEN Is("404", <<>>) ELSE Is("200", log)
      [] a \in {"syslog", "audit"} -> Is("200", log)
      [] a = "memory"  -> Is("200", Memory)
      [] a = "tools"   -> Is("200", ToolPool)
      [] a = "state"   -> Is("200", <<IF In("added") /\ flaw = "unpinned" THEN "h2" ELSE "h1">>)
      [] a = "budget"  -> Is("200", CASE ~In("turn") -> <<"0", "0">> [] flaw = "half" -> <<"100", "0">>
                                      [] flaw = "double" -> <<"200", "200">> [] OTHER -> <<"100", "100">>)
      [] a = "remove"  -> Is(IF flaw = "mutable" THEN "200" ELSE IF deploy.way = "401" THEN "401" ELSE "405", <<>>)
      [] a = "delete"  -> Is("200", IF flaw = "noEcho" THEN <<>> ELSE <<"echo">>)
      [] a = "export"  -> Is("200", IF flaw = "noExport" THEN <<>> ELSE <<"suppression">>)
      [] a = "noauth"  -> Is(IF flaw = "open" THEN "200" ELSE "401", <<>>)
      [] a = "enroll"  -> Is("201", <<>>)
      [] a = "health"  -> Is("200", <<>>)

Silence == [status |-> "none"]

\* The seconds an answer takes, and how long the client waits for it.
Takes(a) ==
    CASE a = "mint" /\ test = "MEM04" -> IF deploy.way = "patient" THEN 3 ELSE 2
      [] a = "decide" /\ flaw = "unkilled" -> 30
      [] a = "decide" /\ test = "HOOK02"   -> CASE flaw = "slowKill" -> 9 [] flaw = "hasty" -> 1 [] OTHER -> 5
      [] a = "decide" /\ test = "HOOK03"   -> IF flaw = "noHook" \/ deploy.way = "answers" THEN 0 ELSE 10
      [] OTHER -> 0
Patience(a) == IF a = "mint" THEN 3 ELSE CtxLimit

Least(a, b) == IF a < b THEN a ELSE b

\* What these return depends on what has been published.
Reads == {"mint", "ready", "sink", "events", "syslog", "audit", "tools", "state", "budget"}
         \cup (IF test = "PERM09" THEN {"decide"} ELSE {})
Final == Entry.do # "poll" \/ tries + 1 = Entry.for

Serve ==
    /\ net = "sent" /\ net' = "served"
    /\ LET a     == Entry.arg
           took  == Least(Takes(a), Patience(a))
           bound == spent < CtxLimit /\ (a = "health" => spent >= deploy.boot)
       IN  /\ spent' = Least(spent + took, CtxLimit)
           /\ IF bound
              THEN /\ reply' = IF Takes(a) < Patience(a) /\ spent + took < CtxLimit
                               THEN Answer(a) @@ [took |-> took, valid |-> flaw # "shape"] ELSE Silence
                   /\ queue' = IF Answer(a).status = "503" THEN queue ELSE queue \o Effects(a)
                   /\ late' = (late \/ (queue # <<>> /\ a \in Reads /\ Final))
              ELSE reply' = Silence /\ UNCHANGED <<queue, late>>
    /\ UNCHANGED <<call, step, verdict, lost, mark, log, tries>>

Publish ==
    /\ ~Ended /\ net # "served" /\ Entry.arg # "health" /\ queue # <<>>
    /\ log' = Append(log, Head(queue)) /\ queue' = Tail(queue)
    /\ UNCHANGED <<call, step, verdict, net, reply, lost, mark, spent, tries, late>>

-----------------------------------------------------------------------------
\* The handler.

Count(b, item) == Len(SelectSeq(b, LAMBDA e : e = item))
Stamped(b)     == SelectSeq(b, LAMBDA e : e \in {"near", "far"})
\* The type looked for is the empty string in healthy mode.
expectedEvent  == IF deploy.way = "healthy" THEN "" ELSE Event(test)

Seen(check, b) ==
    CASE check \in {"-", "note"} -> TRUE
      [] check = "never"  -> FALSE
      [] check = "event"  -> Event(test) \in ToSet(b)
      [] check = "denial" -> ToSet(Denial(test)) \subseteq ToSet(b)
      [] check = "timely" -> ToSet(Denial(test)) \subseteq ToSet(b) /\ reply.took <= 8
      [] check = "waited" -> reply.took >= 9
      [] check = "once"   -> Count(b, Event(test)) = 1
      [] check = "sink"   -> Count(b, expectedEvent) = IF expectedEvent = "" THEN 0 ELSE 1
      [] check = "order"  -> /\ {"pre", "decision", "post"} \subseteq ToSet(b)
                             /\ SelectSeq(b, LAMBDA e : e \in {"pre", "post"})[1] = "pre"
      [] check = "stamped"   -> Stamped(b) # <<>> /\ Stamped(b)[1] = "near"
      [] check = "cached"    -> b = <<"100", "100">>
      [] check = "notes"     -> b # <<>>
      [] check = "sameNotes" -> b # <<>> /\ b = mark[1]
      [] check = "advanced"  -> b[1] # mark[2][1]
      [] check = "oneMore"   -> Len(mark[3]) = Len(mark[2]) + 1
      [] check = "pinned"    -> b = mark[1]
      [] check = "subtracted" -> "denied" \notin ToSet(b) /\ Len(b) = 4
      [] OTHER -> check \in ToSet(b)

\* Only these two validate the body against its schema.
Validates == test \in {"SINKEV", "MEM04"} /\ Entry.arg \in {"sink", "syslog"}

\* SV-PERM-06 quotes the first twelve characters of the record's id.
Met == IF Entry.arg = "remove" /\ deploy.way = "shortId" THEN "panic" ELSE Entry.met

Judge ==
    CASE reply.status = "none" -> Entry.lost
      [] reply.status = "404" /\ Entry.want # "any" -> Entry.absent
      [] Entry.want \notin {"any", reply.status} -> Entry.other
      [] Validates /\ ~reply.valid -> "fail"
      [] OTHER -> IF Seen(Entry.check, reply.body) THEN Met ELSE Entry.other

Advance(outcome) ==
    IF outcome = "go" /\ step < Len(Script) THEN step' = step + 1 /\ UNCHANGED verdict
    ELSE verdict' = (IF outcome = "go" THEN "pass" ELSE outcome) /\ UNCHANGED step

\* A polling goes on for as long as its window has room for another second.
Follow(outcome) ==
    IF Entry.do = "poll" /\ outcome # Entry.met
    THEN /\ spent' = Least(spent + 1, CtxLimit)
         /\ IF Final THEN Advance(Entry.other) /\ tries' = 0
            ELSE tries' = tries + 1 /\ UNCHANGED <<step, verdict>>
    ELSE Advance(outcome) /\ tries' = 0 /\ UNCHANGED spent

Init ==
    /\ test \in Tests
    /\ flaw \in {"none"} \cup Covered(test) \cup Unnoticed(test)
    /\ deploy \in [boot : Boots, way : ToSet(Ways(test))]
    \* A flaw meets the usual way and the quickest start.
    /\ flaw # "none" => /\ deploy.boot = CHOOSE b \in Boots : \A c \in Boots : b <= c
                        /\ deploy.way = Ways(test)[IF flaw = "spurious" THEN 2 ELSE 1]
    /\ step = 1 /\ verdict = "none" /\ net = "idle" /\ reply = Silent /\ lost = 0
    /\ mark = <<>> /\ log = <<>> /\ spent = 0 /\ tries = 0 /\ late = FALSE
    /\ queue = (IF test \in Refused THEN <<>> ELSE <<"ready">>)
               \o (IF Cause(test) = "boot" THEN Publication(test) ELSE <<>>)

TypeOK ==
    /\ test \in Tests /\ deploy.boot \in Boots /\ deploy.way \in ToSet(Ways(test))
    /\ step \in 1 .. Len(Script) /\ verdict \in {"none", "pass", "fail", "error", "skip", "panic"}
    /\ net \in {"idle", "sent", "served"} /\ lost \in 0 .. MaxLost
    /\ Len(mark) <= 3 /\ spent \in 0 .. CtxLimit /\ tries \in 0 .. HealthWindow - 1
    /\ late \in BOOLEAN

Send ==
    /\ ~Ended /\ net = "idle" /\ Entry.do \in {"ask", "poll"} /\ net' = "sent"
    /\ UNCHANGED <<call, step, verdict, reply, lost, mark, log, queue, spent, tries, late>>

Take ==
    /\ net = "served" /\ net' = "idle" /\ reply' = Silent
    /\ Follow(Judge)
    /\ mark' = IF reply.status = "200" /\ Judge = "go" /\ Entry.check \in {"note", "advanced"}
               THEN Append(mark, reply.body) ELSE mark
    /\ UNCHANGED <<call, lost, log, queue, late>>

\* The client gives up on one request.
Lose ==
    /\ net \in {"sent", "served"} /\ lost < MaxLost
    /\ net' = "idle" /\ lost' = lost + 1 /\ reply' = Silent
    /\ Follow(Entry.lost)
    /\ UNCHANGED <<call, mark, log, queue, late>>

Wake ==
    /\ ~Ended /\ Entry.do = "pause" /\ step' = step + 1
    /\ UNCHANGED <<call, verdict, net, reply, lost, mark, log, queue, spent, tries, late>>

\* The file the Runner watches.
Write ==
    /\ ~Ended /\ Entry.do = "write" /\ step' = step + 1 /\ queue' = queue \o Effects("write")
    /\ UNCHANGED <<call, verdict, net, reply, lost, mark, log, spent, tries, late>>

\* What the memory mock has logged, or the readings remembered.
Recall ==
    /\ ~Ended /\ Entry.do = "inspect"
    /\ Advance(IF Seen(Entry.check, log) THEN Entry.met ELSE Entry.other)
    /\ late' = (late \/ queue # <<>>)
    /\ UNCHANGED <<call, net, reply, lost, mark, log, queue, spent, tries>>

Handler == Send \/ Take \/ Lose \/ Wake \/ Write \/ Recall
Runner  == Serve
Next    == Handler \/ Runner \/ Publish

Spec == Init /\ [][Next]_vars /\ WF_vars(Handler) /\ WF_vars(Runner)

-----------------------------------------------------------------------------
Blamed == verdict \in {"fail", "error", "panic"}

\* While answers arrive and the context has not ended.
Orderly == lost = 0 /\ spent < CtxLimit
Started == deploy.boot < HealthWindow
Usual   == deploy.way \notin Misjudged(test)

\* A Runner that keeps every rule is not failed if it starts in time and has
\* published what it owes when it is asked: see the claims.
ConformingNeverFails == flaw = "none" /\ Started /\ Usual /\ Orderly /\ ~late => ~Blamed

\* A pass means that the Runner has none of the flaws the test notices, however
\* the conversation went; only a second event that is published after the one
\* reading goes unnoticed.
PassIsEarned == verdict = "pass" => flaw \notin Covered(test) \/ (flaw = "twice" /\ late)

-----------------------------------------------------------------------------
\* Claims of the source that do not hold.

\* The rules a test names are the rules it checks.
EveryFlawNoticed == verdict = "pass" => flaw = "none"

\* /health answers 200, so a session can be minted and the log be read: the
\* Runner may not be ready, or not have published yet, and one reading decides.
HealthyIsReady == flaw = "none" /\ Started /\ Usual /\ Orderly => ~Blamed

\* A start within the window of /health leaves the probe its time: SV-HOOK-03
\* and SV-MEM-03 can wait for longer than the context has left.
BootLeavesRoom == flaw = "none" /\ Started /\ Usual /\ lost = 0 /\ ~late => ~Blamed

\* Every way of keeping a rule is accepted, any rejection of a DELETE included.
EveryWayAccepted == flaw = "none" /\ Started /\ Orderly /\ ~late => ~Blamed

\* A lost answer is reported: SV-PERM-06 and -07 read the nil response.
NeverPanics == verdict # "panic"

\* Exactly one event, when one reading counts them.
CountedOnce == verdict = "pass" => flaw \notin Covered(test)
=============================================================================
