----------------------------- MODULE AuditTrail -----------------------------
(***************************************************************************)
(* The handlers about sessions, permission decisions and the audit log     *)
(* (internal/testrunner/handlers.go): SV-SESS-BOOT-01, SV-PERM-01, -20,    *)
(* -21 and -22, SV-AUDIT-TAIL-01, SV-AUDIT-RECORDS-01 and -02, HR-14; and  *)
(* SV-PERM-05 and -16 of handlers_m3_v9b.go, SV-ADAPTER-04 of              *)
(* handlers_m4.go.                                                         *)
(*                                                                         *)
(* A handler is a script of requests, as in Dispatch.  The Runner is       *)
(* external and has at most one flaw; its log may be written by others     *)
(* while a handler reads it: by the rows of the audit-record driver that   *)
(* arrive late, or by another holder of a bearer.                          *)
(***************************************************************************)
EXTENDS Integers, Sequences, SequencesExt, TLC, AuditChain, PermResolve

CONSTANTS
    Tools,          \* the registry: a sequence of [risk, control]
    PageSize,       \* rows per page of GET /audit/records
    PageCap,        \* pages after which collectAllRecords gives up
    MaxOthers,      \* bound: rows others write
    MaxBusy,        \* bound: mints the Runner answers with 429
    MaxLost         \* bound: so many requests get no answer

Tests == {"SESSBOOT01", "PERM01", "PERM20", "PERM21", "PERM22", "TAIL01",
          "RECORDS01", "RECORDS02", "HR14", "PERM05", "PERM16", "ADAPTER04"}

VARIABLES
    test, flaw, deploy,         \* the call, and the Runner it meets
    step, verdict,
    net, reply, lost,           \* "idle", "sent", "served"
    log, others, busy,          \* the Runner's rows, of them others', 429 answers
    retried, denied,            \* a mint repeated; a mode refused in SV-PERM-01
    mark, got, pages, seeded    \* what the handler remembers

vars == <<test, flaw, deploy, step, verdict, net, reply, lost, log, others, busy,
          retried, denied, mark, got, pages, seeded>>
call == <<test, flaw, deploy>>

\* The rules a Runner can break, with the tests documented to notice.  What
\* SV-PERM-22 asks depends on how the Runner answers a malformed signature.
Covered(t) ==
    CASE t = "SESSBOOT01" -> {"mode", "refuses", "scope"}
      [] t = "PERM01"     -> {"mode", "wrong", "audits"}
      [] t = "PERM20"     -> {"wrong", "unaudited", "unlinked", "scope", "scopeAudits",
                              "mismatch", "mismatchAudits"}
      [] t = "PERM21"     -> {"wrong", "refusesPda", "kid"}
      [] t = "PERM22"     -> {"acceptsBogus"}
           \cup (CASE deploy.style = "400" -> {"reason", "audits"}
                   [] deploy.style = "201" -> {"unaudited"}
                   [] OTHER -> {"reason"})
      [] t = "TAIL01"     -> {"genesis", "bare", "audits"}
      [] t = "RECORDS01"  -> {"unsorted", "noCursor", "endless"}
      [] t \in {"RECORDS02", "HR14"} -> {"first", "broken", "later"}
      [] t = "PERM05"     -> {"first", "broken"}
      [] t = "PERM16"     -> {"oneClass", "unclassed"}
      [] t = "ADAPTER04"  -> {"first", "broken", "refuses"}
           \cup (IF Len(log) <= PageSize THEN {"unclassed"} ELSE {})

\* A refusal that is audited, where the handler does not look at the log; a break
\* on a page that SV-PERM-05 and SV-ADAPTER-04 do not fetch, or a row that is not
\* on it; and rows that are not written, where there are others.
Unnoticed(t) == CASE t = "PERM22" /\ deploy.style \in {"403", "503"} -> {"audits"}
                  [] t = "PERM05" -> {"later"}
                  [] t = "ADAPTER04" -> {"later", "unclassed", "unaudited"}
                  [] OTHER -> {}

-----------------------------------------------------------------------------
\* Scripts: what is sent, and the outcome of a transport error, "go" when the
\* handler goes on with an empty answer.

Mint(cap, decide, bad) == [do |-> "mint", arg |-> <<cap, decide>>, bad |-> bad]
ReadTail(check, bad)   == [do |-> "tail", arg |-> check, bad |-> bad]
Decide(what)           == [do |-> "decide", arg |-> what, bad |-> "error"]
Cell(i, cap)           == [do |-> "resolve", arg |-> <<i, cap>>, bad |-> "error"]
Probe                  == [do |-> "probe", arg |-> "-", bad |-> "go"]
Pages(bad)             == [do |-> "pages", arg |-> "-", bad |-> bad]

Caps == <<"ReadOnly", "WorkspaceWrite", "DangerFullAccess">>

\* auditBearer: the demo session, else a fresh one, else the test is skipped.
auditBearer == IF deploy.demo THEN <<>> ELSE <<Mint("ReadOnly", FALSE, "skip")>>

SVSESSBOOT01 ==
    FoldSeq(LAMBDA c, s : s \o <<Mint(c, TRUE, "error"), Decide("plain"),
                                 Mint(c, FALSE, "error"), Decide("noscope")>>, <<>>, Caps)

permResolveLiveCheck ==
    [i \in 1 .. 3 |-> Mint(Caps[i], FALSE, "error")] \o <<ReadTail("note", "error")>>
    \o FoldSeq(LAMBDA c, s : s \o [i \in 1 .. Len(Tools) |-> Cell(i, c)], <<>>, Caps)
    \o <<ReadTail("hash", "error")>>

SVPERM20 ==
    <<Mint("ReadOnly", TRUE, "error"), ReadTail("note", "error"), Decide("plain"),
      ReadTail("linked", "error"),
      Mint("ReadOnly", FALSE, "error"), ReadTail("note", "error"), Decide("noscope"),
      ReadTail("same", "error"),
      Mint("ReadOnly", TRUE, "error"), ReadTail("note", "go"), Decide("mismatch"),
      ReadTail("same", "go")>>

SVPERM21 == <<Mint("WorkspaceWrite", TRUE, "error"), Decide("pda"), Pages("error")>>

\* The audit check that follows depends on the answer.
SVPERM22 ==
    <<Mint("DangerFullAccess", TRUE, IF deploy.demo THEN "go" ELSE "skip"),
      ReadTail("note", "error"), Decide("bogus"), ReadTail("answered", "go")>>

SVAUDITTAIL01    == auditBearer \o <<ReadTail("shape", "error"), ReadTail("again", "error")>>
SVAUDITRECORDS01 == auditBearer \o <<Probe, Pages("fail")>>
SVAUDITRECORDS02 == auditBearer \o <<Probe, Pages("error")>>

SVPERM05         == auditBearer \o <<Pages("error")>>

\* A row of each of two sessions, whatever the decisions were answered.
SVPERM16 ==
    <<Mint("DangerFullAccess", TRUE, "error"), Mint("ReadOnly", TRUE, "error"),
      [Decide("dfa") EXCEPT !.bad = "go"], [Decide("ro") EXCEPT !.bad = "go"], Pages("error")>>

\* Two rows for the Runner behind the adapter, and its log.
SVADAPTER04 == <<[Decide("ro") EXCEPT !.bad = "fail"], [Decide("dfa") EXCEPT !.bad = "fail"], Pages("fail")>>

\* Fewer than three rows are filled up by decisions of a session of its own.
HR14 == auditBearer \o <<Probe, Pages("error"),
            [do |-> "mint", arg |-> <<"DangerFullAccess", TRUE>>, bad |-> "skip"],
            [do |-> "decide", arg |-> "seed", bad |-> "skip"], Pages("error")>>

Script ==
    CASE test = "SESSBOOT01" -> SVSESSBOOT01 [] test = "PERM01" -> permResolveLiveCheck
      [] test = "PERM20" -> SVPERM20 [] test = "PERM21" -> SVPERM21
      [] test = "PERM22" -> SVPERM22 [] test = "TAIL01" -> SVAUDITTAIL01
      [] test = "RECORDS01" -> SVAUDITRECORDS01 [] test = "RECORDS02" -> SVAUDITRECORDS02
      [] test = "HR14" -> HR14 [] test = "PERM05" -> SVPERM05 [] test = "PERM16" -> SVPERM16
      [] test = "ADAPTER04" -> SVADAPTER04

Entry == Script[step]
Seeds == test = "HR14" /\ step > Len(HR14) - 3

Ended == verdict # "none"

\* No answer is at hand.
Silent == [status |-> "-"]
-----------------------------------------------------------------------------
\* The Runner.  A row's kid is its signer or, in SV-PERM-16 and SV-ADAPTER-04,
\* the mode of its session and the class derived from it.

NewRow(kid) ==
    [prev |-> IF log = <<>> THEN "GENESIS" ELSE Last(log).hash,
     hash |-> ToString(Len(log) + 1), ts |-> Len(log) + 1, kid |-> kid]

\* A session at the mode asked for, unless the card's mode is below it.
MintAnswer(cap) ==
    IF deploy.ceiling = "ReadOnly" /\ cap # "ReadOnly" THEN [status |-> "403", mode |-> "-"]
    ELSE [status |-> "201", mode |-> IF flaw = "mode" THEN "other" ELSE cap]

Count == Len(log)
TailAnswer ==
    [count |-> Count,
     hash  |-> IF (Count = 0) # (flaw = "genesis") THEN "GENESIS"
               ELSE IF Count = 0 THEN "0" ELSE Last(log).hash,
     ts    |-> (Count > 0) # (flaw = "bare")]

\* An answer to a decision, and the signer of the row written for it.
Answer(st, why, dec, acc, row) ==
    [status |-> st, reason |-> why, decision |-> dec, accepted |-> acc, row |-> row]
Refusal(st, why, audited) == Answer(st, why, "-", FALSE, IF audited THEN "runner" ELSE "-")

BogusAnswer ==
    CASE flaw = "acceptsBogus" -> Answer("201", "-", "AutoAllow", TRUE, "runner")
      [] deploy.style = "201" ->
           Answer("201", "pda-verify-failed", "Deny", FALSE, IF flaw = "unaudited" THEN "-" ELSE "runner")
      [] OTHER -> Refusal(deploy.style,
                    CASE flaw = "reason" -> "other" [] deploy.style = "503" -> "pda-verify-unavailable"
                      [] OTHER -> "pda-malformed", flaw = "audits")

DecisionAnswer(what) ==
    CASE what \in {"plain", "seed"} ->
           IF flaw = "refuses" THEN Refusal("403", "insufficient-scope", FALSE)
           ELSE Answer("201", "-", IF flaw = "wrong" THEN "Deny" ELSE "AutoAllow", FALSE,
                       IF flaw = "unaudited" THEN "-" ELSE "runner")
      [] what = "noscope" ->
           IF flaw = "scope" THEN Answer("201", "-", "AutoAllow", FALSE, "runner")
           ELSE Refusal("403", "insufficient-scope", flaw = "scopeAudits")
      [] what = "mismatch" ->
           IF flaw = "mismatch" THEN Answer("201", "-", "AutoAllow", FALSE, "runner")
           ELSE Refusal("403", "session-bearer-mismatch", flaw = "mismatchAudits")
      [] what = "pda" ->
           IF deploy.style = "503" THEN Refusal("503", "pda-verify-unavailable", FALSE)
           ELSE Answer("201", "-", IF flaw = "wrong" THEN "AutoAllow" ELSE "Prompt",
                       flaw # "refusesPda", IF flaw = "kid" THEN "runner" ELSE "handler")
      [] what = "bogus" -> BogusAnswer
      [] what \in {"dfa", "ro"} ->
           IF flaw = "refuses" THEN Refusal("403", "other", FALSE)
           ELSE Answer("201", "-", "AutoAllow", FALSE,
                  CASE flaw = "unaudited" -> "-" [] flaw = "unclassed" -> what
                    [] flaw = "oneClass" \/ what = "dfa" -> what \o " dfa-365d"
                    [] OTHER -> what \o " standard-90d")

\* The resolver of a Runner that is wrong is wrong in one cell.
ResolveAnswer(i, cap) ==
    IF flaw = "wrong" /\ i = Len(Tools) /\ cap = "WorkspaceWrite" THEN "other"
    ELSE Resolve(Tools[i].risk, Tools[i].control, cap, None)

\* The rows after those collected, in chain order.
Served == [i \in 1 .. Count |->
    [log[i] EXCEPT !.prev = IF <<flaw, i>> \in {<<"first", 1>>, <<"broken", 2>>, <<"later", 3>>} THEN "other" ELSE @,
                   !.ts   = IF flaw = "unsorted" THEN -@ ELSE @]]
Walked == IF pages = 0 \/ flaw = "endless" THEN <<>> ELSE got
PageAnswer ==
    LET upto == Len(Walked) + PageSize
    IN [rows |-> SubSeq(Served, Len(Walked) + 1, IF upto < Count THEN upto ELSE Count),
        more |-> upto < Count \/ flaw \in {"endless", "noCursor"},
        next |-> flaw # "noCursor"]

\* A row more; reading does not write one.
Logged(kid) == IF kid = "-" THEN log ELSE Append(log, NewRow(kid))

ServeMint ==
    /\ net = "sent" /\ Entry.do = "mint" /\ net' = "served"
    /\ \/ reply' = MintAnswer(Entry.arg[1]) /\ UNCHANGED busy
       \/ busy < MaxBusy /\ busy' = busy + 1 /\ reply' = [status |-> "429", mode |-> "-"]
    /\ UNCHANGED <<call, step, verdict, lost, log, others, retried, denied, mark, got, pages, seeded>>

ServeRead ==
    /\ net = "sent" /\ Entry.do \in {"tail", "resolve", "probe", "pages"} /\ net' = "served"
    /\ reply' = CASE Entry.do = "tail" -> TailAnswer
                  [] Entry.do = "resolve" -> [decision |-> ResolveAnswer(Entry.arg[1], Entry.arg[2])]
                  [] Entry.do = "probe" -> [status |-> IF deploy.shipped THEN "200" ELSE "404"]
                  [] Entry.do = "pages" -> PageAnswer
    /\ log' = Logged(IF flaw = "audits" /\ <<test, Entry.do>> \in {<<"PERM01", "resolve">>, <<"TAIL01", "tail">>}
                     THEN "runner" ELSE "-")
    /\ UNCHANGED <<call, step, verdict, lost, others, busy, retried, denied, mark, got, pages, seeded>>

ServeDecision ==
    /\ net = "sent" /\ Entry.do = "decide" /\ net' = "served"
    /\ LET a == DecisionAnswer(Entry.arg) IN
         /\ log' = Logged(a.row)
         /\ reply' = [status |-> a.status, reason |-> a.reason, decision |-> a.decision,
                      accepted |-> a.accepted,
                      hash |-> IF flaw = "unlinked" \/ log' = <<>> THEN "other" ELSE Last(log').hash]
    /\ UNCHANGED <<call, step, verdict, lost, others, busy, retried, denied, mark, got, pages, seeded>>

\* A row that is not this handler's.
Others ==
    /\ ~Ended /\ others < MaxOthers /\ others' = others + 1
    /\ log' = Append(log, NewRow("runner"))
    /\ UNCHANGED <<call, step, verdict, net, reply, lost, busy, retried, denied, mark, got, pages, seeded>>

Runner == ServeMint \/ ServeRead \/ ServeDecision

-----------------------------------------------------------------------------
\* The handler: what an answer leads to, "go", "stay" or the verdict.

\* postSessionWithScope has repeated a 429 once before this.
JudgeMint(cap, bad) ==
    CASE reply.status = "201" ->
           IF test \in {"SESSBOOT01", "PERM01"} /\ reply.mode # cap THEN "fail"
           ELSE IF test = "PERM01" /\ step = 3 /\ denied THEN "skip" ELSE "go"
      [] test = "PERM01" ->
           IF reply.status # "403" THEN "fail" ELSE IF step = 3 THEN "skip" ELSE "go"
      [] OTHER -> bad

\* No answer reads as an empty one.
NoTail == [count |-> 0, hash |-> "", ts |-> FALSE]

JudgeTail(check, t) ==
    LET ok == CASE check = "note"   -> TRUE
                [] check = "shape"  -> /\ t.hash = "GENESIS" <=> t.count = 0
                                       /\ t.ts <=> t.count > 0
                [] check = "again"  -> t.hash = mark.hash /\ t.count = mark.count
                [] check = "hash"   -> t.hash = mark.hash
                [] check = "linked" -> t.count = mark.count + 1 /\ t.hash = mark.decided
                [] check = "same"   -> t.count = mark.count
                [] check = "answered" ->
                     t.count = mark.count + IF mark.status = "201" THEN 1 ELSE 0
    IN IF ok THEN "go" ELSE "fail"

JudgeBogus ==
    CASE reply.status = "201" ->
           IF reply.decision = "Deny" /\ ~reply.accepted /\ reply.reason = "pda-verify-failed"
           THEN "go" ELSE "fail"
      [] reply.status = "503" -> IF reply.reason = "pda-verify-unavailable" THEN "pass" ELSE "fail"
      [] reply.reason # "pda-malformed" -> "fail"
      [] OTHER -> IF reply.status = "400" THEN "go" ELSE "pass"

JudgeDecision(what) ==
    LET made == reply.status = "201"
        ok == CASE what = "plain" ->
                     made /\ (test = "PERM20" =>
                       reply.decision = Resolve("ReadOnly", "AutoAllow", "ReadOnly", None))
                [] what = "noscope"  -> reply.status = "403" /\ reply.reason = "insufficient-scope"
                [] what = "mismatch" -> reply.status = "403" /\ reply.reason = "session-bearer-mismatch"
                [] what = "pda" -> made /\ reply.decision = "Prompt" /\ reply.accepted
                [] OTHER -> made
    IN CASE what = "bogus" -> JudgeBogus
         [] what = "pda" /\ reply.status = "503" -> "skip"
         [] what \in {"dfa", "ro"} -> IF test = "ADAPTER04" /\ ~made THEN "fail" ELSE "go"
         [] what = "seed" -> IF ~made THEN "skip"
                             ELSE IF Len(got) + seeded + 1 < 3 THEN "stay" ELSE "go"
         [] OTHER -> IF ok THEN "go" ELSE "fail"

\* What is asserted of all rows once they are collected.
Ordered(rows) == \A i \in 2 .. Len(rows) : rows[i - 1].ts <= rows[i].ts
Middle(rows)  == Len(rows) \div 2 + 1

\* The rows of a session that carry a class, and a log all of whose rows do.
Classed(mode) == {mode \o class : class \in {" dfa-365d", " standard-90d"}}
Kids(rows)    == {rows[i].kid : i \in DOMAIN rows}
Classes(rows, mode) == Kids(rows) \cap Classed(mode)
AllClassed(rows)    == Kids(rows) \subseteq {"runner"} \cup Classed("dfa") \cup Classed("ro")

JudgeRows(rows) ==
    CASE test = "PERM21" -> IF rows # <<>> /\ Last(rows).kid = "handler" THEN "go" ELSE "fail"
      [] test = "RECORDS01" -> IF Ordered(rows) THEN "go" ELSE "fail"
      [] test \in {"RECORDS02", "PERM05"} ->
           IF rows = <<>> THEN "skip" ELSE IF VerifyChain(rows) = 0 THEN "go" ELSE "fail"
      [] test = "HR14" ->
           IF Len(rows) < 3 THEN (IF Seeds THEN "skip" ELSE "go")
           ELSE IF VerifyChain(rows) = 0 /\ VerifyChain(Tamper(rows, Middle(rows))) = Middle(rows)
                THEN "pass" ELSE "fail"
      [] test = "PERM16" ->
           IF Classes(rows, "dfa") = {} \/ Classes(rows, "ro") = {} THEN "skip"
           ELSE IF Classes(rows, "dfa") = {"dfa dfa-365d"} /\ Classes(rows, "ro") = {"ro standard-90d"}
                THEN "go" ELSE "fail"
      [] test = "ADAPTER04" ->
           IF Len(rows) >= 2 /\ AllClassed(rows) /\ VerifyChain(rows) = 0 THEN "go" ELSE "fail"

Collected == (IF pages = 0 THEN <<>> ELSE got) \o reply.rows

\* collectAllRecords: to the last page, at most PageCap of them.  SV-PERM-05
\* and SV-ADAPTER-04 fetch one, SV-PERM-16 stops once it has seen both classes.
Enough == \/ test \in {"PERM05", "ADAPTER04"}
          \/ test = "PERM16" /\ (JudgeRows(Collected) # "skip" \/ ~reply.next \/ pages + 1 = PageCap)
JudgePage(bad) ==
    CASE ~reply.more \/ Enough -> JudgeRows(Collected)
      [] ~reply.next \/ pages + 1 = PageCap -> bad
      [] OTHER -> "stay"

JudgeResolve(i, cap) ==
    IF reply.decision = Resolve(Tools[i].risk, Tools[i].control, cap, None) THEN "go" ELSE "fail"

Outcome ==
    CASE Entry.do = "mint"    -> JudgeMint(Entry.arg[1], Entry.bad)
      [] Entry.do = "tail"    -> JudgeTail(Entry.arg, reply)
      [] Entry.do = "decide"  -> JudgeDecision(Entry.arg)
      [] Entry.do = "resolve" -> JudgeResolve(Entry.arg[1], Entry.arg[2])
      [] Entry.do = "probe"   -> IF reply.status = "404" THEN "skip" ELSE "go"
      [] Entry.do = "pages"   -> JudgePage(Entry.bad)

Advance(outcome) ==
    CASE outcome = "stay" -> UNCHANGED <<step, verdict>>
      [] outcome = "go" /\ step < Len(Script) -> step' = step + 1 /\ UNCHANGED verdict
      [] OTHER -> verdict' = (IF outcome = "go" THEN "pass" ELSE outcome) /\ UNCHANGED step

Deployments ==
    [ceiling : {"ReadOnly", "DangerFullAccess"}, demo : BOOLEAN, shipped : BOOLEAN, style : {"201", "400", "403", "503"}]

Init ==
    /\ test \in Tests /\ deploy \in Deployments
    /\ \E n \in {0, 2, 3} :
         log = [i \in 1 .. n |-> [prev |-> IF i = 1 THEN "GENESIS" ELSE ToString(i - 1),
                                  hash |-> ToString(i), ts |-> i, kid |-> "runner"]]
    /\ flaw \in {"none"} \cup Covered(test) \cup Unnoticed(test)
    \* A log that shows the flaw.
    /\ flaw \in {"first", "broken", "unsorted"} => log # <<>>
    /\ flaw = "later" => Len(log) = 3
    \* Each setting varies where the test looks at it.
    /\ test \notin {"SESSBOOT01", "PERM01", "PERM16", "PERM21", "PERM22", "HR14"} => deploy.ceiling = "DangerFullAccess"
    /\ test \notin {"PERM22", "TAIL01", "HR14"} => ~deploy.demo
    /\ test \notin {"RECORDS01", "RECORDS02", "HR14"} => deploy.shipped
    /\ deploy.style \in CASE test = "PERM21" -> {"201", "503"} [] test = "PERM22" -> {"201", "400", "403", "503"}
                          [] OTHER -> {"201"}
    /\ step = 1 /\ verdict = "none" /\ net = "idle" /\ reply = Silent /\ lost = 0
    /\ others = 0 /\ busy = 0 /\ retried = FALSE /\ denied = FALSE
    /\ mark = [count |-> 0, hash |-> "", decided |-> "", status |-> ""]
    /\ got = <<>> /\ pages = 0 /\ seeded = 0

TypeOK ==
    /\ test \in Tests /\ deploy \in Deployments
    /\ step \in 1 .. Len(Script) /\ verdict \in {"none", "pass", "fail", "error", "skip"}
    /\ net \in {"idle", "sent", "served"} /\ lost \in 0 .. MaxLost
    /\ others \in 0 .. MaxOthers /\ busy \in 0 .. MaxBusy /\ {retried, denied} \subseteq BOOLEAN
    /\ \A i \in 1 .. Len(log) : log[i].hash = ToString(i)
    /\ pages \in 0 .. PageCap /\ seeded \in 0 .. 3

Send ==
    /\ ~Ended /\ net = "idle" /\ net' = "sent"
    /\ UNCHANGED <<call, step, verdict, reply, lost, log, others, busy, retried, denied, mark, got, pages, seeded>>

\* A mint refused by the rate limit is repeated once, after its Retry-After;
\* the session HR-14 seeds with is not, nor are those of SV-PERM-16.
Repeats == Entry.do = "mint" /\ ~retried /\ ~Seeds /\ test # "PERM16" /\ reply.status = "429"

Retry ==
    /\ net = "served" /\ Repeats
    /\ net' = "idle" /\ retried' = TRUE /\ reply' = Silent
    /\ UNCHANGED <<call, step, verdict, lost, log, others, busy, denied, mark, got, pages, seeded>>

Noted(t) == [mark EXCEPT !.count = t.count, !.hash = t.hash]

Take ==
    /\ net = "served" /\ ~Repeats
    /\ net' = "idle" /\ reply' = Silent /\ retried' = FALSE
    /\ Advance(Outcome)
    /\ denied' = (denied \/ (Entry.do = "mint" /\ reply.status = "403"))
    /\ mark' = CASE Entry.do = "tail" /\ Entry.arg \in {"note", "shape"} -> Noted(reply)
                 [] Entry.do = "decide" -> [mark EXCEPT !.decided = reply.hash, !.status = reply.status]
                 [] OTHER -> mark
    /\ IF Entry.do = "pages"
       THEN got' = Collected /\ pages' = (IF Outcome = "stay" THEN pages + 1 ELSE 0)
       ELSE UNCHANGED <<got, pages>>
    /\ seeded' = IF Entry.do = "decide" /\ Entry.arg = "seed" THEN seeded + 1 ELSE seeded
    /\ UNCHANGED <<call, lost, log, others, busy>>

Lose ==
    /\ net \in {"sent", "served"} /\ lost < MaxLost
    /\ net' = "idle" /\ lost' = lost + 1 /\ reply' = Silent /\ retried' = FALSE
    /\ Advance(IF Entry.do = "tail" /\ Entry.bad = "go" THEN JudgeTail(Entry.arg, NoTail) ELSE Entry.bad)
    /\ mark' = IF Entry.do = "tail" /\ Entry.arg = "note" THEN Noted(NoTail) ELSE mark
    /\ UNCHANGED <<call, log, others, busy, denied, got, pages, seeded>>

Handler == Send \/ Retry \/ Take \/ Lose
Next    == Handler \/ Runner \/ Others

Spec == Init /\ [][Next]_vars /\ WF_vars(Handler) /\ WF_vars(Runner)

-----------------------------------------------------------------------------
\* A Runner that keeps every rule is not failed while its answers arrive, and
\* by other writers of its log only where a handler compares two readings; an
\* error is for a card whose mode is too low, or a refused mint of SV-PERM-16.
Reads == test \in {"SESSBOOT01", "RECORDS01", "RECORDS02", "HR14", "PERM05", "PERM16", "ADAPTER04"}
ConformingNeverFails ==
    flaw = "none" /\ lost = 0 /\ (others = 0 \/ Reads) =>
        verdict # "fail" /\ (verdict = "error" => deploy.ceiling = "ReadOnly" \/ (test = "PERM16" /\ busy > 0))

\* A pass means that the Runner has none of the flaws the test notices.
PassIsEarned == verdict = "pass" /\ lost = 0 /\ others = 0 => flaw \notin Covered(test)

-----------------------------------------------------------------------------
\* Claims of the source that do not hold.

\* handlers.go:520: "/audit/tail this_hash is byte-identical before and after
\* the sweep".  With another writer of the log it is not.
AloneInLog == flaw = "none" /\ lost = 0 => verdict # "fail"

\* handlers.go:1825 and 2354: "MUST not audit; tail count %d" and "attempt MUST
\* audit" are what is reported, also where the tail could not be read and its
\* error was discarded.
LostIsError == flaw = "none" /\ others = 0 /\ test \in {"PERM20", "PERM22"} => verdict # "fail"

\* handlers.go:716: a mint refused with 429 is repeated.  Not in SV-PERM-16.
RefusedIsRepeated ==
    flaw = "none" /\ lost = 0 /\ deploy.ceiling # "ReadOnly" => verdict # "error"

\* handlers.go:2330: "400 pda-malformed MUST not audit".  The same refusal with
\* a 403, and the 503, pass without a look at the log.  handlers_m3_v9b.go:108:
\* "no chain breaks", also where more pages than one would be there.
\* handlers_m4.go:403: "audit rows forwarded", also where the rows are older.
EveryFlawNoticed == verdict = "pass" /\ lost = 0 /\ others = 0 => flaw = "none"
=============================================================================
