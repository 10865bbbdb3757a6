------------------------------ MODULE Dispatch ------------------------------
(***************************************************************************)
(* The SV-LLM handlers (internal/testrunner/handlers_m7_llm.go): dispatches*)
(* to the Runner's test-double adapter, synchronous or streamed, and what  *)
(* its log says of them afterwards.                                        *)
(*                                                                         *)
(* The tests share a session, kept for 55 minutes, and every request has   *)
(* one and the same correlation_id, so the log may hold earlier rows that  *)
(* look alike.  The Runner is external and has at most one flaw.  A stream *)
(* is emitted into `wire` while the handler reads it and, in SV-LLM-05,    *)
(* cancels it.                                                             *)
(***************************************************************************)
EXTENDS Integers, Sequences, FiniteSets

CONSTANTS
    Codes,          \* the provider errors SV-LLM-07 walks through
    Deltas,         \* the ContentBlockDelta events of a stream
    MaxLost,        \* bound: so many requests get no answer
    Paced           \* a delta is read, and a cancel heard, before the next one

Tests == {"03", "04", "05", "06", "07", "08", "10"}

\* The rules a Runner can break, with the tests documented to notice.
Covered(t) ==
    CASE t = "03" -> {"refuse"}
      [] t = "04" -> {"tag"}
      [] t = "05" -> {"deaf", "late", "natural", "errorRow"}
      [] t = "06" -> {"rowless", "unclassified", "codeless"}
      [] t = "07" -> {"miscoded", "unclassified"}
      [] t = "08" -> {"noStart", "noEnd", "plain"}
      [] t = "10" -> {"noStart", "noEnd", "twoStarts", "nested", "stray", "unclosed", "seq"}

\* Rules the tests' comments name and their checks do not reach: the rows of
\* SV-LLM-06 read the same in either order, and SV-LLM-05 accepts a log
\* without the row.
Unnoticed(t) ==
    CASE t = "05" -> {"rowless"} [] t = "06" -> {"oldestFirst"} [] OTHER -> {}

VARIABLES
    test, flaw, wired, prior,   \* the call, and the Runner it meets
    pc, step,                   \* "mint", "fallback", "preset", "script", "done"
    verdict,
    net, reply, lost,           \* "idle", "sent", "served", "streaming"
    behavior, log,              \* the Runner's test double, its rows newest first
    plan, wire, cancel,         \* the stream still to come, sent, and its cancel
    events                      \* what the handler read

vars == <<test, flaw, wired, prior, pc, step, verdict, net, reply, lost, behavior,
          log, plan, wire, cancel, events>>
call   == <<test, flaw, wired, prior>>
stream == <<plan, wire, cancel, events>>

\* An answer is a status or content type, a dispatch's record or the log's rows.
Says(a) == [status |-> a]
Silent  == Says("-")

-----------------------------------------------------------------------------
\* Scripts: what is sent, and the outcome of a transport error or refusal,
\* "go" when the handler does not look.

Set(b, bad)  == [do |-> "set", arg |-> b, bad |-> bad]
Post(t, bad) == [do |-> "post", arg |-> t, bad |-> bad]
Recent(bad)  == [do |-> "recent", arg |-> "-", bad |-> bad]
Stream(bad)  == [do |-> "stream", arg |-> "-", bad |-> bad]

Handler03 == <<Set("ok", "error"), Post("plain", "fail")>>
Handler04 == <<Set("ok", "error"), Post("tagged", "fail"), Recent("fail")>>
Handler05 == <<Set("stream", "skip"), Stream("error"), Recent("go")>>
\* Only the log is looked at, and it must begin ok, error, ok.
Handler06 == <<Set("ok", "go"), Post("plain", "go"), Set("ProviderAuthFailed", "go"),
               Post("plain", "go"), Set("ok", "go"), Post("plain", "go"), Recent("fail")>>
Handler07 == [i \in 1 .. 2 * Len(Codes) |->
    IF i % 2 = 1 THEN Set(Codes[(i + 1) \div 2], "error") ELSE Post(Codes[i \div 2], "fail")]
Handler08 == <<Set("stream", "skip"), Stream("error")>>
Handler10 == <<Set("stream", "skip"), Stream("error")>>

Script ==
    CASE test = "03" -> Handler03 [] test = "04" -> Handler04 [] test = "05" -> Handler05
      [] test = "06" -> Handler06 [] test = "07" -> Handler07 [] test = "08" -> Handler08
      [] test = "10" -> Handler10

Request ==
    CASE pc \in {"mint", "fallback"} -> [do |-> "mint", arg |-> "-", bad |-> "-"]
      [] pc = "preset" -> Set("ok", "error")
      [] OTHER -> Script[step]

-----------------------------------------------------------------------------
\* What the handlers require of a stream and of the log.

Of(t)    == {i \in DOMAIN events : events[i].typ = t}
Count(t) == Cardinality(Of(t))

\* The last end of the message names the reason.
StopsWith(reason) ==
    \E i \in Of("MessageEnd") : events[i].stop = reason /\ \A j \in Of("MessageEnd") : j <= i

\* No delta is read after the second, and the end names the interruption.
Interrupted == Count("Delta") <= 2 /\ StopsWith("UserInterrupt")

Framed == Count("MessageStart") > 0 /\ Count("MessageEnd") > 0 /\ reply # Says("plain")

\* SV-LLM-10: the numbers rise, and blocks open and close; blockOpen before event i.
Open(i) == \E j \in Of("BlockStart") : j < i /\ \A k \in Of("BlockEnd") : k <= j \/ k >= i
Follows(i) ==
    /\ events[i].seq > (IF i = 1 THEN -1 ELSE events[i - 1].seq)
    /\ i \in Of("BlockStart") => ~Open(i)
    /\ i \in Of("Delta") \cup Of("BlockEnd") => Open(i)

InSequence ==
    /\ \A i \in DOMAIN events : Follows(i)
    /\ Count("MessageStart") = 1 /\ Count("MessageEnd") = 1
    /\ Count("BlockStart") = Count("BlockEnd")

\* The newest row with the correlation_id, when there is one.
Cancelled(rows) == rows # <<>> => rows[1].stop = "UserInterrupt" /\ rows[1].code = "null"

Classified(rows) ==
    /\ Len(rows) >= 3
    /\ [i \in 1 .. 3 |-> rows[i].stop] = <<"NaturalStop", "DispatcherError", "NaturalStop">>
    /\ rows[2].code = "ProviderAuthFailed"

Accepts ==
    CASE Request.do = "post" /\ test = "03" -> reply.stop \in {"NaturalStop", "BudgetExhausted"}
      [] Request.do = "post" /\ test = "07" ->
           reply.stop = "DispatcherError" /\ reply.code = Request.arg
      [] Request.do = "recent" /\ test = "04" -> reply.rows # <<>> /\ reply.rows[1].tag = "tagged"
      [] Request.do = "recent" /\ test = "05" -> Cancelled(reply.rows)
      [] Request.do = "recent" /\ test = "06" -> Classified(reply.rows)
      [] OTHER -> TRUE

\* Of a stream, once it has ended.
AcceptsStream ==
    CASE test = "05" -> Interrupted [] test = "08" -> Framed [] test = "10" -> InSequence

-----------------------------------------------------------------------------
\* The Runner.

Row(stop, code, tag) == [stop |-> stop, code |-> code, tag |-> tag]

Dispatched(tag) ==
    IF flaw = "refuse" THEN Row("MaxTokens", "null", tag)
    ELSE IF behavior \in {"ok", "stream"}
    THEN Row("NaturalStop", "null", IF flaw = "tag" THEN "other" ELSE tag)
    ELSE Row(IF flaw = "unclassified" THEN "NaturalStop" ELSE "DispatcherError",
             CASE flaw = "miscoded" -> "ProviderUnavailable"
               [] flaw = "codeless" -> "null"
               [] OTHER -> behavior, tag)

\* A row is written for every dispatch, newest first.
Logged(row) ==
    CASE flaw = "rowless" /\ row.stop # "NaturalStop" -> log
      [] flaw = "oldestFirst" -> Append(log, row)
      [] OTHER -> <<row>> \o log

Event(t, n, stop) == [typ |-> t, seq |-> IF flaw = "seq" THEN n \div 2 ELSE n, stop |-> stop]

\* A whole stream, by its event types.
Body(n) == <<"BlockStart">> \o [i \in 1 .. n |-> "Delta"] \o <<"BlockEnd">>
Types ==
    (CASE flaw = "noStart" -> <<>> [] flaw = "twoStarts" -> <<"MessageStart", "MessageStart">>
       [] OTHER -> <<"MessageStart">>)
    \o (CASE flaw = "nested" -> <<"BlockStart">> \o Body(Deltas)
          [] flaw = "stray" -> <<"Delta">> \o Body(Deltas)
          [] flaw = "unclosed" -> SubSeq(Body(Deltas), 1, Deltas + 1)
          [] OTHER -> Body(Deltas))
    \o (IF flaw = "noEnd" THEN <<>> ELSE <<"MessageEnd">>)
Whole == [i \in 1 .. Len(Types) |-> Event(Types[i], i, "NaturalStop")]

\* What is left of a stream that was cancelled.
Rest(next) ==
    LET types == (IF flaw = "late" THEN <<"Delta">> ELSE <<>>) \o <<"BlockEnd", "MessageEnd">>
    IN [i \in 1 .. Len(types) |->
          Event(types[i], next + i, IF flaw = "natural" THEN "NaturalStop" ELSE "UserInterrupt")]

Mint ==
    /\ net = "sent" /\ Request.do = "mint"
    /\ net' = "served" /\ \E a \in {"created", "refused"} : reply' = Says(a)
    /\ UNCHANGED <<call, pc, step, verdict, lost, behavior, log, stream>>

SetBehavior ==
    /\ net = "sent" /\ Request.do = "set"
    /\ net' = "served" /\ reply' = Says(IF wired THEN "ok" ELSE "404")
    /\ behavior' = IF wired THEN Request.arg ELSE behavior
    /\ UNCHANGED <<call, pc, step, verdict, lost, log, stream>>

ServeDispatch ==
    /\ net = "sent" /\ Request.do = "post"
    /\ net' = "served" /\ reply' = Dispatched(Request.arg) /\ log' = Logged(reply')
    /\ UNCHANGED <<call, pc, step, verdict, lost, behavior, stream>>

ServeRecent ==
    /\ net = "sent" /\ Request.do = "recent"
    /\ net' = "served" /\ reply' = [rows |-> log]
    /\ UNCHANGED <<call, pc, step, verdict, lost, behavior, log, stream>>

OpenStream ==
    /\ net = "sent" /\ Request.do = "stream"
    /\ net' = "streaming" /\ plan' = Whole
    /\ reply' = Says(IF flaw = "plain" THEN "plain" ELSE "text/event-stream")
    /\ UNCHANGED <<call, pc, step, verdict, lost, behavior, log, wire, cancel, events>>

\* The next event; with the last one the row is written.
Emit ==
    /\ net = "streaming" /\ plan # <<>>
    /\ Paced /\ Head(plan).typ = "Delta" => wire = <<>> /\ cancel # "posted"
    /\ wire' = Append(wire, Head(plan)) /\ plan' = Tail(plan)
    /\ log' = IF plan' # <<>> THEN log
              ELSE Logged(Row(Head(plan).stop, IF flaw = "errorRow" THEN "Cancelled" ELSE "null", "plain"))
    /\ UNCHANGED <<call, pc, step, verdict, net, reply, lost, behavior, cancel, events>>

\* It hears the cancel; 202 while the stream is open.
HearCancel ==
    /\ cancel = "posted" /\ cancel' = "heard"
    /\ plan' = IF plan = <<>> \/ flaw = "deaf" THEN plan ELSE Rest(Len(Whole) - Len(plan))
    /\ UNCHANGED <<call, pc, step, verdict, net, reply, lost, behavior, log, wire, events>>

Runner == Mint \/ SetBehavior \/ ServeDispatch \/ ServeRecent \/ OpenStream \/ Emit \/ HearCancel

-----------------------------------------------------------------------------
\* The handler.

\* sharedBootstrap asks for a session unless an earlier test has left one, and
\* only such a session has rows of an earlier test.
Init ==
    /\ test \in Tests /\ flaw \in {"none"} \cup Covered(test) \cup Unnoticed(test)
    /\ wired \in BOOLEAN /\ prior \in BOOLEAN
    /\ log = IF prior THEN <<Row("NaturalStop", "null", "plain")>> ELSE <<>>
    /\ pc \in {"mint", "preset"} /\ (prior => pc = "preset")
    /\ step = 1 /\ verdict = "none"
    /\ net = "idle" /\ reply = Silent /\ lost = 0 /\ behavior = "ok"
    /\ plan = <<>> /\ wire = <<>> /\ cancel = "no" /\ events = <<>>

TypeOK ==
    /\ test \in Tests /\ flaw \in {"none"} \cup UNION {Covered(t) \cup Unnoticed(t) : t \in Tests}
    /\ pc \in {"mint", "fallback", "preset", "script", "done"} /\ step \in 1 .. Len(Script)
    /\ verdict \in {"none", "pass", "fail", "error", "skip"}
    /\ net \in {"idle", "sent", "served", "streaming"} /\ lost \in 0 .. MaxLost
    /\ cancel \in {"no", "posted", "heard", "answered"}

Ended == pc = "done"

Conclude(v) == pc' = "done" /\ verdict' = v /\ UNCHANGED step
GoOn == IF step = Len(Script) THEN Conclude("pass")
        ELSE step' = step + 1 /\ UNCHANGED <<pc, verdict>>

Send ==
    /\ ~Ended /\ net = "idle" /\ net' = "sent"
    /\ UNCHANGED <<call, pc, step, verdict, reply, lost, behavior, log, stream>>

\* Mutant: the behavior is set again until it is.
PrepareInsists(ok) ==
    CASE pc = "mint"     -> pc' = (IF ok THEN "preset" ELSE "fallback") /\ UNCHANGED <<step, verdict>>
      [] pc = "fallback" -> IF ok THEN pc' = "preset" /\ UNCHANGED <<step, verdict>> ELSE Conclude("skip")
      [] pc = "preset"   -> pc' = (IF ok THEN "script" ELSE "preset") /\ UNCHANGED <<step, verdict>>

\* runDispatchProbe: a session at the shared mode, else read-only, else skip;
\* then the behavior is set once, which 404 answers when there is no adapter.
Prepare(ok) ==
    CASE pc = "mint"     -> pc' = (IF ok THEN "preset" ELSE "fallback") /\ UNCHANGED <<step, verdict>>
      [] pc = "fallback" -> IF ok THEN pc' = "preset" /\ UNCHANGED <<step, verdict>> ELSE Conclude("skip")
      [] pc = "preset"   -> IF ok THEN pc' = "script" /\ UNCHANGED <<step, verdict>>
                            ELSE Conclude(IF reply = Says("404") THEN "skip" ELSE "error")

Refused(bad) == IF bad = "go" THEN GoOn ELSE Conclude(bad)

Take ==
    /\ net = "served" /\ net' = "idle" /\ reply' = Silent
    /\ IF pc # "script" THEN Prepare(reply \in {Says("created"), Says("ok")})
       ELSE IF Accepts THEN GoOn ELSE Conclude("fail")
    /\ UNCHANGED <<call, lost, behavior, log, stream>>

\* No answer: refused, broken off or timed out.  The handlers treat a refusal
\* by status the same way, so this also stands for a session kept from an
\* earlier test which the Runner no longer knows.
Lose ==
    /\ net \in {"sent", "served"} /\ lost < MaxLost
    /\ net' = "idle" /\ lost' = lost + 1 /\ reply' = Silent
    /\ IF pc # "script" THEN
         CASE pc = "preset" -> Conclude("error")
           [] OTHER -> Prepare(FALSE)
       ELSE Refused(Request.bad)
    /\ UNCHANGED <<call, behavior, log, stream>>

\* A frame; SV-LLM-05 posts its cancel on the second delta, and reads no
\* further before that has an answer.
Read ==
    /\ net = "streaming" /\ wire # <<>> /\ cancel \in {"no", "answered"}
    /\ events' = Append(events, Head(wire)) /\ wire' = Tail(wire)
    /\ cancel' = IF test = "05" /\ cancel = "no" /\ Head(wire).typ = "Delta" /\ Count("Delta") = 1
                 THEN "posted" ELSE cancel
    /\ UNCHANGED <<call, pc, step, verdict, net, reply, lost, behavior, log, plan>>

\* The answer, or none: it is not looked at.
CancelAnswered ==
    /\ \/ cancel = "heard" /\ UNCHANGED lost
       \/ cancel = "posted" /\ lost < MaxLost /\ lost' = lost + 1
    /\ cancel' = "answered"
    /\ UNCHANGED <<call, pc, step, verdict, net, reply, behavior, log, plan, wire, events>>

\* Any read error ends the stream: its proper end, or a broken connection (or
\* a refusal, whose body holds no event).
EndOfStream ==
    /\ net = "streaming" /\ wire = <<>> /\ cancel \in {"no", "answered"}
    /\ \/ plan = <<>> /\ UNCHANGED lost
       \/ plan # <<>> /\ lost < MaxLost /\ lost' = lost + 1
    /\ net' = "idle" /\ plan' = <<>> /\ reply' = Silent
    /\ IF AcceptsStream THEN GoOn ELSE Conclude("fail")
    /\ UNCHANGED <<call, behavior, log, wire, cancel, events>>

Handler == Send \/ Take \/ Lose \/ Read \/ CancelAnswered \/ EndOfStream
Next    == Handler \/ Runner

Spec == Init /\ [][Next]_vars /\ WF_vars(Handler) /\ WF_vars(Runner)

-----------------------------------------------------------------------------
\* A Runner that keeps every rule is not failed while its answers arrive and it
\* knows the session.
ConformingNeverFails == flaw = "none" /\ lost = 0 => verdict \notin {"fail", "error"}

\* A pass means that the Runner has none of the flaws the test notices.
PassIsEarned == verdict = "pass" /\ lost = 0 => flaw \notin Covered(test)

-----------------------------------------------------------------------------
\* Claims of the source that do not hold.

\* handlers_m7_llm.go:255 calls the deltas it counts "emitted AFTER cancel":
\* without Paced they may have been on their way when the cancel was heard.
CountedAfterCancel ==
    test = "05" /\ flaw = "none" /\ lost = 0 => verdict # "fail"

\* handlers_m7_llm.go:211 and :303 announce checks of the row and its place.
EveryFlawNoticed == verdict = "pass" /\ lost = 0 => flaw = "none"

\* A request without an answer costs an error, as in the A2A handlers.
LostIsError == flaw = "none" => verdict # "fail"
=============================================================================
