------------------------------- MODULE Checks -------------------------------
(***************************************************************************)
(* The checkers of the validator itself: HR-09 and HR-10 hold sidiff to    *)
(* two diffs each, HR-01 and HR-02 hold inittrust and crlstate to pinned   *)
(* vectors, SV-ENC-06 its own rule to four tokens (handlers.go,            *)
(* handlers_m3_v12.go, handlers_m3_v10.go).  Beside the handlers, the      *)
(* checkers are given whatever their callers may give them: a diff of one  *)
(* or two hunks, and a list or a token that is looked at again.            *)
(***************************************************************************)
EXTENDS SiDiff, Freshness

CONSTANTS
    MaxLength,      \* bound: lines of a range of a hunk
    Horizon         \* bound: the last time looked at

Tests == {"HR01", "HR02", "HR09", "HR10", "ENC06", "diff", "list", "token"}

VARIABLES test, mark, verdict

vars == <<test, mark, verdict>>

Hunk(from, path, old, olen, new, nlen) ==
    [from |-> from, path |-> path, old |-> old, olen |-> olen, new |-> new, nlen |-> nlen]

-----------------------------------------------------------------------------
\* HR-09 and HR-10: one edit that is to be accepted, one that is not.

Lines(n)   == [i \in 1 .. n |-> "line"]
entrypoint == Lines(4) \o <<"start">> \o Lines(5) \o <<"end">> \o Lines(9)
handleHR09 ==
    /\ ValidateDiff(entrypoint, <<Hunk("entry", "entry", 6, 3, 6, 3)>>) = "accepted"
    /\ ValidateDiff(entrypoint, <<Hunk("entry", "entry", 3, 1, 3, 2)>>) = "SelfImprovementRejected"
handleHR10 ==
    LET body == <<"start", "line", "end">>
    IN  /\ ValidateDiff(body, <<Hunk("task", "task", 1, 1, 1, 1)>>) = "ImmutableTargetEdit"
        /\ ValidateDiff(body, <<Hunk("entry", "entry", 2, 1, 2, 1)>>) = "accepted"

\* HR-01 judges its two bundles by the clock of the machine; the lists of HR-02
\* are fresh, stale and long past at the reference time.
handleHR01(bundle) ==
    /\ SemanticValidate(bundle.notAfter, bundle.now) = "accept"
    /\ SemanticValidate(0, bundle.now) = "bootstrap-expired"
handleHR02 ==
    LET reference == 4 * Hour
        vector(age) == [issued |-> reference - age, notAfter |-> 28 * Hour]
    IN  /\ Classify(vector(Hour), reference) = "fresh"
        /\ Classify(vector(2 * Hour), reference) = "stale-but-valid"
        /\ Classify([issued |-> 0, notAfter |-> 0], reference) = "expired"

\* Tokens issued at the reference time, long before and after it, and one that
\* was issued in time and has long expired.
handleSVENC06 ==
    LET reference == 20 * Skew
        fixture(iat, exp) == ClockSkew([iat |-> iat, exp |-> exp], reference)
    IN  /\ fixture(reference, 40 * Skew) = "accept"
        /\ fixture(10 * Skew, 40 * Skew) = "iat-past-skew"
        /\ fixture(30 * Skew, 40 * Skew) = "iat-future-skew"
        /\ fixture(reference, 10 * Skew) = "exp-expired"

-----------------------------------------------------------------------------
\* A file with its markers, one without the closing one, one with them in the
\* wrong order, and one with two opening ones.
Bodies == {<<"line", "start", "line", "line", "line", "end", "line">>,
           <<"start", "line", "line">>, <<"end", "line", "start">>, <<"start", "start", "line", "end">>}
\* What a diff tool prints: each hunk of a file is shifted by those before it.
HunksFrom(line, shift, body) ==
    {Hunk("entry", "entry", r.old, r.olen, r.old + shift, r.nlen) :
        r \in {t \in [old : line .. Len(body), olen : 1 .. MaxLength, nlen : 1 .. MaxLength] :
                 t.old + t.olen - 1 <= Len(body)}}
Firsts(body)     == HunksFrom(1, 0, body)
Seconds(body, h) == HunksFrom(h.old + h.olen, h.nlen - h.olen, body)
Others == {Hunk(file, file, 1, 1, 1, 1) : file \in {"nested", "task", "other"}}
          \cup {Hunk("task", "gone", 1, 1, 0, 0)}
Diffs(body) ==
    {<<>>, <<Hunk("entry", "none", 3, 1, 3, 1)>>, <<Hunk("entry", "gone", 1, Len(body), 0, 0)>>}
    \cup {<<h>> : h \in Firsts(body)}
    \cup (UNION {{<<h, k>> : k \in Seconds(body, h)} : h \in Firsts(body)})
    \cup {<<k, h>> : k \in Others, h \in Firsts(body)}
    \cup {<<h, k>> : k \in Others, h \in Firsts(body)}
Times == {Unparsed} \cup 0 .. Horizon

Init ==
    /\ test \in Tests /\ verdict = "none"
    /\ CASE test = "diff" -> \E body \in Bodies : \E diff \in Diffs(body) :
                                mark = [body |-> body, diff |-> diff]
         [] test = "list" -> mark \in [issued : Times, notAfter : Times, first : 0 .. Horizon,
                                       again : 0 .. Horizon]
         [] test = "token" -> mark \in [iat : 0 .. Horizon, exp : 0 .. Horizon, first : 0 .. Horizon,
                                        again : 0 .. Horizon]
         [] test = "HR01" -> mark \in [notAfter : {Absent, Horizon}, now : 0 .. Horizon]
         [] OTHER -> mark = <<>>

Passes(holds) == IF holds THEN "pass" ELSE "fail"

Handler ==
    /\ verdict = "none"
    /\ verdict' = CASE test = "diff" -> ValidateDiff(mark.body, mark.diff)
                    [] test = "list" -> Classify(mark, mark.again)
                    [] test = "token" -> ClockSkew(mark, mark.again)
                    [] test = "HR01" -> Passes(handleHR01(mark))
                    [] test = "HR02" -> Passes(handleHR02)
                    [] test = "HR09" -> Passes(handleHR09)
                    [] test = "HR10" -> Passes(handleHR10)
                    [] test = "ENC06" -> Passes(handleSVENC06)
    /\ UNCHANGED <<test, mark>>

Spec == Init /\ [][Handler]_vars

TypeOK ==
    /\ test \in Tests
    /\ verdict \in {"none", "pass", "fail", "accepted", "ImmutableTargetEdit", "SelfImprovementRejected",
                    "fresh", "stale-but-valid", "expired",
                    "accept", "iat-past-skew", "iat-future-skew", "exp-expired"}

Ended == verdict # "none"

-----------------------------------------------------------------------------
Checked(t) == Ended /\ test = t

\* What keeps the rule is not refused: a diff confined to the surface that ends, if it
\* adds lines, as many lines before the closing marker (it is refused otherwise:
\* ConfinedIsAccepted is false); a list that was fresh within the last hour, as
\* long as it lasts; a token issued within the skew and not expired by more; and
\* the handlers' own inputs, HR-01's while its bundle lasts.
ConformingNeverFails ==
    /\ Checked("diff") /\ ParseUnifiedDiff(mark.diff) /\ Confined(mark.body, mark.diff)
            /\ Bounded(mark.body, mark.diff) => verdict = "accepted"
    /\ Checked("list") /\ Classify(mark, mark.first) = "fresh" /\ mark.again < mark.notAfter
            /\ mark.again <= mark.first + Hour => Accept(verdict)
    /\ Checked("token") /\ mark.iat \in mark.again - Skew .. mark.again + Skew
            /\ mark.exp > mark.again - Skew => verdict = "accept"
    /\ Checked("HR01") /\ mark.now < Horizon => verdict = "pass"
    /\ verdict # "fail" \/ test = "HR01"

\* What is accepted is near the rule, and how near depends on the checker.  A diff
\* touches no task and nothing before the opening marker, and beyond the closing one
\* no more lines than it has removed by then: one that removes none stays inside, one
\* that does may take the marker with it (TouchesOnlySurface is false).  No list is
\* accepted again once it was not; and no token for longer than twice the skew,
\* whatever its expiry says.
PassIsEarned ==
    /\ Checked("diff") /\ verdict = "accepted" => Bounded(mark.body, mark.diff)
    /\ Checked("list") /\ Accept(verdict) /\ mark.first <= mark.again => Accept(Classify(mark, mark.first))
    /\ Checked("token") /\ verdict = "accept" /\ ClockSkew(mark, mark.first) = "accept" =>
            mark.again - mark.first <= 2 * Skew

-----------------------------------------------------------------------------
\* Claims of the source that do not hold.

\* "accept unified diffs whose hunks touch only bytes inside the EDITABLE SURFACES
\* span, reject anything else": a hunk that removes more lines than it adds, or one
\* that follows it, may reach beyond the closing marker.
TouchesOnlySurface ==
    Checked("diff") /\ OfEntrypoint(mark.diff) /\ verdict = "accepted" => Confined(mark.body, mark.diff)

\* Nor is a file that is removed looked at.
RemovalIsRefused ==
    Checked("diff") /\ (\E i \in DOMAIN mark.diff : mark.diff[i].path = "gone") => verdict # "accepted"

\* The other direction: lines added at the end of the surface are refused.
ConfinedIsAccepted ==
    Checked("diff") /\ ParseUnifiedDiff(mark.diff) /\ Confined(mark.body, mark.diff) => verdict = "accepted"

\* "fail fast with the sharper code": only if no hunk before it was refused.
SharperCode ==
    Checked("diff") /\ (\E i \in DOMAIN mark.diff : mark.diff[i].path = "task") => verdict = "ImmutableTargetEdit"

\* handlers_m3_v10.go:255: "accept when |iat - T_REF| <= 30s AND exp > T_REF - 30s":
\* also when it is equal.
GraceIsOpen ==
    Checked("token") =>
        (verdict = "accept" <=> /\ mark.iat \in mark.again - Skew .. mark.again + Skew
                                /\ mark.exp > mark.again - Skew)

\* The verdict of HR-01 does not depend on the day.
PinnedBundleLasts == Checked("HR01") => verdict = "pass"
=============================================================================
