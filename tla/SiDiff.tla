------------------------------- MODULE SiDiff -------------------------------
(***************************************************************************)
(* internal/sidiff: is a unified diff confined to the part of the          *)
(* entrypoint file between its two markers, and away from tasks/ ?         *)
(*                                                                         *)
(* A file is its lines, of which only the markers matter.  A diff is its   *)
(* hunks, each with the file it changes (from), the file its +++ line      *)
(* names (path), and the two line ranges of its header; neither is empty   *)
(* unless the file is removed.  The lines of a hunk's range are the lines  *)
(* it touches, its context included.                                       *)
(***************************************************************************)
EXTENDS Integers, Sequences

Marks(body, marker) == {i \in DOMAIN body : body[i] = marker}

\* Exactly one pair of markers, the opening one first.
HasSpan(body) ==
    \E s, e \in DOMAIN body : Marks(body, "start") = {s} /\ Marks(body, "end") = {e} /\ s < e

\* The first editable line, and the line of the closing marker.
FindEditableSpan(body) ==
    [Start |-> 1 + (CHOOSE i \in DOMAIN body : body[i] = "start"),
     End   |-> CHOOSE i \in DOMAIN body : body[i] = "end"]

\* A hunk before the first +++ line has no path; a removed file has /dev/null.
ParseUnifiedDiff(diff) == \A i \in DOMAIN diff : diff[i].path # "none"

ImmutableTargets == {"task"}
Entrypoints      == {"entry", "nested"}     \* a suffix of the path is enough

\* The range compared with the span of the old file is that of the new one.
Fits(start, length, span) == start >= span.Start /\ start + length <= span.End
InSpan(hunk, body) == HasSpan(body) /\ Fits(hunk.new, hunk.nlen, FindEditableSpan(body))

Verdict(body, hunk) ==
    CASE hunk.path \in ImmutableTargets -> "ImmutableTargetEdit"
      [] hunk.path \in Entrypoints /\ ~InSpan(hunk, body) -> "SelfImprovementRejected"
      [] OTHER -> "accepted"

\* The first hunk that is refused decides.
ValidateDiff(body, diff) ==
    LET refused == {i \in DOMAIN diff : Verdict(body, diff[i]) # "accepted"}
    IN  IF ~ParseUnifiedDiff(diff) THEN "SelfImprovementRejected"
        ELSE IF refused = {} THEN "accepted"
        ELSE Verdict(body, diff[CHOOSE i \in refused : \A j \in refused : i <= j])

-----------------------------------------------------------------------------
\* What the rule asks for: the old lines a diff touches are inside the markers,
\* and no task is touched.
Inside(hunk, body) == HasSpan(body) /\ Fits(hunk.old, hunk.olen, FindEditableSpan(body))
Confined(body, diff) ==
    \A i \in DOMAIN diff : /\ diff[i].from \notin ImmutableTargets
                           /\ diff[i].from \in Entrypoints => Inside(diff[i], body)

\* How many lines a diff has removed, less those it has added, at the end of a hunk.
Removed(hunk) == (hunk.old + hunk.olen) - (hunk.new + hunk.nlen)

\* What ValidateDiff ensures of the old lines instead: none is before the opening marker,
\* and the last is beyond the closing one by no more lines than the diff has removed
\* (before it by as many as the diff has added).  A removed file is not looked at.
Bounded(body, diff) ==
    \A i \in DOMAIN diff : diff[i].path # "gone" =>
        /\ diff[i].from \notin ImmutableTargets
        /\ diff[i].from \in Entrypoints =>
              HasSpan(body) /\ Fits(diff[i].old, diff[i].olen - Removed(diff[i]), FindEditableSpan(body))

\* The hunks of one file are in order, and the first has not been shifted.
Ordered(diff) ==
    /\ diff # <<>> => diff[1].new = diff[1].old
    /\ \A i \in DOMAIN diff : diff[1].old <= diff[i].old /\ diff[1].new <= diff[i].new
\* No hunk removes more lines than it adds, nor did those before it; or adds more.
Growing(diff)   == \A i \in DOMAIN diff : diff[i].nlen >= diff[i].olen /\ diff[i].new >= diff[i].old
Shrinking(diff) == \A i \in DOMAIN diff : diff[i].nlen <= diff[i].olen /\ diff[i].new <= diff[i].old
\* A diff of the entrypoint file.
OfEntrypoint(diff) == \A i \in DOMAIN diff : diff[i].from = "entry" /\ diff[i].path = "entry"
=============================================================================
