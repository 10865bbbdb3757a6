-------------------------- MODULE LiveCall_proofs --------------------------
(***************************************************************************)
(* What the handlers of LiveCall owe their caller, and the oracles their   *)
(* verdicts are only as good as: auditchain (HR-14), permresolve           *)
(* (SV-PERM-01), sidiff (HR-09, HR-10) and crlstate (HR-02, SV-ENC-06),    *)
(* which are functions of their input; the checks of those (Checks); the   *)
(* conversations of the SV-A2A and the SV-LLM handlers (Handoff, Dispatch);*)
(* and the rounds of the handlers that observe (Observe).                  *)
(***************************************************************************)
EXTENDS LiveCall, FiniteSetTheorems, SequenceTheorems, AuditChain, PermResolve, WellFoundedInduction, TLAPS

-----------------------------------------------------------------------------
(***************************************************************************)
(* A single tampering of a chain that verifies is found, and at its own    *)
(* index: the second half of HR-14 (handlers.go:2595-2609) can fail for no *)
(* Runner that passed the first, so HR-14's verdict on a Runner is that    *)
(* its own chain verifies.                                                 *)
(***************************************************************************)
\* Rows whose hashes are drawn from any set.
Rows(Hash) == Seq([prev : Hash, hash : Hash])

\* A set of natural numbers has a least element: a break in a chain a first, a
\* refused hunk of a diff too.
LEMMA LeastExists ==
    ASSUME NEW S, S \subseteq Nat, S # {}
    PROVE  \E i \in S : \A j \in S : i <= j
<1>1. PICK i \in S : \A j \in S : <<j, i>> \notin OpToRel(<, Nat)
  BY NatLessThanWellFounded, WFMin
<1>2. \A j \in S : ~(j < i)
  BY <1>1 DEF OpToRel
<1>3. \A j \in S : i <= j
  BY <1>2
<1> QED
  BY <1>3

\* Tampering touches one field of one row.
LEMMA TamperedFields ==
    ASSUME NEW Hash, NEW records \in Rows(Hash), NEW idx \in 1 .. Len(records)
    PROVE  /\ DOMAIN Tamper(records, idx) = 1 .. Len(records)
           /\ Len(Tamper(records, idx)) = Len(records)
           /\ Tamper(records, idx)[idx].prev # records[idx].prev
           /\ \A i \in 1 .. Len(records) :
                /\ Tamper(records, idx)[i].hash = records[i].hash
                /\ i # idx => Tamper(records, idx)[i].prev = records[i].prev
<1> DEFINE forged == IF records[idx].prev = "000" THEN "fff" ELSE "000"
           t      == [records EXCEPT ![idx].prev = forged]
<1>1. Tamper(records, idx) = t
  BY DEF Tamper
<1>2. /\ records \in [1 .. Len(records) -> [prev : Hash, hash : Hash]]
      /\ Len(records) \in Nat
  <2> DEFINE Row == [prev : Hash, hash : Hash]
  <2>1. records \in Seq(Row)
    BY DEF Rows
  <2> HIDE DEF Row
  <2>2. records \in [1 .. Len(records) -> Row] /\ Len(records) \in Nat
    BY <2>1
  <2> QED
    BY <2>2 DEF Row
<1>3. DOMAIN t = 1 .. Len(records)
  BY <1>2
<1>4. Len(t) = Len(records)
  BY <1>2, <1>3
<1>5. forged # records[idx].prev
  OBVIOUS
<1>6. t[idx] = [records[idx] EXCEPT !.prev = forged]
  BY <1>2
<1>7. /\ t[idx].prev = forged
      /\ t[idx].hash = records[idx].hash
  BY <1>2, <1>6
<1>8. \A i \in 1 .. Len(records) : i # idx => t[i] = records[i]
  BY <1>2
<1> HIDE DEF t, forged
<1> QED
  BY <1>1, <1>3, <1>4, <1>5, <1>7, <1>8

\* Every row but the forged one names the hash it named, and is named as it was.
LEMMA TamperBreaks ==
    ASSUME NEW Hash, NEW records \in Rows(Hash), NEW idx \in 1 .. Len(records),
           Breaks(records) = {}
    PROVE  Breaks(Tamper(records, idx)) = {idx}
<1> DEFINE t == Tamper(records, idx)
<1>1. Len(records) \in Nat
  BY DEF Rows
<1>2. \A i \in 1 .. Len(records) : Expected(t, i) = Expected(records, i)
  <2> SUFFICES ASSUME NEW i \in 1 .. Len(records)
               PROVE  Expected(t, i) = Expected(records, i)
    OBVIOUS
  <2>1. CASE i = 1
    BY <2>1 DEF Expected
  <2>2. CASE i # 1
    <3>1. i - 1 \in 1 .. Len(records)
      BY <1>1, <2>2
    <3>2. t[i - 1].hash = records[i - 1].hash
      BY <3>1, TamperedFields
    <3> QED
      BY <2>2, <3>2 DEF Expected
  <2> QED
    BY <2>1, <2>2
<1>3. \A i \in 1 .. Len(records) : records[i].prev = Expected(records, i)
  BY DEF Breaks
<1>4. \A i \in 1 .. Len(records) : t[i].prev # Expected(t, i) <=> i = idx
  BY <1>2, <1>3, TamperedFields
<1>5. Len(t) = Len(records)
  BY TamperedFields
<1> QED
  BY <1>4, <1>5 DEF Breaks

\* HR-14's tamper check: a break is found, and it is where the row was forged.
THEOREM TamperIsFoundInPlace ==
    ASSUME NEW Hash, NEW records \in Rows(Hash), NEW idx \in 1 .. Len(records),
           VerifyChain(records) = 0
    PROVE  VerifyChain(Tamper(records, idx)) = idx
<1>1. Breaks(records) = {}
  <2> SUFFICES ASSUME Breaks(records) # {}
               PROVE  FALSE
    OBVIOUS
  <2>1. Len(records) \in Nat
    BY DEF Rows
  <2>2. Breaks(records) \subseteq Nat \ {0}
    BY <2>1 DEF Breaks
  <2>3. \E i \in Breaks(records) : \A j \in Breaks(records) : i <= j
    BY <2>2, LeastExists
  <2>4. VerifyChain(records) \in Breaks(records)
    BY <2>3 DEF VerifyChain
  <2> QED
    BY <2>2, <2>4
<1>2. Breaks(Tamper(records, idx)) = {idx}
  BY <1>1, TamperBreaks
<1>3. idx \in Nat /\ \A j \in {idx} : idx <= j
  BY DEF Rows
<1> QED
  BY <1>2, <1>3 DEF VerifyChain

-----------------------------------------------------------------------------
(***************************************************************************)
(* What the oracle of the permission tests promises of every cell: an      *)
(* Agent Card can only tighten a tool's control, and a session of less     *)
(* capability is never given more than one of greater capability.          *)
(***************************************************************************)
\* How much a decision leaves to the caller; a refusal leaves nothing.
Leniency(d) == IF d \in Controls THEN 3 - controlStrictness(d) ELSE 0

Below(cap, other) ==
    \A risk \in Risks : capabilityAllowsRisk(cap, risk) => capabilityAllowsRisk(other, risk)

\* The three capabilities are ordered by the risks they allow.
LEMMA CapabilitiesAreOrdered ==
    ASSUME NEW cap \in Capabilities, NEW other \in Capabilities
    PROVE  Below(cap, other) \/ Below(other, cap)
BY DEF Below, Capabilities, Risks, capabilityAllowsRisk

\* Whatever the card says, the decision is no more lenient than the registry's
\* default control, nor than the card's own; permresolve.go:95, "tighten-only".
THEOREM ResolveTightens ==
    ASSUME NEW risk \in Risks, NEW default \in Controls,
           NEW cap \in Capabilities, NEW override \in Controls \cup {None}
    PROVE  LET d == Resolve(risk, default, cap, override)
           IN /\ d \in Decisions
              /\ Leniency(d) <= Leniency(default)
              /\ override # None => Leniency(d) <= Leniency(override)
<1> DEFINE d == Resolve(risk, default, cap, override)
<1>1. CASE d \notin Controls
  <2>1. d \in {"CapabilityDenied", "ConfigPrecedenceViolation"}
    BY <1>1 DEF Resolve, None
  <2>2. \A c \in Controls : Leniency(c) \in 1 .. 3
    BY DEF Leniency, Controls, controlStrictness
  <2>3. Leniency(d) = 0
    BY <1>1 DEF Leniency
  <2> QED
    BY <2>1, <2>2, <2>3 DEF Decisions
<1>2. CASE d \in Controls
  <2>1. d = default \/ d = override
    BY <1>2 DEF Resolve, Controls
  <2>2. controlStrictness(default) <= controlStrictness(d)
    BY <1>2 DEF Resolve, Controls, controlStrictness, None
  <2>3. override # None => d = override
    BY <1>2 DEF Resolve, Controls
  <2>4. Leniency(d) <= Leniency(default)
    BY <1>2, <2>2 DEF Leniency, Controls, controlStrictness
  <2>5. override # None => Leniency(d) <= Leniency(override)
    BY <2>3 DEF Leniency, Controls, controlStrictness
  <2> QED
    BY <1>2, <2>4, <2>5 DEF Decisions
<1> QED
  BY <1>1, <1>2

\* Of two sessions, the one that may do less is never decided more leniently;
\* SV-PERM-01 sweeps the three of them over the same tools.
THEOREM ResolveIsMonotone ==
    ASSUME NEW risk \in Risks, NEW default \in Controls, NEW override \in Controls \cup {None},
           NEW cap \in Capabilities, NEW other \in Capabilities, Below(cap, other)
    PROVE  Leniency(Resolve(risk, default, cap, override))
             <= Leniency(Resolve(risk, default, other, override))
<1>1. CASE capabilityAllowsRisk(cap, risk)
  <2>1. capabilityAllowsRisk(other, risk)
    BY <1>1 DEF Below
  <2>2. Resolve(risk, default, cap, override) = Resolve(risk, default, other, override)
    BY <1>1, <2>1 DEF Resolve
  <2>3. Leniency(Resolve(risk, default, other, override)) \in Nat
    BY DEF Leniency, Controls, controlStrictness
  <2> QED
    BY <2>2, <2>3
<1>2. CASE ~capabilityAllowsRisk(cap, risk)
  <2>1. Leniency(Resolve(risk, default, cap, override)) = 0
    BY <1>2 DEF Resolve, Leniency, Controls
  <2>2. Leniency(Resolve(risk, default, other, override)) >= 0
    BY DEF Leniency, Controls, controlStrictness
  <2> QED
    BY <2>1, <2>2
<1> QED
  BY <1>1, <1>2

-----------------------------------------------------------------------------
(***************************************************************************)
(* What sidiff's check is worth for a diff with any number of hunks, of    *)
(* any lengths, and what crlstate's states promise a caller that looks at  *)
(* its list again: for every file, diff, list and clock.                   *)
(***************************************************************************)
HunkType(Name) == [from : Name, path : Name, old : Nat, olen : Nat, new : Nat, nlen : Nat]

\* The numbers of a hunk's header are naturals.
LEMMA HunkFields ==
    ASSUME NEW Name, NEW h \in HunkType(Name)
    PROVE  h.old \in Nat /\ h.olen \in Nat /\ h.new \in Nat /\ h.nlen \in Nat
BY DEF HunkType

\* So are those of each hunk of a diff.
LEMMA HunksTyped ==
    ASSUME NEW Name, NEW diff \in Seq(HunkType(Name)), NEW i \in DOMAIN diff
    PROVE  /\ diff[i] \in HunkType(Name)
           /\ diff[i].old \in Nat /\ diff[i].olen \in Nat /\ diff[i].new \in Nat /\ diff[i].nlen \in Nat
<1>1. diff[i] \in HunkType(Name)
  OBVIOUS
<1> QED BY <1>1, HunkFields

\* A hunk behind another and shifted by it begins no earlier in the new file.
LEMMA ShiftedAlike ==
    ASSUME NEW first \in Nat, NEW olen \in Nat, NEW nlen \in Nat, NEW old \in Nat, NEW new \in Nat,
           NEW start \in Nat, first >= start, old >= first + olen, new = old + nlen - olen
    PROVE  new >= start /\ old >= start
OBVIOUS

\* A diff is accepted exactly when it has no hunk that is refused and no hunk
\* before its first +++ line.
LEMMA AcceptedHunks ==
    ASSUME NEW Name, NEW body, NEW diff \in Seq(HunkType(Name))
    PROVE  C!ValidateDiff(body, diff) = "accepted"
           <=> C!ParseUnifiedDiff(diff) /\ \A i \in DOMAIN diff : C!Verdict(body, diff[i]) = "accepted"
<1> DEFINE refused == {i \in DOMAIN diff : C!Verdict(body, diff[i]) # "accepted"}
           first   == CHOOSE i \in refused : \A j \in refused : i <= j
<1>1. CASE ~C!ParseUnifiedDiff(diff)
  BY <1>1 DEF C!ValidateDiff
<1>2. CASE C!ParseUnifiedDiff(diff) /\ refused = {}
  BY <1>2 DEF C!ValidateDiff
<1>3. CASE C!ParseUnifiedDiff(diff) /\ refused # {}
  <2>1. refused \in SUBSET Nat
    OBVIOUS
  <2>2. \E i \in refused : \A j \in refused : i <= j
    BY <1>3, <2>1, LeastExists
  <2>3. first \in refused
    BY <2>2
  <2>4. C!ValidateDiff(body, diff) = C!Verdict(body, diff[first])
    BY <1>3 DEF C!ValidateDiff
  <2> QED BY <2>3, <2>4
<1> QED BY <1>1, <1>2, <1>3

\* The span of a file with one pair of markers is a pair of line numbers.
LEMMA SpanType ==
    ASSUME NEW Text, NEW body \in Seq(Text), C!HasSpan(body)
    PROVE  C!FindEditableSpan(body) \in [Start : Nat, End : Nat]
<1>1. PICK s, e \in DOMAIN body : C!Marks(body, "start") = {s} /\ C!Marks(body, "end") = {e}
  BY DEF C!HasSpan
<1>2. \E i \in DOMAIN body : body[i] = "start"
  BY <1>1 DEF C!Marks
<1>3. \E i \in DOMAIN body : body[i] = "end"
  BY <1>1 DEF C!Marks
<1>4. DOMAIN body \subseteq Nat
  OBVIOUS
<1> QED BY <1>2, <1>3, <1>4 DEF C!FindEditableSpan

\* The lines a hunk touches, by the numbers of its header: those of the new file are in
\* the span exactly when those of the old one are, less what the diff has removed.
LEMMA OldAndNew ==
    ASSUME NEW Text, NEW Name, NEW body \in Seq(Text), NEW h \in HunkType(Name), C!HasSpan(body),
           (h.new >= C!FindEditableSpan(body).Start) <=> (h.old >= C!FindEditableSpan(body).Start)
    PROVE  C!InSpan(h, body) <=> C!Fits(h.old, h.olen - C!Removed(h), C!FindEditableSpan(body))
<1> DEFINE span == C!FindEditableSpan(body)
<1>1. span \in [Start : Nat, End : Nat]
  BY SpanType
<1>2. h.old \in Nat /\ h.olen \in Nat /\ h.new \in Nat /\ h.nlen \in Nat
  BY HunkFields
<1> HIDE DEF span
<1>3. h.old + (h.olen - C!Removed(h)) = h.new + h.nlen
  BY <1>2 DEF C!Removed
<1> QED BY <1>3 DEF C!InSpan, C!Fits, span

\* A diff of the entrypoint file, of any number of hunks, is accepted exactly when every
\* old line it touches is after the opening marker and none is further beyond the
\* closing one than the diff has removed lines by then: the rule of sidiff.go:1-3 but
\* for those lines.
THEOREM AcceptedIsBounded ==
    ASSUME NEW Text, NEW Name, NEW body \in Seq(Text), NEW diff \in Seq(HunkType(Name)),
           C!OfEntrypoint(diff), C!Ordered(diff)
    PROVE  C!ValidateDiff(body, diff) = "accepted" <=> C!Bounded(body, diff)
<1> DEFINE span == C!FindEditableSpan(body)
           fits(h) == C!Fits(h.old, h.olen - C!Removed(h), span)
<1>1. C!ValidateDiff(body, diff) = "accepted" <=> \A i \in DOMAIN diff : C!InSpan(diff[i], body)
  <2>1. C!ParseUnifiedDiff(diff)
    BY DEF C!ParseUnifiedDiff, C!OfEntrypoint
  <2>2. \A i \in DOMAIN diff : C!Verdict(body, diff[i]) = "accepted" <=> C!InSpan(diff[i], body)
    BY DEF C!Verdict, C!OfEntrypoint, C!Entrypoints, C!ImmutableTargets
  <2> QED BY <2>1, <2>2, AcceptedHunks
<1>2. C!Bounded(body, diff) <=> \A i \in DOMAIN diff : C!HasSpan(body) /\ fits(diff[i])
  BY DEF C!Bounded, C!OfEntrypoint, C!Entrypoints, C!ImmutableTargets
<1>3. CASE diff = <<>> \/ ~C!HasSpan(body)
  BY <1>1, <1>2, <1>3 DEF C!InSpan
<1>4. CASE diff # <<>> /\ C!HasSpan(body)
  <2>1. span \in [Start : Nat, End : Nat]
    BY <1>4, SpanType
  <2>2. 1 \in DOMAIN diff /\ diff[1].new = diff[1].old /\ diff[1].old \in Nat
    <3>1. 1 \in DOMAIN diff
      BY <1>4
    <3>2. diff[1].new = diff[1].old
      BY <1>4 DEF C!Ordered
    <3> QED BY <3>1, <3>2, HunksTyped
  <2>3. ASSUME NEW i \in DOMAIN diff, span.Start <= diff[1].old
        PROVE  C!InSpan(diff[i], body) <=> fits(diff[i])
    <3>1. diff[i] \in HunkType(Name) /\ diff[i].old \in Nat /\ diff[i].new \in Nat
      BY HunksTyped
    <3>2. diff[1].old <= diff[i].old /\ diff[1].new <= diff[i].new
      BY DEF C!Ordered
    <3> HIDE DEF span
    <3>3. diff[i].new >= span.Start /\ diff[i].old >= span.Start
      BY <2>1, <2>2, <2>3, <3>1, <3>2
    <3> QED BY <1>4, <3>1, <3>3, OldAndNew DEF span
  <2>4. (\A i \in DOMAIN diff : C!InSpan(diff[i], body)) => span.Start <= diff[1].old
    BY <2>1, <2>2 DEF C!InSpan, C!Fits
  <2>5. (\A i \in DOMAIN diff : fits(diff[i])) => span.Start <= diff[1].old
    BY <2>1, <2>2 DEF C!Fits
  <2> HIDE DEF span, fits
  <2> QED BY <1>1, <1>2, <1>4, <2>3, <2>4, <2>5
<1> QED BY <1>3, <1>4

\* So one none of whose hunks removes more lines than it adds is accepted only if every
\* line it touches is between the markers: there sidiff.go:1-3 holds.
THEOREM GrowingStaysInside ==
    ASSUME NEW Text, NEW Name, NEW body \in Seq(Text), NEW diff \in Seq(HunkType(Name)),
           C!OfEntrypoint(diff), C!Ordered(diff), C!Growing(diff),
           C!ValidateDiff(body, diff) = "accepted"
    PROVE  C!Confined(body, diff)
<1>1. C!Bounded(body, diff)
  BY AcceptedIsBounded
<1> SUFFICES ASSUME NEW i \in DOMAIN diff
             PROVE  C!Inside(diff[i], body)
  BY DEF C!Confined, C!OfEntrypoint, C!ImmutableTargets
<1> DEFINE span == C!FindEditableSpan(body)
<1>2. C!HasSpan(body) /\ C!Fits(diff[i].old, diff[i].olen - C!Removed(diff[i]), span)
  BY <1>1 DEF C!Bounded, C!OfEntrypoint, C!Entrypoints
<1>3. span \in [Start : Nat, End : Nat]
  BY <1>2, SpanType
<1>4. /\ diff[i].old \in Nat /\ diff[i].olen \in Nat /\ diff[i].new \in Nat /\ diff[i].nlen \in Nat
      /\ diff[i].nlen >= diff[i].olen /\ diff[i].new >= diff[i].old
  <2>1. diff[i].nlen >= diff[i].olen /\ diff[i].new >= diff[i].old
    BY DEF C!Growing
  <2> QED BY <2>1, HunksTyped
<1> HIDE DEF span
<1>5. C!Fits(diff[i].old, diff[i].olen, span)
  BY <1>2, <1>3, <1>4 DEF C!Fits, C!Removed
<1> QED BY <1>2, <1>5 DEF C!Inside, span

\* And one none of whose hunks adds more lines than it removes is accepted if
\* every line it touches is between the markers; so for edits that keep the
\* number of lines the check is exact.
THEOREM ShrinkingIsAccepted ==
    ASSUME NEW Text, NEW Name, NEW body \in Seq(Text), NEW diff \in Seq(HunkType(Name)),
           C!OfEntrypoint(diff), C!Ordered(diff), C!Shrinking(diff), C!Confined(body, diff)
    PROVE  C!ValidateDiff(body, diff) = "accepted"
<1> DEFINE span == C!FindEditableSpan(body)
<1>1. ASSUME NEW i \in DOMAIN diff
      PROVE  C!HasSpan(body) /\ C!Fits(diff[i].old, diff[i].olen - C!Removed(diff[i]), span)
  <2>1. C!HasSpan(body) /\ C!Fits(diff[i].old, diff[i].olen, span)
    BY DEF C!Confined, C!OfEntrypoint, C!Entrypoints, C!Inside
  <2>2. span \in [Start : Nat, End : Nat]
    BY <2>1, SpanType
  <2>3. /\ diff[i].old \in Nat /\ diff[i].olen \in Nat /\ diff[i].new \in Nat /\ diff[i].nlen \in Nat
        /\ diff[i].nlen <= diff[i].olen /\ diff[i].new <= diff[i].old
    <3>1. diff[i].nlen <= diff[i].olen /\ diff[i].new <= diff[i].old
      BY DEF C!Shrinking
    <3> QED BY <3>1, HunksTyped
  <2> HIDE DEF span
  <2>4. C!Fits(diff[i].old, diff[i].olen - C!Removed(diff[i]), span)
    BY <2>1, <2>2, <2>3 DEF C!Fits, C!Removed
  <2> QED BY <2>1, <2>4
<1>2. C!Bounded(body, diff)
  BY <1>1 DEF C!Bounded, C!OfEntrypoint, C!ImmutableTargets
<1> QED BY <1>2, AcceptedIsBounded

-----------------------------------------------------------------------------
CRL == [issued : Nat \cup {C!Unparsed}, notAfter : Nat \cup {C!Unparsed}]

\* A caller that was told "fresh" and looks again within an hour is not refused
\* while the list lasts: it is asked to refresh before it has to refuse.
THEOREM RefreshBeforeRefusal ==
    ASSUME Hour \in Nat, NEW crl \in CRL, NEW earlier \in Nat, NEW later \in earlier .. earlier + Hour,
           C!Classify(crl, earlier) = "fresh", later < crl.notAfter
    PROVE  C!Accept(C!Classify(crl, later))
BY DEF CRL, C!Classify, C!Accept, C!Unparsed, C!DefaultRefreshInterval, C!HardStaleCeiling

\* A list never gets better by waiting: refused once, it is refused for good, and
\* fresh again it is never.
THEOREM FreshnessOnlyFades ==
    ASSUME Hour \in Nat, NEW crl \in CRL, NEW earlier \in Nat, NEW later \in Nat, earlier <= later
    PROVE  /\ C!Accept(C!Classify(crl, later)) => C!Accept(C!Classify(crl, earlier))
           /\ C!Classify(crl, later) = "fresh" => C!Classify(crl, earlier) = "fresh"
BY DEF CRL, C!Classify, C!Accept, C!Unparsed, C!DefaultRefreshInterval, C!HardStaleCeiling

\* A token that is accepted at two times is so within twice the skew: its lifetime
\* is bounded by its time of issue, whatever its expiry says.
THEOREM AcceptanceIsBrief ==
    ASSUME Skew \in Nat, NEW token \in [iat : Nat, exp : Nat], NEW earlier \in Nat, NEW later \in Nat,
           C!ClockSkew(token, earlier) = "accept", C!ClockSkew(token, later) = "accept"
    PROVE  later - earlier <= 2 * Skew
BY DEF C!ClockSkew

-----------------------------------------------------------------------------
(***************************************************************************)
(* The checks as they are called: HR-01, HR-02, HR-09, HR-10 and SV-ENC-06 *)
(* on their own inputs, and the checkers on every input of a bound, for    *)
(* every value of the bounds.                                              *)
(***************************************************************************)
\* What the handler's call of a checker comes to.
CheckAnswer ==
    CASE test = "diff" -> C!ValidateDiff(mark.body, mark.diff)
      [] test = "list" -> C!Classify(mark, mark.again)
      [] test = "token" -> C!ClockSkew(mark, mark.again)
      [] test = "HR01" -> C!Passes(C!handleHR01(mark))
      [] test = "HR02" -> C!Passes(C!handleHR02)
      [] test = "HR09" -> C!Passes(C!handleHR09)
      [] test = "HR10" -> C!Passes(C!handleHR10)
      [] test = "ENC06" -> C!Passes(C!handleSVENC06)

\* What a checker is given, and what it has made of it.
CheckInv ==
    /\ test \in C!Tests
    /\ test = "diff" => \E body \in C!Bodies : \E diff \in C!Diffs(body) : mark = [body |-> body, diff |-> diff]
    /\ test = "list" => mark \in [issued : C!Times, notAfter : C!Times, first : 0 .. Horizon, again : 0 .. Horizon]
    /\ test = "token" => mark \in [iat : 0 .. Horizon, exp : 0 .. Horizon, first : 0 .. Horizon, again : 0 .. Horizon]
    /\ test = "HR01" => mark \in [notAfter : {C!Absent, Horizon}, now : 0 .. Horizon]
    /\ verdict \in {"none", CheckAnswer}

\* The files the diffs name.
Names == {"entry", "nested", "task", "other", "none", "gone"}

\* The hunks a diff tool and its caller put together: what is named and where it
\* is, and by how much the hunk before it in the file has shifted it.
Sane(diff, i) ==
    /\ diff[i] \in HunkType(Names)
    /\ \/ diff[i].path = "none"
       \/ diff[i].path = "gone" /\ diff[i].nlen < diff[i].olen
       \/ diff[i].path = diff[i].from /\ diff[i].path \in {"entry", "nested", "task", "other"}
    /\ diff[i].path \in C!Entrypoints =>
         \/ diff[i].new = diff[i].old
         \/ /\ diff[1] \in HunkType(Names) /\ diff[1].path = "entry" /\ diff[1].from = "entry" /\ diff[1].new = diff[1].old
            /\ diff[i].old >= diff[1].old + diff[1].olen
            /\ diff[i].new = diff[i].old + diff[1].nlen - diff[1].olen

\* A hunk of a file, shifted.
LEMMA HunksOfFile ==
    ASSUME NEW body \in C!Bodies, NEW line \in Nat \ {0}, NEW shift \in Int, NEW h \in C!HunksFrom(line, shift, body)
    PROVE  /\ h.from = "entry" /\ h.path = "entry" /\ h.old \in Nat /\ h.old >= line
           /\ h.olen \in Nat \ {0} /\ h.nlen \in Nat \ {0} /\ h.new = h.old + shift
           /\ h = [from |-> "entry", path |-> "entry", old |-> h.old, olen |-> h.olen, new |-> h.new, nlen |-> h.nlen]
<1>1. MaxLength \in Nat \ {0}
  BY LiveCallAssumption
<1>2. PICK r \in [old : line .. Len(body), olen : 1 .. MaxLength, nlen : 1 .. MaxLength] :
        h = C!Hunk("entry", "entry", r.old, r.olen, r.old + shift, r.nlen)
  BY DEF C!HunksFrom
<1>3. Len(body) \in Nat
  BY DEF C!Bodies
<1> QED BY <1>1, <1>2, <1>3 DEF C!Hunk

\* A record of names and numbers is a hunk.
LEMMA Hunks ==
    ASSUME NEW h, NEW o \in Nat, NEW ol \in Nat, NEW n \in Nat, NEW nl \in Nat,
           NEW f \in {"entry", "nested", "task", "other"},
           NEW p \in {"entry", "nested", "task", "other", "none", "gone"},
           h = [from |-> f, path |-> p, old |-> o, olen |-> ol, new |-> n, nlen |-> nl]
    PROVE  h \in HunkType(Names)
<1>1. f \in Names /\ p \in Names
  BY DEF Names
<1> HIDE DEF Names
<1> QED BY <1>1 DEF HunkType

\* The first hunk of a file has not been shifted, and the second by the first.
LEMMA FirstHunk ==
    ASSUME NEW body \in C!Bodies, NEW h \in C!Firsts(body)
    PROVE  h \in HunkType(Names) /\ h.path = "entry" /\ h.from = "entry" /\ h.new = h.old
<1>1. h \in C!HunksFrom(1, 0, body)
  BY DEF C!Firsts
<1>2. /\ h.from = "entry" /\ h.path = "entry" /\ h.old \in Nat /\ h.olen \in Nat \ {0}
      /\ h.nlen \in Nat \ {0} /\ h.new = h.old + 0
      /\ h = [from |-> "entry", path |-> "entry", old |-> h.old, olen |-> h.olen, new |-> h.new, nlen |-> h.nlen]
  <2>1. 1 \in Nat \ {0} /\ 0 \in Int
    OBVIOUS
  <2> HIDE DEF HunkType
  <2> QED BY <1>1, <2>1, HunksOfFile
<1>3. h.new = h.old
  BY <1>2
<1>4. h \in HunkType(Names)
  BY <1>2, <1>3, Hunks
<1> QED BY <1>2, <1>3, <1>4

\* See FirstHunk.
LEMMA SecondHunk ==
    ASSUME NEW body \in C!Bodies, NEW h \in C!Firsts(body), NEW k \in C!Seconds(body, h)
    PROVE  /\ k \in HunkType(Names) /\ k.path = "entry" /\ k.from = "entry"
           /\ k.old >= h.old + h.olen /\ k.new = k.old + h.nlen - h.olen
<1>1. h \in C!HunksFrom(1, 0, body) /\ k \in C!HunksFrom(h.old + h.olen, h.nlen - h.olen, body)
  BY DEF C!Firsts, C!Seconds
<1>2. h.old \in Nat /\ h.olen \in Nat \ {0} /\ h.nlen \in Nat \ {0}
  BY <1>1, HunksOfFile
<1>3. h.old + h.olen \in Nat \ {0} /\ h.nlen - h.olen \in Int
  BY <1>2
<1>4. /\ k.from = "entry" /\ k.path = "entry" /\ k.old \in Nat /\ k.old >= h.old + h.olen
      /\ k.olen \in Nat \ {0} /\ k.nlen \in Nat \ {0} /\ k.new = k.old + (h.nlen - h.olen)
      /\ k = [from |-> "entry", path |-> "entry", old |-> k.old, olen |-> k.olen, new |-> k.new, nlen |-> k.nlen]
  BY <1>1, <1>3, HunksOfFile
<1>5. k.new \in Nat
  BY <1>2, <1>4
<1>6. k \in HunkType(Names)
  BY <1>4, <1>5, Hunks
<1>7. k.new = k.old + h.nlen - h.olen
  BY <1>2, <1>4
<1> QED BY <1>4, <1>6, <1>7

\* The hunks of other files.
LEMMA OtherHunk ==
    ASSUME NEW k \in C!Others
    PROVE  /\ k \in HunkType(Names)
           /\ \/ k.path = "gone" /\ k.nlen < k.olen
              \/ k.path = k.from /\ k.path \in {"nested", "task", "other"} /\ k.new = k.old
<1>1. \/ k = C!Hunk("nested", "nested", 1, 1, 1, 1) \/ k = C!Hunk("task", "task", 1, 1, 1, 1)
      \/ k = C!Hunk("other", "other", 1, 1, 1, 1) \/ k = C!Hunk("task", "gone", 1, 1, 0, 0)
  BY DEF C!Others
<1>2. ASSUME NEW file \in {"nested", "task", "other"}, k = C!Hunk(file, file, 1, 1, 1, 1)
      PROVE  k \in HunkType(Names) /\ k.path = k.from /\ k.path \in {"nested", "task", "other"} /\ k.new = k.old
  <2>1. k = [from |-> file, path |-> file, old |-> 1, olen |-> 1, new |-> 1, nlen |-> 1]
    BY <1>2 DEF C!Hunk
  <2>3. k \in HunkType(Names)
    BY <2>1, Hunks
  <2> QED BY <2>1, <2>3
<1>3. ASSUME k = C!Hunk("task", "gone", 1, 1, 0, 0)
      PROVE  k \in HunkType(Names) /\ k.path = "gone" /\ k.nlen < k.olen
  <2>1. k = [from |-> "task", path |-> "gone", old |-> 1, olen |-> 1, new |-> 0, nlen |-> 0]
    BY <1>3 DEF C!Hunk
  <2>2. k \in HunkType(Names)
    BY <2>1, Hunks
  <2> QED BY <2>1, <2>2
<1> QED BY <1>1, <1>2, <1>3

\* A diff of one hunk, and of two.
LEMMA OneHunk ==
    ASSUME NEW diff, NEW h \in HunkType(Names), diff = <<h>>
    PROVE  diff \in Seq(HunkType(Names)) /\ DOMAIN diff = {1} /\ diff[1] = h
OBVIOUS

\* See OneHunk.
LEMMA TwoHunks ==
    ASSUME NEW diff, NEW h \in HunkType(Names), NEW k \in HunkType(Names), diff = <<h, k>>
    PROVE  diff \in Seq(HunkType(Names)) /\ DOMAIN diff = {1, 2} /\ diff[1] = h /\ diff[2] = k
OBVIOUS

\* Every diff a checker is given is made of such hunks.
LEMMA SaneDiffs ==
    ASSUME NEW body \in C!Bodies, NEW diff \in C!Diffs(body)
    PROVE  diff \in Seq(HunkType(Names)) /\ \A i \in DOMAIN diff : Sane(diff, i)
<1>1. CASE diff = <<>>
  BY <1>1
<1>2. CASE diff = <<C!Hunk("entry", "none", 3, 1, 3, 1)>>
  <2> DEFINE h == C!Hunk("entry", "none", 3, 1, 3, 1)
  <2>1. h = [from |-> "entry", path |-> "none", old |-> 3, olen |-> 1, new |-> 3, nlen |-> 1]
    BY DEF C!Hunk
  <2>2. h.path = "none" /\ h.new = h.old
    BY <2>1
  <2>3. h \in HunkType(Names)
    BY <2>1, Hunks
  <2> HIDE DEF h
  <2>4. diff \in Seq(HunkType(Names)) /\ DOMAIN diff = {1} /\ diff[1] = h
    BY <1>2, <2>3, OneHunk DEF h
  <2>5. Sane(diff, 1)
    BY <2>2, <2>3, <2>4 DEF Sane
  <2> QED BY <2>4, <2>5
<1>3. CASE diff = <<C!Hunk("entry", "gone", 1, Len(body), 0, 0)>>
  <2> DEFINE n == Len(body)
             h == C!Hunk("entry", "gone", 1, n, 0, 0)
  <2>1. n \in Nat \ {0}
    BY DEF C!Bodies
  <2>2. h = [from |-> "entry", path |-> "gone", old |-> 1, olen |-> n, new |-> 0, nlen |-> 0]
    BY DEF C!Hunk
  <2> HIDE DEF n
  <2>3. h.path = "gone" /\ h.nlen < h.olen
    BY <2>1, <2>2
  <2>4. h \in HunkType(Names)
    BY <2>1, <2>2, Hunks
  <2>5. diff = <<h>>
    BY <1>3 DEF n
  <2> HIDE DEF h
  <2>6. diff \in Seq(HunkType(Names)) /\ DOMAIN diff = {1} /\ diff[1] = h
    BY <2>4, <2>5, OneHunk
  <2>7. Sane(diff, 1)
    BY <2>3, <2>4, <2>6 DEF Sane, C!Entrypoints
  <2> QED BY <2>6, <2>7
<1>4. ASSUME NEW h \in C!Firsts(body), diff = <<h>>
      PROVE  diff \in Seq(HunkType(Names)) /\ \A i \in DOMAIN diff : Sane(diff, i)
  <2>1. h \in HunkType(Names) /\ h.path = "entry" /\ h.from = "entry" /\ h.new = h.old
    BY FirstHunk
  <2>2. diff \in Seq(HunkType(Names)) /\ DOMAIN diff = {1} /\ diff[1] = h
    BY <1>4, <2>1, OneHunk
  <2> QED BY <2>1, <2>2 DEF Sane
<1>5. ASSUME NEW h \in C!Firsts(body), NEW k \in C!Seconds(body, h), diff = <<h, k>>
      PROVE  diff \in Seq(HunkType(Names)) /\ \A i \in DOMAIN diff : Sane(diff, i)
  <2>1. h \in HunkType(Names) /\ h.path = "entry" /\ h.from = "entry" /\ h.new = h.old
    BY FirstHunk
  <2>2. /\ k \in HunkType(Names) /\ k.path = "entry" /\ k.from = "entry"
        /\ k.old >= h.old + h.olen /\ k.new = k.old + h.nlen - h.olen
    BY SecondHunk
  <2>3. diff \in Seq(HunkType(Names)) /\ DOMAIN diff = {1, 2} /\ diff[1] = h /\ diff[2] = k
    BY <1>5, <2>1, <2>2, TwoHunks
  <2>4. Sane(diff, 1)
    BY <2>1, <2>3 DEF Sane
  <2>5. Sane(diff, 2)
    BY <2>1, <2>2, <2>3 DEF Sane
  <2> QED BY <2>3, <2>4, <2>5
<1>6. ASSUME NEW h \in C!Firsts(body), NEW k \in C!Others, diff = <<k, h>> \/ diff = <<h, k>>
      PROVE  diff \in Seq(HunkType(Names)) /\ \A i \in DOMAIN diff : Sane(diff, i)
  <2>1. h \in HunkType(Names) /\ h.path = "entry" /\ h.from = "entry" /\ h.new = h.old
    BY FirstHunk
  <2>2. /\ k \in HunkType(Names)
        /\ \/ k.path = "gone" /\ k.nlen < k.olen
           \/ k.path = k.from /\ k.path \in {"nested", "task", "other"} /\ k.new = k.old
    BY OtherHunk
  <2>3. /\ diff \in Seq(HunkType(Names)) /\ DOMAIN diff = {1, 2}
        /\ \A i \in {1, 2} : diff[i] = h \/ diff[i] = k
    BY <1>6, <2>1, <2>2, TwoHunks
  <2>4. ASSUME NEW i \in {1, 2}, diff[i] = h
        PROVE  Sane(diff, i)
    BY <2>1, <2>4 DEF Sane
  <2>5. ASSUME NEW i \in {1, 2}, diff[i] = k
        PROVE  Sane(diff, i)
    BY <2>2, <2>5 DEF Sane, C!Entrypoints
  <2> QED BY <2>3, <2>4, <2>5
<1>7. \/ diff = <<>> \/ diff = <<C!Hunk("entry", "none", 3, 1, 3, 1)>>
      \/ diff = <<C!Hunk("entry", "gone", 1, Len(body), 0, 0)>>
      \/ \E h \in C!Firsts(body) : diff = <<h>>
      \/ \E h \in C!Firsts(body) : \E k \in C!Seconds(body, h) : diff = <<h, k>>
      \/ \E h \in C!Firsts(body) : \E k \in C!Others : diff = <<k, h>> \/ diff = <<h, k>>
  <2> DEFINE S1 == {<<>>, <<C!Hunk("entry", "none", 3, 1, 3, 1)>>, <<C!Hunk("entry", "gone", 1, Len(body), 0, 0)>>}
             S2 == {<<h>> : h \in C!Firsts(body)}
             S3 == UNION {{<<h, k>> : k \in C!Seconds(body, h)} : h \in C!Firsts(body)}
             S4 == {<<k, h>> : k \in C!Others, h \in C!Firsts(body)}
             S5 == {<<h, k>> : k \in C!Others, h \in C!Firsts(body)}
  <2>1. C!Diffs(body) = S1 \cup S2 \cup S3 \cup S4 \cup S5
    BY DEF C!Diffs
  <2>2. diff \in S3 => \E h \in C!Firsts(body) : \E k \in C!Seconds(body, h) : diff = <<h, k>>
    BY Zenon
  <2>3. diff \in S4 => \E h \in C!Firsts(body) : \E k \in C!Others : diff = <<k, h>>
    OBVIOUS
  <2>4. diff \in S5 => \E h \in C!Firsts(body) : \E k \in C!Others : diff = <<h, k>>
    OBVIOUS
  <2>5. diff \in S2 => \E h \in C!Firsts(body) : diff = <<h>>
    OBVIOUS
  <2>6. diff \in S1 => \/ diff = <<>> \/ diff = <<C!Hunk("entry", "none", 3, 1, 3, 1)>>
                      \/ diff = <<C!Hunk("entry", "gone", 1, Len(body), 0, 0)>>
    OBVIOUS
  <2> HIDE DEF S1, S2, S3, S4, S5
  <2>7. diff \in S1 \/ diff \in S2 \/ diff \in S3 \/ diff \in S4 \/ diff \in S5
    BY <2>1
  <2> QED BY <2>2, <2>3, <2>4, <2>5, <2>6, <2>7, Zenon
<1> QED BY <1>1, <1>2, <1>3, <1>4, <1>5, <1>6, <1>7, Zenon

\* A shifted hunk of those diffs is in the span by its new lines when it is by its old
\* ones, less what was removed.
LEMMA SaneHunk ==
    ASSUME NEW Text, NEW body \in Seq(Text), NEW diff \in Seq(HunkType(Names)), \A i \in DOMAIN diff : Sane(diff, i),
           NEW i \in DOMAIN diff, diff[i].path \in C!Entrypoints, C!HasSpan(body),
           C!InSpan(diff[1], body) \/ C!Fits(diff[1].old, diff[1].olen - C!Removed(diff[1]), C!FindEditableSpan(body))
               \/ diff[i].new = diff[i].old
    PROVE  C!InSpan(diff[i], body) <=> C!Fits(diff[i].old, diff[i].olen - C!Removed(diff[i]), C!FindEditableSpan(body))
<1> DEFINE span == C!FindEditableSpan(body)
<1>1. span \in [Start : Nat, End : Nat]
  BY SpanType
<1>2. diff[i] \in HunkType(Names) /\ Sane(diff, i)
  OBVIOUS
<1>3. (diff[i].new >= span.Start) <=> (diff[i].old >= span.Start)
  <2>1. CASE diff[i].new = diff[i].old
    BY <2>1
  <2>2. CASE diff[i].new # diff[i].old
    <3>1. /\ diff[1] \in HunkType(Names) /\ diff[1].new = diff[1].old
          /\ diff[i].old >= diff[1].old + diff[1].olen
          /\ diff[i].new = diff[i].old + diff[1].nlen - diff[1].olen
      BY <1>2, <2>2 DEF Sane
    <3>2. diff[1].old >= span.Start
      BY <2>2, <3>1 DEF C!InSpan, C!Fits
    <3>3. /\ diff[1].old \in Nat /\ diff[1].olen \in Nat /\ diff[1].nlen \in Nat
          /\ diff[i].old \in Nat /\ diff[i].new \in Nat
      BY <1>2, <3>1, HunkFields
    <3> HIDE DEF span
    <3>4. span.Start \in Nat
      BY <1>1
    <3>5. diff[i].new >= span.Start /\ diff[i].old >= span.Start
      BY <3>1, <3>2, <3>3, <3>4, ShiftedAlike
    <3> QED BY <3>5
  <2> QED BY <2>1, <2>2
<1> QED BY <1>2, <1>3, OldAndNew

\* The diffs a checker is given are accepted exactly when they are bounded.
LEMMA SaneBounded ==
    ASSUME NEW Text, NEW body \in Seq(Text), NEW diff \in Seq(HunkType(Names)), \A i \in DOMAIN diff : Sane(diff, i),
           C!ParseUnifiedDiff(diff)
    PROVE  C!ValidateDiff(body, diff) = "accepted" <=> C!Bounded(body, diff)
<1> DEFINE fits(h) == C!Fits(h.old, h.olen - C!Removed(h), C!FindEditableSpan(body))
<1>1. ASSUME NEW i \in DOMAIN diff
      PROVE  /\ diff[i] \in HunkType(Names) /\ 1 \in DOMAIN diff
             /\ diff[i].path = "gone" \/ (diff[i].path = diff[i].from /\ diff[i].path \in {"entry", "nested", "task", "other"})
             /\ diff[i].path \in C!Entrypoints /\ diff[i].new # diff[i].old => diff[1].path = "entry" /\ diff[1].from = "entry"
  BY DEF Sane, C!ParseUnifiedDiff
<1>2. ASSUME C!ValidateDiff(body, diff) = "accepted", NEW i \in DOMAIN diff, diff[i].path # "gone"
      PROVE  /\ diff[i].from \notin C!ImmutableTargets
             /\ diff[i].from \in C!Entrypoints => C!HasSpan(body) /\ fits(diff[i])
  <2>1. \A j \in DOMAIN diff : C!Verdict(body, diff[j]) = "accepted"
    BY <1>2, AcceptedHunks
  <2>2. \A j \in DOMAIN diff : diff[j].path \in C!Entrypoints => C!InSpan(diff[j], body)
    BY <2>1 DEF C!Verdict, C!Entrypoints, C!ImmutableTargets
  <2>3. diff[i].path = diff[i].from /\ diff[i].path \in {"entry", "nested", "task", "other"}
    BY <1>1, <1>2
  <2>4. diff[i].path # "task"
    BY <2>1 DEF C!Verdict, C!ImmutableTargets
  <2>5. ASSUME diff[i].from \in C!Entrypoints
        PROVE  C!HasSpan(body) /\ fits(diff[i])
    <3>1. C!InSpan(diff[i], body) /\ C!HasSpan(body)
      BY <2>2, <2>3, <2>5 DEF C!InSpan
    <3>2. C!InSpan(diff[1], body) \/ diff[i].new = diff[i].old
      BY <1>1, <2>2, <2>3, <2>5 DEF C!Entrypoints
    <3> QED BY <2>3, <2>5, <3>1, <3>2, SaneHunk
  <2> QED BY <2>3, <2>4, <2>5 DEF C!ImmutableTargets
<1>3. ASSUME C!Bounded(body, diff), NEW i \in DOMAIN diff
      PROVE  C!Verdict(body, diff[i]) = "accepted"
  <2>1. CASE diff[i].path = "gone" \/ diff[i].path = "other"
    BY <2>1 DEF C!Verdict, C!ImmutableTargets, C!Entrypoints
  <2>2. CASE diff[i].path # "gone" /\ diff[i].path # "other"
    <3>1. diff[i].path = diff[i].from /\ diff[i].path \in C!Entrypoints \cup {"task"}
      BY <1>1, <2>2 DEF C!Entrypoints
    <3>2. diff[i].path # "task"
      BY <1>3, <2>2, <3>1 DEF C!Bounded, C!ImmutableTargets
    <3>3. C!HasSpan(body) /\ fits(diff[i])
      BY <1>3, <2>2, <3>1, <3>2 DEF C!Bounded
    <3>4. fits(diff[1]) \/ diff[i].new = diff[i].old
      <4>1. diff[1].path = "entry" /\ diff[1].from = "entry" /\ 1 \in DOMAIN diff => fits(diff[1])
        BY <1>3 DEF C!Bounded, C!Entrypoints
      <4> HIDE DEF fits
      <4> QED BY <1>1, <3>1, <3>2, <4>1
    <3>5. C!InSpan(diff[i], body)
      BY <3>1, <3>2, <3>3, <3>4, SaneHunk
    <3> QED BY <3>2, <3>5 DEF C!Verdict, C!ImmutableTargets
  <2> QED BY <2>1, <2>2
<1>4. C!ValidateDiff(body, diff) = "accepted" => C!Bounded(body, diff)
  BY <1>2 DEF C!Bounded
<1>5. C!Bounded(body, diff) => C!ValidateDiff(body, diff) = "accepted"
  BY <1>3, AcceptedHunks
<1> QED BY <1>4, <1>5

\* The markers of a file whose lines are known.
LEMMA SpanOf ==
    ASSUME NEW body, NEW s \in DOMAIN body, NEW e \in DOMAIN body, s < e, s \in Nat, e \in Nat,
           \A i \in DOMAIN body : (body[i] = "start" <=> i = s) /\ (body[i] = "end" <=> i = e)
    PROVE  C!HasSpan(body) /\ C!FindEditableSpan(body) = [Start |-> 1 + s, End |-> e]
<1>1. C!Marks(body, "start") = {s} /\ C!Marks(body, "end") = {e}
  BY DEF C!Marks
<1>2. (CHOOSE i \in DOMAIN body : body[i] = "start") = s
  OBVIOUS
<1>3. (CHOOSE i \in DOMAIN body : body[i] = "end") = e
  OBVIOUS
<1> QED BY <1>1, <1>2, <1>3 DEF C!HasSpan, C!FindEditableSpan

\* A diff of one hunk that has a path is judged as that hunk is.
LEMMA SingleHunk ==
    ASSUME NEW body, NEW h \in HunkType(Names), h.path # "none"
    PROVE  (C!ValidateDiff(body, <<h>>) = "accepted" <=> C!Verdict(body, h) = "accepted")
           /\ C!ValidateDiff(body, <<h>>) = C!Verdict(body, h)
<1> DEFINE diff == <<h>>
<1>1. diff \in Seq(HunkType(Names)) /\ DOMAIN diff = {1} /\ diff[1] = h
  BY OneHunk
<1> HIDE DEF diff
<1>2. C!ParseUnifiedDiff(diff)
  BY <1>1 DEF C!ParseUnifiedDiff
<1>3. C!ValidateDiff(body, diff) = "accepted" <=> C!Verdict(body, h) = "accepted"
  BY <1>1, <1>2, AcceptedHunks
<1>4. CASE C!Verdict(body, h) = "accepted"
  BY <1>3, <1>4 DEF diff
<1>5. CASE C!Verdict(body, h) # "accepted"
  <2>1. {i \in DOMAIN diff : C!Verdict(body, diff[i]) # "accepted"} = {1}
    BY <1>1, <1>5
  <2>2. (CHOOSE i \in {1} : \A j \in {1} : i <= j) = 1
    OBVIOUS
  <2>3. C!ValidateDiff(body, diff) = C!Verdict(body, diff[1])
    BY <1>2, <2>1, <2>2 DEF C!ValidateDiff
  <2> QED BY <1>1, <1>3, <2>3 DEF diff
<1> QED BY <1>4, <1>5

\* HR-09's two edits are judged as the test expects.
LEMMA HR09Holds == C!handleHR09
<1> DEFINE body == C!entrypoint
           good == C!Hunk("entry", "entry", 6, 3, 6, 3)
           bad  == C!Hunk("entry", "entry", 3, 1, 3, 2)
<1>1. /\ DOMAIN body = 1 .. 20
      /\ \A i \in DOMAIN body : (body[i] = "start" <=> i = 5) /\ (body[i] = "end" <=> i = 11)
  BY DEF C!entrypoint, C!Lines
<1>2. good = [from |-> "entry", path |-> "entry", old |-> 6, olen |-> 3, new |-> 6, nlen |-> 3]
  BY DEF C!Hunk
<1>3. bad = [from |-> "entry", path |-> "entry", old |-> 3, olen |-> 1, new |-> 3, nlen |-> 2]
  BY DEF C!Hunk
<1>4. good \in HunkType(Names) /\ bad \in HunkType(Names)
  BY <1>2, <1>3, Hunks
<1>5. /\ good.path = "entry" /\ good.new = 6 /\ good.nlen = 3
      /\ bad.path = "entry" /\ bad.new = 3 /\ bad.nlen = 2
  BY <1>2, <1>3
<1> HIDE DEF body, good, bad
<1>6. C!HasSpan(body) /\ C!FindEditableSpan(body) = [Start |-> 6, End |-> 11]
  <2>1. 5 \in DOMAIN body /\ 11 \in DOMAIN body
    BY <1>1
  <2>3. 5 < 11 /\ 5 \in Nat /\ 11 \in Nat
    OBVIOUS
  <2>4. \A i \in DOMAIN body : (body[i] = "start" <=> i = 5) /\ (body[i] = "end" <=> i = 11)
    BY <1>1
  <2>2. C!HasSpan(body) /\ C!FindEditableSpan(body) = [Start |-> 1 + 5, End |-> 11]
    BY <2>1, <2>3, <2>4, SpanOf
  <2> QED BY <2>2
<1>7. C!Verdict(body, good) = "accepted"
  BY <1>5, <1>6 DEF C!Verdict, C!ImmutableTargets, C!Entrypoints, C!InSpan, C!Fits
<1>8. C!Verdict(body, bad) = "SelfImprovementRejected"
  BY <1>5, <1>6 DEF C!Verdict, C!ImmutableTargets, C!Entrypoints, C!InSpan, C!Fits
<1>9. C!ValidateDiff(body, <<good>>) = "accepted" /\ C!ValidateDiff(body, <<bad>>) = "SelfImprovementRejected"
  BY <1>4, <1>5, <1>7, <1>8, SingleHunk
<1> QED BY <1>9 DEF C!handleHR09, body, good, bad

\* And HR-10's.
LEMMA HR10Holds == C!handleHR10
<1> DEFINE body == <<"start", "line", "end">>
           good == C!Hunk("entry", "entry", 2, 1, 2, 1)
           bad  == C!Hunk("task", "task", 1, 1, 1, 1)
<1>1. /\ DOMAIN body = 1 .. 3
      /\ \A i \in DOMAIN body : (body[i] = "start" <=> i = 1) /\ (body[i] = "end" <=> i = 3)
  OBVIOUS
<1>2. good = [from |-> "entry", path |-> "entry", old |-> 2, olen |-> 1, new |-> 2, nlen |-> 1]
  BY DEF C!Hunk
<1>3. bad = [from |-> "task", path |-> "task", old |-> 1, olen |-> 1, new |-> 1, nlen |-> 1]
  BY DEF C!Hunk
<1>4. good \in HunkType(Names) /\ bad \in HunkType(Names)
  BY <1>2, <1>3, Hunks
<1>5. good.path = "entry" /\ good.new = 2 /\ good.nlen = 1 /\ bad.path = "task"
  BY <1>2, <1>3
<1> HIDE DEF body, good, bad
<1>6. C!HasSpan(body) /\ C!FindEditableSpan(body) = [Start |-> 2, End |-> 3]
  <2>1. 1 \in DOMAIN body /\ 3 \in DOMAIN body
    BY <1>1
  <2>2. C!HasSpan(body) /\ C!FindEditableSpan(body) = [Start |-> 1 + 1, End |-> 3]
    BY <1>1, <2>1, SpanOf
  <2> QED BY <2>2
<1>7. C!Verdict(body, good) = "accepted"
  BY <1>5, <1>6 DEF C!Verdict, C!ImmutableTargets, C!Entrypoints, C!InSpan, C!Fits
<1>8. C!Verdict(body, bad) = "ImmutableTargetEdit"
  BY <1>5 DEF C!Verdict, C!ImmutableTargets, C!Entrypoints
<1>9. C!ValidateDiff(body, <<good>>) = "accepted" /\ C!ValidateDiff(body, <<bad>>) = "ImmutableTargetEdit"
  BY <1>4, <1>5, <1>7, <1>8, SingleHunk
<1> QED BY <1>9 DEF C!handleHR10, body, good, bad

\* The lists of HR-02 and the tokens of SV-ENC-06 are judged as expected, whatever
\* an hour and the skew are.
LEMMA FixturesHold == C!handleHR02 /\ C!handleSVENC06
<1>1. Hour \in Nat \ {0} /\ Skew \in Nat \ {0}
  BY LiveCallAssumption
<1>2. C!handleHR02
  BY <1>1 DEF C!handleHR02, C!Classify, C!Unparsed, C!DefaultRefreshInterval, C!HardStaleCeiling
<1>3. C!handleSVENC06
  BY <1>1 DEF C!handleSVENC06, C!ClockSkew
<1> QED BY <1>2, <1>3

\* HR-01 passes before the end of the bundle that has one.
LEMMA HR01Holds ==
    ASSUME NEW bundle \in [notAfter : {C!Absent, Horizon}, now : 0 .. Horizon], bundle.now < Horizon
    PROVE  C!handleHR01(bundle)
<1>1. Horizon \in Nat
  BY LiveCallAssumption
<1> QED BY <1>1 DEF C!handleHR01, C!SemanticValidate, C!Absent, C!Unparsed

\* The state of a check in any run.
LEMMA CheckInvariant == Spec => [](kind = "check" => CheckInv)
<1> DEFINE Checking == kind = "check" => CheckInv
<1>1. ASSUME Init
      PROVE  Checking
  <2> SUFFICES ASSUME kind = "check"
               PROVE  CheckInv
    OBVIOUS
  <2>1. C!Init
    BY <1>1 DEF Init
  <2>2. test \in C!Tests /\ verdict = "none"
    BY <2>1 DEF C!Init
  <2>3. test = "diff" => \E body \in C!Bodies : \E diff \in C!Diffs(body) : mark = [body |-> body, diff |-> diff]
    BY <2>1 DEF C!Init
  <2>4. test = "list" => mark \in [issued : C!Times, notAfter : C!Times, first : 0 .. Horizon, again : 0 .. Horizon]
    BY <2>1 DEF C!Init
  <2>5. test = "token" => mark \in [iat : 0 .. Horizon, exp : 0 .. Horizon, first : 0 .. Horizon, again : 0 .. Horizon]
    BY <2>1 DEF C!Init
  <2>6. test = "HR01" => mark \in [notAfter : {C!Absent, Horizon}, now : 0 .. Horizon]
    BY <2>1 DEF C!Init
  <2> QED BY <2>2, <2>3, <2>4, <2>5, <2>6 DEF CheckInv
<1>2. ASSUME Checking, [Next]_vars
      PROVE  Checking'
  <2> SUFFICES ASSUME kind' = "check"
               PROVE  CheckInv'
    OBVIOUS
  <2>1. CASE Check
    <3>1. kind = "check" /\ UNCHANGED <<test, mark>> /\ verdict' = CheckAnswer
      BY <2>1 DEF Check, InCheck, C!Handler, CheckAnswer
    <3>2. CheckAnswer' = CheckAnswer
      BY <3>1 DEF CheckAnswer
    <3> QED BY <1>2, <3>1, <3>2 DEF CheckInv
  <2>2. CASE UNCHANGED vars
    <3>1. UNCHANGED <<kind, test, mark, verdict>>
      BY <2>2 DEF vars, all, logVars, sharedVars
    <3>2. CheckAnswer' = CheckAnswer
      BY <3>1 DEF CheckAnswer
    <3> QED BY <1>2, <3>1, <3>2 DEF CheckInv
  <2>3. CASE Handoff \/ Dispatch \/ AuditTrail \/ Observe \/ Probe
    BY <1>2, <2>3 DEF Handoff, Dispatch, AuditTrail, Observe, Probe, InHandoff, InDispatch, InAudit, InObserve, InProbe
  <2> QED BY <1>2, <2>1, <2>2, <2>3 DEF Next
<1> QED BY <1>1, <1>2, PTL DEF Spec

\* A diff a checker is given, and its lines.
LEMMA GivenDiff ==
    ASSUME CheckInv, test = "diff"
    PROVE  /\ mark.body \in Seq({"line", "start", "end"}) /\ mark.diff \in Seq(HunkType(Names))
           /\ \A i \in DOMAIN mark.diff : Sane(mark.diff, i)
<1>1. PICK body \in C!Bodies : \E diff \in C!Diffs(body) : mark = [body |-> body, diff |-> diff]
  BY DEF CheckInv
<1>2. PICK diff \in C!Diffs(body) : mark = [body |-> body, diff |-> diff]
  BY <1>1
<1>3. body \in Seq({"line", "start", "end"})
  <2>1. \/ body = <<"line", "start", "line", "line", "line", "end", "line">>
        \/ body = <<"start", "line", "line">> \/ body = <<"end", "line", "start">>
        \/ body = <<"start", "start", "line", "end">>
    BY DEF C!Bodies
  <2>2. CASE body = <<"line", "start", "line", "line", "line", "end", "line">>
    BY <2>2
  <2>3. CASE body = <<"start", "line", "line">>
    BY <2>3
  <2>4. CASE body = <<"end", "line", "start">>
    BY <2>4
  <2>5. CASE body = <<"start", "start", "line", "end">>
    BY <2>5
  <2> QED BY <2>1, <2>2, <2>3, <2>4, <2>5
<1>4. diff \in Seq(HunkType(Names)) /\ \A i \in DOMAIN diff : Sane(diff, i)
  BY SaneDiffs
<1>5. mark.body = body /\ mark.diff = diff
  BY <1>2
<1> QED BY <1>3, <1>4, <1>5

\* What the handler's own checks answer.
LEMMA ChecksPass ==
    ASSUME CheckInv, verdict # "none", test # "HR01"
    PROVE  verdict # "fail"
<1>1. verdict = CheckAnswer /\ test \in C!Tests
  BY DEF CheckInv
<1>2. CASE test = "diff"
  BY <1>1, <1>2 DEF CheckAnswer, C!ValidateDiff, C!Verdict
<1>3. CASE test = "list"
  BY <1>1, <1>3 DEF CheckAnswer, C!Classify
<1>4. CASE test = "token"
  BY <1>1, <1>4 DEF CheckAnswer, C!ClockSkew
<1>5. CASE test = "HR02" \/ test = "ENC06"
  BY <1>1, <1>5, FixturesHold DEF CheckAnswer, C!Passes
<1>6. CASE test = "HR09"
  BY <1>1, <1>6, HR09Holds DEF CheckAnswer, C!Passes
<1>7. CASE test = "HR10"
  BY <1>1, <1>7, HR10Holds DEF CheckAnswer, C!Passes
<1> QED BY <1>1, <1>2, <1>3, <1>4, <1>5, <1>6, <1>7 DEF C!Tests

\* Checks owes its caller that what keeps the rule is not refused: a diff confined
\* to the editable surface that ends, where it adds lines, as many before the closing
\* marker (the others it does refuse, ConfinedIsAccepted is false), a list fresh
\* within the hour, a token within the skew, and the vectors of HR-01 (as long as
\* its bundle lasts), HR-02, HR-09, HR-10 and SV-ENC-06: for every length of a hunk,
\* hour, skew and horizon.
THEOREM CheckConformingNeverFails == Spec => [](kind = "check" => ConformingNeverFails)
<1> DEFINE Checking  == kind = "check" => CheckInv
           Promising == kind = "check" => ConformingNeverFails
<1>1. ASSUME CheckInv
      PROVE  C!ConformingNeverFails
  <2>1. C!Ended => verdict = CheckAnswer
    BY <1>1 DEF CheckInv, C!Ended
  <2>2. C!Checked("diff") /\ C!ParseUnifiedDiff(mark.diff) /\ C!Confined(mark.body, mark.diff)
            /\ C!Bounded(mark.body, mark.diff) => verdict = "accepted"
    BY <1>1, <2>1, GivenDiff, SaneBounded DEF C!Checked, CheckAnswer
  <2>3. C!Checked("list") /\ C!Classify(mark, mark.first) = "fresh" /\ mark.again < mark.notAfter
            /\ mark.again <= mark.first + Hour => C!Accept(verdict)
    <3> SUFFICES ASSUME C!Checked("list"), C!Classify(mark, mark.first) = "fresh", mark.again < mark.notAfter,
                        mark.again <= mark.first + Hour
                 PROVE  C!Accept(verdict)
      OBVIOUS
    <3>1. verdict = C!Classify(mark, mark.again)
      BY <2>1 DEF C!Checked, CheckAnswer
    <3>2. mark \in [issued : C!Times, notAfter : C!Times, first : 0 .. Horizon, again : 0 .. Horizon]
      BY <1>1 DEF CheckInv, C!Checked
    <3>3. Hour \in Nat /\ Horizon \in Nat
      BY LiveCallAssumption
    <3>4. /\ mark.first \in Nat /\ mark.again \in Nat
          /\ mark.issued \in Nat \cup {C!Unparsed} /\ mark.notAfter \in Nat \cup {C!Unparsed}
      BY <3>2, <3>3 DEF C!Times
    <3> QED BY <3>1, <3>3, <3>4 DEF C!Classify, C!Accept, C!Unparsed, C!DefaultRefreshInterval, C!HardStaleCeiling
  <2>4. C!Checked("token") /\ mark.iat \in mark.again - Skew .. mark.again + Skew
            /\ mark.exp > mark.again - Skew => verdict = "accept"
    <3> SUFFICES ASSUME C!Checked("token"), mark.iat \in mark.again - Skew .. mark.again + Skew,
                        mark.exp > mark.again - Skew
                 PROVE  verdict = "accept"
      OBVIOUS
    <3>1. verdict = C!ClockSkew(mark, mark.again)
      BY <2>1 DEF C!Checked, CheckAnswer
    <3>2. mark \in [iat : 0 .. Horizon, exp : 0 .. Horizon, first : 0 .. Horizon, again : 0 .. Horizon]
      BY <1>1 DEF CheckInv, C!Checked
    <3>3. Skew \in Nat /\ Horizon \in Nat
      BY LiveCallAssumption
    <3>4. mark.iat \in Nat /\ mark.exp \in Nat /\ mark.again \in Nat
      BY <3>2, <3>3
    <3> QED BY <3>1, <3>3, <3>4 DEF C!ClockSkew
  <2>5. C!Checked("HR01") /\ mark.now < Horizon => verdict = "pass"
    <3> SUFFICES ASSUME C!Checked("HR01"), mark.now < Horizon
                 PROVE  verdict = "pass"
      OBVIOUS
    <3>1. mark \in [notAfter : {C!Absent, Horizon}, now : 0 .. Horizon]
      BY <1>1 DEF CheckInv, C!Checked
    <3>2. C!handleHR01(mark)
      BY <3>1, HR01Holds
    <3> QED BY <2>1, <3>2 DEF C!Checked, CheckAnswer, C!Passes
  <2>6. verdict # "fail" \/ test = "HR01"
    BY <1>1, ChecksPass
  <2> QED BY <2>2, <2>3, <2>4, <2>5, <2>6 DEF C!ConformingNeverFails
<1>2. Checking => Promising
  BY <1>1 DEF ConformingNeverFails
<1> QED BY <1>2, CheckInvariant, PTL

\* What an acceptance of Checks shows: a diff (but for a removed file) touches no task,
\* nothing before the opening marker, and beyond the closing one no more lines than it
\* has removed by then (that it may touch those is the flaw TouchesOnlySurface shows); no
\* list is accepted again once it was not, and no token for longer than twice the skew.
THEOREM CheckPassIsEarned == Spec => [](kind = "check" => PassIsEarned)
<1> DEFINE Checking  == kind = "check" => CheckInv
           Promising == kind = "check" => PassIsEarned
<1>1. ASSUME CheckInv
      PROVE  C!PassIsEarned
  <2>1. C!Ended => verdict = CheckAnswer
    BY <1>1 DEF CheckInv, C!Ended
  <2>2. C!Checked("diff") /\ verdict = "accepted" => C!Bounded(mark.body, mark.diff)
    <3> SUFFICES ASSUME C!Checked("diff"), verdict = "accepted"
                 PROVE  C!Bounded(mark.body, mark.diff)
      OBVIOUS
    <3>1. C!ValidateDiff(mark.body, mark.diff) = "accepted" /\ test = "diff"
      BY <2>1 DEF C!Checked, CheckAnswer
    <3>2. C!ParseUnifiedDiff(mark.diff)
      BY <3>1 DEF C!ValidateDiff
    <3> QED BY <1>1, <3>1, <3>2, GivenDiff, SaneBounded
  <2>3. C!Checked("list") /\ C!Accept(verdict) /\ mark.first <= mark.again => C!Accept(C!Classify(mark, mark.first))
    <3> SUFFICES ASSUME C!Checked("list"), C!Accept(verdict), mark.first <= mark.again
                 PROVE  C!Accept(C!Classify(mark, mark.first))
      OBVIOUS
    <3>1. verdict = C!Classify(mark, mark.again)
      BY <2>1 DEF C!Checked, CheckAnswer
    <3>2. mark \in [issued : C!Times, notAfter : C!Times, first : 0 .. Horizon, again : 0 .. Horizon]
      BY <1>1 DEF CheckInv, C!Checked
    <3>3. Hour \in Nat /\ Horizon \in Nat
      BY LiveCallAssumption
    <3>4. /\ mark.first \in Nat /\ mark.again \in Nat
          /\ mark.issued \in Nat \cup {C!Unparsed} /\ mark.notAfter \in Nat \cup {C!Unparsed}
      BY <3>2, <3>3 DEF C!Times
    <3> QED BY <3>1, <3>3, <3>4 DEF C!Classify, C!Accept, C!Unparsed, C!DefaultRefreshInterval, C!HardStaleCeiling
  <2>4. C!Checked("token") /\ verdict = "accept" /\ C!ClockSkew(mark, mark.first) = "accept" =>
            mark.again - mark.first <= 2 * Skew
    <3> SUFFICES ASSUME C!Checked("token"), verdict = "accept", C!ClockSkew(mark, mark.first) = "accept"
                 PROVE  mark.again - mark.first <= 2 * Skew
      OBVIOUS
    <3>1. verdict = C!ClockSkew(mark, mark.again)
      BY <2>1 DEF C!Checked, CheckAnswer
    <3>2. mark \in [iat : 0 .. Horizon, exp : 0 .. Horizon, first : 0 .. Horizon, again : 0 .. Horizon]
      BY <1>1 DEF CheckInv, C!Checked
    <3>3. Skew \in Nat /\ Horizon \in Nat
      BY LiveCallAssumption
    <3>4. mark.iat \in Nat /\ mark.exp \in Nat /\ mark.again \in Nat /\ mark.first \in Nat
      BY <3>2, <3>3
    <3> QED BY <3>1, <3>3, <3>4 DEF C!ClockSkew
  <2> QED BY <2>2, <2>3, <2>4 DEF C!PassIsEarned
<1>2. Checking => Promising
  BY <1>1 DEF PassIsEarned
<1> QED BY <1>2, CheckInvariant, PTL

-----------------------------------------------------------------------------
(***************************************************************************)
(* The SV-A2A handlers.  What each row of a test finds is settled by the   *)
(* rules the Runner keeps and, for SV-A2A-15 and -16, by how late a        *)
(* request reaches it; so the invariant says, handler by handler, which    *)
(* flaws are already excluded, what the tasks it follows have come to, and *)
(* between which times it asks for them.                                   *)
(***************************************************************************)
\* The configuration leaves the timed rows of SV-A2A-15 and -16 room for the latency.
HookHasRoom == ~Shared /\ (HookN > 0 => HookN + 1 + 2 * Latency < 2 * HookN)
DeadlineHasRoom == 0 < Deadline /\ Deadline <= ProbeSleep
\* SV-A2A-11 and SV-A2A-12 want a token accepted that names the placeholder as the
\* etag of the caller's card; a Runner that computes another, as SV-A2A-13 wants,
\* refuses it (handlers_a2a.go:123, 415).
TokensMeetEtag  == test \in {"11", "12"} => CardEtag = "placeholder"

HType ==
    /\ test \in H!Tests /\ flaw \in {"none"} \cup H!Covered(test) \cup H!Unnoticed(test)
    /\ advertises \in BOOLEAN /\ (flaw = "capsNone" => ~advertises)
    /\ (flaw \in {"capsSome", "capsBare"} => advertises)
    /\ step \in Nat \ {0} /\ net \in {"idle", "sent", "served"} /\ lost \in Nat
    /\ clock \in Nat /\ waited \in 0 .. Latency /\ wake \in Nat /\ seen \in BOOLEAN
    /\ tasks \in [H!Tasks -> [st : {"unseen", "offered", "live", "returned", "regressed"}, at : Nat]]
    /\ net # "idle" => ~H!Ended /\ H!Entry.do # "sleep" /\ wake = 0
    /\ net = "idle" => waited = 0
    /\ wake # 0 => H!Asleep /\ clock <= wake

\* Nothing has been found yet, or there is nothing to be found.
Sound == flaw = "none" \/ H!AllPass
Served(s) == step = s /\ net = "served"
Unserved(s) == step = s /\ net # "served"
Since(k) == clock - tasks[k].at

\* Where a handler with one request, SV-A2A-12 and -14 stand.
One ==
    /\ step > 1 => rows # {} /\ flaw \notin H!Covered(test)
    /\ Unserved(1) => ~seen
    /\ Served(1) => /\ flaw = "none" /\ TokensMeetEtag => reply \in H!Entry.want
                    /\ flaw \in H!Covered(test) => reply \notin H!Entry.want
Twice ==
    /\ step > 2 => rows # {} /\ flaw # "replay"
    /\ step > 1 => flaw # "key"
    /\ Unserved(1) => ~seen
    /\ Served(1) => /\ flaw = "none" /\ CardEtag = "placeholder" => reply \in H!Results
                    /\ flaw = "key" => reply \notin H!Results
                    /\ reply \in H!Results => seen
    /\ step = 2 => seen
    /\ Served(2) => (flaw # "none" \/ reply = "jti-replay") /\ (flaw = "replay" => reply # "jti-replay")
Digests ==
    /\ step > 2 => rows # {} /\ flaw # "transfer"
    /\ step > 4 => flaw # "digest"
    /\ step > 5 => flaw # "retention"
    /\ tasks["t3"].st = "unseen" \/ step > 5 \/ Served(5)
    /\ Served(1) \/ step = 2 => tasks["t1"].st # "unseen"
    /\ Served(3) \/ step = 4 => tasks["t2"].st # "unseen"
    /\ Served(2) => (flaw = "none" => reply = "transferred") /\ (flaw = "transfer" => reply # "transferred")
    /\ Served(4) => (flaw = "none" => reply = "digest-mismatch") /\ (flaw = "digest" => reply # "digest-mismatch")
    /\ Served(5) => /\ flaw = "none" => reply = "workflow-state-incompatible"
                    /\ flaw = "retention" => reply # "workflow-state-incompatible"

\* Where SV-A2A-15 stands: the task that is returned, and that of the hook.
LastRow == IF HookN = 0 THEN 7 ELSE 13
Returned ==
    /\ step > 1 => rows # {} /\ flaw # "unknown"
    /\ step > 4 => flaw \notin {"bare", "unlisted"}
    /\ step > 6 => flaw # "stuck"
    /\ step > LastRow => flaw # "regress"
    /\ Unserved(1) => tasks["t2"].st = "unseen" /\ tasks["t1"].st = "unseen"
    /\ Served(2) \/ Unserved(3) => tasks["t2"].st = "offered"
    /\ Served(3) => tasks["t2"].st = "live" /\ Since("t2") <= waited
    /\ step = 4 => tasks["t2"].st = "live" /\ Since("t2") <= Latency + waited
    /\ Unserved(5) => tasks["t2"].st = "live" /\ Since("t2") <= 2 * Latency + waited
    /\ Served(5) => IF flaw = "stuck" THEN tasks["t2"].st = "live" /\ Since("t2") <= 2 * Latency + waited
                    ELSE tasks["t2"].st = "returned"
    /\ Unserved(6) => IF flaw = "stuck" THEN tasks["t2"].st = "live" /\ Since("t2") <= 3 * Latency + waited
                      ELSE tasks["t2"].st = "returned"
    /\ Served(6) \/ step \in 7 .. LastRow => (flaw = "none" => tasks["t2"].st = "returned")
                                /\ (flaw = "regress" => tasks["t2"].st = "regressed")
    /\ Served(1) => (flaw = "none" => reply = "incompatible") /\ (flaw = "unknown" => reply # "incompatible")
    /\ Served(4) => /\ flaw = "none" => reply = "accepted"
                    /\ flaw = "bare" => reply = "accepted-bare"
                    /\ flaw = "unlisted" => reply = "unlisted"
    /\ Served(6) => (flaw = "none" => reply = "completed") /\ (flaw = "stuck" => reply # "completed")
    /\ Served(LastRow) => (flaw = "none" => reply = "completed") /\ (flaw = "regress" => reply # "completed")
Hooked ==
    /\ step > 10 => flaw # "hook"
    /\ Served(7) \/ Unserved(8) => tasks["t3"].st = "offered"
    /\ Served(8) => tasks["t3"].st = "live" /\ Since("t3") \in 0 .. waited
    /\ step \in 9 .. 12 => tasks["t3"].st = "live"
    /\ step = 9 => IF wake = 0 THEN Since("t3") \in 0 .. Latency
                   ELSE wake - tasks["t3"].at \in HookN + 1 .. HookN + 1 + Latency
    /\ step = 10 => Since("t3") \in HookN + 1 .. HookN + 1 + Latency + waited
    /\ step = 11 => Since("t3") >= HookN + 1 /\ (wake # 0 => wake - tasks["t3"].at >= 2 * HookN + 1)
    /\ step = 12 => Since("t3") >= 2 * HookN + 1
    /\ Served(10) => (flaw = "none" => reply = "executing") /\ (flaw = "hook" => reply # "executing")
    /\ Served(12) => (flaw = "none" => reply = "completed")

\* SV-A2A-16, and SV-A2A-17.
Overdue ==
    /\ step > 4 => rows # {} /\ flaw # "deadline"
    /\ Served(1) \/ Unserved(2) => tasks["t1"].st = "offered"
    /\ Served(2) \/ step \in 3 .. 4 => tasks["t1"].st = "live"
    /\ step = 3 => Since("t1") >= 0 /\ (wake # 0 => wake - tasks["t1"].at >= ProbeSleep)
    /\ step = 4 => Since("t1") >= ProbeSleep
    /\ Served(2) => Since("t1") >= 0
    /\ Served(4) => (flaw = "none" /\ DeadlineHasRoom => reply = "timed-out") /\ (flaw = "deadline" => reply # "timed-out")
Capable ==
    /\ step > 2 => rows # {} /\ flaw # "refuse"
    /\ step > 3 => flaw \notin {"capsNone", "capsSome", "capsBare"}
    /\ Served(2) => (flaw = "none" => reply = "accept") /\ (flaw = "refuse" => reply # "accept")
    /\ Served(3) => /\ flaw = "none" => reply \in H!Entry.want
                    /\ flaw \in {"capsNone", "capsSome", "capsBare"} => reply \notin H!Entry.want
    /\ Served(4) => (flaw = "none" => reply = "accept")

HandoffInv ==
    /\ HType
    /\ flaw = "none" /\ TokensMeetEtag /\ DeadlineHasRoom =>
           \A r \in rows : r[2] = "pass" \/ (lost > 0 /\ r[2] = "error")
    /\ Sound => /\ test \in {"03", "04", "10", "11", "13"} => One
                /\ test = "12" => Twice
                /\ test = "14" => Digests
                /\ test = "15" => Returned /\ (HookN > 0 => Hooked)
                /\ test = "16" => Overdue
                /\ test = "17" => Capable


-----------------------------------------------------------------------------

\* What a handler does next.
Looks(do, task, want) ==
    /\ H!Entry.do = do /\ H!Entry.task = task /\ H!Entry.want = want /\ H!Entry.skip = 0
    /\ H!Entry.read = TRUE /\ H!Entry.row # "first"
Prepares(do, task, skip) ==
    /\ H!Entry.do = do /\ H!Entry.task = task /\ H!Entry.read = FALSE /\ H!Entry.skip = skip
    /\ H!Entry.row # "first"
Sleeps(n) == H!Entry.do = "sleep" /\ H!Entry.want = {n}

\* SV-A2A-03, -04, -10, -11 and -13 look at one answer.
LEMMA Script03 ==
    ASSUME test \in {"03", "04", "10", "11", "13"}, step \in Nat \ {0}
    PROVE  /\ H!Ended <=> step > 1
           /\ step = 1 => \/ test = "03" /\ Looks("describe", "t1", {"described"})
                          \/ test = "04" /\ Looks("offer", "t1", {"accept"})
                          \/ test = "10" /\ Looks("hs256", "t1", {"bad-alg"})
                          \/ test = "11" /\ Looks("signed", "t1", H!Results)
                          \/ test = "13" /\ Looks("stale", "t1", {"card-version-drift"})
<1> USE DEF Looks, H!Ended, H!Entry, H!Script, H!Ask
<1>1. CASE test = "03"
  BY <1>1 DEF H!SVA2A03
<1>2. CASE test = "04"
  BY <1>2 DEF H!SVA2A04
<1>3. CASE test = "10"
  BY <1>3 DEF H!SVA2A10
<1>4. CASE test = "11"
  BY <1>4 DEF H!SVA2A11
<1>5. CASE test = "13"
  BY <1>5 DEF H!SVA2A13
<1> QED BY <1>1, <1>2, <1>3, <1>4, <1>5

\* SV-A2A-12 sends the same token twice.
LEMMA Script12 ==
    ASSUME test = "12", step \in Nat \ {0}
    PROVE  /\ H!Ended <=> step > 2
           /\ step = 1 => /\ H!Entry.do = "signed" /\ H!Entry.task = "t1" /\ H!Entry.want = H!Results
                          /\ H!Entry.read = TRUE /\ H!Entry.row = "first"
           /\ step = 2 => Looks("signed", "t1", {"jti-replay"})
BY DEF Looks, H!Ended, H!Entry, H!Script, H!Ask, H!SVA2A12

\* SV-A2A-14 transfers three tasks, of which it has offered two.
LEMMA Script14 ==
    ASSUME test = "14", step \in Nat \ {0}
    PROVE  /\ H!Ended <=> step > 5
           /\ step = 1 => Prepares("offer", "t1", 1)
           /\ step = 2 => Looks("transfer", "t1", {"transferred"})
           /\ step = 3 => Prepares("offer", "t2", 1)
           /\ step = 4 => Looks("tampered", "t2", {"digest-mismatch"})
           /\ step = 5 => Looks("transfer", "t3", {"workflow-state-incompatible"})
BY DEF Looks, Prepares, H!Ended, H!Entry, H!Script, H!Ask, H!Setup, H!SVA2A14

\* SV-A2A-15 as far as it is the same with and without the hook's rows.
LEMMA Script15 ==
    ASSUME test = "15", step \in Nat \ {0}
    PROVE  /\ H!Ended <=> step > LastRow
           /\ step = 1 => Looks("status", "t1", {"incompatible"})
           /\ step = 2 => Prepares("offer", "t2", 100)
           /\ step = 3 => Prepares("transfer", "t2", 100)
           /\ step = 4 => /\ Looks("status", "t2", {"accepted", "accepted-bare"})
                          /\ H!Entry.row = "after-transfer"
           /\ step = 5 => Prepares("return", "t2", 100)
           /\ step = 6 => Looks("status", "t2", {"completed"})
           /\ step = LastRow => Looks("status", "t2", {"completed"})
<1>1. CASE HookN = 0
  BY <1>1 DEF LastRow, Looks, Prepares, H!Ended, H!Entry, H!Script, H!Ask, H!Setup, H!Rest, H!ExecuteHook, H!SVA2A15
<1>2. CASE HookN # 0
  BY <1>2 DEF LastRow, Looks, Prepares, H!Ended, H!Entry, H!Script, H!Ask, H!Setup, H!Sleep, H!Rest, H!ExecuteHook, H!SVA2A15
<1> QED BY <1>1, <1>2

\* And the rows of the hook, where there is room for it.
LEMMA ScriptHook ==
    ASSUME test = "15", HookN # 0
    PROVE  /\ step = 7 => Prepares("offer", "t3", 5)
           /\ step = 8 => Prepares("transfer", "t3", 4)
           /\ step = 9 => Sleeps(HookN + 1)
           /\ step = 10 => Looks("status", "t3", {"executing"})
           /\ step = 11 => Sleeps(HookN)
           /\ step = 12 => Looks("status", "t3", {"completed"})
BY DEF Sleeps, Looks, Prepares, H!Entry, H!Script, H!Ask, H!Setup, H!Sleep, H!ExecuteHook, H!SVA2A15

\* SV-A2A-16 lets a deadline pass.
LEMMA Script16 ==
    ASSUME test = "16", step \in Nat \ {0}
    PROVE  /\ H!Ended <=> step > 4
           /\ step = 1 => Prepares("offer", "t1", 100)
           /\ step = 2 => Prepares("transfer", "t1", 100)
           /\ step = 3 => Sleeps(ProbeSleep)
           /\ step = 4 => Looks("status", "t1", {"timed-out"})
BY DEF Looks, Prepares, Sleeps, H!Ended, H!Entry, H!Script, H!Ask, H!Setup, H!Sleep, H!Rest, H!SVA2A16

\* SV-A2A-17 negotiates capabilities.
LEMMA Script17 ==
    ASSUME test = "17", step \in Nat \ {0}
    PROVE  /\ H!Ended <=> step > IF advertises THEN 4 ELSE 3
           /\ step = 1 => Prepares("card", "t1", 100)
           /\ step = 2 => Looks("offer", "t1", {"accept"})
           /\ step = 3 => Looks("offer-other", "t2", {IF advertises THEN "mismatch" ELSE "no-caps"})
           /\ step = 4 /\ advertises => Looks("offer-own", "t3", {"accept"})
<1>1. CASE advertises
  BY <1>1 DEF Looks, Prepares, H!Ended, H!Entry, H!Script, H!Ask, H!Setup, H!Rest, H!SVA2A17
<1>2. CASE ~advertises
  BY <1>2 DEF Looks, Prepares, H!Ended, H!Entry, H!Script, H!Ask, H!Setup, H!Rest, H!SVA2A17
<1> QED BY <1>1, <1>2

Verbs == {"describe", "hs256", "signed", "stale", "card", "offer", "offer-other", "offer-own",
          "transfer", "tampered", "status", "return"}

\* The entry at hand is one of the test's.
LEMMA EntryKinds ==
    ASSUME HType, ~H!Ended
    PROVE  \/ \E do \in Verbs : \E task, want : Looks(do, task, want)
           \/ \E do \in Verbs : \E task, skip : skip \in Nat /\ Prepares(do, task, skip)
           \/ \E n : Sleeps(n) /\ n \in {HookN + 1, HookN, ProbeSleep}
           \/ H!Entry.do = "signed" /\ H!Entry.row = "first"
<1> USE DEF HType, Verbs
<1>1. CASE test \in {"03", "04", "10", "11", "13"}
  BY <1>1, Script03
<1>2. CASE test = "12"
  <2>1. step = 1 \/ step = 2
    BY <1>2, Script12
  <2> QED BY <1>2, <2>1, Script12
<1>3. CASE test = "14"
  <2>1. step \in 1 .. 5
    BY <1>3, Script14
  <2> QED BY <1>3, <2>1, Script14
<1>4. CASE test = "15"
  <2>1. step \in 1 .. 13 /\ (HookN = 0 => step \in 1 .. 7)
    BY <1>4, Script15 DEF LastRow
  <2>2. CASE HookN = 0
    BY <1>4, <2>1, <2>2, Script15 DEF LastRow
  <2>3. CASE HookN # 0
    BY <1>4, <2>1, <2>3, Script15, ScriptHook DEF LastRow
  <2> QED BY <2>2, <2>3
<1>5. CASE test = "16"
  <2>1. step \in 1 .. 4
    BY <1>5, Script16
  <2> QED BY <1>5, <2>1, Script16
<1>6. CASE test = "17"
  <2>1. step \in 1 .. 4
    BY <1>6, Script17
  <2> QED BY <1>6, <2>1, Script17
<1> QED BY <1>1, <1>2, <1>3, <1>4, <1>5, <1>6 DEF H!Tests

\* A row that is not a pass is there to stay.
LEMMA RowsStay ==
    ASSUME H!Next, Sound'
    PROVE  Sound
BY DEF H!Next, H!Handler, H!Send, H!Take, H!Lose, H!Doze, H!Wake, H!Serve, H!Tick, Sound, H!AllPass, H!call

\* An answer that is wanted goes on to the next request, and its row is a pass.
LEMMA TakenPasses ==
    ASSUME H!Take, H!AllPass', H!Entry.read = TRUE
    PROVE  reply \in H!Entry.want
<1>1. rows' = rows \cup H!Judged(H!Entry, reply)
  BY DEF H!Take
<1>2. \A r \in H!Judged(H!Entry, reply) : r[2] = "pass"
  BY <1>1 DEF H!AllPass
<1>3. CASE H!Entry.row = "first"
  <2>1. reply \notin H!Entry.want => <<"verdict", "error">> \in H!Judged(H!Entry, reply)
    BY <1>3 DEF H!Judged
  <2> QED BY <2>1, <1>2
<1>4. CASE H!Entry.row = "after-transfer" /\ reply \in H!Statuses
  <2>1. H!Passed("after-transfer", reply \in H!Entry.want) \in H!Judged(H!Entry, reply)
    BY <1>4 DEF H!Judged
  <2> QED BY <2>1, <1>2 DEF H!Passed
<1>5. CASE H!Entry.row # "first" /\ ~(H!Entry.row = "after-transfer" /\ reply \in H!Statuses)
  <2>1. H!Passed(H!Entry.row, reply \in H!Entry.want) \in H!Judged(H!Entry, reply)
    BY <1>5 DEF H!Judged
  <2> QED BY <2>1, <1>2 DEF H!Passed
<1> QED BY <1>3, <1>4, <1>5

\* Any answer adds at most one row, which names the request and what it came to.
LEMMA TakenRow ==
    ASSUME H!Take, H!Entry.read = TRUE, H!Entry.row # "first"
    PROVE  rows' # {}
BY DEF H!Take, H!Judged, H!Passed

\* And a lost one a row that is an error, if any.
LEMMA LostRow ==
    ASSUME H!Lose
    PROVE  rows' # {} /\ ~H!AllPass'
<1>1. PICK row : <<row, "error">> \in rows'
  BY DEF H!Lose
<1>2. <<row, "error">>[2] = "error"
  OBVIOUS
<1> QED BY <1>1, <1>2 DEF H!AllPass

HandoffAssumption == {Latency, HookN, ProbeSleep, Deadline} \subseteq Nat

\* No step is taken by a handler that has ended, and only a sleeping one waits.
LEMMA HandoffBusy ==
    ASSUME HType, net # "idle"
    PROVE  ~H!Ended /\ H!Entry.do # "sleep" /\ wake = 0
BY DEF HType

\* Types are kept, and so is that a handler with a request out does not sleep.
LEMMA HandoffTyped ==
    ASSUME HandoffAssumption, HType, H!Next
    PROVE  HType'
<1>1. test' = test /\ flaw' = flaw /\ advertises' = advertises
  BY DEF H!Next, H!Handler, H!Send, H!Take, H!Lose, H!Doze, H!Wake, H!Serve, H!Tick, H!call
<1>2. H!Covered(test)' = H!Covered(test) /\ H!Unnoticed(test)' = H!Unnoticed(test)
  BY <1>1 DEF H!Covered, H!Unnoticed
<1>3. step' = step => /\ H!Ended' = H!Ended /\ H!Entry' = H!Entry
  BY <1>1 DEF H!Ended, H!Entry, H!Script, H!SVA2A17
<1>4. CASE H!Send
  BY <1>1, <1>2, <1>3, <1>4 DEF HType, H!Send, H!Asleep
<1>5. CASE H!Take
  <2>1. step' \in Nat \ {0}
    BY <1>5 DEF HType, H!Take, H!Rest
  <2> QED BY <1>1, <1>2, <1>5, <2>1 DEF HType, H!Take, HandoffAssumption
<1>6. CASE H!Lose
  <2>1. H!Entry.row # "first" => H!Entry.skip \in Nat
    BY <1>6, EntryKinds DEF H!Lose, HType, Looks, Prepares, Sleeps
  <2>2. step' \in Nat \ {0}
    BY <1>6, <2>1 DEF HType, H!Lose, H!Rest
  <2> QED BY <1>1, <1>2, <1>6, <2>2 DEF HType, H!Lose, HandoffAssumption
<1>7. CASE H!Doze
  <2>1. PICK n : n \in {HookN + 1, HookN, ProbeSleep} /\ H!Entry.want = {n}
    <3>1. ~H!Ended /\ H!Entry.do = "sleep"
      BY <1>7 DEF H!Doze, H!Asleep
    <3>2. ~\E do \in Verbs : \E task, want : Looks(do, task, want)
      BY <3>1 DEF Looks, Verbs
    <3>3. ~\E do \in Verbs : \E task, skip : skip \in Nat /\ Prepares(do, task, skip)
      BY <3>1 DEF Prepares, Verbs
    <3>4. PICK n : Sleeps(n) /\ n \in {HookN + 1, HookN, ProbeSleep}
      BY <3>1, <3>2, <3>3, EntryKinds
    <3> QED BY <3>4 DEF Sleeps
  <2>2. (CHOOSE m \in H!Entry.want : TRUE) = n
    BY <2>1
  <2>3. wake' = clock + n
    BY <1>7, <2>2 DEF H!Doze
  <2> QED BY <1>1, <1>2, <1>3, <1>7, <2>1, <2>3 DEF HType, H!Doze, H!Asleep, HandoffAssumption
<1>8. CASE H!Wake
  BY <1>1, <1>2, <1>8 DEF HType, H!Wake, H!Asleep
<1>9. CASE H!Serve
  <2>1. tasks' \in [H!Tasks -> [st : {"unseen", "offered", "live", "returned", "regressed"}, at : Nat]]
    <3> DEFINE Records == [st : {"unseen", "offered", "live", "returned", "regressed"}, at : Nat]
    <3>1. tasks \in [H!Tasks -> Records] /\ clock \in Nat
      BY DEF HType
    <3>2. \/ tasks' = tasks
          \/ \E k, v : v \in {"offered", "returned", "regressed"} /\ tasks' = [tasks EXCEPT ![k].st = v]
          \/ \E k : tasks' = [tasks EXCEPT ![k] = [st |-> "live", at |-> clock]]
      BY <1>9 DEF H!Serve, H!Registered
    <3>3. ASSUME NEW k, NEW v \in {"offered", "returned", "regressed"}, tasks' = [tasks EXCEPT ![k].st = v]
          PROVE  tasks' \in [H!Tasks -> Records]
      <4>1. tasks' = [j \in H!Tasks |-> IF j = k THEN [tasks[j] EXCEPT !.st = v] ELSE tasks[j]]
        BY <3>1, <3>3
      <4>2. ASSUME NEW j \in H!Tasks PROVE [tasks[j] EXCEPT !.st = v] \in Records /\ tasks[j] \in Records
        <5>1. tasks[j] \in Records
          BY <3>1
        <5> QED BY <3>3, <5>1
      <4> QED BY <4>1, <4>2
    <3>4. ASSUME NEW k, tasks' = [tasks EXCEPT ![k] = [st |-> "live", at |-> clock]]
          PROVE  tasks' \in [H!Tasks -> Records]
      BY <3>1, <3>4
    <3> QED BY <3>1, <3>2, <3>3, <3>4
  <2> QED BY <1>1, <1>2, <1>3, <1>9, <2>1 DEF HType, H!Serve, H!Asleep
<1>10. CASE H!Tick
  BY <1>1, <1>2, <1>3, <1>10 DEF HType, H!Tick, H!Asleep, HandoffAssumption
<1> QED BY <1>4, <1>5, <1>6, <1>7, <1>8, <1>9, <1>10 DEF H!Next, H!Handler

\* One request: what the answer says is settled when it is served.
LEMMA OneStep ==
    ASSUME HType, test \in {"03", "04", "10", "11", "13"}, Sound => One, H!Next
    PROVE  (Sound => One)'
<1> SUFFICES ASSUME Sound'
             PROVE  One'
  OBVIOUS
<1>1. One /\ Sound
  BY RowsStay
<1>2. test' = test /\ flaw' = flaw /\ step \in Nat \ {0}
  BY DEF H!Next, H!Handler, H!Send, H!Take, H!Lose, H!Doze, H!Wake, H!Serve, H!Tick, H!call, HType
<1>3. H!Covered(test)' = H!Covered(test)
  BY <1>2 DEF H!Covered
<1>4. (H!Entry.want)' = H!Entry.want \/ step' # step
  BY <1>2 DEF H!Entry, H!Script, H!SVA2A03, H!SVA2A04, H!SVA2A10, H!SVA2A11, H!SVA2A13
<1>5. ~H!Ended => step = 1 /\ H!Entry.do # "sleep" /\ H!Entry.read = TRUE /\ H!Entry.row # "first" /\ H!Entry.skip = 0
  <2>1. step = 1 => \E do \in {"offer", "describe", "stale", "signed", "hs256"} : \E want : Looks(do, "t1", want)
    BY <1>2, Script03
  <2>2. ~H!Ended => step = 1
    BY <1>2, Script03
  <2> QED BY <2>1, <2>2 DEF Looks
<1>6. CASE H!Send
  BY <1>1, <1>2, <1>3, <1>4, <1>6 DEF H!Send, One, Served, Unserved
<1>7. CASE H!Take
  <2>1. step = 1 /\ step' = 2 /\ rows' # {}
    <3>1. step = 1 /\ H!Entry.read = TRUE /\ H!Entry.row # "first"
      BY <1>5, <1>7, HandoffBusy DEF H!Take
    <3>2. rows' # {}
      BY <1>7, <3>1, TakenRow
    <3> QED BY <1>7, <3>1, <3>2 DEF H!Take
  <2>2. flaw # "none" => reply \in H!Entry.want
    BY <1>2, <1>5, <1>7, <2>1, TakenPasses DEF Sound, HType, H!Take
  <2>3. flaw \notin H!Covered(test)
    <3>1. "none" \notin H!Covered(test)
      BY DEF H!Covered
    <3> QED BY <1>1, <1>7, <2>1, <2>2, <3>1 DEF One, Served, H!Take
  <2> QED BY <1>2, <1>3, <1>7, <2>1, <2>3 DEF One, Served, Unserved, TokensMeetEtag
<1>8. CASE H!Lose
  <2>1. step = 1 /\ step' = 2 /\ rows' # {} /\ flaw = "none"
    BY <1>2, <1>5, <1>8, LostRow DEF H!Lose, HType, Sound
  <2>2. "none" \notin H!Covered(test)
    BY DEF H!Covered
  <2> QED BY <1>2, <1>3, <1>8, <2>1, <2>2 DEF One, Served, Unserved, TokensMeetEtag
<1>9. CASE H!Serve
  <2>1. step = 1 /\ step' = 1 /\ net = "sent" /\ net' = "served" /\ reply' = H!Answer(H!Entry.do, H!Entry.task) /\ ~seen
    BY <1>1, <1>5, <1>9 DEF H!Serve, HType, One, Unserved
  <2>2. flaw = "none" /\ TokensMeetEtag => reply' \in H!Entry.want
    BY <2>1, Script03, <1>2 DEF H!Answer, H!JwtAnswer, H!OfferAnswer, Looks, H!Results, TokensMeetEtag
  <2>3. flaw \in H!Covered(test) => reply' \notin H!Entry.want
    BY <2>1, Script03, <1>2 DEF H!Answer, H!JwtAnswer, H!OfferAnswer, Looks, H!Results, H!Covered
  <2> QED BY <1>2, <1>3, <1>4, <2>1, <2>2, <2>3 DEF One, Served, Unserved, TokensMeetEtag
<1>10. CASE H!Doze \/ H!Wake \/ H!Tick
  BY <1>1, <1>2, <1>3, <1>4, <1>5, <1>10 DEF H!Doze, H!Wake, H!Tick, H!Asleep, One, Served, Unserved, TokensMeetEtag
<1> QED BY <1>6, <1>7, <1>8, <1>9, <1>10 DEF H!Next, H!Handler

\* The replay: a token is known to have been seen once its first use is answered.
LEMMA TwiceStep ==
    ASSUME HType, test = "12", Sound => Twice, H!Next
    PROVE  (Sound => Twice)'
<1> SUFFICES ASSUME Sound'
             PROVE  Twice'
  OBVIOUS
<1>1. Twice /\ Sound
  BY RowsStay
<1>2. test' = test /\ flaw' = flaw /\ step \in Nat \ {0}
  BY DEF H!Next, H!Handler, H!Send, H!Take, H!Lose, H!Doze, H!Wake, H!Serve, H!Tick, H!call, HType
<1>3. flaw \in {"none", "replay", "key"}
  BY DEF HType, H!Covered, H!Unnoticed
<1>5. ~H!Ended => step \in {1, 2} /\ H!Entry.do = "signed" /\ H!Entry.read = TRUE
  <2>1. ~H!Ended => step = 1 \/ step = 2
    BY <1>2, Script12
  <2> QED BY <1>2, <2>1, Script12 DEF Looks
<1>6. CASE H!Send
  BY <1>1, <1>2, <1>6 DEF H!Send, Twice, Served, Unserved
<1>7. CASE H!Take
  <2>0. step \in {1, 2} /\ net = "served" /\ H!Entry.read = TRUE /\ net' = "idle" /\ seen' = seen
    BY <1>5, <1>7 DEF H!Take, HType
  <2>1. flaw # "none" => reply \in H!Entry.want
    BY <1>2, <1>7, <2>0, TakenPasses DEF Sound
  <2>2. CASE step = 1
    <3>1. H!Entry.row = "first" /\ H!Entry.want = H!Results
      BY <1>2, <2>2, Script12
    <3>2. CASE reply \in H!Results
      <4>1. step' = 2 /\ seen /\ flaw # "key"
        BY <1>1, <1>7, <2>0, <2>2, <3>1, <3>2 DEF H!Take, Twice, Served
      <4> QED BY <1>2, <2>0, <4>1 DEF Twice, Served, Unserved
    <3>3. CASE reply \notin H!Results
      <4>1. step' = 101 /\ flaw = "none"
        BY <1>7, <2>1, <2>2, <3>1, <3>3 DEF H!Take, H!Rest
      <4>2. <<"verdict", "error">> \in rows'
        BY <1>7, <2>0, <3>1, <3>3 DEF H!Take, H!Judged
      <4> QED BY <1>2, <4>1, <4>2 DEF Twice, Served, Unserved
    <3> QED BY <3>2, <3>3
  <2>3. CASE step = 2
    <3>1. H!Entry.row # "first" /\ H!Entry.want = {"jti-replay"}
      BY <1>2, <2>3, Script12 DEF Looks
    <3>2. rows' # {}
      BY <1>7, <2>0, <3>1, TakenRow
    <3>4. step' = 3
      BY <1>7, <2>3, <3>1 DEF H!Take
    <3> QED BY <1>1, <1>2, <2>0, <2>1, <2>3, <3>1, <3>2, <3>4 DEF Twice, Served, Unserved
  <2> QED BY <2>0, <2>2, <2>3
<1>8. CASE H!Lose
  <2>1. step' > 2 /\ rows' # {} /\ flaw = "none"
    <3>1. step \in {1, 2} /\ (step = 1 => H!Entry.row = "first") /\ (step = 2 => H!Entry.row # "first" /\ H!Entry.skip = 0)
      BY <1>2, <1>5, <1>8, HandoffBusy, Script12 DEF H!Lose, Looks
    <3> QED BY <1>2, <1>8, <3>1, LostRow DEF H!Lose, Sound, H!Rest
  <2> QED BY <1>2, <2>1 DEF Twice, Served, Unserved
<1>9. CASE H!Serve
  <2>1. /\ step \in {1, 2} /\ step' = step /\ net = "sent" /\ net' = "served" /\ rows' = rows
        /\ reply' = H!JwtAnswer("signed") /\ seen' = (seen \/ reply' = "described")
    BY <1>5, <1>9 DEF H!Serve, HType, H!Answer
  <2> QED BY <1>1, <1>2, <1>3, <2>1 DEF Twice, Served, Unserved, H!JwtAnswer, H!Results
<1>10. CASE H!Doze \/ H!Wake \/ H!Tick
  BY <1>1, <1>2, <1>5, <1>10 DEF H!Doze, H!Wake, H!Tick, H!Asleep, Twice, Served, Unserved
<1> QED BY <1>6, <1>7, <1>8, <1>9, <1>10 DEF H!Next, H!Handler

\* What the registry makes of an offer and of a transfer.
LEMMA Offered ==
    ASSUME HType, flaw # "refuse", NEW k \in H!Tasks
    PROVE  H!Registered("offer", k) = [tasks EXCEPT ![k].st = "offered"]
BY DEF H!Registered, H!OfferAnswer

\* A task that has been offered stays known.
LEMMA Transferred ==
    ASSUME HType, flaw \notin {"transfer", "refuse"}, NEW k \in H!Tasks, tasks[k].st # "unseen"
    PROVE  /\ H!TransferAnswer("transfer", k) = "transferred"
           /\ H!Registered("transfer", k) = [tasks EXCEPT ![k] = [st |-> "live", at |-> clock]]
BY DEF H!Registered, H!TransferAnswer

\* The three transfers of SV-A2A-14, each refused by its own rule.
LEMMA DigestsStep ==
    ASSUME HType, test = "14", Sound => Digests, H!Next
    PROVE  (Sound => Digests)'
<1> SUFFICES ASSUME Sound'
             PROVE  Digests'
  OBVIOUS
<1>1. Digests /\ Sound
  BY RowsStay
<1>2. test' = test /\ flaw' = flaw /\ step \in Nat \ {0}
  BY DEF H!Next, H!Handler, H!Send, H!Take, H!Lose, H!Doze, H!Wake, H!Serve, H!Tick, H!call, HType
<1>3. flaw \in {"none", "digest", "retention", "transfer", "workflow"}
  BY DEF HType, H!Covered, H!Unnoticed
<1>4. ~H!Ended => step = 1 \/ step = 2 \/ step = 3 \/ step = 4 \/ step = 5
  BY <1>2, Script14
<1>5. ~H!Ended => H!Entry.do # "sleep" /\ H!Entry.row # "first"
  BY <1>2, <1>4, Script14 DEF Looks, Prepares
<1>6. CASE H!Send
  BY <1>1, <1>2, <1>6 DEF H!Send, Digests, Served, Unserved
<1>7. CASE H!Take
  <2>1. step \in 1 .. 5 /\ H!Entry.row # "first" /\ net = "served"
    BY <1>4, <1>5, <1>7, HandoffBusy DEF H!Take
  <2>2. step' = step + 1 /\ net' = "idle" /\ tasks' = tasks
    BY <1>7, <2>1 DEF H!Take
  <2>3. step \in {2, 4, 5} => H!Entry.read = TRUE
    BY <1>2, Script14 DEF Looks
  <2>4. step \in {2, 4, 5} => rows' # {} /\ (flaw # "none" => reply \in H!Entry.want)
    BY <1>2, <1>7, <2>1, <2>3, TakenRow, TakenPasses DEF Sound
  <2>5. rows # {} => rows' # {}
    BY <1>7 DEF H!Take
  <2>6. step = 2 => flaw # "transfer"
    BY <1>1, <1>2, <2>1, <2>4, Script14 DEF Digests, Served, Looks
  <2>7. step = 4 => flaw # "digest"
    BY <1>1, <1>2, <2>1, <2>4, Script14 DEF Digests, Served, Looks
  <2>8. step = 5 => flaw # "retention"
    BY <1>1, <1>2, <2>1, <2>4, Script14 DEF Digests, Served, Looks
  <2> QED BY <1>1, <1>2, <2>1, <2>2, <2>4, <2>5, <2>6, <2>7, <2>8 DEF Digests, Served, Unserved
<1>8. CASE H!Lose
  <2>1. step \in 1 .. 5 /\ H!Entry.row # "first"
    BY <1>4, <1>5, <1>8, HandoffBusy DEF H!Lose
  <2>2. H!Entry.skip = IF step \in {1, 3} THEN 1 ELSE 0
    <3>1. step \in {1, 3} => H!Entry.skip = 1
      BY <1>2, Script14 DEF Prepares
    <3>2. step \in {2, 4, 5} => H!Entry.skip = 0
      BY <1>2, Script14 DEF Looks
    <3> QED BY <2>1, <3>1, <3>2
  <2>3. step' = step + 1 + H!Entry.skip /\ net' = "idle" /\ tasks' = tasks
    BY <1>8, <2>1 DEF H!Lose
  <2>4. rows' # {} /\ flaw = "none"
    BY <1>2, <1>8, LostRow DEF Sound
  <2> QED BY <1>1, <1>2, <2>1, <2>2, <2>3, <2>4 DEF Digests, Served, Unserved
<1>9. CASE H!Serve
  <2>1. /\ step \in 1 .. 5 /\ step' = step /\ net' = "served" /\ rows' = rows /\ net = "sent"
        /\ reply' = H!Answer(H!Entry.do, H!Entry.task) /\ tasks' = H!Registered(H!Entry.do, H!Entry.task)
    BY <1>4, <1>9, HandoffBusy DEF H!Serve
  <2>2. tasks \in [H!Tasks -> [st : {"unseen", "offered", "live", "returned", "regressed"}, at : Nat]]
    BY DEF HType
  <2>3. CASE step \in {1, 3}
    <3>1. H!Entry.do = "offer" /\ H!Entry.task = IF step = 1 THEN "t1" ELSE "t2"
      BY <1>2, <2>3, Script14 DEF Prepares
    <3>2. tasks' = [tasks EXCEPT ![H!Entry.task].st = "offered"]
      BY <1>3, <2>1, <3>1, Offered DEF H!Tasks
    <3> QED BY <1>1, <1>2, <2>1, <2>2, <2>3, <3>1, <3>2 DEF Digests, Served, Unserved, H!Tasks
  <2>4. CASE step \in {2, 4, 5}
    <3>1. /\ H!Entry.do = IF step = 4 THEN "tampered" ELSE "transfer"
          /\ H!Entry.task = CASE step = 2 -> "t1" [] step = 4 -> "t2" [] step = 5 -> "t3"
      BY <1>2, <2>4, Script14 DEF Looks
    <3>2. \A k \in H!Tasks : k # H!Entry.task => tasks'[k] = tasks[k]
      BY <2>1, <2>2, <2>4, <3>1 DEF H!Registered, H!Tasks
    <3>3. reply' = H!TransferAnswer(H!Entry.do, H!Entry.task)
      BY <2>1, <3>1 DEF H!Answer
    <3>4. /\ step = 2 => (flaw = "none" => reply' = "transferred") /\ (flaw = "transfer" => reply' # "transferred")
          /\ step = 4 => (flaw = "none" => reply' = "digest-mismatch") /\ (flaw = "digest" => reply' # "digest-mismatch")
          /\ step = 5 => /\ flaw = "none" => reply' = "workflow-state-incompatible"
                         /\ flaw = "retention" => reply' # "workflow-state-incompatible"
      <4>1. CASE step = 2
        BY <1>1, <3>1, <3>3, <4>1 DEF H!TransferAnswer, Digests
      <4>2. CASE step = 4
        BY <1>1, <3>1, <3>3, <4>2 DEF H!TransferAnswer, Digests
      <4>3. CASE step = 5
        BY <1>1, <2>1, <3>1, <3>3, <4>3 DEF H!TransferAnswer, Digests, Served
      <4> QED BY <2>4, <4>1, <4>2, <4>3
    <3>5. CASE step = 2
      <4>1. tasks'["t3"] = tasks["t3"]
        BY <3>1, <3>2, <3>5 DEF H!Tasks
      <4>2. tasks'["t1"].st # "unseen"
        BY <1>1, <2>1, <2>2, <3>1, <3>5 DEF H!Registered, H!Tasks, Digests
      <4> QED BY <1>1, <1>2, <2>1, <3>4, <3>5, <4>1, <4>2 DEF Digests, Served, Unserved
    <3>6. CASE step = 4
      <4>1. tasks'["t3"] = tasks["t3"]
        BY <3>1, <3>2, <3>6 DEF H!Tasks
      <4>2. tasks'["t2"].st # "unseen"
        BY <1>1, <2>1, <2>2, <3>1, <3>6 DEF H!Registered, H!Tasks, Digests
      <4> QED BY <1>1, <1>2, <2>1, <3>4, <3>6, <4>1, <4>2 DEF Digests, Served, Unserved
    <3>7. CASE step = 5
      BY <1>1, <1>2, <2>1, <3>4, <3>7 DEF Digests, Served, Unserved
    <3> QED BY <2>4, <3>5, <3>6, <3>7
  <2> QED BY <2>1, <2>3, <2>4
<1>10. CASE H!Doze \/ H!Wake \/ H!Tick
  BY <1>1, <1>2, <1>5, <1>10 DEF H!Doze, H!Wake, H!Tick, H!Asleep, Digests, Served, Unserved
<1> QED BY <1>6, <1>7, <1>8, <1>9, <1>10 DEF H!Next, H!Handler

\* Where a script of SV-A2A-15 can be, and what it does there.
LEMMA Steps15 ==
    ASSUME HandoffAssumption, HType, test = "15", ~H!Ended
    PROVE  /\ step \in 1 .. 13 /\ (HookN = 0 => step \in 1 .. 7)
           /\ H!Entry.row # "first"
           /\ H!Entry.do = "sleep" <=> HookN # 0 /\ step \in {9, 11}
           /\ step \in {1, 4, 6, 10, 12, LastRow} /\ ~(HookN # 0 /\ step \in {9, 11}) => H!Entry.read = TRUE /\ H!Entry.skip = 0
           /\ step \in {2, 3, 5} => H!Entry.skip = 100
           /\ HookN # 0 => (step = 7 => H!Entry.skip = 5) /\ (step = 8 => H!Entry.skip = 4)
<1>1. step \in 1 .. 13 /\ (HookN = 0 => step \in 1 .. 7)
  <2>1. step \in Nat \ {0}
    BY DEF HType
  <2>2. step <= LastRow
    BY <2>1, Script15 DEF LastRow
  <2> QED BY <2>1, <2>2 DEF LastRow, HandoffAssumption
<1>2. step \in Nat \ {0}
  BY DEF HType
<1>3. CASE step \in {1, 4, 6, LastRow}
  <2>1. \E want : Looks("status", "t1", want) \/ Looks("status", "t2", want)
    BY <1>2, <1>3, Script15
  <2>2. step \notin {2, 3, 5, 7, 8, 9, 11} \/ (HookN = 0 /\ step \notin {2, 3, 5})
    BY <1>3 DEF LastRow
  <2> QED BY <1>1, <2>1, <2>2 DEF Looks
<1>4. CASE step \in {2, 3, 5}
  <2>1. \E do \in {"offer", "transfer", "return"} : Prepares(do, "t2", 100)
    BY <1>2, <1>4, Script15
  <2> QED BY <1>1, <1>4, <2>1 DEF Prepares, LastRow
<1>5. CASE HookN # 0 /\ step \in {7, 8}
  <2>1. (step = 7 => Prepares("offer", "t3", 5)) /\ (step = 8 => Prepares("transfer", "t3", 4))
    BY <1>5, ScriptHook
  <2> QED BY <1>1, <1>5, <2>1 DEF Prepares, LastRow
<1>6. CASE HookN # 0 /\ step \in {9, 11}
  <2>1. H!Entry.do = "sleep" /\ H!Entry.row = "-"
    BY <1>6 DEF H!Entry, H!Script, H!Ask, H!Setup, H!Sleep, H!ExecuteHook, H!SVA2A15
  <2> QED BY <1>1, <1>6, <2>1 DEF LastRow
<1>7. CASE HookN # 0 /\ step \in {10, 12}
  <2>1. \E want : Looks("status", "t3", want)
    BY <1>7, ScriptHook
  <2> QED BY <1>1, <1>7, <2>1 DEF Looks, LastRow
<1>8. \/ step \in {1, 4, 6, LastRow} \/ step \in {2, 3, 5}
      \/ HookN # 0 /\ (step \in {7, 8} \/ step \in {9, 11} \/ step \in {10, 12})
  BY <1>1 DEF LastRow
<1> QED BY <1>3, <1>4, <1>5, <1>6, <1>7, <1>8

\* What SV-A2A-15 makes of an answer.
LEMMA Take15 ==
    ASSUME HandoffAssumption, HType, test = "15", H!Take, Sound'
    PROVE  /\ step \in 1 .. 13 /\ (HookN = 0 => step \in 1 .. 7) /\ ~(HookN # 0 /\ step \in {9, 11})
           /\ net = "served" /\ net' = "idle" /\ step' = step + 1 /\ tasks' = tasks /\ clock' = clock
           /\ waited' = 0 /\ wake' = 0
           /\ rows # {} => rows' # {}
           /\ step \in {1, 4, 6, 10, 12, LastRow} => rows' # {} /\ (flaw # "none" => reply \in H!Entry.want)
<1>1. ~H!Ended /\ H!Entry.do # "sleep" /\ wake = 0 /\ flaw' = flaw
  BY HandoffBusy DEF H!Take, H!call
<1>2. H!Entry.row # "first" /\ step \in 1 .. 13 /\ (HookN = 0 => step \in 1 .. 7) /\ ~(HookN # 0 /\ step \in {9, 11})
  BY <1>1, Steps15
<1>3. /\ net = "served" /\ net' = "idle" /\ step' = step + 1 /\ tasks' = tasks /\ clock' = clock
      /\ waited' = 0 /\ wake' = 0 /\ (rows # {} => rows' # {})
  BY <1>1, <1>2 DEF H!Take
<1>4. step \in {1, 4, 6, 10, 12, LastRow} => H!Entry.read = TRUE
  BY <1>1, <1>2, Steps15
<1>5. step \in {1, 4, 6, 10, 12, LastRow} => rows' # {}
  BY <1>2, <1>4, TakenRow
<1>6. step \in {1, 4, 6, 10, 12, LastRow} /\ flaw # "none" => reply \in H!Entry.want
  BY <1>1, <1>4, TakenPasses DEF Sound
<1> QED BY <1>2, <1>3, <1>5, <1>6

\* And of none.
LEMMA Lose15 ==
    ASSUME HandoffAssumption, HType, test = "15", H!Lose, Sound'
    PROVE  /\ step \in 1 .. 13 /\ (HookN = 0 => step \in 1 .. 7) /\ ~(HookN # 0 /\ step \in {9, 11})
           /\ net' = "idle" /\ tasks' = tasks /\ clock' = clock /\ waited' = 0 /\ wake' = 0
           /\ rows' # {} /\ flaw = "none" /\ flaw' = "none"
           /\ step' = IF step \in {2, 3, 5} THEN step + 101 ELSE IF HookN # 0 /\ step \in {7, 8} THEN 13 ELSE step + 1
<1>1. ~H!Ended /\ H!Entry.do # "sleep" /\ wake = 0 /\ flaw' = flaw
  BY HandoffBusy DEF H!Lose, H!call
<1>2. H!Entry.row # "first" /\ step \in 1 .. 13 /\ (HookN = 0 => step \in 1 .. 7) /\ ~(HookN # 0 /\ step \in {9, 11})
  BY <1>1, Steps15
<1>3. net' = "idle" /\ tasks' = tasks /\ clock' = clock /\ waited' = 0 /\ wake' = 0 /\ step' = step + 1 + H!Entry.skip
  BY <1>1, <1>2 DEF H!Lose
<1>4. rows' # {} /\ flaw = "none"
  BY <1>1, LostRow DEF Sound
<1>5. step \in {2, 3, 5} => H!Entry.skip = 100
  BY <1>1, Steps15
<1>6. HookN # 0 => (step = 7 => H!Entry.skip = 5) /\ (step = 8 => H!Entry.skip = 4)
  BY <1>1, Steps15
<1>7. step \notin {2, 3, 5} /\ ~(HookN # 0 /\ step \in {7, 8}) => H!Entry.skip = 0
  <2>1. step \notin {2, 3, 5} /\ ~(HookN # 0 /\ step \in {7, 8}) => step \in {1, 4, 6, 10, 12, LastRow}
    BY <1>2 DEF LastRow
  <2> QED BY <1>1, <1>2, <2>1, Steps15
<1> QED BY <1>1, <1>2, <1>3, <1>4, <1>5, <1>6, <1>7

\* How far a task has got under SV-A2A-15.
LEMMA Progress15 ==
    ASSUME HandoffAssumption, HookHasRoom, test = "15", HType, NEW k \in H!Tasks
    PROVE  /\ HookN = 0 \/ flaw = "hook" \/ Since(k) < HookN =>
                  H!Progress(k) = IF flaw = "bare" THEN "accepted-bare" ELSE "accepted"
           /\ HookN > 0 /\ flaw # "hook" /\ Since(k) \in HookN .. 2 * HookN - 1 => H!Progress(k) = "executing"
           /\ HookN > 0 /\ flaw # "hook" /\ Since(k) >= 2 * HookN => H!Progress(k) = "completed"
<1>1. Since(k) \in Int /\ H!Age(k) = Since(k)
  BY DEF Since, H!Age, HType, H!Tasks
<1>2. H!Limit = 0 /\ H!Hook = HookN /\ HookN \in Nat
  BY DEF H!Limit, H!Hook, HookHasRoom, HandoffAssumption
<1> QED BY <1>1, <1>2 DEF H!Progress

\* What the Runner's serving does to the two tasks SV-A2A-15 follows.
LEMMA Serve15 ==
    ASSUME HandoffAssumption, HType, test = "15", H!Serve
    PROVE  /\ step \in 1 .. 13 /\ (HookN = 0 => step \in 1 .. 7) /\ ~(HookN # 0 /\ step \in {9, 11})
           /\ net = "sent" /\ net' = "served" /\ step' = step /\ rows' = rows /\ clock' = clock
           /\ waited' = waited /\ wake' = wake /\ waited \in 0 .. Latency /\ wake = 0
           /\ step = 1 => reply' = H!StatusAnswer("t1") /\ tasks' = H!Registered("status", "t1")
           /\ step = 2 => tasks' = [tasks EXCEPT !["t2"].st = "offered"]
           /\ step = 3 => tasks' = H!Registered("transfer", "t2")
           /\ step \in {4, 6, LastRow} => reply' = H!StatusAnswer("t2") /\ tasks' = H!Registered("status", "t2")
           /\ step = 5 => tasks' = H!Registered("return", "t2")
           /\ HookN # 0 /\ step = 7 => tasks' = [tasks EXCEPT !["t3"].st = "offered"]
           /\ HookN # 0 /\ step = 8 => tasks' = H!Registered("transfer", "t3")
           /\ HookN # 0 /\ step \in {10, 12} => reply' = H!StatusAnswer("t3") /\ tasks' = H!Registered("status", "t3")
<1>1. ~H!Ended /\ H!Entry.do # "sleep" /\ wake = 0
  BY HandoffBusy DEF H!Serve
<1>2. step \in 1 .. 13 /\ (HookN = 0 => step \in 1 .. 7) /\ ~(HookN # 0 /\ step \in {9, 11})
  BY <1>1, Steps15
<1>3. /\ net = "sent" /\ net' = "served" /\ step' = step /\ rows' = rows /\ clock' = clock
      /\ waited' = waited /\ wake' = wake /\ waited \in 0 .. Latency
      /\ reply' = H!Answer(H!Entry.do, H!Entry.task) /\ tasks' = H!Registered(H!Entry.do, H!Entry.task)
  BY DEF H!Serve, HType
<1>4. CASE step = 1
  <2>1. H!Entry.do = "status" /\ H!Entry.task = "t1"
    BY <1>2, <1>4, Script15 DEF Looks
  <2> QED BY <1>1, <1>2, <1>3, <1>4, <2>1 DEF H!Answer, LastRow
<1>5. CASE step \in {4, 6, LastRow}
  <2>0. \E want : Looks("status", "t2", want)
    BY <1>2, <1>5, Script15
  <2>1. H!Entry.do = "status" /\ H!Entry.task = "t2"
    BY <2>0 DEF Looks
  <2> QED BY <1>1, <1>2, <1>3, <1>5, <2>1 DEF H!Answer, LastRow
<1>6. CASE step = 2
  <2>1. H!Entry.do = "offer" /\ H!Entry.task = "t2"
    BY <1>2, <1>6, Script15 DEF Prepares
  <2>2. flaw # "refuse"
    BY DEF HType, H!Covered, H!Unnoticed
  <2> QED BY <1>1, <1>2, <1>3, <1>6, <2>1, <2>2, Offered DEF LastRow, H!Tasks
<1>7. CASE step = 3
  <2>1. H!Entry.do = "transfer" /\ H!Entry.task = "t2"
    BY <1>2, <1>7, Script15 DEF Prepares
  <2> QED BY <1>1, <1>2, <1>3, <1>7, <2>1 DEF LastRow
<1>8. CASE step = 5
  <2>1. H!Entry.do = "return" /\ H!Entry.task = "t2"
    BY <1>2, <1>8, Script15 DEF Prepares
  <2> QED BY <1>1, <1>2, <1>3, <1>8, <2>1 DEF LastRow
<1>9. CASE HookN # 0 /\ step = 7
  <2>1. H!Entry.do = "offer" /\ H!Entry.task = "t3"
    BY <1>2, <1>9, ScriptHook DEF Prepares
  <2>2. flaw # "refuse"
    BY DEF HType, H!Covered, H!Unnoticed
  <2> QED BY <1>1, <1>2, <1>3, <1>9, <2>1, <2>2, Offered DEF LastRow, H!Tasks
<1>10. CASE HookN # 0 /\ step = 8
  <2>1. H!Entry.do = "transfer" /\ H!Entry.task = "t3"
    BY <1>2, <1>10, ScriptHook DEF Prepares
  <2> QED BY <1>1, <1>2, <1>3, <1>10, <2>1 DEF LastRow
<1>11. CASE HookN # 0 /\ step \in {10, 12}
  <2>1. H!Entry.do = "status" /\ H!Entry.task = "t3"
    BY <1>2, <1>11, ScriptHook DEF Looks
  <2> QED BY <1>1, <1>2, <1>3, <1>11, <2>1 DEF H!Answer, LastRow
<1>12. \/ step \in {4, 6, LastRow} \/ step = 1 \/ step = 2 \/ step = 3 \/ step = 5
       \/ HookN # 0 /\ (step = 7 \/ step = 8 \/ step \in {9, 11} \/ step \in {10, 12})
  BY <1>2 DEF LastRow
<1> QED BY <1>2, <1>4, <1>5, <1>6, <1>7, <1>8, <1>9, <1>10, <1>11, <1>12

\* The task that is returned: by the time it is asked for it has been, unless it
\* never is, and afterwards it stays so unless it regresses.
LEMMA ReturnedStep ==
    ASSUME HandoffAssumption, HookHasRoom, HType, test = "15", Sound => Returned, H!Next
    PROVE  (Sound => Returned)'
<1> SUFFICES ASSUME Sound'
             PROVE  Returned'
  OBVIOUS
<1>1. Returned /\ Sound
  BY RowsStay
<1>2. test' = test /\ flaw' = flaw /\ step \in Nat \ {0} /\ LastRow' = LastRow /\ Latency \in Nat /\ HookN \in Nat
  BY DEF H!Next, H!Handler, H!Send, H!Take, H!Lose, H!Doze, H!Wake, H!Serve, H!Tick, H!call, HType, LastRow, HandoffAssumption
<1>3. flaw \in {"none", "unknown", "stuck", "regress", "unlisted", "bare", "hook"} /\ (flaw = "hook" => HookN > 0)
  BY DEF HType, H!Covered, H!Unnoticed
<1>4. tasks \in [H!Tasks -> [st : {"unseen", "offered", "live", "returned", "regressed"}, at : Nat]]
      /\ clock \in Nat /\ waited \in 0 .. Latency
  BY DEF HType
<1>6. CASE H!Send
  BY <1>1, <1>2, <1>6 DEF H!Send, Returned, Served, Unserved, Since
<1>7. CASE H!Take
  <2>1. step = 4 /\ flaw \in {"bare", "unlisted"} => FALSE
    <3>1. SUFFICES ASSUME step = 4, flaw \in {"bare", "unlisted"}
                   PROVE  FALSE
      OBVIOUS
    <3>2. H!Entry.row = "after-transfer" /\ H!Entry.want = {"accepted", "accepted-bare"} /\ H!Entry.read = TRUE
      BY <1>2, <3>1, Script15 DEF Looks
    <3>3. reply = "accepted-bare"
      <4>1. reply \in {"accepted", "accepted-bare"}
        BY <1>7, <3>1, <3>2, Take15
      <4>2. net = "served" /\ (flaw = "unlisted" => reply = "unlisted") /\ (flaw = "bare" => reply = "accepted-bare")
        BY <1>1, <1>7, <3>1 DEF Returned, Served, H!Take
      <4> QED BY <3>1, <4>1, <4>2
    <3>4. <<"last-event", "fail">> \in H!Judged(H!Entry, reply)
      BY <3>2, <3>3 DEF H!Judged, H!Statuses, H!Passed
    <3>5. <<"last-event", "fail">> \in rows'
      BY <1>7, <3>4 DEF H!Take
    <3>6. rows' = rows' /\ H!AllPass'
      BY <1>2, <3>1 DEF Sound
    <3> QED BY <3>5, <3>6 DEF H!AllPass
  <2>2. step = 1 => flaw # "unknown"
    <3>1. step = 1 => H!Entry.want = {"incompatible"}
      BY <1>2, Script15 DEF Looks
    <3> QED BY <1>1, <1>7, <3>1, Take15 DEF Returned, Served
  <2>3. step = 6 => flaw # "stuck"
    <3>1. step = 6 => H!Entry.want = {"completed"}
      BY <1>2, Script15 DEF Looks
    <3> QED BY <1>1, <1>7, <3>1, Take15 DEF Returned, Served
  <2>4. step = LastRow => flaw # "regress"
    <3>1. step = LastRow => H!Entry.want = {"completed"}
      BY <1>2, Script15 DEF Looks
    <3> QED BY <1>1, <1>7, <3>1, Take15 DEF Returned, Served
  <2>5. /\ step \in 1 .. 13 /\ step' = step + 1 /\ net = "served" /\ net' = "idle" /\ tasks' = tasks /\ clock' = clock
        /\ waited' = 0 /\ (rows # {} \/ step = 1 => rows' # {})
    BY <1>7, Take15
  <2>6. LastRow \in {7, 13}
    BY DEF LastRow
  <2>7. rows' # {} /\ Since("t2")' = Since("t2") /\ Since("t2") \in Int
    BY <1>1, <1>4, <2>5 DEF Returned, Since, H!Tasks
  <2>8. CASE step \in 1 .. 3
    BY <1>1, <1>2, <1>4, <2>2, <2>5, <2>6, <2>7, <2>8 DEF Returned, Served, Unserved
  <2>9. CASE step = 4
    BY <1>1, <1>2, <1>4, <2>1, <2>5, <2>6, <2>7, <2>9 DEF Returned, Served, Unserved
  <2>10. CASE step = 5
    BY <1>1, <1>2, <1>4, <2>5, <2>6, <2>7, <2>10 DEF Returned, Served, Unserved
  <2>11. CASE step = 6
    BY <1>1, <1>2, <1>4, <2>3, <2>5, <2>6, <2>7, <2>11 DEF Returned, Served, Unserved
  <2>12. CASE step \in 7 .. 13 /\ step # LastRow
    BY <1>1, <1>2, <2>5, <2>6, <2>7, <2>12 DEF Returned, Served, Unserved
  <2>13. CASE step = LastRow
    BY <1>1, <1>2, <2>4, <2>5, <2>6, <2>7, <2>13 DEF Returned, Served, Unserved
  <2> QED BY <2>5, <2>8, <2>9, <2>10, <2>11, <2>12, <2>13
<1>8. CASE H!Lose
  <2>1. /\ step \in 1 .. 13 /\ net' = "idle" /\ tasks' = tasks /\ clock' = clock /\ waited' = 0
        /\ rows' # {} /\ flaw = "none"
        /\ step' = IF step \in {2, 3, 5} THEN step + 101 ELSE IF HookN # 0 /\ step \in {7, 8} THEN 13 ELSE step + 1
    BY <1>8, Lose15
  <2>2. LastRow \in {7, 13} /\ (LastRow = 7 => HookN = 0)
    BY DEF LastRow
  <2>3. Since("t2")' = Since("t2") /\ Since("t2") \in Int
    BY <1>4, <2>1 DEF Since, H!Tasks
  <2>4. CASE step \in {1, 2, 3, 4, 5}
    BY <1>1, <1>2, <1>4, <2>1, <2>2, <2>3, <2>4 DEF Returned, Served, Unserved
  <2>5. CASE step = 6
    BY <1>1, <1>2, <1>4, <2>1, <2>2, <2>3, <2>5 DEF Returned, Served, Unserved
  <2>6. CASE step \in 7 .. 13
    BY <1>1, <1>2, <1>4, <2>1, <2>2, <2>6 DEF Returned, Served, Unserved
  <2> QED BY <2>1, <2>4, <2>5, <2>6
<1>10. CASE H!Doze \/ H!Wake
  <2>1. ~H!Ended /\ H!Entry.do = "sleep"
    BY <1>10 DEF H!Doze, H!Wake, H!Asleep
  <2>2. HookN # 0 /\ step \in {9, 11} /\ LastRow = 13
    BY <2>1, Steps15 DEF LastRow
  <2>3. step' \in {step, step + 1} /\ net' = net /\ net = "idle" /\ tasks' = tasks /\ rows' = rows
    <3>1. net = "idle"
      BY <2>1 DEF HType
    <3> QED BY <1>10, <3>1 DEF H!Doze, H!Wake
  <2> QED BY <1>1, <1>2, <2>2, <2>3 DEF Returned, Served, Unserved
<1>11. CASE H!Tick
  <2>1. net' = net /\ step' = step /\ tasks' = tasks /\ clock' = clock + 1 /\ rows' = rows /\ reply' = reply
    BY <1>11 DEF H!Tick
  <2>2. CASE waited' = waited + 1
    BY <1>1, <1>2, <1>4, <2>1, <2>2 DEF Returned, Served, Unserved, Since, H!Tasks
  <2>3. CASE H!Asleep
    <3>1. HookN # 0 /\ step \in {9, 11} /\ LastRow = 13
      BY <2>3, Steps15 DEF LastRow, H!Asleep
    <3> QED BY <1>1, <1>2, <2>1, <3>1 DEF Returned, Served, Unserved
  <2> QED BY <1>11, <2>2, <2>3 DEF H!Tick
<1>9. CASE H!Serve
  <2>1. /\ step \in 1 .. 13 /\ (HookN = 0 => step \in 1 .. 7) /\ ~(HookN # 0 /\ step \in {9, 11})
        /\ net = "sent" /\ net' = "served" /\ step' = step /\ rows' = rows /\ clock' = clock
        /\ waited' = waited
    BY <1>9, Serve15
  <2>2. CASE step = 1
    <3>1. tasks["t1"].st = "unseen"
      BY <1>1, <2>1, <2>2 DEF Returned, Unserved
    <3>2. reply' = (IF flaw = "unknown" THEN "accepted" ELSE "incompatible") /\ tasks' = tasks
      BY <1>9, <2>2, <3>1, Serve15 DEF H!StatusAnswer, H!Registered
    <3> QED BY <1>1, <1>2, <2>1, <2>2, <3>2 DEF Returned, Served, Unserved, LastRow
  <2>3. CASE step = 2
    <3>1. tasks'["t2"].st = "offered"
      BY <1>4, <1>9, <2>3, Serve15 DEF H!Tasks
    <3> QED BY <1>1, <1>2, <2>1, <2>3, <3>1 DEF Returned, Served, Unserved, LastRow
  <2>4. CASE step = 3
    <3>1. tasks["t2"].st = "offered"
      BY <1>1, <2>1, <2>4 DEF Returned, Unserved
    <3>2. tasks' = [tasks EXCEPT !["t2"] = [st |-> "live", at |-> clock]]
      BY <1>3, <1>9, <2>4, <3>1, Serve15, Transferred DEF H!Tasks
    <3>3. tasks'["t2"].st = "live" /\ Since("t2")' = 0
      BY <1>4, <2>1, <3>2 DEF H!Tasks, Since
    <3> QED BY <1>1, <1>2, <1>4, <2>1, <2>4, <3>3 DEF Returned, Served, Unserved, LastRow
  <2>5. CASE step = 4
    <3>1. tasks["t2"].st = "live" /\ Since("t2") <= Latency + waited
      BY <1>1, <2>5 DEF Returned
    <3>2. H!Progress("t2") = IF flaw = "bare" THEN "accepted-bare" ELSE "accepted"
      BY <1>2, <1>4, <3>1, Progress15 DEF H!Tasks, HookHasRoom, Since
    <3>3. tasks' = tasks
      BY <1>9, <2>5, <3>1, Serve15 DEF H!Registered
    <3>4. reply' = IF flaw = "unlisted" THEN "unlisted" ELSE IF flaw = "bare" THEN "accepted-bare" ELSE "accepted"
      BY <1>9, <2>5, <3>1, <3>2, Serve15 DEF H!StatusAnswer
    <3>5. Since("t2")' = Since("t2")
      BY <2>1, <3>3 DEF Since
    <3> QED BY <1>1, <1>2, <2>1, <2>5, <3>1, <3>3, <3>4, <3>5 DEF Returned, Served, Unserved, LastRow
  <2>6. CASE step = 5
    <3>1. tasks["t2"].st = "live" /\ Since("t2") <= 2 * Latency + waited
      BY <1>1, <2>1, <2>6 DEF Returned, Unserved
    <3>2. H!Progress("t2") \in {"accepted", "accepted-bare", "executing"}
      <4>1. Since("t2") \in Int /\ (HookN = 0 \/ Since("t2") < HookN \/ Since("t2") \in HookN .. 2 * HookN - 1)
        BY <1>2, <1>4, <3>1 DEF H!Tasks, HookHasRoom, Since
      <4> QED BY <1>2, <4>1, Progress15 DEF H!Tasks
    <3>3. tasks' = IF flaw = "stuck" THEN tasks ELSE [tasks EXCEPT !["t2"].st = "returned"]
      BY <1>9, <2>6, <3>1, <3>2, Serve15 DEF H!Registered
    <3>4. flaw = "stuck" => tasks' = tasks /\ Since("t2")' = Since("t2")
      BY <2>1, <3>3 DEF Since
    <3>5. flaw # "stuck" => tasks'["t2"].st = "returned"
      BY <1>4, <3>3 DEF H!Tasks
    <3> QED BY <1>1, <1>2, <2>1, <2>6, <3>1, <3>4, <3>5 DEF Returned, Served, Unserved, LastRow
  <2>7. CASE step = 6
    <3>0. step \in {4, 6, LastRow}
      BY <2>7
    <3>1. CASE flaw = "stuck"
      <4>1. tasks["t2"].st = "live" /\ Since("t2") <= 3 * Latency + waited
        BY <1>1, <2>1, <2>7, <3>1 DEF Returned, Unserved
      <4>2. Since("t2") \in Int /\ (HookN = 0 \/ Since("t2") < HookN \/ Since("t2") \in HookN .. 2 * HookN - 1)
        BY <1>2, <1>4, <4>1 DEF H!Tasks, HookHasRoom, Since
      <4>3. H!Progress("t2") # "completed"
        BY <1>2, <4>2, Progress15 DEF H!Tasks
      <4>4. tasks' = tasks /\ reply' # "completed"
        BY <1>9, <3>0, <3>1, <4>1, <4>3, Serve15 DEF H!Registered, H!StatusAnswer
      <4> QED BY <1>1, <1>2, <2>1, <2>7, <3>1, <4>1, <4>4 DEF Returned, Served, Unserved, LastRow
    <3>2. CASE flaw # "stuck"
      <4>1. tasks["t2"].st = "returned"
        BY <1>1, <2>1, <2>7, <3>2 DEF Returned, Unserved
      <4>2. tasks' = IF flaw = "regress" THEN [tasks EXCEPT !["t2"].st = "regressed"] ELSE tasks
        BY <1>9, <3>0, <4>1, Serve15 DEF H!Registered
      <4>3. flaw = "none" => reply' = "completed" /\ tasks'["t2"].st = "returned"
        BY <1>9, <3>0, <4>1, <4>2, Serve15 DEF H!StatusAnswer
      <4>4. flaw = "regress" => tasks'["t2"].st = "regressed"
        BY <1>4, <4>2 DEF H!Tasks
      <4> QED BY <1>1, <1>2, <2>1, <2>7, <3>2, <4>3, <4>4 DEF Returned, Served, Unserved, LastRow
    <3> QED BY <3>1, <3>2
  <2>8. CASE step = LastRow
    <3>1. /\ flaw = "none" => tasks["t2"].st = "returned"
          /\ flaw = "regress" => tasks["t2"].st = "regressed"
      BY <1>1, <2>1, <2>8 DEF Returned, LastRow
    <3>2. /\ flaw = "none" => tasks' = tasks /\ reply' = "completed"
          /\ flaw = "regress" => tasks' = tasks /\ reply' # "completed"
      BY <1>9, <2>8, <3>1, Serve15 DEF H!StatusAnswer, H!Registered
    <3> QED BY <1>1, <1>2, <2>1, <2>8, <3>1, <3>2 DEF Returned, Served, Unserved, LastRow
  <2>9. CASE HookN # 0 /\ step \in {7, 8, 10, 12}
    <3>1. tasks'["t2"] = tasks["t2"]
      <4>1. CASE step = 7
        BY <1>4, <1>9, <2>9, <4>1, Serve15 DEF H!Tasks
      <4>2. CASE step = 8
        BY <1>4, <1>9, <2>9, <4>2, Serve15 DEF H!Tasks, H!Registered
      <4>3. CASE step \in {10, 12}
        BY <1>4, <1>9, <2>9, <4>3, Serve15 DEF H!Tasks, H!Registered
      <4> QED BY <2>9, <4>1, <4>2, <4>3
    <3>2. LastRow = 13
      BY <2>9 DEF LastRow
    <3> QED BY <1>1, <1>2, <2>1, <2>9, <3>1, <3>2 DEF Returned, Served, Unserved
  <2>10. \/ step = 1 \/ step = 2 \/ step = 3 \/ step = 4 \/ step = 5 \/ step = 6 \/ step = LastRow
         \/ HookN # 0 /\ step \in {7, 8, 10, 12}
    BY <2>1 DEF LastRow
  <2> QED BY <2>2, <2>3, <2>4, <2>5, <2>6, <2>7, <2>8, <2>9, <2>10
<1> QED BY <1>6, <1>7, <1>8, <1>9, <1>10, <1>11 DEF H!Next, H!Handler

\* The task of the hook: asked for in the window in which it must still execute,
\* and again when it must not.
LEMMA HookedStep ==
    ASSUME HandoffAssumption, HookHasRoom, HType, test = "15", HookN > 0, Sound => Hooked, H!Next
    PROVE  (Sound => Hooked)'
<1> SUFFICES ASSUME Sound'
             PROVE  Hooked'
  OBVIOUS
<1>1. Hooked /\ Sound
  BY RowsStay
<1>2. test' = test /\ flaw' = flaw /\ step \in Nat \ {0} /\ LastRow = 13 /\ Latency \in Nat /\ HookN \in Nat \ {0}
  BY DEF H!Next, H!Handler, H!Send, H!Take, H!Lose, H!Doze, H!Wake, H!Serve, H!Tick, H!call, HType, LastRow, HandoffAssumption
<1>3. flaw \in {"none", "unknown", "stuck", "regress", "unlisted", "bare", "hook"}
  BY DEF HType, H!Covered, H!Unnoticed
<1>4. tasks \in [H!Tasks -> [st : {"unseen", "offered", "live", "returned", "regressed"}, at : Nat]]
      /\ clock \in Nat /\ waited \in 0 .. Latency /\ wake \in Nat
  BY DEF HType
<1>5. Since("t3") \in Int
  BY <1>4 DEF Since, H!Tasks
<1>6. CASE H!Send
  BY <1>1, <1>2, <1>6 DEF H!Send, Hooked, Served, Unserved, Since
<1>7. CASE H!Take
  <2>1. /\ step \in 1 .. 13 /\ step \notin {9, 11} /\ step' = step + 1 /\ net = "served" /\ net' = "idle"
        /\ tasks' = tasks /\ clock' = clock /\ waited' = 0 /\ wake' = 0
    BY <1>2, <1>7, Take15
  <2>2. step = 10 => flaw # "hook"
    <3>1. step = 10 => H!Entry.want = {"executing"}
      BY <1>2, ScriptHook DEF Looks
    <3> QED BY <1>1, <1>7, <2>1, <3>1, Take15 DEF Hooked, Served
  <2>3. Since("t3")' = Since("t3")
    BY <2>1 DEF Since
  <2> QED BY <1>1, <1>2, <1>4, <1>5, <2>1, <2>2, <2>3 DEF Hooked, Served, Unserved
<1>8. CASE H!Lose
  <2>1. /\ step \in 1 .. 13 /\ step \notin {9, 11} /\ net' = "idle" /\ tasks' = tasks /\ clock' = clock /\ waited' = 0
        /\ wake' = 0 /\ flaw = "none"
        /\ step' = IF step \in {2, 3, 5} THEN step + 101 ELSE IF step \in {7, 8} THEN 13 ELSE step + 1
    BY <1>2, <1>8, Lose15
  <2>3. Since("t3")' = Since("t3")
    BY <2>1 DEF Since
  <2> QED BY <1>1, <1>2, <1>4, <1>5, <2>1, <2>3 DEF Hooked, Served, Unserved
<1>9. CASE H!Doze
  <2>1. ~H!Ended /\ H!Entry.do = "sleep" /\ wake = 0
    BY <1>9 DEF H!Doze, H!Asleep
  <2>2. step = 9 \/ step = 11
    BY <1>2, <2>1, Steps15
  <2>3. step' = step /\ net' = net /\ tasks' = tasks /\ clock' = clock /\ Since("t3")' = Since("t3")
    BY <1>9 DEF H!Doze, Since
  <2>0. wake' = clock + IF step = 9 THEN HookN + 1 ELSE HookN
    <3>1. H!Entry.want = {IF step = 9 THEN HookN + 1 ELSE HookN}
      BY <1>2, <2>2, ScriptHook DEF Sleeps
    <3>2. (CHOOSE n \in H!Entry.want : TRUE) = IF step = 9 THEN HookN + 1 ELSE HookN
      BY <3>1
    <3> QED BY <1>9, <3>2 DEF H!Doze
  <2>4. wake' - tasks["t3"].at = Since("t3") + IF step = 9 THEN HookN + 1 ELSE HookN
    BY <1>2, <1>4, <2>0 DEF Since, H!Tasks
  <2>5. wake' # 0
    BY <1>2, <1>4, <2>0
  <2>6. wake' - tasks'["t3"].at = wake' - tasks["t3"].at
    BY <2>3
  <2> QED BY <1>1, <1>2, <1>5, <2>1, <2>2, <2>3, <2>4, <2>5, <2>6 DEF Hooked, Served, Unserved
<1>10. CASE H!Wake
  <2>1. ~H!Ended /\ H!Entry.do = "sleep" /\ wake # 0 /\ clock = wake
    BY <1>4, <1>10 DEF H!Wake, H!Asleep, HType
  <2>2. (step = 9 \/ step = 11) /\ net = "idle" /\ waited = 0
    BY <1>2, <2>1, Steps15 DEF HType
  <2>3. step' = step + 1 /\ net' = net /\ tasks' = tasks /\ Since("t3")' = Since("t3") /\ wake' = 0 /\ waited' = waited
    BY <1>10 DEF H!Wake, Since
  <2>4. wake - tasks["t3"].at = Since("t3")
    BY <2>1 DEF Since
  <2> QED BY <1>1, <1>2, <1>5, <2>1, <2>2, <2>3, <2>4 DEF Hooked, Served, Unserved
<1>11. CASE H!Tick
  <2>1. net' = net /\ step' = step /\ tasks' = tasks /\ clock' = clock + 1 /\ reply' = reply /\ wake' = wake
    BY <1>11 DEF H!Tick
  <2>2. Since("t3")' = Since("t3") + 1 /\ wake' - tasks'["t3"].at = wake - tasks["t3"].at
    BY <1>4, <2>1 DEF Since, H!Tasks
  <2>3. CASE net # "idle" /\ waited' = waited + 1
    <3>1. wake = 0 /\ step \notin {9, 11}
      <4>1. ~H!Ended /\ H!Entry.do # "sleep" /\ wake = 0
        BY <2>3, HandoffBusy
      <4> QED BY <1>2, <4>1, Steps15
    <3> QED BY <1>1, <1>2, <1>4, <1>5, <2>1, <2>2, <2>3, <3>1 DEF Hooked, Served, Unserved
  <2>4. CASE H!Asleep /\ clock < wake
    <3>1. step = 9 \/ step = 11
      BY <1>2, <2>4, Steps15 DEF H!Asleep
    <3>2. wake # 0
      BY <1>4, <2>4
    <3> QED BY <1>1, <1>2, <1>4, <1>5, <2>1, <2>2, <3>1, <3>2 DEF Hooked, Served, Unserved
  <2> QED BY <1>11, <2>3, <2>4 DEF H!Tick
<1>12. CASE H!Serve
  <2>1. /\ step \in 1 .. 13 /\ step \notin {9, 11} /\ net = "sent" /\ net' = "served" /\ step' = step /\ clock' = clock
        /\ waited' = waited /\ wake' = wake /\ wake = 0
    BY <1>2, <1>12, Serve15
  <2>2. CASE step \in 1 .. 6 \/ step = 13
    BY <1>1, <1>2, <2>1, <2>2 DEF Hooked, Served, Unserved
  <2>3. CASE step = 7
    <3>1. tasks'["t3"].st = "offered"
      BY <1>2, <1>4, <1>12, <2>3, Serve15 DEF H!Tasks
    <3> QED BY <1>1, <1>2, <2>1, <2>3, <3>1 DEF Hooked, Served, Unserved
  <2>4. CASE step = 8
    <3>1. tasks["t3"].st = "offered"
      BY <1>1, <2>1, <2>4 DEF Hooked, Unserved
    <3>2. tasks' = [tasks EXCEPT !["t3"] = [st |-> "live", at |-> clock]]
      BY <1>2, <1>3, <1>12, <2>4, <3>1, Serve15, Transferred DEF H!Tasks
    <3>3. tasks'["t3"].st = "live" /\ Since("t3")' = 0
      BY <1>4, <2>1, <3>2 DEF H!Tasks, Since
    <3> QED BY <1>1, <1>2, <1>4, <2>1, <2>4, <3>3 DEF Hooked, Served, Unserved
  <2>5. CASE step = 10
    <3>1. tasks["t3"].st = "live" /\ Since("t3") \in HookN + 1 .. HookN + 1 + Latency + waited
      BY <1>1, <2>5 DEF Hooked
    <3>2. Since("t3") \in HookN .. 2 * HookN - 1
      BY <1>2, <1>4, <3>1 DEF HookHasRoom
    <3>3. tasks' = tasks /\ reply' = IF flaw = "unlisted" THEN "unlisted" ELSE H!Progress("t3")
      BY <1>2, <1>12, <2>5, <3>1, Serve15 DEF H!Registered, H!StatusAnswer
    <3>4. (flaw = "none" => reply' = "executing") /\ (flaw = "hook" => reply' # "executing")
      BY <1>2, <3>2, <3>3, Progress15 DEF H!Tasks
    <3>5. Since("t3")' = Since("t3")
      BY <2>1, <3>3 DEF Since
    <3> QED BY <1>1, <1>2, <1>4, <2>1, <2>5, <3>1, <3>3, <3>4, <3>5 DEF Hooked, Served, Unserved
  <2>6. CASE step = 12
    <3>1. tasks["t3"].st = "live" /\ Since("t3") >= 2 * HookN + 1
      BY <1>1, <2>6 DEF Hooked
    <3>3. tasks' = tasks /\ reply' = IF flaw = "unlisted" THEN "unlisted" ELSE H!Progress("t3")
      BY <1>2, <1>12, <2>6, <3>1, Serve15 DEF H!Registered, H!StatusAnswer
    <3>4. flaw = "none" => reply' = "completed"
      BY <1>2, <1>5, <3>1, <3>3, Progress15 DEF H!Tasks
    <3>5. Since("t3")' = Since("t3")
      BY <2>1, <3>3 DEF Since
    <3> QED BY <1>1, <1>2, <2>1, <2>6, <3>1, <3>3, <3>4, <3>5 DEF Hooked, Served, Unserved
  <2> QED BY <2>1, <2>2, <2>3, <2>4, <2>5, <2>6
<1> QED BY <1>6, <1>7, <1>8, <1>9, <1>10, <1>11, <1>12 DEF H!Next, H!Handler

\* The task whose deadline passes while the handler sleeps.
LEMMA OverdueStep ==
    ASSUME HandoffAssumption, HookHasRoom, HType, test = "16", Sound => Overdue, H!Next
    PROVE  (Sound => Overdue)'
<1> SUFFICES ASSUME Sound'
             PROVE  Overdue'
  OBVIOUS
<1>1. Overdue /\ Sound
  BY RowsStay
<1>2. test' = test /\ flaw' = flaw /\ step \in Nat \ {0} /\ ProbeSleep \in Nat /\ Deadline \in Nat
  BY DEF H!Next, H!Handler, H!Send, H!Take, H!Lose, H!Doze, H!Wake, H!Serve, H!Tick, H!call, HType, HandoffAssumption
<1>3. flaw \in {"none", "deadline"}
  BY DEF HType, H!Covered, H!Unnoticed
<1>4. tasks \in [H!Tasks -> [st : {"unseen", "offered", "live", "returned", "regressed"}, at : Nat]]
      /\ clock \in Nat /\ wake \in Nat
  BY DEF HType
<1>5. Since("t1") \in Int
  BY <1>4 DEF Since, H!Tasks
<1>13. ~H!Ended => step = 1 \/ step = 2 \/ step = 3 \/ step = 4
  BY <1>2, Script16
<1>14. ~H!Ended => H!Entry.row # "first" /\ (H!Entry.do = "sleep" <=> step = 3)
  <2>1. step = 3 => H!Entry.row = "-"
    BY <1>2 DEF H!Entry, H!Script, H!Ask, H!Setup, H!Sleep, H!SVA2A16
  <2> QED BY <1>2, <1>13, <2>1, Script16 DEF Looks, Prepares, Sleeps
<1>6. CASE H!Send
  BY <1>1, <1>2, <1>6 DEF H!Send, Overdue, Served, Unserved, Since
<1>7. CASE H!Take
  <2>1. step \in {1, 2, 4} /\ H!Entry.row # "first" /\ wake = 0
    BY <1>7, <1>13, <1>14, HandoffBusy DEF H!Take
  <2>2. step' = step + 1 /\ net = "served" /\ net' = "idle" /\ tasks' = tasks /\ clock' = clock /\ wake' = 0
    BY <1>7, <2>1 DEF H!Take
  <2>3. step = 4 => H!Entry.read = TRUE /\ H!Entry.want = {"timed-out"}
    BY <1>2, Script16 DEF Looks
  <2>4. step = 4 => rows' # {} /\ (flaw # "none" => reply = "timed-out")
    BY <1>2, <1>7, <2>1, <2>3, TakenRow, TakenPasses DEF Sound
  <2>5. step = 4 => flaw # "deadline"
    BY <1>1, <2>2, <2>4 DEF Overdue, Served
  <2>6. Since("t1")' = Since("t1")
    BY <2>2 DEF Since
  <2> QED BY <1>1, <1>2, <1>5, <2>1, <2>2, <2>4, <2>5, <2>6 DEF Overdue, Served, Unserved
<1>8. CASE H!Lose
  <2>1. step \in {1, 2, 4} /\ H!Entry.row # "first"
    BY <1>8, <1>13, <1>14, HandoffBusy DEF H!Lose
  <2>2. (step \in {1, 2} => H!Entry.skip = 100) /\ (step = 4 => H!Entry.skip = 0)
    BY <1>2, Script16 DEF Prepares, Looks
  <2>3. step' > 4
    BY <1>8, <2>1, <2>2 DEF H!Lose
  <2> QED BY <1>2, <1>8, <2>3, LostRow DEF Overdue, Served, Unserved, Sound
<1>9. CASE H!Doze
  <2>1. step = 3 /\ wake = 0
    BY <1>9, <1>13, <1>14 DEF H!Doze, H!Asleep
  <2>2. wake' = clock + ProbeSleep
    <3>1. H!Entry.want = {ProbeSleep}
      BY <1>2, <2>1, Script16 DEF Sleeps
    <3>2. (CHOOSE n \in H!Entry.want : TRUE) = ProbeSleep
      BY <3>1
    <3> QED BY <1>9, <3>2 DEF H!Doze
  <2>3. step' = step /\ net' = net /\ tasks' = tasks /\ Since("t1")' = Since("t1")
    BY <1>9 DEF H!Doze, Since
  <2>4. wake' - tasks'["t1"].at = Since("t1") + ProbeSleep
    BY <1>2, <1>4, <2>2, <2>3 DEF Since, H!Tasks
  <2> QED BY <1>1, <1>2, <1>5, <2>1, <2>3, <2>4 DEF Overdue, Served, Unserved
<1>10. CASE H!Wake
  <2>1. step = 3 /\ wake # 0 /\ clock = wake /\ net = "idle"
    BY <1>4, <1>10, <1>13, <1>14 DEF H!Wake, H!Asleep, HType
  <2>2. step' = 4 /\ net' = net /\ tasks' = tasks /\ Since("t1")' = Since("t1")
    BY <1>10, <2>1 DEF H!Wake, Since
  <2>3. wake - tasks["t1"].at = Since("t1")
    BY <2>1 DEF Since
  <2> QED BY <1>1, <1>2, <1>5, <2>1, <2>2, <2>3 DEF Overdue, Served, Unserved
<1>11. CASE H!Tick
  <2>1. net' = net /\ step' = step /\ tasks' = tasks /\ clock' = clock + 1 /\ reply' = reply /\ wake' = wake /\ rows' = rows
    BY <1>11 DEF H!Tick
  <2>2. Since("t1")' = Since("t1") + 1 /\ wake' - tasks'["t1"].at = wake - tasks["t1"].at
    BY <1>4, <2>1 DEF Since, H!Tasks
  <2> QED BY <1>1, <1>2, <1>5, <2>1, <2>2 DEF Overdue, Served, Unserved
<1>12. CASE H!Serve
  <2>1. /\ step \in {1, 2, 4} /\ net = "sent" /\ net' = "served" /\ step' = step /\ rows' = rows /\ clock' = clock /\ wake' = wake
        /\ reply' = H!Answer(H!Entry.do, H!Entry.task) /\ tasks' = H!Registered(H!Entry.do, H!Entry.task)
    BY <1>12, <1>13, <1>14, HandoffBusy DEF H!Serve
  <2>2. CASE step = 1
    <3>1. tasks' = [tasks EXCEPT !["t1"].st = "offered"]
      <4>1. H!Entry.do = "offer" /\ H!Entry.task = "t1"
        BY <1>2, <2>2, Script16 DEF Prepares
      <4> QED BY <1>3, <2>1, <4>1, Offered DEF H!Tasks
    <3>2. tasks'["t1"].st = "offered"
      BY <1>4, <3>1 DEF H!Tasks
    <3> QED BY <1>1, <1>2, <2>1, <2>2, <3>2 DEF Overdue, Served, Unserved
  <2>3. CASE step = 2
    <3>1. H!Entry.do = "transfer" /\ H!Entry.task = "t1" /\ tasks["t1"].st = "offered"
      BY <1>1, <1>2, <2>1, <2>3, Script16 DEF Prepares, Overdue, Unserved
    <3>2. tasks' = [tasks EXCEPT !["t1"] = [st |-> "live", at |-> clock]]
      BY <1>3, <2>1, <3>1, Transferred DEF H!Tasks
    <3>3. tasks'["t1"].st = "live" /\ Since("t1")' = 0
      BY <1>4, <2>1, <3>2 DEF H!Tasks, Since
    <3> QED BY <1>1, <1>2, <2>1, <2>3, <3>3 DEF Overdue, Served, Unserved
  <2>4. CASE step = 4
    <3>1. H!Entry.do = "status" /\ H!Entry.task = "t1" /\ tasks["t1"].st = "live" /\ Since("t1") >= ProbeSleep
      BY <1>1, <1>2, <2>4, Script16 DEF Looks, Overdue
    <3>2. tasks' = tasks
      BY <2>1, <3>1 DEF H!Registered
    <3>3. reply' = H!Progress("t1")
      BY <1>3, <2>1, <3>1 DEF H!Answer, H!StatusAnswer
    <3>4. H!Hook = 0 /\ H!Limit = Deadline /\ H!Age("t1") = Since("t1")
      BY DEF HookHasRoom, H!Hook, H!Limit, H!Age, Since
    <3>5. flaw = "none" /\ DeadlineHasRoom => reply' = "timed-out"
      BY <1>2, <1>5, <3>1, <3>3, <3>4 DEF H!Progress, DeadlineHasRoom
    <3>6. flaw = "deadline" => reply' # "timed-out"
      BY <3>3, <3>4 DEF H!Progress
    <3>7. Since("t1")' = Since("t1")
      BY <2>1, <3>2 DEF Since
    <3> QED BY <1>1, <1>2, <2>1, <2>4, <3>1, <3>2, <3>5, <3>6, <3>7 DEF Overdue, Served, Unserved, DeadlineHasRoom
  <2> QED BY <2>1, <2>2, <2>3, <2>4
<1> QED BY <1>6, <1>7, <1>8, <1>9, <1>10, <1>11, <1>12 DEF H!Next, H!Handler

\* The capabilities a Runner has negotiated are those it advertises.
LEMMA CapableStep ==
    ASSUME HType, test = "17", Sound => Capable, H!Next
    PROVE  (Sound => Capable)'
<1> SUFFICES ASSUME Sound'
             PROVE  Capable'
  OBVIOUS
<1>1. Capable /\ Sound
  BY RowsStay
<1>2. test' = test /\ flaw' = flaw /\ advertises' = advertises /\ step \in Nat \ {0}
  BY DEF H!Next, H!Handler, H!Send, H!Take, H!Lose, H!Doze, H!Wake, H!Serve, H!Tick, H!call, HType
<1>3. /\ flaw \in {"none", "refuse", "capsNone", "capsSome", "capsBare"} /\ advertises \in BOOLEAN
      /\ (flaw = "capsNone" => ~advertises) /\ (flaw \in {"capsSome", "capsBare"} => advertises)
  BY DEF HType, H!Covered, H!Unnoticed
<1>4. step' = step => H!Entry' = H!Entry
  BY <1>2 DEF H!Entry, H!Script, H!SVA2A17
<1>5. ~H!Ended => step = 1 \/ step = 2 \/ step = 3 \/ (step = 4 /\ advertises)
  BY <1>2, <1>3, Script17
<1>6. ~H!Ended => H!Entry.do # "sleep" /\ H!Entry.row # "first"
  <2>1. step = 1 => Prepares("card", "t1", 100)
    BY <1>2, Script17
  <2>2. step \in {2, 3} \/ (step = 4 /\ advertises) =>
          \E do \in {"offer", "offer-other", "offer-own"} : \E task, want : Looks(do, task, want)
    BY <1>2, Script17
  <2> QED BY <1>5, <2>1, <2>2 DEF Looks, Prepares
<1>7. CASE H!Send
  BY <1>1, <1>2, <1>4, <1>7 DEF H!Send, Capable, Served
<1>8. CASE H!Take
  <2>1. ~H!Ended /\ H!Entry.row # "first" /\ net = "served" /\ step \in 1 .. 4
    BY <1>5, <1>6, <1>8, HandoffBusy DEF H!Take
  <2>2. step' = step + 1 /\ net' = "idle"
    BY <1>8, <2>1 DEF H!Take
  <2>3. step \in 2 .. 4 => H!Entry.read = TRUE
    <3>1. step \in 2 .. 4 => \E do \in {"offer", "offer-other", "offer-own"} : \E task, want : Looks(do, task, want)
      <4>1. step = 2 \/ step = 3 => \E do \in {"offer", "offer-other", "offer-own"} : \E task, want : Looks(do, task, want)
        BY <1>2, Script17
      <4>2. step = 4 => \E do \in {"offer", "offer-other", "offer-own"} : \E task, want : Looks(do, task, want)
        BY <1>2, <1>5, <2>1, Script17
      <4> QED BY <4>1, <4>2
    <3> QED BY <3>1 DEF Looks
  <2>4. step \in 2 .. 4 => rows' # {} /\ (flaw # "none" => reply \in H!Entry.want)
    BY <1>2, <1>8, <2>1, <2>3, TakenRow, TakenPasses DEF Sound
  <2>5. step = 2 => flaw # "refuse"
    BY <1>1, <1>2, <2>1, <2>4, Script17 DEF Capable, Served, Looks
  <2>6. step = 3 => flaw \notin {"capsNone", "capsSome", "capsBare"}
    BY <1>1, <2>1, <2>4 DEF Capable, Served
  <2> QED BY <1>1, <1>2, <2>1, <2>2, <2>4, <2>5, <2>6 DEF Capable, Served
<1>9. CASE H!Lose
  <2>1. ~H!Ended /\ H!Entry.row # "first" /\ step \in 1 .. 4
    BY <1>5, <1>6, <1>9, HandoffBusy DEF H!Lose
  <2> QED BY <1>2, <1>9, <2>1, LostRow DEF Capable, Served, H!Lose, Sound
<1>10. CASE H!Serve
  <2>1. /\ ~H!Ended /\ step \in 1 .. 4 /\ step' = step /\ net' = "served" /\ rows' = rows
        /\ reply' = H!Answer(H!Entry.do, H!Entry.task)
    BY <1>5, <1>10, HandoffBusy DEF H!Serve
  <2>2. step = 2 => (flaw = "none" => reply' = "accept") /\ (flaw = "refuse" => reply' # "accept")
    <3>1. step = 2 => H!Entry.do = "offer"
      BY <1>2, Script17 DEF Looks
    <3> QED BY <2>1, <3>1 DEF H!Answer, H!OfferAnswer
  <2>3. step = 3 => /\ flaw = "none" => reply' \in H!Entry.want
                    /\ flaw \in {"capsNone", "capsSome", "capsBare"} => reply' \notin H!Entry.want
    <3>1. step = 3 => H!Entry.do = "offer-other" /\ H!Entry.want = {IF advertises THEN "mismatch" ELSE "no-caps"}
      BY <1>2, Script17 DEF Looks
    <3> QED BY <1>3, <2>1, <3>1 DEF H!Answer, H!OfferAnswer
  <2>4. step = 4 => (flaw = "none" => reply' = "accept")
    <3>1. step = 4 => H!Entry.do = "offer-own"
      BY <1>2, <1>5, <2>1, Script17 DEF Looks
    <3> QED BY <2>1, <3>1 DEF H!Answer, H!OfferAnswer
  <2> QED BY <1>1, <1>2, <1>4, <2>1, <2>2, <2>3, <2>4 DEF Capable, Served
<1>11. CASE H!Doze \/ H!Wake \/ H!Tick
  BY <1>1, <1>2, <1>4, <1>6, <1>11 DEF H!Doze, H!Wake, H!Tick, H!Asleep, Capable, Served
<1> QED BY <1>7, <1>8, <1>9, <1>10, <1>11 DEF H!Next, H!Handler

\* What an answer a handler takes may be, if the Runner keeps every rule.
LEMMA GoodReply ==
    ASSUME HandoffAssumption, HandoffInv, Sound, flaw = "none", TokensMeetEtag, DeadlineHasRoom,
           H!Take, H!Entry.read = TRUE
    PROVE  reply \in H!Entry.want /\ (H!Entry.row = "after-transfer" => reply = "accepted")
<1>1. ~H!Ended /\ net = "served" /\ step \in Nat \ {0} /\ test \in H!Tests
  BY HandoffBusy DEF H!Take, HandoffInv, HType
<1>2. CASE test \in {"03", "04", "10", "11", "13"}
  <2>1. step = 1 /\ One
    BY <1>1, <1>2, Script03 DEF HandoffInv
  <2>2. H!Entry.row # "after-transfer"
    BY <1>1, <1>2, <2>1 DEF H!Entry, H!Script, H!Ask, H!SVA2A03, H!SVA2A04, H!SVA2A10, H!SVA2A11, H!SVA2A13
  <2> QED BY <1>1, <2>1, <2>2 DEF One, Served
<1>3. CASE test = "12"
  <2>1. (step = 1 \/ step = 2) /\ Twice
    BY <1>1, <1>3, Script12 DEF HandoffInv
  <2>2. H!Entry.row # "after-transfer"
    BY <1>1, <1>3, <2>1 DEF H!Entry, H!Script, H!Ask, H!SVA2A12
  <2> QED BY <1>1, <1>3, <2>1, <2>2, Script12 DEF Twice, Served, Looks, TokensMeetEtag
<1>4. CASE test = "14"
  <2>1. (step = 1 \/ step = 2 \/ step = 3 \/ step = 4 \/ step = 5) /\ Digests
    BY <1>1, <1>4, Script14 DEF HandoffInv
  <2>2. H!Entry.row # "after-transfer"
    BY <1>1, <1>4, <2>1 DEF H!Entry, H!Script, H!Ask, H!Setup, H!SVA2A14
  <2>3. step # 1 /\ step # 3
    BY <1>1, <1>4, Script14 DEF Prepares
  <2> QED BY <1>1, <1>4, <2>1, <2>2, <2>3, Script14 DEF Digests, Served, Looks
<1>5. CASE test = "15"
  <2>1. HType /\ Returned /\ (HookN > 0 => Hooked)
    BY <1>5 DEF HandoffInv
  <2>2. step \in 1 .. 13 /\ (HookN = 0 => step \in 1 .. 7) /\ (HookN # 0 => step \notin {9, 11})
    BY <1>1, <1>5, <2>1, Steps15, HandoffBusy DEF H!Take
  <2>3. step \notin {2, 3, 5} /\ (HookN # 0 => step \notin {7, 8})
    BY <1>1, <1>5, Script15, ScriptHook DEF Prepares
  <2>4. CASE step \in {1, 6, LastRow}
    <3>1. H!Entry.row # "after-transfer"
      <4>1. CASE HookN = 0
        BY <1>5, <2>4, <4>1 DEF H!Entry, H!Script, H!Ask, H!Setup, H!ExecuteHook, H!SVA2A15, LastRow
      <4>2. CASE HookN # 0
        BY <1>5, <2>4, <4>2 DEF H!Entry, H!Script, H!Ask, H!Setup, H!Sleep, H!ExecuteHook, H!SVA2A15, LastRow
      <4> QED BY <4>1, <4>2
    <3> QED BY <1>1, <1>5, <2>1, <2>4, <3>1, Script15 DEF Returned, Served, Looks
  <2>5. CASE step = 4
    BY <1>1, <1>5, <2>1, <2>5, Script15 DEF Returned, Served, Looks
  <2>6. CASE HookN # 0 /\ step \in {10, 12}
    <3>1. H!Entry.row # "after-transfer"
      BY <1>5, <2>6 DEF H!Entry, H!Script, H!Ask, H!Setup, H!Sleep, H!ExecuteHook, H!SVA2A15
    <3>2. Hooked /\ (step = 10 \/ step = 12)
      BY <2>1, <2>6 DEF HandoffAssumption
    <3>3. H!Entry.want = IF step = 10 THEN {"executing"} ELSE {"completed"}
      BY <1>5, <2>6, <3>2, ScriptHook DEF Looks
    <3> QED BY <1>1, <3>1, <3>2, <3>3 DEF Hooked, Served
  <2> QED BY <2>2, <2>3, <2>4, <2>5, <2>6 DEF LastRow
<1>6. CASE test = "16"
  <2>1. (step = 1 \/ step = 2 \/ step = 3 \/ step = 4) /\ Overdue
    BY <1>1, <1>6, Script16 DEF HandoffInv
  <2>2. H!Entry.row # "after-transfer"
    BY <1>1, <1>6, <2>1 DEF H!Entry, H!Script, H!Ask, H!Setup, H!Sleep, H!SVA2A16
  <2>3. step = 4
    <3>1. HType /\ H!Entry.do # "sleep"
      BY HandoffBusy DEF HandoffInv, H!Take
    <3> QED BY <1>1, <1>6, <2>1, <3>1, Script16 DEF Prepares, Sleeps
  <2> QED BY <1>1, <1>6, <2>1, <2>2, <2>3, Script16 DEF Overdue, Served, Looks
<1>7. CASE test = "17"
  <2>1. (step = 1 \/ step = 2 \/ step = 3 \/ (step = 4 /\ advertises)) /\ Capable
    BY <1>1, <1>7, Script17 DEF HandoffInv, HType
  <2>2. H!Entry.row # "after-transfer"
    BY <1>1, <1>7, <2>1 DEF H!Entry, H!Script, H!Ask, H!Setup, H!SVA2A17
  <2>3. step # 1
    BY <1>1, <1>7, Script17 DEF Prepares
  <2>4. CASE step = 3
    BY <1>1, <2>1, <2>2, <2>4 DEF Capable, Served
  <2>5. CASE step = 2 \/ (step = 4 /\ advertises)
    <3>1. H!Entry.want = {"accept"}
      BY <1>1, <1>7, <2>5, Script17 DEF Looks
    <3> QED BY <1>1, <2>1, <2>2, <2>5, <3>1 DEF Capable, Served
  <2> QED BY <2>1, <2>3, <2>4, <2>5
<1> QED BY <1>1, <1>2, <1>3, <1>4, <1>5, <1>6, <1>7 DEF H!Tests

\* What rows a taken answer gives, if it is the one it should be.
LEMMA GoodRows ==
    ASSUME reply \in H!Entry.want, H!Entry.row = "after-transfer" => reply = "accepted", NEW r \in H!Judged(H!Entry, reply)
    PROVE  r[2] = "pass"
<1>1. CASE H!Entry.row = "first"
  BY <1>1 DEF H!Judged
<1>2. CASE H!Entry.row = "after-transfer"
  BY <1>2 DEF H!Judged, H!Passed, H!Statuses
<1>3. CASE H!Entry.row \notin {"first", "after-transfer"}
  BY <1>3 DEF H!Judged, H!Passed
<1> QED BY <1>1, <1>2, <1>3

\* Every step of an A2A handler, its Runner and its clock keeps the invariant.
LEMMA HandoffStep ==
    ASSUME HandoffAssumption, HookHasRoom, HandoffInv, H!Next
    PROVE  HandoffInv'
<1>1. HType /\ test' = test /\ flaw' = flaw
  BY DEF H!Next, H!Handler, H!Send, H!Take, H!Lose, H!Doze, H!Wake, H!Serve, H!Tick, H!call, HandoffInv
<1>2. HType'
  BY <1>1, HandoffTyped
<1>3. (Sound => /\ test \in {"03", "04", "10", "11", "13"} => One
                /\ test = "12" => Twice
                /\ test = "14" => Digests
                /\ test = "15" => Returned /\ (HookN > 0 => Hooked)
                /\ test = "16" => Overdue
                /\ test = "17" => Capable)'
  <2>1. test \in {"03", "04", "10", "11", "13"} => (Sound => One)'
    BY <1>1, OneStep DEF HandoffInv
  <2>2. test = "12" => (Sound => Twice)'
    BY <1>1, TwiceStep DEF HandoffInv
  <2>3. test = "14" => (Sound => Digests)'
    BY <1>1, DigestsStep DEF HandoffInv
  <2>4. test = "15" => (Sound => Returned)'
    BY <1>1, ReturnedStep DEF HandoffInv
  <2>5. test = "15" /\ HookN > 0 => (Sound => Hooked)'
    BY <1>1, HookedStep DEF HandoffInv
  <2>6. test = "16" => (Sound => Overdue)'
    BY <1>1, OverdueStep DEF HandoffInv
  <2>7. test = "17" => (Sound => Capable)'
    BY <1>1, CapableStep DEF HandoffInv
  <2> QED BY <1>1, <2>1, <2>2, <2>3, <2>4, <2>5, <2>6, <2>7
<1>4. ASSUME flaw = "none", TokensMeetEtag, DeadlineHasRoom, NEW r \in rows'
      PROVE  r[2] = "pass" \/ (lost' > 0 /\ r[2] = "error")
  <2>1. \A q \in rows : q[2] = "pass" \/ (lost > 0 /\ q[2] = "error")
    BY <1>4 DEF HandoffInv
  <2>2. lost \in Nat
    BY <1>1 DEF HType
  <2>3. CASE H!Take
    <3>1. rows' = rows \cup H!Judged(H!Entry, reply) /\ lost' = lost
      BY <2>3 DEF H!Take
    <3>2. H!Entry.read # TRUE => r \in rows
      BY <1>4, <1>1, <2>3, <3>1, HandoffBusy, EntryKinds DEF H!Judged, H!Take, Looks, Prepares, Sleeps
    <3>3. H!Entry.read = TRUE => reply \in H!Entry.want /\ (H!Entry.row = "after-transfer" => reply = "accepted")
      BY <1>4, <2>3, GoodReply DEF Sound
    <3> QED BY <1>4, <2>1, <3>1, <3>2, <3>3, GoodRows
  <2>4. CASE H!Lose
    <3>1. rows' = rows \cup {<<IF H!Entry.row = "first" THEN "verdict" ELSE H!Entry.row, "error">>} /\ lost' = lost + 1
      BY <2>4 DEF H!Lose
    <3> QED BY <1>4, <2>1, <2>2, <3>1
  <2>5. CASE rows' = rows /\ lost' = lost
    BY <1>4, <2>1, <2>5
  <2> QED BY <2>3, <2>4, <2>5 DEF H!Next, H!Handler, H!Send, H!Doze, H!Wake, H!Serve, H!Tick
<1> QED BY <1>1, <1>2, <1>3, <1>4 DEF HandoffInv, DeadlineHasRoom, TokensMeetEtag

\* Every call starts in the invariant.
LEMMA HandoffInit ==
    ASSUME HandoffAssumption, H!Init
    PROVE  HandoffInv
<1>1. H!Ended = FALSE
  <2>1. test \in H!Tests /\ step = 1
    BY DEF H!Init
  <2>2. CASE test \in {"03", "04", "10", "11", "13"}
    BY <2>1, <2>2, Script03
  <2>3. CASE test = "15"
    BY <2>1, <2>3, Script15 DEF LastRow
  <2>4. CASE test = "12"
    BY <2>1, <2>4, Script12
  <2>6. CASE test = "14"
    BY <2>1, <2>6, Script14
  <2>7. CASE test = "16"
    BY <2>1, <2>7, Script16
  <2>5. CASE test = "17"
    BY <2>1, <2>5, Script17
  <2> QED BY <2>1, <2>2, <2>3, <2>4, <2>5, <2>6, <2>7 DEF H!Tests, H!Ended
<1>2. HType
  <2>1. tasks \in [H!Tasks -> [st : {"unseen", "offered", "live", "returned", "regressed"}, at : Nat]]
    BY DEF H!Init, H!Unseen
  <2>2. advertises \in BOOLEAN
    BY DEF H!Init
  <2>3. waited \in 0 .. Latency
    BY DEF H!Init, HandoffAssumption
  <2>4. /\ test \in H!Tests /\ flaw \in {"none"} \cup H!Covered(test) \cup H!Unnoticed(test)
        /\ (flaw = "capsNone" => ~advertises) /\ (flaw \in {"capsSome", "capsBare"} => advertises)
        /\ step = 1 /\ net = "idle" /\ lost = 0 /\ clock = 0 /\ waited = 0 /\ wake = 0 /\ seen = FALSE
    BY DEF H!Init
  <2>5. net # "idle" => ~H!Ended /\ H!Entry.do # "sleep" /\ wake = 0
    BY <2>4
  <2>6. wake # 0 => H!Asleep /\ clock <= wake
    BY <2>4
  <2>7. step \in Nat \ {0} /\ lost \in Nat /\ clock \in Nat /\ wake \in Nat
    BY <2>4
  <2>8. net \in {"idle", "sent", "served"} /\ seen \in BOOLEAN
    BY <2>4
  <2> QED BY <2>1, <2>2, <2>3, <2>4, <2>5, <2>6, <2>7, <2>8 DEF HType
<1>3. step = 1 /\ net = "idle" /\ rows = {} /\ seen = FALSE /\ tasks = [k \in H!Tasks |-> H!Unseen]
  BY DEF H!Init
<1>4. tasks["t1"].st = "unseen" /\ tasks["t2"].st = "unseen" /\ tasks["t3"].st = "unseen"
  BY <1>3 DEF H!Tasks, H!Unseen
<1>5. One
  BY <1>3 DEF One, Served, Unserved
<1>6. Twice
  BY <1>3 DEF Twice, Served, Unserved
<1>7. Digests
  BY <1>3, <1>4 DEF Digests, Served, Unserved
<1>8. Returned
  BY <1>3, <1>4 DEF Returned, Served, Unserved, LastRow
<1>9. Hooked
  BY <1>3, <1>4 DEF Hooked, Served, Unserved
<1>10. Overdue
  BY <1>3, <1>4 DEF Overdue, Served, Unserved
<1>11. Capable
  BY <1>3 DEF Capable, Served
<1> QED BY <1>2, <1>3, <1>5, <1>6, <1>7, <1>8, <1>9, <1>10, <1>11 DEF HandoffInv

\* A call that has ended with passes alone met no flaw it is there to find.
LEMMA HandoffEarned ==
    ASSUME HandoffAssumption, HandoffInv
    PROVE  H!PassIsEarned
<1> SUFFICES ASSUME H!Ended, H!AllPass
             PROVE  rows # {} /\ flaw \notin H!Covered(test)
  BY DEF H!PassIsEarned
<1>1. Sound /\ HType /\ step \in Nat \ {0} /\ test \in H!Tests /\ advertises \in BOOLEAN
  BY DEF Sound, HandoffInv, HType
<1>2. CASE test \in {"03", "04", "10", "11", "13"}
  BY <1>1, <1>2, Script03 DEF HandoffInv, One
<1>3. CASE test = "12"
  BY <1>1, <1>3, Script12 DEF HandoffInv, Twice, H!Covered
<1>4. CASE test = "14"
  BY <1>1, <1>4, Script14 DEF HandoffInv, Digests, H!Covered
<1>5. CASE test = "15"
  <2>1. Returned /\ (HookN > 0 => Hooked) /\ step > LastRow
    BY <1>1, <1>5, Script15 DEF HandoffInv
  <2>2. HookN > 0 => flaw # "hook"
    BY <1>1, <2>1 DEF Hooked, LastRow
  <2>3. rows # {} /\ flaw \notin {"unknown", "bare", "unlisted", "stuck", "regress"}
    BY <1>1, <2>1 DEF Returned, LastRow
  <2> QED BY <1>5, <2>2, <2>3 DEF H!Covered
<1>6. CASE test = "16"
  BY <1>1, <1>6, Script16 DEF HandoffInv, Overdue, H!Covered
<1>7. CASE test = "17"
  <2>1. Capable /\ step > 3
    BY <1>1, <1>7, Script17 DEF HandoffInv
  <2> QED BY <1>1, <1>7, <2>1 DEF Capable, H!Covered
<1> QED BY <1>1, <1>2, <1>3, <1>4, <1>5, <1>6, <1>7 DEF H!Tests

\* A call of an SV-A2A handler stays one.
LEMMA HandoffCall ==
    ASSUME [Next]_vars, kind = "handoff", HandoffAssumption, HookHasRoom, HandoffInv
    PROVE  HandoffInv' /\ kind' = "handoff"
<1>1. CASE UNCHANGED vars
  <2>1. UNCHANGED <<kind, all, handoffVars>>
    BY <1>1 DEF vars
  <2>2. UNCHANGED <<test, flaw, step, net, reply, lost, advertises, rows, clock, waited, wake, tasks, seen, kind>>
    BY <2>1 DEF all, handoffVars
  <2>3. H!Ended' = H!Ended /\ H!Entry' = H!Entry /\ H!AllPass' = H!AllPass /\ LastRow' = LastRow
    BY <2>2 DEF H!Ended, H!Entry, H!Script, H!SVA2A17, H!AllPass, LastRow
  <2>4. H!Covered(test)' = H!Covered(test) /\ H!Unnoticed(test)' = H!Unnoticed(test)
    BY <2>2 DEF H!Covered, H!Unnoticed
  <2>5. HType' = HType
    BY <2>2, <2>3, <2>4 DEF HType, H!Asleep
  <2>6. (\A s : Served(s)' = Served(s) /\ Unserved(s)' = Unserved(s)) /\ (\A k : Since(k)' = Since(k)) /\ Sound' = Sound
    BY <2>2, <2>3 DEF Served, Unserved, Since, Sound
  <2>7. One' = One /\ Twice' = Twice /\ Digests' = Digests
    BY <2>2, <2>3, <2>4, <2>6 DEF One, Twice, Digests, Served, Unserved, TokensMeetEtag
  <2>8. Returned' = Returned
    BY <2>2, <2>3, <2>6 DEF Returned, Served, Unserved
  <2>9. Hooked' = Hooked /\ Overdue' = Overdue /\ Capable' = Capable
    BY <2>2, <2>3, <2>6 DEF Hooked, Overdue, Capable, Served, Unserved
  <2> QED BY <2>2, <2>5, <2>6, <2>7, <2>8, <2>9 DEF HandoffInv, DeadlineHasRoom, TokensMeetEtag
<1>2. CASE Next
  <2>1. H!Next /\ kind' = kind
    BY <1>2 DEF Next, Handoff, Dispatch, AuditTrail, Observe, Probe, Check, InHandoff, InDispatch, InAudit,
                InObserve, InProbe, InCheck
  <2> QED BY <2>1, HandoffStep
<1> QED BY <1>1, <1>2

\* No step makes another call of this one.
LEMMA KindStays ==
    ASSUME [Next]_vars
    PROVE  kind' = kind
BY DEF Next, Handoff, Dispatch, AuditTrail, Observe, Probe, Check, InHandoff, InDispatch, InAudit,
       InObserve, InProbe, InCheck, vars

\* The invariant of a call of an SV-A2A handler, in a configuration that leaves the
\* rows of SV-A2A-15's hook room for the latency.
LEMMA HandoffInvariant ==
    ASSUME HookHasRoom
    PROVE  Spec => [](kind = "handoff" => HandoffInv)
<1>1. HandoffAssumption
  BY LiveCallAssumption DEF HandoffAssumption
<1>2. Init => (kind = "handoff" => HandoffInv)
  BY <1>1, HandoffInit DEF Init
<1>3. (kind = "handoff" => HandoffInv) /\ [Next]_vars => (kind = "handoff" => HandoffInv)'
  BY <1>1, HandoffCall, KindStays
<1> QED BY <1>2, <1>3, PTL DEF Spec

\* An SV-A2A handler that passes a Runner has looked at every rule its test covers,
\* however late the Runner is asked and whichever answers are lost.
THEOREM HandoffPassIsEarned ==
    ASSUME HookHasRoom
    PROVE  Spec => [](kind = "handoff" => PassIsEarned)
<1>1. HandoffAssumption
  BY LiveCallAssumption DEF HandoffAssumption
<1>2. (kind = "handoff" => HandoffInv) => (kind = "handoff" => PassIsEarned)
  BY <1>1, HandoffEarned DEF PassIsEarned
<1> QED BY <1>2, HandoffInvariant, PTL

\* A Runner that keeps every rule, and whose deadline the sleep of SV-A2A-16
\* outlasts, is not failed by an SV-A2A handler, save by SV-A2A-11 or SV-A2A-12 if it
\* computes another etag of the caller's card than the placeholder their tokens
\* name; an answer that is lost costs it an error.
THEOREM HandoffConformingNeverFails ==
    ASSUME HookHasRoom, DeadlineHasRoom
    PROVE  Spec => [](kind = "handoff" /\ TokensMeetEtag => ConformingNeverFails)
<1>1. (kind = "handoff" => HandoffInv) => (kind = "handoff" /\ TokensMeetEtag => ConformingNeverFails)
  BY DEF HandoffInv, H!ConformingNeverFails, ConformingNeverFails
<1> QED BY <1>1, HandoffInvariant, PTL

(***************************************************************************)
(* The SV-LLM handlers.                                                    *)
(***************************************************************************)
\* The errors SV-LLM-07 walks through are errors, and not only the one a Runner
\* that codes them wrongly would name; a stream has deltas left when its second
\* has been read, and the next waits until a cancel has been heard.
CodesDiffer    == /\ \A i \in 1 .. Len(Codes) : Codes[i] \notin {"ok", "stream"}
                  /\ \E i \in 1 .. Len(Codes) : Codes[i] # "ProviderUnavailable"
StreamHasRoom  == Paced /\ Deltas >= 3

\* What the constants of the handlers are.
DispatchAssumption == Deltas \in Nat /\ Paced \in BOOLEAN /\ Len(Codes) \in Nat \ {0} /\ CodesDiffer

\* The log a call finds, and where it is in its script, served or not.
Before == IF prior THEN <<D!Row("NaturalStop", "null", "plain")>> ELSE <<>>
Scripted(s) == pc = "script" /\ step = s
Told(s)     == Scripted(s) /\ net = "served"
Untold(s)   == Scripted(s) /\ net # "served"

\* The types, and the part of the handler each state belongs to.
DType ==
    /\ test \in D!Tests /\ flaw \in {"none"} \cup D!Covered(test) \cup D!Unnoticed(test)
    /\ wired \in BOOLEAN /\ prior \in BOOLEAN
    /\ pc \in {"mint", "fallback", "preset", "script", "done"} /\ step \in Nat \ {0} /\ lost \in Nat
    /\ net \in {"idle", "sent", "served", "streaming"}
    /\ cancel \in {"no", "posted", "heard", "answered"}
    /\ verdict = "none" <=> pc # "done"
    /\ pc \in {"mint", "fallback", "preset"} => step = 1
    /\ pc = "script" => wired /\ step <= Len(D!Script)
    /\ pc = "done" => net = "idle"
    /\ pc \in {"mint", "fallback"} /\ net = "served" => reply \in {D!Says("created"), D!Says("refused")}
    /\ pc = "preset" /\ net = "served" => reply = D!Says(IF wired THEN "ok" ELSE "404")
    /\ net = "streaming" => test \in {"05", "08", "10"} /\ Scripted(2)
    /\ test \in {"05", "08", "10"} /\ Scripted(2) => net # "served"
    /\ net # "streaming" => plan = <<>> /\ wire = <<>> /\ cancel \in {"no", "answered"}
    /\ test # "05" => cancel = "no"
    /\ pc \notin {"script", "done"} \/ Scripted(1) \/ (Scripted(2) /\ net # "streaming") =>
           events = <<>> /\ cancel = "no"
    /\ pc \notin {"script", "done"} \/ Scripted(1) => log = Before

-----------------------------------------------------------------------------
\* The scripts.
Sets(b)    == D!Request.do = "set" /\ D!Request.arg = b
Posts(t)   == D!Request.do = "post" /\ D!Request.arg = t
Recents    == D!Request.do = "recent"
Streams    == D!Request.do = "stream"

\* Before its script every handler has a session minted and the double set once.
LEMMA Preparing ==
    ASSUME pc \in {"mint", "fallback", "preset"}
    PROVE  /\ pc # "preset" <=> D!Request.do = "mint"
           /\ pc = "preset" <=> D!Request.do = "set"
           /\ D!Request.do \in {"mint", "set"}
BY DEF D!Request, D!Set

\* What the handlers do in their scripts.
LEMMA ScriptLLM ==
    ASSUME DispatchAssumption, test \in D!Tests, pc = "script", step \in Nat \ {0}, step <= Len(D!Script)
    PROVE  /\ test = "03" => /\ Len(D!Script) = 2
                             /\ step = 1 => Sets("ok")
                             /\ step = 2 => Posts("plain")
           /\ test = "04" => /\ Len(D!Script) = 3
                             /\ step = 1 => Sets("ok")
                             /\ step = 2 => Posts("tagged")
                             /\ step = 3 => Recents
           /\ test = "05" => /\ Len(D!Script) = 3
                             /\ step = 1 => Sets("stream")
                             /\ step = 2 => Streams
                             /\ step = 3 => Recents
           /\ test = "06" => /\ Len(D!Script) = 7
                             /\ step = 1 => Sets("ok")
                             /\ step = 2 => Posts("plain")
                             /\ step = 3 => Sets("ProviderAuthFailed")
                             /\ step = 4 => Posts("plain")
                             /\ step = 5 => Sets("ok")
                             /\ step = 6 => Posts("plain")
                             /\ step = 7 => Recents
           /\ test = "07" => /\ Len(D!Script) = 2 * Len(Codes)
                             /\ step % 2 = 1 => (step + 1) \div 2 \in 1 .. Len(Codes) /\ Sets(Codes[(step + 1) \div 2])
                             /\ step % 2 = 0 => step \div 2 \in 1 .. Len(Codes) /\ Posts(Codes[step \div 2])
           /\ test \in {"08", "10"} => /\ Len(D!Script) = 2
                                       /\ step = 1 => Sets("stream")
                                       /\ step = 2 => Streams
<1> USE DEF D!Request, D!Script, D!Set, D!Post, D!Recent, D!Stream, Sets, Posts, Recents, Streams
<1>1. CASE test = "03"
  BY <1>1 DEF D!Handler03
<1>2. CASE test = "04"
  BY <1>2 DEF D!Handler04
<1>3. CASE test = "05"
  BY <1>3 DEF D!Handler05
<1>4. CASE test = "06"
  BY <1>4 DEF D!Handler06
<1>5. CASE test = "07"
  <2>1. Len(Codes) \in Nat \ {0}
    BY DEF DispatchAssumption
  <2>2. D!Script = D!Handler07
    BY <1>5
  <2> DEFINE n == 2 * Len(Codes)
             at(i) == IF i % 2 = 1 THEN D!Set(Codes[(i + 1) \div 2], "error") ELSE D!Post(Codes[i \div 2], "fail")
  <2>9. n \in Nat
    BY <2>1
  <2>7. D!Script = [i \in 1 .. n |-> at(i)]
    BY <2>2 DEF D!Handler07
  <2>8. Len(D!Script) = n
    <3> HIDE DEF n, at, D!Script
    <3> QED BY <2>9, <2>7
  <2>3. Len(D!Script) = 2 * Len(Codes) /\ step \in 1 .. 2 * Len(Codes)
    <3> HIDE DEF D!Script
    <3> QED BY <2>1, <2>8
  <2>4. D!Request = IF step % 2 = 1 THEN D!Set(Codes[(step + 1) \div 2], "error") ELSE D!Post(Codes[step \div 2], "fail")
    BY <2>3, <2>7
  <2>5. step % 2 = 1 => (step + 1) \div 2 \in 1 .. Len(Codes)
    BY <2>1, <2>3
  <2>6. step % 2 = 0 => step \div 2 \in 1 .. Len(Codes)
    BY <2>1, <2>3
  <2> QED BY <1>5, <2>3, <2>4, <2>5, <2>6
<1>6. CASE test = "08"
  BY <1>6 DEF D!Handler08
<1>7. CASE test = "10"
  BY <1>7 DEF D!Handler10
<1> QED BY <1>1, <1>2, <1>3, <1>4, <1>5, <1>6, <1>7 DEF D!Tests

\* What a refusal costs is a verdict, or nothing.
LEMMA ScriptBad ==
    ASSUME DispatchAssumption, test \in D!Tests, pc = "script", step \in Nat \ {0}, step <= Len(D!Script)
    PROVE  D!Request.bad # "none"
<1> USE DEF D!Request, D!Script, D!Set, D!Post, D!Recent, D!Stream
<1>1. CASE test = "03"
  BY <1>1 DEF D!Handler03
<1>2. CASE test = "04"
  BY <1>2 DEF D!Handler04
<1>3. CASE test = "05"
  BY <1>3 DEF D!Handler05
<1>4. CASE test = "06"
  BY <1>4 DEF D!Handler06
<1>5. CASE test = "07"
  <2> DEFINE n == 2 * Len(Codes)
             at(i) == IF i % 2 = 1 THEN D!Set(Codes[(i + 1) \div 2], "error") ELSE D!Post(Codes[i \div 2], "fail")
  <2>1. n \in Nat
    BY DEF DispatchAssumption
  <2>2. D!Script = [i \in 1 .. n |-> at(i)]
    BY <1>5 DEF D!Handler07
  <2>3. Len(D!Script) = n
    <3> HIDE DEF n, at, D!Script
    <3> QED BY <2>1, <2>2
  <2>4. step \in 1 .. n
    <3> HIDE DEF n, D!Script
    <3> QED BY <2>1, <2>3
  <2>5. D!Script[step] = at(step)
    <3> HIDE DEF n, at, D!Script
    <3> QED BY <2>2, <2>4
  <2>6. D!Request = D!Script[step]
    <3> HIDE DEF D!Script
    <3> QED OBVIOUS
  <2>7. at(step).bad # "none"
    <3> HIDE DEF D!Request, D!Script
    <3> QED OBVIOUS
  <2> QED
    <3> HIDE DEF D!Request, D!Script, at
    <3> QED BY <2>5, <2>6, <2>7
<1>6. CASE test = "08"
  BY <1>6 DEF D!Handler08
<1>7. CASE test = "10"
  BY <1>7 DEF D!Handler10
<1> QED BY <1>1, <1>2, <1>3, <1>4, <1>5, <1>6, <1>7 DEF D!Tests

\* How long they are.
LEMMA ScriptLengths ==
    ASSUME DispatchAssumption, test \in D!Tests
    PROVE  /\ Len(D!Script) \in Nat \ {0}
           /\ test \in {"03", "08", "10"} => Len(D!Script) = 2
           /\ test \in {"04", "05"} => Len(D!Script) = 3
           /\ test = "06" => Len(D!Script) = 7
           /\ test = "07" => Len(D!Script) = 2 * Len(Codes)
<1>1. CASE test = "07"
  <2> DEFINE n == 2 * Len(Codes)
             at(i) == IF i % 2 = 1 THEN D!Set(Codes[(i + 1) \div 2], "error") ELSE D!Post(Codes[i \div 2], "fail")
  <2>1. n \in Nat \ {0}
    BY DEF DispatchAssumption
  <2>2. D!Script = [i \in 1 .. n |-> at(i)]
    BY <1>1 DEF D!Script, D!Handler07
  <2>3. Len(D!Script) = n
    <3> HIDE DEF n, at
    <3> QED BY <2>1, <2>2
  <2> QED BY <1>1, <2>1, <2>3
<1>2. CASE test # "07"
  BY <1>2 DEF D!Tests, D!Script, D!Handler03, D!Handler04, D!Handler05, D!Handler06, D!Handler08, D!Handler10
<1> QED BY <1>1, <1>2

\* The steps a script has.
LEMMA StepsLLM ==
    ASSUME DispatchAssumption, DType, pc = "script"
    PROVE  /\ test \in {"03", "08", "10"} => step \in {1, 2}
           /\ test \in {"04", "05"} => step \in {1, 2, 3}
           /\ test = "06" => step \in {1, 2, 3, 4, 5, 6, 7}
<1> DEFINE n == Len(D!Script)
<1>1. /\ step \in Nat \ {0} /\ step <= n
      /\ test \in {"03", "08", "10"} => n = 2
      /\ test \in {"04", "05"} => n = 3
      /\ test = "06" => n = 7
  BY ScriptLengths DEF DType
<1> HIDE DEF n
<1> QED BY <1>1

\* What a script asks for, with the step.
LEMMA Asked ==
    ASSUME DispatchAssumption, DType, pc = "script"
    PROVE  /\ D!Request.do \in {"set", "post", "recent", "stream"}
           /\ D!Request.do = "stream" <=> test \in {"05", "08", "10"} /\ step = 2
<1>1. pc = "script" /\ test \in D!Tests /\ step \in Nat \ {0} /\ step <= Len(D!Script)
  BY DEF DType
<1> USE DEF Sets, Posts, Recents, Streams
<1>2. CASE test = "03"
  BY <1>1, <1>2, StepsLLM, ScriptLLM
<1>3. CASE test = "04"
  BY <1>1, <1>3, StepsLLM, ScriptLLM
<1>4. CASE test = "05"
  BY <1>1, <1>4, StepsLLM, ScriptLLM
<1>5. CASE test = "06"
  BY <1>1, <1>5, StepsLLM, ScriptLLM
<1>6. CASE test = "07"
  BY <1>1, <1>6, ScriptLLM
<1>7. CASE test = "08"
  BY <1>1, <1>7, StepsLLM, ScriptLLM
<1>8. CASE test = "10"
  BY <1>1, <1>8, StepsLLM, ScriptLLM
<1> QED BY <1>1, <1>2, <1>3, <1>4, <1>5, <1>6, <1>7, <1>8 DEF D!Tests

\* No handler changes what is tested, and only some steps the test and the log.
LEMMA ScriptSame ==
    ASSUME test' = test
    PROVE  Len(D!Script)' = Len(D!Script)
<1>1. D!Script' = D!Script
  BY DEF D!Script
<1> QED BY <1>1

\* A request that has been answered: the handler goes on, or has a verdict.
LEMMA TakenLLM ==
    ASSUME DispatchAssumption, DType, D!Take
    PROVE  /\ net = "served" /\ net' = "idle" /\ UNCHANGED <<test, flaw, wired, prior, lost, log>>
           /\ UNCHANGED <<behavior, plan, wire, cancel, events>>
           /\ pc \in {"mint", "fallback"} => \/ pc' \in {"preset", "fallback"} /\ UNCHANGED <<step, verdict>>
                                             \/ pc' = "done" /\ verdict' = "skip" /\ UNCHANGED step
           /\ pc = "preset" => IF wired THEN pc' = "script" /\ UNCHANGED <<step, verdict>>
                               ELSE pc' = "done" /\ verdict' = "skip" /\ UNCHANGED step
           /\ pc = "script" => \/ D!Accepts /\ step < Len(D!Script) /\ step' = step + 1 /\ pc' = "script" /\ UNCHANGED verdict
                               \/ D!Accepts /\ step = Len(D!Script) /\ pc' = "done" /\ verdict' = "pass" /\ UNCHANGED step
                               \/ ~D!Accepts /\ pc' = "done" /\ verdict' = "fail" /\ UNCHANGED step
           /\ pc # "done"
<1>1. /\ net = "served" /\ net' = "idle" /\ UNCHANGED <<test, flaw, wired, prior, lost, log>>
      /\ UNCHANGED <<behavior, plan, wire, cancel, events>> /\ pc # "done"
  BY DEF D!Take, D!call, D!stream, DType
<1>2. CASE pc \in {"mint", "fallback"}
  BY <1>1, <1>2 DEF D!Take, D!Prepare, D!Conclude, DType
<1>3. CASE pc = "preset"
  BY <1>1, <1>3 DEF D!Take, D!Prepare, D!Conclude, DType, D!Says
<1>4. CASE pc = "script"
  <2>1. step <= Len(D!Script) /\ step \in Nat /\ Len(D!Script) \in Nat
    BY <1>4, ScriptLengths DEF DType
  <2>2. IF D!Accepts THEN D!GoOn ELSE D!Conclude("fail")
    BY <1>4 DEF D!Take
  <2> QED BY <1>1, <1>4, <2>1, <2>2 DEF D!GoOn, D!Conclude
<1> QED BY <1>1, <1>2, <1>3, <1>4 DEF DType

\* A stream that has ended, with no answer lost.
LEMMA StreamEnded ==
    ASSUME DispatchAssumption, DType, D!EndOfStream
    PROVE  /\ net = "streaming" /\ net' = "idle" /\ UNCHANGED <<test, flaw, wired, prior, log>>
           /\ UNCHANGED <<behavior, cancel, events>> /\ wire = <<>> /\ plan' = <<>> /\ wire' = <<>>
           /\ lost' \in Nat /\ (lost' = 0 => lost = 0 /\ plan = <<>>) /\ cancel \in {"no", "answered"}
           /\ pc = "script" /\ step = 2
           /\ \/ D!AcceptsStream /\ 2 < Len(D!Script) /\ step' = 3 /\ pc' = "script" /\ UNCHANGED verdict
              \/ D!AcceptsStream /\ Len(D!Script) = 2 /\ pc' = "done" /\ verdict' = "pass" /\ UNCHANGED step
              \/ ~D!AcceptsStream /\ pc' = "done" /\ verdict' = "fail" /\ UNCHANGED step
<1>1. /\ net = "streaming" /\ net' = "idle" /\ UNCHANGED <<test, flaw, wired, prior, log>>
      /\ UNCHANGED <<behavior, cancel, events>> /\ wire = <<>> /\ plan' = <<>> /\ wire' = <<>>
      /\ cancel \in {"no", "answered"}
  BY DEF D!EndOfStream, D!call
<1>2. lost' \in Nat /\ (lost' = 0 => lost = 0 /\ plan = <<>>)
  BY DEF D!EndOfStream, DType
<1>3. pc = "script" /\ step = 2
  BY <1>1 DEF DType, Scripted
<1> DEFINE n == Len(D!Script)
<1>4. n = 2 \/ n = 3
  BY <1>1, ScriptLengths DEF DType
<1>5. IF D!AcceptsStream THEN D!GoOn ELSE D!Conclude("fail")
  BY DEF D!EndOfStream
<1>6. CASE D!AcceptsStream /\ n = 3
  BY <1>1, <1>2, <1>3, <1>5, <1>6 DEF D!GoOn
<1>7. CASE D!AcceptsStream /\ n = 2
  BY <1>1, <1>2, <1>3, <1>5, <1>7 DEF D!GoOn, D!Conclude
<1>8. CASE ~D!AcceptsStream
  BY <1>1, <1>2, <1>3, <1>5, <1>8 DEF D!Conclude
<1> QED BY <1>4, <1>6, <1>7, <1>8

\* A script goes on, or a handler has its verdict.
GoesOn == step < Len(D!Script) /\ step' = step + 1 /\ pc' = "script" /\ UNCHANGED verdict
Stops  == pc' = "done" /\ verdict' # "none" /\ UNCHANGED step

\* A request without an answer.
LEMMA LostLLM ==
    ASSUME DispatchAssumption, DType, D!Lose
    PROVE  /\ net \in {"sent", "served"} /\ net' = "idle" /\ lost' = lost + 1 /\ lost' \in Nat
           /\ UNCHANGED <<test, flaw, wired, prior, behavior, log, plan, wire, cancel, events>>
           /\ pc # "done"
           /\ pc # "script" => (pc' \in {"preset", "fallback"} /\ UNCHANGED <<step, verdict>>) \/ Stops
           /\ pc = "script" => GoesOn \/ Stops
<1>1. /\ net \in {"sent", "served"} /\ net' = "idle" /\ lost' = lost + 1 /\ lost' \in Nat
      /\ UNCHANGED <<test, flaw, wired, prior, behavior, log, plan, wire, cancel, events>>
      /\ pc # "done"
  BY DEF D!Lose, D!call, D!stream, DType
<1>2. CASE pc = "preset"
  BY <1>1, <1>2 DEF D!Lose, D!Conclude, Stops
<1>3. CASE pc = "mint"
  <2>1. D!Prepare(FALSE)
    BY <1>3 DEF D!Lose
  <2> QED BY <1>1, <1>3, <2>1 DEF D!Prepare
<1>4. CASE pc = "fallback"
  <2>1. D!Prepare(FALSE)
    BY <1>4 DEF D!Lose
  <2>2. Stops
    BY <1>4, <2>1 DEF D!Prepare, D!Conclude, Stops
  <2> QED BY <1>1, <1>4, <2>2
<1>5. CASE pc = "script"
  <2>1. step <= Len(D!Script) /\ step \in Nat /\ Len(D!Script) \in Nat
    BY <1>5, ScriptLengths DEF DType
  <2>2. D!Request.bad # "none"
    BY <1>5, <2>1, ScriptBad DEF DType
  <2>3. D!Refused(D!Request.bad)
    BY <1>5 DEF D!Lose
  <2>4. CASE D!Request.bad = "go"
    <3>1. D!GoOn
      BY <2>3, <2>4 DEF D!Refused
    <3>2. CASE step = Len(D!Script)
      BY <1>1, <1>5, <3>1, <3>2 DEF D!GoOn, D!Conclude, Stops
    <3>3. CASE step # Len(D!Script)
      <4>1. step' = step + 1 /\ UNCHANGED <<pc, verdict>>
        BY <3>1, <3>3 DEF D!GoOn
      <4> DEFINE n == Len(D!Script)
      <4>2. step < n
        <5>1. step <= n /\ step # n /\ step \in Nat /\ n \in Nat
          BY <2>1, <3>3
        <5> HIDE DEF n
        <5> QED BY <5>1
      <4> QED BY <1>1, <1>5, <4>1, <4>2 DEF GoesOn
    <3> QED BY <3>2, <3>3, <1>5
  <2>5. CASE D!Request.bad # "go"
    BY <1>1, <1>5, <2>2, <2>3, <2>5 DEF D!Refused, D!Conclude, Stops
  <2> QED BY <1>5, <2>4, <2>5
<1>6. pc \in {"mint", "fallback", "preset", "script"}
  BY <1>1 DEF DType
<1> HIDE DEF D!Lose, D!Script
<1> QED BY <1>1, <1>2, <1>3, <1>4, <1>5, <1>6

\* Types are kept, and so is that a stream is read in the second step only.
LEMMA DispatchTyped ==
    ASSUME DispatchAssumption, DType, D!Next
    PROVE  DType'
<1>1. UNCHANGED <<test, flaw, wired, prior>> /\ Len(D!Script)' = Len(D!Script)
  <2>1. UNCHANGED <<test, flaw, wired, prior>>
    BY DEF D!Next, D!Handler, D!Runner, D!Send, D!Take, D!Lose, D!Read, D!CancelAnswered, D!EndOfStream, D!Mint,
           D!SetBehavior, D!ServeDispatch, D!ServeRecent, D!OpenStream, D!Emit, D!HearCancel, D!call
  <2> QED BY <2>1, ScriptSame
<1>2. D!Covered(test)' = D!Covered(test) /\ D!Unnoticed(test)' = D!Unnoticed(test) /\ Before' = Before
  BY <1>1 DEF D!Covered, D!Unnoticed, Before
<1>3. /\ test \in D!Tests /\ Len(D!Script) \in Nat \ {0}
      /\ test \in {"05", "08", "10"} => Len(D!Script) >= 2
  <2> DEFINE n == Len(D!Script)
  <2>1. /\ test \in D!Tests /\ n \in Nat \ {0}
        /\ test \in {"08", "10"} => n = 2
        /\ test = "05" => n = 3
    BY ScriptLengths DEF DType
  <2> HIDE DEF n
  <2>2. test \in {"05", "08", "10"} => n >= 2
    BY <2>1
  <2> QED BY <2>1, <2>2 DEF n
<1>4. CASE D!Send
  BY <1>1, <1>2, <1>4 DEF D!Send, DType, D!Ended, Scripted, D!stream
<1>5. CASE D!Take
  BY <1>1, <1>2, <1>3, <1>5, TakenLLM DEF DType, Scripted
<1>6. CASE D!Lose
  BY <1>1, <1>2, <1>3, <1>6, LostLLM DEF DType, Scripted, GoesOn, Stops
<1>7. CASE D!Read
  BY <1>1, <1>2, <1>7 DEF D!Read, DType, Scripted
<1>8. CASE D!CancelAnswered
  BY <1>1, <1>2, <1>8 DEF D!CancelAnswered, DType, Scripted
<1>9. CASE D!EndOfStream
  BY <1>1, <1>2, <1>3, <1>9, StreamEnded DEF DType, Scripted
<1>10. CASE D!Mint
  <2>1. pc \in {"mint", "fallback"}
    BY <1>10, Preparing, Asked DEF D!Mint, DType
  <2> QED BY <1>1, <1>2, <1>10, <2>1 DEF D!Mint, DType, Scripted, D!stream
<1>11. CASE D!SetBehavior
  BY <1>1, <1>2, <1>11, Preparing, ScriptLLM DEF D!SetBehavior, DType, Scripted, D!stream, Streams
<1>12. CASE D!ServeDispatch
  <2>1. pc = "script" /\ ~(test \in {"05", "08", "10"} /\ step = 2) /\ net = "sent"
    BY <1>12, Preparing, Asked DEF D!ServeDispatch, DType
  <2>3. step # 1
    BY <1>12, <2>1, ScriptLLM, StepsLLM DEF D!ServeDispatch, DType, Sets, D!Tests
  <2> QED BY <1>1, <1>2, <1>12, <2>1, <2>3 DEF D!ServeDispatch, DType, Scripted, D!stream
<1>13. CASE D!ServeRecent
  BY <1>1, <1>2, <1>13, Preparing, ScriptLLM DEF D!ServeRecent, DType, Scripted, D!stream, Streams, Sets
<1>14. CASE D!OpenStream
  <2>1. test \in {"05", "08", "10"} /\ Scripted(2)
    BY <1>14, Preparing, Asked DEF D!OpenStream, DType, Scripted
  <2> QED BY <1>1, <1>2, <1>14, <2>1 DEF D!OpenStream, DType, Scripted
<1>15. CASE D!Emit
  BY <1>1, <1>2, <1>15 DEF D!Emit, DType, Scripted
<1>16. CASE D!HearCancel
  BY <1>1, <1>2, <1>16 DEF D!HearCancel, DType, Scripted
<1> QED BY <1>4, <1>5, <1>6, <1>7, <1>8, <1>9, <1>10, <1>11, <1>12, <1>13, <1>14, <1>15, <1>16
        DEF D!Next, D!Handler, D!Runner

-----------------------------------------------------------------------------
\* The steps of a call none of whose requests is lost.
Sending     == net = "idle" /\ net' = "sent" /\ UNCHANGED <<pc, step, verdict, behavior, log, D!stream>>
Setup       == /\ pc \notin {"script", "done"} /\ UNCHANGED <<step, log, D!stream>> /\ behavior' \in {behavior, "ok"}
               /\ \/ pc' \in {"mint", "fallback", "preset"} /\ UNCHANGED verdict
                  \/ pc' = "script" /\ net' = "idle" /\ UNCHANGED verdict
                  \/ pc' = "done" /\ verdict' = "skip"
InScript    == pc = "script" /\ UNCHANGED D!stream
Setting     == /\ InScript /\ D!Request.do = "set" /\ net = "sent" /\ net' = "served"
               /\ behavior' = D!Request.arg /\ UNCHANGED <<pc, step, verdict, log>>
Dispatching == /\ InScript /\ D!Request.do = "post" /\ net = "sent" /\ net' = "served"
               /\ reply' = D!Dispatched(D!Request.arg) /\ log' = D!Logged(reply')
               /\ UNCHANGED <<pc, step, verdict, behavior>>
Recalling   == /\ InScript /\ D!Request.do = "recent" /\ net = "sent" /\ net' = "served"
               /\ reply' = [rows |-> log] /\ UNCHANGED <<pc, step, verdict, behavior, log>>
Judging     == \/ D!Accepts /\ GoesOn
               \/ D!Accepts /\ step = Len(D!Script) /\ pc' = "done" /\ verdict' = "pass" /\ UNCHANGED step
               \/ ~D!Accepts /\ pc' = "done" /\ verdict' = "fail" /\ UNCHANGED step
Taking      == InScript /\ net = "served" /\ net' = "idle" /\ Judging /\ UNCHANGED <<behavior, log>>
Streaming   == D!OpenStream \/ D!Emit \/ D!HearCancel \/ D!Read \/ D!CancelAnswered \/ D!EndOfStream

\* Every step is one of these, and only three handlers read streams.
LEMMA StepsOfDispatch ==
    ASSUME DispatchAssumption, DType, D!Next, lost' = 0
    PROVE  /\ lost = 0 /\ UNCHANGED <<test, flaw, wired, prior>>
           /\ Sending \/ Setup \/ Setting \/ Dispatching \/ Recalling \/ Taking \/ Streaming
           /\ Streaming => test \in {"05", "08", "10"} /\ pc = "script" /\ step = 2
<1>1. UNCHANGED <<test, flaw, wired, prior>>
  BY DEF D!Next, D!Handler, D!Runner, D!Send, D!Take, D!Lose, D!Read, D!CancelAnswered, D!EndOfStream, D!Mint,
         D!SetBehavior, D!ServeDispatch, D!ServeRecent, D!OpenStream, D!Emit, D!HearCancel, D!call
<1>2. lost = 0 /\ ~D!Lose
  <2>1. ASSUME D!Lose PROVE FALSE
    BY <2>1, LostLLM DEF DType
  <2> QED BY <2>1 DEF D!Next, D!Handler, D!Runner, D!Send, D!Take, D!Read, D!CancelAnswered, D!EndOfStream,
             D!Mint, D!SetBehavior, D!ServeDispatch, D!ServeRecent, D!OpenStream, D!Emit, D!HearCancel, DType
<1>3. ASSUME Streaming PROVE test \in {"05", "08", "10"} /\ pc = "script" /\ step = 2
  <2>1. CASE D!OpenStream
    BY <2>1, Preparing, Asked DEF D!OpenStream, DType, Scripted
  <2>2. CASE net = "streaming"
    BY <2>2 DEF DType, Scripted
  <2>3. CASE net # "streaming" /\ ~D!OpenStream
    BY <1>3, <2>3 DEF Streaming, DType, D!Emit, D!HearCancel, D!Read, D!CancelAnswered, D!EndOfStream
  <2> QED BY <2>1, <2>2, <2>3
<1>10. Sending \/ Setup \/ Setting \/ Dispatching \/ Recalling \/ Taking \/ Streaming
  <2>4. CASE D!Send
    BY <2>4 DEF D!Send, Sending
  <2>5. CASE D!Take
    <3>1. CASE pc = "script"
      BY <2>5, <3>1, TakenLLM DEF Taking, InScript, Judging, GoesOn, D!stream
    <3>2. CASE pc # "script"
      <4> HIDE DEF D!Script, D!Accepts
      <4>1. /\ net = "served" /\ net' = "idle" /\ UNCHANGED <<log, behavior, D!stream>> /\ pc # "done"
        BY <2>5, TakenLLM DEF D!stream
      <4>2. \/ pc' \in {"mint", "fallback", "preset"} /\ UNCHANGED <<step, verdict>>
            \/ pc' = "script" /\ UNCHANGED <<step, verdict>>
            \/ pc' = "done" /\ verdict' = "skip" /\ UNCHANGED step
        BY <2>5, <3>2, TakenLLM DEF DType
      <4> QED BY <3>2, <4>1, <4>2 DEF Setup
    <3> QED BY <3>1, <3>2 DEF Taking, Setup
  <2>6. CASE D!Mint
    BY <2>6, Preparing, Asked DEF D!Mint, DType, Setup
  <2>7. CASE D!SetBehavior
    <3>1. CASE pc = "script"
      BY <2>7, <3>1 DEF D!SetBehavior, DType, Setting, InScript
    <3>2. CASE pc # "script"
      <4>1. pc = "preset"
        BY <2>7, <3>2, Preparing DEF D!SetBehavior, DType
      <4>2. D!Request.arg = "ok"
        BY <4>1 DEF D!Request, D!Set
      <4> QED BY <2>7, <4>1, <4>2 DEF D!SetBehavior, Setup
    <3> QED BY <3>1, <3>2
  <2>8. CASE D!ServeDispatch
    BY <2>8, Preparing DEF D!ServeDispatch, DType, Dispatching, InScript
  <2>9. CASE D!ServeRecent
    BY <2>9, Preparing DEF D!ServeRecent, DType, Recalling, InScript
  <2> QED BY <1>2, <2>4, <2>5, <2>6, <2>7, <2>8, <2>9 DEF D!Next, D!Handler, D!Runner, Streaming
<1> QED BY <1>1, <1>2, <1>3, <1>10

-----------------------------------------------------------------------------
\* What is known of a call none of whose requests was lost: of its verdict, ...
Earned == verdict = "pass" => flaw \notin D!Covered(test)
Kept   == flaw = "none" => verdict \notin {"fail", "error"}

\* ... of the double and the answers, test by test, while the script runs.
Track03 == /\ behavior = "ok"
           /\ Told(2) => reply.stop = IF flaw = "refuse" THEN "MaxTokens" ELSE "NaturalStop"
           /\ Earned /\ Kept

\* SV-LLM-03: a dispatch is refused or not.
LEMMA Refusal ==
    ASSUME DispatchAssumption, DType, D!Next, lost' = 0, test = "03", Track03
    PROVE  Track03'
<1>1. UNCHANGED <<test, flaw>> /\ flaw \in {"none", "refuse"}
  BY StepsOfDispatch DEF DType, D!Covered, D!Unnoticed
<1>2. D!Covered(test)' = {"refuse"} /\ D!Covered(test) = {"refuse"}
  BY <1>1 DEF D!Covered
<1>3. pc = "script" => /\ step \in {1, 2} /\ Len(D!Script) = 2
                       /\ step = 1 => D!Request.do = "set" /\ D!Request.arg = "ok"
                       /\ step = 2 => D!Request.do = "post" /\ D!Request.arg = "plain"
  BY StepsLLM, ScriptLLM DEF DType, Sets, Posts
<1>4. CASE Sending
  BY <1>1, <1>2, <1>4 DEF Sending, Track03, Told, Scripted, Earned, Kept
<1>5. CASE Setup
  BY <1>1, <1>2, <1>5 DEF Setup, Track03, Told, Scripted, Earned, Kept, DType
<1>6. CASE Setting
  BY <1>1, <1>2, <1>3, <1>6 DEF Setting, InScript, Track03, Told, Scripted, Earned, Kept
<1>7. CASE Dispatching
  <2>1. reply'.stop = IF flaw = "refuse" THEN "MaxTokens" ELSE "NaturalStop"
    BY <1>1, <1>7 DEF Dispatching, D!Dispatched, D!Row, Track03
  <2> QED BY <1>1, <1>2, <1>7, <2>1 DEF Dispatching, Track03, Told, Scripted, Earned, Kept
<1>8. CASE Recalling
  BY <1>3, <1>8 DEF Recalling, InScript
<1>9. CASE Taking
  <2>1. CASE step = 1
    <3>1. D!Accepts
      BY <1>3, <1>9, <2>1 DEF D!Accepts, Taking, InScript
    <3>2. GoesOn
      BY <1>3, <1>9, <2>1, <3>1 DEF Taking, InScript, Judging
    <3> QED BY <1>1, <1>2, <1>9, <2>1, <3>2 DEF Taking, Track03, Told, Scripted, Earned, Kept, GoesOn
  <2>2. CASE step = 2
    <3>1. D!Accepts <=> flaw # "refuse"
      BY <1>1, <1>3, <1>9, <2>2 DEF D!Accepts, Taking, InScript, Track03, Told, Scripted
    <3>2. ~(step < Len(D!Script))
      BY <1>3, <1>9, <2>2 DEF Taking, InScript
    <3> QED BY <1>1, <1>2, <1>9, <2>2, <3>1, <3>2 DEF Taking, Judging, Track03, Told, Scripted, Earned, Kept, GoesOn
  <2> QED BY <1>3, <1>9, <2>1, <2>2 DEF Taking, InScript
<1> QED BY StepsOfDispatch, <1>4, <1>5, <1>6, <1>7, <1>8, <1>9

\* SV-LLM-04: the row has the tag that was sent.
Track04 == /\ behavior = "ok"
           /\ Untold(2) => log = Before
           /\ Told(2) \/ Scripted(3) =>
                log = <<D!Row("NaturalStop", "null", IF flaw = "tag" THEN "other" ELSE "tagged")>> \o Before
           /\ Told(3) => reply.rows = log
           /\ Earned /\ Kept

\* What the log's newest row is, once a row is in front of those from before.
LEMMA Newest ==
    ASSUME NEW r
    PROVE  /\ <<r>> \o Before # <<>>
           /\ (<<r>> \o Before)[1] = r
<1> DEFINE Any == {r, D!Row("NaturalStop", "null", "plain")}
<1>1. <<r>> \in Seq(Any)
  OBVIOUS
<1>2. Before \in Seq(Any)
  <2>1. CASE prior
    <3> DEFINE p == D!Row("NaturalStop", "null", "plain")
    <3>1. p \in Any /\ Before = <<p>>
      BY <2>1 DEF Before
    <3> HIDE DEF p, Any
    <3> QED BY <3>1
  <2>2. CASE ~prior
    BY <2>2 DEF Before
  <2> QED BY <2>1, <2>2
<1> HIDE DEF Any
<1> QED BY <1>1, <1>2

\* SV-LLM-04: the row of a dispatch has its billing tag.
LEMMA Tagging ==
    ASSUME DispatchAssumption, DType, D!Next, lost' = 0, test = "04", Track04
    PROVE  Track04'
<1>1. UNCHANGED <<test, flaw>> /\ flaw \in {"none", "tag"} /\ Before' = Before
  BY StepsOfDispatch DEF DType, D!Covered, D!Unnoticed, Before
<1>2. D!Covered(test)' = {"tag"} /\ D!Covered(test) = {"tag"}
  BY <1>1 DEF D!Covered
<1>3. pc = "script" => /\ step \in {1, 2, 3} /\ Len(D!Script) = 3
                       /\ step = 1 => D!Request.do = "set" /\ D!Request.arg = "ok"
                       /\ step = 2 => D!Request.do = "post" /\ D!Request.arg = "tagged"
                       /\ step = 3 => D!Request.do = "recent"
  BY StepsLLM, ScriptLLM DEF DType, Sets, Posts, Recents
<1>4. CASE Sending
  BY <1>1, <1>2, <1>4 DEF Sending, Track04, Told, Untold, Scripted, Earned, Kept
<1>5. CASE Setup
  BY <1>1, <1>2, <1>5 DEF Setup, Track04, Told, Untold, Scripted, Earned, Kept, DType
<1>6. CASE Setting
  BY <1>1, <1>2, <1>3, <1>6 DEF Setting, InScript, Track04, Told, Untold, Scripted, Earned, Kept
<1>7. CASE Dispatching
  <2>1. step = 2 /\ log = Before
    BY <1>3, <1>7 DEF Dispatching, InScript, Track04, Scripted, Untold
  <2>2. reply' = D!Row("NaturalStop", "null", IF flaw = "tag" THEN "other" ELSE "tagged")
    BY <1>1, <1>3, <1>7, <2>1 DEF Dispatching, InScript, D!Dispatched, Track04
  <2>3. log' = <<reply'>> \o log
    BY <1>1, <1>7 DEF Dispatching, D!Logged
  <2> QED BY <1>1, <1>2, <1>7, <2>1, <2>2, <2>3 DEF Dispatching, Track04, Told, Untold, Scripted, Earned, Kept
<1>8. CASE Recalling
  BY <1>1, <1>2, <1>3, <1>8 DEF Recalling, InScript, Track04, Told, Untold, Scripted, Earned, Kept
<1>9. CASE Taking
  <2>1. CASE step \in {1, 2}
    <3>1. D!Accepts
      BY <1>3, <1>9, <2>1 DEF D!Accepts, Taking, InScript
    <3>2. GoesOn
      BY <1>3, <1>9, <2>1, <3>1 DEF Taking, InScript, Judging
    <3> QED BY <1>1, <1>2, <1>9, <2>1, <3>2 DEF Taking, InScript, Track04, Told, Untold, Scripted, Earned, Kept, GoesOn, DType
  <2>2. CASE step = 3
    <3>1. reply.rows # <<>> /\ reply.rows[1] = D!Row("NaturalStop", "null", IF flaw = "tag" THEN "other" ELSE "tagged")
      BY <1>9, <2>2, Newest DEF Taking, InScript, Track04, Told, Scripted
    <3>2. D!Accepts <=> flaw # "tag"
      BY <1>1, <1>3, <1>9, <2>2, <3>1 DEF D!Accepts, D!Row, Taking, InScript
    <3>3. Len(D!Script) = 3
      BY <1>3, <1>9 DEF Taking, InScript
    <3> QED BY <1>1, <1>2, <1>9, <2>2, <3>2, <3>3 DEF Taking, Judging, Track04, Told, Untold, Scripted, Earned, Kept, GoesOn
  <2> QED BY <1>3, <1>9, <2>1, <2>2 DEF Taking, InScript
<1> QED BY StepsOfDispatch, <1>4, <1>5, <1>6, <1>7, <1>8, <1>9

-----------------------------------------------------------------------------
\* SV-LLM-07: which error the double is set to, and what its dispatch said.
Track07 == /\ pc = "script" /\ step % 2 = 0 => behavior = Codes[step \div 2]
           /\ pc = "script" /\ net = "served" /\ step % 2 = 1 => behavior = Codes[(step + 1) \div 2]
           /\ pc = "script" /\ net = "served" /\ step % 2 = 0 =>
                  /\ reply.stop = IF flaw = "unclassified" THEN "NaturalStop" ELSE "DispatcherError"
                  /\ reply.code = IF flaw = "miscoded" THEN "ProviderUnavailable" ELSE Codes[step \div 2]
           /\ pc = "script" /\ flaw = "miscoded" =>
                  \A i \in 1 .. Len(Codes) : 2 * i < step => Codes[i] = "ProviderUnavailable"
           /\ Earned /\ Kept

\* SV-LLM-07: every error of the provider is answered with its own code.
LEMMA Coding ==
    ASSUME DispatchAssumption, DType, D!Next, lost' = 0, test = "07", Track07
    PROVE  Track07'
<1>1. UNCHANGED <<test, flaw>> /\ flaw \in {"none", "miscoded", "unclassified"}
  BY StepsOfDispatch DEF DType, D!Covered, D!Unnoticed
<1>2. D!Covered(test)' = {"miscoded", "unclassified"} /\ D!Covered(test) = {"miscoded", "unclassified"}
  BY <1>1 DEF D!Covered
<1> DEFINE n == Len(D!Script)
           k == Len(Codes)
<1>3. pc = "script" => /\ step \in Nat \ {0} /\ n = 2 * k /\ step <= n /\ k \in Nat \ {0}
                       /\ step % 2 = 1 => D!Request.do = "set" /\ D!Request.arg = Codes[(step + 1) \div 2]
                       /\ step % 2 = 0 => step \div 2 \in 1 .. k
                       /\ step % 2 = 0 => D!Request.do = "post" /\ D!Request.arg = Codes[step \div 2]
  BY ScriptLLM DEF DType, Sets, Posts, DispatchAssumption
<1>10. step \in Nat /\ (step % 2 = 0 \/ step % 2 = 1)
  BY DEF DType
<1>11. \A i \in 1 .. k : Codes[i] \notin {"ok", "stream"}
  BY DEF DispatchAssumption, CodesDiffer
<1>4. CASE Sending
  BY <1>1, <1>2, <1>4 DEF Sending, Track07, Told, Scripted, Earned, Kept
<1>5. CASE Setup
  <2>1. step = 1
    BY <1>5 DEF Setup, DType
  <2> QED BY <1>1, <1>2, <1>5, <2>1 DEF Setup, Track07, Told, Scripted, Earned, Kept, DType
<1>6. CASE Setting
  BY <1>1, <1>2, <1>3, <1>6, <1>10 DEF Setting, InScript, Track07, Told, Scripted, Earned, Kept
<1>7. CASE Dispatching
  <2>1. step % 2 = 0 /\ behavior = Codes[step \div 2] /\ behavior \notin {"ok", "stream"}
    BY <1>3, <1>7, <1>10, <1>11 DEF Dispatching, InScript, Track07, Scripted
  <2>2. /\ reply'.stop = IF flaw = "unclassified" THEN "NaturalStop" ELSE "DispatcherError"
        /\ reply'.code = IF flaw = "miscoded" THEN "ProviderUnavailable" ELSE Codes[step \div 2]
    BY <1>1, <1>7, <2>1 DEF Dispatching, D!Dispatched, D!Row
  <2> QED BY <1>1, <1>2, <1>7, <2>1, <2>2 DEF Dispatching, Track07, Told, Scripted, Earned, Kept
<1>8. CASE Recalling
  BY <1>3, <1>8, <1>10 DEF Recalling, InScript
<1>9. CASE Taking
  <2>1. CASE step % 2 = 1
    <3>1. D!Accepts
      BY <1>3, <1>9, <2>1 DEF D!Accepts, Taking, InScript
    <3>2. step # n
      <4>1. pc = "script"
        BY <1>9 DEF Taking, InScript
      <4> HIDE DEF n, k
      <4> QED BY <1>3, <2>1, <4>1
    <3>3. GoesOn
      BY <1>9, <3>1, <3>2 DEF Taking, Judging
    <3>4. (step + 1) % 2 = 0 /\ (step + 1) \in Nat
      BY <1>10, <2>1
    <3>5. behavior = Codes[(step + 1) \div 2]
      BY <1>9, <2>1 DEF Track07, Told, Scripted, Taking, InScript
    <3>6. ASSUME flaw = "miscoded", NEW i \in 1 .. k, 2 * i < step + 1 PROVE Codes[i] = "ProviderUnavailable"
      <4>1. 2 * i < step
        BY <1>10, <2>1, <3>6
      <4> QED BY <1>9, <3>6, <4>1 DEF Track07, Scripted, Taking, InScript
    <3>7. (\A i \in 1 .. k : 2 * i < step => Codes[i] = "ProviderUnavailable")' \/ flaw # "miscoded"
      BY <3>3, <3>6 DEF GoesOn
    <3>8. step' = step + 1 /\ pc' = "script" /\ net' = "idle" /\ behavior' = behavior /\ verdict' = verdict
      BY <1>9, <3>3 DEF Taking, GoesOn
    <3> QED BY <1>1, <1>2, <3>4, <3>5, <3>7, <3>8 DEF Track07, Told, Scripted, Earned, Kept
  <2>2. CASE step % 2 = 0
    <3>1. D!Accepts <=> /\ flaw # "unclassified"
                        /\ flaw = "miscoded" => Codes[step \div 2] = "ProviderUnavailable"
      BY <1>1, <1>3, <1>9, <2>2 DEF D!Accepts, Taking, InScript, Track07, Told, Scripted
    <3>2. CASE ~D!Accepts
      BY <1>1, <1>2, <1>9, <3>1, <3>2 DEF Taking, Judging, Track07, Told, Scripted, Earned, Kept
    <3>3. CASE D!Accepts
      <4>1. ASSUME flaw = "miscoded", NEW i \in 1 .. k, 2 * i <= step PROVE Codes[i] = "ProviderUnavailable"
        <5>1. CASE 2 * i = step
          <6>1. step \div 2 = i
            BY <5>1
          <6> QED BY <3>1, <3>3, <4>1, <6>1
        <5>2. CASE 2 * i < step
          BY <1>9, <4>1, <5>2 DEF Track07, Scripted, Taking, InScript
        <5> QED BY <1>10, <4>1, <5>1, <5>2
      <4>2. CASE GoesOn
        <5>1. (step + 1) % 2 = 1 /\ step' = step + 1
          BY <1>10, <2>2, <4>2 DEF GoesOn
        <5>2. ASSUME flaw = "miscoded", NEW i \in 1 .. k, 2 * i < step + 1 PROVE Codes[i] = "ProviderUnavailable"
          BY <1>10, <4>1, <5>2
        <5>3. pc' = "script" /\ net' = "idle" /\ verdict' = verdict
          BY <1>9, <4>2 DEF Taking, GoesOn
        <5> QED BY <1>1, <1>2, <5>1, <5>2, <5>3 DEF Track07, Told, Scripted, Earned, Kept
      <4>3. CASE ~GoesOn
        <5>1. step = n /\ pc' = "done" /\ verdict' = "pass" /\ pc = "script"
          BY <1>9, <3>3, <4>3 DEF Taking, Judging, InScript
        <5>2. flaw # "miscoded"
          <6>1. ASSUME flaw = "miscoded", NEW i \in 1 .. k PROVE Codes[i] = "ProviderUnavailable"
            <7>1. 2 * i <= step
              <8> HIDE DEF n, k
              <8> QED BY <1>3, <5>1
            <7> QED BY <4>1, <6>1, <7>1
          <6> QED BY <6>1 DEF DispatchAssumption, CodesDiffer
        <5> QED BY <1>1, <1>2, <3>1, <3>3, <5>1, <5>2 DEF Track07, Told, Scripted, Earned, Kept
      <4> QED BY <4>2, <4>3
    <3> QED BY <3>2, <3>3
  <2> QED BY <1>10, <2>1, <2>2
<1> QED BY StepsOfDispatch, <1>4, <1>5, <1>6, <1>7, <1>8, <1>9

-----------------------------------------------------------------------------
\* The rows of SV-LLM-06, and the steps between which the double fails.
Rows06 == [stop : {"NaturalStop", "DispatcherError"}, code : {"null", "ProviderAuthFailed"}, tag : {"plain"}]
Right  == D!Row("NaturalStop", "null", "plain")
Wrong  == D!Row("DispatcherError", "ProviderAuthFailed", "plain")
Failing == Told(3) \/ Scripted(4) \/ Untold(5)

\* SV-LLM-06: the newest rows of the log, dispatch by dispatch.
Track06 == /\ pc # "done" => behavior = IF Failing THEN "ProviderAuthFailed" ELSE "ok"
           /\ log \in Seq(Rows06)
           /\ flaw \in {"rowless", "unclassified"} => \A i \in 1 .. Len(log) : log[i].stop = "NaturalStop"
           /\ flaw = "codeless" => \A i \in 1 .. Len(log) : log[i].code = "null"
           /\ flaw = "none" =>
                /\ Told(2) \/ Scripted(3) \/ Untold(4) => Len(log) >= 1 /\ log[1] = Right
                /\ Told(4) \/ Scripted(5) \/ Untold(6) => Len(log) >= 2 /\ log[1] = Wrong /\ log[2] = Right
                /\ Told(6) \/ Scripted(7) => Len(log) >= 3 /\ log[1] = Right /\ log[2] = Wrong /\ log[3] = Right
           /\ Told(7) => reply.rows = log
           /\ Earned /\ Kept

\* A row in front of the others.
LEMMA InFront ==
    ASSUME NEW r \in Rows06, log \in Seq(Rows06)
    PROVE  /\ <<r>> \o log \in Seq(Rows06)
           /\ Len(<<r>> \o log) = Len(log) + 1
           /\ (<<r>> \o log)[1] = r
           /\ \A i \in 1 .. Len(log) : (<<r>> \o log)[i + 1] = log[i]
           /\ \A i \in 2 .. Len(log) + 1 : (<<r>> \o log)[i] = log[i - 1]
<1>1. <<r>> \in Seq(Rows06)
  OBVIOUS
<1> QED BY <1>1

\* The rows of SV-LLM-06 are such rows.
LEMMA RowsAre ==
    ASSUME NEW s \in {"NaturalStop", "DispatcherError"}, NEW c \in {"null", "ProviderAuthFailed"}
    PROVE  /\ D!Row(s, c, "plain") \in Rows06
           /\ D!Row(s, c, "plain").stop = s /\ D!Row(s, c, "plain").code = c
BY DEF D!Row, Rows06

\* Before a script begins the log is the one from before the call.
LEMMA OldRows == Before \in Seq(Rows06) /\ \A i \in 1 .. Len(Before) : Before[i] = Right
<1> DEFINE p == Right
<1>1. p \in Rows06
  BY RowsAre DEF Right
<1>2. Before = IF prior THEN <<p>> ELSE <<>>
  BY DEF Before, Right
<1>5. p = Right
  OBVIOUS
<1> HIDE DEF p
<1>3. CASE prior
  <2>1. Before = <<p>>
    BY <1>2, <1>3
  <2> QED BY <1>1, <1>5, <2>1
<1>4. CASE ~prior
  BY <1>2, <1>4
<1> QED BY <1>3, <1>4

\* SV-LLM-06: the log has the rows of a good, a failing and a good dispatch.
LEMMA Classifying ==
    ASSUME DispatchAssumption, DType, D!Next, lost' = 0, test = "06", Track06
    PROVE  Track06'
<1>1. UNCHANGED <<test, flaw>> /\ flaw \in {"none", "rowless", "unclassified", "codeless", "oldestFirst"}
  BY StepsOfDispatch DEF DType, D!Covered, D!Unnoticed
<1>2. /\ D!Covered(test)' = {"rowless", "unclassified", "codeless"}
      /\ D!Covered(test) = {"rowless", "unclassified", "codeless"}
  BY <1>1 DEF D!Covered
<1>3. pc = "script" => /\ step \in {1, 2, 3, 4, 5, 6, 7} /\ Len(D!Script) = 7
                       /\ step \in {1, 5} => D!Request.do = "set" /\ D!Request.arg = "ok"
                       /\ step = 3 => D!Request.do = "set" /\ D!Request.arg = "ProviderAuthFailed"
                       /\ step \in {2, 4, 6} => D!Request.do = "post" /\ D!Request.arg = "plain"
                       /\ step = 7 => D!Request.do = "recent"
  BY StepsLLM, ScriptLLM DEF DType, Sets, Posts, Recents
<1>4. CASE Sending
  BY <1>1, <1>2, <1>4 DEF Sending, Track06, Told, Untold, Scripted, Failing, Earned, Kept
<1>5. CASE Setup
  BY <1>1, <1>2, <1>5 DEF Setup, Track06, Told, Untold, Scripted, Failing, Earned, Kept, DType
<1>6. CASE Setting
  BY <1>1, <1>2, <1>3, <1>6 DEF Setting, InScript, Track06, Told, Untold, Scripted, Failing, Earned, Kept
<1>7. CASE Dispatching
  <2>1. step \in {2, 4, 6} /\ pc = "script" /\ pc' = pc /\ step' = step
    BY <1>3, <1>7 DEF Dispatching, InScript
  <2>2. /\ step = 4 => behavior = "ProviderAuthFailed"
        /\ step \in {2, 6} => behavior = "ok"
    BY <2>1 DEF Track06, Failing, Told, Untold, Scripted
  <2>3. reply' = D!Dispatched("plain") /\ log' = D!Logged(reply') /\ net = "sent" /\ net' = "served"
    BY <1>3, <1>7, <2>1 DEF Dispatching
  <2>4. step \in {2, 6} => reply' = Right
    BY <1>1, <2>2, <2>3 DEF D!Dispatched, Right
  <2>5. step = 4 => reply' = D!Row(IF flaw = "unclassified" THEN "NaturalStop" ELSE "DispatcherError",
                                  IF flaw = "codeless" THEN "null" ELSE "ProviderAuthFailed", "plain")
    BY <1>1, <2>2, <2>3 DEF D!Dispatched
  <2>6. /\ reply' \in Rows06
        /\ flaw = "unclassified" => reply'.stop = "NaturalStop"
        /\ flaw = "codeless" => reply'.code = "null"
        /\ flaw = "none" /\ step = 4 => reply' = Wrong
    BY <2>1, <2>4, <2>5, RowsAre DEF Right, Wrong
  <2>7. CASE flaw \in {"none", "unclassified", "codeless"}
    <3>1. log' = <<reply'>> \o log
      BY <2>3, <2>7 DEF D!Logged
    <3> DEFINE r == reply'
    <3>2. /\ log' \in Seq(Rows06) /\ Len(log') = Len(log) + 1 /\ log'[1] = r
          /\ \A i \in 1 .. Len(log) : log'[i + 1] = log[i]
          /\ \A i \in 2 .. Len(log) + 1 : log'[i] = log[i - 1]
      <4>1. r \in Rows06 /\ log' = <<r>> \o log
        BY <2>6, <3>1
      <4> HIDE DEF r
      <4> QED BY <4>1, InFront DEF Track06
    <3>3. Len(log) \in Nat
      BY DEF Track06
    <3>4. flaw = "unclassified" => \A i \in 1 .. Len(log') : log'[i].stop = "NaturalStop"
      BY <2>6, <3>2, <3>3 DEF Track06
    <3>5. flaw = "codeless" => \A i \in 1 .. Len(log') : log'[i].code = "null"
      BY <2>6, <3>2, <3>3 DEF Track06
    <3>6. flaw = "none" =>
             /\ step = 2 => Len(log') >= 1 /\ log'[1] = Right
             /\ step = 4 => Len(log') >= 2 /\ log'[1] = Wrong /\ log'[2] = Right
             /\ step = 6 => Len(log') >= 3 /\ log'[1] = Right /\ log'[2] = Wrong /\ log'[3] = Right
      <4>1. CASE step = 2
        BY <2>4, <3>2, <3>3, <4>1
      <4>2. CASE step = 4 /\ flaw = "none"
        <5>1. Len(log) >= 1 /\ log[1] = Right
          BY <2>1, <2>3, <4>2 DEF Track06, Untold, Scripted
        <5> QED BY <2>6, <3>2, <3>3, <4>2, <5>1
      <4>3. CASE step = 6 /\ flaw = "none"
        <5>1. Len(log) >= 2 /\ log[1] = Wrong /\ log[2] = Right
          BY <2>1, <2>3, <4>3 DEF Track06, Untold, Scripted
        <5>2. log'[3] = log[2] /\ log'[2] = log[1]
          BY <3>2, <3>3, <5>1
        <5> QED BY <2>4, <3>2, <3>3, <4>3, <5>1, <5>2
      <4> QED BY <2>1, <4>1, <4>2, <4>3
    <3> QED BY <1>1, <1>2, <1>7, <2>1, <2>2, <2>3, <2>7, <3>2, <3>4, <3>5, <3>6
            DEF Dispatching, Track06, Told, Untold, Scripted, Failing, Earned, Kept
  <2>8. CASE flaw = "rowless"
    <3>1. CASE step = 4
      <4>1. reply'.stop = "DispatcherError"
        BY <2>5, <2>8, <3>1, RowsAre
      <4>2. log' = log
        BY <2>3, <2>8, <4>1 DEF D!Logged
      <4> QED BY <1>1, <1>2, <1>7, <2>1, <2>2, <2>3, <2>8, <4>2
              DEF Dispatching, Track06, Told, Untold, Scripted, Failing, Earned, Kept
    <3>2. CASE step \in {2, 6}
      <4> DEFINE r == reply'
      <4>1. r.stop = "NaturalStop" /\ r \in Rows06
        BY <2>4, <2>6, <3>2, RowsAre DEF Right
      <4>2. log' = <<r>> \o log
        BY <2>3, <2>8, <4>1 DEF D!Logged
      <4>3. /\ log' \in Seq(Rows06) /\ Len(log') = Len(log) + 1 /\ log'[1] = r
            /\ \A i \in 2 .. Len(log) + 1 : log'[i] = log[i - 1]
        <5> HIDE DEF r
        <5> QED BY <4>1, <4>2, InFront DEF Track06
      <4>4. Len(log) \in Nat
        BY DEF Track06
      <4>5. \A i \in 1 .. Len(log') : log'[i].stop = "NaturalStop"
        <5>1. ASSUME NEW i \in 1 .. Len(log') PROVE log'[i].stop = "NaturalStop"
          <6>1. CASE i = 1
            BY <4>1, <4>3, <6>1
          <6>2. CASE i # 1
            <7>1. i \in 2 .. Len(log) + 1 /\ i - 1 \in 1 .. Len(log)
              BY <4>3, <4>4, <5>1, <6>2
            <7>2. log'[i] = log[i - 1]
              BY <4>3, <7>1
            <7> QED BY <2>8, <7>1, <7>2 DEF Track06
          <6> QED BY <6>1, <6>2
        <5> QED BY <5>1
      <4> QED BY <1>1, <1>2, <1>7, <2>1, <2>2, <2>3, <2>8, <4>3, <4>5
              DEF Dispatching, Track06, Told, Untold, Scripted, Failing, Earned, Kept
    <3> QED BY <2>1, <3>1, <3>2
  <2>9. CASE flaw = "oldestFirst"
    <3> DEFINE r == reply'
    <3>1. log' = Append(log, r) /\ r \in Rows06
      BY <2>3, <2>6, <2>9 DEF D!Logged
    <3>2. log' \in Seq(Rows06)
      <4> HIDE DEF r
      <4> QED BY <3>1 DEF Track06
    <3> QED BY <1>1, <1>2, <1>7, <2>1, <2>2, <2>3, <2>9, <3>2
            DEF Dispatching, Track06, Told, Untold, Scripted, Failing, Earned, Kept
  <2> QED BY <1>1, <2>7, <2>8, <2>9
<1>8. CASE Recalling
  BY <1>1, <1>2, <1>3, <1>8 DEF Recalling, InScript, Track06, Told, Untold, Scripted, Failing, Earned, Kept
<1>9. CASE Taking
  <2>1. CASE step # 7
    <3>1. D!Accepts
      BY <1>3, <1>9, <2>1 DEF D!Accepts, Taking, InScript
    <3>2. GoesOn
      BY <1>3, <1>9, <2>1, <3>1 DEF Taking, InScript, Judging
    <3> QED BY <1>1, <1>2, <1>3, <1>9, <2>1, <3>2
            DEF Taking, InScript, Track06, Told, Untold, Scripted, Failing, Earned, Kept, GoesOn, DType
  <2>2. CASE step = 7
    <3>1. reply.rows = log /\ Len(D!Script) = 7 /\ D!Request.do = "recent"
      BY <1>3, <1>9, <2>2 DEF Taking, InScript, Track06, Told, Scripted
    <3>2. D!Accepts <=> D!Classified(log)
      BY <3>1 DEF D!Accepts
    <3>3. D!Classified(log) <=> /\ Len(log) >= 3
                                /\ log[1].stop = "NaturalStop" /\ log[2].stop = "DispatcherError"
                                /\ log[3].stop = "NaturalStop" /\ log[2].code = "ProviderAuthFailed"
      BY DEF D!Classified
    <3>4. flaw = "none" => D!Accepts
      <4>1. ASSUME flaw = "none"
            PROVE  Len(log) >= 3 /\ log[1] = Right /\ log[2] = Wrong /\ log[3] = Right
        BY <1>9, <2>2, <4>1 DEF Taking, InScript, Track06, Scripted
      <4> QED BY <3>2, <3>3, <4>1, RowsAre DEF Right, Wrong
    <3>5. flaw \in {"rowless", "unclassified", "codeless"} => ~D!Accepts
      <4>1. Len(log) \in Nat
        BY DEF Track06
      <4> QED BY <3>2, <3>3, <4>1 DEF Track06
    <3> HIDE DEF D!Accepts, D!Classified
    <3> QED BY <1>1, <1>2, <1>9, <2>2, <3>1, <3>4, <3>5
            DEF Taking, Judging, Track06, Told, Untold, Scripted, Earned, Kept, GoesOn
  <2> QED BY <2>1, <2>2
<1> QED BY StepsOfDispatch, <1>4, <1>5, <1>6, <1>7, <1>8, <1>9

-----------------------------------------------------------------------------
\* Streams: their events, and how many are of a type.
EventTypes == {"MessageStart", "BlockStart", "Delta", "BlockEnd", "MessageEnd"}
Events     == [typ : EventTypes, seq : Int, stop : {"NaturalStop", "UserInterrupt"}]
OfIn(e, t) == {i \in DOMAIN e : e[i].typ = t}

\* The events of a type are finitely many.
LEMMA OfFinite ==
    ASSUME NEW e \in Seq(Events), NEW t
    PROVE  /\ IsFiniteSet(OfIn(e, t)) /\ Cardinality(OfIn(e, t)) \in Nat
           /\ Cardinality(OfIn(e, t)) = 0 <=> OfIn(e, t) = {}
           /\ \A a : OfIn(e, t) = {a} => Cardinality(OfIn(e, t)) = 1
           /\ \A a, b \in OfIn(e, t) : a # b => Cardinality(OfIn(e, t)) >= 2
           /\ \A a, b : OfIn(e, t) \subseteq {a, b} => Cardinality(OfIn(e, t)) <= 2
<1> DEFINE S == OfIn(e, t)
<1>1. IsFiniteSet(S) /\ Cardinality(S) \in Nat
  <2>1. IsFiniteSet(1 .. Len(e))
    BY FS_Interval
  <2>2. S \in SUBSET (1 .. Len(e))
    BY DEF OfIn
  <2> QED BY <2>1, <2>2, FS_Subset, FS_CardinalityType
<1> HIDE DEF S
<1>2. Cardinality(S) = 0 <=> S = {}
  BY <1>1, FS_EmptySet
<1>3. ASSUME NEW a, S = {a} PROVE Cardinality(S) = 1
  BY <1>3, FS_Singleton
<1>4. ASSUME NEW a \in S, NEW b \in S, a # b PROVE Cardinality(S) >= 2
  <2>1. Cardinality(S) # 0
    BY <1>2
  <2>2. Cardinality(S) # 1
    BY <1>1, <1>4, FS_Singleton
  <2> QED BY <1>1, <2>1, <2>2
<1>5. ASSUME NEW a, NEW b, S \subseteq {a, b} PROVE Cardinality(S) <= 2
  <2>1. IsFiniteSet({a}) /\ Cardinality({a}) = 1
    BY FS_Singleton
  <2>2. IsFiniteSet({a} \cup {b}) /\ Cardinality({a} \cup {b}) \in {1, 2}
    <3> DEFINE one == {a}
    <3>1. IsFiniteSet(one) /\ Cardinality(one) = 1
      BY <2>1
    <3> HIDE DEF one
    <3>2. IsFiniteSet(one \cup {b}) /\ Cardinality(one \cup {b}) = IF b \in one THEN 1 ELSE 1 + 1
      BY <3>1, FS_AddElement
    <3>3. Cardinality(one \cup {b}) \in {1, 2}
      BY <3>2
    <3> QED BY <3>2, <3>3 DEF one
  <2>3. S \in SUBSET ({a} \cup {b})
    BY <1>5
  <2> QED BY <1>1, <2>2, <2>3, FS_Subset
<1> QED BY <1>1, <1>2, <1>3, <1>4, <1>5 DEF S

\* One more event is one more of its type.
LEMMA OfAppend ==
    ASSUME NEW e \in Seq(Events), NEW v \in Events, NEW t
    PROVE  /\ Append(e, v) \in Seq(Events) /\ Len(Append(e, v)) = Len(e) + 1
           /\ Cardinality(OfIn(Append(e, v), t)) = Cardinality(OfIn(e, t)) + IF v.typ = t THEN 1 ELSE 0
<1> DEFINE f == Append(e, v)
<1>1. /\ f \in Seq(Events) /\ Len(f) = Len(e) + 1 /\ DOMAIN f = 1 .. Len(e) + 1
      /\ f[Len(e) + 1] = v /\ \A i \in 1 .. Len(e) : f[i] = e[i]
      /\ DOMAIN e = 1 .. Len(e) /\ Len(e) \in Nat
  OBVIOUS
<1> HIDE DEF f
<1>2. CASE v.typ = t
  <2>1. OfIn(f, t) = OfIn(e, t) \cup {Len(e) + 1} /\ Len(e) + 1 \notin OfIn(e, t)
    BY <1>1, <1>2 DEF OfIn
  <2>2. Cardinality(OfIn(f, t)) = Cardinality(OfIn(e, t)) + 1
    BY <2>1, OfFinite, FS_AddElement
  <2> QED BY <1>1, <1>2, <2>2 DEF f
<1>3. CASE v.typ # t
  <2>1. OfIn(f, t) = OfIn(e, t)
    BY <1>1, <1>3 DEF OfIn
  <2>2. Cardinality(OfIn(e, t)) \in Nat
    BY OfFinite
  <2> QED BY <1>1, <1>3, <2>1, <2>2 DEF f
<1> QED BY <1>2, <1>3

\* A block has its deltas between its start and its end.
LEMMA BodyIs ==
    ASSUME NEW n \in Nat
    PROVE  /\ D!Body(n) \in Seq(EventTypes) /\ Len(D!Body(n)) = n + 2
           /\ D!Body(n)[1] = "BlockStart" /\ D!Body(n)[n + 2] = "BlockEnd"
           /\ \A i \in 2 .. n + 1 : D!Body(n)[i] = "Delta"
<1> DEFINE d == [i \in 1 .. n |-> "Delta"]
           a == <<"BlockStart">>
           z == <<"BlockEnd">>
<1>1. d \in Seq(EventTypes) /\ Len(d) = n /\ \A i \in 1 .. n : d[i] = "Delta"
  BY DEF EventTypes
<1>2. a \in Seq(EventTypes) /\ Len(a) = 1 /\ a[1] = "BlockStart"
  BY DEF EventTypes
<1>3. z \in Seq(EventTypes) /\ Len(z) = 1 /\ z[1] = "BlockEnd"
  BY DEF EventTypes
<1>4. D!Body(n) = (a \o d) \o z
  BY DEF D!Body
<1> HIDE DEF a, d, z
<1> DEFINE ad == a \o d
           w  == ad \o z
<1>5. D!Body(n) = w
  BY <1>4
<1>6. /\ ad \in Seq(EventTypes) /\ Len(ad) = 1 + n
      /\ \A i \in 1 .. 1 + n : ad[i] = IF i <= 1 THEN a[i] ELSE d[i - 1]
  <2>1. /\ ad \in Seq(EventTypes) /\ Len(ad) = Len(a) + Len(d)
        /\ \A i \in 1 .. Len(a) + Len(d) : ad[i] = IF i <= Len(a) THEN a[i] ELSE d[i - Len(a)]
    BY <1>1, <1>2, ConcatProperties
  <2> HIDE DEF ad
  <2> QED BY <1>1, <1>2, <2>1
<1> HIDE DEF ad
<1>7. /\ w \in Seq(EventTypes) /\ Len(w) = 1 + n + 1
      /\ \A i \in 1 .. 1 + n + 1 : w[i] = IF i <= 1 + n THEN ad[i] ELSE z[i - (1 + n)]
  <2>1. /\ w \in Seq(EventTypes) /\ Len(w) = Len(ad) + Len(z)
        /\ \A i \in 1 .. Len(ad) + Len(z) : w[i] = IF i <= Len(ad) THEN ad[i] ELSE z[i - Len(ad)]
    BY <1>3, <1>6, ConcatProperties
  <2> HIDE DEF w
  <2> QED BY <1>3, <1>6, <2>1
<1> HIDE DEF w
<1>8. w[1] = "BlockStart" /\ w[n + 2] = "BlockEnd"
  BY <1>2, <1>3, <1>6, <1>7
<1>9. ASSUME NEW i \in 2 .. n + 1 PROVE w[i] = "Delta"
  BY <1>1, <1>6, <1>7
<1> QED BY <1>5, <1>7, <1>8, <1>9

\* What three sequences in a row consist of.
LEMMA InARow ==
    ASSUME NEW e \in Seq(EventTypes), NEW f \in Seq(EventTypes), NEW g \in Seq(EventTypes)
    PROVE  /\ e \o f \o g \in Seq(EventTypes) /\ Len(e \o f \o g) = Len(e) + Len(f) + Len(g)
           /\ \A i \in 1 .. Len(e) + Len(f) + Len(g) :
                (e \o f \o g)[i] = IF i <= Len(e) THEN e[i]
                                   ELSE IF i <= Len(e) + Len(f) THEN f[i - Len(e)]
                                   ELSE g[i - (Len(e) + Len(f))]
<1> DEFINE ef == e \o f
           w  == ef \o g
<1>1. /\ ef \in Seq(EventTypes) /\ Len(ef) = Len(e) + Len(f)
      /\ \A i \in 1 .. Len(e) + Len(f) : ef[i] = IF i <= Len(e) THEN e[i] ELSE f[i - Len(e)]
  BY ConcatProperties
<1>2. w = e \o f \o g
  OBVIOUS
<1>6. ef \in Seq(EventTypes)
  BY <1>1
<1> HIDE DEF ef
<1>3. /\ w \in Seq(EventTypes) /\ Len(w) = Len(ef) + Len(g)
      /\ \A i \in 1 .. Len(ef) + Len(g) : w[i] = IF i <= Len(ef) THEN ef[i] ELSE g[i - Len(ef)]
  BY <1>6, ConcatProperties
<1> HIDE DEF w
<1>4. Len(w) = Len(e) + Len(f) + Len(g)
  BY <1>1, <1>3
<1>5. \A i \in 1 .. Len(e) + Len(f) + Len(g) :
         w[i] = IF i <= Len(e) THEN e[i]
                ELSE IF i <= Len(e) + Len(f) THEN f[i - Len(e)] ELSE g[i - (Len(e) + Len(f))]
  BY <1>1, <1>3
<1> QED BY <1>2, <1>3, <1>4, <1>5

\* The start of a stream, its blocks and its end.
Start  == CASE flaw = "noStart" -> <<>> [] flaw = "twoStarts" -> <<"MessageStart", "MessageStart">>
            [] OTHER -> <<"MessageStart">>
Blocks == CASE flaw = "nested" -> <<"BlockStart">> \o D!Body(Deltas)
            [] flaw = "stray" -> <<"Delta">> \o D!Body(Deltas)
            [] flaw = "unclosed" -> SubSeq(D!Body(Deltas), 1, Deltas + 1)
            [] OTHER -> D!Body(Deltas)
Finish == IF flaw = "noEnd" THEN <<>> ELSE <<"MessageEnd">>

\* What each of them consists of.
LEMMA StartIs ==
    /\ Start \in Seq(EventTypes) /\ \A i \in 1 .. Len(Start) : Start[i] = "MessageStart"
    /\ Len(Start) = IF flaw = "noStart" THEN 0 ELSE IF flaw = "twoStarts" THEN 2 ELSE 1
<1>1. CASE flaw = "noStart"
  BY <1>1 DEF Start
<1>2. CASE flaw = "twoStarts"
  BY <1>2 DEF Start, EventTypes
<1>3. CASE flaw \notin {"noStart", "twoStarts"}
  BY <1>3 DEF Start, EventTypes
<1> QED BY <1>1, <1>2, <1>3

\* The end of a stream.
LEMMA FinishIs ==
    /\ Finish \in Seq(EventTypes) /\ \A i \in 1 .. Len(Finish) : Finish[i] = "MessageEnd"
    /\ Len(Finish) = IF flaw = "noEnd" THEN 0 ELSE 1
<1>1. CASE flaw = "noEnd"
  BY <1>1 DEF Finish
<1>2. CASE flaw # "noEnd"
  BY <1>2 DEF Finish, EventTypes
<1> QED BY <1>1, <1>2

\* The blocks between.
LEMMA BlocksAre ==
    ASSUME Deltas \in Nat
    PROVE  /\ Blocks \in Seq(EventTypes)
           /\ Len(Blocks) >= 1 /\ Len(Blocks) \in Nat
           /\ \A i \in 1 .. Len(Blocks) : Blocks[i] \in {"BlockStart", "Delta", "BlockEnd"}
           /\ flaw \notin {"nested", "stray", "unclosed"} => Blocks = D!Body(Deltas)
           /\ flaw = "nested" => Len(Blocks) >= 2 /\ Blocks[1] = "BlockStart" /\ Blocks[2] = "BlockStart"
           /\ flaw = "stray" => Blocks[1] = "Delta"
           /\ flaw = "unclosed" => /\ \A i \in 1 .. Len(Blocks) : Blocks[i] # "BlockEnd"
                                   /\ Blocks[1] = "BlockStart"
<1> DEFINE b == D!Body(Deltas)
<1>1. /\ b \in Seq(EventTypes) /\ Len(b) = Deltas + 2 /\ b[1] = "BlockStart" /\ b[Deltas + 2] = "BlockEnd"
      /\ \A i \in 2 .. Deltas + 1 : b[i] = "Delta"
  BY BodyIs
<1>2. \A i \in 1 .. Len(b) : b[i] \in {"BlockStart", "Delta", "BlockEnd"}
  <2> HIDE DEF b
  <2> QED BY <1>1
<1>3. ASSUME NEW t \in {"BlockStart", "Delta"}
      PROVE  /\ <<t>> \o b \in Seq(EventTypes) /\ Len(<<t>> \o b) = Deltas + 3
             /\ (<<t>> \o b)[1] = t /\ (<<t>> \o b)[2] = "BlockStart"
             /\ \A i \in 1 .. Len(<<t>> \o b) : (<<t>> \o b)[i] \in {"BlockStart", "Delta", "BlockEnd"}
  <2> DEFINE o == <<t>>
             w == o \o b
  <2>1. o \in Seq(EventTypes) /\ Len(o) = 1 /\ o[1] = t
    BY DEF EventTypes
  <2>2. w = <<t>> \o b
    OBVIOUS
  <2> HIDE DEF o, b
  <2>3. /\ w \in Seq(EventTypes) /\ Len(w) = Len(o) + Len(b)
        /\ \A i \in 1 .. Len(o) + Len(b) : w[i] = IF i <= Len(o) THEN o[i] ELSE b[i - Len(o)]
    BY <1>1, <2>1, ConcatProperties
  <2> HIDE DEF w
  <2>4. Len(w) = Deltas + 3 /\ \A i \in 1 .. Deltas + 3 : w[i] = IF i <= 1 THEN o[i] ELSE b[i - 1]
    BY <1>1, <2>1, <2>3
  <2>5. w[1] = t /\ w[2] = "BlockStart"
    BY <1>1, <2>1, <2>4
  <2>6. ASSUME NEW i \in 1 .. Deltas + 3 PROVE w[i] \in {"BlockStart", "Delta", "BlockEnd"}
    <3>1. CASE i = 1
      BY <2>5, <3>1
    <3>2. CASE i # 1
      <4>1. i - 1 \in 1 .. Len(b) /\ w[i] = b[i - 1]
        BY <1>1, <2>4, <2>6, <3>2
      <4> QED BY <1>2, <4>1
    <3> QED BY <3>1, <3>2
  <2> QED BY <2>2, <2>3, <2>4, <2>5, <2>6
<1>4. CASE flaw = "nested"
  <2>1. Blocks = <<"BlockStart">> \o b
    BY <1>4 DEF Blocks
  <2> HIDE DEF b
  <2> QED BY <1>3, <1>4, <2>1
<1>5. CASE flaw = "stray"
  <2>1. Blocks = <<"Delta">> \o b
    BY <1>5 DEF Blocks
  <2> HIDE DEF b
  <2> QED BY <1>3, <1>5, <2>1
<1>6. CASE flaw = "unclosed"
  <2> DEFINE w == SubSeq(b, 1, Deltas + 1)
  <2>1. Blocks = w
    BY <1>6 DEF Blocks
  <2> HIDE DEF b
  <2>2. /\ w \in Seq(EventTypes) /\ Len(w) = Deltas + 1
        /\ \A i \in 1 .. Deltas + 1 : w[i] = b[i]
    BY <1>1
  <2> HIDE DEF w
  <2>3. ASSUME NEW i \in 1 .. Deltas + 1 PROVE w[i] \in {"BlockStart", "Delta"}
    BY <1>1, <2>2
  <2> QED BY <1>1, <1>6, <2>1, <2>2, <2>3
<1>7. CASE flaw \notin {"nested", "stray", "unclosed"}
  <2>1. Blocks = b
    BY <1>7 DEF Blocks
  <2> HIDE DEF b
  <2>2. Blocks = D!Body(Deltas)
    BY <2>1 DEF b
  <2> QED BY <1>1, <1>2, <1>7, <2>1, <2>2
<1> QED BY <1>4, <1>5, <1>6, <1>7

\* The streams that have their types in order.
Orderly == flaw \notin {"noStart", "twoStarts", "nested", "stray", "unclosed", "noEnd"}

\* What the types of a stream are, whichever rule the Runner breaks.
LEMMA TypesAre ==
    ASSUME Deltas \in Nat
    PROVE  /\ D!Types \in Seq(EventTypes) /\ Len(D!Types) >= 1
           /\ Orderly => /\ Len(D!Types) = Deltas + 4
                         /\ D!Types[1] = "MessageStart" /\ D!Types[2] = "BlockStart"
                         /\ \A i \in 3 .. Deltas + 2 : D!Types[i] = "Delta"
                         /\ D!Types[Deltas + 3] = "BlockEnd" /\ D!Types[Deltas + 4] = "MessageEnd"
           /\ flaw = "noStart" => \A i \in 1 .. Len(D!Types) : D!Types[i] # "MessageStart"
           /\ flaw = "noEnd" => \A i \in 1 .. Len(D!Types) : D!Types[i] # "MessageEnd"
           /\ flaw = "twoStarts" => Len(D!Types) >= 2 /\ D!Types[1] = "MessageStart" /\ D!Types[2] = "MessageStart"
           /\ flaw = "nested" => Len(D!Types) >= 3 /\ D!Types[2] = "BlockStart" /\ D!Types[3] = "BlockStart"
           /\ flaw = "stray" => Len(D!Types) >= 2 /\ D!Types[1] = "MessageStart" /\ D!Types[2] = "Delta"
           /\ flaw = "unclosed" => /\ Len(D!Types) >= 2 /\ D!Types[2] = "BlockStart"
                                   /\ \A i \in 1 .. Len(D!Types) : D!Types[i] # "BlockEnd"
<1> DEFINE w == D!Types
           a == Len(Start)
           b == Len(Blocks)
           z == Len(Finish)
<1>1. w = Start \o Blocks \o Finish
  BY DEF D!Types, Start, Blocks, Finish
<1>2. Start \in Seq(EventTypes) /\ Blocks \in Seq(EventTypes) /\ Finish \in Seq(EventTypes)
  BY StartIs, BlocksAre, FinishIs
<1> HIDE DEF w
<1>3. /\ w \in Seq(EventTypes) /\ Len(w) = a + b + z
      /\ \A i \in 1 .. a + b + z : w[i] = IF i <= a THEN Start[i] ELSE IF i <= a + b THEN Blocks[i - a]
                                          ELSE Finish[i - (a + b)]
  BY <1>1, <1>2, InARow
<1>4. /\ a = IF flaw = "noStart" THEN 0 ELSE IF flaw = "twoStarts" THEN 2 ELSE 1
      /\ z = IF flaw = "noEnd" THEN 0 ELSE 1
      /\ \A i \in 1 .. a : Start[i] = "MessageStart"
      /\ \A i \in 1 .. z : Finish[i] = "MessageEnd"
  BY StartIs, FinishIs
<1>5. /\ b >= 1 /\ b \in Nat
      /\ \A i \in 1 .. b : Blocks[i] \in {"BlockStart", "Delta", "BlockEnd"}
      /\ flaw = "nested" => b >= 2 /\ Blocks[1] = "BlockStart" /\ Blocks[2] = "BlockStart"
      /\ flaw = "stray" => Blocks[1] = "Delta"
      /\ flaw = "unclosed" => Blocks[1] = "BlockStart" /\ \A i \in 1 .. b : Blocks[i] # "BlockEnd"
  BY BlocksAre
<1>6. Orderly => /\ b = Deltas + 2 /\ Blocks[1] = "BlockStart" /\ Blocks[Deltas + 2] = "BlockEnd"
                 /\ \A i \in 2 .. Deltas + 1 : Blocks[i] = "Delta"
  <2>1. CASE Orderly
    <3>1. Blocks = D!Body(Deltas)
      BY <2>1, BlocksAre DEF Orderly
    <3>2. Len(Blocks) = Deltas + 2
      BY <3>1, BodyIs
    <3>3. Blocks[1] = "BlockStart" /\ Blocks[Deltas + 2] = "BlockEnd" /\ \A i \in 2 .. Deltas + 1 : Blocks[i] = "Delta"
      BY <3>1, BodyIs
    <3> QED BY <3>2, <3>3
  <2> QED BY <2>1
<1> HIDE DEF a, b, z
<1>7. ASSUME NEW i \in 1 .. a + b + z
      PROVE  \/ i <= a /\ w[i] = "MessageStart"
             \/ a < i /\ i <= a + b /\ w[i] = Blocks[i - a] /\ i - a \in 1 .. b
             \/ a + b < i /\ w[i] = "MessageEnd"
  <2>0. a \in 0 .. 2 /\ z \in 0 .. 1
    BY <1>4
  <2>1. CASE i <= a
    <3>1. i \in 1 .. a
      BY <2>1, <2>0, <1>5
    <3> QED BY <1>3, <1>4, <2>1, <3>1
  <2>2. CASE a < i /\ i <= a + b
    <3>1. i - a \in 1 .. b /\ ~(i <= a)
      BY <2>2, <2>0, <1>5
    <3> QED BY <1>3, <2>2, <3>1
  <2>3. CASE a + b < i
    <3>1. i - (a + b) \in 1 .. z /\ ~(i <= a) /\ ~(i <= a + b)
      BY <2>3, <2>0, <1>5
    <3> QED BY <1>3, <1>4, <2>3, <3>1
  <2> QED BY <2>0, <1>5, <2>1, <2>2, <2>3
<1>8. Len(w) = a + b + z /\ a \in 0 .. 2 /\ z \in 0 .. 1 /\ b \in Nat \ {0}
  BY <1>3, <1>4, <1>5
<1>9. CASE Orderly
  <2>1. a = 1 /\ z = 1 /\ b = Deltas + 2 /\ flaw \notin {"noStart", "twoStarts", "nested", "stray", "unclosed", "noEnd"}
    BY <1>4, <1>6, <1>9 DEF Orderly
  <2>2. Len(w) = Deltas + 4
    BY <1>8, <2>1
  <2>3. w[1] = "MessageStart"
    BY <1>3, <1>4, <1>8, <2>1
  <2>4. w[2] = "BlockStart"
    <3>1. 2 \in 1 .. a + b + z /\ ~(2 <= a) /\ 2 <= a + b /\ 2 - a = 1
      BY <2>1
    <3> QED BY <1>3, <1>6, <1>9, <3>1
  <2>5. w[Deltas + 3] = "BlockEnd"
    <3>1. Deltas + 3 \in 1 .. a + b + z /\ ~(Deltas + 3 <= a) /\ Deltas + 3 <= a + b /\ (Deltas + 3) - a = Deltas + 2
      BY <2>1
    <3> QED BY <1>3, <1>6, <1>9, <3>1
  <2>6. w[Deltas + 4] = "MessageEnd"
    <3>1. Deltas + 4 \in 1 .. a + b + z /\ ~(Deltas + 4 <= a) /\ ~(Deltas + 4 <= a + b) /\ (Deltas + 4) - (a + b) = 1
      BY <2>1
    <3> QED BY <1>3, <1>4, <2>1, <3>1
  <2>7. ASSUME NEW i \in 3 .. Deltas + 2 PROVE w[i] = "Delta"
    <3>1. i \in 1 .. a + b + z /\ ~(i <= a) /\ i <= a + b /\ i - a \in 2 .. Deltas + 1
      BY <2>1
    <3> QED BY <1>3, <1>6, <1>9, <3>1
  <2> QED BY <1>3, <1>8, <2>1, <2>2, <2>3, <2>4, <2>5, <2>6, <2>7 DEF w
<1>10. CASE flaw = "noStart"
  <2>1. a = 0
    BY <1>4, <1>10
  <2>2. ASSUME NEW i \in 1 .. Len(w) PROVE w[i] # "MessageStart"
    BY <1>5, <1>7, <1>8, <2>1
  <2> QED BY <1>3, <1>8, <1>10, <2>2 DEF w, Orderly
<1>11. CASE flaw = "noEnd"
  <2>1. z = 0
    BY <1>4, <1>11
  <2>2. ASSUME NEW i \in 1 .. Len(w) PROVE w[i] # "MessageEnd"
    BY <1>5, <1>7, <1>8, <2>1
  <2> QED BY <1>3, <1>8, <1>11, <2>2 DEF w, Orderly
<1>12. CASE flaw = "twoStarts"
  <2>1. a = 2
    BY <1>4, <1>12
  <2>2. w[1] = "MessageStart" /\ w[2] = "MessageStart" /\ Len(w) >= 2
    BY <1>7, <1>8, <2>1
  <2> QED BY <1>3, <1>8, <1>12, <2>2 DEF w, Orderly
<1>13. CASE flaw = "nested"
  <2>1. a = 1 /\ b >= 2 /\ Blocks[1] = "BlockStart" /\ Blocks[2] = "BlockStart"
    BY <1>4, <1>5, <1>13
  <2>2. w[2] = Blocks[2 - a] /\ w[3] = Blocks[3 - a] /\ Len(w) >= 3
    BY <1>7, <1>8, <2>1
  <2> QED BY <1>3, <1>8, <1>13, <2>1, <2>2 DEF w, Orderly
<1>14. CASE flaw = "stray"
  <2>1. a = 1 /\ Blocks[1] = "Delta"
    BY <1>4, <1>5, <1>14
  <2>2. w[1] = "MessageStart" /\ w[2] = Blocks[2 - a] /\ Len(w) >= 2
    BY <1>7, <1>8, <2>1
  <2> QED BY <1>3, <1>8, <1>14, <2>1, <2>2 DEF w, Orderly
<1>15. CASE flaw = "unclosed"
  <2>1. a = 1 /\ Blocks[1] = "BlockStart"
    BY <1>4, <1>5, <1>15
  <2>2. w[2] = Blocks[2 - a] /\ Len(w) >= 2
    BY <1>7, <1>8, <2>1
  <2>3. ASSUME NEW i \in 1 .. Len(w) PROVE w[i] # "BlockEnd"
    BY <1>5, <1>7, <1>8, <1>15
  <2> QED BY <1>3, <1>8, <1>15, <2>1, <2>2, <2>3 DEF w, Orderly
<1> QED BY <1>9, <1>10, <1>11, <1>12, <1>13, <1>14, <1>15 DEF Orderly

\* What the events of a stream are that nobody cancels.
LEMMA WholeIs ==
    ASSUME Deltas \in Nat
    PROVE  /\ D!Whole \in Seq(Events) /\ Len(D!Whole) = Len(D!Types) /\ Len(D!Whole) \in Nat \ {0}
           /\ \A i \in 1 .. Len(D!Types) : /\ D!Whole[i].typ = D!Types[i] /\ D!Whole[i].stop = "NaturalStop"
                                           /\ D!Whole[i].seq = IF flaw = "seq" THEN i \div 2 ELSE i
<1> DEFINE n == Len(D!Types)
<1>1. n \in Nat /\ n >= 1 /\ \A i \in 1 .. n : D!Types[i] \in EventTypes
  BY TypesAre
<1>2. D!Whole = [i \in 1 .. n |-> D!Event(D!Types[i], i, "NaturalStop")]
  BY DEF D!Whole
<1> HIDE DEF n
<1>3. ASSUME NEW i \in 1 .. n
      PROVE  /\ D!Event(D!Types[i], i, "NaturalStop") \in Events
             /\ D!Event(D!Types[i], i, "NaturalStop").typ = D!Types[i]
             /\ D!Event(D!Types[i], i, "NaturalStop").stop = "NaturalStop"
             /\ D!Event(D!Types[i], i, "NaturalStop").seq = IF flaw = "seq" THEN i \div 2 ELSE i
  BY <1>1 DEF D!Event, Events
<1>4. D!Whole \in Seq(Events) /\ Len(D!Whole) = n
  <2> DEFINE f(i) == D!Event(D!Types[i], i, "NaturalStop")
  <2>1. \A i \in 1 .. n : f(i) \in Events
    BY <1>3
  <2>2. D!Whole = [i \in 1 .. n |-> f(i)]
    BY <1>2
  <2> HIDE DEF f
  <2> QED BY <1>1, <2>1, <2>2
<1> QED BY <1>1, <1>2, <1>3, <1>4 DEF n

-----------------------------------------------------------------------------
\* What a handler makes of a stream it has read from its start to its end.
ReadWhole == /\ events \in Seq(Events) /\ Len(events) = Len(D!Whole)
             /\ \A i \in 1 .. Len(D!Whole) : events[i] = D!Whole[i]

\* Its events are those of the whole, place by place and type by type.
LEMMA WholeRead ==
    ASSUME Deltas \in Nat, ReadWhole
    PROVE  /\ DOMAIN events = 1 .. Len(D!Types) /\ Len(D!Types) \in Nat \ {0}
           /\ \A i \in DOMAIN events : /\ events[i].typ = D!Types[i] /\ events[i].stop = "NaturalStop"
                                       /\ events[i].seq = IF flaw = "seq" THEN i \div 2 ELSE i
           /\ \A t : /\ D!Of(t) = {i \in 1 .. Len(D!Types) : D!Types[i] = t} /\ D!Of(t) = OfIn(events, t)
                     /\ D!Count(t) = Cardinality(D!Of(t)) /\ D!Count(t) \in Nat
<1>1. /\ DOMAIN events = 1 .. Len(events) /\ Len(events) = Len(D!Types) /\ Len(D!Types) \in Nat \ {0}
      /\ \A i \in 1 .. Len(D!Types) : events[i] = D!Whole[i]
  BY WholeIs DEF ReadWhole
<1>2. \A i \in DOMAIN events : /\ events[i].typ = D!Types[i] /\ events[i].stop = "NaturalStop"
                               /\ events[i].seq = IF flaw = "seq" THEN i \div 2 ELSE i
  BY <1>1, WholeIs
<1>3. ASSUME NEW t
      PROVE  /\ D!Of(t) = {i \in 1 .. Len(D!Types) : D!Types[i] = t} /\ D!Of(t) = OfIn(events, t)
             /\ D!Count(t) = Cardinality(D!Of(t)) /\ D!Count(t) \in Nat
  <2>1. D!Of(t) = {i \in 1 .. Len(D!Types) : D!Types[i] = t}
    BY <1>1, <1>2 DEF D!Of
  <2>2. D!Of(t) = OfIn(events, t)
    BY DEF D!Of, OfIn
  <2>3. D!Count(t) = Cardinality(D!Of(t))
    BY DEF D!Count, D!Cardinality, Cardinality
  <2>4. Cardinality(OfIn(events, t)) \in Nat
    BY OfFinite DEF ReadWhole
  <2> QED BY <2>1, <2>2, <2>3, <2>4
<1> QED BY <1>1, <1>2, <1>3

\* Where the events of a stream are when the Runner has them in order.
LEMMA OrderlyRead ==
    ASSUME Deltas \in Nat, ReadWhole, Orderly
    PROVE  /\ D!Of("MessageStart") = {1} /\ D!Of("BlockStart") = {2} /\ D!Of("Delta") = 3 .. Deltas + 2
           /\ D!Of("BlockEnd") = {Deltas + 3} /\ D!Of("MessageEnd") = {Deltas + 4}
           /\ DOMAIN events = 1 .. Deltas + 4
<1>1. /\ Len(D!Types) = Deltas + 4
      /\ D!Types[1] = "MessageStart" /\ D!Types[2] = "BlockStart"
      /\ \A i \in 3 .. Deltas + 2 : D!Types[i] = "Delta"
      /\ D!Types[Deltas + 3] = "BlockEnd" /\ D!Types[Deltas + 4] = "MessageEnd"
  BY TypesAre
<1>2. /\ DOMAIN events = 1 .. Deltas + 4
      /\ \A t : D!Of(t) = {i \in 1 .. Deltas + 4 : D!Types[i] = t}
  BY <1>1, WholeRead
<1>3. \A i \in 1 .. Deltas + 4 : i = 1 \/ i = 2 \/ i \in 3 .. Deltas + 2 \/ i = Deltas + 3 \/ i = Deltas + 4
  OBVIOUS
<1>4. D!Of("MessageStart") = {1}
  BY <1>1, <1>2, <1>3
<1>5. D!Of("BlockStart") = {2}
  BY <1>1, <1>2, <1>3
<1>6. D!Of("Delta") = 3 .. Deltas + 2
  <2>1. ASSUME NEW i \in 3 .. Deltas + 2 PROVE i \in D!Of("Delta")
    BY <1>1, <1>2, <2>1
  <2>2. ASSUME NEW i \in D!Of("Delta") PROVE i \in 3 .. Deltas + 2
    <3>1. i \in 1 .. Deltas + 4 /\ D!Types[i] = "Delta"
      BY <1>2, <2>2
    <3>2. i # 1 /\ i # 2 /\ i # Deltas + 3 /\ i # Deltas + 4
      BY <1>1, <3>1
    <3> QED BY <1>3, <3>1, <3>2
  <2> QED BY <2>1, <2>2
<1>7. D!Of("BlockEnd") = {Deltas + 3}
  BY <1>1, <1>2, <1>3
<1>8. D!Of("MessageEnd") = {Deltas + 4}
  BY <1>1, <1>2, <1>3
<1> QED BY <1>2, <1>4, <1>5, <1>6, <1>7, <1>8

\* How many events of a type there are, when it is none or one.
LEMMA Counted ==
    ASSUME Deltas \in Nat, ReadWhole, NEW t
    PROVE  /\ D!Count(t) \in Nat
           /\ D!Count(t) = 0 <=> D!Of(t) = {}
           /\ \A a : D!Of(t) = {a} => D!Count(t) = 1
           /\ \A a, b \in D!Of(t) : a # b => D!Count(t) >= 2
<1>1. D!Of(t) = OfIn(events, t) /\ D!Count(t) = Cardinality(OfIn(events, t))
  BY WholeRead
<1>2. events \in Seq(Events)
  BY DEF ReadWhole
<1> QED BY <1>1, <1>2, OfFinite

\* SV-LLM-08 accepts the streams that are framed, and only those.
LEMMA FramedIs ==
    ASSUME DispatchAssumption, flaw \in {"none", "noStart", "noEnd", "plain"}, ReadWhole,
           reply = D!Says(IF flaw = "plain" THEN "plain" ELSE "text/event-stream")
    PROVE  D!Framed <=> flaw = "none"
<1>0. Deltas \in Nat
  BY DEF DispatchAssumption
<1>1. CASE flaw = "plain"
  BY <1>1 DEF D!Framed
<1>2. CASE flaw = "noStart"
  <2>1. D!Of("MessageStart") = {}
    BY <1>0, <1>2, WholeRead, TypesAre
  <2>2. D!Count("MessageStart") = 0
    BY <1>0, <2>1, Counted
  <2> QED BY <1>2, <2>2 DEF D!Framed
<1>3. CASE flaw = "noEnd"
  <2>1. D!Of("MessageEnd") = {}
    BY <1>0, <1>3, WholeRead, TypesAre
  <2>2. D!Count("MessageEnd") = 0
    BY <1>0, <2>1, Counted
  <2> QED BY <1>3, <2>2 DEF D!Framed
<1>4. CASE flaw = "none"
  <2>1. D!Of("MessageStart") = {1} /\ D!Of("MessageEnd") = {Deltas + 4}
    BY <1>0, <1>4, OrderlyRead DEF Orderly
  <2>2. D!Count("MessageStart") = 1 /\ D!Count("MessageEnd") = 1
    BY <1>0, <2>1, Counted
  <2>3. reply # D!Says("plain")
    BY <1>4 DEF D!Says
  <2> QED BY <1>4, <2>2, <2>3 DEF D!Framed
<1> QED BY <1>1, <1>2, <1>3, <1>4

\* SV-LLM-10 accepts the streams that are in sequence, and only those.
LEMMA InSequenceIs ==
    ASSUME DispatchAssumption, ReadWhole,
           flaw \in {"none", "noStart", "noEnd", "twoStarts", "nested", "stray", "unclosed", "seq"}
    PROVE  D!InSequence <=> flaw = "none"
<1>0. Deltas \in Nat
  BY DEF DispatchAssumption
<1>1. CASE flaw = "none"
  <2>1. /\ D!Of("MessageStart") = {1} /\ D!Of("BlockStart") = {2} /\ D!Of("Delta") = 3 .. Deltas + 2
        /\ D!Of("BlockEnd") = {Deltas + 3} /\ D!Of("MessageEnd") = {Deltas + 4} /\ DOMAIN events = 1 .. Deltas + 4
    BY <1>0, <1>1, OrderlyRead DEF Orderly
  <2>2. D!Count("MessageStart") = 1 /\ D!Count("MessageEnd") = 1 /\ D!Count("BlockStart") = 1 /\ D!Count("BlockEnd") = 1
    BY <1>0, <2>1, Counted
  <2>3. ASSUME NEW i \in DOMAIN events PROVE D!Follows(i)
    <3>1. events[i].seq > (IF i = 1 THEN -1 ELSE events[i - 1].seq)
      <4>1. CASE i = 1
        BY <1>0, <1>1, <4>1, WholeRead
      <4>2. CASE i # 1
        <5>1. i - 1 \in DOMAIN events /\ i \in Nat
          BY <1>0, <2>1, <4>2
        <5>2. events[i].seq = i /\ events[i - 1].seq = i - 1
          BY <1>0, <1>1, <5>1, WholeRead
        <5> QED BY <4>2, <5>1, <5>2
      <4> QED BY <4>1, <4>2
    <3>2. i \in D!Of("BlockStart") => ~D!Open(i)
      BY <2>1 DEF D!Open
    <3>3. i \in D!Of("Delta") \cup D!Of("BlockEnd") => D!Open(i)
      <4>1. ASSUME i \in D!Of("Delta") \cup D!Of("BlockEnd")
            PROVE  2 \in D!Of("BlockStart") /\ 2 < i /\ \A k \in D!Of("BlockEnd") : k >= i
        <5>1. i \in 3 .. Deltas + 3
          BY <1>0, <2>1, <4>1
        <5> QED BY <1>0, <2>1, <5>1
      <4> QED BY <4>1 DEF D!Open
    <3> QED BY <3>1, <3>2, <3>3 DEF D!Follows
  <2> QED BY <1>1, <2>2, <2>3 DEF D!InSequence
<1>2. CASE flaw = "noStart"
  <2>1. D!Of("MessageStart") = {}
    BY <1>0, <1>2, WholeRead, TypesAre
  <2>2. D!Count("MessageStart") = 0
    BY <1>0, <2>1, Counted
  <2> QED BY <1>2, <2>2 DEF D!InSequence
<1>3. CASE flaw = "noEnd"
  <2>1. D!Of("MessageEnd") = {}
    BY <1>0, <1>3, WholeRead, TypesAre
  <2>2. D!Count("MessageEnd") = 0
    BY <1>0, <2>1, Counted
  <2> QED BY <1>3, <2>2 DEF D!InSequence
<1>4. CASE flaw = "twoStarts"
  <2>1. 1 \in D!Of("MessageStart") /\ 2 \in D!Of("MessageStart")
    BY <1>0, <1>4, WholeRead, TypesAre
  <2>2. D!Count("MessageStart") >= 2
    BY <1>0, <2>1, Counted
  <2> QED BY <1>4, <2>2 DEF D!InSequence
<1>5. CASE flaw = "nested"
  <2>1. 2 \in D!Of("BlockStart") /\ 3 \in D!Of("BlockStart") /\ 3 \in DOMAIN events
    BY <1>0, <1>5, WholeRead, TypesAre
  <2>2. \A k \in D!Of("BlockEnd") : k <= 2 \/ k >= 3
    BY <1>0, WholeRead
  <2>3. D!Open(3)
    BY <2>1, <2>2 DEF D!Open
  <2>4. ~D!Follows(3)
    BY <2>1, <2>3 DEF D!Follows
  <2> QED BY <1>5, <2>1, <2>4 DEF D!InSequence
<1>6. CASE flaw = "stray"
  <2>1. 2 \in D!Of("Delta") /\ 1 \notin D!Of("BlockStart") /\ 2 \in DOMAIN events
    BY <1>0, <1>6, WholeRead, TypesAre
  <2>2. \A j \in D!Of("BlockStart") : j \in Nat \ {0}
    BY <1>0, WholeRead
  <2>3. ~D!Open(2)
    BY <2>1, <2>2 DEF D!Open
  <2>4. ~D!Follows(2)
    BY <2>1, <2>3 DEF D!Follows
  <2> QED BY <1>6, <2>1, <2>4 DEF D!InSequence
<1>7. CASE flaw = "unclosed"
  <2>1. 2 \in D!Of("BlockStart") /\ D!Of("BlockEnd") = {}
    BY <1>0, <1>7, WholeRead, TypesAre
  <2>2. D!Count("BlockStart") # 0 /\ D!Count("BlockEnd") = 0
    BY <1>0, <2>1, Counted
  <2> QED BY <1>7, <2>2 DEF D!InSequence
<1>8. CASE flaw = "seq"
  <2>1. 2 \in DOMAIN events /\ 3 \in DOMAIN events
    BY <1>0, <1>8, OrderlyRead DEF Orderly
  <2>2. events[2].seq = 1 /\ events[3].seq = 1
    BY <1>0, <1>8, <2>1, WholeRead
  <2>3. ~D!Follows(3)
    BY <2>2 DEF D!Follows
  <2> QED BY <1>8, <2>1, <2>3 DEF D!InSequence
<1> QED BY <1>1, <1>2, <1>3, <1>4, <1>5, <1>6, <1>7, <1>8

-----------------------------------------------------------------------------
\* A stream while it is read: what was read, what was sent, what is to come.
Splits(e, w, p, T) == /\ Len(e) + Len(w) + Len(p) = Len(T)
                      /\ \A i \in 1 .. Len(e) : e[i] = T[i]
                      /\ \A i \in 1 .. Len(w) : w[i] = T[Len(e) + i]
                      /\ \A i \in 1 .. Len(p) : p[i] = T[Len(e) + Len(w) + i]

\* One event moves from the front of one part to the back of another.
LEMMA Moved ==
    ASSUME NEW q \in Seq(Events), NEW r \in Seq(Events), q # <<>>
    PROVE  /\ Head(q) = q[1] /\ Head(q) \in Events /\ Len(q) \in Nat \ {0} /\ Len(r) \in Nat
           /\ Tail(q) \in Seq(Events) /\ Len(Tail(q)) = Len(q) - 1
           /\ \A i \in 1 .. Len(q) - 1 : Tail(q)[i] = q[i + 1]
           /\ Append(r, Head(q)) \in Seq(Events) /\ Len(Append(r, Head(q))) = Len(r) + 1
           /\ \A i \in 1 .. Len(r) : Append(r, Head(q))[i] = r[i]
           /\ Append(r, Head(q))[Len(r) + 1] = q[1]
<1>1. Head(q) = q[1] /\ q[1] \in Events /\ Len(q) \in Nat \ {0} /\ Len(r) \in Nat
  OBVIOUS
<1>2. Tail(q) \in Seq(Events) /\ Len(Tail(q)) = Len(q) - 1
  BY HeadTailProperties
<1>3. \A i \in 1 .. Len(q) - 1 : Tail(q)[i] = q[i + 1]
  BY <1>2, HeadTailProperties
<1> DEFINE h == Head(q)
<1>4. h \in Events
  BY <1>1
<1> HIDE DEF h
<1>5. /\ Append(r, h) \in Seq(Events) /\ Len(Append(r, h)) = Len(r) + 1
      /\ \A i \in 1 .. Len(r) : Append(r, h)[i] = r[i]
      /\ Append(r, h)[Len(r) + 1] = h
  BY <1>4
<1> QED BY <1>1, <1>2, <1>3, <1>5 DEF h

\* The parts still make up the stream when an event is sent ...
LEMMA SentOne ==
    ASSUME NEW e \in Seq(Events), NEW w \in Seq(Events), NEW p \in Seq(Events), NEW T,
           p # <<>>, Splits(e, w, p, T)
    PROVE  Splits(e, Append(w, Head(p)), Tail(p), T)
<1> DEFINE w2 == Append(w, Head(p))
           p2 == Tail(p)
<1>1. /\ Len(e) \in Nat /\ Len(w) \in Nat /\ Len(p) \in Nat \ {0} /\ Len(w2) = Len(w) + 1 /\ Len(p2) = Len(p) - 1
      /\ \A i \in 1 .. Len(w) : w2[i] = w[i]
      /\ w2[Len(w) + 1] = p[1]
      /\ \A i \in 1 .. Len(p) - 1 : p2[i] = p[i + 1]
  BY Moved
<1> HIDE DEF w2, p2
<1>2. Len(e) + Len(w2) + Len(p2) = Len(T)
  <2>1. Len(e) + Len(w) + Len(p) = Len(T)
    BY DEF Splits
  <2>2. Len(e) + Len(w2) + Len(p2) = Len(e) + Len(w) + Len(p)
    BY <1>1
  <2> QED BY <2>1, <2>2
<1>3. ASSUME NEW i \in 1 .. Len(w2) PROVE w2[i] = T[Len(e) + i]
  <2>1. CASE i = Len(w) + 1
    <3>1. p[1] = T[Len(e) + Len(w) + 1]
      BY <1>1 DEF Splits
    <3>2. Len(e) + i = Len(e) + Len(w) + 1
      BY <1>1, <2>1
    <3> QED BY <1>1, <2>1, <3>1, <3>2
  <2>2. CASE i # Len(w) + 1
    <3>1. i \in 1 .. Len(w)
      BY <1>1, <2>2
    <3> QED BY <1>1, <3>1 DEF Splits
  <2> QED BY <2>1, <2>2
<1>4. ASSUME NEW i \in 1 .. Len(p2) PROVE p2[i] = T[Len(e) + Len(w2) + i]
  <2>1. i \in 1 .. Len(p) - 1 /\ i + 1 \in 1 .. Len(p)
    BY <1>1
  <2>2. p2[i] = T[Len(e) + Len(w) + (i + 1)]
    BY <1>1, <2>1 DEF Splits
  <2>3. Len(e) + Len(w) + (i + 1) = Len(e) + Len(w2) + i
    BY <1>1, <2>1
  <2> QED BY <2>2, <2>3
<1>5. \A i \in 1 .. Len(e) : e[i] = T[i]
  BY DEF Splits
<1>6. Splits(e, w2, p2, T)
  BY <1>2, <1>3, <1>4, <1>5 DEF Splits
<1> QED BY <1>6 DEF w2, p2

\* ... and when one is read.
LEMMA ReadOne ==
    ASSUME NEW e \in Seq(Events), NEW w \in Seq(Events), NEW p \in Seq(Events), NEW T,
           w # <<>>, Splits(e, w, p, T)
    PROVE  Splits(Append(e, Head(w)), Tail(w), p, T)
<1> DEFINE e2 == Append(e, Head(w))
           w2 == Tail(w)
<1>1. /\ Len(e) \in Nat /\ Len(w) \in Nat \ {0} /\ Len(p) \in Nat /\ Len(e2) = Len(e) + 1 /\ Len(w2) = Len(w) - 1
      /\ \A i \in 1 .. Len(e) : e2[i] = e[i]
      /\ e2[Len(e) + 1] = w[1]
      /\ \A i \in 1 .. Len(w) - 1 : w2[i] = w[i + 1]
  BY Moved
<1> HIDE DEF e2, w2
<1>2. Len(e2) + Len(w2) + Len(p) = Len(T) /\ Len(e2) + Len(w2) = Len(e) + Len(w)
  <2>1. Len(e) + Len(w) + Len(p) = Len(T)
    BY DEF Splits
  <2>2. Len(e2) + Len(w2) = Len(e) + Len(w)
    BY <1>1
  <2> QED BY <2>1, <2>2
<1>3. ASSUME NEW i \in 1 .. Len(e2) PROVE e2[i] = T[i]
  <2>1. CASE i = Len(e) + 1
    <3>1. w[1] = T[Len(e) + 1]
      BY <1>1 DEF Splits
    <3> QED BY <1>1, <2>1, <3>1
  <2>2. CASE i # Len(e) + 1
    <3>1. i \in 1 .. Len(e)
      BY <1>1, <2>2
    <3> QED BY <1>1, <3>1 DEF Splits
  <2> QED BY <2>1, <2>2
<1>4. ASSUME NEW i \in 1 .. Len(w2) PROVE w2[i] = T[Len(e2) + i]
  <2>1. i \in 1 .. Len(w) - 1 /\ i + 1 \in 1 .. Len(w)
    BY <1>1
  <2>2. w2[i] = T[Len(e) + (i + 1)]
    BY <1>1, <2>1 DEF Splits
  <2>3. Len(e) + (i + 1) = Len(e2) + i
    BY <1>1, <2>1
  <2> QED BY <2>2, <2>3
<1>5. \A i \in 1 .. Len(p) : p[i] = T[Len(e2) + Len(w2) + i]
  BY <1>2 DEF Splits
<1>6. Splits(e2, w2, p, T)
  BY <1>2, <1>3, <1>4, <1>5 DEF Splits
<1> QED BY <1>6 DEF e2, w2

\* What is left of a cancelled stream.
LEMMA RestIs ==
    ASSUME NEW n \in Int
    PROVE  /\ D!Rest(n) \in Seq(Events) /\ D!Rest(n) # <<>>
           /\ flaw = "natural" => \A i \in 1 .. Len(D!Rest(n)) : D!Rest(n)[i].stop = "NaturalStop"
           /\ flaw = "late" => Len(D!Rest(n)) = 3 /\ D!Rest(n)[1].typ = "Delta"
           /\ flaw = "none" => /\ Len(D!Rest(n)) = 2
                               /\ D!Rest(n)[1] = D!Event("BlockEnd", n + 1, "UserInterrupt")
                               /\ D!Rest(n)[2] = D!Event("MessageEnd", n + 2, "UserInterrupt")
<1> DEFINE types == (IF flaw = "late" THEN <<"Delta">> ELSE <<>>) \o <<"BlockEnd", "MessageEnd">>
           at(i) == D!Event(types[i], n + i, IF flaw = "natural" THEN "NaturalStop" ELSE "UserInterrupt")
           k == Len(types)
<1>1. D!Rest(n) = [i \in 1 .. k |-> at(i)]
  BY DEF D!Rest
<1>2. IF flaw = "late" THEN k = 3 /\ types[1] = "Delta" /\ types[2] = "BlockEnd" /\ types[3] = "MessageEnd"
      ELSE k = 2 /\ types[1] = "BlockEnd" /\ types[2] = "MessageEnd"
  OBVIOUS
<1> HIDE DEF types
<1>3. k \in {2, 3} /\ \A i \in 1 .. k : types[i] \in EventTypes
  BY <1>2 DEF EventTypes
<1>4. ASSUME NEW i \in 1 .. k PROVE at(i) \in Events /\ (flaw = "natural" => at(i).stop = "NaturalStop") /\ at(i).typ = types[i]
  <2>1. n + i \in Int /\ (n + i) \div 2 \in Int
    BY <1>3
  <2> QED BY <1>3, <2>1 DEF D!Event, Events
<1> HIDE DEF k, at
<1>5. D!Rest(n) \in Seq(Events) /\ Len(D!Rest(n)) = k /\ \A i \in 1 .. k : D!Rest(n)[i] = at(i)
  BY <1>1, <1>3, <1>4
<1>6. D!Rest(n) # <<>>
  BY <1>3, <1>5
<1>7. flaw = "none" => k = 2 /\ at(1) = D!Event("BlockEnd", n + 1, "UserInterrupt")
                       /\ at(2) = D!Event("MessageEnd", n + 2, "UserInterrupt")
  BY <1>2 DEF at, k
<1>8. flaw = "late" => k = 3 /\ types[1] = "Delta"
  BY <1>2 DEF k
<1> QED BY <1>3, <1>4, <1>5, <1>6, <1>7, <1>8

\* What is read, sent and to come are events.
Flows == events \in Seq(Events) /\ wire \in Seq(Events) /\ plan \in Seq(Events)

\* No step makes them anything else.
LEMMA FlowsKept ==
    ASSUME DispatchAssumption, DType, D!Next, lost' = 0, Flows
    PROVE  Flows'
<1>1. CASE Sending \/ Setup \/ Setting \/ Dispatching \/ Recalling \/ Taking
  BY <1>1 DEF Sending, Setup, Setting, Dispatching, Recalling, Taking, InScript, D!stream, Flows
<1>2. CASE D!OpenStream
  <2>1. D!Whole \in Seq(Events)
    BY WholeIs DEF DispatchAssumption
  <2> QED BY <1>2, <2>1 DEF D!OpenStream, Flows
<1>3. CASE D!Emit
  <2>1. /\ plan # <<>> /\ wire' = Append(wire, Head(plan)) /\ plan' = Tail(plan) /\ events' = events
    BY <1>3 DEF D!Emit
  <2> QED BY <2>1, Moved DEF Flows
<1>4. CASE D!HearCancel
  <2>1. events' = events /\ wire' = wire
        /\ plan' = IF plan = <<>> \/ flaw = "deaf" THEN plan ELSE D!Rest(Len(D!Whole) - Len(plan))
    BY <1>4 DEF D!HearCancel
  <2>2. CASE plan = <<>> \/ flaw = "deaf"
    BY <2>1, <2>2 DEF Flows
  <2>3. CASE ~(plan = <<>> \/ flaw = "deaf")
    <3>1. Len(D!Whole) - Len(plan) \in Int
      BY WholeIs DEF Flows, DispatchAssumption
    <3> QED BY <2>1, <2>3, <3>1, RestIs DEF Flows
  <2> QED BY <2>2, <2>3
<1>5. CASE D!Read
  <2>1. /\ wire # <<>> /\ events' = Append(events, Head(wire)) /\ wire' = Tail(wire) /\ plan' = plan
    BY <1>5 DEF D!Read
  <2> QED BY <2>1, Moved DEF Flows
<1>6. CASE D!CancelAnswered
  BY <1>6 DEF D!CancelAnswered, Flows
<1>7. CASE D!EndOfStream
  BY <1>7 DEF D!EndOfStream, Flows
<1> QED BY StepsOfDispatch, <1>1, <1>2, <1>3, <1>4, <1>5, <1>6, <1>7 DEF Streaming

-----------------------------------------------------------------------------
\* SV-LLM-08 and SV-LLM-10: what is read, sent and to come is the stream.
TrackRead == /\ Flows
             /\ net = "streaming" =>
                    /\ Splits(events, wire, plan, D!Whole)
                    /\ reply = D!Says(IF flaw = "plain" THEN "plain" ELSE "text/event-stream")
             /\ Earned /\ Kept

\* A stream that has been read with nothing left is the whole of what was sent.
LEMMA AllRead ==
    ASSUME Flows, Splits(events, wire, plan, D!Whole), wire = <<>>, plan = <<>>
    PROVE  ReadWhole
<1>1. Len(events) \in Nat /\ Len(wire) = 0 /\ Len(plan) = 0
  BY DEF Flows
<1>2. Len(events) + Len(wire) + Len(plan) = Len(D!Whole) /\ \A i \in 1 .. Len(events) : events[i] = D!Whole[i]
  BY DEF Splits
<1>3. Len(events) = Len(D!Whole)
  BY <1>1, <1>2
<1> QED BY <1>2, <1>3 DEF ReadWhole, Flows

\* What a Runner would stream does not change.
LEMMA SameWhole ==
    ASSUME flaw' = flaw
    PROVE  D!Whole' = D!Whole
BY DEF D!Whole, D!Types, D!Event

\* SV-LLM-08 and SV-LLM-10: a stream is read to its end.
LEMMA Reading ==
    ASSUME DispatchAssumption, DType, DType', D!Next, lost' = 0, test \in {"08", "10"}, TrackRead
    PROVE  TrackRead'
<1>1. UNCHANGED <<test, flaw>> /\ D!Whole' = D!Whole /\ Flows' /\ cancel = "no" /\ cancel' = "no"
  BY StepsOfDispatch, SameWhole, FlowsKept DEF TrackRead, DType
<1>2. D!Covered(test)' = D!Covered(test)
  BY <1>1 DEF D!Covered
<1>3. pc = "script" => /\ step \in {1, 2} /\ Len(D!Script) = 2
                       /\ step = 1 => D!Request.do = "set"
                       /\ step = 2 => D!Request.do = "stream" /\ net # "served"
  BY StepsLLM, ScriptLLM DEF DType, Sets, Streams, Scripted
<1>4. CASE Sending
  BY <1>1, <1>2, <1>4 DEF Sending, TrackRead, Earned, Kept
<1>5. CASE Setup
  <2>1. net' # "streaming"
    BY <1>5 DEF Setup, DType, Scripted
  <2> QED BY <1>1, <1>2, <1>5, <2>1 DEF Setup, TrackRead, Earned, Kept
<1>6. CASE Setting \/ Dispatching \/ Recalling
  BY <1>1, <1>2, <1>6 DEF Setting, Dispatching, Recalling, InScript, TrackRead, Earned, Kept
<1>7. CASE Taking
  <2>1. step = 1 /\ D!Accepts
    BY <1>3, <1>7 DEF Taking, InScript, D!Accepts
  <2>2. GoesOn
    BY <1>3, <1>7, <2>1 DEF Taking, InScript, Judging
  <2> QED BY <1>1, <1>2, <1>7, <2>2 DEF Taking, TrackRead, Earned, Kept, GoesOn
<1>8. CASE D!OpenStream
  <2>1. /\ events' = <<>> /\ wire' = <<>> /\ plan' = D!Whole /\ UNCHANGED verdict
        /\ reply' = D!Says(IF flaw = "plain" THEN "plain" ELSE "text/event-stream")
    <3>1. pc = "script" /\ step = 2 /\ net # "streaming"
      BY <1>8, StepsOfDispatch DEF Streaming, D!OpenStream
    <3> QED BY <1>8, <3>1 DEF D!OpenStream, DType, Scripted
  <2>2. Splits(<<>>, <<>>, D!Whole, D!Whole)
    <3>1. D!Whole \in Seq(Events)
      BY WholeIs DEF DispatchAssumption
    <3> HIDE DEF D!Whole
    <3> QED BY <3>1 DEF Splits
  <2> QED BY <1>1, <1>2, <2>1, <2>2 DEF TrackRead, Earned, Kept
<1>9. CASE D!Emit
  <2>1. /\ plan # <<>> /\ wire' = Append(wire, Head(plan)) /\ plan' = Tail(plan)
        /\ UNCHANGED <<events, net, reply, verdict>> /\ net = "streaming"
    BY <1>9 DEF D!Emit
  <2>2. Splits(events, Append(wire, Head(plan)), Tail(plan), D!Whole)
    BY <2>1, SentOne DEF TrackRead, Flows
  <2> QED BY <1>1, <1>2, <2>1, <2>2 DEF TrackRead, Earned, Kept
<1>10. CASE D!HearCancel \/ D!CancelAnswered
  BY <1>1, <1>10 DEF D!HearCancel, D!CancelAnswered
<1>11. CASE D!Read
  <2>1. /\ wire # <<>> /\ events' = Append(events, Head(wire)) /\ wire' = Tail(wire)
        /\ UNCHANGED <<plan, net, reply, verdict>> /\ net = "streaming"
    BY <1>11 DEF D!Read
  <2>2. Splits(Append(events, Head(wire)), Tail(wire), plan, D!Whole)
    BY <2>1, ReadOne DEF TrackRead, Flows
  <2> QED BY <1>1, <1>2, <2>1, <2>2 DEF TrackRead, Earned, Kept
<1>12. CASE D!EndOfStream
  <2>1. /\ net = "streaming" /\ net' = "idle" /\ wire = <<>> /\ plan = <<>> /\ step = 2 /\ pc = "script"
        /\ \/ D!AcceptsStream /\ pc' = "done" /\ verdict' = "pass"
           \/ ~D!AcceptsStream /\ pc' = "done" /\ verdict' = "fail"
    <3>1. Len(D!Script) = 2
      BY ScriptLengths DEF DType
    <3> QED BY <1>12, <3>1, StreamEnded
  <2>2. ReadWhole /\ reply = D!Says(IF flaw = "plain" THEN "plain" ELSE "text/event-stream")
    BY <2>1, AllRead DEF TrackRead
  <2>3. CASE test = "08"
    <3>1. flaw \in {"none", "noStart", "noEnd", "plain"} /\ D!Covered(test) = {"noStart", "noEnd", "plain"}
      BY <2>3 DEF DType, D!Covered, D!Unnoticed
    <3>2. D!AcceptsStream <=> flaw = "none"
      BY <2>2, <2>3, <3>1, FramedIs DEF D!AcceptsStream
    <3> QED BY <1>1, <1>2, <2>1, <3>1, <3>2 DEF TrackRead, Earned, Kept
  <2>4. CASE test = "10"
    <3>1. /\ flaw \in {"none", "noStart", "noEnd", "twoStarts", "nested", "stray", "unclosed", "seq"}
          /\ D!Covered(test) = {"noStart", "noEnd", "twoStarts", "nested", "stray", "unclosed", "seq"}
      BY <2>4 DEF DType, D!Covered, D!Unnoticed
    <3>2. D!AcceptsStream <=> flaw = "none"
      BY <2>2, <2>4, <3>1, InSequenceIs DEF D!AcceptsStream
    <3> QED BY <1>1, <1>2, <2>1, <3>1, <3>2 DEF TrackRead, Earned, Kept
  <2> QED BY <2>3, <2>4
<1> QED BY StepsOfDispatch, <1>4, <1>5, <1>6, <1>7, <1>8, <1>9, <1>10, <1>11, <1>12 DEF Streaming

-----------------------------------------------------------------------------
\* SV-LLM-05: a stream that is cancelled when its second delta has been read.
Natural(q)  == \A i \in 1 .. Len(q) : q[i].stop = "NaturalStop"
HasDelta(q) == \E i \in 1 .. Len(q) : q[i].typ = "Delta"
AllNatural  == Natural(events) /\ Natural(wire) /\ Natural(plan)
DeltasRead  == Cardinality(OfIn(events, "Delta"))

\* A Runner that does not hear the cancel, or names another reason.
NotInterrupted == flaw \in {"deaf", "natural"} /\ pc = "script" => step # 3 /\ AllNatural
\* One that sends a delta after it.
DeltaAfter == flaw = "late" /\ pc = "script" =>
                 /\ step # 3
                 /\ cancel # "no" => DeltasRead >= 2
                 /\ AllNatural \/ (DeltasRead >= 2 /\ (DeltasRead >= 3 \/ HasDelta(wire) \/ HasDelta(plan)))

\* What is known of the parts of a stream when an event moves between two of them.
LEMMA NaturalMoved ==
    ASSUME NEW q \in Seq(Events), NEW r \in Seq(Events), q # <<>>
    PROVE  /\ Natural(q) /\ Natural(r) => Natural(Append(r, Head(q))) /\ Natural(Tail(q))
           /\ HasDelta(q) => Head(q).typ = "Delta" \/ HasDelta(Tail(q))
           /\ HasDelta(r) \/ Head(q).typ = "Delta" => HasDelta(Append(r, Head(q)))
<1> DEFINE s == Append(r, Head(q))
           u == Tail(q)
<1>1. /\ Head(q) = q[1] /\ Len(q) \in Nat \ {0} /\ Len(r) \in Nat /\ Len(u) = Len(q) - 1 /\ Len(s) = Len(r) + 1
      /\ \A i \in 1 .. Len(q) - 1 : u[i] = q[i + 1]
      /\ \A i \in 1 .. Len(r) : s[i] = r[i]
      /\ s[Len(r) + 1] = q[1]
  BY Moved
<1> HIDE DEF s, u
<1>2. ASSUME Natural(q), Natural(r) PROVE Natural(s) /\ Natural(u)
  <2>1. ASSUME NEW i \in 1 .. Len(s) PROVE s[i].stop = "NaturalStop"
    <3>1. CASE i = Len(r) + 1
      BY <1>1, <1>2, <3>1 DEF Natural
    <3>2. CASE i # Len(r) + 1
      <4>1. i \in 1 .. Len(r)
        BY <1>1, <3>2
      <4> QED BY <1>1, <1>2, <4>1 DEF Natural
    <3> QED BY <3>1, <3>2
  <2>2. ASSUME NEW i \in 1 .. Len(u) PROVE u[i].stop = "NaturalStop"
    <3>1. i \in 1 .. Len(q) - 1 /\ i + 1 \in 1 .. Len(q)
      BY <1>1
    <3> QED BY <1>1, <1>2, <3>1 DEF Natural
  <2> QED BY <2>1, <2>2 DEF Natural
<1>3. ASSUME HasDelta(q), Head(q).typ # "Delta" PROVE HasDelta(u)
  <2>1. PICK i \in 1 .. Len(q) : q[i].typ = "Delta"
    BY <1>3 DEF HasDelta
  <2>2. i # 1
    BY <1>1, <1>3, <2>1
  <2>3. i - 1 \in 1 .. Len(u) /\ i - 1 \in 1 .. Len(q) - 1 /\ (i - 1) + 1 = i
    BY <1>1, <2>2
  <2>4. u[i - 1].typ = "Delta"
    BY <1>1, <2>1, <2>3
  <2> QED BY <2>3, <2>4 DEF HasDelta
<1>4. ASSUME HasDelta(r) PROVE HasDelta(s)
  <2>1. PICK i \in 1 .. Len(r) : r[i].typ = "Delta"
    BY <1>4 DEF HasDelta
  <2>2. i \in 1 .. Len(s) /\ s[i].typ = "Delta"
    BY <1>1, <2>1
  <2> QED BY <2>2 DEF HasDelta
<1>5. ASSUME Head(q).typ = "Delta" PROVE HasDelta(s)
  <2>1. Len(r) + 1 \in 1 .. Len(s) /\ s[Len(r) + 1].typ = "Delta"
    BY <1>1, <1>5
  <2> QED BY <2>1 DEF HasDelta
<1> QED BY <1>2, <1>3, <1>4, <1>5 DEF s, u

\* The deltas a handler counts.
LEMMA DeltasCounted ==
    ASSUME Flows
    PROVE  /\ D!Count("Delta") = DeltasRead /\ DeltasRead \in Nat
           /\ Natural(events) => ~D!Interrupted
           /\ D!Interrupted => DeltasRead <= 2
           /\ \A v \in Events : Cardinality(OfIn(Append(events, v), "Delta")) =
                                DeltasRead + IF v.typ = "Delta" THEN 1 ELSE 0
<1>1. D!Of("Delta") = OfIn(events, "Delta")
  BY DEF D!Of, OfIn
<1>2. D!Count("Delta") = Cardinality(D!Of("Delta"))
  BY DEF D!Count, D!Cardinality, Cardinality
<1>3. DeltasRead \in Nat
  BY OfFinite DEF DeltasRead, Flows
<1>4. ASSUME Natural(events), D!Interrupted PROVE FALSE
  <2>1. PICK i \in D!Of("MessageEnd") : events[i].stop = "UserInterrupt"
    BY <1>4 DEF D!Interrupted, D!StopsWith
  <2>2. i \in 1 .. Len(events)
    BY <2>1 DEF D!Of, Flows
  <2> QED BY <1>4, <2>1, <2>2 DEF Natural
<1>5. ASSUME NEW v \in Events
      PROVE  Cardinality(OfIn(Append(events, v), "Delta")) = DeltasRead + IF v.typ = "Delta" THEN 1 ELSE 0
  BY OfAppend DEF DeltasRead, Flows
<1>6. D!Interrupted => D!Count("Delta") <= 2
  BY DEF D!Interrupted
<1> QED BY <1>1, <1>2, <1>3, <1>4, <1>5, <1>6 DEF DeltasRead

\* What a step of the stream does to its parts.
LEMMA Streamed ==
    ASSUME DispatchAssumption, DType, D!Next, lost' = 0, Flows, Streaming
    PROVE  /\ pc = "script" /\ step = 2
           /\ \/ /\ D!OpenStream /\ net = "sent" /\ net' = "streaming"
                 /\ events = <<>> /\ wire = <<>> /\ plan = <<>> /\ cancel = "no"
                 /\ plan' = D!Whole /\ UNCHANGED <<pc, step, verdict, wire, cancel, events, log>>
              \/ /\ D!Emit /\ net = "streaming" /\ plan # <<>> /\ plan' = Tail(plan) /\ wire' = Append(wire, Head(plan))
                 /\ UNCHANGED <<pc, step, verdict, cancel, events, net>>
              \/ /\ D!HearCancel /\ net = "streaming" /\ cancel = "posted" /\ cancel' = "heard"
                 /\ plan' = IF plan = <<>> \/ flaw = "deaf" THEN plan ELSE D!Rest(Len(D!Whole) - Len(plan))
                 /\ UNCHANGED <<pc, step, verdict, wire, events, net, log>>
              \/ /\ D!Read /\ net = "streaming" /\ wire # <<>> /\ events' = Append(events, Head(wire)) /\ wire' = Tail(wire)
                 /\ UNCHANGED <<pc, step, verdict, plan, net, log>>
                 /\ cancel \in {"no", "answered"}
                 /\ cancel' = IF test = "05" /\ cancel = "no" /\ Head(wire).typ = "Delta" /\ DeltasRead = 1
                              THEN "posted" ELSE cancel
              \/ /\ D!CancelAnswered /\ net = "streaming" /\ cancel = "heard" /\ cancel' = "answered"
                 /\ UNCHANGED <<pc, step, verdict, plan, wire, events, net, log>>
              \/ /\ D!EndOfStream /\ net = "streaming" /\ net' = "idle" /\ wire = <<>> /\ plan = <<>>
                 /\ cancel \in {"no", "answered"}
                 /\ UNCHANGED <<cancel, events, plan, wire, log>>
<1>1. pc = "script" /\ step = 2 /\ lost = 0
  BY StepsOfDispatch
<1>2. CASE D!OpenStream
  BY <1>1, <1>2 DEF D!OpenStream, DType, Scripted
<1>3. CASE D!Emit
  BY <1>1, <1>3 DEF D!Emit
<1>4. CASE D!HearCancel
  BY <1>1, <1>4 DEF D!HearCancel, DType
<1>5. CASE D!Read
  BY <1>1, <1>5, DeltasCounted DEF D!Read
<1>6. CASE D!CancelAnswered
  BY <1>1, <1>6 DEF D!CancelAnswered, DType
<1>7. CASE D!EndOfStream
  BY <1>1, <1>7, StreamEnded DEF D!EndOfStream
<1> QED BY <1>2, <1>3, <1>4, <1>5, <1>6, <1>7 DEF Streaming

\* The steps of SV-LLM-05 that read no stream.
LEMMA Besides ==
    ASSUME DispatchAssumption, DType, D!Next, lost' = 0, test = "05", ~Streaming
    PROVE  /\ UNCHANGED D!stream /\ UNCHANGED <<test, flaw>>
           /\ pc = "script" /\ pc' = "script" => \/ UNCHANGED step
                                                 \/ step = 1 /\ step' = 2 /\ net' = "idle" /\ UNCHANGED log
           /\ pc # "script" /\ pc' = "script" => \/ pc' = pc
                                                 \/ step = 1 /\ step' = 1
           /\ pc = "script" => Sending \/ Setting \/ Recalling \/ Taking
           /\ pc = "script" => UNCHANGED log
           /\ pc = "script" => Len(D!Script) = 3
           /\ pc = "script" /\ D!Request.do = "recent" => step = 3
           /\ pc = "script" /\ net = "served" /\ step # 3 => D!Accepts /\ step = 1
           /\ pc = "script" /\ step = 3 => D!Request.do = "recent"
<1>1. pc = "script" => /\ step \in {1, 2, 3} /\ Len(D!Script) = 3
                       /\ step = 1 => D!Request.do = "set"
                       /\ step = 2 => D!Request.do = "stream" /\ net # "served"
                       /\ step = 3 => D!Request.do = "recent"
  BY StepsLLM, ScriptLLM DEF DType, Sets, Streams, Scripted, Recents
<1>2. Sending \/ Setup \/ Setting \/ Dispatching \/ Recalling \/ Taking
  BY StepsOfDispatch
<1>3. pc = "script" => Sending \/ Setting \/ Recalling \/ Taking
  BY <1>1, <1>2 DEF Setup, Dispatching
<1>4. pc = "script" /\ net = "served" /\ step # 3 => D!Accepts /\ step = 1
  BY <1>1 DEF D!Accepts
<1>5. UNCHANGED D!stream
  BY StepsOfDispatch DEF Sending, Setup, Setting, Dispatching, Recalling, Taking, InScript
<1>6. pc = "script" => UNCHANGED log
  BY <1>3 DEF Sending, Setting, Recalling, Taking
<1>7. pc = "script" /\ pc' = "script" => \/ UNCHANGED step
                                         \/ step = 1 /\ step' = 2 /\ net' = "idle" /\ UNCHANGED log
  <2>1. CASE Taking
    <3>1. pc = "script" /\ net = "served" /\ net' = "idle" /\ UNCHANGED log /\ Judging
      BY <2>1 DEF Taking, InScript
    <3>2. CASE step = 3
      <4>1. Len(D!Script) = 3
        BY <1>1, <3>1
      <4>2. ~GoesOn
        BY <3>2, <4>1 DEF GoesOn
      <4> QED BY <3>1, <4>2 DEF Judging
    <3>3. CASE step # 3
      BY <1>4, <3>1, <3>3 DEF Judging, GoesOn
    <3> QED BY <3>2, <3>3
  <2> QED BY <1>3, <2>1 DEF Sending, Setting, Recalling
<1>8. pc # "script" /\ pc' = "script" => pc' = pc \/ (step = 1 /\ step' = 1)
  <2>1. CASE Sending
    BY <2>1 DEF Sending
  <2>2. CASE Setup
    BY <2>2 DEF Setup, DType
  <2> QED BY StepsOfDispatch, <2>1, <2>2 DEF Setting, Dispatching, Recalling, Taking, InScript
<1>9. UNCHANGED <<test, flaw>>
  BY StepsOfDispatch
<1> QED BY <1>1, <1>3, <1>4, <1>5, <1>6, <1>7, <1>8, <1>9

\* A stream whose end does not name the interruption is failed.
LEMMA NotInterruptedFails ==
    ASSUME DispatchAssumption, DType, DType', D!Next, lost' = 0, test = "05", Flows, NotInterrupted
    PROVE  NotInterrupted'
<1> SUFFICES ASSUME flaw \in {"deaf", "natural"}, flaw' = flaw, pc' = "script"
             PROVE  step' # 3 /\ AllNatural'
  BY StepsOfDispatch DEF NotInterrupted
<1>1. CASE ~Streaming
  <2>1. CASE pc = "script"
    BY <1>1, <2>1, Besides DEF NotInterrupted, AllNatural, D!stream
  <2>2. CASE pc # "script"
    <3>1. step' = 1 /\ Scripted(1)'
      BY <1>1, <2>2, Besides DEF Scripted
    <3>2. events' = <<>> /\ wire' = <<>> /\ plan' = <<>>
      BY <3>1 DEF DType, Scripted
    <3> QED BY <3>1, <3>2 DEF AllNatural, Natural
  <2> QED BY <2>1, <2>2
<1>2. CASE Streaming
  <2>0. pc = "script" /\ step = 2 /\ AllNatural
    BY <1>2, Streamed DEF NotInterrupted
  <2>1. CASE D!OpenStream
    <3>1. UNCHANGED step /\ events' = <<>> /\ wire' = <<>> /\ plan' = D!Whole
      BY <2>1 DEF D!OpenStream, DType, Scripted, Streaming
    <3>2. Natural(D!Whole)
      BY WholeIs DEF Natural, DispatchAssumption
    <3> QED BY <2>0, <3>1, <3>2 DEF AllNatural, Natural
  <2>2. CASE D!Emit
    <3>1. /\ plan # <<>> /\ plan' = Tail(plan) /\ wire' = Append(wire, Head(plan)) /\ UNCHANGED <<step, events>>
      BY <2>2 DEF D!Emit
    <3>2. Natural(Append(wire, Head(plan))) /\ Natural(Tail(plan))
      BY <2>0, <3>1, NaturalMoved DEF Flows, AllNatural
    <3> QED BY <2>0, <3>1, <3>2 DEF AllNatural
  <2>3. CASE D!HearCancel
    <3>1. /\ UNCHANGED <<step, events, wire>>
          /\ plan' = IF plan = <<>> \/ flaw = "deaf" THEN plan ELSE D!Rest(Len(D!Whole) - Len(plan))
      BY <2>3 DEF D!HearCancel
    <3>2. Len(D!Whole) - Len(plan) \in Int
      BY WholeIs DEF Flows, DispatchAssumption
    <3>3. Natural(plan')
      BY <2>0, <3>1, <3>2, RestIs DEF AllNatural, Natural
    <3> QED BY <2>0, <3>1, <3>3 DEF AllNatural
  <2>4. CASE D!Read
    <3>1. /\ wire # <<>> /\ events' = Append(events, Head(wire)) /\ wire' = Tail(wire) /\ UNCHANGED <<step, plan>>
      BY <2>4 DEF D!Read
    <3>2. Natural(Append(events, Head(wire))) /\ Natural(Tail(wire))
      BY <2>0, <3>1, NaturalMoved DEF Flows, AllNatural
    <3> QED BY <2>0, <3>1, <3>2 DEF AllNatural
  <2>5. CASE D!CancelAnswered
    BY <2>0, <2>5 DEF D!CancelAnswered, AllNatural
  <2>6. CASE D!EndOfStream
    <3>1. ~D!Interrupted
      BY <2>0, DeltasCounted DEF AllNatural
    <3>2. ~D!AcceptsStream
      BY <3>1 DEF D!AcceptsStream
    <3> QED BY <2>6, <3>2, StreamEnded
  <2> QED BY <1>2, <2>1, <2>2, <2>3, <2>4, <2>5, <2>6 DEF Streaming
<1> QED BY <1>1, <1>2

\* So is one with a delta after the cancel.
LEMMA DeltaAfterFails ==
    ASSUME DispatchAssumption, DType, DType', D!Next, lost' = 0, test = "05", Flows, DeltaAfter
    PROVE  DeltaAfter'
<1> DEFINE More == AllNatural \/ (DeltasRead >= 2 /\ (DeltasRead >= 3 \/ HasDelta(wire) \/ HasDelta(plan)))
<1> SUFFICES ASSUME flaw = "late", flaw' = flaw, pc' = "script"
             PROVE  step' # 3 /\ (cancel' # "no" => DeltasRead' >= 2) /\ More'
  BY StepsOfDispatch DEF DeltaAfter
<1>0. DeltasRead \in Nat
  BY DeltasCounted
<1>1. CASE ~Streaming
  <2>1. CASE pc = "script"
    BY <1>1, <2>1, Besides DEF DeltaAfter, AllNatural, D!stream, DeltasRead
  <2>2. CASE pc # "script"
    <3>1. step' = 1 /\ Scripted(1)'
      BY <1>1, <2>2, Besides DEF Scripted
    <3>2. events' = <<>> /\ wire' = <<>> /\ plan' = <<>> /\ cancel' = "no"
      BY <3>1 DEF DType, Scripted
    <3> QED BY <3>1, <3>2 DEF AllNatural, Natural
  <2> QED BY <2>1, <2>2
<1>2. CASE Streaming
  <2>0. pc = "script" /\ step = 2 /\ More /\ (cancel # "no" => DeltasRead >= 2)
    BY <1>2, Streamed DEF DeltaAfter
  <2>1. CASE D!OpenStream
    <3>1. UNCHANGED step /\ events' = <<>> /\ wire' = <<>> /\ plan' = D!Whole /\ cancel' = "no"
      BY <2>1 DEF D!OpenStream, DType, Scripted, Streaming
    <3>2. Natural(D!Whole)
      BY WholeIs DEF Natural, DispatchAssumption
    <3> QED BY <2>0, <3>1, <3>2 DEF AllNatural, Natural
  <2>2. CASE D!Emit
    <3>1. /\ plan # <<>> /\ plan' = Tail(plan) /\ wire' = Append(wire, Head(plan)) /\ UNCHANGED <<step, events, cancel>>
      BY <2>2 DEF D!Emit
    <3>2. /\ Natural(wire) /\ Natural(plan) => Natural(Append(wire, Head(plan))) /\ Natural(Tail(plan))
          /\ HasDelta(wire) => HasDelta(Append(wire, Head(plan)))
          /\ HasDelta(plan) => HasDelta(Append(wire, Head(plan))) \/ HasDelta(Tail(plan))
      BY <3>1, NaturalMoved DEF Flows
    <3>3. DeltasRead' = DeltasRead
      BY <3>1 DEF DeltasRead
    <3> QED BY <2>0, <3>1, <3>2, <3>3 DEF AllNatural
  <2>3. CASE D!HearCancel
    <3>1. /\ UNCHANGED <<step, events, wire>> /\ cancel = "posted"
          /\ plan' = IF plan = <<>> THEN plan ELSE D!Rest(Len(D!Whole) - Len(plan))
      BY <2>3 DEF D!HearCancel
    <3>2. Len(D!Whole) - Len(plan) \in Int
      BY WholeIs DEF Flows, DispatchAssumption
    <3>3. DeltasRead' = DeltasRead
      BY <3>1 DEF DeltasRead
    <3>4. CASE plan = <<>>
      BY <2>0, <3>1, <3>3, <3>4 DEF AllNatural
    <3>5. CASE plan # <<>>
      <4>1. HasDelta(plan')
        BY <3>1, <3>2, <3>5, RestIs DEF HasDelta
      <4> QED BY <2>0, <3>1, <3>3, <4>1
    <3> QED BY <3>4, <3>5
  <2>4. CASE D!Read
    <3>1. /\ wire # <<>> /\ events' = Append(events, Head(wire)) /\ wire' = Tail(wire) /\ UNCHANGED <<step, plan>>
          /\ cancel' = IF test = "05" /\ cancel = "no" /\ Head(wire).typ = "Delta" /\ DeltasRead = 1
                       THEN "posted" ELSE cancel
      BY <2>4, DeltasCounted DEF D!Read
    <3>2. /\ Natural(events) /\ Natural(wire) => Natural(Append(events, Head(wire))) /\ Natural(Tail(wire))
          /\ HasDelta(wire) => Head(wire).typ = "Delta" \/ HasDelta(Tail(wire))
      BY <3>1, NaturalMoved DEF Flows
    <3>3. DeltasRead' = DeltasRead + IF Head(wire).typ = "Delta" THEN 1 ELSE 0
      <4>1. Head(wire) \in Events
        BY <3>1, Moved DEF Flows
      <4>2. DeltasRead' = Cardinality(OfIn(Append(events, Head(wire)), "Delta"))
        BY <3>1 DEF DeltasRead
      <4> QED BY <4>1, <4>2, DeltasCounted
    <3>4. cancel' # "no" => DeltasRead' >= 2
      BY <1>0, <2>0, <3>1, <3>3
    <3>5. More'
      <4>1. CASE AllNatural
        BY <3>1, <3>2, <4>1 DEF AllNatural
      <4>2. CASE DeltasRead >= 2 /\ DeltasRead >= 3
        BY <1>0, <3>3, <4>2
      <4>3. CASE DeltasRead >= 2 /\ HasDelta(wire)
        BY <1>0, <3>1, <3>2, <3>3, <4>3
      <4>4. CASE DeltasRead >= 2 /\ HasDelta(plan)
        BY <1>0, <3>1, <3>3, <4>4
      <4> QED BY <2>0, <4>1, <4>2, <4>3, <4>4
    <3> QED BY <2>0, <3>1, <3>4, <3>5
  <2>5. CASE D!CancelAnswered
    <3>1. cancel = "heard" /\ UNCHANGED <<step, events, wire, plan>>
      BY <1>2, <2>5, Streamed DEF D!CancelAnswered, D!OpenStream, D!Emit, D!HearCancel, D!Read, D!EndOfStream, DType
    <3> QED BY <2>0, <3>1 DEF AllNatural, DeltasRead
  <2>6. CASE D!EndOfStream
    <3>1. ~D!Interrupted
      <4>1. wire = <<>> /\ plan = <<>>
        BY <2>6, StreamEnded
      <4>2. ~HasDelta(wire) /\ ~HasDelta(plan)
        BY <4>1 DEF HasDelta
      <4> QED BY <1>0, <2>0, <4>2, DeltasCounted DEF AllNatural
    <3>2. ~D!AcceptsStream
      BY <3>1 DEF D!AcceptsStream
    <3> QED BY <2>6, <3>2, StreamEnded
  <2> QED BY <1>2, <2>1, <2>2, <2>3, <2>4, <2>5, <2>6 DEF Streaming
<1> QED BY <1>1, <1>2

\* The row of the stream is written with its last event, with the code the
\* Runner writes, and read when the stream has ended.
Written   == (net = "streaming" /\ plan = <<>>) \/ step = 3
StreamRow(s) == D!Row(s, IF flaw = "errorRow" THEN "Cancelled" ELSE "null", "plain")
RowInLog  == flaw \in {"none", "errorRow"} /\ pc = "script" =>
                /\ ~Written => log = Before
                /\ Written => \E s : log = <<StreamRow(s)>> \o Before
                /\ step = 3 /\ net = "served" => reply.rows = log

\* Every step of SV-LLM-05 keeps that.
LEMMA RowKept ==
    ASSUME DispatchAssumption, DType, DType', D!Next, lost' = 0, test = "05", Flows, RowInLog
    PROVE  RowInLog'
<1> SUFFICES ASSUME flaw \in {"none", "errorRow"}, flaw' = flaw, pc' = "script"
             PROVE  /\ ~Written' => log' = Before
                    /\ Written' => \E s : log' = <<StreamRow(s)>> \o Before
                    /\ step' = 3 /\ net' = "served" => reply'.rows = log'
  <2>1. Before' = Before /\ flaw' = flaw
    BY StepsOfDispatch DEF Before
  <2> QED BY <2>1 DEF RowInLog, StreamRow, D!Row
<1>1. CASE ~Streaming
  <2>0. net' # "streaming" \/ plan' = plan
    BY <1>1, Besides DEF D!stream
  <2>1. CASE pc # "script"
    <3>1. step' = 1 /\ Scripted(1)'
      BY <1>1, <2>1, Besides DEF Scripted
    <3>2. log' = Before /\ ~Written'
      <4>1. Before' = Before
        BY StepsOfDispatch DEF Before
      <4> QED BY <3>1, <4>1 DEF DType, Scripted, Written
    <3> QED BY <3>1, <3>2
  <2>2. CASE pc = "script" /\ step' = step
    <3>1. log' = log /\ plan' = plan
      BY <1>1, <2>2, Besides DEF D!stream
    <3>2. Sending \/ Setting \/ Recalling \/ Taking
      BY <1>1, <2>2, Besides
    <3>3. net # "streaming" /\ net' # "streaming"
      BY <3>2 DEF Sending, Setting, Recalling, Taking
    <3>4. step' = 3 /\ net' = "served" => reply'.rows = log'
      BY <1>1, <2>2, <3>1, <3>2, Besides DEF Sending, Setting, Recalling, Taking
    <3> QED BY <2>2, <3>1, <3>3, <3>4 DEF Written, RowInLog
  <2>3. CASE pc = "script" /\ step' # step
    <3>1. step = 1 /\ step' = 2 /\ net' = "idle" /\ log' = log
      BY <1>1, <2>3, Besides
    <3>2. log = Before
      BY <2>3, <3>1 DEF DType, Scripted
    <3> QED BY <3>1, <3>2 DEF Written
  <2> QED BY <2>1, <2>2, <2>3
<1>2. CASE Streaming
  <2>0. pc = "script" /\ step = 2
    BY <1>2, Streamed
  <2>1. CASE D!OpenStream
    <3>1. UNCHANGED <<step, log>> /\ plan' = D!Whole /\ net = "sent" /\ step = 2
      BY <2>0, <2>1 DEF D!OpenStream
    <3>2. D!Whole # <<>>
      BY WholeIs DEF DispatchAssumption
    <3>3. log = Before
      BY <2>0, <3>1 DEF RowInLog, Written
    <3> QED BY <3>1, <3>2, <3>3 DEF Written
  <2>2. CASE D!Emit
    <3>1. /\ net = "streaming" /\ plan # <<>> /\ UNCHANGED <<step, net>>
          /\ log' = IF plan' # <<>> THEN log
                    ELSE D!Logged(D!Row(Head(plan).stop, IF flaw = "errorRow" THEN "Cancelled" ELSE "null", "plain"))
      BY <2>2 DEF D!Emit
    <3>2. log = Before
      BY <2>0, <3>1 DEF RowInLog, Written
    <3>3. CASE plan' # <<>>
      BY <2>0, <3>1, <3>2, <3>3 DEF Written
    <3>4. CASE plan' = <<>>
      <4>1. log' = <<StreamRow(Head(plan).stop)>> \o Before
        BY <3>1, <3>2, <3>4 DEF D!Logged, StreamRow
      <4>2. \E s : log' = <<StreamRow(s)>> \o Before
        BY <4>1
      <4>3. step' # 3 /\ Written'
        BY <2>0, <3>1, <3>4 DEF Written
      <4> HIDE DEF StreamRow
      <4> QED BY <4>2, <4>3
    <3> QED BY <3>3, <3>4
  <2>3. CASE D!HearCancel
    <3>1. /\ UNCHANGED <<step, log, net>>
          /\ plan' = IF plan = <<>> \/ flaw = "deaf" THEN plan ELSE D!Rest(Len(D!Whole) - Len(plan))
      BY <2>3 DEF D!HearCancel
    <3>2. Len(D!Whole) - Len(plan) \in Int
      BY WholeIs DEF Flows, DispatchAssumption
    <3>3. plan' = <<>> <=> plan = <<>>
      BY <3>1, <3>2, RestIs
    <3>4. Written' <=> Written
      BY <3>1, <3>3 DEF Written
    <3> QED BY <2>0, <3>1, <3>4 DEF RowInLog
  <2>4. CASE D!Read
    <3>1. UNCHANGED <<step, log, net, plan>>
      BY <2>4 DEF D!Read
    <3> QED BY <2>0, <3>1 DEF RowInLog, Written
  <2>5. CASE D!CancelAnswered
    <3>1. UNCHANGED <<step, log, net, plan>>
      BY <2>5 DEF D!CancelAnswered
    <3> QED BY <2>0, <3>1 DEF RowInLog, Written
  <2>6. CASE D!EndOfStream
    <3>1. net = "streaming" /\ net' = "idle" /\ plan = <<>> /\ log' = log /\ step' = 3
      BY <2>6, StreamEnded
    <3> QED BY <2>0, <3>1 DEF RowInLog, Written
  <2> QED BY <1>2, <2>1, <2>2, <2>3, <2>4, <2>5, <2>6 DEF Streaming
<1> QED BY <1>1, <1>2

\* What a conforming Runner's stream becomes when its cancel is heard.
Cut == [i \in 1 .. 6 |-> IF i <= 4 THEN D!Whole[i]
                         ELSE D!Event(IF i = 5 THEN "BlockEnd" ELSE "MessageEnd", i, "UserInterrupt")]

\* At most three events are read and one is on its way before the cancel; four are
\* read when it is posted; and what follows is the rest of the cut stream.
CutInTime == flaw = "none" /\ pc = "script" =>
    /\ net = "streaming" =>
         /\ cancel = "no" => /\ Splits(events, wire, plan, D!Whole)
                             /\ Len(events) <= 3 /\ Len(events) + Len(wire) <= 4
                             /\ Len(events) + Len(wire) = 4 => Len(events) = 3
         /\ cancel = "posted" => Splits(events, wire, plan, D!Whole) /\ Len(events) = 4 /\ wire = <<>>
         /\ cancel \in {"heard", "answered"} => Splits(events, wire, plan, Cut)
    /\ Written => log # <<>> /\ log[1].stop = "UserInterrupt"

\* The first events of such a stream, and the last of one that was cut.
LEMMA CutIs ==
    ASSUME DispatchAssumption, StreamHasRoom, flaw = "none"
    PROVE  /\ D!Whole \in Seq(Events) /\ Len(D!Whole) = Deltas + 4 /\ Deltas \in Nat /\ Deltas >= 3
           /\ D!Whole[1].typ = "MessageStart" /\ D!Whole[2].typ = "BlockStart"
           /\ D!Whole[3].typ = "Delta" /\ D!Whole[4].typ = "Delta" /\ D!Whole[5].typ = "Delta"
           /\ Cut \in Seq(Events) /\ Len(Cut) = 6 /\ \A i \in 1 .. 4 : Cut[i] = D!Whole[i]
           /\ Cut[5] = D!Event("BlockEnd", 5, "UserInterrupt") /\ Cut[6] = D!Event("MessageEnd", 6, "UserInterrupt")
<1>1. Deltas \in Nat /\ Deltas >= 3
  BY DEF DispatchAssumption, StreamHasRoom
<1>2. /\ Len(D!Types) = Deltas + 4
      /\ D!Types[1] = "MessageStart" /\ D!Types[2] = "BlockStart"
      /\ \A i \in 3 .. Deltas + 2 : D!Types[i] = "Delta"
  BY <1>1, TypesAre DEF Orderly
<1>3. D!Whole \in Seq(Events) /\ Len(D!Whole) = Deltas + 4 /\ \A i \in 1 .. Deltas + 4 : D!Whole[i].typ = D!Types[i]
  BY <1>1, <1>2, WholeIs
<1>4. \A i \in 1 .. 5 : i \in 1 .. Deltas + 4 /\ D!Whole[i].typ = D!Types[i]
  BY <1>1, <1>3
<1>5. 3 \in 3 .. Deltas + 2 /\ 4 \in 3 .. Deltas + 2 /\ 5 \in 3 .. Deltas + 2
  BY <1>1
<1>6. \A i \in 1 .. 4 : D!Whole[i] \in Events
  BY <1>1, <1>3
<1> DEFINE at(i) == IF i <= 4 THEN D!Whole[i]
                    ELSE D!Event(IF i = 5 THEN "BlockEnd" ELSE "MessageEnd", i, "UserInterrupt")
<1>7. \A i \in 1 .. 6 : at(i) \in Events
  <2>1. ASSUME NEW i \in {5, 6} PROVE D!Event(IF i = 5 THEN "BlockEnd" ELSE "MessageEnd", i, "UserInterrupt") \in Events
    BY DEF D!Event, Events, EventTypes
  <2>2. \A i \in 1 .. 6 : i \in 1 .. 4 \/ i \in {5, 6}
    OBVIOUS
  <2> QED BY <1>6, <2>1, <2>2
<1>8. Cut = [i \in 1 .. 6 |-> at(i)]
  BY DEF Cut
<1>9. (\A i \in 1 .. 4 : at(i) = D!Whole[i]) /\ at(5) = D!Event("BlockEnd", 5, "UserInterrupt")
      /\ at(6) = D!Event("MessageEnd", 6, "UserInterrupt")
  OBVIOUS
<1> HIDE DEF at
<1>10. Cut \in Seq(Events) /\ Len(Cut) = 6 /\ \A i \in 1 .. 6 : Cut[i] = at(i)
  BY <1>7, <1>8
<1> QED BY <1>1, <1>2, <1>3, <1>4, <1>5, <1>9, <1>10

\* The start of a stream: no delta, then one, then two.
LEMMA Starting ==
    ASSUME DispatchAssumption, StreamHasRoom, flaw = "none", Flows, Splits(events, wire, plan, D!Whole)
    PROVE  /\ Len(events) <= 2 => DeltasRead = 0
           /\ Len(events) = 3 => DeltasRead = 1
<1>1. /\ D!Whole[1].typ = "MessageStart" /\ D!Whole[2].typ = "BlockStart" /\ D!Whole[3].typ = "Delta"
      /\ \A i \in 1 .. Len(events) : events[i] = D!Whole[i]
  BY CutIs DEF Splits
<1>2. DOMAIN events = 1 .. Len(events) /\ Len(events) \in Nat
  BY DEF Flows
<1>3. CASE Len(events) <= 2
  <2>1. ASSUME NEW i \in 1 .. Len(events) PROVE events[i].typ # "Delta"
    <3>1. i = 1 \/ i = 2
      BY <1>2, <1>3
    <3> QED BY <1>1, <3>1
  <2>2. OfIn(events, "Delta") = {}
    BY <1>2, <2>1 DEF OfIn
  <2>3. DeltasRead = 0
    BY <2>2, OfFinite DEF DeltasRead, Flows
  <2> QED BY <1>2, <1>3, <2>3
<1>4. CASE Len(events) = 3
  <2>1. \A i \in 1 .. Len(events) : events[i].typ = "Delta" <=> i = 3
    <3>1. ASSUME NEW i \in 1 .. Len(events) PROVE i = 1 \/ i = 2 \/ i = 3
      BY <1>4
    <3> QED BY <1>1, <3>1
  <2>2. OfIn(events, "Delta") = {3}
    BY <1>2, <1>4, <2>1 DEF OfIn
  <2>3. DeltasRead = 1
    BY <2>2, OfFinite DEF DeltasRead, Flows
  <2> QED BY <1>4, <2>3
<1> QED BY <1>3, <1>4

\* A stream that was cut is interrupted.
LEMMA CutIsInterrupted ==
    ASSUME DispatchAssumption, StreamHasRoom, flaw = "none", Flows, Splits(events, wire, plan, Cut),
           wire = <<>>, plan = <<>>
    PROVE  D!Interrupted
<1>1. /\ D!Whole[1].typ = "MessageStart" /\ D!Whole[2].typ = "BlockStart" /\ D!Whole[3].typ = "Delta"
      /\ D!Whole[4].typ = "Delta" /\ Len(Cut) = 6 /\ \A i \in 1 .. 4 : Cut[i] = D!Whole[i]
      /\ Cut[5] = D!Event("BlockEnd", 5, "UserInterrupt") /\ Cut[6] = D!Event("MessageEnd", 6, "UserInterrupt")
  BY CutIs
<1>2. Len(events) = 6
  <2>1. Len(events) + Len(wire) + Len(plan) = 6
    BY <1>1 DEF Splits
  <2>2. Len(events) \in Nat /\ Len(wire) = 0 /\ Len(plan) = 0
    BY DEF Flows
  <2> QED BY <2>1, <2>2
<1>3. DOMAIN events = 1 .. 6 /\ \A i \in 1 .. 6 : events[i] = Cut[i]
  BY <1>2 DEF Splits, Flows
<1>4. /\ events[1].typ = "MessageStart" /\ events[2].typ = "BlockStart" /\ events[3].typ = "Delta"
      /\ events[4].typ = "Delta" /\ events[5].typ = "BlockEnd" /\ events[6].typ = "MessageEnd"
      /\ events[6].stop = "UserInterrupt"
  BY <1>1, <1>3 DEF D!Event
<1>5. \A i \in 1 .. 6 : i = 1 \/ i = 2 \/ i = 3 \/ i = 4 \/ i = 5 \/ i = 6
  OBVIOUS
<1>6. OfIn(events, "Delta") \subseteq {3, 4}
  BY <1>3, <1>4, <1>5 DEF OfIn
<1>7. D!Of("MessageEnd") = {6}
  BY <1>3, <1>4, <1>5 DEF D!Of
<1>8. DeltasRead <= 2
  BY <1>6, OfFinite DEF DeltasRead, Flows
<1>9. D!StopsWith("UserInterrupt")
  BY <1>4, <1>7 DEF D!StopsWith
<1>10. D!Count("Delta") <= 2
  BY <1>8, DeltasCounted
<1> QED BY <1>9, <1>10 DEF D!Interrupted

\* A conforming Runner that hears the cancel in time leaves its stream cut.
LEMMA CutKept ==
    ASSUME DispatchAssumption, StreamHasRoom, DType, DType', D!Next, lost' = 0, test = "05", Flows, Flows',
           RowInLog, CutInTime
    PROVE  CutInTime'
<1>0. D!Whole' = D!Whole /\ flaw' = flaw
  BY StepsOfDispatch, SameWhole
<1>10. Cut' = Cut
  BY <1>0 DEF Cut, D!Event
<1> SUFFICES ASSUME flaw = "none", pc' = "script"
             PROVE  CutInTime'
  BY <1>0 DEF CutInTime
<1>1. CASE ~Streaming
  <2>1. CASE pc # "script"
    <3>1. step' = 1 /\ Scripted(1)'
      BY <1>1, <2>1, Besides DEF Scripted
    <3>2. net' # "streaming" /\ ~Written'
      BY <3>1 DEF DType, Scripted, Written
    <3> QED BY <3>2 DEF CutInTime
  <2>2. CASE pc = "script"
    <3>1. log' = log /\ (Sending \/ Setting \/ Recalling \/ Taking)
      BY <1>1, <2>2, Besides
    <3>2. net # "streaming" /\ net' # "streaming"
      BY <3>1 DEF Sending, Setting, Recalling, Taking
    <3>3. step' = 3 => step = 3
      BY <1>1, <2>2, Besides
    <3>4. Written' => Written
      BY <3>2, <3>3 DEF Written
    <3> QED BY <2>2, <3>1, <3>2, <3>4 DEF CutInTime
  <2> QED BY <2>1, <2>2
<1>2. CASE Streaming
  <2>0. pc = "script" /\ step = 2
    BY <1>2, Streamed
  <2>10. /\ D!Whole \in Seq(Events) /\ Len(D!Whole) = Deltas + 4 /\ Deltas \in Nat /\ Deltas >= 3
         /\ D!Whole[3].typ = "Delta" /\ D!Whole[4].typ = "Delta" /\ D!Whole[5].typ = "Delta"
         /\ Paced
    BY CutIs DEF StreamHasRoom
  <2>11. Len(events) \in Nat /\ Len(wire) \in Nat /\ Len(plan) \in Nat
    BY DEF Flows
  <2>1. CASE D!OpenStream
    <3>1. /\ UNCHANGED <<step, log>> /\ plan' = D!Whole /\ events' = <<>> /\ wire' = <<>> /\ cancel' = "no"
      BY <2>0, <2>1 DEF D!OpenStream, DType, Scripted
    <3>2. Splits(<<>>, <<>>, D!Whole, D!Whole)
      <4> HIDE DEF D!Whole
      <4> QED BY <2>10 DEF Splits
    <3>3. D!Whole # <<>>
      BY <2>10
    <3>4. Splits(events, wire, plan, D!Whole)'
      BY <1>0, <3>1, <3>2
    <3>5. Len(events') = 0 /\ Len(wire') = 0
      BY <3>1
    <3> QED BY <2>0, <3>1, <3>3, <3>4, <3>5 DEF CutInTime, Written
  <2>2. CASE D!Emit
    <3>1. /\ net = "streaming" /\ plan # <<>> /\ plan' = Tail(plan) /\ wire' = Append(wire, Head(plan))
          /\ UNCHANGED <<step, net, cancel, events>>
          /\ (Paced /\ Head(plan).typ = "Delta" => wire = <<>> /\ cancel # "posted")
          /\ log' = IF plan' # <<>> THEN log
                    ELSE D!Logged(D!Row(Head(plan).stop, IF flaw = "errorRow" THEN "Cancelled" ELSE "null", "plain"))
      BY <2>2 DEF D!Emit
    <3>2. /\ Len(wire') = Len(wire) + 1 /\ Len(plan') = Len(plan) - 1 /\ Len(plan) >= 1 /\ Head(plan) = plan[1]
          /\ wire # <<>> => Len(wire) >= 1
      BY <3>1, Moved DEF Flows
    <3>3. CASE cancel = "no"
      <4>1. /\ Splits(events, wire, plan, D!Whole) /\ Len(events) <= 3 /\ Len(events) + Len(wire) <= 4
            /\ (Len(events) + Len(wire) = 4 => Len(events) = 3)
        BY <2>0, <3>1, <3>3 DEF CutInTime
      <4>2. Splits(events, wire, plan, D!Whole)'
        BY <1>0, <3>1, <4>1, SentOne DEF Flows
      <4>3. Head(plan) = D!Whole[Len(events) + Len(wire) + 1]
        BY <2>11, <3>2, <4>1 DEF Splits
      <4>4. Len(events) + Len(wire) # 4
        <5>1. ASSUME Len(events) + Len(wire) = 4 PROVE FALSE
          <6>1. Head(plan) = D!Whole[5]
            BY <4>3, <5>1
          <6>2. wire = <<>>
            BY <2>10, <3>1, <6>1
          <6> DEFINE read == Len(events)
                     sent == Len(wire)
          <6>3. read \in Nat /\ sent = 0 /\ read + sent = 4 /\ (read + sent = 4 => read = 3)
            BY <2>11, <4>1, <5>1, <6>2
          <6> HIDE DEF read, sent
          <6> QED BY <6>3
        <5> QED BY <5>1
      <4>5. Len(events) + Len(wire) = 3 => Len(events) = 3
        <5>1. ASSUME Len(events) + Len(wire) = 3 PROVE wire = <<>>
          <6>1. Head(plan) = D!Whole[4]
            BY <4>3, <5>1
          <6> QED BY <2>10, <3>1, <6>1
        <5>2. wire = <<>> => Len(wire) = 0
          OBVIOUS
        <5> QED BY <2>11, <5>1, <5>2
      <4>6. Len(events') <= 3 /\ Len(events') + Len(wire') <= 4 /\ (Len(events') + Len(wire') = 4 => Len(events') = 3)
        BY <2>11, <3>1, <3>2, <4>1, <4>4, <4>5
      <4>7. plan' # <<>>
        <5>1. Len(events) + Len(wire) + Len(plan) = Deltas + 4
          BY <2>10, <4>1 DEF Splits
        <5>2. Len(plan') >= 1
          BY <2>10, <2>11, <3>2, <4>1, <5>1, <4>4
        <5> QED BY <5>2
      <4> QED BY <2>0, <3>1, <3>3, <4>2, <4>6, <4>7 DEF CutInTime, Written
    <3>4. CASE cancel = "posted"
      <4>1. Splits(events, wire, plan, D!Whole) /\ Len(events) = 4 /\ Len(wire) = 0
        BY <2>0, <3>1, <3>4 DEF CutInTime
      <4>2. plan[1] = D!Whole[Len(events) + Len(wire) + 1]
        BY <2>11, <3>2, <4>1 DEF Splits
      <4>3. Head(plan) = D!Whole[5]
        BY <3>2, <4>1, <4>2
      <4> QED BY <2>10, <3>1, <3>4, <4>3
    <3>5. CASE cancel \in {"heard", "answered"}
      <4>1. Splits(events, wire, plan, Cut)
        BY <2>0, <3>1, <3>5 DEF CutInTime
      <4>2. Splits(events, wire, plan, Cut)'
        BY <1>10, <3>1, <4>1, SentOne DEF Flows
      <4>3. CASE plan' # <<>>
        BY <2>0, <3>1, <3>5, <4>2, <4>3 DEF CutInTime, Written
      <4>4. CASE plan' = <<>>
        <5>1. Len(plan) = 1 /\ Len(events) + Len(wire) + Len(plan) = 6
          <6>1. Len(plan') = 0
            BY <4>4
          <6>2. Len(events) + Len(wire) + Len(plan) = 6
            BY <4>1, CutIs DEF Splits
          <6> QED BY <2>11, <3>2, <6>1, <6>2
        <5>2. plan[1] = Cut[Len(events) + Len(wire) + 1]
          BY <4>1, <5>1 DEF Splits
        <5>3. Len(events) + Len(wire) + 1 = 6
          BY <2>11, <5>1
        <5>4. Head(plan).stop = "UserInterrupt"
          BY <3>2, <5>2, <5>3, CutIs DEF D!Event
        <5>5. log = Before
          BY <2>0, <3>1 DEF RowInLog, Written
        <5>6. log' = <<D!Row("UserInterrupt", "null", "plain")>> \o Before
          BY <3>1, <4>4, <5>4, <5>5 DEF D!Logged
        <5>7. log' # <<>> /\ log'[1].stop = "UserInterrupt"
          BY <5>6, Newest DEF D!Row
        <5> QED BY <2>0, <3>1, <3>5, <4>2, <5>7 DEF CutInTime
      <4> QED BY <4>3, <4>4
    <3> QED BY <3>3, <3>4, <3>5 DEF DType
  <2>3. CASE D!HearCancel
    <3>1. /\ UNCHANGED <<step, log, net, events, wire>> /\ cancel = "posted" /\ cancel' = "heard"
          /\ plan' = IF plan = <<>> \/ flaw = "deaf" THEN plan ELSE D!Rest(Len(D!Whole) - Len(plan))
      BY <2>3 DEF D!HearCancel
    <3>2. net = "streaming"
      BY <2>3, <3>1 DEF DType
    <3>3. Splits(events, wire, plan, D!Whole) /\ Len(events) = 4 /\ wire = <<>>
      BY <2>0, <3>1, <3>2 DEF CutInTime
    <3>4. Len(plan) = Deltas /\ Len(wire) = 0
      <4>1. Len(events) + Len(wire) + Len(plan) = Deltas + 4 /\ Len(wire) = 0
        BY <2>10, <3>3 DEF Splits
      <4>2. Len(events) = 4
        BY <3>3
      <4> QED BY <2>10, <2>11, <4>1, <4>2
    <3>5. plan # <<>>
      BY <2>10, <3>4
    <3>6. Len(D!Whole) - Len(plan) = 4
      BY <2>10, <3>4
    <3>7. plan' = D!Rest(4)
      BY <3>1, <3>5, <3>6
    <3>8. /\ Len(plan') = 2 /\ plan'[1] = D!Event("BlockEnd", 5, "UserInterrupt")
          /\ plan'[2] = D!Event("MessageEnd", 6, "UserInterrupt") /\ plan' # <<>>
      BY <3>7, RestIs
    <3>9. Splits(events, wire, plan', Cut)
      <4>1. Len(events) + Len(wire) + Len(plan') = Len(Cut)
        BY <3>3, <3>4, <3>8, CutIs
      <4>2. \A i \in 1 .. Len(events) : events[i] = Cut[i]
        BY <3>3, CutIs DEF Splits
      <4>3. ASSUME NEW i \in 1 .. Len(plan') PROVE plan'[i] = Cut[Len(events) + Len(wire) + i]
        <5>1. i = 1 \/ i = 2
          BY <3>8
        <5>2. Len(events) + Len(wire) = 4
          BY <3>3, <3>4
        <5> QED BY <3>8, <5>1, <5>2, CutIs
      <4>4. \A i \in 1 .. Len(wire) : wire[i] = Cut[Len(events) + i]
        BY <3>4
      <4> QED BY <4>1, <4>2, <4>3, <4>4 DEF Splits
    <3>10. Splits(events, wire, plan, Cut)'
      BY <1>10, <3>1, <3>9
    <3> QED BY <2>0, <3>1, <3>8, <3>10 DEF CutInTime, Written
  <2>4. CASE D!Read
    <3>1. /\ net = "streaming" /\ wire # <<>> /\ events' = Append(events, Head(wire)) /\ wire' = Tail(wire)
          /\ UNCHANGED <<step, log, net, plan>> /\ cancel \in {"no", "answered"}
          /\ cancel' = IF cancel = "no" /\ Head(wire).typ = "Delta" /\ DeltasRead = 1 THEN "posted" ELSE cancel
      BY <2>4, DeltasCounted DEF D!Read
    <3>2. Len(events') = Len(events) + 1 /\ Len(wire') = Len(wire) - 1 /\ Len(wire) >= 1 /\ Head(wire) = wire[1]
      BY <3>1, Moved DEF Flows
    <3>3. CASE cancel = "no"
      <4>1. /\ Splits(events, wire, plan, D!Whole) /\ Len(events) <= 3 /\ Len(events) + Len(wire) <= 4
            /\ (Len(events) + Len(wire) = 4 => Len(events) = 3)
        BY <2>0, <3>1, <3>3 DEF CutInTime
      <4>2. Splits(events, wire, plan, D!Whole)'
        BY <1>0, <3>1, <4>1, ReadOne DEF Flows
      <4>3. Head(wire) = D!Whole[Len(events) + 1]
        BY <2>11, <3>2, <4>1 DEF Splits
      <4>4. CASE Len(events) = 3
        <5>1. Head(wire).typ = "Delta" /\ DeltasRead = 1
          BY <2>10, <4>1, <4>3, <4>4, Starting
        <5>2. Len(events') = 4 /\ Len(wire') = 0 /\ wire' \in Seq(Events)
          BY <2>11, <3>2, <4>1, <4>4 DEF Flows
        <5>3. wire' = <<>> /\ cancel' = "posted"
          BY <3>1, <3>3, <5>1, <5>2
        <5>4. Written' => Written
          BY <3>1 DEF Written
        <5> QED BY <2>0, <3>1, <4>2, <5>2, <5>3, <5>4 DEF CutInTime
      <4>5. CASE Len(events) # 3
        <5>1. Len(events) <= 2
          <6> DEFINE read == Len(events)
          <6>1. read \in Nat /\ read <= 3 /\ read # 3
            BY <2>11, <4>1, <4>5
          <6> HIDE DEF read
          <6>2. read <= 2
            BY <6>1
          <6> QED BY <6>2 DEF read
        <5>2. cancel' = "no"
          BY <3>1, <3>3, <4>1, <5>1, Starting
        <5>3. Len(events') <= 3 /\ Len(events') + Len(wire') <= 4 /\ (Len(events') + Len(wire') = 4 => Len(events') = 3)
          BY <2>11, <3>2, <4>1, <5>1
        <5>4. Written' => Written
          BY <3>1 DEF Written
        <5> QED BY <2>0, <3>1, <4>2, <5>2, <5>3, <5>4 DEF CutInTime
      <4> QED BY <4>4, <4>5
    <3>4. CASE cancel = "answered"
      <4>1. Splits(events, wire, plan, Cut)
        BY <2>0, <3>1, <3>4 DEF CutInTime
      <4>2. Splits(events, wire, plan, Cut)'
        BY <1>10, <3>1, <4>1, ReadOne DEF Flows
      <4>3. Written' => Written
        BY <3>1 DEF Written
      <4> QED BY <2>0, <3>1, <3>4, <4>2, <4>3 DEF CutInTime
    <3> QED BY <3>1, <3>3, <3>4
  <2>5. CASE D!CancelAnswered
    <3>1. cancel = "heard" /\ cancel' = "answered" /\ UNCHANGED <<step, log, net, events, wire, plan>>
      <4>1. lost = 0 /\ lost \in Nat
        BY StepsOfDispatch
      <4> QED BY <2>5, <4>1 DEF D!CancelAnswered
    <3> QED BY <1>0, <1>10, <2>0, <3>1 DEF CutInTime, Written
  <2>6. CASE D!EndOfStream
    <3>1. net = "streaming" /\ net' = "idle" /\ plan = <<>> /\ log' = log
      BY <2>6, StreamEnded
    <3> QED BY <2>0, <3>1 DEF CutInTime, Written
  <2> QED BY <1>2, <2>1, <2>2, <2>3, <2>4, <2>5, <2>6 DEF Streaming
<1> QED BY <1>1, <1>2

-----------------------------------------------------------------------------
\* SV-LLM-05, all of it.
Track05 == /\ Flows /\ NotInterrupted /\ DeltaAfter /\ RowInLog /\ Earned
           /\ StreamHasRoom => CutInTime /\ Kept

\* What the handler finds in the log.
LEMMA RowIsJudged ==
    ASSUME DispatchAssumption, DType, test = "05", pc = "script", step = 3, net = "served", RowInLog
    PROVE  /\ flaw = "errorRow" => ~D!Accepts
           /\ flaw = "none" /\ StreamHasRoom /\ CutInTime => D!Accepts
<1>1. D!Accepts <=> D!Cancelled(reply.rows)
  <2>1. D!Request.do = "recent"
    BY ScriptLLM DEF DType, Recents
  <2> QED BY <2>1 DEF D!Accepts
<1>2. flaw \in {"none", "errorRow"} => reply.rows = log /\ \E s : log = <<StreamRow(s)>> \o Before
  BY DEF RowInLog, Written
<1>3. flaw \in {"none", "errorRow"} => /\ reply.rows = log /\ log # <<>>
                                       /\ log[1].code = IF flaw = "errorRow" THEN "Cancelled" ELSE "null"
  <2>1. ASSUME flaw \in {"none", "errorRow"}
        PROVE  log # <<>> /\ log[1].code = IF flaw = "errorRow" THEN "Cancelled" ELSE "null"
    <3>1. PICK s : log = <<StreamRow(s)>> \o Before
      BY <1>2, <2>1
    <3> DEFINE r == StreamRow(s)
    <3>2. r.code = IF flaw = "errorRow" THEN "Cancelled" ELSE "null"
      BY DEF StreamRow, D!Row
    <3>3. log = <<r>> \o Before
      BY <3>1
    <3> HIDE DEF r
    <3> QED BY <3>2, <3>3, Newest
  <2> QED BY <1>2, <2>1
<1>4. flaw = "none" /\ StreamHasRoom /\ CutInTime => log[1].stop = "UserInterrupt"
  BY DEF CutInTime, Written
<1> HIDE DEF D!Accepts
<1> QED BY <1>1, <1>3, <1>4 DEF D!Cancelled

\* The handler of SV-LLM-05 finds a conforming Runner's stream interrupted.
LEMMA EndsInterrupted ==
    ASSUME DispatchAssumption, StreamHasRoom, DType, flaw = "none", Flows, CutInTime, pc = "script",
           net = "streaming", wire = <<>>, plan = <<>>, cancel \in {"no", "answered"}
    PROVE  D!Interrupted
<1>1. CASE cancel = "no"
  <2>1. Splits(events, wire, plan, D!Whole) /\ Len(events) <= 3
    BY <1>1 DEF CutInTime
  <2>2. Len(events) + Len(wire) + Len(plan) = Deltas + 4 /\ Deltas \in Nat /\ Deltas >= 3
    BY <2>1, CutIs DEF Splits
  <2> DEFINE n == Len(events)
  <2>3. n \in Nat /\ n <= 3
    BY <2>1 DEF Flows
  <2>4. Len(wire) = 0 /\ Len(plan) = 0
    OBVIOUS
  <2>5. n + 0 + 0 = Deltas + 4
    BY <2>2, <2>4
  <2> HIDE DEF n
  <2> QED BY <2>2, <2>3, <2>5
<1>2. CASE cancel = "answered"
  <2>1. Splits(events, wire, plan, Cut)
    BY <1>2 DEF CutInTime
  <2> QED BY <2>1, CutIsInterrupted
<1> QED BY <1>1, <1>2

\* SV-LLM-05: a stream is cancelled and its row found in the log.
LEMMA Interrupting ==
    ASSUME DispatchAssumption, DType, DType', D!Next, lost' = 0, test = "05", Track05
    PROVE  Track05'
<1>1. UNCHANGED <<test, flaw>> /\ flaw \in {"none", "deaf", "late", "natural", "errorRow", "rowless"}
  BY StepsOfDispatch DEF DType, D!Covered, D!Unnoticed
<1>2. /\ D!Covered(test)' = {"deaf", "late", "natural", "errorRow"}
      /\ D!Covered(test) = {"deaf", "late", "natural", "errorRow"}
  BY <1>1 DEF D!Covered
<1>3. Flows' /\ NotInterrupted' /\ DeltaAfter' /\ RowInLog'
  BY FlowsKept, NotInterruptedFails, DeltaAfterFails, RowKept DEF Track05
<1>4. StreamHasRoom => CutInTime'
  BY <1>3, CutKept DEF Track05
<1>5. StreamHasRoom' = StreamHasRoom
  BY DEF StreamHasRoom
<1>6. Earned' /\ (StreamHasRoom => Kept')
  <2>1. CASE verdict' = verdict \/ verdict' = "skip"
    BY <1>1, <1>2, <2>1 DEF Track05, Earned, Kept
  <2>2. CASE Taking
    <3>1. pc = "script" /\ net = "served" /\ Judging
      BY <2>2 DEF Taking, InScript
    <3>2. CASE step # 3
      <4>1. D!Accepts /\ step = 1 /\ Len(D!Script) = 3
        <5>1. ~Streaming
          BY <2>2, Streamed DEF Taking, Streaming, Track05
        <5> QED BY <3>1, <3>2, <5>1, Besides
      <4>2. verdict' = verdict
        BY <3>1, <4>1 DEF Judging, GoesOn
      <4> QED BY <2>1, <4>2
    <3>3. CASE step = 3
      <4>1. ~GoesOn
        <5>1. Len(D!Script) = 3
          BY ScriptLengths DEF DType
        <5> QED BY <3>3, <5>1 DEF GoesOn
      <4>2. IF D!Accepts THEN verdict' = "pass" ELSE verdict' = "fail"
        BY <3>1, <4>1 DEF Judging
      <4>3. flaw \notin {"deaf", "natural", "late"}
        BY <3>1, <3>3 DEF Track05, NotInterrupted, DeltaAfter
      <4>4. flaw = "errorRow" => ~D!Accepts
        BY <3>1, <3>3, RowIsJudged DEF Track05
      <4>5. flaw = "none" /\ StreamHasRoom => D!Accepts
        BY <3>1, <3>3, RowIsJudged DEF Track05
      <4> HIDE DEF D!Accepts
      <4> QED BY <1>1, <1>2, <4>2, <4>3, <4>4, <4>5 DEF Earned, Kept
    <3> QED BY <3>2, <3>3
  <2>3. CASE D!EndOfStream
    <3>1. /\ net = "streaming" /\ pc = "script" /\ wire = <<>> /\ plan = <<>> /\ cancel \in {"no", "answered"}
          /\ (D!AcceptsStream /\ UNCHANGED verdict) \/ (~D!AcceptsStream /\ verdict' = "fail")
      <4>1. Len(D!Script) = 3
        BY ScriptLengths DEF DType
      <4> QED BY <2>3, <4>1, StreamEnded
    <3>2. flaw = "none" /\ StreamHasRoom => D!AcceptsStream
      BY <3>1, EndsInterrupted DEF Track05, D!AcceptsStream
    <3> HIDE DEF D!AcceptsStream
    <3> QED BY <1>1, <1>2, <3>1, <3>2 DEF Track05, Earned, Kept
  <2>4. CASE Streaming /\ ~D!EndOfStream
    <3>1. UNCHANGED verdict
      BY <2>4 DEF Streaming, D!OpenStream, D!Emit, D!HearCancel, D!Read, D!CancelAnswered
    <3> QED BY <2>1, <3>1
  <2>5. CASE Sending \/ Setup \/ Setting \/ Dispatching \/ Recalling
    BY <2>1, <2>5 DEF Sending, Setup, Setting, Dispatching, Recalling
  <2> QED BY <2>2, <2>3, <2>4, <2>5, StepsOfDispatch
<1> QED BY <1>3, <1>4, <1>5, <1>6 DEF Track05

-----------------------------------------------------------------------------
\* The invariant of a call of an SV-LLM handler; what is known of the double, the
\* stream and the log stands while no request has been lost.
Tracked ==
    /\ test = "03" => Track03
    /\ test = "04" => Track04
    /\ test = "05" => Track05
    /\ test = "06" => Track06
    /\ test = "07" => Track07
    /\ test \in {"08", "10"} => TrackRead
DispatchInv == DType /\ (lost = 0 => Tracked)

\* Every call starts in it.
LEMMA DispatchInit ==
    ASSUME DispatchAssumption, D!Init
    PROVE  DispatchInv
<1>1. /\ test \in D!Tests /\ flaw \in {"none"} \cup D!Covered(test) \cup D!Unnoticed(test)
      /\ wired \in BOOLEAN /\ prior \in BOOLEAN /\ log = Before
      /\ pc \in {"mint", "preset"} /\ step = 1 /\ verdict = "none" /\ net = "idle" /\ lost = 0 /\ behavior = "ok"
      /\ plan = <<>> /\ wire = <<>> /\ cancel = "no" /\ events = <<>>
  BY DEF D!Init, Before
<1>2. DType
  BY <1>1 DEF DType, Scripted
<1>3. Earned /\ Kept
  BY <1>1 DEF Earned, Kept
<1>4. Track03 /\ Track04 /\ Track07
  BY <1>1, <1>3 DEF Track03, Track04, Track07, Told, Untold, Scripted
<1>5. Flows
  BY <1>1 DEF Flows
<1>6. TrackRead
  BY <1>1, <1>3, <1>5 DEF TrackRead
<1>7. Track05
  BY <1>1, <1>3, <1>5 DEF Track05, NotInterrupted, DeltaAfter, RowInLog, CutInTime
<1>8. Track06
  <2>1. log \in Seq(Rows06) /\ \A i \in 1 .. Len(log) : log[i].stop = "NaturalStop" /\ log[i].code = "null"
    BY <1>1, OldRows, RowsAre DEF Right
  <2> QED BY <1>1, <1>3, <2>1 DEF Track06, Told, Untold, Scripted, Failing
<1> QED BY <1>2, <1>4, <1>6, <1>7, <1>8 DEF DispatchInv, Tracked

\* Every step keeps it.
LEMMA DispatchStep ==
    ASSUME DispatchAssumption, DispatchInv, D!Next
    PROVE  DispatchInv'
<1>1. DType /\ DType'
  BY DispatchTyped DEF DispatchInv
<1>2. ASSUME lost' = 0 PROVE Tracked'
  <2>1. test' = test /\ Tracked
    BY <1>1, <1>2, StepsOfDispatch DEF DispatchInv
  <2>2. test = "03" => Track03'
    BY <1>1, <1>2, <2>1, Refusal DEF Tracked
  <2>3. test = "04" => Track04'
    BY <1>1, <1>2, <2>1, Tagging DEF Tracked
  <2>4. test = "05" => Track05'
    BY <1>1, <1>2, <2>1, Interrupting DEF Tracked
  <2>5. test = "06" => Track06'
    BY <1>1, <1>2, <2>1, Classifying DEF Tracked
  <2>6. test = "07" => Track07'
    BY <1>1, <1>2, <2>1, Coding DEF Tracked
  <2>7. test \in {"08", "10"} => TrackRead'
    BY <1>1, <1>2, <2>1, Reading DEF Tracked
  <2> QED BY <2>1, <2>2, <2>3, <2>4, <2>5, <2>6, <2>7 DEF Tracked
<1> QED BY <1>1, <1>2 DEF DispatchInv

\* A call of an SV-LLM handler stays one.
LEMMA DispatchCall ==
    ASSUME [Next]_vars, kind = "dispatch", DispatchAssumption, DispatchInv
    PROVE  DispatchInv'
<1>1. CASE UNCHANGED vars
  <2>1. UNCHANGED <<all, logVars, dispatchVars>>
    BY <1>1 DEF vars
  <2>2. UNCHANGED <<test, flaw, step, net, reply, lost, verdict, log, wired, prior, pc, behavior, plan, wire, cancel, events>>
    BY <2>1 DEF all, logVars, dispatchVars
  <2>3. /\ Len(D!Script)' = Len(D!Script) /\ D!Covered(test)' = D!Covered(test)
        /\ D!Unnoticed(test)' = D!Unnoticed(test) /\ D!Whole' = D!Whole /\ Before' = Before
    BY <2>2, ScriptSame, SameWhole DEF D!Covered, D!Unnoticed, Before
  <2>4. DType' = DType
    BY <2>2, <2>3 DEF DType, Scripted
  <2>5. Earned' = Earned /\ Kept' = Kept /\ Flows' = Flows
    BY <2>2, <2>3 DEF Earned, Kept, Flows
  <2>6. Track03' = Track03 /\ Track04' = Track04 /\ Track07' = Track07
    BY <2>2, <2>3, <2>5 DEF Track03, Track04, Track07, Told, Untold, Scripted
  <2>7. Track06' = Track06
    BY <2>2, <2>5 DEF Track06, Told, Untold, Scripted, Failing
  <2>8. TrackRead' = TrackRead
    BY <2>2, <2>3, <2>5 DEF TrackRead
  <2>9. Track05' = Track05
    <3>1. Cut' = Cut
      BY <2>2, <2>3 DEF Cut, D!Event
    <3>2. NotInterrupted' = NotInterrupted /\ DeltaAfter' = DeltaAfter
      BY <2>2 DEF NotInterrupted, DeltaAfter, AllNatural, DeltasRead
    <3>3. RowInLog' = RowInLog
      BY <2>2, <2>3 DEF RowInLog, Written, StreamRow, D!Row
    <3>4. CutInTime' = CutInTime
      BY <2>2, <2>3, <3>1 DEF CutInTime, Written
    <3> QED BY <2>5, <3>2, <3>3, <3>4 DEF Track05, StreamHasRoom
  <2> QED BY <2>2, <2>4, <2>6, <2>7, <2>8, <2>9 DEF DispatchInv, Tracked
<1>2. CASE Next
  <2>1. D!Next
    BY <1>2 DEF Next, Handoff, Dispatch, AuditTrail, Observe, Probe, Check, InHandoff, InDispatch, InAudit,
                InObserve, InProbe, InCheck
  <2> QED BY <2>1, DispatchStep
<1> QED BY <1>1, <1>2

\* What a verdict is worth, test by test.
LEMMA DispatchJudged ==
    ASSUME DispatchInv
    PROVE  /\ D!PassIsEarned
           /\ StreamHasRoom => D!ConformingNeverFails
<1>1. test \in D!Tests
  BY DEF DispatchInv, DType
<1>2. lost = 0 => Earned /\ (StreamHasRoom => Kept)
  BY <1>1 DEF DispatchInv, Tracked, Track03, Track04, Track05, Track06, Track07, TrackRead, D!Tests
<1> QED BY <1>2 DEF Earned, Kept, D!PassIsEarned, D!ConformingNeverFails

\* The invariant of a call of an SV-LLM handler, when SV-LLM-07 has errors to walk
\* through that tell a Runner's codes apart.
LEMMA DispatchInvariant ==
    ASSUME Codes # <<>>, CodesDiffer
    PROVE  Spec => [](kind = "dispatch" => DispatchInv)
<1>1. DispatchAssumption
  BY LiveCallAssumption DEF DispatchAssumption
<1>2. Init => (kind = "dispatch" => DispatchInv)
  BY <1>1, DispatchInit DEF Init
<1>3. (kind = "dispatch" => DispatchInv) /\ [Next]_vars => (kind = "dispatch" => DispatchInv)'
  BY <1>1, DispatchCall, KindStays
<1> QED BY <1>2, <1>3, PTL DEF Spec

\* An SV-LLM handler that passes a Runner none of whose answers is lost has seen
\* that it keeps the rules the test covers, however many deltas a stream has, in
\* whichever order it is sent, read and cancelled, and whatever the log held.
THEOREM DispatchPassIsEarned ==
    ASSUME Codes # <<>>, CodesDiffer
    PROVE  Spec => [](kind = "dispatch" => PassIsEarned)
<1>1. (kind = "dispatch" => DispatchInv) => (kind = "dispatch" => PassIsEarned)
  BY DispatchJudged DEF PassIsEarned
<1> QED BY <1>1, DispatchInvariant, PTL

\* A Runner that keeps every rule, and sends no delta before the last was read and
\* a posted cancel heard, is not failed by an SV-LLM handler while its answers
\* arrive: SV-LLM-05 finds its stream interrupted and the row of it in the log.
THEOREM DispatchConformingNeverFails ==
    ASSUME Codes # <<>>, CodesDiffer, StreamHasRoom
    PROVE  Spec => [](kind = "dispatch" => ConformingNeverFails)
<1>1. (kind = "dispatch" => DispatchInv) => (kind = "dispatch" => ConformingNeverFails)
  BY DispatchJudged DEF ConformingNeverFails
<1> QED BY <1>1, DispatchInvariant, PTL

-----------------------------------------------------------------------------
(***************************************************************************)
(* A round of the observing handlers.  What is known is known while every  *)
(* answer arrived and everything was published by the end of a pause: what *)
(* the Runner has still to publish, what an answer says of it, what of     *)
(* that the handler remembers, and which flaws it has ruled out; and of    *)
(* SV-SESS-03 how the series of its observations goes on.                  *)
(***************************************************************************)
\* The tests that take a decision before they read.
Deciders == {"STR01", "STR02", "STR03", "STR06", "STR07", "BUD05"}

Steps == 1 .. Len(O!Script)
OType ==
    /\ test \in O!Tests /\ deploy \in O!Deployments
    /\ flaw # "none" => deploy.shipped /\ ~deploy.inflight /\ ~deploy.trims
    /\ flaw = "patchy" => test = "SESS03"
    /\ step \in Steps /\ verdict \in {"none", "pass", "fail", "error", "skip"}
    /\ net \in {"idle", "sent", "served"} /\ lost \in Nat
    /\ net # "idle" => verdict = "none" /\ O!Entry.do # "pause"
    /\ test \in O!OwnTests => left = 0 /\ ~cache
    /\ left \in Nat /\ cache \in BOOLEAN /\ known \in BOOLEAN /\ late \in BOOLEAN
    /\ used \in Nat /\ due \in Nat /\ due <= used /\ reads \in {0, 1}

\* What a read is told, by a Runner whose answers vary as v does; and how its last
\* answer varied.
Tells(e, v) ==
    CASE e = "state"  -> <<O!Effects, v>>
      [] e = "memory" -> IF flaw = "empty" THEN <<>> ELSE IF v = 1 THEN <<2, 1>> ELSE <<1, 2>>
      [] e = "budget" -> [cumulative |-> O!Published, cold |-> O!Published = 0 /\ flaw # "warm", rev |-> v]
      [] e = "tools"  -> [extra |-> flaw = "fields", rev |-> v]
      [] OTHER        -> O!Body(e)
Varied == IF flaw = "vary" THEN 1 - reads ELSE 0

\* Something is left to publish only between a decision and the end of a pause.
Quiet == test \in O!SharedTests /\ due > 0 =>
           verdict = "none" /\ (O!Entry.do = "pause" \/ (O!Entry.do = "decide" /\ net = "served"))

Answered == net = "served" =>
    /\ O!Entry.do \in {"mint", "shared"} => reply.status \in {"201", "429"}
    /\ O!Entry.do = "decide" => \/ reply.status = "201" /\ used > 0
                                \/ reply.status = "401" /\ ~known
    /\ O!Entry.do = "read" =>
         \/ reply.status = "404" /\ ~deploy.shipped
         \/ reply.status = "401" /\ ~known
         \/ /\ reply.status = "200" /\ deploy.shipped /\ reply.valid = (flaw # "shape")
            /\ reply.body = Tells(O!Entry.arg, Varied)
            /\ test \in Deciders => used > 0

\* What the second of two readings is compared with, and what the first was found
\* to be.
Marked ==
    /\ step = 3 /\ verdict = "none" /\ test \in {"SESSSTATE01", "MEMSTATE02", "PROJ02", "REGOBS02"} =>
         /\ deploy.shipped
         /\ mark = <<Tells(O!Entry.arg, IF net = "served" THEN O!Varied ELSE Varied)>>
    /\ step = 3 /\ test \in {"SESSSTATE01", "PROJ02", "REGOBS02"} => flaw # "shape"
    /\ step \in {3, 4} /\ verdict = "none" /\ test = "MEM02" =>
         mark = <<Tells("memory", IF net = "served" /\ step = 4 THEN O!Varied ELSE Varied)>>

\* What is known after a decision, and after the readings of SV-BUD-05.
Decided ==
    /\ test \in Deciders /\ step > 2 => ~known \/ used > 0
    /\ test = "BUD05" /\ step > 4 => flaw # "spanTag"
    /\ test = "BUD05" /\ step > 5 => flaw # "auditTag"

OEarned == verdict = "pass" => flaw \notin O!Covered(test)
OKept == verdict \in {"fail", "error"} /\ flaw = "none" =>
            ~known \/ (test = "BUD01" /\ used > 0) \/ (test = "BUD05" /\ ~deploy.shipped)

Observed == Quiet /\ Answered /\ Marked /\ Decided /\ OEarned /\ OKept

-----------------------------------------------------------------------------
\* The scripts of the tests that read once.
LEMMA ReadingScripts ==
    /\ test = "SESS01" => O!Script = <<O!Own, O!Read("state", "shape", O!Usual)>>
    /\ test = "MEMSTATE01" => O!Script = <<O!Bootstrap, O!Read("memory", "shape", O!Usual)>>
    /\ test = "MEM01" => O!Script = <<O!Bootstrap, O!Read("memory", "notes", O!Usual)>>
    /\ test = "PROJ01" => O!Script = <<O!Bootstrap, O!Read("budget", "shape", O!Usual)>>
    /\ test = "BUD01" => O!Script = <<O!Bootstrap, O!Read("budget", "fresh", O!Usual)>>
    /\ test = "REG" => O!Script = <<O!Bootstrap, O!Read("tools", "fields", O!Usual)>>
    /\ test = "STR08" => O!Script = <<O!Bootstrap, O!Read("pressure", "capacity", O!Usual)>>
    /\ test = "STROBS01" => O!Script = <<O!Bootstrap, O!Read("events", "shape", O!Usual)>>
BY DEF O!Script, O!handleSVSESS01, O!handleSVMEMSTATE01, O!liveRunnerSVMEM01, O!budgetProjectionProbe,
       O!budgetProjectionAssert, O!registryMetadataProbe, O!handleSVSTR08, O!handleSVSTROBS01

\* Of those that read twice.
LEMMA ComparingScripts ==
    /\ test = "SESSSTATE01" => O!Script = <<O!Own, O!Read("state", "note", O!Usual), O!Read("state", "same", O!Strict)>>
    /\ test = "MEMSTATE02" => O!Script = <<O!Bootstrap, O!Read("memory", "keep", O!Blind), O!Read("memory", "same", O!Strict)>>
    /\ test = "PROJ02" => O!Script = <<O!Bootstrap, O!Read("budget", "note", O!Usual), O!Read("budget", "same", O!Strict)>>
    /\ test = "REGOBS02" => O!Script = <<O!Bootstrap, O!Read("tools", "note", O!Usual), O!Read("tools", "same", O!Strict)>>
    /\ test = "MEM02" => O!Script = <<O!Bootstrap, O!Read("memory", "keep", O!Lenient), O!Bootstrap,
                                      O!Read("memory", "sameNotes", O!Lenient)>>
BY DEF O!Script, O!handleSVSESSSTATE01, O!handleSVMEMSTATE02, O!budgetProjectionProbe, O!byteIdentity,
       O!toolsRegisteredProbe, O!liveRunnerSVMEM02

\* Of those that take a decision first.
LEMMA DecidingScripts ==
    /\ test = "STR01" => O!Script = <<O!Bootstrap, O!Decide("go"), O!Pause, O!Read("events", "types", O!Lenient)>>
    /\ test = "STR02" => O!Script = <<O!Bootstrap, O!Decide("go"), O!Pause, O!Read("events", "ascending", O!Lenient)>>
    /\ test = "STR03" => O!Script = <<O!Bootstrap, O!Decide("go"), O!Pause, O!Read("events", "unique", O!Lenient)>>
    /\ test = "STR06" => O!Script = <<O!Bootstrap, O!Decide("go"), O!Pause, O!Read("spans", "turns", O!Usual)>>
    /\ test = "STR07" => O!Script = <<O!Bootstrap, O!Decide("go"), O!Pause, O!Read("spans", "tagged", O!Usual)>>
    /\ test = "BUD05" => O!Script = <<O!Bootstrap, O!Decide("go"), O!Pause, O!Read("spans", "tag", O!Strict),
                                      O!Read("audit", "tag", O!Strict), O!Read("events", "tag", O!Strict)>>
BY DEF O!Script, O!streamProbe, O!otelSpansProbe, O!handleSVBUD05

\* The lengths of the scripts.
LEMMA ObserveLengths ==
    /\ test \in {"SESS01", "MEMSTATE01", "MEM01", "PROJ01", "BUD01", "REG", "STR08", "STROBS01"} => Len(O!Script) = 2
    /\ test \in {"SESSSTATE01", "MEMSTATE02", "PROJ02", "REGOBS02"} => Len(O!Script) = 3
    /\ test \in {"MEM02", "STR01", "STR02", "STR03", "STR06", "STR07"} => Len(O!Script) = 4
    /\ test = "BUD05" => Len(O!Script) = 6
BY ReadingScripts, ComparingScripts, DecidingScripts

\* The script of SV-SESS-03.
LEMMA SeriesScript ==
    ASSUME test = "SESS03", Drives \in Nat
    PROVE  /\ Len(O!Script) = 2 + 2 * Drives
           /\ \A s \in Steps : O!Script[s] =
                IF s = 1 THEN O!Own ELSE IF s = 2 THEN O!Read("state", "any", O!Reach)
                ELSE IF s % 2 = 1 THEN O!Decide("skip") ELSE O!Read("state", "observe", O!Lenient)
<1>1. O!Script = O!handleSVSESS03
  BY DEF O!Script
<1> DEFINE n == 2 + 2 * Drives
<1>2. n \in Nat
  OBVIOUS
<1>3. O!Script = [i \in 1 .. n |-> CASE i = 1 -> O!Own
                                     [] i = 2 -> O!Read("state", "any", O!Reach)
                                     [] i > 2 /\ i % 2 = 1 -> O!Decide("skip")
                                     [] OTHER -> O!Read("state", "observe", O!Lenient)]
  BY <1>1 DEF O!handleSVSESS03
<1> HIDE DEF n, O!Script
<1>4. Len(O!Script) = n
  BY <1>2, <1>3
<1>5. ASSUME NEW s \in 1 .. n
      PROVE  O!Script[s] = IF s = 1 THEN O!Own ELSE IF s = 2 THEN O!Read("state", "any", O!Reach)
                           ELSE IF s % 2 = 1 THEN O!Decide("skip") ELSE O!Read("state", "observe", O!Lenient)
  <2>1. s = 1 \/ s = 2 \/ (s > 2 /\ s # 1 /\ s # 2)
    BY <1>2
  <2> QED BY <1>3, <2>1
<1> QED BY <1>4, <1>5 DEF n, Steps

\* What each check looks for.
LEMMA SeenSingly ==
    ASSUME NEW b
    PROVE  /\ O!Seen("shape", b) /\ O!Seen("note", b) /\ O!Seen("keep", b) /\ O!Seen("any", b) /\ O!Seen("observe", b)
           /\ O!Seen("same", b) <=> <<b>> = mark
           /\ O!Seen("notes", b) <=> b # <<>>
           /\ O!Seen("sameNotes", b) <=> b # <<>> /\ <<b>> = mark
           /\ O!Seen("fresh", b) <=> b.cold /\ b.cumulative = 0
           /\ O!Seen("fields", b) <=> ~b.extra
           /\ O!Seen("capacity", b) <=> b = 10000
<1>1. O!Seen("shape", b) /\ O!Seen("note", b) /\ O!Seen("keep", b) /\ O!Seen("any", b) /\ O!Seen("observe", b)
  BY DEF O!Seen
<1>2. O!Seen("same", b) <=> <<b>> = mark
  BY DEF O!Seen
<1>3. O!Seen("notes", b) <=> b # <<>>
  BY DEF O!Seen
<1>4. O!Seen("sameNotes", b) <=> b # <<>> /\ <<b>> = mark
  BY DEF O!Seen
<1>5. O!Seen("fresh", b) <=> b.cold /\ b.cumulative = 0
  BY DEF O!Seen
<1>6. O!Seen("fields", b) <=> ~b.extra
  BY DEF O!Seen
<1>7. O!Seen("capacity", b) <=> b = 10000
  BY DEF O!Seen
<1> QED BY <1>1, <1>2, <1>3, <1>4, <1>5, <1>6, <1>7

\* And in a list, item by item.
LEMMA SeenInList ==
    ASSUME NEW b
    PROVE  /\ O!Seen("types", b) <=> b # <<>> /\ \A i \in DOMAIN b : b[i].type # "other"
           /\ O!Seen("ascending", b) <=> b # <<>> /\ \A i \in 2 .. Len(b) : b[i - 1].seq < b[i].seq
           /\ O!Seen("unique", b) <=> b # <<>> /\ \A i, j \in DOMAIN b : i # j => b[i].id # b[j].id
           /\ O!Seen("turns", b) <=> b # <<>> /\ (\E i \in DOMAIN b : b[i].turn) /\ \A i \in DOMAIN b : b[i].turn => b[i].attrs
           /\ O!Seen("tagged", b) <=> b # <<>> /\ \A i \in DOMAIN b : b[i].tag
           /\ O!Seen("tag", b) <=> \E i \in DOMAIN b : b[i].tag
<1>1. O!Seen("types", b) <=> b # <<>> /\ \A i \in DOMAIN b : b[i].type # "other"
  BY DEF O!Seen
<1>2. O!Seen("ascending", b) <=> b # <<>> /\ \A i \in 2 .. Len(b) : b[i - 1].seq < b[i].seq
  BY DEF O!Seen
<1>3. O!Seen("unique", b) <=> b # <<>> /\ \A i, j \in DOMAIN b : i # j => b[i].id # b[j].id
  BY DEF O!Seen
<1>4. O!Seen("turns", b) <=> b # <<>> /\ (\E i \in DOMAIN b : b[i].turn) /\ \A i \in DOMAIN b : b[i].turn => b[i].attrs
  BY DEF O!Seen
<1>5. O!Seen("tagged", b) <=> b # <<>> /\ \A i \in DOMAIN b : b[i].tag
  BY DEF O!Seen
<1>6. O!Seen("tag", b) <=> \E i \in DOMAIN b : b[i].tag
  BY DEF O!Seen
<1> QED BY <1>1, <1>2, <1>3, <1>4, <1>5, <1>6

\* The steps of a script of a known length.
LEMMA StepsAre ==
    ASSUME NEW s \in Steps
    PROVE  /\ Len(O!Script) = 2 => s \in {1, 2}
           /\ Len(O!Script) = 3 => s \in {1, 2, 3}
           /\ Len(O!Script) = 4 => s \in {1, 2, 3, 4}
           /\ Len(O!Script) = 6 => s \in {1, 2, 3, 4, 5, 6}
<1> DEFINE n == Len(O!Script)
<1>1. s \in 1 .. n
  BY DEF Steps
<1> HIDE DEF n
<1>2. n = 2 => s \in {1, 2}
  BY <1>1
<1>3. n = 3 => s \in {1, 2, 3}
  BY <1>1
<1>4. n = 4 => s \in {1, 2, 3, 4}
  BY <1>1
<1>5. n = 6 => s \in {1, 2, 3, 4, 5, 6}
  BY <1>1
<1> QED BY <1>2, <1>3, <1>4, <1>5 DEF n

\* What the handlers that read a number of times do, step by step.
LEMMA Doing ==
    ASSUME test \in O!Tests, test # "SESS03", NEW s \in Steps
    PROVE  /\ O!Script[s].do \in {"mint", "shared", "decide", "pause", "read"}
           /\ O!Script[s].do \in {"mint", "shared"} <=> s = 1 \/ (test = "MEM02" /\ s = 3)
           /\ O!Script[s].do = "mint" => test \in O!OwnTests
           /\ O!Script[s].do = "shared" => test \in O!SharedTests
           /\ O!Script[s].do = "decide" <=> test \in Deciders /\ s = 2
           /\ O!Script[s].do = "decide" => O!Script[s].bad = "go"
           /\ O!Script[s].do = "pause" <=> test \in Deciders /\ s = 3
           /\ O!Script[s].do # "read" => s < Len(O!Script)
<1> USE DEF O!Own, O!Bootstrap, O!Decide, O!Pause, O!Read
<1>1. CASE test \in {"SESS01", "MEMSTATE01", "MEM01", "PROJ01", "BUD01", "REG", "STR08", "STROBS01"}
  <2> DEFINE a == O!Script[1]
             b == O!Script[2]
  <2>1. a.do = (IF test = "SESS01" THEN "mint" ELSE "shared") /\ b.do = "read"
    BY <1>1, ReadingScripts
  <2>2. Len(O!Script) = 2 /\ s \in {1, 2}
    BY <1>1, ObserveLengths, StepsAre
  <2>3. (s = 1 => O!Script[s] = a) /\ (s = 2 => O!Script[s] = b)
    OBVIOUS
  <2> HIDE DEF a, b
  <2> QED BY <1>1, <2>1, <2>2, <2>3 DEF O!OwnTests, O!SharedTests, Deciders
<1>2. CASE test \in {"SESSSTATE01", "MEMSTATE02", "PROJ02", "REGOBS02"}
  <2> DEFINE a == O!Script[1]
             b == O!Script[2]
             c == O!Script[3]
  <2>1. a.do = (IF test = "SESSSTATE01" THEN "mint" ELSE "shared") /\ b.do = "read" /\ c.do = "read"
    BY <1>2, ComparingScripts
  <2>2. Len(O!Script) = 3 /\ s \in {1, 2, 3}
    BY <1>2, ObserveLengths, StepsAre
  <2>3. (s = 1 => O!Script[s] = a) /\ (s = 2 => O!Script[s] = b) /\ (s = 3 => O!Script[s] = c)
    OBVIOUS
  <2> HIDE DEF a, b, c
  <2> QED BY <1>2, <2>1, <2>2, <2>3 DEF O!OwnTests, O!SharedTests, Deciders
<1>3. CASE test = "MEM02"
  <2> DEFINE a == O!Script[1]
             b == O!Script[2]
             c == O!Script[3]
             d == O!Script[4]
  <2>1. a.do = "shared" /\ b.do = "read" /\ c.do = "shared" /\ d.do = "read"
    BY <1>3, ComparingScripts
  <2>2. Len(O!Script) = 4 /\ s \in {1, 2, 3, 4}
    BY <1>3, ObserveLengths, StepsAre
  <2>3. (s = 1 => O!Script[s] = a) /\ (s = 2 => O!Script[s] = b) /\ (s = 3 => O!Script[s] = c) /\ (s = 4 => O!Script[s] = d)
    OBVIOUS
  <2> HIDE DEF a, b, c, d
  <2> QED BY <1>3, <2>1, <2>2, <2>3 DEF O!OwnTests, O!SharedTests, Deciders
<1>4. CASE test \in Deciders
  <2> DEFINE a == O!Script[1]
             b == O!Script[2]
             c == O!Script[3]
  <2>1. a.do = "shared" /\ b.do = "decide" /\ b.bad = "go" /\ c.do = "pause"
    BY <1>4, DecidingScripts DEF Deciders
  <2>2. CASE test # "BUD05"
    <3> DEFINE d == O!Script[4]
    <3>1. d.do = "read"
      BY <1>4, <2>2, DecidingScripts DEF Deciders
    <3>2. Len(O!Script) = 4 /\ s \in {1, 2, 3, 4}
      BY <1>4, <2>2, ObserveLengths, StepsAre DEF Deciders
    <3>3. (s = 1 => O!Script[s] = a) /\ (s = 2 => O!Script[s] = b) /\ (s = 3 => O!Script[s] = c) /\ (s = 4 => O!Script[s] = d)
      OBVIOUS
    <3> HIDE DEF a, b, c, d
    <3> QED BY <1>4, <2>1, <2>2, <3>1, <3>2, <3>3 DEF O!OwnTests, O!SharedTests, Deciders
  <2>3. CASE test = "BUD05"
    <3> DEFINE d == O!Script[s]
    <3>1. s \in {4, 5, 6} => d.do = "read"
      BY <2>3, DecidingScripts
    <3>2. Len(O!Script) = 6 /\ s \in {1, 2, 3, 4, 5, 6}
      BY <2>3, ObserveLengths, StepsAre
    <3>3. (s = 1 => O!Script[s] = a) /\ (s = 2 => O!Script[s] = b) /\ (s = 3 => O!Script[s] = c)
      OBVIOUS
    <3>4. (s = 1 => d.do = a.do) /\ (s = 2 => d.do = b.do /\ d.bad = b.bad) /\ (s = 3 => d.do = c.do)
      BY <3>3
    <3> HIDE DEF a, b, c
    <3>5. d.do = O!Script[s].do /\ d.bad = O!Script[s].bad
      OBVIOUS
    <3> HIDE DEF d
    <3> QED BY <1>4, <2>1, <2>3, <3>1, <3>2, <3>4, <3>5 DEF O!OwnTests, O!SharedTests, Deciders
  <2> QED BY <2>2, <2>3
<1> QED BY <1>1, <1>2, <1>3, <1>4 DEF O!Tests, O!OwnTests, O!SharedTests, Deciders

\* What one reading rules out.
Excluded(e) ==
    CASE e.check \in {"shape", "note"} -> {"shape"}
      [] e.check = "same"      -> {"vary"}
      [] e.check = "notes"     -> {"empty"}
      [] e.check = "sameNotes" -> {"empty", "vary"}
      [] e.check = "fresh"     -> {"shape", "warm"}
      [] e.check = "fields"    -> {"shape", "fields"}
      [] e.check = "capacity"  -> {"shape", "capacity"}
      [] e.check = "types"     -> {"foreign", "silent"}
      [] e.check = "ascending" -> {"stuck"}
      [] e.check = "unique"    -> {"twice"}
      [] e.check = "turns"     -> {"shape", "noTurn", "noAttrs"}
      [] e.check = "tagged"    -> {"shape", "spanTag"}
      [] e.check = "tag" -> CASE e.arg = "spans" -> {"spanTag"} [] e.arg = "audit" -> {"auditTag"} [] OTHER -> {"eventTag"}
      [] OTHER -> {}

\* Where the handlers read, what, and how they judge it.
Reads(t, s, e, check, on) == test = t /\ step = s /\ O!Entry = O!Read(e, check, on)
AtReading ==
    \/ Reads("SESS01", 2, "state", "shape", O!Usual)
    \/ Reads("MEMSTATE01", 2, "memory", "shape", O!Usual)
    \/ Reads("PROJ01", 2, "budget", "shape", O!Usual)
    \/ Reads("STROBS01", 2, "events", "shape", O!Usual)
    \/ Reads("SESSSTATE01", 2, "state", "note", O!Usual)
    \/ Reads("PROJ02", 2, "budget", "note", O!Usual)
    \/ Reads("REGOBS02", 2, "tools", "note", O!Usual)
    \/ Reads("MEMSTATE02", 2, "memory", "keep", O!Blind)
    \/ Reads("MEM02", 2, "memory", "keep", O!Lenient)
    \/ Reads("SESSSTATE01", 3, "state", "same", O!Strict)
    \/ Reads("PROJ02", 3, "budget", "same", O!Strict)
    \/ Reads("REGOBS02", 3, "tools", "same", O!Strict)
    \/ Reads("MEMSTATE02", 3, "memory", "same", O!Strict)
    \/ Reads("MEM01", 2, "memory", "notes", O!Usual)
    \/ Reads("MEM02", 4, "memory", "sameNotes", O!Lenient)
    \/ Reads("BUD01", 2, "budget", "fresh", O!Usual)
    \/ Reads("REG", 2, "tools", "fields", O!Usual)
    \/ Reads("STR08", 2, "pressure", "capacity", O!Usual)
    \/ Reads("STR01", 4, "events", "types", O!Lenient)
    \/ Reads("STR02", 4, "events", "ascending", O!Lenient)
    \/ Reads("STR03", 4, "events", "unique", O!Lenient)
    \/ Reads("STR06", 4, "spans", "turns", O!Usual)
    \/ Reads("STR07", 4, "spans", "tagged", O!Usual)
    \/ Reads("BUD05", 4, "spans", "tag", O!Strict)
    \/ Reads("BUD05", 5, "audit", "tag", O!Strict)
    \/ Reads("BUD05", 6, "events", "tag", O!Strict)

\* A step that reads is one of them.
LEMMA ReadingIs ==
    ASSUME test \in O!Tests, test # "SESS03", step \in Steps, O!Entry.do = "read"
    PROVE  AtReading
<1>0. O!Script[step].do = "read" /\ O!Entry = O!Script[step]
  BY DEF O!Entry
<1>00. /\ step # 1 /\ ~(test = "MEM02" /\ step = 3) /\ ~(test \in Deciders /\ step \in {2, 3})
  BY <1>0, Doing
<1>1. CASE test \in {"SESS01", "MEMSTATE01", "MEM01", "PROJ01", "BUD01", "REG", "STR08", "STROBS01"}
  <2>1. step = 2
    BY <1>00, <1>1, ObserveLengths, StepsAre
  <2>2. O!Entry = O!Script[2]
    BY <1>0, <2>1
  <2> QED BY <1>1, <2>1, <2>2, ReadingScripts DEF AtReading, Reads
<1>2. CASE test \in {"SESSSTATE01", "MEMSTATE02", "PROJ02", "REGOBS02"}
  <2>1. step \in {2, 3}
    BY <1>00, <1>2, ObserveLengths, StepsAre
  <2>2. (step = 2 => O!Entry = O!Script[2]) /\ (step = 3 => O!Entry = O!Script[3])
    BY <1>0, <2>1
  <2> QED BY <1>2, <2>1, <2>2, ComparingScripts DEF AtReading, Reads
<1>3. CASE test = "MEM02"
  <2>1. step \in {2, 4}
    BY <1>00, <1>3, ObserveLengths, StepsAre
  <2>2. (step = 2 => O!Entry = O!Script[2]) /\ (step = 4 => O!Entry = O!Script[4])
    BY <1>0, <2>1
  <2> QED BY <1>3, <2>1, <2>2, ComparingScripts DEF AtReading, Reads
<1>4. CASE test \in Deciders /\ test # "BUD05"
  <2>1. step = 4
    BY <1>00, <1>4, ObserveLengths, StepsAre DEF Deciders
  <2>2. O!Entry = O!Script[4]
    BY <1>0, <2>1
  <2> QED BY <1>4, <2>1, <2>2, DecidingScripts DEF AtReading, Reads, Deciders
<1>5. CASE test = "BUD05"
  <2>1. step \in {4, 5, 6}
    BY <1>00, <1>5, ObserveLengths, StepsAre DEF Deciders
  <2>2. (step = 4 => O!Entry = O!Script[4]) /\ (step = 5 => O!Entry = O!Script[5]) /\ (step = 6 => O!Entry = O!Script[6])
    BY <1>0, <2>1
  <2> QED BY <1>5, <2>1, <2>2, DecidingScripts DEF AtReading, Reads
<1> QED BY <1>1, <1>2, <1>3, <1>4, <1>5 DEF O!Tests, O!OwnTests, O!SharedTests, Deciders

\* Fields that hold a truth value.
LEMMA Holds ==
    ASSUME NEW truth \in BOOLEAN, NEW v, NEW n
    PROVE  /\ LET r == [extra |-> truth, rev |-> v] IN r.extra = truth
           /\ LET r == [cumulative |-> n, cold |-> truth, rev |-> v] IN r.cold = truth /\ r.cumulative = n
OBVIOUS

\* How an answer of 200 is judged.
LEMMA JudgedBy ==
    ASSUME O!Entry.do = "read", O!Entry.check # "observe", reply.status = "200", reply.valid = (flaw # "shape")
    PROVE  O!Outcome = IF O!Validates /\ flaw = "shape" THEN "fail"
                       ELSE IF O!Seen(O!Entry.check, reply.body) THEN "go" ELSE "fail"
<1>1. O!Outcome = O!JudgeRead
  BY DEF O!Outcome
<1>2. reply.valid <=> flaw # "shape"
  OBVIOUS
<1> QED BY <1>1, <1>2 DEF O!JudgeRead

\* Fields, for the provers.
LEMMA ReadFields ==
    ASSUME NEW e, NEW check, NEW on
    PROVE  LET r == O!Read(e, check, on) IN r.do = "read" /\ r.arg = e /\ r.check = check /\ r.on = on
BY DEF O!Read

\* A reading of state, memory, budget or tools, of the kind that is not compared.
LEMMA JudgedAlone ==
    ASSUME OType, reply.body = Tells(O!Entry.arg, Varied), reply.status = "200", reply.valid = (flaw # "shape"),
           Quiet, O!Entry.do = "read",
           O!Entry.check \in {"shape", "note", "keep", "notes", "fresh", "fields", "capacity"},
           O!Entry.check = "notes" => O!Entry.arg = "memory",
           O!Entry.check = "fresh" => O!Entry.arg = "budget" /\ test = "BUD01",
           O!Entry.check = "fields" => O!Entry.arg = "tools",
           O!Entry.check = "capacity" => O!Entry.arg = "pressure"
    PROVE  /\ O!Outcome \in {"go", "fail"}
           /\ flaw = "none" => O!Outcome = "go" \/ (test = "BUD01" /\ used > 0)
           /\ O!Outcome = "go" => flaw \notin Excluded(O!Entry)
<1>1. O!Outcome = IF O!Validates /\ flaw = "shape" THEN "fail"
                  ELSE IF O!Seen(O!Entry.check, reply.body) THEN "go" ELSE "fail"
  BY JudgedBy
<1>2. CASE O!Entry.check \in {"shape", "note", "keep"}
  <2>1. O!Seen(O!Entry.check, reply.body)
    BY <1>2, SeenSingly
  <2> QED BY <1>1, <1>2, <2>1 DEF O!Validates, Excluded
<1>3. CASE O!Entry.check = "notes"
  <2>1. reply.body = IF flaw = "empty" THEN <<>> ELSE IF Varied = 1 THEN <<2, 1>> ELSE <<1, 2>>
    BY <1>3 DEF Tells
  <2>2. reply.body # <<>> <=> flaw # "empty"
    BY <2>1
  <2>3. O!Seen(O!Entry.check, reply.body) <=> flaw # "empty"
    BY <1>3, <2>2, SeenSingly
  <2> QED BY <1>1, <1>3, <2>3 DEF O!Validates, Excluded
<1>4. CASE O!Entry.check = "fresh"
  <2>1. reply.body = [cumulative |-> O!Published, cold |-> O!Published = 0 /\ flaw # "warm", rev |-> Varied]
    BY <1>4 DEF Tells
  <2>2. (reply.body.cold <=> O!Published = 0 /\ flaw # "warm") /\ reply.body.cumulative = O!Published
    <3> DEFINE truth == O!Published = 0 /\ flaw # "warm"
    <3>1. truth \in BOOLEAN /\ reply.body = [cumulative |-> O!Published, cold |-> truth, rev |-> Varied]
      BY <2>1
    <3> HIDE DEF truth
    <3>2. reply.body.cold = truth /\ reply.body.cumulative = O!Published
      BY <3>1, Holds
    <3> QED BY <3>2 DEF truth
  <2>3. O!Seen(O!Entry.check, reply.body) <=> O!Published = 0 /\ flaw # "warm"
    BY <1>4, <2>2, SeenSingly
  <2>4. used = 0 => O!Published = 0
    BY DEF O!Published, OType
  <2>5. used = 0 \/ used > 0
    BY DEF OType
  <2> QED BY <1>1, <1>4, <2>3, <2>4, <2>5 DEF O!Validates, Excluded
<1>5. CASE O!Entry.check = "fields"
  <2>1. reply.body = [extra |-> flaw = "fields", rev |-> Varied]
    BY <1>5 DEF Tells
  <2>2. reply.body.extra <=> flaw = "fields"
    <3> DEFINE truth == flaw = "fields"
    <3>1. truth \in BOOLEAN /\ reply.body = [extra |-> truth, rev |-> Varied]
      BY <2>1
    <3> HIDE DEF truth
    <3>2. reply.body.extra = truth
      BY <3>1, Holds
    <3> QED BY <3>2 DEF truth
  <2>3. O!Seen(O!Entry.check, reply.body) <=> flaw # "fields"
    BY <1>5, <2>2, SeenSingly
  <2> QED BY <1>1, <1>5, <2>3 DEF O!Validates, Excluded
<1>6. CASE O!Entry.check = "capacity"
  <2>1. reply.body = IF flaw = "capacity" THEN 1 ELSE 10000
    BY <1>6 DEF Tells, O!Body
  <2>2. reply.body = 10000 <=> flaw # "capacity"
    BY <2>1
  <2>3. O!Seen(O!Entry.check, reply.body) <=> flaw # "capacity"
    BY <1>6, <2>2, SeenSingly
  <2> QED BY <1>1, <1>6, <2>3 DEF O!Validates, Excluded
<1> QED BY <1>2, <1>3, <1>4, <1>5, <1>6

\* A reading that is compared with an earlier one.
LEMMA JudgedTogether ==
    ASSUME OType, reply.body = Tells(O!Entry.arg, Varied), reply.status = "200", reply.valid = (flaw # "shape"),
           O!Entry.do = "read", O!Entry.check \in {"same", "sameNotes"},
           O!Entry.arg \in {"state", "memory", "budget", "tools"},
           O!Entry.check = "sameNotes" => O!Entry.arg = "memory",
           mark = <<Tells(O!Entry.arg, O!Varied)>>
    PROVE  /\ O!Outcome \in {"go", "fail"}
           /\ flaw = "none" => O!Outcome = "go"
           /\ O!Outcome = "go" => flaw \notin Excluded(O!Entry)
<1>1. O!Outcome = IF O!Seen(O!Entry.check, reply.body) THEN "go" ELSE "fail"
  <2>1. ~O!Validates
    BY DEF O!Validates
  <2> QED BY <2>1, JudgedBy
<1>2. reads \in {0, 1}
  BY DEF OType
<1>3. flaw # "vary" => <<reply.body>> = mark
  BY DEF Varied, O!Varied
<1>4. flaw = "vary" => <<reply.body>> # mark
  <2>1. ASSUME flaw = "vary" PROVE reply.body # Tells(O!Entry.arg, O!Varied)
    <3>1. Varied # O!Varied /\ Varied \in {0, 1} /\ O!Varied \in {0, 1}
      BY <1>2, <2>1 DEF Varied, O!Varied
    <3> DEFINE v == Varied
               w == O!Varied
    <3>2. v # w /\ v \in {0, 1} /\ w \in {0, 1}
      BY <3>1
    <3>3. reply.body = Tells(O!Entry.arg, v)
      OBVIOUS
    <3> HIDE DEF v, w
    <3>4. CASE O!Entry.arg = "state"
      BY <3>2, <3>3, <3>4 DEF Tells, w
    <3>5. CASE O!Entry.arg = "memory"
      <4>1. Tells(O!Entry.arg, v) # Tells(O!Entry.arg, w)
        BY <2>1, <3>2, <3>5 DEF Tells
      <4> QED BY <3>3, <4>1 DEF w
    <3>6. CASE O!Entry.arg = "budget"
      <4> DEFINE a == Tells(O!Entry.arg, v)
                 b == Tells(O!Entry.arg, w)
      <4>1. a.rev = v /\ b.rev = w
        BY <3>6 DEF Tells
      <4>2. a # b
        BY <3>2, <4>1
      <4> QED BY <3>3, <4>2 DEF w
    <3>7. CASE O!Entry.arg = "tools"
      <4> DEFINE a == Tells(O!Entry.arg, v)
                 b == Tells(O!Entry.arg, w)
      <4>1. a.rev = v /\ b.rev = w
        BY <3>7 DEF Tells
      <4>2. a # b
        BY <3>2, <4>1
      <4> QED BY <3>3, <4>2 DEF w
    <3> QED BY <3>4, <3>5, <3>6, <3>7
  <2> QED BY <2>1
<1>5. CASE O!Entry.check = "same"
  <2>1. O!Seen(O!Entry.check, reply.body) <=> <<reply.body>> = mark
    BY <1>5, SeenSingly
  <2> QED BY <1>1, <1>3, <1>4, <1>5, <2>1 DEF Excluded
<1>6. CASE O!Entry.check = "sameNotes"
  <2>1. O!Seen(O!Entry.check, reply.body) <=> reply.body # <<>> /\ <<reply.body>> = mark
    BY <1>6, SeenSingly
  <2>2. reply.body = IF flaw = "empty" THEN <<>> ELSE IF Varied = 1 THEN <<2, 1>> ELSE <<1, 2>>
    BY <1>6 DEF Tells
  <2>3. reply.body # <<>> <=> flaw # "empty"
    BY <2>2
  <2> QED BY <1>1, <1>3, <1>4, <1>6, <2>1, <2>3 DEF Excluded
<1> QED BY <1>5, <1>6

\* The lists a decision leaves behind.
LEMMA EventsAre ==
    ASSUME used \in Nat, used > 0, due = 0
    PROVE  /\ O!Events = <<>> <=> flaw = "silent"
           /\ DOMAIN O!Events = IF flaw = "silent" THEN {} ELSE 1 .. 1 + used
           /\ Len(O!Events) = IF flaw = "silent" THEN 0 ELSE 1 + used
           /\ \A i \in DOMAIN O!Events :
                /\ O!Events[i].id = IF flaw = "twice" /\ i = 2 THEN 1 ELSE i
                /\ O!Events[i].seq = IF flaw = "stuck" /\ i = 2 THEN 1 ELSE i
                /\ O!Events[i].type = "other" <=> i # 1 /\ flaw = "foreign"
                /\ O!Events[i].tag <=> i > 1 /\ flaw # "eventTag"
<1> DEFINE n == IF flaw = "silent" THEN 0 ELSE 1 + used
           truth(i) == i > 1 /\ flaw # "eventTag"
           at(i) == [id   |-> IF flaw = "twice" /\ i = 2 THEN 1 ELSE i,
                     seq  |-> IF flaw = "stuck" /\ i = 2 THEN 1 ELSE i,
                     type |-> IF i = 1 THEN "SessionStart" ELSE IF flaw = "foreign" THEN "other" ELSE "PermissionDecision",
                     tag  |-> truth(i)]
<1>1. n \in Nat /\ O!Events = [i \in 1 .. n |-> at(i)]
  <2>1. O!Published = used
    BY DEF O!Published
  <2> QED BY <2>1 DEF O!Events
<1>2. ASSUME NEW i \in 1 .. n
      PROVE  /\ at(i).id = IF flaw = "twice" /\ i = 2 THEN 1 ELSE i
             /\ at(i).seq = IF flaw = "stuck" /\ i = 2 THEN 1 ELSE i
             /\ at(i).type = "other" <=> i # 1 /\ flaw = "foreign"
             /\ at(i).tag <=> truth(i)
  <2> DEFINE t == truth(i)
             c == IF i = 1 THEN "SessionStart" ELSE IF flaw = "foreign" THEN "other" ELSE "PermissionDecision"
  <2>1. t \in BOOLEAN
    OBVIOUS
  <2>2. c = "other" <=> i # 1 /\ flaw = "foreign"
    OBVIOUS
  <2> HIDE DEF truth, c
  <2>3. at(i).tag = t
    OBVIOUS
  <2>4. at(i).type = c
    BY DEF c
  <2> QED BY <2>2, <2>3, <2>4
<1> HIDE DEF at, n, O!Events
<1>3. DOMAIN O!Events = 1 .. n /\ Len(O!Events) = n
  BY <1>1
<1>4. O!Events = <<>> <=> n = 0
  BY <1>1, <1>3
<1>5. \A i \in DOMAIN O!Events : O!Events[i] = at(i)
  BY <1>1
<1> QED BY <1>2, <1>3, <1>4, <1>5 DEF n

\* The spans a read shows when everything is published.
LEMMA SpansAre ==
    ASSUME used \in Nat, used > 0, due = 0
    PROVE  /\ O!Spans # <<>> /\ DOMAIN O!Spans = 1 .. used
           /\ \A i \in DOMAIN O!Spans :
                /\ O!Spans[i].turn <=> flaw # "noTurn"
                /\ O!Spans[i].attrs <=> flaw # "noAttrs"
                /\ O!Spans[i].tag <=> flaw # "spanTag"
<1> DEFINE a == flaw # "noTurn"
           b == flaw # "noAttrs"
           c == flaw # "spanTag"
           e == [turn |-> a, attrs |-> b, tag |-> c]
<1>1. O!Published = used
  BY DEF O!Published
<1>2. O!Spans = [i \in 1 .. used |-> e]
  BY <1>1 DEF O!Spans
<1>3. a \in BOOLEAN /\ b \in BOOLEAN /\ c \in BOOLEAN
  OBVIOUS
<1> HIDE DEF a, b, c, O!Spans
<1>4. e.turn = a /\ e.attrs = b /\ e.tag = c
  BY <1>3
<1> HIDE DEF e
<1>5. DOMAIN O!Spans = 1 .. used /\ \A i \in DOMAIN O!Spans : O!Spans[i] = e
  BY <1>2
<1>6. O!Spans # <<>>
  BY <1>5
<1> QED BY <1>4, <1>5, <1>6 DEF a, b, c

\* The audit log a read shows.
LEMMA AuditIs ==
    ASSUME used \in Nat, used > 0
    PROVE  (\E i \in DOMAIN O!Body("audit") : O!Body("audit")[i].tag) <=> flaw # "auditTag"
<1> DEFINE a == flaw # "auditTag"
           e == [tag |-> a]
           b == O!Body("audit")
<1>1. b = [i \in 1 .. used |-> e]
  BY DEF O!Body
<1>2. a \in BOOLEAN
  OBVIOUS
<1> HIDE DEF a, b
<1>3. e.tag = a
  BY <1>2
<1> HIDE DEF e
<1>4. DOMAIN b = 1 .. used /\ \A i \in DOMAIN b : b[i] = e
  BY <1>1
<1>5. 1 \in DOMAIN b
  BY <1>4
<1>6. (\E i \in DOMAIN b : b[i].tag) <=> e.tag
  BY <1>4, <1>5
<1> QED BY <1>3, <1>6 DEF a, b

\* A reading after a decision.
LEMMA JudgedAfter ==
    ASSUME OType, reply.body = Tells(O!Entry.arg, Varied), reply.status = "200", reply.valid = (flaw # "shape"),
           O!Entry.do = "read", used > 0, due = 0,
           \/ O!Entry.arg = "events" /\ O!Entry.check \in {"types", "ascending", "unique", "tag"}
           \/ O!Entry.arg = "spans" /\ O!Entry.check \in {"turns", "tagged", "tag"}
           \/ O!Entry.arg = "audit" /\ O!Entry.check = "tag"
    PROVE  /\ O!Outcome \in {"go", "fail"}
           /\ flaw = "none" => O!Outcome = "go"
           /\ O!Outcome = "go" => flaw \notin Excluded(O!Entry)
<1>1. O!Outcome = IF O!Validates /\ flaw = "shape" THEN "fail"
                  ELSE IF O!Seen(O!Entry.check, reply.body) THEN "go" ELSE "fail"
  BY JudgedBy
<1>2. used \in Nat
  BY DEF OType
<1> DEFINE b == reply.body
<1>3. CASE O!Entry.arg = "events"
  <2>1. b = O!Events
    BY <1>3 DEF Tells, O!Body
  <2> HIDE DEF O!Events, b, O!Outcome
  <2>2. /\ b = <<>> <=> flaw = "silent"
        /\ DOMAIN b = IF flaw = "silent" THEN {} ELSE 1 .. 1 + used
        /\ Len(b) = IF flaw = "silent" THEN 0 ELSE 1 + used
        /\ \A i \in DOMAIN b :
                /\ b[i].id = IF flaw = "twice" /\ i = 2 THEN 1 ELSE i
                /\ b[i].seq = IF flaw = "stuck" /\ i = 2 THEN 1 ELSE i
                /\ b[i].type = "other" <=> i # 1 /\ flaw = "foreign"
                /\ b[i].tag <=> i > 1 /\ flaw # "eventTag"
    BY <1>2, <2>1, EventsAre
  <2>3. flaw # "silent" => 1 \in DOMAIN b /\ 2 \in DOMAIN b /\ Len(b) >= 2
    BY <1>2, <2>2
  <2>4. CASE O!Entry.check = "types"
    <3>1. O!Seen(O!Entry.check, b) <=> b # <<>> /\ \A i \in DOMAIN b : b[i].type # "other"
      BY <2>4, SeenInList
    <3>2. O!Seen(O!Entry.check, b) <=> flaw \notin {"silent", "foreign"}
      BY <2>2, <2>3, <3>1
    <3> QED BY <1>1, <2>4, <3>2 DEF O!Validates, Excluded, b
  <2>5. CASE O!Entry.check = "ascending"
    <3>1. O!Seen(O!Entry.check, b) <=> b # <<>> /\ \A i \in 2 .. Len(b) : b[i - 1].seq < b[i].seq
      BY <2>5, SeenInList
    <3>2. flaw = "stuck" => ~O!Seen(O!Entry.check, b)
      <4>1. flaw = "stuck" => b[1].seq = 1 /\ b[2].seq = 1 /\ 2 \in 2 .. Len(b) /\ 2 - 1 = 1
        BY <1>2, <2>2, <2>3
      <4> QED BY <3>1, <4>1
    <3>3. flaw = "none" => O!Seen(O!Entry.check, b)
      <4>1. ASSUME flaw = "none", NEW i \in 2 .. Len(b) PROVE b[i - 1].seq < b[i].seq
        <5>1. i \in DOMAIN b /\ i - 1 \in DOMAIN b
          BY <1>2, <2>2, <4>1
        <5>2. b[i].seq = i /\ b[i - 1].seq = i - 1
          BY <2>2, <4>1, <5>1
        <5> QED BY <1>2, <2>2, <4>1, <5>2
      <4> QED BY <2>2, <3>1, <4>1
    <3> QED BY <1>1, <2>5, <3>2, <3>3 DEF O!Validates, Excluded, b
  <2>6. CASE O!Entry.check = "unique"
    <3>1. O!Seen(O!Entry.check, b) <=> b # <<>> /\ \A i, j \in DOMAIN b : i # j => b[i].id # b[j].id
      BY <2>6, SeenInList
    <3>2. flaw = "twice" => ~O!Seen(O!Entry.check, b)
      <4>1. flaw = "twice" => b[1].id = 1 /\ b[2].id = 1 /\ 1 # 2
        BY <2>2, <2>3
      <4> QED BY <2>3, <3>1, <4>1
    <3>3. flaw = "none" => O!Seen(O!Entry.check, b)
      BY <2>2, <3>1
    <3> QED BY <1>1, <2>6, <3>2, <3>3 DEF O!Validates, Excluded, b
  <2>7. CASE O!Entry.check = "tag"
    <3>1. O!Seen(O!Entry.check, b) <=> \E i \in DOMAIN b : b[i].tag
      BY <2>7, SeenInList
    <3>2. flaw = "eventTag" => ~O!Seen(O!Entry.check, b)
      BY <2>2, <3>1
    <3>3. flaw = "none" => O!Seen(O!Entry.check, b)
      <4>1. flaw = "none" => b[2].tag
        BY <2>2, <2>3
      <4> QED BY <2>3, <3>1, <4>1
    <3> QED BY <1>1, <1>3, <2>7, <3>2, <3>3 DEF O!Validates, Excluded, b
  <2> QED BY <1>3, <2>4, <2>5, <2>6, <2>7
<1>4. CASE O!Entry.arg = "spans"
  <2>1. b = O!Spans
    BY <1>4 DEF Tells, O!Body
  <2> HIDE DEF O!Spans, b, O!Outcome
  <2>2. /\ b # <<>> /\ DOMAIN b = 1 .. used
        /\ \A i \in DOMAIN b :
             /\ b[i].turn <=> flaw # "noTurn"
             /\ b[i].attrs <=> flaw # "noAttrs"
             /\ b[i].tag <=> flaw # "spanTag"
    BY <1>2, <2>1, SpansAre
  <2>3. 1 \in DOMAIN b
    BY <1>2, <2>2
  <2>4. CASE O!Entry.check = "turns"
    <3>1. O!Seen(O!Entry.check, b) <=> b # <<>> /\ (\E i \in DOMAIN b : b[i].turn) /\ \A i \in DOMAIN b : b[i].turn => b[i].attrs
      BY <2>4, SeenInList
    <3>2. O!Seen(O!Entry.check, b) <=> flaw \notin {"noTurn", "noAttrs"}
      BY <2>2, <2>3, <3>1
    <3> QED BY <1>1, <2>4, <3>2 DEF O!Validates, Excluded, b
  <2>5. CASE O!Entry.check = "tagged"
    <3>1. O!Seen(O!Entry.check, b) <=> b # <<>> /\ \A i \in DOMAIN b : b[i].tag
      BY <2>5, SeenInList
    <3>2. O!Seen(O!Entry.check, b) <=> flaw # "spanTag"
      BY <2>2, <2>3, <3>1
    <3> QED BY <1>1, <2>5, <3>2 DEF O!Validates, Excluded, b
  <2>6. CASE O!Entry.check = "tag"
    <3>1. O!Seen(O!Entry.check, b) <=> \E i \in DOMAIN b : b[i].tag
      BY <2>6, SeenInList
    <3>2. O!Seen(O!Entry.check, b) <=> flaw # "spanTag"
      BY <2>2, <2>3, <3>1
    <3> QED BY <1>1, <1>4, <2>6, <3>2 DEF O!Validates, Excluded, b
  <2> QED BY <1>4, <2>4, <2>5, <2>6
<1>5. CASE O!Entry.arg = "audit"
  <2>1. b = O!Body("audit") /\ O!Entry.check = "tag"
    BY <1>5 DEF Tells
  <2>2. O!Seen(O!Entry.check, b) <=> \E i \in DOMAIN b : b[i].tag
    BY <2>1, SeenInList
  <2>3. O!Seen(O!Entry.check, b) <=> flaw # "auditTag"
    BY <1>2, <2>1, <2>2, AuditIs
  <2> QED BY <1>1, <1>5, <2>1, <2>3 DEF O!Validates, Excluded
<1> QED BY <1>3, <1>4, <1>5

\* What a reading of 200 leads to: to nothing that tells against a Runner without a
\* flaw, and to no going on with a flaw the reading is there to find.
LEMMA ReadingJudged ==
    ASSUME OType, Observed, test # "SESS03", net = "served", O!Entry.do = "read", reply.status = "200"
    PROVE  /\ O!Outcome \in {"go", "fail"}
           /\ flaw = "none" => O!Outcome = "go" \/ (test = "BUD01" /\ used > 0)
           /\ O!Outcome = "go" => flaw \notin Excluded(O!Entry)
<1>1. AtReading
  BY ReadingIs DEF OType
<1>2. /\ reply.body = Tells(O!Entry.arg, Varied) /\ reply.valid = (flaw # "shape")
      /\ test \in Deciders => used > 0
  BY DEF Observed, Answered
<1>3. Quiet /\ verdict = "none"
  BY DEF Observed, OType
<1>4. test \in Deciders => due = 0
  BY <1>3 DEF OType, Quiet, Deciders, O!SharedTests
<1>5. /\ test \in {"SESSSTATE01", "MEMSTATE02", "PROJ02", "REGOBS02"} /\ step = 3 => mark = <<Tells(O!Entry.arg, O!Varied)>>
      /\ test = "MEM02" /\ step = 4 => mark = <<Tells("memory", O!Varied)>>
  BY <1>3 DEF Observed, Marked
<1> USE DEF O!Read
<1>6. CASE O!Entry.check \in {"shape", "note", "keep", "notes", "fresh", "fields", "capacity"}
  <2>1. /\ O!Entry.check = "notes" => O!Entry.arg = "memory"
        /\ O!Entry.check = "fresh" => O!Entry.arg = "budget" /\ test = "BUD01"
        /\ O!Entry.check = "fields" => O!Entry.arg = "tools"
        /\ O!Entry.check = "capacity" => O!Entry.arg = "pressure"
    BY <1>1 DEF AtReading, Reads
  <2>2. O!Entry.check # "observe"
    BY <1>6
  <2> QED BY <1>2, <1>3, <1>6, <2>1, JudgedAlone
<1>7. CASE O!Entry.check \in {"same", "sameNotes"}
  <2>1. /\ O!Entry.arg \in {"state", "memory", "budget", "tools"}
        /\ O!Entry.check = "sameNotes" => O!Entry.arg = "memory"
        /\ \/ test \in {"SESSSTATE01", "MEMSTATE02", "PROJ02", "REGOBS02"} /\ step = 3
           \/ test = "MEM02" /\ step = 4 /\ O!Entry.arg = "memory"
    BY <1>1, <1>7 DEF AtReading, Reads
  <2>2. mark = <<Tells(O!Entry.arg, O!Varied)>>
    BY <1>5, <2>1
  <2> QED BY <1>2, <1>7, <2>1, <2>2, JudgedTogether
<1>8. CASE O!Entry.check \in {"types", "ascending", "unique", "turns", "tagged", "tag"}
  <2>1. /\ test \in Deciders
        /\ \/ O!Entry.arg = "events" /\ O!Entry.check \in {"types", "ascending", "unique", "tag"}
           \/ O!Entry.arg = "spans" /\ O!Entry.check \in {"turns", "tagged", "tag"}
           \/ O!Entry.arg = "audit" /\ O!Entry.check = "tag"
    BY <1>1, <1>8 DEF AtReading, Reads, Deciders
  <2> QED BY <1>2, <1>4, <2>1, JudgedAfter
<1>9. O!Entry.check \in {"shape", "note", "keep", "notes", "fresh", "fields", "capacity", "same", "sameNotes",
                         "types", "ascending", "unique", "turns", "tagged", "tag"}
  BY <1>1 DEF AtReading, Reads
<1> HIDE DEF O!Read
<1> QED BY <1>6, <1>7, <1>8, <1>9

\* What the readings of a test rule out together is what the test covers.
LEMMA AllExcluded ==
    ASSUME OType, Observed, test # "SESS03", O!Entry.do = "read", step = Len(O!Script), flaw \notin Excluded(O!Entry)
    PROVE  flaw \notin O!Covered(test)
<1>1. AtReading
  BY ReadingIs DEF OType
<1>2. /\ step = 3 /\ test \in {"SESSSTATE01", "PROJ02", "REGOBS02"} => flaw # "shape"
      /\ test = "BUD05" /\ step > 4 => flaw # "spanTag"
      /\ test = "BUD05" /\ step > 5 => flaw # "auditTag"
  BY DEF Observed, Marked, Decided
<1>3. /\ test \in {"SESSSTATE01", "MEMSTATE02", "PROJ02", "REGOBS02"} => step = 3
      /\ test = "MEM02" => step = 4
      /\ test = "BUD05" => step = 6
  BY ObserveLengths
<1>4. CASE test \in {"SESS01", "MEMSTATE01", "MEM01", "PROJ01", "BUD01", "REG", "STR08", "STROBS01"}
  BY <1>1, <1>4 DEF AtReading, Reads, O!Read, Excluded, O!Covered
<1>5. CASE test \in {"SESSSTATE01", "MEMSTATE02", "PROJ02", "REGOBS02", "MEM02"}
  <2>1. O!Entry.check = IF test = "MEM02" THEN "sameNotes" ELSE "same"
    BY <1>1, <1>3, <1>5 DEF AtReading, Reads, O!Read
  <2>2. flaw \notin IF test = "MEM02" THEN {"empty", "vary"} ELSE {"vary"}
    BY <1>5, <2>1 DEF Excluded
  <2> QED BY <1>2, <1>3, <1>5, <2>2 DEF O!Covered
<1>6. CASE test \in Deciders
  <2>1. step = 6 => step > 4 /\ step > 5
    OBVIOUS
  <2> QED BY <1>1, <1>2, <1>3, <1>6, <2>1 DEF AtReading, Reads, O!Read, Excluded, O!Covered, Deciders
<1> QED BY <1>4, <1>5, <1>6 DEF OType, O!Tests, O!OwnTests, O!SharedTests, Deciders

-----------------------------------------------------------------------------
\* What any step of a script may be.
LEMMA EntryAny ==
    ASSUME Drives \in Nat, OType
    PROVE  /\ O!Entry.do \in {"mint", "shared", "decide", "pause", "read"}
           /\ O!Entry.do \in {"shared", "pause"} => test \in O!SharedTests /\ step < Len(O!Script)
           /\ O!Entry.do = "mint" => test \in O!OwnTests
           /\ O!Entry.do = "decide" => O!Entry.bad \in {"go", "skip"}
           /\ O!Entry.do = "read" => /\ O!Entry.on.lost \in {"error", "fail", "skip"}
                                     /\ O!Entry.on.absent \in {"fail", "skip"}
                                     /\ O!Entry.on.refused \in {"fail", "skip", "go"}
<1>1. test \in O!Tests /\ step \in Steps
  BY DEF OType
<1>2. CASE test # "SESS03"
  <2>1. O!Entry = O!Script[step]
    BY DEF O!Entry
  <2>2. O!Entry.do = "pause" => test \in O!SharedTests
    BY <1>1, <1>2, <2>1, Doing DEF Deciders, O!SharedTests
  <2>3. O!Entry.do = "read" => /\ O!Entry.on.lost \in {"error", "fail", "skip"}
                               /\ O!Entry.on.absent \in {"fail", "skip"}
                               /\ O!Entry.on.refused \in {"fail", "skip", "go"}
    <3>1. O!Entry.do = "read" => O!Entry.on \in {O!Usual, O!Blind, O!Strict, O!Lenient}
      BY <1>1, <1>2, ReadingIs DEF AtReading, Reads, O!Read
    <3> QED BY <3>1 DEF O!Usual, O!Blind, O!Strict, O!Lenient
  <2> QED BY <1>1, <1>2, <2>1, <2>2, <2>3, Doing
<1>3. CASE test = "SESS03"
  <2>1. O!Entry \in {O!Own, O!Read("state", "any", O!Reach), O!Decide("skip"), O!Read("state", "observe", O!Lenient)}
    BY <1>1, <1>3, SeriesScript DEF O!Entry
  <2> QED BY <1>3, <2>1 DEF O!Own, O!Read, O!Decide, O!Reach, O!Lenient, O!OwnTests
<1> QED BY <1>2, <1>3

\* A script has at least two steps, and counts them.
LEMMA ScriptsCount ==
    ASSUME Drives \in Nat, test \in O!Tests
    PROVE  Len(O!Script) \in Nat /\ Len(O!Script) >= 2
<1>1. CASE test = "SESS03"
  <2>1. Len(O!Script) = 2 + 2 * Drives
    BY <1>1, SeriesScript
  <2> HIDE DEF O!Script
  <2> QED BY <2>1
<1>2. CASE test # "SESS03"
  <2>1. Len(O!Script) \in {2, 3, 4, 6}
    BY <1>2, ObserveLengths DEF O!Tests, O!OwnTests, O!SharedTests
  <2> QED BY <2>1
<1> QED BY <1>1, <1>2

\* So there is a first step.
LEMMA FirstStep == Drives \in Nat /\ test \in O!Tests => 1 \in Steps
<1> DEFINE n == Len(O!Script)
<1>1. Drives \in Nat /\ test \in O!Tests => n \in Nat /\ n >= 2
  BY ScriptsCount
<1> HIDE DEF n
<1>2. Drives \in Nat /\ test \in O!Tests => 1 \in 1 .. n
  BY <1>1
<1> QED BY <1>2 DEF n, Steps

\* Only another test has another script.
LEMMA SameScript ==
    ASSUME test' = test
    PROVE  O!Script' = O!Script /\ Steps' = Steps /\ O!Covered(test)' = O!Covered(test)
<1>1. O!Script' = O!Script
  BY DEF O!Script
<1> QED BY <1>1 DEF Steps, O!Covered

\* A step that is not the last has a next one.
LEMMA NextStep ==
    ASSUME Drives \in Nat, OType, step < Len(O!Script)
    PROVE  step + 1 \in Steps /\ step \in Nat
<1> DEFINE n == Len(O!Script)
<1>1. n \in Nat /\ step \in 1 .. n /\ step < n
  BY ScriptsCount DEF OType, Steps
<1> HIDE DEF n
<1>2. step + 1 \in 1 .. n
  BY <1>1
<1> QED BY <1>1, <1>2 DEF n, Steps

\* A step that has no next one is the last.
LEMMA LastStep ==
    ASSUME Drives \in Nat, OType, ~(step < Len(O!Script))
    PROVE  step = Len(O!Script)
<1> DEFINE n == Len(O!Script)
<1>1. n \in Nat /\ step \in 1 .. n /\ ~(step < n)
  BY ScriptsCount DEF OType, Steps
<1> HIDE DEF n
<1>2. step = n
  BY <1>1
<1> QED BY <1>2 DEF n

\* What an answer leads to.
LEMMA OutcomeIs ==
    ASSUME Drives \in Nat, OType, net = "served"
    PROVE  O!Outcome \in {"go", "skip", "fail", "error"}
<1>1. O!Entry.do \in {"mint", "shared", "decide", "read"}
  BY EntryAny DEF OType
<1>2. CASE O!Entry.do = "read"
  <2>1. /\ O!Entry.on.absent \in {"fail", "skip"} /\ O!Entry.on.refused \in {"fail", "skip", "go"}
    BY <1>2, EntryAny
  <2>2. O!Outcome = O!JudgeRead
    BY <1>2 DEF O!Outcome
  <2>3. O!JudgeRead \in {"go", "skip", "fail"}
    <3>1. O!JudgeSeries(Append(got, reply.body[1])) \in {"go", "skip", "fail"}
      BY DEF O!JudgeSeries
    <3> DEFINE judged == O!JudgeSeries(Append(got, reply.body[1]))
    <3> HIDE DEF judged
    <3>2. judged \in {"go", "skip", "fail"}
      BY <3>1 DEF judged
    <3> QED BY <2>1, <3>2 DEF O!JudgeRead, judged
  <2> QED BY <2>2, <2>3
<1>3. CASE O!Entry.do # "read"
  BY <1>1, <1>3, EntryAny DEF O!Outcome
<1> QED BY <1>2, <1>3

\* An answer is taken: the handler goes on, passes the Runner, or has another verdict.
LEMMA TakenReply ==
    ASSUME Drives \in Nat, OType, O!Take
    PROVE  /\ net = "served" /\ net' = "idle" /\ verdict = "none"
           /\ UNCHANGED <<test, flaw, deploy, left, lost, busy, known, used, due, effects, now, reads, late>>
           /\ \/ O!Outcome = "go" /\ step < Len(O!Script) /\ step' = step + 1 /\ verdict' = "none"
              \/ O!Outcome = "go" /\ step = Len(O!Script) /\ step' = step /\ verdict' = "pass"
              \/ O!Outcome # "go" /\ step' = step /\ verdict' = O!Outcome
           /\ cache' = (cache \/ (O!Entry.do = "shared" /\ reply.status = "201"))
<1>1. /\ net = "served" /\ net' = "idle" /\ O!Advance(O!Outcome)
      /\ UNCHANGED <<test, flaw, deploy, left, lost, busy, known, used, due, effects, now, reads, late>>
      /\ cache' = (cache \/ (O!Entry.do = "shared" /\ reply.status = "201"))
  BY DEF O!Take, O!call, O!session
<1>2. verdict = "none"
  BY <1>1 DEF OType
<1>3. ~(step < Len(O!Script)) => step = Len(O!Script)
  BY LastStep
<1> DEFINE out == O!Outcome
<1> HIDE DEF out
<1>4. O!Advance(out)
  BY <1>1 DEF out
<1>5. \/ out = "go" /\ step < Len(O!Script) /\ step' = step + 1 /\ verdict' = "none"
      \/ out = "go" /\ step = Len(O!Script) /\ step' = step /\ verdict' = "pass"
      \/ out # "go" /\ step' = step /\ verdict' = out
  BY <1>2, <1>3, <1>4 DEF O!Advance
<1> QED BY <1>1, <1>2, <1>5 DEF out

\* Every step keeps the types.
LEMMA ObserveTyped ==
    ASSUME Drives \in Nat, OType, O!Next
    PROVE  OType'
<1> DEFINE Rest == /\ deploy' = deploy /\ flaw' = flaw
                   /\ lost' \in Nat /\ left' \in Nat
                   /\ cache' \in BOOLEAN /\ known' \in BOOLEAN /\ late' \in BOOLEAN
                   /\ used' \in Nat /\ due' \in Nat /\ due' <= used' /\ reads' \in {0, 1}
           Place == /\ step' \in Steps /\ verdict' \in {"none", "pass", "fail", "error", "skip"}
                    /\ net' \in {"idle", "sent", "served"}
                    /\ net' # "idle" => verdict' = "none" /\ step' = step /\ O!Entry.do # "pause"
                    /\ test \in O!OwnTests => left' = 0 /\ ~cache'
<1> USE DEF O!call, O!session
<1>1. ASSUME test' = test, Rest, Place PROVE OType'
  <2>1. O!Script' = O!Script /\ Steps' = Steps
    BY <1>1, SameScript
  <2>2. step' = step => O!Entry' = O!Entry
    BY <2>1 DEF O!Entry
  <2> QED BY <1>1, <2>1, <2>2 DEF OType
<1>2. /\ step \in Steps /\ verdict \in {"none", "pass", "fail", "error", "skip"}
      /\ net \in {"idle", "sent", "served"} /\ (net # "idle" => verdict = "none" /\ O!Entry.do # "pause")
      /\ test \in O!OwnTests => left = 0 /\ ~cache
      /\ lost \in Nat /\ left \in Nat /\ cache \in BOOLEAN /\ known \in BOOLEAN /\ late \in BOOLEAN
      /\ used \in Nat /\ due \in Nat /\ due <= used /\ reads \in {0, 1}
  BY DEF OType
<1>3. CASE O!Reuse
  <2>1. test \in O!SharedTests /\ step < Len(O!Script) /\ test \notin O!OwnTests
    BY <1>3, EntryAny DEF O!Reuse, O!SharedTests, O!OwnTests
  <2>2. step + 1 \in Steps
    BY <2>1, NextStep
  <2> QED BY <1>1, <1>2, <1>3, <2>1, <2>2 DEF O!Reuse
<1>4. CASE O!Wake
  <2>1. test \in O!SharedTests /\ step < Len(O!Script) /\ test \notin O!OwnTests
    BY <1>4, EntryAny DEF O!Wake, O!SharedTests, O!OwnTests
  <2>2. step + 1 \in Steps
    BY <2>1, NextStep
  <2> QED BY <1>1, <1>2, <1>4, <2>1, <2>2 DEF O!Wake
<1>5. CASE O!Send
  BY <1>1, <1>2, <1>5 DEF O!Send
<1>6. CASE O!Take
  <2>1. O!Outcome \in {"go", "skip", "fail", "error"}
    BY <1>6, OutcomeIs DEF O!Take
  <2>2. step < Len(O!Script) => step + 1 \in Steps
    BY NextStep
  <2>3. O!Entry.do = "shared" => test \notin O!OwnTests
    BY EntryAny DEF O!SharedTests, O!OwnTests
  <2> HIDE DEF O!Outcome
  <2> QED BY <1>1, <1>2, <1>6, <2>1, <2>2, <2>3, TakenReply
<1>7. CASE O!Lose
  <2> DEFINE out == CASE O!Entry.do = "read" -> O!Entry.on.lost [] O!Entry.do = "decide" -> O!Entry.bad [] OTHER -> "skip"
  <2>1. out \in {"go", "skip", "fail", "error"}
    BY EntryAny
  <2>2. step < Len(O!Script) => step + 1 \in Steps
    BY NextStep
  <2>3. O!Advance(out) /\ net' = "idle" /\ lost' = lost + 1
        /\ UNCHANGED <<test, flaw, deploy, left, busy, cache, known, used, due, effects, now, reads, late>>
    BY <1>7 DEF O!Lose
  <2> HIDE DEF out
  <2>4. step' \in Steps /\ verdict' \in {"none", "pass", "fail", "error", "skip"}
    BY <1>2, <2>1, <2>2, <2>3 DEF O!Advance
  <2> QED BY <1>1, <1>2, <2>3, <2>4
<1>8. CASE O!NextTest
  <2>1. /\ test \notin O!OwnTests /\ left # 0 /\ test' \in O!SharedTests /\ step' = 1 /\ verdict' = "none"
        /\ net = "idle" /\ left' = left - 1
        /\ UNCHANGED <<flaw, deploy, net, lost, cache, known, used, due, reads, late>>
    BY <1>2, <1>8 DEF O!NextTest, O!Ended
  <2>2. test' \in O!Tests /\ test' \notin O!OwnTests /\ flaw # "patchy"
    BY <2>1 DEF OType, O!Tests, O!SharedTests, O!OwnTests
  <2>3. 1 \in Steps'
    <3>1. (Drives \in Nat /\ test \in O!Tests => 1 \in Steps)'
      BY FirstStep, PTL
    <3> QED BY <2>2, <3>1
  <2> QED BY <1>2, <2>1, <2>2, <2>3 DEF OType
<1>9. CASE O!ServeRead
  BY <1>1, <1>2, <1>9 DEF O!ServeRead
<1>10. CASE O!ServeMint
  <2>1. UNCHANGED <<test, flaw, deploy, left, step, verdict, lost, cache, reads, late>> /\ net = "sent" /\ net' = "served"
    BY <1>10 DEF O!ServeMint
  <2>2. known' \in BOOLEAN /\ used' \in Nat /\ due' \in Nat /\ due' <= used'
    <3>1. (known' = TRUE /\ used' = 0 /\ due' = 0) \/ UNCHANGED <<known, used, due>>
      BY <1>10 DEF O!ServeMint
    <3>2. used' \in Nat /\ due' \in Nat /\ due' <= used'
      BY <1>2, <3>1
    <3>3. known \in BOOLEAN /\ (known' = TRUE \/ known' = known)
      BY <1>2, <3>1
    <3>4. known' \in BOOLEAN
      BY <3>3, Zenon
    <3> QED BY <3>2, <3>4
  <2> QED BY <1>1, <1>2, <2>1, <2>2
<1>11. CASE O!ServeDecide
  <2>1. UNCHANGED <<test, flaw, deploy, left, step, verdict, lost, cache, reads, late, known>> /\ net = "sent" /\ net' = "served"
    BY <1>11 DEF O!ServeDecide
  <2>2. used' \in Nat /\ due' \in Nat /\ due' <= used'
    BY <1>2, <1>11 DEF O!ServeDecide
  <2> QED BY <1>1, <1>2, <2>1, <2>2
<1>12. CASE O!Publish
  BY <1>1, <1>2, <1>12 DEF O!Publish
<1>13. CASE O!Forget
  BY <1>1, <1>2, <1>13 DEF O!Forget
<1>14. CASE \E k \in DOMAIN effects : O!Progress(k)
  BY <1>1, <1>2, <1>14 DEF O!Progress
<1> QED BY <1>3, <1>4, <1>5, <1>6, <1>7, <1>8, <1>9, <1>10, <1>11, <1>12, <1>13, <1>14
        DEF O!Next, O!Handler, O!Runner, O!Others

-----------------------------------------------------------------------------
\* What can be asked for.
Asks == {"state", "memory", "budget", "tools", "events", "spans", "audit", "pressure"}

\* What a read is told changes with the session and the Runner, not with the reads.
LEMMA TellsSame ==
    ASSUME flaw # "patchy", UNCHANGED <<flaw, deploy, effects, used, due>>
    PROVE  \A e \in Asks : \A v : Tells(e, v)' = Tells(e, v)
<1> TAKE e \in Asks
<1> TAKE v
<1>1. O!Published' = O!Published
  BY DEF O!Published
<1>2. CASE e = "state"
  <2>1. O!Effects' = O!Effects
    BY DEF O!Effects, O!Printed
  <2> QED BY <1>2, <2>1 DEF Tells
<1>3. CASE e = "memory"
  BY <1>3 DEF Tells
<1>4. CASE e = "budget"
  BY <1>1, <1>4 DEF Tells
<1>5. CASE e = "tools"
  BY <1>5 DEF Tells
<1>6. CASE e = "events"
  <2>1. O!Events' = O!Events
    BY <1>1 DEF O!Events
  <2> QED BY <1>6, <2>1 DEF Tells, O!Body
<1>7. CASE e = "spans"
  <2>1. O!Spans' = O!Spans
    BY <1>1 DEF O!Spans
  <2> QED BY <1>7, <2>1 DEF Tells, O!Body
<1>8. CASE e = "audit"
  BY <1>8 DEF Tells, O!Body
<1>9. CASE e = "pressure"
  BY <1>9 DEF Tells, O!Body
<1> QED BY <1>2, <1>3, <1>4, <1>5, <1>6, <1>7, <1>8, <1>9 DEF Asks

\* The memory is no part of the session the tests share.
LEMMA MemorySame ==
    ASSUME flaw' = flaw
    PROVE  \A v : Tells("memory", v)' = Tells("memory", v)
BY DEF Tells

\* What the Runner puts into an answer is what a read is told.
LEMMA BodyTold == \A e \in Asks : O!Body(e) = Tells(e, O!Varied)
BY DEF Tells, O!Body, Asks

\* What the handlers ask for.
LEMMA AsksOnly ==
    ASSUME test # "SESS03", OType, O!Entry.do = "read"
    PROVE  O!Entry.arg \in Asks
BY ReadingIs DEF OType, AtReading, Reads, O!Read, Asks

\* What the tests but SV-SESS-03 do next.
Does ==
    /\ O!Entry.do \in {"mint", "shared", "decide", "pause", "read"}
    /\ O!Entry.do \in {"mint", "shared"} <=> step = 1 \/ (test = "MEM02" /\ step = 3)
    /\ O!Entry.do = "mint" => test \in O!OwnTests
    /\ O!Entry.do = "shared" => test \in O!SharedTests
    /\ O!Entry.do = "decide" <=> test \in Deciders /\ step = 2
    /\ O!Entry.do = "decide" => O!Entry.bad = "go"
    /\ O!Entry.do = "pause" <=> test \in Deciders /\ step = 3
    /\ O!Entry.do # "read" => step < Len(O!Script)

\* They do it in every state, and in the next one.
LEMMA DoingNow == test # "SESS03" /\ OType => Does
BY Doing DEF OType, O!Entry, Does

\* The same of the next state.
LEMMA DoingThen == (test # "SESS03" /\ OType => Does)'
BY DoingNow, PTL

\* The two ways to be in the middle of a comparison.
Comparing == step = 3 /\ test \in {"SESSSTATE01", "MEMSTATE02", "PROJ02", "REGOBS02"}
Rereading == step \in {3, 4} /\ test = "MEM02"

\* A request is sent.
LEMMA ObservedSend ==
    ASSUME OType, Observed, test # "SESS03", flaw # "patchy", O!Send
    PROVE  Observed'
<1>1. /\ UNCHANGED <<test, flaw, deploy, step, verdict, reply, mark, known, used, due, effects, reads>>
      /\ net = "idle" /\ net' = "sent" /\ verdict = "none" /\ O!Entry.do # "pause"
  BY DEF O!Send, O!call, O!session
<1>2. O!Entry' = O!Entry /\ O!Covered(test)' = O!Covered(test)
  BY <1>1, SameScript DEF O!Entry
<1>3. Quiet'
  BY <1>1, <1>2 DEF Observed, Quiet
<1>4. Answered'
  BY <1>1 DEF Answered
<1>5. Marked'
  <2>1. Varied' = Varied
    BY <1>1 DEF Varied
  <2>2. Comparing => O!Entry.do = "read"
    BY DoingNow DEF Does, Comparing, Deciders
  <2>3. Comparing => /\ deploy.shipped /\ mark = <<Tells(O!Entry.arg, Varied)>>
    BY <1>1 DEF Observed, Marked, Comparing
  <2>4. Comparing => Tells(O!Entry.arg, Varied)' = Tells(O!Entry.arg, Varied)
    BY <1>1, <1>2, <2>1, <2>2, AsksOnly, TellsSame
  <2>5. Tells("memory", Varied)' = Tells("memory", Varied)
    BY <1>1, <2>1, MemorySame
  <2> QED BY <1>1, <1>2, <2>3, <2>4, <2>5 DEF Observed, Marked, Comparing
<1>6. Decided' /\ OEarned' /\ OKept'
  BY <1>1, <1>2 DEF Observed, Decided, OEarned, OKept
<1> QED BY <1>3, <1>4, <1>5, <1>6 DEF Observed

\* A read is answered: from then on the last answer is this one.
LEMMA ObservedRead ==
    ASSUME OType, Observed, test # "SESS03", flaw # "patchy", O!ServeRead
    PROVE  Observed'
<1>1. /\ UNCHANGED <<test, flaw, deploy, step, verdict, mark, known, used, due, effects>>
      /\ net = "sent" /\ net' = "served" /\ O!Entry.do = "read" /\ verdict = "none"
  BY DEF O!ServeRead, O!call, O!session, OType
<1>2. O!Entry' = O!Entry /\ O!Covered(test)' = O!Covered(test)
  BY <1>1, SameScript DEF O!Entry
<1>3. Varied' = O!Varied /\ O!Varied' = Varied
  <2>1. reads' = IF flaw = "vary" THEN 1 - reads ELSE reads
    BY DEF O!ServeRead
  <2>2. reads \in {0, 1}
    BY DEF OType
  <2> QED BY <1>1, <2>1, <2>2 DEF Varied, O!Varied
<1>4. O!Entry.arg \in Asks
  BY <1>1, AsksOnly
<1>5. \A v : Tells(O!Entry.arg, v)' = Tells(O!Entry.arg, v)
  <2> DEFINE e == O!Entry.arg
  <2>1. e' = e /\ e \in Asks
    BY <1>2, <1>4
  <2> QED BY <1>1, <2>1, TellsSame
<1>6. Quiet'
  BY <1>1, <1>2 DEF Observed, Quiet
<1>7. Answered'
  <2>1. \/ reply'.status = "404" /\ ~deploy.shipped
        \/ reply'.status = "401" /\ ~known
        \/ /\ reply'.status = "200" /\ deploy.shipped /\ known
           /\ reply'.valid = (flaw # "shape") /\ reply'.body = O!Body(O!Entry.arg)
    BY DEF O!ServeRead
  <2>2. O!Body(O!Entry.arg) = Tells(O!Entry.arg, O!Varied)
    BY <1>4, BodyTold
  <2>3. Tells(O!Entry.arg, Varied)' = Tells(O!Entry.arg, O!Varied)
    BY <1>2, <1>3, <1>5
  <2>4. test \in Deciders => step > 2
    <3>1. test \in Deciders => step \in 1 .. 6 /\ step \notin {1, 2, 3}
      BY <1>1, DoingNow, ObserveLengths, StepsAre DEF Does, Deciders, OType
    <3> QED BY <3>1
  <2>5. test \in Deciders /\ known => used > 0
    BY <2>4 DEF Observed, Decided
  <2> QED BY <1>1, <1>2, <2>1, <2>2, <2>3, <2>5 DEF Answered
<1>8. Marked'
  <2>1. Comparing => deploy.shipped /\ mark = <<Tells(O!Entry.arg, Varied)>>
    BY <1>1 DEF Observed, Marked, Comparing
  <2>2. Tells(O!Entry.arg, O!Varied)' = Tells(O!Entry.arg, Varied)
    BY <1>2, <1>3, <1>5
  <2>3. Rereading => step = 4 /\ mark = <<Tells("memory", Varied)>>
    BY <1>1, DoingNow DEF Does, Observed, Marked, Rereading
  <2>4. Tells("memory", O!Varied)' = Tells("memory", Varied)
    BY <1>1, <1>3, MemorySame
  <2> QED BY <1>1, <1>2, <2>1, <2>2, <2>3, <2>4 DEF Observed, Marked, Comparing, Rereading
<1>9. Decided' /\ OEarned' /\ OKept'
  BY <1>1, <1>2 DEF Observed, Decided, OEarned, OKept
<1> QED BY <1>6, <1>7, <1>8, <1>9 DEF Observed

\* A session is asked for, and given or refused.
LEMMA ObservedMint ==
    ASSUME OType, Observed, test # "SESS03", flaw # "patchy", O!ServeMint
    PROVE  Observed'
<1>1. /\ UNCHANGED <<test, flaw, deploy, step, verdict, mark, reads>>
      /\ net = "sent" /\ net' = "served" /\ O!Entry.do \in {"mint", "shared"} /\ verdict = "none"
      /\ reply'.status \in {"201", "429"}
      /\ due' = 0 \/ due' = due
  BY DEF O!ServeMint, O!call, O!session, OType
<1>2. O!Entry' = O!Entry /\ O!Covered(test)' = O!Covered(test)
  BY <1>1, SameScript DEF O!Entry
<1>3. step = 1 \/ (test = "MEM02" /\ step = 3)
  BY <1>1, DoingNow DEF Does
<1>4. Quiet'
  <2>1. test \in O!SharedTests => due = 0
    BY <1>1 DEF Observed, Quiet, OType
  <2> QED BY <1>1, <1>2, <2>1 DEF Quiet
<1>5. Answered'
  BY <1>1, <1>2 DEF Answered
<1>6. Marked'
  <2>1. Varied' = Varied
    BY <1>1 DEF Varied
  <2>2. Rereading => step = 3 /\ mark = <<Tells("memory", Varied)>>
    BY <1>1, <1>3 DEF Observed, Marked, Rereading
  <2>3. Tells("memory", Varied)' = Tells("memory", Varied)
    BY <1>1, <2>1, MemorySame
  <2> QED BY <1>1, <1>2, <1>3, <2>2, <2>3 DEF Observed, Marked, Rereading
<1>7. Decided' /\ OEarned' /\ OKept'
  BY <1>1, <1>2, <1>3 DEF Observed, Decided, OEarned, OKept, Deciders
<1> QED BY <1>4, <1>5, <1>6, <1>7 DEF Observed

\* A decision is taken.
LEMMA ObservedDecide ==
    ASSUME OType, Observed, test # "SESS03", flaw # "patchy", O!ServeDecide
    PROVE  Observed'
<1>1. /\ UNCHANGED <<test, flaw, deploy, step, verdict, mark, known, reads>>
      /\ net = "sent" /\ net' = "served" /\ O!Entry.do = "decide" /\ verdict = "none"
      /\ \/ reply'.status = "401" /\ ~known
         \/ reply'.status = "201" /\ used' = used + 1
  BY DEF O!ServeDecide, O!call, O!session, OType
<1>2. O!Entry' = O!Entry /\ O!Covered(test)' = O!Covered(test)
  BY <1>1, SameScript DEF O!Entry
<1>3. test \in Deciders /\ step = 2
  BY <1>1, DoingNow DEF Does
<1>4. Quiet'
  BY <1>1, <1>2 DEF Quiet
<1>5. Answered'
  <2>1. used' = used + 1 => used' > 0
    BY DEF OType
  <2> QED BY <1>1, <1>2, <2>1 DEF Answered
<1>6. Marked' /\ Decided' /\ OEarned' /\ OKept'
  BY <1>1, <1>2, <1>3 DEF Observed, Marked, Decided, OEarned, OKept
<1> QED BY <1>4, <1>5, <1>6 DEF Observed

\* What was decided is published.
LEMMA ObservedPublish ==
    ASSUME OType, Observed, test # "SESS03", flaw # "patchy", O!Publish
    PROVE  Observed'
<1>1. /\ UNCHANGED <<test, flaw, deploy, step, verdict, net, reply, mark, known, used, reads>>
      /\ due > 0 /\ due' = 0 /\ test \in O!SharedTests
  BY DEF O!Publish, O!call
<1>2. O!Entry' = O!Entry /\ O!Covered(test)' = O!Covered(test)
  BY <1>1, SameScript DEF O!Entry
<1>3. O!Entry.do \in {"pause", "decide"} /\ verdict = "none" /\ test \in Deciders /\ step \in {2, 3}
  BY <1>1, DoingNow DEF Does, Observed, Quiet
<1>4. Quiet' /\ Answered'
  BY <1>1, <1>2, <1>3 DEF Observed, Quiet, Answered
<1>5. Marked' /\ Decided' /\ OEarned' /\ OKept'
  BY <1>1, <1>2, <1>3 DEF Observed, Marked, Decided, OEarned, OKept, Deciders
<1> QED BY <1>4, <1>5 DEF Observed

\* The session is forgotten.
LEMMA ObservedForget ==
    ASSUME OType, Observed, test # "SESS03", flaw # "patchy", O!Forget
    PROVE  Observed'
<1>1. /\ UNCHANGED <<test, flaw, deploy, step, verdict, net, reply, mark, used, due, effects, reads>>
      /\ known' = FALSE
  BY DEF O!Forget, O!call
<1>2. O!Entry' = O!Entry /\ O!Covered(test)' = O!Covered(test)
  BY <1>1, SameScript DEF O!Entry
<1>3. Varied' = Varied /\ O!Varied' = O!Varied
  BY <1>1 DEF Varied, O!Varied
<1>4. Quiet' /\ Decided' /\ OEarned' /\ OKept'
  BY <1>1, <1>2 DEF Observed, Quiet, Decided, OEarned, OKept
<1>5. Answered'
  <2>1. O!Entry.do = "read" => Tells(O!Entry.arg, Varied)' = Tells(O!Entry.arg, Varied)
    BY <1>1, <1>2, <1>3, AsksOnly, TellsSame
  <2> QED BY <1>1, <1>2, <2>1 DEF Observed, Answered
<1>6. Marked'
  <2> DEFINE v == IF net = "served" THEN O!Varied ELSE Varied
             w == IF net = "served" /\ step = 4 THEN O!Varied ELSE Varied
  <2>1. v' = v /\ w' = w
    BY <1>1, <1>3
  <2>2. Comparing => O!Entry.do = "read"
    BY DoingNow DEF Does, Comparing, Deciders
  <2>3. Comparing => Tells(O!Entry.arg, v)' = Tells(O!Entry.arg, v)
    BY <1>1, <1>2, <2>1, <2>2, AsksOnly, TellsSame
  <2>4. Tells("memory", w)' = Tells("memory", w)
    BY <1>1, <2>1, MemorySame
  <2>5. Comparing /\ verdict = "none" => deploy.shipped /\ mark = <<Tells(O!Entry.arg, v)>>
    BY DEF Observed, Marked, Comparing
  <2>6. Rereading /\ verdict = "none" => mark = <<Tells("memory", w)>>
    BY DEF Observed, Marked, Rereading
  <2>7. step = 3 /\ test \in {"SESSSTATE01", "PROJ02", "REGOBS02"} => flaw # "shape"
    BY DEF Observed, Marked
  <2> HIDE DEF v, w
  <2>8. /\ (Comparing /\ verdict = "none" => deploy.shipped /\ mark = <<Tells(O!Entry.arg, v)>>)'
        /\ (Rereading /\ verdict = "none" => mark = <<Tells("memory", w)>>)'
    BY <1>1, <1>2, <2>3, <2>4, <2>5, <2>6 DEF Comparing, Rereading
  <2> QED BY <1>1, <2>7, <2>8 DEF Marked, Comparing, Rereading, v, w
<1> QED BY <1>4, <1>5, <1>6 DEF Observed

\* Only a reading answered with 200 lets a handler go on.
LEMMA GoesOnWith200 ==
    ASSUME OType, Observed, test # "SESS03", net = "served", O!Entry.do = "read"
    PROVE  /\ O!Outcome = "go" => reply.status = "200"
           /\ reply.status = "404" => O!Outcome = O!Entry.on.absent
           /\ reply.status = "401" => O!Outcome = O!Entry.on.refused
<1>1. O!Outcome = O!JudgeRead
  BY DEF O!Outcome
<1>2. /\ reply.status = "404" => O!Outcome = O!Entry.on.absent
      /\ reply.status = "401" => O!Outcome = O!Entry.on.refused
  BY <1>1 DEF O!JudgeRead
<1>3. O!Entry.on \in {O!Usual, O!Blind, O!Strict, O!Lenient}
  BY ReadingIs DEF OType, AtReading, Reads, O!Read
<1>4. O!Entry.on.absent # "go" /\ O!Entry.on.refused # "go"
  BY <1>3 DEF O!Usual, O!Blind, O!Strict, O!Lenient
<1>5. reply.status \in {"404", "401", "200"}
  BY DEF Observed, Answered
<1> QED BY <1>2, <1>4, <1>5

\* A refused or absent reading tells against a Runner only where it counts.
LEMMA AbsentIsSkipped ==
    ASSUME OType, Observed, test # "SESS03", verdict = "none", O!Entry.do = "read", O!Entry.on.absent \in {"fail", "error"}
    PROVE  test = "BUD05" \/ deploy.shipped
<1>1. O!Entry.on \in {O!Usual, O!Blind, O!Lenient} \/ (O!Entry.on = O!Strict /\ (test = "BUD05" \/ Comparing))
  BY ReadingIs DEF OType, AtReading, Reads, O!Read, Comparing
<1>2. O!Entry.on \notin {O!Usual, O!Blind, O!Lenient}
  BY DEF O!Usual, O!Blind, O!Lenient
<1>3. test = "BUD05" \/ Comparing
  BY <1>1, <1>2
<1> QED BY <1>3 DEF Observed, Marked, Comparing

\* The handler goes on after an answer.
LEMMA ObservedGoOn ==
    ASSUME Drives \in Nat, OType, OType', Observed, test # "SESS03", flaw # "patchy", O!Take, O!Outcome = "go",
           step' = step + 1, verdict' = "none"
    PROVE  Observed'
<1>1. /\ net = "served" /\ net' = "idle" /\ verdict = "none" /\ step \in Nat
      /\ UNCHANGED <<test, flaw, deploy, known, used, due, effects, reads>>
  BY TakenReply, NextStep DEF OType, Steps
<1>2. Does /\ Does' /\ test' # "SESS03"
  BY <1>1, DoingNow, DoingThen
<1>3. O!Script' = O!Script /\ O!Covered(test)' = O!Covered(test) /\ O!Entry' = O!Script[step + 1]
  BY <1>1, SameScript DEF O!Entry
<1>4. O!Entry.do = "read" => reply.status = "200" /\ deploy.shipped /\ flaw \notin Excluded(O!Entry)
                             /\ reply.body = Tells(O!Entry.arg, Varied)
  <2>1. O!Entry.do = "read" => reply.status = "200"
    BY <1>1, GoesOnWith200
  <2>2. O!Entry.do = "read" => flaw \notin Excluded(O!Entry)
    BY <1>1, <2>1, ReadingJudged
  <2> QED BY <1>1, <2>1, <2>2 DEF Observed, Answered
<1>5. Quiet'
  <2>1. test \in O!SharedTests /\ due > 0 => O!Entry.do = "decide"
    BY <1>1 DEF Observed, Quiet, OType
  <2>2. O!Entry.do = "decide" => test \in Deciders /\ step' = 3
    BY <1>2 DEF Does
  <2>3. test \in Deciders /\ step' = 3 => (O!Entry.do = "pause")'
    BY <1>1, <1>2 DEF Does
  <2> QED BY <1>1, <2>1, <2>2, <2>3 DEF Quiet
<1>6. Answered'
  BY <1>1 DEF Answered
<1>7. Decided'
  <2>1. test \in Deciders /\ step = 2 => ~known \/ used > 0
    BY <1>1, <1>2 DEF Does, Observed, Answered
  <2>2. test \in Deciders /\ step > 2 => ~known \/ used > 0
    BY DEF Observed, Decided
  <2>3. step + 1 > 2 => step = 2 \/ step > 2 \/ step = 1
    BY <1>1
  <2>4. step + 1 > 2 => step # 1
    BY <1>1
  <2>5. test = "BUD05" /\ step = 4 => flaw # "spanTag"
    <3>1. test = "BUD05" /\ step = 4 => Reads("BUD05", 4, "spans", "tag", O!Strict)
      BY <1>2, ReadingIs DEF Does, OType, AtReading, Reads, Deciders
    <3> QED BY <1>2, <1>4, <3>1 DEF Does, Reads, O!Read, Excluded
  <2>6. test = "BUD05" /\ step = 5 => flaw # "auditTag"
    <3>1. test = "BUD05" /\ step = 5 => Reads("BUD05", 5, "audit", "tag", O!Strict)
      BY <1>2, ReadingIs DEF Does, OType, AtReading, Reads, Deciders
    <3> QED BY <1>2, <1>4, <3>1 DEF Does, Reads, O!Read, Excluded
  <2>7. (step + 1 > 4 => step = 4 \/ step > 4) /\ (step + 1 > 5 => step = 5 \/ step > 5)
    BY <1>1
  <2>8. /\ test = "BUD05" /\ step > 4 => flaw # "spanTag"
        /\ test = "BUD05" /\ step > 5 => flaw # "auditTag"
    BY DEF Observed, Decided
  <2> QED BY <1>1, <2>1, <2>2, <2>3, <2>4, <2>5, <2>6, <2>7, <2>8 DEF Decided
<1>8. Marked'
  <2>1. Varied' = Varied
    BY <1>1 DEF Varied
  <2>2. mark' = IF O!Entry.do = "read" /\ reply.status = "200" /\ O!Entry.check \in {"note", "keep"}
                THEN <<reply.body>> ELSE mark
    BY DEF O!Take
  <2>3. CASE step = 2 /\ test \in {"SESSSTATE01", "MEMSTATE02", "PROJ02", "REGOBS02"}
    <3>1. /\ O!Entry = O!Script[2] /\ O!Entry' = O!Script[3]
      BY <1>3, <2>3 DEF O!Entry
    <3>2. /\ O!Entry.do = "read" /\ O!Entry.check = IF test = "MEMSTATE02" THEN "keep" ELSE "note"
          /\ O!Entry'.arg = O!Entry.arg
      BY <2>3, <3>1, ComparingScripts DEF O!Read
    <3>3. deploy.shipped /\ mark' = <<Tells(O!Entry.arg, Varied)>>
      BY <1>4, <2>2, <3>2
    <3>4. test # "MEMSTATE02" => flaw # "shape"
      BY <1>4, <3>2 DEF Excluded
    <3>5. Tells(O!Entry.arg, Varied)' = Tells(O!Entry.arg, Varied)
      <4>1. O!Entry.arg \in Asks
        BY <3>2, AsksOnly
      <4> QED BY <1>1, <2>1, <3>2, <4>1, TellsSame
    <3> QED BY <1>1, <2>3, <3>3, <3>4, <3>5 DEF Marked
  <2>4. CASE test = "MEM02"
    <3>1. step \in {1, 2, 3}
      <4>1. step + 1 \in Steps /\ Len(O!Script) = 4
        BY <1>1, <1>3, <2>4, ObserveLengths DEF OType, Steps
      <4>2. step + 1 \in {1, 2, 3, 4}
        BY <4>1, StepsAre
      <4>3. step \in Nat /\ step # 0
        BY DEF OType, Steps
      <4> QED BY <1>1, <4>2, <4>3
    <3>2. Tells("memory", Varied)' = Tells("memory", Varied)
      BY <1>1, <2>1, MemorySame
    <3>3. CASE step = 1
      BY <1>1, <2>4, <3>3 DEF Marked
    <3>4. CASE step = 2
      <4>1. O!Entry = O!Script[2]
        BY <3>4 DEF O!Entry
      <4>2. O!Entry.do = "read" /\ O!Entry.check = "keep" /\ O!Entry.arg = "memory"
        BY <2>4, <4>1, ComparingScripts DEF O!Read
      <4>3. mark' = <<Tells("memory", Varied)>>
        BY <1>4, <2>2, <4>2
      <4> QED BY <1>1, <2>4, <3>2, <3>4, <4>3 DEF Marked
    <3>5. CASE step = 3
      <4>1. O!Entry.do # "read"
        BY <1>2, <2>4, <3>5 DEF Does, O!OwnTests
      <4>2. mark' = mark
        BY <2>2, <4>1
      <4>3. mark = <<Tells("memory", Varied)>>
        BY <1>1, <2>4, <3>5 DEF Observed, Marked
      <4> QED BY <1>1, <2>4, <3>2, <3>5, <4>2, <4>3 DEF Marked
    <3> QED BY <3>1, <3>3, <3>4, <3>5
  <2>5. CASE test # "MEM02" /\ ~(step = 2 /\ test \in {"SESSSTATE01", "MEMSTATE02", "PROJ02", "REGOBS02"})
    <3>1. step + 1 = 3 => step = 2
      BY <1>1
    <3> QED BY <1>1, <2>5, <3>1 DEF Marked
  <2> QED BY <2>3, <2>4, <2>5
<1>9. OEarned' /\ OKept'
  BY DEF OEarned, OKept
<1> QED BY <1>5, <1>6, <1>7, <1>8, <1>9 DEF Observed

\* The handler has its verdict.
LEMMA ObservedVerdict ==
    ASSUME Drives \in Nat, OType, Observed, test # "SESS03", flaw # "patchy", O!Take,
           step' = step, verdict' \in {"pass", "fail", "error", "skip"},
           verdict' = "pass" => O!Outcome = "go" /\ step = Len(O!Script),
           verdict' # "pass" => verdict' = O!Outcome
    PROVE  Observed'
<1>1. /\ net = "served" /\ net' = "idle" /\ verdict = "none"
      /\ UNCHANGED <<test, flaw, deploy, known, used, due, effects, reads>>
  BY TakenReply
<1>2. Does
  BY DoingNow
<1>3. O!Covered(test)' = O!Covered(test)
  BY <1>1, SameScript
<1>4. O!Entry.do # "decide"
  <2>1. O!Entry.do = "decide" => O!Outcome = "go" /\ step < Len(O!Script)
    BY <1>2 DEF Does, O!Outcome
  <2>2. step < Len(O!Script) => step # Len(O!Script)
    BY NextStep
  <2> QED BY <2>1, <2>2
<1>5. Quiet'
  <2>1. test \in O!SharedTests => due = 0
    BY <1>1, <1>4 DEF Observed, Quiet, OType
  <2> QED BY <1>1, <2>1 DEF Quiet
<1>6. Answered' /\ Decided'
  BY <1>1 DEF Observed, Answered, Decided
<1>7. Marked'
  BY <1>1 DEF Observed, Marked
<1>8. OEarned'
  <2>1. ASSUME verdict' = "pass" PROVE flaw \notin O!Covered(test)
    <3>1. O!Outcome = "go" /\ step = Len(O!Script)
      BY <2>1
    <3>2. O!Entry.do = "read"
      <4>1. step < Len(O!Script) => step # Len(O!Script)
        BY NextStep
      <4> QED BY <1>2, <3>1, <4>1 DEF Does
    <3>3. flaw \notin Excluded(O!Entry)
      BY <1>1, <3>1, <3>2, GoesOnWith200, ReadingJudged
    <3> QED BY <3>1, <3>2, <3>3, AllExcluded
  <2> QED BY <1>1, <1>3, <2>1 DEF OEarned
<1>9. OKept'
  <2>1. ASSUME verdict' \in {"fail", "error"}, flaw = "none"
        PROVE  ~known \/ (test = "BUD01" /\ used > 0) \/ (test = "BUD05" /\ ~deploy.shipped)
    <3>1. O!Outcome \in {"fail", "error"}
      BY <2>1
    <3>2. O!Entry.do = "read"
      <4>1. O!Entry.do \in {"mint", "shared"} => O!Outcome \in {"go", "skip"}
        BY DEF O!Outcome
      <4>2. O!Entry.do \in {"mint", "shared", "read"}
        BY <1>1, <1>2, <1>4 DEF Does, OType
      <4> QED BY <3>1, <4>1, <4>2
    <3>3. CASE reply.status = "404" /\ ~deploy.shipped
      <4>1. O!Entry.on.absent \in {"fail", "error"}
        BY <1>1, <3>1, <3>2, <3>3, GoesOnWith200
      <4> QED BY <1>1, <3>2, <3>3, <4>1, AbsentIsSkipped
    <3>4. CASE reply.status = "401" /\ ~known
      BY <3>4
    <3>5. CASE reply.status = "200"
      BY <1>1, <2>1, <3>1, <3>2, <3>5, ReadingJudged
    <3> QED BY <1>1, <3>2, <3>3, <3>4, <3>5 DEF Observed, Answered
  <2> QED BY <1>1, <2>1 DEF OKept
<1> QED BY <1>5, <1>6, <1>7, <1>8, <1>9 DEF Observed

\* A session is used again.
LEMMA ObservedReuse ==
    ASSUME Drives \in Nat, OType, OType', Observed, test # "SESS03", flaw # "patchy", O!Reuse
    PROVE  Observed'
<1>1. /\ UNCHANGED <<test, flaw, deploy, verdict, net, mark, known, used, due, effects, reads>>
      /\ verdict = "none" /\ net = "idle" /\ O!Entry.do = "shared" /\ step' = step + 1
  BY DEF O!Reuse, O!call, O!session
<1>2. Does
  BY DoingNow
<1>3. step = 1 \/ (test = "MEM02" /\ step = 3)
  BY <1>1, <1>2 DEF Does
<1>4. Quiet'
  <2>1. test \in O!SharedTests => due = 0
    BY <1>1 DEF Observed, Quiet, OType
  <2> QED BY <1>1, <2>1 DEF Quiet
<1>5. Answered' /\ OEarned' /\ OKept'
  BY <1>1 DEF Answered, OEarned, OKept
<1>6. Decided'
  BY <1>1, <1>3 DEF Decided, Deciders
<1>7. Marked'
  <2>1. Tells("memory", Varied)' = Tells("memory", Varied)
    <3>1. Varied' = Varied
      BY <1>1 DEF Varied
    <3> QED BY <1>1, <3>1, MemorySame
  <2>2. test = "MEM02" /\ step = 3 => mark = <<Tells("memory", Varied)>>
    BY <1>1 DEF Observed, Marked
  <2> QED BY <1>1, <1>3, <2>1, <2>2 DEF Marked
<1> QED BY <1>4, <1>5, <1>6, <1>7 DEF Observed

\* A pause is over in time.
LEMMA ObservedWake ==
    ASSUME Drives \in Nat, OType, OType', Observed, test # "SESS03", flaw # "patchy", O!Wake, ~late'
    PROVE  Observed'
<1>1. /\ UNCHANGED <<test, flaw, deploy, verdict, net, mark, known, used, due, effects, reads>>
      /\ verdict = "none" /\ net = "idle" /\ O!Entry.do = "pause" /\ step' = step + 1 /\ ~(due > 0)
  BY DEF O!Wake, O!call, O!session
<1>2. test \in Deciders /\ step = 3
  BY <1>1, DoingNow DEF Does
<1>3. Quiet' /\ Answered' /\ OEarned' /\ OKept'
  BY <1>1 DEF Quiet, Answered, OEarned, OKept
<1>4. Decided' /\ Marked'
  BY <1>1, <1>2 DEF Observed, Decided, Marked, Deciders
<1> QED BY <1>3, <1>4 DEF Observed

\* The round goes on to its next test.
LEMMA ObservedNext ==
    ASSUME Drives \in Nat, OType, OType', Observed, test # "SESS03", O!NextTest
    PROVE  Observed' /\ test' # "SESS03"
<1>1. /\ verdict # "none" /\ test \notin O!OwnTests /\ test' \in O!SharedTests /\ step' = 1 /\ verdict' = "none"
      /\ UNCHANGED <<net, due>>
  BY DEF O!NextTest, O!Ended, O!session
<1>2. net = "idle" /\ due = 0
  BY <1>1 DEF OType, Observed, Quiet, O!Tests, O!OwnTests, O!SharedTests
<1>3. Quiet' /\ Answered' /\ Marked' /\ Decided' /\ OEarned' /\ OKept'
  BY <1>1, <1>2 DEF Quiet, Answered, Marked, Decided, OEarned, OKept
<1> QED BY <1>1, <1>3 DEF Observed, O!SharedTests

\* Every step of a round in which no answer is lost and no pause too short.
LEMMA ObservedStep ==
    ASSUME Drives \in Nat, OType, OType', Observed, test # "SESS03", O!Next, lost' = 0, ~late'
    PROVE  Observed' /\ test' # "SESS03"
<1>1. flaw # "patchy"
  BY DEF OType
<1>2. ~O!Lose
  BY DEF O!Lose, OType
<1>3. CASE O!NextTest
  BY <1>3, ObservedNext
<1>4. CASE O!Take
  <2>1. test' = test
    BY <1>4, TakenReply
  <2>2. O!Outcome \in {"go", "skip", "fail", "error"}
    BY <1>4, OutcomeIs DEF O!Take
  <2> DEFINE out == O!Outcome
  <2> HIDE DEF out
  <2>3. \/ out = "go" /\ step' = step + 1 /\ verdict' = "none"
        \/ out = "go" /\ step = Len(O!Script) /\ step' = step /\ verdict' = "pass"
        \/ out \in {"skip", "fail", "error"} /\ step' = step /\ verdict' = out
    BY <1>4, <2>2, TakenReply DEF out
  <2>4. CASE out = "go" /\ step' = step + 1 /\ verdict' = "none"
    BY <1>1, <1>4, <2>1, <2>4, ObservedGoOn DEF out
  <2>5. CASE out = "go" /\ step = Len(O!Script) /\ step' = step /\ verdict' = "pass"
    BY <1>1, <1>4, <2>1, <2>5, ObservedVerdict DEF out
  <2>6. CASE out \in {"skip", "fail", "error"} /\ step' = step /\ verdict' = out
    BY <1>1, <1>4, <2>1, <2>6, ObservedVerdict DEF out
  <2> QED BY <2>3, <2>4, <2>5, <2>6
<1>5. CASE O!Reuse \/ O!Wake \/ O!Send \/ O!ServeRead \/ O!ServeMint \/ O!ServeDecide \/ O!Publish \/ O!Forget
  <2>1. test' = test
    BY <1>5 DEF O!Reuse, O!Wake, O!Send, O!ServeRead, O!ServeMint, O!ServeDecide, O!Publish, O!Forget, O!call
  <2> QED BY <1>1, <1>5, <2>1, ObservedReuse, ObservedWake, ObservedSend, ObservedRead, ObservedMint,
             ObservedDecide, ObservedPublish, ObservedForget
<1>6. CASE \E k \in DOMAIN effects : O!Progress(k)
  BY <1>6 DEF O!Progress
<1> QED BY <1>2, <1>3, <1>4, <1>5, <1>6 DEF O!Next, O!Handler, O!Runner, O!Others

-----------------------------------------------------------------------------
\* SV-SESS-03: how one observation of the side effects goes on from another.
Phases == {"pending", "inflight", "committed", "compensated"}
Effect == [phase : Phases, at : Nat]
Seen03 == [phase : Phases, at : Nat \ {0}]
Plain  == flaw = "none" /\ ~deploy.inflight /\ ~deploy.trims
Goes(a, b) == (a.phase = b.phase \/ (a.phase = "pending" /\ b.phase \in {"committed", "compensated"})) /\ a.at <= b.at
Continues(a, b) == Len(a) <= Len(b) /\ (Plain => \A k \in 1 .. Len(a) : Goes(a[k], b[k]))

\* The side effects themselves: none is dated in the future, and only a Runner that
\* leaves timestamps out could date one with none.
Dated(e) == /\ e.at <= now /\ e.at > 0
            /\ flaw = "none" \/ e.phase = "pending" => e.at > 1
            /\ e.phase = "inflight" => deploy.inflight
Timed == now \in Nat /\ now >= 2 /\ effects \in Seq(Effect) /\ \A k \in 1 .. Len(effects) : Dated(effects[k])

\* The observations, what there is to observe, and the one under way.
Gathered == got \in Seq(Seq(Seen03)) /\ \A i \in 2 .. Len(got) : Continues(got[i - 1], got[i])
Latest   == got # <<>> => Continues(got[Len(got)], O!Effects)
Fetched  ==
    net = "served" /\ O!Entry.do = "read" =>
        /\ reply.status \in {"404", "401", "200"}
        /\ reply.status = "200" => /\ reply.body[1] \in Seq(Seen03)
                                   /\ got # <<>> => Continues(got[Len(got)], reply.body[1])
                                   /\ Continues(reply.body[1], O!Effects)
Series == Gathered /\ (step \in {1, 2} => got = <<>>) /\ Latest /\ Fetched
SeriesJudged ==
    /\ verdict = "pass" => O!assertPhaseTransitions(got)
    /\ Plain => verdict \notin {"fail", "error"}
Watched == flaw # "patchy" => Timed /\ Series /\ SeriesJudged

\* What is shown of the side effects.
Shown ==
    /\ O!Effects \in Seq(Seen03) /\ Len(O!Effects) = Len(effects)
    /\ \A k \in 1 .. Len(effects) : /\ O!Effects[k].phase = effects[k].phase
                                    /\ Plain => O!Effects[k].at = effects[k].at

\* The phases are, and the times where nothing is trimmed or left out.
LEMMA ShownIs == OType /\ Timed /\ flaw # "patchy" => Shown
<1> SUFFICES ASSUME OType, Timed, flaw # "patchy" PROVE Shown
  OBVIOUS
<1> DEFINE n == Len(effects)
           at(k) == [phase |-> effects[k].phase, at |-> O!Printed(effects[k].at)]
<1>1. n \in Nat /\ DOMAIN effects = 1 .. n /\ \A k \in 1 .. n : effects[k] \in Effect
  BY DEF Timed
<1>2. O!Effects = [k \in 1 .. n |-> at(k)]
  BY <1>1 DEF O!Effects
<1>3. ASSUME NEW k \in 1 .. n
      PROVE  at(k) \in Seen03 /\ at(k).phase = effects[k].phase /\ (Plain => at(k).at = effects[k].at)
  <2>1. effects[k].phase \in Phases /\ effects[k].at \in Nat /\ effects[k].at > 0 /\ (flaw = "none" => effects[k].at > 1)
    BY <1>1 DEF Effect, Timed, Dated
  <2> DEFINE t == effects[k].at
  <2>2. t \in Nat /\ t > 0 /\ (flaw = "none" => t > 1)
    BY <2>1
  <2>3. deploy.trims => flaw = "none"
    BY DEF OType
  <2>4. O!Printed(t) \in Nat \ {0} /\ (~deploy.trims => O!Printed(t) = t)
    <3> HIDE DEF t
    <3>1. t % 2 \in {0, 1}
      BY <2>2
    <3> DEFINE r == t % 2
    <3>2. r \in {0, 1} /\ O!Printed(t) = IF deploy.trims THEN t + 1 - 2 * r ELSE t
      BY <3>1 DEF O!Printed
    <3> HIDE DEF r
    <3> QED BY <2>2, <2>3, <3>2
  <2> HIDE DEF t
  <2>5. O!Printed(effects[k].at) \in Nat \ {0} /\ (~deploy.trims => O!Printed(effects[k].at) = effects[k].at)
    BY <2>4 DEF t
  <2> QED BY <2>1, <2>5 DEF Seen03, Plain
<1> HIDE DEF at, n, O!Effects
<1>4. O!Effects \in Seq(Seen03) /\ Len(O!Effects) = n /\ \A k \in 1 .. n : O!Effects[k] = at(k)
  BY <1>1, <1>2, <1>3
<1> QED BY <1>3, <1>4 DEF n, Shown

\* The same of the next state.
LEMMA ShownThen == (OType /\ Timed /\ flaw # "patchy" => Shown)'
BY ShownIs, PTL

\* Going on is transitive.
LEMMA ContinuesOn ==
    ASSUME NEW a \in Seq(Seen03), NEW b \in Seq(Seen03), NEW c \in Seq(Seen03), Continues(a, b), Continues(b, c)
    PROVE  Continues(a, c)
<1> DEFINE l == Len(a)
           m == Len(b)
           n == Len(c)
<1>1. l \in Nat /\ m \in Nat /\ n \in Nat /\ l <= m /\ m <= n
  BY DEF Continues
<1>2. l <= n /\ \A k \in 1 .. l : k \in 1 .. m /\ k \in 1 .. n
  <2> HIDE DEF l, m, n
  <2> QED BY <1>1
<1>3. ASSUME Plain, NEW k \in 1 .. l PROVE Goes(a[k], c[k])
  <2>1. k \in 1 .. m /\ k \in 1 .. n
    BY <1>2
  <2>2. Goes(a[k], b[k]) /\ Goes(b[k], c[k])
    BY <1>3, <2>1 DEF Continues
  <2>3. a[k] \in Seen03 /\ b[k] \in Seen03 /\ c[k] \in Seen03
    BY <2>1
  <2> DEFINE x == a[k]
             y == b[k]
             z == c[k]
  <2>4. x.at \in Nat /\ y.at \in Nat /\ z.at \in Nat /\ x.at <= y.at /\ y.at <= z.at
    BY <2>2, <2>3 DEF Seen03, Goes
  <2>5. x.at <= z.at
    BY <2>4
  <2> QED BY <2>2, <2>5 DEF Goes
<1> QED BY <1>2, <1>3 DEF Continues

\* It is reflexive.
LEMMA ContinuesItself ==
    ASSUME NEW a \in Seq(Seen03)
    PROVE  Continues(a, a)
<1> DEFINE l == Len(a)
<1>1. l \in Nat /\ l <= l
  OBVIOUS
<1>2. ASSUME NEW k \in 1 .. l PROVE Goes(a[k], a[k])
  <2>1. a[k] \in Seen03
    OBVIOUS
  <2> QED BY <2>1 DEF Goes, Seen03
<1> QED BY <1>1, <1>2 DEF Continues

\* A side effect moves in its bracket.
LEMMA ProgressGoes ==
    ASSUME OType, OType', Timed, flaw # "patchy", NEW k \in DOMAIN effects, O!Progress(k)
    PROVE  Timed' /\ Continues(O!Effects, O!Effects')
<1>1. /\ UNCHANGED <<test, flaw, deploy, reads>> /\ now' = now + 1 /\ now \in Nat /\ now >= 2
      /\ k \in 1 .. Len(effects) /\ effects[k] \in Effect /\ Len(effects) \in Nat
  BY DEF O!Progress, O!call, Timed
<1> DEFINE old == effects[k]
<1>2. PICK p \in O!Successors(old.phase) :
        effects' = [effects EXCEPT ![k] = [phase |-> p, at |-> IF flaw \in {"backwards", "patchy"} THEN old.at - 1 ELSE now + 1]]
  BY DEF O!Progress
<1> DEFINE t == IF flaw = "backwards" THEN old.at - 1 ELSE now + 1
           new == [phase |-> p, at |-> t]
<1>3. old.phase \in Phases /\ old.at \in Nat /\ Dated(old)
  BY <1>1 DEF Effect, Timed
<1>4. /\ p \in Phases
      /\ p = "inflight" => deploy.inflight
      /\ flaw = "backwards" => old.phase = "pending" /\ p # "pending"
      /\ Plain => old.phase = "pending" /\ p \in {"committed", "compensated"}
  <2>1. flaw # "none" => ~deploy.inflight
    BY DEF OType
  <2>2. old.phase = "inflight" => deploy.inflight
    BY <1>3 DEF Dated
  <2>3. CASE old.phase = "pending"
    BY <1>2, <2>1, <2>3 DEF O!Successors, Phases, Plain
  <2>4. CASE old.phase = "inflight"
    BY <1>2, <2>1, <2>2, <2>4 DEF O!Successors, Phases, Plain
  <2>5. CASE old.phase \in {"committed", "compensated"}
    BY <1>2, <2>5 DEF O!Successors, Phases, Plain
  <2> QED BY <1>3, <2>3, <2>4, <2>5 DEF Phases
<1>5. t \in Nat /\ t > 0 /\ t <= now + 1 /\ (flaw = "none" \/ p = "pending" => t > 1) /\ (Plain => old.at <= t)
  <2>1. old.at <= now /\ old.at > 0 /\ (old.phase = "pending" => old.at > 1)
    BY <1>3 DEF Dated
  <2> DEFINE o == old.at
  <2>2. o \in Nat /\ o <= now /\ o > 0 /\ (flaw = "backwards" => o > 1 /\ p # "pending")
    BY <1>3, <1>4, <2>1
  <2> HIDE DEF o
  <2>3. t = IF flaw = "backwards" THEN o - 1 ELSE now + 1
    BY DEF o
  <2> HIDE DEF t
  <2>4. t \in Nat /\ t > 0 /\ t <= now + 1 /\ (flaw # "backwards" => t > 1 /\ o <= t)
    BY <1>1, <2>2, <2>3
  <2> QED BY <2>2, <2>4 DEF o, Plain
<1>6. effects' = [effects EXCEPT ![k] = new]
  BY <1>2
<1>7. new \in Effect /\ new.phase = p /\ new.at = t
  BY <1>4, <1>5 DEF Effect
<1> HIDE DEF new, t
<1>8. /\ effects' \in Seq(Effect) /\ Len(effects') = Len(effects)
      /\ effects'[k] = new /\ \A j \in 1 .. Len(effects) : j # k => effects'[j] = effects[j]
  BY <1>1, <1>6, <1>7 DEF Timed
<1>9. Timed'
  <2>1. ASSUME NEW j \in 1 .. Len(effects') PROVE Dated(effects[j])'
    <3>1. CASE j = k
      <4>1. effects'[j] = new
        BY <1>8, <3>1
      <4> QED BY <1>1, <1>4, <1>5, <1>7, <4>1 DEF Dated
    <3>2. CASE j # k
      <4>1. effects'[j] = effects[j] /\ effects[j] \in Effect /\ Dated(effects[j])
        BY <1>8, <2>1, <3>2 DEF Timed
      <4>2. effects[j].at \in Nat
        BY <4>1 DEF Effect
      <4> QED BY <1>1, <4>1, <4>2 DEF Dated
    <3> QED BY <3>1, <3>2
  <2>2. now' \in Nat /\ now' >= 2
    BY <1>1
  <2> QED BY <1>8, <2>1, <2>2 DEF Timed
<1>10. Continues(O!Effects, O!Effects')
  <2>1. Shown /\ Shown' /\ (Plain <=> Plain')
    BY <1>1, <1>9, ShownIs, ShownThen DEF Plain
  <2> DEFINE a == O!Effects
             b == O!Effects'
  <2>2. /\ Len(a) = Len(effects) /\ Len(b) = Len(effects)
        /\ \A j \in 1 .. Len(effects) : a[j].phase = effects[j].phase /\ (Plain => a[j].at = effects[j].at)
        /\ \A j \in 1 .. Len(effects) : b[j].phase = effects'[j].phase /\ (Plain => b[j].at = effects'[j].at)
    BY <1>8, <2>1 DEF Shown
  <2> HIDE DEF a, b
  <2>3. ASSUME Plain, NEW j \in 1 .. Len(effects) PROVE Goes(a[j], b[j])
    <3>1. CASE j = k
      BY <1>4, <1>5, <1>7, <1>8, <2>2, <2>3, <3>1 DEF Goes
    <3>2. CASE j # k
      <4>1. effects'[j] = effects[j]
        BY <1>8, <2>3, <3>2
      <4>2. effects[j] \in Effect
        BY <2>3 DEF Timed
      <4>3. effects[j].at \in Nat
        BY <4>2 DEF Effect
      <4>4. a[j].phase = b[j].phase /\ a[j].at = b[j].at /\ a[j].at = effects[j].at
        BY <2>2, <2>3, <4>1
      <4> QED BY <4>3, <4>4 DEF Goes
    <3> QED BY <3>1, <3>2
  <2>4. Len(a) <= Len(b)
    BY <1>1, <2>2
  <2>5. Continues(a, b)
    BY <2>2, <2>3, <2>4 DEF Continues
  <2> QED BY <2>5 DEF a, b
<1> QED BY <1>9, <1>10

\* What SV-SESS-03 does at a step.
LEMMA SeriesEntry ==
    ASSUME Drives \in Nat, OType, test = "SESS03"
    PROVE  /\ step \in Nat
           /\ step = 1 => O!Entry = O!Own
           /\ step = 2 => O!Entry = O!Read("state", "any", O!Reach)
           /\ step \notin {1, 2} => O!Entry \in {O!Decide("skip"), O!Read("state", "observe", O!Lenient)}
           /\ step = Len(O!Script) => step = 2 \/ (step # 1 /\ O!Entry = O!Read("state", "observe", O!Lenient))
<1> DEFINE n == Len(O!Script)
<1>1. n = 2 + 2 * Drives /\ step \in 1 .. n /\ step \in Steps
  BY SeriesScript DEF OType, Steps
<1>2. O!Entry = IF step = 1 THEN O!Own ELSE IF step = 2 THEN O!Read("state", "any", O!Reach)
                ELSE IF step % 2 = 1 THEN O!Decide("skip") ELSE O!Read("state", "observe", O!Lenient)
  BY <1>1, SeriesScript DEF O!Entry
<1> HIDE DEF n
<1>3. step \in Nat
  BY <1>1
<1>4. step = n => step # 1 /\ step % 2 = 0
  <2>1. n # 1 /\ n % 2 = 0
    BY <1>1
  <2> QED BY <2>1
<1>5. step = n => step = 2 \/ (step # 1 /\ O!Entry = O!Read("state", "observe", O!Lenient))
  BY <1>2, <1>4
<1> QED BY <1>2, <1>3, <1>5 DEF n

\* What SV-SESS-03 asks the Runner for.
LEMMA SeriesAsks ==
    ASSUME Drives \in Nat, OType, test = "SESS03"
    PROVE  /\ O!Entry.do \in {"mint", "decide", "read"}
           /\ O!Entry.do = "mint" <=> step = 1
           /\ O!Entry.do = "decide" => O!Entry.bad = "skip"
           /\ O!Entry.do = "read" => /\ O!Entry.arg = "state" /\ O!Entry.check \in {"any", "observe"}
                                     /\ O!Entry.check = "any" <=> step = 2
                                     /\ O!Entry.on = IF step = 2 THEN O!Reach ELSE O!Lenient
<1>1. CASE step = 1
  BY <1>1, SeriesEntry DEF O!Own
<1>2. CASE step = 2
  BY <1>2, SeriesEntry DEF O!Read
<1>3. CASE step \notin {1, 2}
  <2>1. O!Entry \in {O!Decide("skip"), O!Read("state", "observe", O!Lenient)}
    BY <1>3, SeriesEntry
  <2>2. CASE O!Entry = O!Decide("skip")
    BY <1>3, <2>2 DEF O!Decide
  <2>3. CASE O!Entry = O!Read("state", "observe", O!Lenient)
    BY <1>3, <2>3 DEF O!Read
  <2> QED BY <2>1, <2>2, <2>3
<1> QED BY <1>1, <1>2, <1>3

\* The side effects a step leaves alone are shown as before.
LEMMA EffectsSame ==
    ASSUME flaw # "patchy", UNCHANGED <<flaw, deploy, effects>>
    PROVE  O!Effects' = O!Effects
BY DEF O!Effects, O!Printed

\* Side effects that are added to continue what was shown.
LEMMA EffectsAdded ==
    ASSUME Shown, Shown', Timed, UNCHANGED <<flaw, deploy>>, effects' \in Seq(Effect), Len(effects) <= Len(effects'),
           \A k \in 1 .. Len(effects) : effects'[k] = effects[k]
    PROVE  Continues(O!Effects, O!Effects')
<1>1. Plain' = Plain
  BY DEF Plain
<1> DEFINE a == O!Effects
           b == O!Effects'
           m == Len(effects)
           n == Len(effects')
<1>2. Len(a) = m /\ Len(b) = n /\ m \in Nat /\ n \in Nat /\ m <= n
  BY DEF Shown, Timed
<1>3. ASSUME Plain, NEW k \in 1 .. m PROVE Goes(a[k], b[k])
  <2>1. k \in 1 .. n
    <3> HIDE DEF m, n
    <3> QED BY <1>2
  <2>2. a[k].phase = effects[k].phase /\ a[k].at = effects[k].at
    BY <1>3 DEF Shown
  <2>3. b[k].phase = effects'[k].phase /\ b[k].at = effects'[k].at
    BY <1>1, <1>3, <2>1 DEF Shown
  <2>4. effects'[k] = effects[k]
    BY <1>3
  <2>5. effects[k] \in Effect
    BY <1>3 DEF Timed
  <2>6. effects[k].at \in Nat
    BY <2>5 DEF Effect
  <2> HIDE DEF a, b
  <2>7. a[k].phase = b[k].phase /\ a[k].at = b[k].at /\ a[k].at = effects[k].at
    BY <2>2, <2>3, <2>4
  <2> QED BY <2>6, <2>7 DEF Goes
<1> HIDE DEF a, b
<1>4. Continues(a, b)
  BY <1>2, <1>3 DEF Continues
<1> QED BY <1>4 DEF a, b

\* A step that leaves the observations alone keeps them.
LEMMA GatheredSame ==
    ASSUME Gathered, UNCHANGED <<flaw, deploy, got>>
    PROVE  Gathered'
BY DEF Gathered, Continues, Plain

\* Going on is of the Runner, not of the moment.
LEMMA ContinuesSame ==
    ASSUME UNCHANGED <<flaw, deploy>>
    PROVE  \A a, b : Continues(a, b)' = Continues(a, b)
BY DEF Continues, Plain

\* A request is sent.
LEMMA WatchedSend ==
    ASSUME OType, test = "SESS03", flaw # "patchy", Timed, Series, SeriesJudged, O!Send
    PROVE  Timed' /\ Series' /\ SeriesJudged'
<1>1. /\ UNCHANGED <<test, flaw, deploy, step, verdict, got, effects, now>> /\ net' = "sent"
  BY DEF O!Send, O!call, O!session
<1>2. O!Effects' = O!Effects
  BY <1>1, EffectsSame
<1>3. Timed'
  BY <1>1 DEF Timed, Dated
<1>4. Gathered'
  BY <1>1, GatheredSame DEF Series
<1>5. Latest'
  BY <1>1, <1>2, ContinuesSame DEF Series, Latest
<1>6. Series'
  BY <1>1, <1>4, <1>5 DEF Series, Fetched
<1>7. SeriesJudged'
  BY <1>1 DEF SeriesJudged, Plain, O!assertPhaseTransitions, O!Legal, O!NoTime
<1> QED BY <1>3, <1>6, <1>7

\* A session is minted, at the first step, or refused.
LEMMA WatchedMint ==
    ASSUME Drives \in Nat, OType, test = "SESS03", flaw # "patchy", Timed, Series, SeriesJudged, O!ServeMint
    PROVE  Timed' /\ Series' /\ SeriesJudged'
<1>1. /\ UNCHANGED <<test, flaw, deploy, step, verdict, got>> /\ verdict = "none" /\ step = 1
      /\ O!Entry.do = "mint"
      /\ (effects' = <<>> /\ now' = 2) \/ UNCHANGED <<effects, now>>
  BY SeriesAsks DEF O!ServeMint, O!call, O!session, O!Start, OType
<1>2. O!Entry' = O!Entry
  BY <1>1, SameScript DEF O!Entry
<1>3. got' = <<>> /\ Gathered'
  BY <1>1, GatheredSame DEF Series
<1>4. Series'
  BY <1>1, <1>2, <1>3 DEF Series, Latest, Fetched
<1>5. Timed'
  <2>1. CASE effects' = <<>> /\ now' = 2
    BY <2>1 DEF Timed
  <2>2. CASE UNCHANGED <<effects, now>>
    BY <1>1, <2>2 DEF Timed, Dated
  <2> QED BY <1>1, <2>1, <2>2
<1>6. SeriesJudged'
  BY <1>1 DEF SeriesJudged
<1> QED BY <1>4, <1>5, <1>6

\* A decision adds a pending side effect, dated now, or none.
LEMMA WatchedDecide ==
    ASSUME Drives \in Nat, OType, OType', test = "SESS03", flaw # "patchy", Timed, Series, SeriesJudged, O!ServeDecide
    PROVE  Timed' /\ Series' /\ SeriesJudged'
<1> DEFINE e == [phase |-> "pending", at |-> now]
<1>1. /\ UNCHANGED <<test, flaw, deploy, step, verdict, got, now>> /\ verdict = "none" /\ O!Entry.do = "decide"
      /\ effects' = Append(effects, e) \/ effects' = effects
  BY DEF O!ServeDecide, O!call, O!session, OType
<1>2. O!Entry' = O!Entry
  BY <1>1, SameScript DEF O!Entry
<1>3. effects \in Seq(Effect) /\ now \in Nat /\ now >= 2
  BY DEF Timed
<1>4. e \in Effect
  BY <1>3 DEF Effect, Phases
<1>5. Dated(e)
  <2>1. now <= now /\ now > 0 /\ now > 1
    BY <1>3
  <2> QED BY <2>1 DEF Dated
<1> HIDE DEF e
<1>6. /\ effects' \in Seq(Effect) /\ Len(effects) <= Len(effects')
      /\ \A k \in 1 .. Len(effects) : effects'[k] = effects[k]
      /\ \A k \in 1 .. Len(effects') : k \in 1 .. Len(effects) \/ effects'[k] = e
  <2>1. CASE effects' = effects
    BY <1>3, <2>1
  <2>2. CASE effects' = Append(effects, e)
    <3>1. /\ effects' \in Seq(Effect) /\ Len(effects') = Len(effects) + 1 /\ Len(effects) \in Nat
          /\ \A k \in 1 .. Len(effects) : effects'[k] = effects[k]
          /\ effects'[Len(effects) + 1] = e
      BY <1>3, <1>4, <2>2
    <3> DEFINE n == Len(effects)
               m == Len(effects')
    <3>2. n <= m /\ \A k \in 1 .. m : k \in 1 .. n \/ k = n + 1
      <4>1. n \in Nat /\ m = n + 1
        BY <3>1
      <4> HIDE DEF n, m
      <4> QED BY <4>1
    <3> QED BY <3>1, <3>2
  <2> QED BY <1>1, <2>1, <2>2
<1>7. Timed'
  <2>1. ASSUME NEW k \in 1 .. Len(effects') PROVE Dated(effects[k])'
    <3>1. CASE k \in 1 .. Len(effects)
      <4>1. effects'[k] = effects[k] /\ Dated(effects[k])
        BY <1>6, <3>1 DEF Timed
      <4> QED BY <1>1, <4>1 DEF Dated
    <3>2. CASE effects'[k] = e
      BY <1>1, <1>5, <3>2 DEF Dated
    <3> QED BY <1>6, <2>1, <3>1, <3>2
  <2> QED BY <1>1, <1>3, <1>6, <2>1 DEF Timed
<1>8. Shown /\ Shown'
  BY <1>1, <1>7, ShownIs, ShownThen
<1>9. Continues(O!Effects, O!Effects')
  BY <1>1, <1>6, <1>8, EffectsAdded
<1>10. Latest'
  <2>1. ASSUME got # <<>> PROVE Continues(got[Len(got)], O!Effects')
    <3>1. Continues(got[Len(got)], O!Effects) /\ got[Len(got)] \in Seq(Seen03)
      BY <2>1 DEF Series, Latest, Gathered
    <3> QED BY <1>8, <1>9, <3>1, ContinuesOn DEF Shown
  <2> QED BY <1>1, <2>1, ContinuesSame DEF Latest
<1>11. Gathered'
  BY <1>1, GatheredSame DEF Series
<1>12. Series'
  BY <1>1, <1>2, <1>10, <1>11 DEF Series, Fetched
<1>13. SeriesJudged'
  BY <1>1 DEF SeriesJudged
<1> QED BY <1>7, <1>12, <1>13

\* The side effects are shown, as they are now.
LEMMA WatchedRead ==
    ASSUME Drives \in Nat, OType, test = "SESS03", flaw # "patchy", Timed, Series, SeriesJudged, O!ServeRead
    PROVE  Timed' /\ Series' /\ SeriesJudged'
<1>1. /\ UNCHANGED <<test, flaw, deploy, step, verdict, got, effects, now>> /\ verdict = "none"
      /\ O!Entry.do = "read"
  BY DEF O!ServeRead, O!call, O!session, OType
<1>2. O!Entry' = O!Entry
  BY <1>1, SameScript DEF O!Entry
<1>3. O!Effects' = O!Effects
  BY <1>1, EffectsSame
<1>4. Timed'
  BY <1>1 DEF Timed, Dated
<1>5. Gathered'
  BY <1>1, GatheredSame DEF Series
<1>6. Latest'
  BY <1>1, <1>3, ContinuesSame DEF Series, Latest
<1>7. Fetched'
  <2>1. \/ reply'.status \in {"404", "401"}
        \/ reply'.status = "200" /\ reply'.body = O!Body(O!Entry.arg)
    BY DEF O!ServeRead
  <2>2. ASSUME reply'.status = "200"
        PROVE  /\ reply'.body[1] \in Seq(Seen03)
               /\ got # <<>> => Continues(got[Len(got)], reply'.body[1])
               /\ Continues(reply'.body[1], O!Effects)
    <3>1. O!Entry.arg = "state"
      BY <1>1, SeriesAsks
    <3>2. reply'.body = <<O!Effects, O!Varied>>
      BY <2>1, <2>2, <3>1 DEF O!Body
    <3>3. reply'.body[1] = O!Effects
      BY <3>2
    <3>4. O!Effects \in Seq(Seen03)
      BY ShownIs DEF Shown
    <3> QED BY <3>3, <3>4, ContinuesItself DEF Series, Latest
  <2> QED BY <1>1, <1>3, <2>1, <2>2 DEF Fetched, Continues, Plain
<1>8. SeriesJudged'
  BY <1>1 DEF SeriesJudged
<1> QED BY <1>1, <1>4, <1>5, <1>6, <1>7, <1>8 DEF Series

\* A side effect moves in its bracket: what was observed of it, and what is on its
\* way to the handler, is continued.
LEMMA WatchedProgress ==
    ASSUME Drives \in Nat, OType, OType', test = "SESS03", flaw # "patchy", Timed, Series, SeriesJudged,
           NEW k \in DOMAIN effects, O!Progress(k)
    PROVE  Timed' /\ Series' /\ SeriesJudged'
<1>1. UNCHANGED <<test, flaw, deploy, step, verdict, got, net, reply>>
  BY DEF O!Progress, O!call
<1>2. O!Entry' = O!Entry
  BY <1>1, SameScript DEF O!Entry
<1>3. Timed' /\ Continues(O!Effects, O!Effects')
  BY ProgressGoes
<1>4. Shown /\ Shown'
  BY <1>1, <1>3, ShownIs, ShownThen
<1>5. O!Effects \in Seq(Seen03) /\ O!Effects' \in Seq(Seen03)
  BY <1>4 DEF Shown
<1>6. Gathered'
  BY <1>1, GatheredSame DEF Series
<1>7. Latest'
  <2>1. ASSUME got # <<>> PROVE Continues(got[Len(got)], O!Effects')
    <3>1. Continues(got[Len(got)], O!Effects) /\ got[Len(got)] \in Seq(Seen03)
      BY <2>1 DEF Series, Latest, Gathered
    <3> QED BY <1>3, <1>5, <3>1, ContinuesOn
  <2> QED BY <1>1, <2>1, ContinuesSame DEF Latest
<1>8. Fetched'
  <2>1. ASSUME net = "served", O!Entry.do = "read", reply.status = "200"
        PROVE  Continues(reply.body[1], O!Effects')
    <3>1. Continues(reply.body[1], O!Effects) /\ reply.body[1] \in Seq(Seen03)
      BY <2>1 DEF Series, Fetched
    <3> QED BY <1>3, <1>5, <3>1, ContinuesOn
  <2> QED BY <1>1, <1>2, <2>1, ContinuesSame DEF Series, Fetched
<1>9. SeriesJudged'
  BY <1>1 DEF SeriesJudged, Plain, O!assertPhaseTransitions, O!Legal, O!NoTime
<1> QED BY <1>1, <1>3, <1>6, <1>7, <1>8, <1>9 DEF Series

\* What goes on from one observation to the next is legal.
LEMMA GoesLegal ==
    ASSUME NEW a, NEW b, Goes(a, b)
    PROVE  O!Legal(a, b)
BY DEF Goes, O!Legal

\* An observation is added.
LEMMA GatheredMore ==
    ASSUME Gathered, NEW b \in Seq(Seen03), got # <<>> => Continues(got[Len(got)], b)
    PROVE  LET g == Append(got, b) IN
           /\ g \in Seq(Seq(Seen03)) /\ g # <<>> /\ g[Len(g)] = b
           /\ \A i \in 2 .. Len(g) : Continues(g[i - 1], g[i])
           /\ Plain => O!assertPhaseTransitions(g)
<1> DEFINE g == Append(got, b)
           n == Len(got)
<1>1. n \in Nat /\ got \in Seq(Seq(Seen03)) /\ (n # 0 => got # <<>>)
  BY DEF Gathered
<1>2. /\ g \in Seq(Seq(Seen03)) /\ Len(g) = n + 1 /\ g # <<>> /\ g[n + 1] = b
      /\ \A i \in 1 .. n : g[i] = got[i]
  <2> DEFINE S == Seq(Seen03)
  <2>1. got \in Seq(S) /\ b \in S
    BY <1>1
  <2> HIDE DEF S
  <2>2. g \in Seq(S) /\ Len(g) = n + 1 /\ g[n + 1] = b /\ \A i \in 1 .. n : g[i] = got[i]
    BY <2>1
  <2>3. g # <<>>
    <3> HIDE DEF g
    <3>1. Len(g) # 0
      BY <1>1, <2>2
    <3> QED BY <3>1
  <2> QED BY <2>2, <2>3 DEF S
<1>3. ASSUME NEW i \in 2 .. n + 1 PROVE Continues(g[i - 1], g[i])
  <2>1. CASE i = n + 1
    <3>1. n # 0 /\ i - 1 = n /\ n \in 1 .. n
      <4> HIDE DEF n
      <4> QED BY <1>1, <2>1
    <3>2. g[i - 1] = got[n] /\ g[i] = b
      BY <1>2, <2>1, <3>1
    <3> QED BY <1>1, <3>1, <3>2
  <2>2. CASE i # n + 1
    <3>1. i \in 2 .. n /\ i - 1 \in 1 .. n /\ i \in 1 .. n
      <4> HIDE DEF n
      <4> QED BY <1>1, <2>2
    <3>2. g[i - 1] = got[i - 1] /\ g[i] = got[i]
      BY <1>2, <3>1
    <3> QED BY <3>1, <3>2 DEF Gathered
  <2> QED BY <2>1, <2>2
<1>4. ASSUME Plain PROVE O!assertPhaseTransitions(g)
  <2> SUFFICES ASSUME NEW i \in 2 .. Len(g), NEW k \in DOMAIN g[i - 1]
               PROVE  O!Legal(g[i - 1][k], g[i][k])
    BY DEF O!assertPhaseTransitions
  <2>1. i - 1 \in 1 .. Len(g)
    <3> DEFINE m == Len(g)
    <3>1. m \in Nat /\ i \in 2 .. m
      BY <1>1, <1>2
    <3> HIDE DEF m
    <3>2. i - 1 \in 1 .. m
      BY <3>1
    <3> QED BY <3>2 DEF m
  <2>2. g[i - 1] \in Seq(Seen03)
    BY <1>2, <2>1
  <2>3. k \in 1 .. Len(g[i - 1])
    BY <2>2
  <2>4. Goes(g[i - 1][k], g[i][k])
    BY <1>2, <1>3, <1>4, <2>3 DEF Continues
  <2> QED BY <2>4, GoesLegal
<1> QED BY <1>2, <1>3, <1>4

\* What an answer leads SV-SESS-03 to.
LEMMA SeriesOutcome ==
    ASSUME Drives \in Nat, OType, test = "SESS03", net = "served", Fetched
    PROVE  /\ O!Entry.do # "read" => O!Outcome \in {"go", "skip"}
           /\ O!Entry.do = "read" /\ reply.status # "200" => /\ O!Outcome \in {"go", "skip"}
                                                             /\ step # 2 => O!Outcome = "skip"
           /\ O!Entry.do = "read" /\ reply.status = "200" =>
                /\ step = 2 => O!Outcome = "go"
                /\ step # 2 => O!Outcome = IF step = Len(O!Script) THEN O!JudgeSeries(Append(got, reply.body[1])) ELSE "go"
<1>1. CASE O!Entry.do # "read"
  BY <1>1, SeriesAsks DEF O!Outcome
<1>2. CASE O!Entry.do = "read"
  <2>1. /\ O!Entry.check \in {"any", "observe"} /\ (O!Entry.check = "any" <=> step = 2)
        /\ O!Entry.on = IF step = 2 THEN O!Reach ELSE O!Lenient
    BY <1>2, SeriesAsks
  <2>2. O!Entry.on.absent = "skip" /\ O!Entry.on.refused = IF step = 2 THEN "go" ELSE "skip"
    BY <2>1 DEF O!Reach, O!Lenient
  <2>3. O!Outcome = O!JudgeRead
    BY <1>2 DEF O!Outcome
  <2>4. ~O!Validates
    BY <2>1 DEF O!Validates
  <2>5. O!Seen(O!Entry.check, reply.body)
    BY <2>1, SeenSingly
  <2>6. reply.status \in {"404", "401", "200"}
    BY <1>2 DEF Fetched
  <2> DEFINE fits == O!Seen(O!Entry.check, reply.body)
             judged == O!JudgeSeries(Append(got, reply.body[1]))
  <2>7. O!JudgeRead = CASE reply.status = "404" -> O!Entry.on.absent
                        [] reply.status = "401" -> O!Entry.on.refused
                        [] OTHER -> IF O!Validates /\ ~reply.valid THEN "fail"
                                    ELSE IF O!Entry.check = "observe" /\ step = Len(O!Script) THEN judged
                                    ELSE IF fits THEN "go" ELSE "fail"
    BY DEF O!JudgeRead
  <2> HIDE DEF fits, judged
  <2>8. fits
    BY <2>5 DEF fits
  <2>9. CASE reply.status = "404"
    BY <1>2, <2>2, <2>3, <2>7, <2>9
  <2>10. CASE reply.status = "401"
    BY <1>2, <2>2, <2>3, <2>7, <2>10
  <2>11. CASE reply.status = "200"
    <3>1. O!JudgeRead = IF O!Entry.check = "observe" /\ step = Len(O!Script) THEN judged ELSE "go"
      BY <2>4, <2>7, <2>8, <2>11
    <3> QED BY <1>2, <2>1, <2>3, <2>11, <3>1 DEF judged
  <2> QED BY <2>6, <2>9, <2>10, <2>11
<1> QED BY <1>1, <1>2

\* An answer is taken: an observation is added, or the handler goes on without one;
\* with the last the handler judges the series.
LEMMA WatchedTake ==
    ASSUME Drives \in Nat, OType, test = "SESS03", flaw # "patchy", Timed, Series, SeriesJudged, O!Take
    PROVE  Timed' /\ Series' /\ SeriesJudged'
<1> DEFINE out == O!Outcome
           b == reply.body[1]
           observed == O!Entry.do = "read" /\ reply.status = "200" /\ step # 2
           good == O!assertPhaseTransitions(got')
<1>1. /\ net = "served" /\ net' = "idle" /\ verdict = "none" /\ UNCHANGED <<test, flaw, deploy, effects, now>>
      /\ \/ out = "go" /\ step' = step + 1 /\ verdict' = "none"
         \/ out = "go" /\ step = Len(O!Script) /\ step' = step /\ verdict' = "pass"
         \/ out # "go" /\ step' = step /\ verdict' = out
  BY TakenReply
<1>2. Plain' = Plain /\ O!assertPhaseTransitions(got)' = good
  BY <1>1 DEF Plain, O!assertPhaseTransitions, O!Legal, O!NoTime
<1>3. O!Effects' = O!Effects
  BY <1>1, EffectsSame
<1>4. Timed'
  BY <1>1 DEF Timed, Dated
<1>5. Fetched'
  BY <1>1 DEF Fetched
<1>6. step \in Nat /\ step # 0
  BY SeriesEntry DEF OType, Steps
<1>7. got' = IF observed THEN Append(got, b) ELSE got
  <2>1. got' = IF O!Entry.do = "read" /\ reply.status = "200" /\ O!Entry.check = "observe" THEN Append(got, reply.body[1]) ELSE got
    BY DEF O!Take
  <2>2. O!Entry.do = "read" => (O!Entry.check = "observe" <=> step # 2)
    BY SeriesAsks
  <2> QED BY <2>1, <2>2
<1>8. CASE observed
  <2>1. b \in Seq(Seen03) /\ (got # <<>> => Continues(got[Len(got)], b)) /\ Continues(b, O!Effects)
    BY <1>1, <1>8 DEF Series, Fetched
  <2>2. got' = Append(got, b)
    BY <1>7, <1>8
  <2>3. step # 1 /\ step # 2
    BY <1>8, SeriesAsks
  <2> HIDE DEF out, b, observed
  <2>4. /\ got' \in Seq(Seq(Seen03)) /\ got' # <<>> /\ got'[Len(got')] = b
        /\ \A i \in 2 .. Len(got') : Continues(got'[i - 1], got'[i])
        /\ Plain => good
    BY <2>1, <2>2, GatheredMore DEF Series
  <2>5. Gathered' /\ Latest'
    <3>1. Gathered'
      BY <1>1, <2>4 DEF Gathered, Continues, Plain
    <3>2. Continues(b, O!Effects')
      BY <1>3, <2>1
    <3>3. Latest'
      BY <1>1, <2>4, <3>2 DEF Latest, Continues, Plain
    <3> QED BY <3>1, <3>3
  <2>6. step' \notin {1, 2}
    BY <1>1, <1>6, <2>3
  <2>7. Series'
    BY <1>5, <2>5, <2>6 DEF Series
  <2>8. out = IF step = Len(O!Script) THEN O!JudgeSeries(got') ELSE "go"
    BY <1>1, <1>8, <2>2, <2>3, SeriesOutcome DEF Series, out, b, observed
  <2>9. O!JudgeSeries(got') \in {"go", "skip", "fail"} /\ (O!JudgeSeries(got') = "go" => good)
        /\ (good => O!JudgeSeries(got') # "fail")
    <3> HIDE DEF good
    <3>1. O!JudgeSeries(got') = IF \A i \in DOMAIN got' : got'[i] = <<>> THEN "skip" ELSE IF good THEN "go" ELSE "fail"
      BY DEF O!JudgeSeries, good
    <3> QED BY <3>1
  <2> DEFINE judged == O!JudgeSeries(got')
  <2> HIDE DEF judged, good
  <2>10. /\ verdict' = "pass" => good
         /\ Plain => verdict' \notin {"fail", "error"}
    <3>1. judged \in {"go", "skip", "fail"} /\ (judged = "go" => good) /\ (good => judged # "fail")
      BY <2>9 DEF judged
    <3>2. out = IF step = Len(O!Script) THEN judged ELSE "go"
      BY <2>8 DEF judged
    <3> QED BY <1>1, <2>4, <3>1, <3>2
  <2>11. SeriesJudged'
    BY <1>2, <2>10 DEF SeriesJudged
  <2> QED BY <1>4, <2>7, <2>11
<1>9. CASE ~observed
  <2>1. got' = got
    BY <1>7, <1>9
  <2>2. Gathered'
    BY <1>1, <2>1, GatheredSame DEF Series
  <2>3. Latest'
    BY <1>1, <1>3, <2>1, ContinuesSame DEF Series, Latest
  <2>4. step' \in {1, 2} => step \in {1, 2}
    <3> HIDE DEF out
    <3> QED BY <1>1, <1>6
  <2>5. Series'
    BY <1>5, <2>1, <2>2, <2>3, <2>4 DEF Series
  <2>6. out \in {"go", "skip"} /\ (O!Entry.do = "read" /\ step # 2 => out = "skip")
    BY <1>1, <1>9, SeriesOutcome DEF Series
  <2>7. verdict' = "pass" => good
    <3> HIDE DEF out, good
    <3>1. verdict' = "pass" => step = Len(O!Script) /\ out = "go"
      BY <1>1, <2>6
    <3>2. step = Len(O!Script) => step = 2 \/ O!Entry.do = "read"
      BY SeriesEntry DEF O!Read
    <3>3. step = 2 => got' = <<>>
      BY <2>1 DEF Series
    <3>4. got' = <<>> => good
      BY DEF O!assertPhaseTransitions, good
    <3> QED BY <2>6, <3>1, <3>2, <3>3, <3>4
  <2>8. verdict' \notin {"fail", "error"}
    <3> HIDE DEF out
    <3> QED BY <1>1, <2>6
  <2>9. SeriesJudged'
    BY <1>2, <2>7, <2>8 DEF SeriesJudged
  <2> QED BY <1>4, <2>5, <2>9
<1> QED BY <1>8, <1>9

\* Every step of SV-SESS-03 in which no answer is lost.
LEMMA WatchedStep ==
    ASSUME Drives \in Nat, OType, OType', test = "SESS03", Watched, O!Next, lost' = 0
    PROVE  Watched' /\ test' = "SESS03"
<1>1. test \in O!OwnTests /\ test \notin O!SharedTests /\ left = 0 /\ ~cache
  BY DEF OType, O!OwnTests, O!SharedTests
<1>2. ~O!Lose
  BY DEF O!Lose, OType
<1>3. ~O!NextTest /\ ~O!Publish /\ ~O!Forget
  BY <1>1 DEF O!NextTest, O!Ended, O!Publish, O!Forget
<1>4. ~O!Reuse /\ ~O!Wake
  <2>1. O!Entry.do \in {"mint", "decide", "read"}
    BY SeriesAsks
  <2> QED BY <2>1 DEF O!Reuse, O!Wake
<1>5. O!Send \/ O!Take \/ O!ServeRead \/ O!ServeMint \/ O!ServeDecide \/ \E k \in DOMAIN effects : O!Progress(k)
  BY <1>2, <1>3, <1>4 DEF O!Next, O!Handler, O!Runner, O!Others
<1>6. UNCHANGED <<test, flaw>>
  BY <1>5 DEF O!Send, O!Take, O!ServeRead, O!ServeMint, O!ServeDecide, O!Progress, O!call
<1>7. ASSUME flaw # "patchy" PROVE Timed' /\ Series' /\ SeriesJudged'
  <2>1. Timed /\ Series /\ SeriesJudged
    BY <1>7 DEF Watched
  <2> QED BY <1>5, <1>7, <2>1, WatchedSend, WatchedTake, WatchedRead, WatchedMint, WatchedDecide, WatchedProgress
<1> QED BY <1>6, <1>7 DEF Watched

\* One observation against another: what PassIsEarned asks of any two.
Link(x, y) == y.phase \in O!After(x.phase) /\ x.at <= y.at
Linked(a, b) == Len(a) <= Len(b) /\ \A k \in 1 .. Len(a) : Link(a[k], b[k])

\* A legal move keeps the bracket.
LEMMA LegalLinks ==
    ASSUME NEW x \in Seen03, NEW y \in Seen03, O!Legal(x, y)
    PROVE  Link(x, y)
<1>1. x.phase \in Phases /\ y.phase \in Phases /\ x.at \in Nat \ {0} /\ y.at \in Nat \ {0}
  BY DEF Seen03
<1>2. x.at <= y.at
  BY <1>1 DEF O!Legal, O!NoTime
<1>3. x.phase # y.phase => x.phase = "pending" /\ y.phase \in {"committed", "compensated", "inflight"}
  BY DEF O!Legal
<1>4. y.phase \in O!After(x.phase)
  BY <1>1, <1>3 DEF O!After, Phases
<1> QED BY <1>2, <1>4 DEF Link

\* The bracket is transitive, and reflexive.
LEMMA LinkedOn ==
    ASSUME NEW a \in Seq(Seen03), NEW b \in Seq(Seen03), NEW c \in Seq(Seen03), Linked(a, b), Linked(b, c)
    PROVE  Linked(a, c)
<1> DEFINE l == Len(a)
           m == Len(b)
           n == Len(c)
<1>1. l \in Nat /\ m \in Nat /\ n \in Nat /\ l <= m /\ m <= n
  BY DEF Linked
<1>2. l <= n /\ \A k \in 1 .. l : k \in 1 .. m /\ k \in 1 .. n
  <2> HIDE DEF l, m, n
  <2> QED BY <1>1
<1>3. ASSUME NEW k \in 1 .. l PROVE Link(a[k], c[k])
  <2>1. k \in 1 .. m /\ k \in 1 .. n
    BY <1>2
  <2> DEFINE x == a[k]
             y == b[k]
             z == c[k]
  <2>2. Link(x, y) /\ Link(y, z)
    BY <2>1 DEF Linked
  <2>3. x \in Seen03 /\ y \in Seen03 /\ z \in Seen03
    BY <2>1
  <2> HIDE DEF x, y, z
  <2>4. x.at \in Nat /\ y.at \in Nat /\ z.at \in Nat /\ x.at <= y.at /\ y.at <= z.at
    BY <2>2, <2>3 DEF Seen03, Link
  <2>5. x.at <= z.at
    BY <2>4
  <2>6. x.phase \in Phases /\ y.phase \in O!After(x.phase) /\ z.phase \in O!After(y.phase)
    BY <2>2, <2>3 DEF Seen03, Link
  <2>7. z.phase \in O!After(x.phase)
    BY <2>6 DEF O!After, Phases
  <2>8. Link(x, z)
    BY <2>5, <2>7 DEF Link
  <2> QED BY <2>8 DEF x, z
<1> QED BY <1>2, <1>3 DEF Linked

\* The bracket contains where it starts.
LEMMA LinkedItself ==
    ASSUME NEW a \in Seq(Seen03)
    PROVE  Linked(a, a)
<1> DEFINE l == Len(a)
<1>1. l \in Nat /\ l <= l
  OBVIOUS
<1>2. ASSUME NEW k \in 1 .. l PROVE Link(a[k], a[k])
  <2> DEFINE x == a[k]
  <2>1. x \in Seen03
    OBVIOUS
  <2> HIDE DEF x
  <2>2. x.at \in Nat /\ x.phase \in Phases
    BY <2>1 DEF Seen03
  <2>3. x.at <= x.at /\ x.phase \in O!After(x.phase)
    BY <2>2 DEF O!After, Phases
  <2>4. Link(x, x)
    BY <2>3 DEF Link
  <2> QED BY <2>4 DEF x
<1> QED BY <1>1, <1>2 DEF Linked

\* assertPhaseTransitions, which compares neighbours, has compared any two.
LEMMA NeighboursSuffice ==
    ASSUME Gathered, O!assertPhaseTransitions(got)
    PROVE  O!Bracketed
<1> DEFINE n == Len(got)
<1>1. n \in Nat /\ DOMAIN got = 1 .. n /\ \A i \in 1 .. n : got[i] \in Seq(Seen03)
  BY DEF Gathered
<1>2. ASSUME NEW i \in 2 .. n PROVE Linked(got[i - 1], got[i])
  <2>1. i \in 1 .. n /\ i - 1 \in 1 .. n
    <3> HIDE DEF n
    <3> QED BY <1>1
  <2>2. got[i - 1] \in Seq(Seen03) /\ got[i] \in Seq(Seen03)
    BY <1>1, <2>1
  <2> DEFINE a == got[i - 1]
             b == got[i]
             l == Len(a)
             m == Len(b)
  <2>3. l \in Nat /\ m \in Nat /\ l <= m
    BY <2>2 DEF Gathered, Continues
  <2>4. ASSUME NEW k \in 1 .. l PROVE Link(a[k], b[k])
    <3>1. k \in 1 .. m
      <4> HIDE DEF l, m
      <4> QED BY <2>3
    <3>2. k \in DOMAIN a
      BY <2>2
    <3>3. O!Legal(a[k], b[k])
      BY <3>2 DEF O!assertPhaseTransitions
    <3>4. a[k] \in Seen03 /\ b[k] \in Seen03
      BY <2>2, <3>1
    <3> QED BY <3>3, <3>4, LegalLinks
  <2> QED BY <2>3, <2>4 DEF Linked
<1>3. ASSUME NEW i \in 1 .. n, NEW j \in i .. n PROVE Linked(got[i], got[j])
  <2> DEFINE S == {h \in i .. n : ~Linked(got[i], got[h])}
  <2> SUFFICES ASSUME S # {} PROVE FALSE
    OBVIOUS
  <2>1. S \subseteq Nat
    <3>1. i .. n \subseteq Nat
      <4> HIDE DEF n
      <4> QED BY <1>1
    <3> QED BY <3>1
  <2>2. PICK h \in S : \A g \in S : h <= g
    BY <2>1, LeastExists
  <2>3. h \in i .. n /\ ~Linked(got[i], got[h])
    OBVIOUS
  <2>4. h # i
    BY <1>1, <2>3, LinkedItself
  <2>5. h \in 2 .. n /\ h - 1 \in i .. n /\ h - 1 \in 1 .. n /\ h \in 1 .. n /\ ~(h <= h - 1)
    <3> HIDE DEF n, S
    <3> QED BY <1>1, <2>3, <2>4
  <2>6. Linked(got[i], got[h - 1])
    BY <2>2, <2>5
  <2>7. Linked(got[h - 1], got[h])
    BY <1>2, <2>5
  <2>8. got[i] \in Seq(Seen03) /\ got[h - 1] \in Seq(Seen03) /\ got[h] \in Seq(Seen03)
    BY <1>1, <2>5
  <2> QED BY <2>3, <2>6, <2>7, <2>8, LinkedOn
<1> SUFFICES ASSUME NEW j \in DOMAIN got, NEW i \in 1 .. j - 1, NEW k \in DOMAIN got[i]
             PROVE  got[j][k].phase \in O!After(got[i][k].phase) /\ got[i][k].at <= got[j][k].at
  BY DEF O!Bracketed
<1>4. j \in 1 .. n
  BY <1>1
<1>5. i \in 1 .. n /\ j \in i .. n
  <2> HIDE DEF n
  <2> QED BY <1>1, <1>4
<1>6. Linked(got[i], got[j]) /\ k \in 1 .. Len(got[i])
  BY <1>1, <1>3, <1>5
<1> QED BY <1>6 DEF Linked, Link

-----------------------------------------------------------------------------
\* What is known of a round: while answers arrive and everything is published by
\* the end of a pause, of every test but SV-SESS-03 Observed, of that one Watched.
ObserveInv ==
    /\ OType
    /\ O!Orderly => /\ test # "SESS03" => Observed
                    /\ test = "SESS03" => Watched

\* It holds as the first test of a round begins.
LEMMA ObserveInit ==
    ASSUME Drives \in Nat, MaxRound \in Nat \ {0}, O!Init
    PROVE  ObserveInv
<1>1. /\ test \in O!Tests /\ deploy \in O!Deployments /\ step = 1 /\ verdict = "none" /\ net = "idle" /\ lost = 0
      /\ got = <<>> /\ effects = <<>> /\ now = 2 /\ used = 0 /\ due = 0 /\ reads = 0
      /\ cache = FALSE /\ known = FALSE /\ late = FALSE
      /\ flaw # "none" => deploy.shipped /\ ~deploy.inflight /\ ~deploy.trims
  BY DEF O!Init, O!Start
<1>2. flaw = "patchy" => test = "SESS03"
  <2>1. flaw \in {"none"} \cup O!Covered(test) \cup O!Unnoticed(test)
    BY DEF O!Init
  <2>2. "patchy" \notin O!Covered(test)
    BY <1>1 DEF O!Covered, O!Tests, O!OwnTests, O!SharedTests
  <2> QED BY <2>1, <2>2 DEF O!Unnoticed
<1>3. left \in Nat /\ (test \in O!OwnTests => left = 0)
  <2>1. left = IF test \in O!OwnTests THEN 0 ELSE MaxRound - 1
    BY DEF O!Init
  <2>2. MaxRound - 1 \in Nat
    OBVIOUS
  <2> QED BY <2>1, <2>2
<1>4. 1 \in Steps
  BY <1>1, FirstStep
<1>5. OType
  <2>1. lost \in Nat /\ used \in Nat /\ due \in Nat /\ due <= used /\ reads \in {0, 1}
    BY <1>1
  <2>2. cache \in BOOLEAN /\ known \in BOOLEAN /\ late \in BOOLEAN /\ ~cache
    BY <1>1
  <2>3. step \in Steps /\ net \in {"idle", "sent", "served"} /\ verdict \in {"none", "pass", "fail", "error", "skip"}
    BY <1>1, <1>4
  <2> QED BY <1>1, <1>2, <1>3, <2>1, <2>2, <2>3 DEF OType
<1>6. Observed
  BY <1>1 DEF Observed, Quiet, Answered, Marked, Decided, OEarned, OKept
<1>7. Watched
  BY <1>1 DEF Watched, Timed, Series, SeriesJudged, Gathered, Latest, Fetched
<1> QED BY <1>5, <1>6, <1>7 DEF ObserveInv

\* It is kept by every step, an answer that is lost and a pause that is too short
\* included, after which nothing more is said of the round.
LEMMA ObserveStep ==
    ASSUME Drives \in Nat, ObserveInv, O!Next
    PROVE  ObserveInv'
<1>1. OType /\ OType'
  BY ObserveTyped DEF ObserveInv
<1>2. ASSUME lost' = 0, ~late' PROVE lost = 0 /\ ~late
  <2>1. lost' \in {lost, lost + 1}
    BY DEF O!Next, O!Handler, O!Runner, O!Others, O!Reuse, O!Wake, O!Send, O!Take, O!Lose, O!NextTest,
           O!ServeRead, O!ServeMint, O!ServeDecide, O!Publish, O!Forget, O!Progress
  <2>2. lost \in Nat
    BY <1>1 DEF OType
  <2>3. late' = late \/ late' = (late \/ due > 0)
    BY DEF O!Next, O!Handler, O!Runner, O!Others, O!Reuse, O!Wake, O!Send, O!Take, O!Lose, O!NextTest,
           O!ServeRead, O!ServeMint, O!ServeDecide, O!Publish, O!Forget, O!Progress
  <2>4. lost = 0
    BY <1>2, <2>1, <2>2
  <2>5. ~late
    BY <1>2, <2>3
  <2> QED BY <2>4, <2>5
<1>3. ASSUME lost' = 0, ~late'
      PROVE  (test # "SESS03" => Observed)' /\ (test = "SESS03" => Watched)'
  <2>1. O!Orderly
    BY <1>2, <1>3 DEF O!Orderly
  <2>2. CASE test = "SESS03"
    BY <1>1, <1>3, <2>1, <2>2, WatchedStep DEF ObserveInv
  <2>3. CASE test # "SESS03"
    BY <1>1, <1>3, <2>1, <2>3, ObservedStep DEF ObserveInv
  <2> QED BY <2>2, <2>3
<1> QED BY <1>1, <1>3 DEF ObserveInv, O!Orderly

\* And by a step of anything else.
LEMMA ObserveCall ==
    ASSUME Drives \in Nat, kind = "observe", ObserveInv, [Next]_vars
    PROVE  ObserveInv'
<1>1. CASE UNCHANGED vars
  <2>1. UNCHANGED <<test, flaw, deploy, step, verdict, net, reply, lost, mark, got, left, cache, known, used, due,
                    effects, now, reads, late>>
    BY <1>1 DEF vars, all, logVars, sharedVars, readVars, observeVars
  <2>2. O!Script' = O!Script /\ Steps' = Steps /\ O!Covered(test)' = O!Covered(test) /\ O!Entry' = O!Entry
    BY <2>1, SameScript DEF O!Entry
  <2>3. OType'
    BY <2>1, <2>2 DEF ObserveInv, OType
  <2>4. O!Effects' = O!Effects /\ O!Published' = O!Published /\ O!Varied' = O!Varied /\ Varied' = Varied
    BY <2>1 DEF O!Effects, O!Printed, O!Published, O!Varied, Varied
  <2>5. O!Events' = O!Events /\ O!Spans' = O!Spans
    BY <2>1, <2>4 DEF O!Events, O!Spans
  <2>6. \A e, v : Tells(e, v)' = Tells(e, v)
    BY <2>1, <2>4, <2>5 DEF Tells, O!Body
  <2>7. Observed => Observed'
    <3>1. Quiet' = Quiet /\ Decided' = Decided /\ OEarned' = OEarned /\ OKept' = OKept
      BY <2>1, <2>2 DEF Quiet, Decided, OEarned, OKept
    <3>2. Answered => Answered'
      BY <2>1, <2>2, <2>4, <2>6 DEF Answered
    <3>3. Marked => Marked'
      <4> DEFINE v == IF net = "served" THEN O!Varied ELSE Varied
                 w == IF net = "served" /\ step = 4 THEN O!Varied ELSE Varied
      <4>1. v' = v /\ w' = w
        BY <2>1, <2>4
      <4>2. Tells(O!Entry.arg, v)' = Tells(O!Entry.arg, v) /\ Tells("memory", w)' = Tells("memory", w)
        BY <2>2, <2>6, <4>1
      <4> QED BY <2>1, <4>2 DEF Marked
    <3> QED BY <3>1, <3>2, <3>3 DEF Observed
  <2>8. Watched => Watched'
    BY <2>1, <2>2, <2>4 DEF Watched, Timed, Dated, Series, SeriesJudged, Gathered, Latest, Fetched, Continues, Plain,
                            O!assertPhaseTransitions, O!Legal, O!NoTime
  <2> QED BY <2>1, <2>3, <2>7, <2>8 DEF ObserveInv, O!Orderly
<1>2. CASE Next
  <2>1. O!Next
    BY <1>2 DEF Next, Handoff, Dispatch, AuditTrail, Observe, Probe, Check, InHandoff, InDispatch, InAudit,
                InObserve, InProbe, InCheck
  <2> QED BY <2>1, ObserveStep
<1> QED BY <1>1, <1>2

\* What a verdict is worth, test by test.
LEMMA ObserveJudged ==
    ASSUME ObserveInv
    PROVE  O!PassIsEarned /\ O!ConformingNeverFails
<1>1. test \in O!Tests
  BY DEF ObserveInv, OType
<1>2. CASE test # "SESS03"
  BY <1>2 DEF ObserveInv, Observed, OEarned, OKept, O!PassIsEarned, O!ConformingNeverFails, O!Excused,
               O!Forgotten, O!Spent, O!Unshipped
<1>3. CASE test = "SESS03"
  <2>1. O!Orderly /\ flaw # "patchy" => Gathered /\ SeriesJudged
    BY <1>3 DEF ObserveInv, Watched, Series
  <2>2. O!Orderly /\ flaw # "patchy" /\ verdict = "pass" => O!Bracketed
    BY <2>1, NeighboursSuffice DEF SeriesJudged
  <2>3. O!ConformingNeverFails
    BY <1>3, <2>1 DEF SeriesJudged, Plain, O!ConformingNeverFails, O!Excused, O!Bracketing
  <2> QED BY <1>3, <2>2, <2>3 DEF O!PassIsEarned
<1> QED BY <1>2, <1>3

\* The invariant of a round of the observing handlers.
LEMMA ObserveInvariant == Spec => [](kind = "observe" => ObserveInv)
<1>1. Drives \in Nat /\ MaxRound \in Nat \ {0}
  BY LiveCallAssumption
<1>2. Init => (kind = "observe" => ObserveInv)
  BY <1>1, ObserveInit DEF Init
<1>3. (kind = "observe" => ObserveInv) /\ [Next]_vars => (kind = "observe" => ObserveInv)'
  BY <1>1, ObserveCall, KindStays
<1> QED BY <1>2, <1>3, PTL DEF Spec

\* An observing handler that passes a Runner has seen that it keeps the rules the
\* test covers, whatever the tests before it did to the session they share and
\* whenever the Runner publishes; and SV-SESS-03 that no two of its observations,
\* however many and however far apart, contradict the bracket, unless the Runner
\* leaves timestamps out.
THEOREM ObservePassIsEarned == Spec => [](kind = "observe" => PassIsEarned)
<1>1. (kind = "observe" => ObserveInv) => (kind = "observe" => PassIsEarned)
  BY ObserveJudged DEF PassIsEarned
<1> QED BY <1>1, ObserveInvariant, PTL

\* While its answers arrive and the pauses are long enough, a Runner that keeps every
\* rule is failed by an observing handler for one of four causes only: it has
\* forgotten the shared session; earlier tests have made decisions on the session
\* SV-BUD-01 wants fresh; SV-BUD-05 finds that it ships nothing; and SV-SESS-03, that
\* it shows a side effect in flight or trims its timestamps.
THEOREM ObserveConformingNeverFails == Spec => [](kind = "observe" => ConformingNeverFails)
<1>1. (kind = "observe" => ObserveInv) => (kind = "observe" => ConformingNeverFails)
  BY ObserveJudged DEF ConformingNeverFails
<1> QED BY <1>1, ObserveInvariant, PTL
=============================================================================
