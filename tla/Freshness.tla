------------------------------ MODULE Freshness ------------------------------
(***************************************************************************)
(* internal/crlstate and internal/inittrust: what the age of a revocation  *)
(* list, and the end of a trust bundle, make of it; and SV-ENC-06 of       *)
(* handlers_m3_v10.go, which judges a token.  Times are natural numbers,   *)
(* Hour of them to the hour, Skew to the thirty seconds two clocks may     *)
(* differ by.                                                              *)
(***************************************************************************)
EXTENDS Integers

CONSTANTS Hour, Skew

Unparsed == -1      \* a time that is no RFC 3339 time
Absent   == -2

DefaultRefreshInterval == Hour
HardStaleCeiling       == 2 * Hour

Classify(crl, now) ==
    LET age == now - crl.issued
    IN  IF Unparsed \in {crl.issued, crl.notAfter} \/ now >= crl.notAfter \/ age > HardStaleCeiling
        THEN "expired"
        ELSE IF age <= DefaultRefreshInterval THEN "fresh" ELSE "stale-but-valid"
Accept(state)        == state # "expired"
RefreshNeeded(state) == state = "stale-but-valid"

SemanticValidate(notAfter, now) ==
    IF notAfter # Absent /\ (notAfter = Unparsed \/ now >= notAfter)
    THEN "bootstrap-expired" ELSE "accept"

\* The three rejections, in the order they are looked for.
ClockSkew(token, ref) ==
    IF token.exp < ref - Skew THEN "exp-expired"
    ELSE IF token.iat < ref - Skew THEN "iat-past-skew"
    ELSE IF token.iat > ref + Skew THEN "iat-future-skew" ELSE "accept"
=============================================================================
