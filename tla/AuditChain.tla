----------------------------- MODULE AuditChain -----------------------------
(***************************************************************************)
(* internal/auditchain: what makes a list of audit rows, earliest first, a *)
(* hash chain, and the tampering HR-14 uses to see that a break is found.  *)
(* A row is a record with at least the fields prev and hash.               *)
(***************************************************************************)
EXTENDS Integers, Sequences

\* The hash the i-th row must name.
Expected(records, i) == IF i = 1 THEN "GENESIS" ELSE records[i - 1].hash

Breaks(records) == {i \in 1 .. Len(records) : records[i].prev # Expected(records, i)}

\* The first break, 0 when there is none.
VerifyChain(records) ==
    IF Breaks(records) = {} THEN 0
    ELSE CHOOSE i \in Breaks(records) : \A j \in Breaks(records) : i <= j

\* The row at idx names another hash than it did; an index outside changes nothing.
Tamper(records, idx) ==
    IF idx \in 1 .. Len(records)
    THEN [records EXCEPT ![idx].prev = IF records[idx].prev = "000" THEN "fff" ELSE "000"]
    ELSE records
=============================================================================
