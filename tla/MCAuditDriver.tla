----------------------------- MODULE MCAuditDriver -----------------------------
(* Three tools, one of which is answered 503 pda-verify-unavailable; the   *)
(* bearer's window is empty at the start, full of old and new requests, or *)
(* about to empty.                                                         *)
EXTENDS AuditDriver

MCTools  == <<"fs__read_file", "net__http_get", "fs__write_file">>
MCPrompt == {"net__http_get"}
MCFilled == {[a \in 0 .. 3 |-> 0],
             [a \in 0 .. 3 |-> IF a = 0 THEN 2 ELSE IF a = 2 THEN 1 ELSE 0],
             [a \in 0 .. 3 |-> IF a = 3 THEN 3 ELSE 0]}
=============================================================================
