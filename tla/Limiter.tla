------------------------------- MODULE Limiter -------------------------------
(***************************************************************************)
(* The sliding-window rate limit of the implementation under test, as the  *)
(* validator's callers rely on it: at most Limit admitted requests within  *)
(* Window ticks, and a refusal that says after how many ticks the oldest   *)
(* of them leaves the window.  External code, known by how                 *)
(* cmd/soa-validate/main.go and internal/testrunner use it.                *)
(***************************************************************************)
EXTENDS Integers, Functions

CONSTANTS Limit, Window

VARIABLE recent      \* how many admitted requests are of each age

TypeOK == recent \in [0 .. Window - 1 -> Nat]

Empty == [a \in 0 .. Window - 1 |-> 0]

Taken == SumFunction(recent)

Full == Taken >= Limit

Admit == ~Full /\ recent' = [recent EXCEPT ![0] = @ + 1]

\* Retry-After: the oldest admitted request leaves after r ticks.
RetryAfter(r) == recent[Window - r] > 0 /\ \A q \in 1 .. r - 1 : recent[Window - q] = 0

\* One tick passes; requests as old as the window leave it.
Age == recent' = [a \in 0 .. Window - 1 |-> IF a = 0 THEN 0 ELSE recent[a - 1]]
=============================================================================
