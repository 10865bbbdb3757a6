------------------------------ MODULE MCTestRun ------------------------------
(* Five tests: one listed by two phases, one listed by none, one of a later *)
(* milestone, one for adapters, and one the must-map does not know.        *)
EXTENDS TestRun

MCHandlers == {"HR-01", "SV-SESS-01", "SV-ADAPTER-01", "SV-UI-01", "SV-OLD-01"}
MCDefs == [id \in (MCHandlers \ {"SV-OLD-01"}) \cup {"SV-NEW-01"} |->
    [milestone |-> CASE id = "SV-SESS-01" -> "M3"
                     [] id \in {"SV-ADAPTER-01"} -> "M4"
                     [] OTHER -> "",
     profile |-> IF id = "SV-UI-01" THEN "ui" ELSE "core"]]
MCPhases == {<<<<"SV-SESS-01", "HR-01">>, <<"HR-01", "SV-NEW-01", "SV-ADAPTER-01">>>>,
             <<<<"HR-99">>>>}
MCEvidence == {<<>>, <<"pass">>, <<"skip", "pass">>, <<"error", "fail">>, <<"fail", "pass">>}
MCRequests == {<<>>, <<"HR-01", "SV-UI-01", "HR-01", "SV-SESS-01">>,
               <<"SV-NEW-01", "HR-01", "SV-ADAPTER-01">>}
MCAdapters == {"SV-ADAPTER-01"}
=============================================================================
