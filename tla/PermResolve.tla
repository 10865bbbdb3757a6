---------------------------- MODULE PermResolve ----------------------------
(***************************************************************************)
(* internal/permresolve: the validator's own resolution of a tool's risk   *)
(* class and control under a session's activeMode, the oracle every live   *)
(* permission decision is compared with.                                   *)
(***************************************************************************)
EXTENDS Integers

Capabilities == {"ReadOnly", "WorkspaceWrite", "DangerFullAccess"}
Risks        == {"ReadOnly", "Mutating", "Destructive", "Egress"}
Controls     == {"AutoAllow", "Prompt", "Deny"}
Decisions    == Controls \cup {"CapabilityDenied", "ConfigPrecedenceViolation"}

\* No override in the Agent Card.
None == "none"

capabilityAllowsRisk(cap, risk) ==
    \/ cap = "ReadOnly" /\ risk = "ReadOnly"
    \/ cap = "WorkspaceWrite" /\ risk \in {"ReadOnly", "Mutating"}
    \/ cap = "DangerFullAccess"

controlStrictness(c) ==
    CASE c = "AutoAllow" -> 0 [] c = "Prompt" -> 1 [] c = "Deny" -> 2

\* The capability gate, then tighten-only composition of the two controls.
Resolve(risk, default, cap, override) ==
    IF ~capabilityAllowsRisk(cap, risk) THEN "CapabilityDenied"
    ELSE IF override = None THEN default
    ELSE IF controlStrictness(override) < controlStrictness(default)
         THEN "ConfigPrecedenceViolation"
    ELSE override
=============================================================================
