----------------------------- MODULE MCLiveCall -----------------------------
\* Two of the six provider errors, one of them SV-LLM-06's; a registry in which
\* the three modes refuse different tools.
EXTENDS LiveCall

MCTools == <<[risk |-> "ReadOnly", control |-> "AutoAllow"],
             [risk |-> "Mutating", control |-> "Prompt"],
             [risk |-> "Destructive", control |-> "Deny"]>>
MCCodes == <<"ProviderAuthFailed", "ProviderNetworkFailed">>
=============================================================================
