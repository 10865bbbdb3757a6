------------------------------ MODULE MCMemMock ------------------------------
(* Callers may name a corpus note and the first id the mock would mint.    *)
EXTENDS MemMock

MCAutoIds == <<"auto1", "auto2", "auto3", "auto4", "auto5">>
MCRanked  == <<"seed1", "seed2">>
=============================================================================
