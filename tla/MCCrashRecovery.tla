--------------------------- MODULE MCCrashRecovery ---------------------------
(* Minting a session announces the marker, posting a decision the boundary *)
(* after it.                                                               *)
EXTENDS CrashRecovery

MCScript == <<"COMMITTED_WRITE_DONE", "DIR_FSYNC_DONE">>
MCReach  == <<0, 1, 2>>
=============================================================================
