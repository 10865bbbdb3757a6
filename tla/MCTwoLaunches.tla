---------------------------- MODULE MCTwoLaunches ----------------------------
(* Minting a session announces the marker, posting a decision the boundary *)
(* after it.                                                               *)
EXTENDS TwoLaunches

MCScript == <<"COMMITTED_WRITE_DONE", "DIR_FSYNC_DONE">>
MCReach  == <<0, 1, 2>>
=============================================================================
