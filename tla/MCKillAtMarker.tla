--------------------------- MODULE MCKillAtMarker ---------------------------
(* An implementation that announces one marker while booting and, once     *)
(* driven, the one the launch waits for and the boundary after it.         *)
EXTENDS KillAtMarker

MCScript == <<"AUDIT_APPEND_DONE", "COMMITTED_WRITE_DONE", "DIR_FSYNC_DONE">>
MCReach  == <<1, 1, 3>>
=============================================================================
