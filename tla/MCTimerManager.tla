--------------------------- MODULE MCTimerManager ---------------------------
(* TLC instances of TimerManager: the .cfg files give the constants. *)
EXTENDS TimerManager
=============================================================================
