----------------------------- MODULE MCAsyncLog -----------------------------
(* The instance of AsyncLog that TLC checks. *)
EXTENDS AsyncLog
=============================================================================
