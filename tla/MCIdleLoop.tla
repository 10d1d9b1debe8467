----------------------------- MODULE MCIdleLoop -----------------------------
EXTENDS IdleLoop, TLC

(* The clients are alike, but for the one whose answers may become unsendable
   and whose handlings are counted. *)
ConnSymmetry == Permutations(Conns \ (Counted \cup Failing))
=============================================================================
