---------------------------- MODULE MCThreadPool ----------------------------
(***************************************************************************)
(* A dynamic pool small enough that the queue is at times busy and at      *)
(* times idle: two to three tasks, one or two workers, a third thread      *)
(* identity for a pool that would grow too far.                            *)
(***************************************************************************)
EXTENDS ThreadPool

=============================================================================
