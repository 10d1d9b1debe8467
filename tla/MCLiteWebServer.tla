-------------------------- MODULE MCLiteWebServer --------------------------
(* TLC instances of LiteWebServer: the .cfg files give the constants. *)
EXTENDS LiteWebServer, TLC

Symmetry == Permutations(Fds)
=============================================================================
