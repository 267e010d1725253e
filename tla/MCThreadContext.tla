--------------------------- MODULE MCThreadContext ---------------------------
(* Instances of ThreadContext for TLC.                                      *)
EXTENDS ThreadContext

(* Symmetry of the clients, for runs that check no liveness property. *)
ClientSymmetry == Permutations(Client)
=============================================================================
