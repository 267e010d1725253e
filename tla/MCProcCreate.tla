---------------------------- MODULE MCProcCreate ----------------------------
(* Instances of ProcCreate for TLC. *)
EXTENDS ProcCreate

(* Every venode, with lists that are absent, empty, in any order, or have  *)
(* an entry that is no number, and VE_NODE_NUMBER assigned or not.         *)
MCArguments ==
  (-2..2) \X {Unset, << >>, <<3, 1>>, <<1, Bad, 2>>} \X {Unset, Bad, 1, 2}

MCFault == Fallible
=============================================================================
