---------------------------- MODULE MCProcHandle ----------------------------
(* Instances of ProcHandle for TLC. *)
EXTENDS ProcHandle

(* The same symbol name in two libraries, and one that does not exist. *)
MCSymbol == {<<1, "f">>, <<2, "f">>, <<1, "g">>}

MCAddress == [s \in MCSymbol |-> IF s[2] = "f" THEN 10 * s[1] ELSE 0]
=============================================================================
