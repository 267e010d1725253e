---------------------------- MODULE NodeSelection ----------------------------
(***************************************************************************)
(* The choice of the VE node in veo_proc_create_static (api.cpp): from the *)
(* argument venode and two environment variables, _VENODELIST, in which    *)
(* the job scheduler lists the physical nodes assigned to the program, and *)
(* VE_NODE_NUMBER.  A number in the environment is given by what stoi      *)
(* makes of it: an integer, or Bad when it throws.                         *)
(***************************************************************************)
EXTENDS Integers, Sequences

CONSTANTS
  Unset,        \* an environment variable that is not set
  Bad,          \* text for which stoi throws invalid_argument or out_of_range
  NoNode        \* veo_proc_create_static returns NULL

(* The loop over _VENODELIST meets node before a number it cannot read. *)
Found(node, list) ==
  \E i \in 1..Len(list) : list[i] = node /\ \A j \in 1..(i - 1) : list[j] # Bad

(* Mutant of Default: VE_NODE_NUMBER is not looked up in the list. *)
DefaultUnchecked(list, number) ==
  IF number # Unset THEN number
  ELSE IF list = Unset THEN 0
       ELSE IF Len(list) > 0 THEN list[1] ELSE Bad

(* venode is an index into _VENODELIST. *)
Translate(venode, list) == IF Len(list) <= venode THEN Bad ELSE list[venode + 1]

(* venode is -1. *)
Default(list, number) ==
  IF number # Unset
  THEN IF list = Unset \/ (number # Bad /\ Found(number, list)) THEN number ELSE Bad
  ELSE IF list = Unset THEN 0
       ELSE IF Len(list) > 0 THEN list[1] ELSE Bad

SelectNode(venode, list, number) ==
  LET node == CASE venode < -1 -> Bad
                [] venode = -1 -> Default(list, number)
                [] venode >= 0 /\ list # Unset -> Translate(venode, list)
                [] OTHER -> venode
  IN  IF node = Bad THEN NoNode ELSE node
=============================================================================
