--------------------------- MODULE MCBlockingQueue ---------------------------
(* Instances of BlockingQueue for TLC: a few threads, and command objects   *)
(* of which two share a message ID.                                         *)
EXTENDS BlockingQueue

MCMsgId == {1, 2}

(* Two objects with ID 1, one with ID 2. *)
MCCommand == {[id |-> 1, obj |-> "a"], [id |-> 1, obj |-> "b"], [id |-> 2, obj |-> "c"]}
=============================================================================
