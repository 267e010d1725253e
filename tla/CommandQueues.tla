---------------------------- MODULE CommandQueues ----------------------------
(* Vocabulary for a queue of commands, a sequence of records with an id. *)
EXTENDS Naturals, Sequences

(* The message IDs of the commands in the queue. *)
IdsOf(q) == {q[i].id : i \in 1..Len(q)}

(* No two commands in the queue have the same message ID. *)
DistinctIds(q) == \A i, j \in 1..Len(q) : q[i].id = q[j].id => i = j
=============================================================================
