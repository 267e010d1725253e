----------------------------- MODULE AtomicQueue -----------------------------
(***************************************************************************)
(* What a veo::BlockingQueue promises to its users: its content changes    *)
(* only by whole operations, each of which takes effect in one step.       *)
(*                                                                         *)
(*   push               appends a command at the back                      *)
(*   pop, popNoWait     remove the command at the front                    *)
(*   tryFind, wait      remove the first command with a given message ID   *)
(*                                                                         *)
(* Module BlockingQueue (mutex, condition variable) is shown to implement  *)
(* this one; module ThreadContext uses the operations of this one for its  *)
(* request and its completion queue.                                       *)
(***************************************************************************)
EXTENDS Naturals, Sequences, SequencesExt

CONSTANTS
  MsgId,      \* message IDs (uint64_t)
  Command     \* commands; each one carries its message ID in the field id

VARIABLE
  queue       \* std::deque<std::unique_ptr<Command>>, front first

(***************************************************************************)
(* The command at position i is the one tryFindNoLock(msgid) returns: the  *)
(* first with that ID.                                                     *)
(***************************************************************************)
IsFirst(msgid, i) ==
  /\ i \in 1..Len(queue)
  /\ queue[i].id = msgid
  /\ \A j \in 1..(i - 1) : queue[j].id # msgid

-----------------------------------------------------------------------------
Init == queue = << >>

Push(cmd) == queue' = Append(queue, cmd)

Pop ==
  /\ queue # << >>
  /\ queue' = Tail(queue)

TakeAt(msgid, i) ==
  /\ IsFirst(msgid, i)
  /\ queue' = RemoveAt(queue, i)

Next ==
  \/ \E cmd \in Command : Push(cmd)
  \/ Pop
  \/ \E msgid \in MsgId : \E i \in 1..Len(queue) : TakeAt(msgid, i)

Spec == Init /\ [][Next]_queue
=============================================================================
