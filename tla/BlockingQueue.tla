---------------------------- MODULE BlockingQueue ----------------------------
(***************************************************************************)
(* veo::BlockingQueue (Command.hpp, Command.cpp): a deque guarded by a     *)
(* mutex, with a condition variable on which pop and wait block.  Every    *)
(* call is taken apart at the points where threads can interleave: the     *)
(* lock, the update of the deque, the notification, the unlock, and, for   *)
(* a call that finds nothing, the steps of cond.wait: it gives the mutex   *)
(* up and starts waiting in one step, it may wake with no notification     *)
(* (the standard allows it), it takes the mutex back, and the end of the   *)
(* loop's scope drops it again.                                            *)
(*                                                                         *)
(* A command is an object owned through a std::unique_ptr: it is passed to *)
(* push by a thread that owns it, and a call that removes it from the      *)
(* queue hands it to its caller.                                           *)
(***************************************************************************)
EXTENDS Naturals, Sequences, SequencesExt, CommandQueues

CONSTANTS
  Thread,     \* the threads that use the queue
  MsgId,      \* message IDs (uint64_t)
  Command,    \* command objects; each one carries its message ID in field id
  NoThread,   \* the mutex is free
  nullptr     \* no command

ASSUME CommandAssumption == \A cmd \in Command : cmd.id \in MsgId
ASSUME NoThreadAssumption == NoThread \notin Thread
ASSUME NullptrAssumption == nullptr \notin Command

VARIABLES
  queue,      \* BlockingQueue::queue, front first
  mtx,        \* BlockingQueue::mtx: its owner, or NoThread
  pc,         \* what each thread does next; "waiting" = blocked in cond.wait
  op,         \* the call each thread is in
  got         \* the command each thread owns as the result of its last call

vars == <<queue, mtx, pc, op, got>>

Abstract == INSTANCE AtomicQueue

Operation ==
  [name : {"push"}, cmd : Command]
    \cup [name : {"tryFind", "wait"}, id : MsgId]
    \cup [name : {"pop", "popNoWait"}]

(* What op says of a thread outside a call. *)
NoCall == [name |-> "none"]

PC == {"idle", "lock", "body", "notify", "unlock", "waiting", "relock", "release"}

(* The command is the argument of a push that has not moved it to the queue. *)
InFlight(t, cmd) ==
  /\ pc[t] \in {"lock", "body"}
  /\ op[t].name = "push"
  /\ op[t].cmd = cmd

-----------------------------------------------------------------------------
(* Faulty variant of the next definition: tryFindNoLock does not stop at the first match. *)
SelectsAnyMatch(t, i) ==
  \/ /\ op[t].name \in {"pop", "popNoWait"}
     /\ i = 1
  \/ /\ op[t].name \in {"tryFind", "wait"}
     /\ queue[i].id = op[t].id

(* The front of the queue for pop and popNoWait; for tryFind and wait the  *)
(* first command with the ID asked for (tryFindNoLock).                    *)
Selects(t, i) ==
  \/ /\ op[t].name \in {"pop", "popNoWait"}
     /\ i = 1
  \/ /\ op[t].name \in {"tryFind", "wait"}
     /\ Abstract!IsFirst(op[t].id, i)

(* Nothing in the queue is what thread t's call is looking for. *)
NothingFor(t) == ~ \E i \in 1..Len(queue) : Selects(t, i)

Blocking(t) == op[t].name \in {"pop", "wait"}

Goto(t, label) == pc' = [pc EXCEPT ![t] = label]

-----------------------------------------------------------------------------
(* Faulty variants of the definitions below, each with a mistake the code  *)
(* could contain.  No specification uses them; they serve to check that    *)
(* the properties notice such a mistake.                                   *)

(* push uses the pointer after it has been moved from. *)
PushBackMovedFrom(t) ==
  /\ pc[t] = "body"
  /\ op[t].name = "push"
  /\ Abstract!Push(nullptr)
  /\ Goto(t, "notify")
  /\ UNCHANGED <<mtx, op, got>>

(* push does not notify. *)
PushBackNoNotify(t) ==
  /\ pc[t] = "body"
  /\ op[t].name = "push"
  /\ Abstract!Push(op[t].cmd)
  /\ Goto(t, "unlock")
  /\ UNCHANGED <<mtx, op, got>>

(* push calls notify_one instead of notify_all. *)
NotifyOne(t) ==
  /\ pc[t] = "notify"
  /\ \/ \E u \in Thread :
          /\ pc[u] = "waiting"
          /\ pc' = [pc EXCEPT ![t] = "unlock", ![u] = "relock"]
     \/ /\ \A u \in Thread : pc[u] # "waiting"
        /\ Goto(t, "unlock")
  /\ UNCHANGED <<queue, mtx, op, got>>

(* The command found is returned but stays in the queue. *)
TakeNoErase(t) ==
  /\ pc[t] = "body"
  /\ \E i \in 1..Len(queue) :
       /\ Selects(t, i)
       /\ got' = [got EXCEPT ![t] = queue[i]]
  /\ Goto(t, "unlock")
  /\ UNCHANGED <<queue, mtx, op>>

-----------------------------------------------------------------------------
Init ==
  /\ queue = << >>
  /\ mtx = NoThread
  /\ pc = [t \in Thread |-> "idle"]
  /\ op = [t \in Thread |-> NoCall]
  /\ got = [t \in Thread |-> nullptr]

(* A thread enters a call.  The result of its previous call is either the  *)
(* argument of a push or goes out of scope.                                *)
Call(t, o) ==
  /\ pc[t] = "idle"
  /\ o.name = "push" =>
       /\ \A i \in 1..Len(queue) : queue[i] # o.cmd
       /\ \A u \in Thread \ {t} : got[u] # o.cmd /\ ~InFlight(u, o.cmd)
  /\ op' = [op EXCEPT ![t] = o]
  /\ got' = [got EXCEPT ![t] = nullptr]
  /\ Goto(t, "lock")
  /\ UNCHANGED <<queue, mtx>>

(* The constructor of the lock_guard or unique_lock. *)
Lock(t) ==
  /\ pc[t] = "lock"
  /\ mtx = NoThread
  /\ mtx' = t
  /\ Goto(t, "body")
  /\ UNCHANGED <<queue, op, got>>

(* push: queue.push_back *)
PushBack(t) ==
  /\ pc[t] = "body"
  /\ op[t].name = "push"
  /\ Abstract!Push(op[t].cmd)
  /\ Goto(t, "notify")
  /\ UNCHANGED <<mtx, op, got>>

(* push: cond.notify_all *)
NotifyAll(t) ==
  /\ pc[t] = "notify"
  /\ pc' = [u \in Thread |-> IF u = t THEN "unlock"
                             ELSE IF pc[u] = "waiting" THEN "relock" ELSE pc[u]]
  /\ UNCHANGED <<queue, mtx, op, got>>

(* pop, popNoWait, tryFind, wait: the command found leaves the queue. *)
Take(t) ==
  /\ pc[t] = "body"
  /\ \E i \in 1..Len(queue) :
       /\ Selects(t, i)
       /\ got' = [got EXCEPT ![t] = queue[i]]
       /\ queue' = RemoveAt(queue, i)
  /\ Goto(t, "unlock")
  /\ UNCHANGED <<mtx, op>>

(* popNoWait and tryFind find nothing and return nullptr. *)
TakeNothing(t) ==
  /\ pc[t] = "body"
  /\ op[t].name \in {"popNoWait", "tryFind"}
  /\ NothingFor(t)
  /\ Goto(t, "unlock")
  /\ UNCHANGED <<queue, mtx, op, got>>

(* pop and wait find nothing: cond.wait(lock) gives the mutex up and       *)
(* starts waiting.                                                         *)
CondWait(t) ==
  /\ pc[t] = "body"
  /\ Blocking(t)
  /\ NothingFor(t)
  /\ mtx' = NoThread
  /\ Goto(t, "waiting")
  /\ UNCHANGED <<queue, op, got>>

(* cond.wait wakes with no notification. *)
Spurious(t) ==
  /\ pc[t] = "waiting"
  /\ Goto(t, "relock")
  /\ UNCHANGED <<queue, mtx, op, got>>

(* cond.wait takes the mutex back before it returns. *)
Relock(t) ==
  /\ pc[t] = "relock"
  /\ mtx = NoThread
  /\ mtx' = t
  /\ Goto(t, "release")
  /\ UNCHANGED <<queue, op, got>>

(* The unique_lock goes out of scope at the end of the loop's body. *)
Release(t) ==
  /\ pc[t] = "release"
  /\ mtx' = NoThread
  /\ Goto(t, "lock")
  /\ UNCHANGED <<queue, op, got>>

(* The lock goes out of scope and the call returns. *)
Unlock(t) ==
  /\ pc[t] = "unlock"
  /\ mtx' = NoThread
  /\ Goto(t, "idle")
  /\ op' = [op EXCEPT ![t] = NoCall]
  /\ UNCHANGED <<queue, got>>

Body(t) ==
  \/ PushBack(t) \/ NotifyAll(t)
  \/ Take(t) \/ TakeNothing(t) \/ CondWait(t)
  \/ Release(t) \/ Unlock(t)

Acquire(t) == Lock(t) \/ Relock(t)

Next ==
  \E t \in Thread :
    \/ \E o \in Operation : Call(t, o)
    \/ Acquire(t)
    \/ Body(t)
    \/ Spurious(t)

Spec == Init /\ [][Next]_vars

(* A thread that holds the mutex runs on, and one that finds the mutex     *)
(* free again and again gets it in the end.  No thread has to make a call, *)
(* and nothing depends on a spurious wake-up.                              *)
Fairness ==
  \A t \in Thread : WF_vars(Body(t)) /\ SF_vars(Acquire(t))

FairSpec == Spec /\ Fairness

-----------------------------------------------------------------------------
(* Every variable has its type. *)
TypeOK ==
  /\ queue \in Seq(Command)
  /\ mtx \in Thread \cup {NoThread}
  /\ pc \in [Thread -> PC]
  /\ op \in [Thread -> Operation \cup {NoCall}]
  /\ got \in [Thread -> Command \cup {nullptr}]

(* The critical sections of push, pop, popNoWait, tryFind and wait exclude *)
(* each other: a thread between its lock and its unlock owns the mutex.    *)
MutualExclusion ==
  \A t \in Thread :
    pc[t] \in {"body", "notify", "unlock", "release"} <=> mtx = t

(* The command objects each thread owns: the result of its last call, and  *)
(* the argument of a push that has not moved it to the queue.              *)
Owned == [t \in Thread |-> {cmd \in Command : got[t] = cmd \/ InFlight(t, cmd)}]

(* A command object has one owner: it is in the queue once, or the         *)
(* argument of one push, or the result of one call, and never two of them; *)
(* no two calls of pop, popNoWait, tryFind or wait return the same object. *)
SingleOwner ==
  /\ \A i, j \in 1..Len(queue) : queue[i] = queue[j] => i = j
  /\ \A t \in Thread, i \in 1..Len(queue) : queue[i] \notin Owned[t]
  /\ \A t, u \in Thread : t # u => Owned[t] \cap Owned[u] = {}

(* No wake-up is lost: when a thread blocks in cond.wait although the      *)
(* queue holds a command its pop or wait is looking for, the push that     *)
(* brought the command still has its notify_all to do.                     *)
NoLostWakeup ==
  \A t \in Thread :
    pc[t] = "waiting" /\ ~NothingFor(t) => \E u \in Thread : pc[u] = "notify"

(* Every change of the deque is one whole push, pop or removal by ID.      *)
ImplementsAtomicQueue == Abstract!Spec

(* Thread t is inside wait(msgid). *)
InWait(t, msgid) ==
  /\ pc[t] # "idle"
  /\ op[t].name = "wait"
  /\ op[t].id = msgid
  /\ got[t] = nullptr

(* A wait(msgid) whose command is in the queue gets it, unless another     *)
(* call takes it first: no notification is lost and no waiter is left      *)
(* behind by the loop around cond.wait.                                    *)
WaitServed ==
  \A t \in Thread, msgid \in MsgId :
    (InWait(t, msgid) /\ msgid \in IdsOf(queue))
      ~> (~InWait(t, msgid) \/ msgid \notin IdsOf(queue))
=============================================================================
