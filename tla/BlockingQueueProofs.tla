------------------------- MODULE BlockingQueueProofs -------------------------
(***************************************************************************)
(* Proofs about BlockingQueue, for any set of threads, message IDs and     *)
(* command objects: its type invariant, mutual exclusion, single ownership *)
(* of command objects, that no wake-up is lost, and that it implements     *)
(* AtomicQueue.                                                            *)
(***************************************************************************)
EXTENDS BlockingQueue, QueueLemmas

(* Only pop and wait use the condition variable, and a call that is not    *)
(* over holds no result.                                                   *)
CallShape ==
  \A t \in Thread :
    /\ pc[t] \in {"waiting", "relock", "release"} => Blocking(t)
    /\ pc[t] = "notify" => op[t].name = "push"
    /\ pc[t] \notin {"idle", "unlock"} => got[t] = nullptr

(* The inductive invariant. *)
Inv == TypeOK /\ MutualExclusion /\ CallShape /\ SingleOwner /\ NoLostWakeup

-----------------------------------------------------------------------------
(* Every action keeps the types. *)
LEMMA TypeStep == TypeOK /\ [Next]_vars => TypeOK'
<1> SUFFICES ASSUME TypeOK, [Next]_vars PROVE TypeOK'
  OBVIOUS
<1> USE DEF TypeOK, Goto, PC
<1>1. ASSUME NEW t \in Thread, NEW o \in Operation, Call(t, o) PROVE TypeOK'
  BY <1>1 DEF Call
<1>2. ASSUME NEW t \in Thread, Acquire(t) PROVE TypeOK'
  BY <1>2 DEF Acquire, Lock, Relock
<1>3. ASSUME NEW t \in Thread, Body(t) PROVE TypeOK'
  <2>1. CASE PushBack(t)
    <3>1. op[t].cmd \in Command
      BY <2>1 DEF PushBack, Operation, NoCall
    <3>2. queue' \in Seq(Command)
      BY <2>1, <3>1, AppendFacts DEF PushBack, Abstract!Push
    <3> QED
      BY <2>1, <3>2 DEF PushBack
  <2>2. CASE NotifyAll(t)
    BY <2>2 DEF NotifyAll
  <2>3. CASE Take(t)
    <3>1. PICK i \in 1..Len(queue) : /\ got' = [got EXCEPT ![t] = queue[i]]
                                     /\ queue' = RemoveAt(queue, i)
      BY <2>3 DEF Take
    <3>2. queue[i] \in Command
      BY ElementOfSeq
    <3>3. queue' \in Seq(Command)
      BY <3>1, RemoveAtFacts
    <3> QED
      BY <2>3, <3>1, <3>2, <3>3 DEF Take
  <2>4. CASE TakeNothing(t)
    BY <2>4 DEF TakeNothing
  <2>5. CASE CondWait(t)
    BY <2>5 DEF CondWait
  <2>6. CASE Release(t)
    BY <2>6 DEF Release
  <2>7. CASE Unlock(t)
    BY <2>7 DEF Unlock
  <2> QED
    BY <1>3, <2>1, <2>2, <2>3, <2>4, <2>5, <2>6, <2>7 DEF Body
<1>4. ASSUME NEW t \in Thread, Spurious(t) PROVE TypeOK'
  BY <1>4 DEF Spurious
<1>5. CASE UNCHANGED vars
  BY <1>5 DEF vars
<1> QED
  BY <1>1, <1>2, <1>3, <1>4, <1>5 DEF Next

(* Every variable of the queue keeps its type, whatever its users do. *)
THEOREM TypeCorrect == Spec => []TypeOK
<1>1. Init => TypeOK
  BY EmptySeq DEF Init, TypeOK, PC, Operation
<1>2. TypeOK /\ [Next]_vars => TypeOK'
  BY TypeStep
<1> QED
  BY <1>1, <1>2, PTL DEF Spec

-----------------------------------------------------------------------------
(* What is left of a step of Body: every action but the two that change    *)
(* the queue only moves control.                                           *)
Quiet(t) ==
  \/ NotifyAll(t) \/ TakeNothing(t) \/ CondWait(t) \/ Release(t) \/ Unlock(t)

(* The mutex is held by the thread in a critical section, and calls have   *)
(* the shape CallShape says.                                               *)
LEMMA MutexStep ==
  TypeOK /\ MutualExclusion /\ CallShape /\ [Next]_vars => (MutualExclusion /\ CallShape)'
<1> SUFFICES ASSUME TypeOK, MutualExclusion, CallShape, [Next]_vars
             PROVE  (MutualExclusion /\ CallShape)'
  OBVIOUS
<1> USE NoThreadAssumption DEF TypeOK, MutualExclusion, CallShape, Goto, Blocking, PC
<1>1. ASSUME NEW t \in Thread, NEW o \in Operation, Call(t, o)
      PROVE  (MutualExclusion /\ CallShape)'
  BY <1>1 DEF Call
<1>2. ASSUME NEW t \in Thread, Acquire(t) PROVE (MutualExclusion /\ CallShape)'
  BY <1>2 DEF Acquire, Lock, Relock
<1>3. ASSUME NEW t \in Thread, Body(t) PROVE (MutualExclusion /\ CallShape)'
  <2>1. CASE PushBack(t)
    BY <2>1 DEF PushBack
  <2>2. CASE NotifyAll(t)
    BY <2>2 DEF NotifyAll
  <2>3. CASE Take(t)
    BY <2>3 DEF Take
  <2>4. CASE TakeNothing(t)
    BY <2>4 DEF TakeNothing
  <2>5. CASE CondWait(t)
    BY <2>5 DEF CondWait
  <2>6. CASE Release(t)
    BY <2>6 DEF Release
  <2>7. CASE Unlock(t)
    BY <2>7 DEF Unlock
  <2> QED
    BY <1>3, <2>1, <2>2, <2>3, <2>4, <2>5, <2>6, <2>7 DEF Body
<1>4. ASSUME NEW t \in Thread, Spurious(t) PROVE (MutualExclusion /\ CallShape)'
  BY <1>4 DEF Spurious
<1>5. CASE UNCHANGED vars
  BY <1>5 DEF vars
<1> QED
  BY <1>1, <1>2, <1>3, <1>4, <1>5 DEF Next

(* The critical sections of the queue's methods exclude each other, for    *)
(* any number of threads.                                                  *)
THEOREM MutexCorrect == Spec => []MutualExclusion
<1>1. Init => TypeOK /\ MutualExclusion /\ CallShape
  BY EmptySeq, NoThreadAssumption
  DEF Init, TypeOK, MutualExclusion, CallShape, PC, Operation
<1>2. TypeOK /\ MutualExclusion /\ CallShape /\ [Next]_vars
        => (TypeOK /\ MutualExclusion /\ CallShape)'
  BY TypeStep, MutexStep
<1> QED
  BY <1>1, <1>2, PTL DEF Spec

-----------------------------------------------------------------------------
(* A step that adds a command to the queue keeps its owner unique. *)
LEMMA PushOwner ==
  ASSUME TypeOK, CallShape, SingleOwner, NEW t \in Thread, PushBack(t)
  PROVE  SingleOwner'
<1> DEFINE c == op[t].cmd
<1>1. c \in Command /\ Len(queue) \in Nat
  BY LenProperties DEF PushBack, TypeOK, Operation, NoCall
<1>2. /\ Len(queue') = Len(queue) + 1
      /\ \A i \in 1..Len(queue) : queue'[i] = queue[i]
      /\ queue'[Len(queue) + 1] = c
  BY <1>1, AppendFacts DEF PushBack, Abstract!Push, TypeOK
<1>3. c \in Owned[t]
  BY <1>1 DEF PushBack, InFlight, Owned
<1>4. Owned'[t] = {}
  BY NullptrAssumption DEF PushBack, Goto, InFlight, Owned, TypeOK, CallShape
<1>5. \A u \in Thread : u # t => Owned'[u] = Owned[u]
  BY DEF PushBack, Goto, InFlight, Owned, TypeOK
<1>6. \A i, j \in 1..Len(queue') : queue'[i] = queue'[j] => i = j
  BY <1>1, <1>2, <1>3 DEF SingleOwner
<1>7. \A u \in Thread, i \in 1..Len(queue') : queue'[i] \notin Owned'[u]
  BY <1>1, <1>2, <1>3, <1>4, <1>5 DEF SingleOwner
<1>8. \A u, v \in Thread : u # v => Owned'[u] \cap Owned'[v] = {}
  BY <1>4, <1>5 DEF SingleOwner
<1> QED
  BY <1>6, <1>7, <1>8 DEF SingleOwner

(* A step that hands a command to its caller keeps its owner unique. *)
LEMMA TakeOwner ==
  ASSUME TypeOK, CallShape, SingleOwner, NEW t \in Thread, Take(t)
  PROVE  SingleOwner'
<1>1. PICK k \in 1..Len(queue) : /\ got' = [got EXCEPT ![t] = queue[k]]
                                 /\ queue' = RemoveAt(queue, k)
  BY DEF Take
<1>2. /\ Len(queue) \in Nat
      /\ Len(queue') = Len(queue) - 1
      /\ \A j \in 1..(Len(queue) - 1) :
           queue'[j] = IF j < k THEN queue[j] ELSE queue[j + 1]
  BY <1>1, RemoveAtFacts DEF TypeOK
<1>3. queue[k] \in Command
  BY ElementOfSeq DEF TypeOK
<1>4. Owned'[t] = {queue[k]}
  BY <1>1, <1>3 DEF Take, Goto, InFlight, Owned, TypeOK
<1>5. \A u \in Thread : u # t => Owned'[u] = Owned[u]
  BY <1>1 DEF Take, Goto, InFlight, Owned, TypeOK
<1>6. \A j \in 1..Len(queue') :
        \E i \in 1..Len(queue) : /\ i # k /\ queue'[j] = queue[i]
                                 /\ i = IF j < k THEN j ELSE j + 1
  BY <1>2
<1>7. \A i, j \in 1..Len(queue') : queue'[i] = queue'[j] => i = j
  <2> TAKE i, j \in 1..Len(queue')
  <2>1. PICK a \in 1..Len(queue) : queue'[i] = queue[a] /\ a = IF i < k THEN i ELSE i + 1
    BY <1>6
  <2>2. PICK b \in 1..Len(queue) : queue'[j] = queue[b] /\ b = IF j < k THEN j ELSE j + 1
    BY <1>6
  <2>3. queue[a] = queue[b] => a = b
    BY DEF SingleOwner
  <2> QED
    BY <2>1, <2>2, <2>3, <1>2
<1>8. \A u \in Thread, j \in 1..Len(queue') : queue'[j] \notin Owned'[u]
  BY <1>4, <1>5, <1>6 DEF SingleOwner
<1>9. \A u, v \in Thread : u # v => Owned'[u] \cap Owned'[v] = {}
  BY <1>4, <1>5 DEF SingleOwner
<1> QED
  BY <1>7, <1>8, <1>9 DEF SingleOwner

(* Every action keeps the owner of a command object unique. *)
LEMMA OwnerStep ==
  TypeOK /\ CallShape /\ SingleOwner /\ [Next]_vars => SingleOwner'
<1> SUFFICES ASSUME TypeOK, CallShape, SingleOwner, [Next]_vars PROVE SingleOwner'
  OBVIOUS
<1>1. ASSUME NEW t \in Thread, NEW o \in Operation, Call(t, o) PROVE SingleOwner'
  <2>1. queue' = queue
    BY <1>1 DEF Call
  <2>2. \A u \in Thread : u # t => Owned'[u] = Owned[u]
    BY <1>1 DEF Call, Goto, InFlight, Owned, TypeOK
  <2>3. CASE o.name = "push"
    <3>1. Owned'[t] \subseteq {o.cmd}
      BY <1>1, NullptrAssumption DEF Call, Goto, InFlight, Owned, TypeOK
    <3>2. \A i \in 1..Len(queue) : queue[i] # o.cmd
      BY <1>1, <2>3 DEF Call
    <3>3. \A u \in Thread : u # t => o.cmd \notin Owned[u]
      BY <1>1, <2>3 DEF Call, Owned
    <3> QED
      BY <2>1, <2>2, <3>1, <3>2, <3>3 DEF SingleOwner
  <2>4. CASE o.name # "push"
    <3>1. Owned'[t] = {}
      BY <1>1, <2>4, NullptrAssumption DEF Call, Goto, InFlight, Owned, TypeOK
    <3> QED
      BY <2>1, <2>2, <3>1 DEF SingleOwner
  <2> QED
    BY <2>3, <2>4
<1>2. ASSUME queue' = queue, \A u \in Thread : Owned'[u] \subseteq Owned[u]
      PROVE  SingleOwner'
  BY <1>2 DEF SingleOwner
<1>3. ASSUME NEW t \in Thread, Acquire(t) PROVE SingleOwner'
  BY <1>3, <1>2 DEF Acquire, Lock, Relock, Goto, InFlight, Owned, TypeOK
<1>4. ASSUME NEW t \in Thread, Quiet(t) PROVE SingleOwner'
  <2>1. CASE NotifyAll(t)
    BY <2>1, <1>2 DEF NotifyAll, InFlight, Owned, TypeOK
  <2>2. CASE TakeNothing(t) \/ CondWait(t) \/ Unlock(t)
    BY <2>2, <1>2 DEF TakeNothing, CondWait, Unlock, Goto, InFlight, Owned, TypeOK
  <2>3. CASE Release(t)
    BY <2>3, <1>2 DEF Release, Goto, InFlight, Owned, TypeOK, CallShape, Blocking
  <2> QED
    BY <1>4, <2>1, <2>2, <2>3 DEF Quiet
<1>5. ASSUME NEW t \in Thread, Spurious(t) PROVE SingleOwner'
  BY <1>5, <1>2 DEF Spurious, Goto, InFlight, Owned, TypeOK
<1>6. CASE UNCHANGED vars
  BY <1>6, <1>2 DEF vars, InFlight, Owned
<1> QED
  BY <1>1, <1>3, <1>4, <1>5, <1>6, PushOwner, TakeOwner DEF Next, Body, Quiet

(* A command object has one owner in every reachable state: no two calls   *)
(* on the queue ever return the same object, for any number of threads.    *)
THEOREM OwnerCorrect == Spec => []SingleOwner
<1> DEFINE I == TypeOK /\ MutualExclusion /\ CallShape /\ SingleOwner
<1>1. Init => I
  BY EmptySeq, NoThreadAssumption, NullptrAssumption
  DEF Init, TypeOK, MutualExclusion, CallShape, SingleOwner, Owned, InFlight, PC, Operation
<1>2. I /\ [Next]_vars => I'
  BY TypeStep, MutexStep, OwnerStep
<1> QED
  BY <1>1, <1>2, PTL DEF Spec

-----------------------------------------------------------------------------
(* Removing a command from the queue gives no blocked call what it was     *)
(* looking for: if its first match is at some position afterwards, it had  *)
(* one before.                                                             *)
LEMMA RemovalSelectsNothing ==
  ASSUME TypeOK, NEW t \in Thread, NothingFor(t), op' = op,
         NEW k \in 1..Len(queue), queue' = RemoveAt(queue, k)
  PROVE  NothingFor(t)'
<1>1. /\ Len(queue) \in Nat
      /\ Len(queue') = Len(queue) - 1
      /\ \A j \in 1..(Len(queue) - 1) :
           queue'[j] = IF j < k THEN queue[j] ELSE queue[j + 1]
  BY RemoveAtFacts DEF TypeOK
<1>2. CASE op[t].name \in {"pop", "popNoWait"}
  <2>1. 1 \in 1..Len(queue)
    BY <1>1
  <2> QED
    BY <1>2, <2>1 DEF NothingFor, Selects
<1>3. CASE op[t].name \notin {"pop", "popNoWait"}
  <2> SUFFICES ASSUME NEW j \in 1..Len(queue'), Selects(t, j)'
               PROVE  \E i \in 1..Len(queue) : Selects(t, i)
    BY DEF NothingFor
  <2> DEFINE m == op[t].id
  <2>1. /\ op[t].name \in {"tryFind", "wait"}
        /\ queue'[j].id = m
        /\ \A h \in 1..(j - 1) : queue'[h].id # m
    BY <1>3 DEF Selects, Abstract!IsFirst
  <2>2. \A i \in 1..Len(queue) :
          (queue[i].id = m /\ \A h \in 1..(i - 1) : queue[h].id # m) => Selects(t, i)
    BY <2>1 DEF Selects, Abstract!IsFirst
  <2>3. CASE j < k
    <3>1. j \in 1..Len(queue) /\ queue[j].id = m
      BY <1>1, <2>1, <2>3
    <3>2. \A h \in 1..(j - 1) : queue[h].id # m
      BY <1>1, <2>1, <2>3
    <3> QED
      BY <2>2, <3>1, <3>2
  <2>4. CASE ~(j < k)
    <3>1. j + 1 \in 1..Len(queue) /\ queue[j + 1].id = m
      BY <1>1, <2>1, <2>4
    <3>2. \A h \in 1..(k - 1) : queue[h].id # m
      BY SMTT(30), <1>1, <2>1, <2>4
    <3>3. \A h \in (k + 1)..j : queue[h].id # m
      <4> TAKE h \in (k + 1)..j
      <4>1. h - 1 \in 1..(j - 1) /\ h - 1 \in 1..(Len(queue) - 1) /\ ~(h - 1 < k)
        BY <1>1
      <4>2. queue'[h - 1] = queue[h - 1 + 1] /\ h - 1 + 1 = h
        BY <4>1, <1>1
      <4> QED
        BY <4>1, <4>2, <2>1
    <3>4. CASE queue[k].id = m
      BY <2>2, <3>2, <3>4
    <3>5. CASE queue[k].id # m
      <4>1. \A h \in 1..j : h \in 1..(k - 1) \/ h = k \/ h \in (k + 1)..j
        BY <1>1, <2>4
      <4>2. \A h \in 1..(j + 1 - 1) : queue[h].id # m
        BY <1>1, <3>2, <3>3, <3>5, <4>1
      <4> QED
        BY <2>2, <3>1, <4>2
    <3> QED
      BY <3>4, <3>5
  <2> QED
    BY <2>3, <2>4
<1> QED
  BY <1>2, <1>3

(* Every action keeps the promise that a waiting thread with something to   *)
(* take is about to be notified.                                           *)
LEMMA WakeupStep ==
  TypeOK /\ MutualExclusion /\ NoLostWakeup /\ [Next]_vars => NoLostWakeup'
<1> SUFFICES ASSUME TypeOK, MutualExclusion, NoLostWakeup, [Next]_vars,
                    NEW w \in Thread, pc'[w] = "waiting", ~NothingFor(w)'
             PROVE  \E u \in Thread : pc'[u] = "notify"
  BY DEF NoLostWakeup
<1>1. ASSUME pc[w] = "waiting", op'[w] = op[w], queue' = queue,
             \A u \in Thread : pc[u] = "notify" => pc'[u] = "notify"
      PROVE  \E u \in Thread : pc'[u] = "notify"
  <2>1. ~NothingFor(w)
    BY <1>1 DEF NothingFor, Selects, Abstract!IsFirst
  <2> QED
    BY <2>1, <1>1 DEF NoLostWakeup
<1>2. ASSUME NEW t \in Thread, NEW o \in Operation, Call(t, o)
      PROVE  \E u \in Thread : pc'[u] = "notify"
  BY <1>1, <1>2 DEF Call, Goto, TypeOK
<1>3. ASSUME NEW t \in Thread, Acquire(t) \/ Spurious(t)
      PROVE  \E u \in Thread : pc'[u] = "notify"
  BY <1>1, <1>3 DEF Acquire, Lock, Relock, Spurious, Goto, TypeOK
<1>4. ASSUME NEW t \in Thread, Quiet(t)
      PROVE  \E u \in Thread : pc'[u] = "notify"
  <2>1. CASE NotifyAll(t)
    BY <2>1 DEF NotifyAll, TypeOK
  <2>2. CASE CondWait(t)
    <3>1. CASE w = t
      BY <2>2, <3>1 DEF CondWait, NothingFor, Selects, Abstract!IsFirst
    <3>2. CASE w # t
      BY <1>1, <2>2, <3>2 DEF CondWait, Goto, TypeOK
    <3> QED
      BY <3>1, <3>2
  <2>3. CASE TakeNothing(t) \/ Release(t) \/ Unlock(t)
    BY <1>1, <2>3 DEF TakeNothing, Release, Unlock, Goto, TypeOK
  <2> QED
    BY <1>4, <2>1, <2>2, <2>3 DEF Quiet
<1>5. ASSUME NEW t \in Thread, PushBack(t)
      PROVE  \E u \in Thread : pc'[u] = "notify"
  BY <1>5 DEF PushBack, Goto, TypeOK
<1>6. ASSUME NEW t \in Thread, Take(t)
      PROVE  \E u \in Thread : pc'[u] = "notify"
  <2>1. pc[w] = "waiting" /\ op' = op
    BY <1>6 DEF Take, Goto, TypeOK
  <2>2. PICK k \in 1..Len(queue) : queue' = RemoveAt(queue, k)
    BY <1>6 DEF Take
  <2>3. ~ \E u \in Thread : pc[u] = "notify"
    BY <1>6 DEF Take, MutualExclusion
  <2>4. NothingFor(w)
    BY <2>1, <2>3 DEF NoLostWakeup
  <2> QED
    BY <2>1, <2>2, <2>4, RemovalSelectsNothing
<1>7. CASE UNCHANGED vars
  BY <1>1, <1>7 DEF vars
<1> QED
  BY <1>2, <1>3, <1>4, <1>5, <1>6, <1>7 DEF Next, Body, Quiet

(* No wake-up is lost: a thread blocked in cond.wait while the queue holds *)
(* what it is looking for is about to be notified by the push that brought *)
(* it.                                                                     *)
THEOREM WakeupCorrect == Spec => []NoLostWakeup
<1>1. Init => Inv
  BY EmptySeq, NoThreadAssumption, NullptrAssumption
  DEF Init, Inv, TypeOK, MutualExclusion, CallShape, SingleOwner, Owned, InFlight,
      NoLostWakeup, PC, Operation
<1>2. Inv /\ [Next]_vars => Inv'
  BY TypeStep, MutexStep, OwnerStep, WakeupStep DEF Inv
<1>3. Inv => NoLostWakeup
  BY DEF Inv
<1> QED
  BY <1>1, <1>2, <1>3, PTL DEF Spec

-----------------------------------------------------------------------------
(* Every step of the queue is a step of AtomicQueue or changes nothing. *)
LEMMA RefinementStep == TypeOK /\ [Next]_vars => [Abstract!Next]_queue
<1> SUFFICES ASSUME TypeOK, [Next]_vars PROVE [Abstract!Next]_queue
  OBVIOUS
<1>1. ASSUME NEW t \in Thread, PushBack(t) PROVE [Abstract!Next]_queue
  <2>1. op[t].cmd \in Command
    BY <1>1 DEF PushBack, TypeOK, Operation, NoCall
  <2> QED
    BY <1>1, <2>1 DEF PushBack, Abstract!Next
<1>2. ASSUME NEW t \in Thread, Take(t) PROVE [Abstract!Next]_queue
  <2>1. PICK i \in 1..Len(queue) : Selects(t, i) /\ queue' = RemoveAt(queue, i)
    BY <1>2 DEF Take
  <2>2. CASE op[t].name \in {"pop", "popNoWait"}
    <3>1. i = 1
      BY <2>1, <2>2 DEF Selects
    <3>2. queue # << >>
      BY <3>1, EmptySeq
    <3>3. queue' = Tail(queue)
      BY <2>1, <3>1, <3>2, RemoveAtFront DEF TypeOK
    <3> QED
      BY <3>2, <3>3 DEF Abstract!Next, Abstract!Pop
  <2>3. CASE op[t].name \notin {"pop", "popNoWait"}
    <3>1. op[t].name \in {"tryFind", "wait"} /\ Abstract!IsFirst(op[t].id, i)
      BY <2>1, <2>3 DEF Selects
    <3>2. op[t].id \in MsgId
      BY <3>1 DEF TypeOK, Operation, NoCall
    <3>3. Abstract!TakeAt(op[t].id, i)
      BY <2>1, <3>1 DEF Abstract!TakeAt, Abstract!RemoveAt, RemoveAt
    <3> QED
      BY <3>2, <3>3 DEF Abstract!Next
  <2> QED
    BY <2>2, <2>3
<1>3. ASSUME NEW t \in Thread, Acquire(t) \/ Spurious(t) \/ Quiet(t)
      PROVE  queue' = queue
  BY <1>3 DEF Acquire, Lock, Relock, Spurious, Quiet, NotifyAll, TakeNothing,
              CondWait, Release, Unlock
<1>4. ASSUME NEW t \in Thread, NEW o \in Operation, Call(t, o) PROVE queue' = queue
  BY <1>4 DEF Call
<1> QED
  BY <1>1, <1>2, <1>3, <1>4 DEF Next, Body, Quiet, vars

(* The queue with its mutex and condition variable implements the atomic   *)
(* queue: every change of the deque is one whole push, pop or removal by   *)
(* message ID.                                                             *)
THEOREM Refinement == Spec => ImplementsAtomicQueue
<1>1. Init => Abstract!Init
  BY DEF Init, Abstract!Init
<1>2. TypeOK /\ [Next]_vars => [Abstract!Next]_queue
  BY RefinementStep
<1> QED
  BY <1>1, <1>2, TypeCorrect, PTL DEF Spec, ImplementsAtomicQueue, Abstract!Spec
=============================================================================
