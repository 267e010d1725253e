------------------------- MODULE ContextCloseProofs -------------------------
(***************************************************************************)
(* What veo_context_close and callWaitResult rely on, proved for any set   *)
(* of clients and any number of requests: when close returns, the pseudo   *)
(* thread has ended and every request pushed before has been executed; no  *)
(* request vanishes; and nobody waits for a result that cannot come.       *)
(* Most of it does not hold once a command may fail (runs close_early and  *)
(* lost_request), so the theorems say which failures they exclude.         *)
(***************************************************************************)
EXTENDS ContextServiceProofs

(* No handler of a command returns non-zero. *)
CommandsSucceed == Fault \cap {"exception", "mem"} = {}

(* veo_context_close is called when no other client is inside a call, and  *)
(* none begins one until it has returned.                                  *)
CloserInv ==
  /\ \A c \in Client :
       pc[c] # "idle" /\ kind[c] = "close" => \A d \in Client \ {c} : pc[d] = "idle"
  /\ \A c \in Client : pc[c] = "close" => kind[c] = "close"
  /\ freed => \A c \in Client : pc[c] = "idle"

(* Where the command of a client that waits in close is: in the queue, in  *)
(* the hand of the pseudo thread, or past its end.                         *)
Pending(c) ==
  \/ \E i \in 1..Len(request) : request[i].id = reqid[c] /\ request[i].kind = "close"
  \/ cmd.id = reqid[c] /\ cmd.kind = "close"
  \/ ppc = "dead"

Awaited(id) == \E c \in Client : pc[c] = "close" /\ reqid[c] = id

(* The close command is the last one in the queue and has a client waiting *)
(* for it, from its push to its reply.                                     *)
CommandInv ==
  /\ ppc \notin {"fail", "closeq", "pushfail", "drain", "drainpush"}
  /\ queue_state = "READY"
  /\ \A i \in 1..Len(request) : request[i].kind = "close" => i = Len(request) /\ Awaited(request[i].id)
  /\ cmd.kind = "close" => ppc \in {"exec", "reply"} /\ request = << >> /\ Awaited(cmd.id)
  /\ ppc = "reply" => cmd.kind = "close"
  /\ \A c \in Client : pc[c] = "close" => Pending(c)
  /\ freed => ppc = "dead"

CloseInv == CloserInv /\ CommandInv

(* The pseudo thread ends by a close only, after the last request. *)
DoneInv ==
  /\ ppc = "dead" => freed \/ \E c \in Client : pc[c] = "close"
  /\ ppc \in {"reply", "dead"} => \A i \in 1..Len(pushed) : outcome[pushed[i]] # "none"
-----------------------------------------------------------------------------
(* Whether a command is awaited depends on the clients that are in close. *)
LEMMA SameAwaited ==
  ASSUME \A c \in Client : /\ pc'[c] = "close" <=> pc[c] = "close"
                           /\ pc[c] = "close" => reqid'[c] = reqid[c]
  PROVE  \A id : Awaited(id)' <=> Awaited(id)
  BY DEF Awaited

(* A client that begins a call, or goes on in one without touching the     *)
(* request queue.                                                          *)
LEMMA ClientClose ==
  ASSUME Inv, StateAgrees, CloseInv, NEW c \in Client,
         \/ \E k \in Kind : Submit(c, k)
         \/ Close(c) \/ CloseExited(c) \/ StatusReady(c) \/ StatusClosed(c)
         \/ \E id \in returned : WaitResult(c, id) \/ PeekResult(c, id)
         \/ WaitReturn(c)
  PROVE  CloseInv'
<1> USE DEF Inv, CloseInv
<1>1. CASE (\E k \in Kind : Submit(c, k)) \/ \E id \in returned : WaitResult(c, id)
  <2>1. /\ pc[c] = "idle" /\ ~Closing /\ ~freed
        /\ \A d \in Client : d # c => pc'[d] = pc[d] /\ kind'[d] = kind[d] /\ reqid'[d] = reqid[d]
        /\ pc'[c] \in {"status", "wait"} /\ kind'[c] # "close"
        /\ UNCHANGED <<request, queue_state, ppc, cmd, freed>>
    BY <1>1 DEF Submit, WaitResult, IssueRequestID, Usable, Goto, TypeOK, pseudo
  <2>2. CloserInv'
    BY <2>1 DEF CloserInv, Closing
  <2>3. \A id : Awaited(id)' <=> Awaited(id)
    BY <2>1, SameAwaited
  <2>4. \A d \in Client : pc'[d] = "close" => pc[d] = "close" /\ reqid'[d] = reqid[d]
    BY <2>1
  <2>5. CommandInv'
    BY <2>1, <2>3, <2>4 DEF CommandInv, Pending
  <2> QED
    BY <2>2, <2>5
<1>2. CASE Close(c)
  <2>1. /\ \A d \in Client : pc[d] = "idle"
        /\ ~freed
        /\ \A d \in Client : d # c => pc'[d] = pc[d] /\ kind'[d] = kind[d] /\ reqid'[d] = reqid[d]
        /\ pc'[c] = "status"
        /\ UNCHANGED <<request, queue_state, ppc, cmd, freed>>
    BY <1>2 DEF Close, IssueRequestID, Usable, Goto, TypeOK, pseudo
  <2>2. CloserInv'
    BY <2>1 DEF CloserInv
  <2>3. \A id : Awaited(id)' <=> Awaited(id)
    BY <2>1, SameAwaited
  <2>4. \A d \in Client : pc'[d] # "close"
    BY <2>1
  <2>5. CommandInv'
    BY <2>1, <2>3, <2>4 DEF CommandInv
  <2> QED
    BY <2>2, <2>5
<1>3. CASE CloseExited(c)
  <2>1. /\ \A d \in Client : pc[d] = "idle"
        /\ state = "EXIT"
        /\ UNCHANGED <<request, queue_state, ppc, cmd, pc, kind, reqid>>
    BY <1>3 DEF CloseExited, shared, client, pseudo
  <2>2. ppc = "dead"
    BY <2>1 DEF StateAgrees, CommandInv, Awaited
  <2>3. \A id : Awaited(id)' <=> Awaited(id)
    BY <2>1, SameAwaited
  <2> QED
    BY <2>1, <2>2, <2>3 DEF CloserInv, CommandInv
<1>4. CASE StatusReady(c)
  <2>1. /\ pc[c] = "status" /\ pc'[c] = "push" /\ \A d \in Client : d # c => pc'[d] = pc[d]
        /\ UNCHANGED <<request, queue_state, ppc, cmd, kind, reqid, freed>>
    BY <1>4 DEF StatusReady, Goto, TypeOK, shared, pseudo
  <2>2. CloserInv'
    BY <2>1 DEF CloserInv
  <2>3. \A id : Awaited(id)' <=> Awaited(id)
    BY <2>1, SameAwaited
  <2>4. \A d \in Client : pc'[d] = "close" => pc[d] = "close"
    BY <2>1
  <2>5. CommandInv'
    BY <2>1, <2>2, <2>3, <2>4 DEF CommandInv, Pending
  <2> QED
    BY <2>2, <2>5
<1>5. CASE StatusClosed(c)
  BY <1>5 DEF StatusClosed, CommandInv
<1>6. CASE WaitReturn(c) \/ \E id \in returned : PeekResult(c, id)
  <2>1. /\ \A d \in Client : pc'[d] = pc[d] \/ (pc[d] = "wait" /\ pc'[d] = "idle")
        /\ UNCHANGED <<request, queue_state, ppc, cmd, kind, reqid, freed>>
    BY <1>6 DEF WaitReturn, PeekResult, Goto, TypeOK, client, pseudo
  <2>2. CloserInv'
    BY <2>1 DEF CloserInv
  <2>3. \A id : Awaited(id)' <=> Awaited(id)
    BY <2>1, SameAwaited
  <2>4. \A d \in Client : pc'[d] = "close" => pc[d] = "close"
    BY <2>1
  <2>5. CommandInv'
    BY <2>1, <2>2, <2>3, <2>4 DEF CommandInv, Pending
  <2> QED
    BY <2>2, <2>5
<1> QED
  BY <1>1, <1>2, <1>3, <1>4, <1>5, <1>6

(* While a close command is awaited nobody pushes another one. *)
LEMMA PushClose ==
  ASSUME Inv, CloseInv, NEW c \in Client, PushRequest(c)
  PROVE  CloseInv'
<1> DEFINE new == [id |-> reqid[c], kind |-> kind[c], status |-> "none"]
<1> USE DEF Inv, CloseInv
<1>1. /\ pc[c] = "push" /\ request' = Append(request, new)
      /\ UNCHANGED <<queue_state, ppc, cmd, kind, reqid, freed>>
      /\ \A d \in Client : d # c => pc'[d] = pc[d]
      /\ pc'[c] = IF kind[c] = "close" THEN "close" ELSE "idle"
  BY DEF PushRequest, Request!Push, Goto, TypeOK, pseudo
<1>2. \A id : ~Awaited(id)
  BY <1>1 DEF Awaited, CloserInv
<1>3. reqid[c] \in rem_reqid /\ rem_reqid \subseteq Id
  BY <1>1 DEF ClientInv, Submitting, TypeOK
<1>4. new \in Command
  BY <1>3 DEF Command, TypeOK
<1>5. /\ Len(request) \in Nat /\ Len(request') = Len(request) + 1
      /\ \A j \in 1..Len(request) : request'[j] = request[j]
      /\ request'[Len(request) + 1] = new
  BY <1>1, <1>4, AppendFacts, LenProperties DEF TypeOK
<1>6. \A i \in 1..Len(request) : request[i].kind # "close"
  BY <1>2 DEF CommandInv
<1>7. cmd.kind # "close"
  BY <1>2 DEF CommandInv
<1>8. CloserInv'
  BY <1>1 DEF CloserInv
<1>9. ASSUME NEW i \in 1..Len(request'), request'[i].kind = "close"
      PROVE  /\ i = Len(request')
             /\ \E d \in Client : pc'[d] = "close" /\ reqid'[d] = request'[i].id
  <2>1. i = Len(request) + 1
    BY <1>5, <1>6, <1>9
  <2>2. kind[c] = "close" /\ request'[i].id = reqid[c]
    BY <1>5, <1>9, <2>1
  <2> QED
    BY <1>1, <1>5, <2>1, <2>2
<1>10. ASSUME NEW d \in Client, pc'[d] = "close" PROVE Pending(d)'
  <2>1. d = c /\ kind[c] = "close"
    BY <1>1, <1>2, <1>10 DEF Awaited
  <2>2. Len(request) + 1 \in 1..Len(request')
    BY <1>5
  <2> QED
    BY <1>1, <1>5, <2>1, <2>2 DEF Pending
<1>11. freed' => ppc' = "dead"
  BY <1>1 DEF CommandInv
<1>12. CommandInv'
  BY <1>1, <1>7, <1>9, <1>10, <1>11 DEF CommandInv, Awaited
<1> QED
  BY <1>8, <1>12

(* close returns after the pseudo thread has ended: only then is the       *)
(* completion of its command there.                                        *)
LEMMA ReturnClose ==
  ASSUME Inv, CloseInv, NEW c \in Client, CloseReturn(c)
  PROVE  CloseInv' /\ ppc = "dead"
<1> USE DEF Inv, CloseInv
<1>1. /\ pc[c] = "close" /\ Deliver(reqid[c])
      /\ UNCHANGED <<request, queue_state, ppc, cmd, kind, reqid>>
      /\ pc'[c] = "idle" /\ \A d \in Client : d # c => pc'[d] = pc[d]
  BY DEF CloseReturn, Goto, TypeOK, pseudo
<1>2. kind[c] = "close" /\ \A d \in Client : d # c => pc[d] = "idle"
  BY <1>1 DEF CloserInv
<1>3. reqid[c] \in IdsOf(completion)
  BY <1>1, DeliverFacts
<1>4. reqid[c] \notin IdsOf(request) /\ cmd.id # reqid[c]
  BY <1>3 DEF SingleOwner
<1>5. ppc = "dead"
  BY <1>1, <1>4 DEF CommandInv, Pending, IdsOf
<1>6. \A i \in 1..Len(request) : request[i].kind # "close"
  BY <1>2, <1>4 DEF CommandInv, Awaited, IdsOf
<1>7. \A d \in Client : pc'[d] = "idle"
  BY <1>1, <1>2
<1>8. CloserInv'
  BY <1>7 DEF CloserInv
<1>9. CommandInv'
  BY <1>1, <1>5, <1>6, <1>7 DEF CommandInv
<1> QED
  BY <1>5, <1>8, <1>9

(* The pseudo thread, the requests left alone. *)
LEMMA PseudoClose ==
  ASSUME CommandsSucceed, Inv, CloseInv,
         PseudoStep \/ Syscall \/ VEStops, ~PopRequest
  PROVE  CloseInv'
<1> USE DEF Inv, CloseInv
<1>1. CloserInv'
  BY DEF CloserInv, PseudoStep, VEStops, StartEventLoop, SyscallDone, Syscall, PopRequest, DoCall,
     RunOnVH, TransferFails, CleanUp, ReplyClose, Complete, PushCompletion, FailState, FailClose,
     FailComplete, Drain, DrainComplete, DrainEnd, Block, Exception, client
<1>2. CASE StartEventLoop \/ SyscallDone \/ Syscall \/ DoCall \/ RunOnVH \/ CleanUp \/ Block
  <2>1. /\ UNCHANGED <<request, queue_state, pc, reqid, freed>>
        /\ cmd'.id = cmd.id /\ cmd'.kind = cmd.kind
        /\ ~freed
        /\ \/ ppc' \in {"ve", "syscall", "loop", "complete"} /\ cmd.kind # "close"
           \/ ppc = "exec" /\ ppc' = "reply" /\ cmd.kind = "close"
    BY <1>2 DEF StartEventLoop, SyscallDone, Syscall, DoCall, RunOnVH, CleanUp, Block, SetResult, At,
       shared, client, TypeOK, Command, NoCommand, CommandInv
  <2>2. \A id : Awaited(id)' <=> Awaited(id)
    BY <2>1, SameAwaited
  <2>3. ppc # "dead"
    BY <1>2 DEF StartEventLoop, SyscallDone, Syscall, DoCall, RunOnVH, CleanUp, Block, At
  <2>4. \A c \in Client : pc'[c] = "close" => Pending(c)'
    BY <2>1, <2>3 DEF CommandInv, Pending
  <2> QED
    BY <1>1, <2>1, <2>2, <2>4 DEF CommandInv
<1>3. CASE ReplyClose \/ Complete
  <2>1. /\ UNCHANGED <<request, queue_state, pc, reqid, freed>>
        /\ cmd' = NoCommand /\ ~freed
        /\ \/ ppc = "reply" /\ ppc' = "dead"
           \/ ppc = "complete" /\ ppc' = "loop"
    BY <1>3 DEF ReplyClose, Complete, PushCompletion, At, client
  <2>2. \A id : Awaited(id)' <=> Awaited(id)
    BY <2>1, SameAwaited
  <2>3. ppc = "complete" => cmd.kind # "close"
    BY DEF CommandInv
  <2>4. \A c \in Client : pc'[c] = "close" => Pending(c)'
    BY <2>1, <2>3 DEF CommandInv, Pending
  <2>5. cmd'.kind # "close"
    BY <2>1 DEF NoCommand
  <2> QED
    BY <1>1, <2>1, <2>2, <2>4, <2>5 DEF CommandInv
<1>4. CASE Exception
  <2>1. /\ UNCHANGED <<request, queue_state, pc, reqid, freed, cmd>>
        /\ ppc' = "dead" /\ cmd = NoCommand
    BY <1>4 DEF Exception, CommandsSucceed, client
  <2>2. \A id : Awaited(id)' <=> Awaited(id)
    BY <2>1, SameAwaited
  <2>3. cmd'.kind # "close"
    BY <2>1 DEF NoCommand
  <2> QED
    BY <1>1, <2>1, <2>2, <2>3 DEF CommandInv, Pending
<1>5. ~(\/ TransferFails \/ FailState \/ FailClose \/ FailComplete \/ Drain \/ DrainComplete
        \/ DrainEnd)
  BY DEF CommandsSucceed, CommandInv, TransferFails, FailState, FailClose, FailComplete, Drain,
     DrainComplete, DrainEnd, At
<1> QED
  BY <1>2, <1>3, <1>4, <1>5 DEF PseudoStep, VEStops

(* The close command is taken from the queue as the last one. *)
LEMMA PopClose ==
  ASSUME Inv, CloseInv, PopRequest
  PROVE  CloseInv'
<1> DEFINE h == Head(request)
<1> USE DEF Inv, CloseInv
<1>1. /\ ppc = "loop" /\ ppc' = "exec" /\ ~freed
      /\ request # << >> /\ request' = Tail(request)
      /\ cmd' = h
      /\ UNCHANGED <<queue_state, pc, kind, reqid, freed>>
  BY DEF PopRequest, At, Request!Pop, client
<1>2. /\ Len(request) \in Nat /\ Len(request) >= 1 /\ Len(request') = Len(request) - 1
      /\ \A j \in 1..(Len(request) - 1) : request'[j] = request[j + 1]
      /\ h = request[1] /\ request' \in Seq(Command)
  BY <1>1, TailFacts DEF TypeOK
<1> HIDE DEF h
<1>3. CloserInv'
  BY <1>1 DEF CloserInv
<1>5. cmd.kind # "close"
  BY <1>1 DEF CommandInv
<1>6. ASSUME NEW i \in 1..Len(request'), request'[i].kind = "close"
      PROVE  /\ i = Len(request')
             /\ \E d \in Client : pc'[d] = "close" /\ reqid'[d] = request'[i].id
  <2>1. i + 1 \in 1..Len(request) /\ request'[i] = request[i + 1]
    BY <1>2
  <2>2. i + 1 = Len(request) /\ Awaited(request[i + 1].id)
    BY <1>6, <2>1 DEF CommandInv
  <2>3. i = Len(request')
    BY <1>2, <2>2
  <2>4. PICK d \in Client : pc[d] = "close" /\ reqid[d] = request[i + 1].id
    BY <2>2 DEF Awaited
  <2>5. pc'[d] = "close" /\ reqid'[d] = request'[i].id
    BY <1>1, <2>1, <2>4
  <2> QED
    BY <2>3, <2>5
<1>7. ASSUME cmd'.kind = "close"
      PROVE  /\ request' = << >>
             /\ \E d \in Client : pc'[d] = "close" /\ reqid'[d] = cmd'.id
  <2>1. 1 \in 1..Len(request) /\ request[1].kind = "close"
    BY <1>1, <1>2, <1>7
  <2>2. 1 = Len(request) /\ Awaited(request[1].id)
    BY <2>1 DEF CommandInv
  <2>3. request' = << >>
    <3>1. Len(request) = 1 /\ Len(request') = Len(request) - 1
      BY <1>2, <2>2
    <3>2. Len(request') = 0
      BY <3>1
    <3> QED
      BY <1>2, <3>2, EmptySeq
  <2> QED
    BY <1>1, <1>2, <2>2, <2>3 DEF Awaited
<1>8. ASSUME NEW c \in Client, pc'[c] = "close" PROVE Pending(c)'
  <2>1. PICK i \in 1..Len(request) : request[i].id = reqid[c] /\ request[i].kind = "close"
    BY <1>1, <1>5, <1>8 DEF CommandInv, Pending
  <2>2. CASE i = 1
    BY <1>1, <1>2, <2>1, <2>2 DEF Pending
  <2>3. CASE i # 1
    <3>1. i - 1 \in 1..Len(request') /\ request'[i - 1] = request[i]
      BY <1>2, <2>3
    <3> QED
      BY <1>1, <2>1, <3>1 DEF Pending
  <2> QED
    BY <2>2, <2>3
<1>9. CommandInv'
  BY <1>1, <1>6, <1>7, <1>8 DEF CommandInv, Awaited
<1> QED
  BY <1>3, <1>9

(* A new context satisfies CloseInv. *)
LEMMA InitClose == Init => CloseInv
<1> SUFFICES ASSUME Init PROVE CloseInv
  OBVIOUS
<1>1. Len(request) = 0
  BY EmptySeq DEF Init
<1> QED
  BY <1>1 DEF Init, CloseInv, CloserInv, CommandInv, NoCommand

(* Every action keeps CloseInv. *)
LEMMA NextClose ==
  ASSUME CommandsSucceed
  PROVE  Inv /\ StateAgrees /\ CloseInv /\ [Next]_vars => CloseInv'
<1> SUFFICES ASSUME Inv, StateAgrees, CloseInv, [Next]_vars PROVE CloseInv'
  OBVIOUS
<1>1. ASSUME NEW c \in Client, ClientCalls(c) \/ ClientStep(c) PROVE CloseInv'
  BY <1>1, ClientClose, PushClose, ReturnClose DEF ClientCalls, ClientStep
<1>2. CASE PseudoStep \/ Syscall \/ VEStops
  BY <1>2, PseudoClose, PopClose
<1>3. CASE UNCHANGED vars
  <2>1. \A id : Awaited(id)' <=> Awaited(id)
    BY <1>3, SameAwaited DEF vars
  <2>2. \A c \in Client : Pending(c)' <=> Pending(c)
    BY <1>3 DEF vars, Pending
  <2> QED
    BY <1>3, <2>1, <2>2 DEF vars, CloseInv, CloserInv, CommandInv
<1> QED
  BY <1>1, <1>2, <1>3 DEF Next

(* veo_context_close deletes the context after its pseudo thread has ended, *)
(* in every context whose commands do not fail.                            *)
THEOREM CloseCorrect ==
  ASSUME CommandsSucceed
  PROVE  Spec => []CloseTerminatesPseudoThread
<1>1. CloseInv => CloseTerminatesPseudoThread
  BY DEF CloseInv, CommandInv, CloseTerminatesPseudoThread
<1> QED
  BY InitInv, NextInv, StateCorrect, InitClose, NextClose, <1>1, PTL DEF Spec

-----------------------------------------------------------------------------
(* Once the pseudo thread is past its last command nobody pushes another   *)
(* one: the only client inside a call waits in close.                      *)
LEMMA NoLatePush ==
  ASSUME CloseInv, DoneInv, NEW c \in Client, PushRequest(c)
  PROVE  ppc \notin {"reply", "dead"}
<1>1. pc[c] = "push"
  BY DEF PushRequest
<1>2. \A d \in Client : pc[d] # "close"
  BY <1>1 DEF CloseInv, CloserInv
<1>3. ~freed
  BY <1>1 DEF CloseInv, CloserInv
<1> QED
  BY <1>2, <1>3 DEF CloseInv, CommandInv, DoneInv, Awaited

(* When _closeCommandHandler has run, all that was pushed was executed:    *)
(* its command was the last in the queue.                                  *)
LEMMA CleanUpDone ==
  ASSUME Inv, Extra, CloseInv, CleanUp
  PROVE  DoneInv'
<1>1. /\ ppc = "exec" /\ ppc' = "reply" /\ cmd.kind = "close"
      /\ UNCHANGED pushed
      /\ outcome' = [outcome EXCEPT ![cmd.id] = "OK"]
  BY DEF CleanUp, At, SetResult
<1>2. request = << >> /\ Len(request) = 0
  BY <1>1, EmptySeq DEF CloseInv, CommandInv
<1>3. cmd \in Command /\ cmd # NoCommand
  BY <1>1, InvalidFacts DEF Inv, PseudoInv, Command
<1>4. Len(started) >= 1 /\ cmd.id = started[Len(started)]
  BY <1>1, <1>3 DEF Extra, FailInv
<1>5. Len(started) \in Nat /\ Len(pushed) \in Nat
  BY LenProperties DEF Inv, TypeOK
<1>6. Len(pushed) = Len(started) /\ \A i \in 1..Len(started) : started[i] = pushed[i]
  BY <1>1, <1>2, <1>5 DEF Extra, OrderInv
<1>7. \A i \in 1..(Len(started) - 1) : outcome[started[i]] = "OK"
  BY DEF Extra, FailInv, FailStop
<1>8. ASSUME NEW i \in 1..Len(pushed) PROVE outcome'[pushed[i]] = "OK"
  <2>1. pushed[i] \in Id /\ outcome \in [Id -> Status \cup {"none"}]
    BY <1>8, ElementOfSeq DEF Inv, TypeOK
  <2>2. CASE i = Len(started)
    BY <1>1, <1>4, <1>6, <2>1, <2>2
  <2>3. CASE i # Len(started)
    <3>1. i \in 1..(Len(started) - 1) /\ pushed[i] = started[i]
      BY <1>5, <1>6, <2>3
    <3>2. outcome[pushed[i]] = "OK"
      BY <1>7, <3>1
    <3> QED
      BY <1>1, <2>1, <3>2
  <2> QED
    BY <2>2, <2>3
<1> QED
  BY <1>1, <1>8 DEF DoneInv

(* A new context satisfies DoneInv. *)
LEMMA InitDone == Init => DoneInv
  BY DEF Init, DoneInv

(* Every action keeps DoneInv. *)
LEMMA NextDone ==
  ASSUME Fault = {}
  PROVE  Inv /\ Extra /\ CloseInv /\ DoneInv /\ [Next]_vars => DoneInv'
<1> SUFFICES ASSUME Inv, Extra, CloseInv, DoneInv, [Next]_vars PROVE DoneInv'
  OBVIOUS
<1>1. ASSUME NEW c \in Client, PushRequest(c) PROVE DoneInv'
  <2>1. ppc' = ppc
    BY <1>1 DEF PushRequest, pseudo
  <2> QED
    BY <1>1, <2>1, NoLatePush DEF DoneInv
<1>2. ASSUME NEW c \in Client, CloseReturn(c) PROVE DoneInv'
  BY <1>2 DEF CloseReturn, DoneInv, pseudo
<1>3. ASSUME NEW c \in Client, ClientCalls(c) \/ ClientStep(c),
             ~PushRequest(c), ~CloseReturn(c)
      PROVE  DoneInv'
  <2>1. /\ UNCHANGED <<ppc, pushed, outcome>> /\ (freed => freed')
        /\ \A d \in Client : pc[d] = "close" => pc'[d] = "close"
    BY <1>3 DEF ClientCalls, ClientStep, Submit, Close, CloseExited, IssueRequestID, StatusReady,
       StatusClosed, WaitResult, WaitReturn, PeekResult, Goto, Inv, TypeOK, client, pseudo, history
  <2> QED
    BY <2>1 DEF DoneInv
<1>4. CASE CleanUp
  BY <1>4, CleanUpDone
<1>5. CASE ReplyClose
  <2>1. \E c \in Client : pc[c] = "close"
    BY <1>5 DEF ReplyClose, At, CloseInv, CommandInv, Awaited
  <2> QED
    BY <1>5, <2>1 DEF ReplyClose, At, PushCompletion, DoneInv, client, history
<1>6. CASE \/ StartEventLoop \/ SyscallDone \/ Syscall \/ PopRequest \/ DoCall \/ RunOnVH
           \/ Complete \/ Block
  <2>1. ppc' \notin {"reply", "dead"}
    BY <1>6 DEF StartEventLoop, SyscallDone, Syscall, PopRequest, DoCall, RunOnVH, Complete, Block
  <2> QED
    BY <2>1 DEF DoneInv
<1>7. ~(\/ Exception \/ TransferFails \/ FailState \/ FailClose \/ FailComplete \/ Drain
        \/ DrainComplete \/ DrainEnd)
  BY DEF CloseInv, CommandInv, Exception, TransferFails, FailState, FailClose, FailComplete,
     Drain, DrainComplete, DrainEnd, At
<1>8. CASE UNCHANGED vars
  BY <1>8 DEF vars, DoneInv
<1> QED
  BY <1>1, <1>2, <1>3, <1>4, <1>5, <1>6, <1>7, <1>8 DEF Next, PseudoStep, VEStops

(* When veo_context_close deletes the context, every request that was      *)
(* pushed before has been executed, in every context without failures.     *)
THEOREM CloseComplete ==
  ASSUME Fault = {}
  PROVE  Spec => []CloseCompletesAll
<1>1. CommandsSucceed
  BY DEF CommandsSucceed
<1>2. CloseInv /\ DoneInv => CloseCompletesAll
  BY DEF CloseInv, CommandInv, DoneInv, CloseCompletesAll
<1> QED
  BY InitInv, NextInv, StateCorrect, InitExtra, NextExtra, InitClose, NextClose, InitDone, NextDone,
     <1>1, <1>2, PTL DEF Spec

-----------------------------------------------------------------------------
(* A request has a place: the request queue, the hand of the pseudo        *)
(* thread, the completion queue, or its caller.                            *)
Placed(id) ==
  \/ id \in IdsOf(request)
  \/ id = cmd.id
  \/ id \in IdsOf(completion)
  \/ delivered[id] # "none"

(* No request vanishes on its way from pushRequest through eventLoop or    *)
(* setCompletion to the caller.  An ID that was returned belongs to such a *)
(* request, unless the queue was closed: callVHAsync then returns the ID   *)
(* of a request that pushRequest refused.                                  *)
NothingLost ==
  /\ \A i \in 1..Len(pushed) : Placed(pushed[i])
  /\ \A id \in returned : Placed(id) \/ queue_state = "CLOSED"

(* A client inside callWaitResult or close waits for a result that is in   *)
(* the completion queue, or whose request is with a pseudo thread that has *)
(* not ended.                                                              *)
AnswerComing ==
  \A c \in Client :
    pc[c] \in {"wait", "close"} =>
      \/ reqid[c] \in IdsOf(completion)
      \/ ppc # "dead" /\ reqid[c] \in IdsOf(request) \cup {cmd.id}

(* After the reply to a close its client finds the result. *)
ReplyInv ==
  \A c \in Client : pc[c] = "close" /\ ppc = "dead" => reqid[c] \in IdsOf(completion)

(* A step that moves no request. *)
LEMMA PlacedQuiet ==
  ASSUME UNCHANGED <<request, completion, delivered>>, cmd'.id = cmd.id,
         NEW id, Placed(id)
  PROVE  Placed(id)'
  BY DEF Placed

(* A result that is handed out goes from the completion queue to its       *)
(* caller.                                                                 *)
LEMMA PlacedDeliver ==
  ASSUME Inv, UNCHANGED <<request, cmd>>, NEW j, Deliver(j), NEW id \in Id, Placed(id)
  PROVE  Placed(id)'
<1>1. /\ IdsOf(completion') = IdsOf(completion) \ {j}
      /\ delivered'[j] # "none"
      /\ \A h \in Id : h # j => delivered'[h] = delivered[h]
  BY DeliverFacts
<1> QED
  BY <1>1 DEF Placed

(* eventLoop and setCompletion take a request when they have none. *)
LEMMA PlacedPop ==
  ASSUME Inv, Extra, PopRequest \/ Drain, NEW id \in Id, Placed(id)
  PROVE  Placed(id)'
<1>1. /\ request # << >> /\ request' = Tail(request)
      /\ cmd'.id = Head(request).id
      /\ ppc \in {"loop", "drain"}
      /\ UNCHANGED <<completion, delivered>>
  <2>1. request # << >> => Head(request) \in Command
    BY HeadTailProperties DEF Inv, TypeOK
  <2> QED
    BY <2>1 DEF PopRequest, Drain, At, Request!Pop, history, Command
<1>2. cmd.id = Invalid
  BY <1>1, InvalidFacts DEF Extra, CmdInv
<1>3. IdsOf(request') = IdsOf(request) \ {Head(request).id}
  BY <1>1, TailIds DEF Inv, TypeOK, SingleOwner
<1> QED
  BY <1>1, <1>2, <1>3, InvalidFacts DEF Placed

(* The pseudo thread passes its command on. *)
LEMMA PlacedComplete ==
  ASSUME Inv, ReplyClose \/ Complete \/ FailComplete \/ DrainComplete, NEW id \in Id, Placed(id)
  PROVE  Placed(id)'
<1>1. /\ ppc \in {"reply", "complete", "pushfail", "drainpush"}
      /\ completion' = Append(completion, cmd)
      /\ UNCHANGED <<request, delivered>>
  BY DEF ReplyClose, Complete, FailComplete, DrainComplete, PushCompletion, Completion!Push, At, history
<1>2. cmd \in Command
  BY <1>1 DEF Inv, PseudoInv
<1>3. IdsOf(completion') = IdsOf(completion) \cup {cmd.id}
  BY <1>1, <1>2, AppendIds DEF Inv, TypeOK
<1> QED
  BY <1>1, <1>3 DEF Placed

(* A new request is put in the queue, which keeps the others. *)
LEMMA PlacedPush ==
  ASSUME Inv, NEW c \in Client, PushRequest(c)
  PROVE  /\ Placed(reqid[c])'
         /\ \A id : Placed(id) => Placed(id)'
<1> DEFINE x == [id |-> reqid[c], kind |-> kind[c], status |-> "none"]
<1>1. /\ pc[c] = "push" /\ request' = Append(request, x)
      /\ UNCHANGED <<completion, cmd, delivered, reqid>>
  BY DEF PushRequest, Request!Push, pseudo
<1>2. x \in Command
  BY <1>1 DEF Inv, ClientInv, Submitting, TypeOK, Command
<1>3. IdsOf(request') = IdsOf(request) \cup {reqid[c]}
  BY <1>1, <1>2, AppendIds DEF Inv, TypeOK
<1> QED
  BY <1>1, <1>3 DEF Placed

(* The ways in which a step of a client touches requests. *)
LEMMA ClientMoves ==
  ASSUME Inv, NEW c \in Client, ClientCalls(c) \/ ClientStep(c), ~PushRequest(c)
  PROVE  /\ UNCHANGED <<request, cmd, pushed, queue_state>>
         /\ UNCHANGED <<completion, delivered>> \/ \E j : Deliver(j)
         /\ returned' = returned \/ queue_state = "CLOSED"
  BY DEF ClientCalls, ClientStep, Submit, Close, CloseExited, IssueRequestID, StatusReady,
     StatusClosed, WaitResult, WaitReturn, CloseReturn, PeekResult, shared, pseudo, history

(* The ways in which a step of the pseudo thread does. *)
LEMMA PseudoMoves ==
  ASSUME Inv, PseudoStep \/ Syscall \/ VEStops, ~PopRequest, ~Drain,
         ~(ReplyClose \/ Complete \/ FailComplete \/ DrainComplete)
  PROVE  UNCHANGED <<request, completion, delivered>> /\ cmd'.id = cmd.id
  BY DEF PseudoStep, VEStops, StartEventLoop, SyscallDone, Syscall, DoCall, RunOnVH, TransferFails,
     CleanUp, FailState, FailClose, DrainEnd, Block, Exception, SetResult, shared, history, Inv,
     TypeOK, Command, NoCommand

(* Every step keeps a request in some place. *)
LEMMA PlacedStep ==
  ASSUME Inv, Extra, [Next]_vars, NEW id \in Id, Placed(id)
  PROVE  Placed(id)'
<1>1. ASSUME NEW c \in Client, ClientCalls(c) \/ ClientStep(c) PROVE Placed(id)'
  <2>1. CASE PushRequest(c)
    BY <2>1, PlacedPush
  <2>2. CASE ~PushRequest(c)
    <3>1. UNCHANGED <<request, cmd>> /\ (UNCHANGED <<completion, delivered>> \/ \E j : Deliver(j))
      BY <1>1, <2>2, ClientMoves
    <3> QED
      BY <3>1, PlacedQuiet, PlacedDeliver
  <2> QED
    BY <2>1, <2>2
<1>2. CASE PseudoStep \/ Syscall \/ VEStops
  BY <1>2, PlacedPop, PlacedComplete, PlacedQuiet, PseudoMoves
<1>3. CASE UNCHANGED vars
  BY <1>3, PlacedQuiet DEF vars
<1> QED
  BY <1>1, <1>2, <1>3 DEF Next

(* No request vanishes, for any number of clients, with every failure.     *)
(* Together with SingleOwner: from its push on, a request is in exactly    *)
(* one place.                                                              *)
THEOREM LostCorrect == Spec => []NothingLost
<1>1. Init => NothingLost
  <2> SUFFICES ASSUME Init PROVE NothingLost
    OBVIOUS
  <2>1. Len(pushed) = 0
    BY EmptySeq DEF Init
  <2> QED
    BY <2>1 DEF Init, NothingLost
<1>2. ASSUME Inv, Extra, NothingLost, [Next]_vars PROVE NothingLost'
  <2>1. \A id \in Id : Placed(id) => Placed(id)'
    BY <1>2, PlacedStep
  <2>2. /\ returned \subseteq Id /\ pushed \in Seq(Id)
        /\ \A i \in 1..Len(pushed) : pushed[i] \in Id
    BY <1>2, ElementOfSeq DEF Inv, TypeOK
  <2>3. queue_state = "CLOSED" => queue_state' = "CLOSED"
    BY <1>2 DEF Next, ClientCalls, ClientStep, Submit, Close, CloseExited, IssueRequestID, StatusReady,
       StatusClosed, PushRequest, WaitResult, WaitReturn, CloseReturn, PeekResult, PseudoStep, VEStops,
       StartEventLoop, SyscallDone, Syscall, PopRequest, DoCall, RunOnVH, TransferFails, CleanUp,
       ReplyClose, Complete, PushCompletion, FailState, FailClose, FailComplete, Drain, DrainComplete,
       DrainEnd, Block, Exception, shared, vars
  <2>4. ASSUME UNCHANGED pushed, returned' = returned \/ queue_state = "CLOSED" PROVE NothingLost'
    BY <1>2, <2>1, <2>2, <2>3, <2>4 DEF NothingLost
  <2>5. ASSUME NEW c \in Client, PushRequest(c) PROVE NothingLost'
    <3>1. /\ pushed' = Append(pushed, reqid[c]) /\ UNCHANGED reqid
          /\ returned' \subseteq returned \cup {reqid[c]}
      BY <2>5 DEF PushRequest
    <3>2. reqid[c] \in Id
      BY <1>2, <2>5 DEF PushRequest, Inv, ClientInv, Submitting, TypeOK
    <3>3. /\ Len(pushed) \in Nat /\ Len(pushed') = Len(pushed) + 1
          /\ \A i \in 1..Len(pushed) : pushed'[i] = pushed[i]
          /\ pushed'[Len(pushed) + 1] = reqid[c]
      BY <2>2, <3>1, <3>2, AppendFacts, LenProperties
    <3>4. \A i \in 1..Len(pushed') : i \in 1..Len(pushed) \/ i = Len(pushed) + 1
      BY <3>3
    <3>5. \A id : id = reqid[c] => Placed(id)'
      BY <1>2, <2>5, <3>1, PlacedPush
    <3>6. \A i \in 1..Len(pushed') : pushed'[i] = reqid[c] \/ (i \in 1..Len(pushed) /\ pushed'[i] = pushed[i])
      BY <3>3, <3>4
    <3>7. \A id : id = reqid[c] \/ (id \in Id /\ Placed(id)) => Placed(id)'
      BY <2>1, <3>5
    <3>8. \A i \in 1..Len(pushed') : Placed(pushed[i])'
      BY <1>2, <2>2, <3>6, <3>7 DEF NothingLost
    <3>9. \A id \in returned' : Placed(id)' \/ queue_state' = "CLOSED"
      BY <1>2, <2>2, <2>3, <3>1, <3>7 DEF NothingLost
    <3> QED
      BY <3>8, <3>9 DEF NothingLost
  <2>6. ASSUME NEW c \in Client, ClientCalls(c) \/ ClientStep(c), ~PushRequest(c) PROVE NothingLost'
    BY <1>2, <2>4, <2>6, ClientMoves
  <2>7. CASE PseudoStep \/ Syscall \/ VEStops
    BY <2>4, <2>7 DEF PseudoStep, VEStops, StartEventLoop, SyscallDone, Syscall, PopRequest, DoCall,
       RunOnVH, TransferFails, CleanUp, ReplyClose, Complete, PushCompletion, FailState, FailClose,
       FailComplete, Drain, DrainComplete, DrainEnd, Block, Exception, history
  <2>8. CASE UNCHANGED vars
    BY <2>4, <2>8 DEF vars
  <2> QED
    BY <1>2, <2>5, <2>6, <2>7, <2>8 DEF Next
<1> QED
  BY InitInv, NextInv, InitExtra, NextExtra, <1>1, <1>2, PTL DEF Spec

(* Every action keeps ReplyInv, where no command fails. *)
LEMMA NextReply ==
  ASSUME Fault = {}
  PROVE  Inv /\ CloseInv /\ DoneInv /\ ReplyInv /\ [Next]_vars => ReplyInv'
<1> SUFFICES ASSUME Inv, CloseInv, DoneInv, ReplyInv, [Next]_vars PROVE ReplyInv'
  OBVIOUS
<1>1. ASSUME NEW c \in Client, PushRequest(c) PROVE ReplyInv'
  <2>1. ppc' = ppc
    BY <1>1 DEF PushRequest, pseudo
  <2> QED
    BY <1>1, <2>1, NoLatePush DEF ReplyInv
<1>2. ASSUME NEW c \in Client, ClientCalls(c) \/ ClientStep(c), ~PushRequest(c) PROVE ReplyInv'
  <2>1. queue_state = "READY"
    BY DEF CloseInv, CommandInv
  <2>2. CASE \/ \E id \in returned : PeekResult(c, id)
             \/ WaitReturn(c) \/ CloseReturn(c)
    <3>1. \A d \in Client : pc'[d] # "close"
      <4>1. CASE \E id \in returned : PeekResult(c, id)
        BY <4>1 DEF PeekResult, Usable, Closing, CloseInv, CloserInv, client
      <4>2. CASE WaitReturn(c) \/ CloseReturn(c)
        <5>1. /\ pc[c] \in {"wait", "close"}
              /\ pc' = [pc EXCEPT ![c] = "idle"]
          BY <4>2 DEF WaitReturn, CloseReturn, Goto
        <5>2. \A d \in Client \ {c} : pc[d] # "close"
          BY <5>1 DEF CloseInv, CloserInv
        <5> QED
          BY <5>1, <5>2 DEF Inv, TypeOK
      <4> QED
        BY <2>2, <4>1, <4>2
    <3> QED
      BY <3>1 DEF ReplyInv
  <2>3. CASE ~(\/ \E id \in returned : PeekResult(c, id)
               \/ WaitReturn(c) \/ CloseReturn(c))
    <3>1. /\ UNCHANGED <<ppc, completion>>
          /\ \A d \in Client : pc'[d] = "close" => pc[d] = "close" /\ reqid'[d] = reqid[d]
      BY <1>2, <2>1, <2>3 DEF ClientCalls, ClientStep, Submit, Close, CloseExited, IssueRequestID,
         StatusReady, StatusClosed, WaitResult, Goto, Inv, TypeOK, client, pseudo, shared
    <3> QED
      BY <3>1 DEF ReplyInv
  <2> QED
    BY <2>2, <2>3
<1>3. CASE ReplyClose
  <2>1. /\ ppc = "reply" /\ completion' = Append(completion, cmd) /\ UNCHANGED <<pc, reqid>>
    BY <1>3 DEF ReplyClose, PushCompletion, Completion!Push, At, client
  <2>2. cmd \in Command /\ cmd.kind = "close"
    BY <2>1 DEF Inv, PseudoInv, CloseInv, CommandInv
  <2>3. PICK d \in Client : pc[d] = "close" /\ reqid[d] = cmd.id
    BY <2>2 DEF CloseInv, CommandInv, Awaited
  <2>4. \A c \in Client : pc[c] = "close" => c = d
    BY <2>3 DEF CloseInv, CloserInv
  <2>5. IdsOf(completion') = IdsOf(completion) \cup {cmd.id}
    BY <2>1, <2>2, AppendIds DEF Inv, TypeOK
  <2> QED
    BY <2>1, <2>3, <2>4, <2>5 DEF ReplyInv
<1>4. CASE (PseudoStep \/ Syscall \/ VEStops) /\ ~ReplyClose
  <2>1. ~(\/ Exception \/ TransferFails \/ FailState \/ FailClose \/ FailComplete \/ Drain
          \/ DrainComplete \/ DrainEnd)
    BY DEF CloseInv, CommandInv, Exception, TransferFails, FailState, FailClose, FailComplete,
       Drain, DrainComplete, DrainEnd, At
  <2>2. ppc' # "dead"
    BY <1>4, <2>1 DEF PseudoStep, VEStops, StartEventLoop, SyscallDone, Syscall, PopRequest, DoCall,
       RunOnVH, CleanUp, Complete, Block
  <2> QED
    BY <2>2 DEF ReplyInv
<1>5. CASE UNCHANGED vars
  BY <1>5 DEF vars, ReplyInv
<1> QED
  BY <1>1, <1>2, <1>3, <1>4, <1>5 DEF Next

(* Nobody waits for nothing: in a context without failures, callWaitResult *)
(* and close wait only for what the completion queue holds or the pseudo   *)
(* thread still works on.  This is the safety half of WaitReturns and      *)
(* CloseReturns.                                                           *)
THEOREM AnswerCorrect ==
  ASSUME Fault = {}
  PROVE  Spec => []AnswerComing
<1>1. CommandsSucceed
  BY DEF CommandsSucceed
<1>2. Init => ReplyInv
  BY DEF Init, ReplyInv
<1>3. Inv /\ CloseInv /\ DoneInv /\ ReplyInv /\ NothingLost => AnswerComing
  <2> SUFFICES ASSUME Inv, CloseInv, DoneInv, ReplyInv, NothingLost,
                      NEW c \in Client, pc[c] \in {"wait", "close"}
               PROVE  \/ reqid[c] \in IdsOf(completion)
                      \/ ppc # "dead" /\ reqid[c] \in IdsOf(request) \cup {cmd.id}
    BY DEF AnswerComing
  <2>1. CASE pc[c] = "wait"
    <3>1. reqid[c] \in returned /\ reqid[c] \in Id
      BY <2>1 DEF Inv, ClientInv, TypeOK
    <3>2. delivered[reqid[c]] = "none"
      BY <2>1, <3>1 DEF Inv, OneTaker, Waiting
    <3>3. Placed(reqid[c])
      BY <3>1 DEF NothingLost, CloseInv, CommandInv
    <3>4. ppc # "dead"
      BY <2>1 DEF CloseInv, CloserInv, DoneInv
    <3> QED
      BY <3>2, <3>3, <3>4 DEF Placed
  <2>2. CASE pc[c] = "close"
    <3>1. CASE ppc = "dead"
      BY <2>2, <3>1 DEF ReplyInv
    <3>2. CASE ppc # "dead"
      BY <2>2, <3>2 DEF CloseInv, CommandInv, Pending, IdsOf
    <3> QED
      BY <3>1, <3>2
  <2> QED
    BY <2>1, <2>2
<1> QED
  BY InitInv, NextInv, StateCorrect, InitExtra, NextExtra, InitClose, NextClose, InitDone, NextDone,
     NextReply, LostCorrect, <1>1, <1>2, <1>3, PTL DEF Spec
=============================================================================
