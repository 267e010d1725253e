------------------------ MODULE ContextServiceProofs ------------------------
(***************************************************************************)
(* More proofs about ThreadContext, on top of the invariant of             *)
(* ThreadContextProofs: that it implements ContextService, that requests   *)
(* start in the order of their push, that the status a caller is told is   *)
(* what happened, and that nothing is executed after a failure; for any    *)
(* set of clients, any number of requests and any combination of failures. *)
(***************************************************************************)
EXTENDS ThreadContextProofs

(* The requests that eventLoop has started. *)
StartedIds == {started[i] : i \in 1..Len(started)}

(* The pseudo thread has nothing in hand between two commands, and a       *)
(* command in its hand has no result before its execution has ended.       *)
CmdInv ==
  /\ ppc \in {"created", "loop", "drain", "dead"} => cmd = NoCommand
  /\ ppc \in {"ve", "syscall", "exec"} => cmd.status = "none"
  /\ \A i \in 1..Len(request) : request[i].status = "none"

(* Until setCompletion empties the queue, what was pushed is what was      *)
(* started, followed by what is queued.                                    *)
OrderInv ==
  /\ Len(started) <= Len(pushed)
  /\ \A i \in 1..Len(started) : started[i] = pushed[i]
  /\ ppc \notin {"drain", "drainpush", "dead"} =>
       /\ Len(pushed) = Len(started) + Len(request)
       /\ \A i \in 1..Len(request) : pushed[Len(started) + i] = request[i].id

(* The status is what happened to the request. *)
Told(id, status) ==
  IF status = "UNFINISHED" THEN id \notin StartedIds ELSE status = outcome[id]

(* A request that is submitted or queued has not been started, and every   *)
(* status on its way to a caller is true.                                  *)
TruthInv ==
  /\ StartedIds \subseteq Issued
  /\ StartedIds \cap IdsOf(request) = {}
  /\ \A c \in Client : Submitting(c) => reqid[c] \notin StartedIds
  /\ \A i \in 1..Len(completion) : Told(completion[i].id, completion[i].status)
  /\ cmd.status # "none" => Told(cmd.id, cmd.status)
  /\ \A id \in Delivered : Told(id, delivered[id])

(* The command in hand is the last one started; all before it ended well,  *)
(* and so did the last one where another may be taken.                     *)
FailInv ==
  /\ \A i, j \in 1..Len(started) : started[i] = started[j] => i = j
  /\ ppc \in {"created", "ve", "syscall", "loop"} /\ cmd = NoCommand =>
       \A i \in 1..Len(started) : outcome[started[i]] = "OK"
  /\ ppc \in {"ve", "syscall", "exec"} /\ cmd # NoCommand =>
       Len(started) >= 1 /\ cmd.id = started[Len(started)]
  /\ ppc = "complete" => \A i \in 1..Len(started) : outcome[started[i]] = "OK"
  /\ FailStop

(* The inductive invariant, next to that of ThreadContextProofs. *)
Extra == CmdInv /\ OrderInv /\ TruthInv /\ FailInv

-----------------------------------------------------------------------------
(* Told depends on what was started and on how executions ended. *)
LEMMA ToldUnchanged ==
  ASSUME NEW id, NEW status, UNCHANGED <<started, outcome>>
  PROVE  Told(id, status)' <=> Told(id, status)
  BY DEF Told, StartedIds

(* A step that leaves requests, results and executions alone: TruthInv is  *)
(* about them and about the clients that submit.                           *)
LEMMA QuietTruth ==
  ASSUME Inv, Extra,
         UNCHANGED <<request, completion, started, outcome, delivered, cmd>>,
         Issued \subseteq Issued',
         \A c \in Client : Submitting(c)' => reqid'[c] \notin StartedIds
  PROVE  TruthInv'
<1>1. StartedIds' = StartedIds /\ Delivered' = Delivered
  BY DEF StartedIds, Delivered
<1>2. \A id \in Delivered : Told(id, delivered[id])'
  BY ToldUnchanged DEF Extra, TruthInv
<1>3. \A i \in 1..Len(completion) : Told(completion[i].id, completion[i].status)'
  BY ToldUnchanged DEF Extra, TruthInv
<1>4. cmd.status # "none" => Told(cmd.id, cmd.status)'
  BY ToldUnchanged DEF Extra, TruthInv
<1> QED
  BY <1>1, <1>2, <1>3, <1>4 DEF Extra, TruthInv

(* A client's step that touches no queue. *)
LEMMA ClientQuiet ==
  ASSUME Inv, Extra, NEW c \in Client,
         \/ \E k \in Kind : Submit(c, k)
         \/ Close(c) \/ CloseExited(c)
         \/ StatusReady(c) \/ StatusClosed(c)
         \/ \E id \in returned : WaitResult(c, id)
  PROVE  Extra'
<1>1. UNCHANGED <<request, completion, ppc, cmd, pushed, started, outcome, delivered>>
  BY DEF Submit, Close, IssueRequestID, CloseExited, StatusReady, StatusClosed, WaitResult,
         shared, pseudo, history
<1>2. CmdInv' /\ OrderInv' /\ FailInv'
  BY <1>1 DEF Extra, CmdInv, OrderInv, FailInv, FailStop
<1>3. CASE (\E k \in Kind : Submit(c, k)) \/ Close(c)
  <2>1. /\ Issues < MaxRequests /\ seq_no' = NextSeq
        /\ reqid' = [reqid EXCEPT ![c] = NewID]
        /\ pc' = [pc EXCEPT ![c] = "status"]
    BY <1>3 DEF Submit, Close, IssueRequestID, Goto
  <2>2. NewID \notin Issued /\ Issued' = Issued \cup {NewID}
    BY <2>1, FreshID DEF Inv
  <2>3. \A d \in Client : Submitting(d)' => reqid'[d] \notin StartedIds
    BY <2>1, <2>2 DEF Inv, TypeOK, Submitting, Extra, TruthInv
  <2> QED
    BY <1>1, <1>2, <2>2, <2>3, QuietTruth DEF Extra
<1>4. CASE \/ CloseExited(c) \/ StatusReady(c) \/ StatusClosed(c)
           \/ \E id \in returned : WaitResult(c, id)
  <2>1. seq_no' = seq_no
    BY <1>4 DEF CloseExited, StatusReady, StatusClosed, WaitResult
  <2>2. Issued' = Issued
    BY <2>1 DEF Issued
  <2>3. \A d \in Client : Submitting(d)' => Submitting(d) /\ reqid'[d] = reqid[d]
    BY <1>4 DEF CloseExited, StatusReady, StatusClosed, WaitResult, Goto, Submitting, Inv,
                TypeOK, client
  <2>4. \A d \in Client : Submitting(d)' => reqid'[d] \notin StartedIds
    BY <2>3 DEF Extra, TruthInv
  <2> QED
    BY <1>1, <1>2, <2>2, <2>4, QuietTruth DEF Extra
<1> QED
  BY <1>3, <1>4

(* The pseudo thread goes on with the same command, or without one. *)
LEMMA PseudoQuiet ==
  ASSUME Inv, Extra,
         \/ StartEventLoop \/ SyscallDone \/ Syscall \/ DoCall
         \/ FailState \/ FailClose \/ DrainEnd
  PROVE  Extra'
<1>1. UNCHANGED <<seq_no, request, completion, pc, reqid, cmd, pushed, started, outcome, delivered>>
  BY DEF StartEventLoop, SyscallDone, Syscall, DoCall, FailState, FailClose, DrainEnd,
         shared, client, history
<1>2. \/ ppc = "created" /\ ppc' = "ve"
      \/ ppc = "syscall" /\ ppc' = "ve"
      \/ ppc = "ve" /\ ppc' = "syscall"
      \/ ppc = "exec" /\ ppc' = "ve"
      \/ ppc = "fail" /\ ppc' = "closeq"
      \/ ppc = "closeq" /\ ppc' = "pushfail"
      \/ ppc = "drain" /\ ppc' = "dead"
  BY DEF StartEventLoop, SyscallDone, Syscall, DoCall, FailState, FailClose, DrainEnd, At
<1>3. NoCommand.status = "none"
  BY DEF NoCommand
<1>4. ppc = "exec" => cmd # NoCommand
  BY InvalidFacts DEF Inv, PseudoInv, Command
<1>5. CmdInv'
  BY <1>1, <1>2, <1>3 DEF Extra, CmdInv
<1>6. OrderInv'
  BY <1>1, <1>2 DEF Extra, OrderInv
<1>7. FailInv'
  BY <1>1, <1>2, <1>4 DEF Extra, FailInv, FailStop, CmdInv
<1>8. TruthInv'
  <2>1. Issued' = Issued /\ \A d \in Client : Submitting(d)' => Submitting(d) /\ reqid'[d] = reqid[d]
    BY <1>1 DEF Issued, Submitting
  <2>2. \A d \in Client : Submitting(d)' => reqid'[d] \notin StartedIds
    BY <2>1 DEF Extra, TruthInv
  <2> QED
    BY <1>1, <2>1, <2>2, QuietTruth
<1> QED
  BY <1>5, <1>6, <1>7, <1>8 DEF Extra

(* pushRequest. *)
LEMMA PushExtra ==
  ASSUME Inv, Extra, NEW c \in Client, PushRequest(c)
  PROVE  Extra'
<1> DEFINE x == [id |-> reqid[c], kind |-> kind[c], status |-> "none"]
<1>1. /\ pc[c] = "push"
      /\ request' = Append(request, x)
      /\ pushed' = Append(pushed, reqid[c])
      /\ UNCHANGED <<seq_no, completion, reqid, ppc, cmd, started, outcome, delivered>>
  BY DEF PushRequest, Request!Push, pseudo
<1>2. Submitting(c) /\ reqid[c] \in Id
  BY <1>1 DEF Submitting, Inv, ClientInv, TypeOK
<1>3. x \in Command /\ x.id = reqid[c] /\ x.status = "none"
  BY <1>2 DEF Command, Inv, TypeOK
<1> HIDE DEF x
<1>4. /\ Len(request) \in Nat /\ Len(request') = Len(request) + 1
      /\ \A j \in 1..Len(request) : request'[j] = request[j]
      /\ request'[Len(request) + 1] = x
      /\ IdsOf(request') = IdsOf(request) \cup {reqid[c]}
  BY <1>1, <1>3, AppendFacts, AppendIds, LenProperties DEF Inv, TypeOK
<1>5. /\ Len(pushed) \in Nat /\ Len(pushed') = Len(pushed) + 1 /\ Len(started) \in Nat
      /\ \A j \in 1..Len(pushed) : pushed'[j] = pushed[j]
      /\ pushed'[Len(pushed) + 1] = reqid[c]
  BY <1>1, <1>2, AppendFacts, LenProperties DEF Inv, TypeOK
<1>6. CmdInv'
  BY <1>1, <1>3, <1>4 DEF Extra, CmdInv
<1>7. OrderInv'
  <2>1. Len(started) <= Len(pushed') /\ \A i \in 1..Len(started) : started[i] = pushed'[i]
    BY <1>5 DEF Extra, OrderInv
  <2>2. ASSUME ppc \notin {"drain", "drainpush", "dead"}
        PROVE  /\ Len(pushed') = Len(started) + Len(request')
               /\ \A i \in 1..Len(request') : pushed'[Len(started) + i] = request'[i].id
    <3>1. Len(pushed) = Len(started) + Len(request)
      BY <2>2 DEF Extra, OrderInv
    <3>2. ASSUME NEW i \in 1..Len(request) PROVE pushed'[Len(started) + i] = request'[i].id
      BY <2>2, <3>1, <1>4, <1>5 DEF Extra, OrderInv
    <3>3. pushed'[Len(started) + Len(request')] = request'[Len(request')].id
      BY <3>1, <1>3, <1>4, <1>5
    <3>4. Len(pushed') = Len(started) + Len(request')
      BY <3>1, <1>4, <1>5
    <3>5. ASSUME NEW i \in 1..Len(request')
          PROVE  i \in 1..Len(request) \/ i = Len(request')
      BY <1>4
    <3> QED
      BY <3>2, <3>3, <3>4, <3>5
  <2> QED
    BY <1>1, <2>1, <2>2 DEF OrderInv
<1>8. FailInv'
  BY <1>1 DEF Extra, FailInv, FailStop
<1>9. TruthInv'
  <2>1. StartedIds' = StartedIds /\ Delivered' = Delivered /\ Issued' = Issued
    BY <1>1 DEF StartedIds, Delivered, Issued
  <2>2. \A d \in Client : Submitting(d)' => Submitting(d)
    BY DEF PushRequest, Goto, Submitting, Inv, TypeOK
  <2>3. \A id \in Delivered : Told(id, delivered[id])'
    BY <1>1, ToldUnchanged DEF Extra, TruthInv
  <2>4. \A i \in 1..Len(completion) : Told(completion[i].id, completion[i].status)'
    BY <1>1, ToldUnchanged DEF Extra, TruthInv
  <2>5. cmd.status # "none" => Told(cmd.id, cmd.status)'
    BY <1>1, ToldUnchanged DEF Extra, TruthInv
  <2>6. reqid[c] \notin StartedIds
    BY <1>2 DEF Extra, TruthInv
  <2> QED
    BY <1>1, <1>4, <2>1, <2>2, <2>3, <2>4, <2>5, <2>6 DEF Extra, TruthInv
<1> QED
  BY <1>6, <1>7, <1>8, <1>9 DEF Extra

(* A result goes from the completion queue to its caller. *)
LEMMA DeliverExtra ==
  ASSUME Inv, Extra, NEW c \in Client,
         \/ CloseReturn(c) \/ WaitReturn(c)
         \/ \E id \in returned : PeekResult(c, id)
  PROVE  Extra'
<1>1. PICK id : /\ Deliver(id)
                /\ UNCHANGED <<seq_no, request, reqid, ppc, cmd, pushed, started, outcome>>
                /\ \A d \in Client : Submitting(d)' => Submitting(d)
  BY DEF CloseReturn, WaitReturn, PeekResult, Goto, pseudo, client, Inv, TypeOK, Submitting
<1>2. PICK k \in 1..Len(completion) :
        /\ completion[k].id = id
        /\ completion' = RemoveAt(completion, k)
        /\ delivered' = [delivered EXCEPT ![id] = completion[k].status]
  BY <1>1 DEF Deliver, Completion!TakeAt, Completion!IsFirst, Completion!RemoveAt, RemoveAt
<1>3. /\ Len(completion) \in Nat /\ Len(completion') = Len(completion) - 1
      /\ \A j \in 1..(Len(completion) - 1) :
           completion'[j] = IF j < k THEN completion[j] ELSE completion[j + 1]
  BY <1>2, RemoveAtFacts DEF Inv, TypeOK
<1>4. id \in Id /\ Delivered' = Delivered \cup {id}
  BY <1>1, DeliverFacts
<1>5. /\ delivered'[id] = completion[k].status
      /\ \A j \in Id : j # id => delivered'[j] = delivered[j]
  BY <1>2, <1>4 DEF Inv, TypeOK
<1>6. CmdInv' /\ OrderInv' /\ FailInv'
  BY <1>1 DEF Extra, CmdInv, OrderInv, FailInv, FailStop
<1>7. TruthInv'
  <2>1. StartedIds' = StartedIds /\ Issued' = Issued
    BY <1>1 DEF StartedIds, Issued
  <2>2. ASSUME NEW i \in 1..Len(completion')
        PROVE  Told(completion'[i].id, completion'[i].status)
    <3>1. \E j \in 1..Len(completion) : completion'[i] = completion[j]
      BY <1>3
    <3> QED
      BY <3>1 DEF Extra, TruthInv
  <2>3. ASSUME NEW j \in Delivered' PROVE Told(j, delivered'[j])
    <3>1. CASE j = id
      BY <3>1, <1>2, <1>5 DEF Extra, TruthInv
    <3>2. CASE j # id
      <4>1. j \in Delivered /\ delivered'[j] = delivered[j]
        BY <3>2, <1>4, <1>5 DEF Delivered
      <4> QED
        BY <4>1 DEF Extra, TruthInv
    <3> QED
      BY <3>1, <3>2
  <2>4. /\ \A i \in 1..Len(completion') : Told(completion[i].id, completion[i].status)'
        /\ \A j \in Delivered' : Told(j, delivered[j])'
    BY <1>1, <2>1, <2>2, <2>3 DEF Told
  <2>5. cmd.status # "none" => Told(cmd.id, cmd.status)'
    BY <1>1, ToldUnchanged DEF Extra, TruthInv
  <2> QED
    BY <1>1, <2>1, <2>4, <2>5 DEF Extra, TruthInv
<1> QED
  BY <1>6, <1>7 DEF Extra

(* eventLoop takes the next request. *)
LEMMA PopExtra ==
  ASSUME Inv, Extra, PopRequest
  PROVE  Extra'
<1> DEFINE h == Head(request)
<1>1. /\ ppc = "loop" /\ ppc' = "exec"
      /\ request # << >> /\ request' = Tail(request)
      /\ cmd' = h
      /\ started' = Append(started, h.id)
      /\ UNCHANGED <<seq_no, completion, pc, reqid, pushed, outcome, delivered>>
  BY DEF PopRequest, At, Request!Pop, client
<1>2. /\ Len(request) \in Nat /\ Len(request) >= 1 /\ Len(request') = Len(request) - 1
      /\ \A j \in 1..(Len(request) - 1) : request'[j] = request[j + 1]
      /\ h = request[1] /\ h \in Command
      /\ IdsOf(request') = IdsOf(request) \ {h.id} /\ h.id \in IdsOf(request)
  BY <1>1, TailFacts, TailIds DEF Inv, TypeOK, SingleOwner
<1>3. h.id \in Id /\ h.status = "none" /\ h # NoCommand
  BY <1>2, InvalidFacts DEF Command, Extra, CmdInv
<1> HIDE DEF h
<1>4. /\ Len(started) \in Nat /\ Len(started') = Len(started) + 1
      /\ \A j \in 1..Len(started) : started'[j] = started[j]
      /\ started'[Len(started) + 1] = h.id
      /\ Len(pushed) \in Nat
  BY <1>1, <1>3, AppendFacts, LenProperties DEF Inv, TypeOK
<1>5. \A i \in 1..Len(started') : i \in 1..Len(started) \/ i = Len(started) + 1
  BY <1>4
<1>6. StartedIds' = StartedIds \cup {h.id}
  BY <1>4, <1>5 DEF StartedIds
<1>7. h.id \notin StartedIds
  BY <1>2 DEF Extra, TruthInv
<1>8. cmd = NoCommand /\ NoCommand.status = "none"
  BY <1>1 DEF Extra, CmdInv, NoCommand
<1>9. CmdInv'
  BY <1>1, <1>2, <1>3 DEF Extra, CmdInv
<1>10. OrderInv'
  <2>1. /\ Len(pushed) = Len(started) + Len(request)
        /\ \A i \in 1..Len(request) : pushed[Len(started) + i] = request[i].id
    BY <1>1 DEF Extra, OrderInv
  <2>2. pushed[Len(started) + 1] = h.id
    BY <2>1, <1>2
  <2>3. \A i \in 1..Len(started') : started'[i] = pushed[i]
    BY <1>4, <1>5, <2>2 DEF Extra, OrderInv
  <2>4. Len(started') <= Len(pushed) /\ Len(pushed) = Len(started') + Len(request')
    BY <1>2, <1>4, <2>1
  <2>5. ASSUME NEW i \in 1..Len(request') PROVE pushed[Len(started') + i] = request'[i].id
    <3>1. i + 1 \in 1..Len(request) /\ request'[i] = request[i + 1]
      BY <1>2
    <3>2. pushed[Len(started) + (i + 1)] = request[i + 1].id
      BY <2>1, <3>1
    <3>3. Len(started') + i = Len(started) + (i + 1)
      BY <1>2, <1>4
    <3> QED
      BY <3>1, <3>2, <3>3
  <2> QED
    BY <1>1, <2>3, <2>4, <2>5 DEF OrderInv
<1>11. TruthInv'
  <2>1. Delivered' = Delivered /\ Issued' = Issued /\ \A d \in Client : Submitting(d)' <=> Submitting(d)
    BY <1>1 DEF Delivered, Issued, Submitting
  <2>2. ASSUME NEW id, NEW status, id # h.id, Told(id, status) PROVE Told(id, status)'
    BY <2>2, <1>1, <1>6 DEF Told
  <2>3. h.id \notin IdsOf(completion) \cup Delivered /\ \A d \in Client : Submitting(d) => reqid[d] # h.id
    BY <1>2 DEF Inv, SingleOwner
  <2>4. \A id \in Delivered : Told(id, delivered[id])'
    BY <1>1, <2>2, <2>3 DEF Extra, TruthInv
  <2>5. \A i \in 1..Len(completion) : completion[i].id # h.id
    BY <2>3 DEF IdsOf
  <2>6. \A i \in 1..Len(completion) : Told(completion[i].id, completion[i].status)'
    BY <1>1, <2>2, <2>5 DEF Extra, TruthInv
  <2>7. h.id \in Issued
    BY <1>2 DEF Inv, AllIssued
  <2> QED
    BY <1>1, <1>2, <1>3, <1>6, <2>1, <2>3, <2>4, <2>6, <2>7 DEF Extra, TruthInv
<1>12. FailInv'
  <2>1. \A i \in 1..Len(started) : started[i] # h.id
    BY <1>7 DEF StartedIds
  <2>2. \A i, j \in 1..Len(started') : started'[i] = started'[j] => i = j
    BY <1>4, <1>5, <2>1 DEF Extra, FailInv
  <2>3. \A i \in 1..Len(started) : outcome[started[i]] = "OK"
    BY <1>1, <1>8 DEF Extra, FailInv
  <2>4. \A i \in 1..(Len(started') - 1) : outcome'[started'[i]] = "OK"
    BY <1>1, <1>4, <2>3
  <2> QED
    BY <1>1, <1>3, <1>4, <2>2, <2>4 DEF FailInv, FailStop
<1> QED
  BY <1>9, <1>10, <1>11, <1>12 DEF Extra

(* setCompletion takes a request that will not be executed. *)
LEMMA DrainExtra ==
  ASSUME Inv, Extra, Drain
  PROVE  Extra'
<1> DEFINE h == Head(request)
<1>1. /\ ppc = "drain" /\ ppc' = "drainpush"
      /\ request # << >> /\ request' = Tail(request)
      /\ cmd' = [h EXCEPT !.status = "UNFINISHED"]
      /\ UNCHANGED <<seq_no, completion, pc, reqid, pushed, started, outcome, delivered>>
  BY DEF Drain, At, Request!Pop, client, history
<1>2. /\ Len(request) \in Nat /\ Len(request') = Len(request) - 1
      /\ \A j \in 1..(Len(request) - 1) : request'[j] = request[j + 1]
      /\ h \in Command
      /\ IdsOf(request') = IdsOf(request) \ {h.id} /\ h.id \in IdsOf(request)
  BY <1>1, TailFacts, TailIds DEF Inv, TypeOK, SingleOwner
<1>3. cmd'.id = h.id /\ cmd'.status = "UNFINISHED"
  BY <1>1, <1>2 DEF Command
<1> HIDE DEF h
<1>4. CmdInv'
  BY <1>1, <1>2 DEF Extra, CmdInv
<1>5. OrderInv'
  BY <1>1 DEF Extra, OrderInv
<1>6. FailInv'
  BY <1>1 DEF Extra, FailInv, FailStop
<1>7. TruthInv'
  <2>1. /\ Delivered' = Delivered /\ Issued' = Issued /\ StartedIds' = StartedIds
        /\ \A d \in Client : Submitting(d)' <=> Submitting(d)
    BY <1>1 DEF Delivered, Issued, Submitting, StartedIds
  <2>2. \A id \in Delivered : Told(id, delivered[id])'
    BY <1>1, ToldUnchanged DEF Extra, TruthInv
  <2>3. \A i \in 1..Len(completion) : Told(completion[i].id, completion[i].status)'
    BY <1>1, ToldUnchanged DEF Extra, TruthInv
  <2>4. h.id \notin StartedIds
    BY <1>2 DEF Extra, TruthInv
  <2>5. Told(cmd.id, cmd.status)'
    BY <1>3, <2>1, <2>4 DEF Told
  <2> QED
    BY <1>1, <1>2, <2>1, <2>2, <2>3, <2>5 DEF Extra, TruthInv
<1> QED
  BY <1>4, <1>5, <1>6, <1>7 DEF Extra

(* The pseudo thread hands its command over to the completion queue. *)
LEMMA CompleteExtra ==
  ASSUME Inv, Extra, ReplyClose \/ Complete \/ FailComplete \/ DrainComplete
  PROVE  Extra'
<1>1. /\ \/ ppc = "reply" /\ ppc' = "dead"
         \/ ppc = "complete" /\ ppc' = "loop"
         \/ ppc \in {"pushfail", "drainpush"} /\ ppc' = "drain"
      /\ completion' = Append(completion, cmd)
      /\ cmd' = NoCommand
      /\ UNCHANGED <<seq_no, request, pc, reqid, pushed, started, outcome, delivered>>
  BY DEF ReplyClose, Complete, FailComplete, DrainComplete, PushCompletion, At,
         Completion!Push, client, history
<1>2. cmd \in Command /\ cmd.status \in Status /\ NoCommand.status = "none"
  BY <1>1 DEF Inv, PseudoInv, NoCommand
<1>3. /\ Len(completion) \in Nat /\ Len(completion') = Len(completion) + 1
      /\ \A j \in 1..Len(completion) : completion'[j] = completion[j]
      /\ completion'[Len(completion) + 1] = cmd
  BY <1>1, <1>2, AppendFacts, LenProperties DEF Inv, TypeOK
<1>4. CmdInv'
  BY <1>1 DEF Extra, CmdInv
<1>5. OrderInv'
  BY <1>1 DEF Extra, OrderInv
<1>6. FailInv'
  BY <1>1 DEF Extra, FailInv, FailStop
<1>7. TruthInv'
  <2>1. /\ Delivered' = Delivered /\ Issued' = Issued /\ StartedIds' = StartedIds
        /\ \A d \in Client : Submitting(d)' <=> Submitting(d)
    BY <1>1 DEF Delivered, Issued, Submitting, StartedIds
  <2>2. \A id \in Delivered : Told(id, delivered[id])'
    BY <1>1, ToldUnchanged DEF Extra, TruthInv
  <2>3. Told(cmd.id, cmd.status)
    BY <1>2, InvalidFacts DEF Extra, TruthInv
  <2>4. \A i \in 1..Len(completion') : Told(completion'[i].id, completion'[i].status)
    BY <1>3, <2>3 DEF Extra, TruthInv
  <2>5. \A i \in 1..Len(completion') : Told(completion[i].id, completion[i].status)'
    BY <1>1, <2>1, <2>4 DEF Told
  <2> QED
    BY <1>1, <1>2, <2>1, <2>2, <2>5 DEF Extra, TruthInv
<1> QED
  BY <1>4, <1>5, <1>6, <1>7 DEF Extra

(* How a step with setResult leaves the command and its position: a status *)
(* other than OK leads to the end of eventLoop.                            *)
LEMMA ResultFacts ==
  ASSUME Inv, Extra, Block \/ Exception \/ RunOnVH \/ TransferFails \/ CleanUp
  PROVE  /\ UNCHANGED <<seq_no, request, completion, pc, reqid, pushed, started, delivered>>
         /\ \/ /\ cmd = NoCommand /\ cmd' = cmd /\ outcome' = outcome
               /\ ppc \in {"ve", "syscall"} /\ ppc' \in {"loop", "dead"}
            \/ /\ cmd \in Command
               /\ ppc \in {"ve", "syscall", "exec"}
               /\ \E status \in {"OK", "EXCEPTION", "ERROR"} :
                    /\ SetResult(status)
                    /\ \/ status = "OK" /\ ppc' \in {"complete", "reply"}
                       \/ ppc' = "fail"
<1>1. ppc = "exec" => cmd \in Command
  BY DEF Inv, PseudoInv
<1>2. cmd # NoCommand => cmd \in Command
  BY DEF Inv, TypeOK
<1>3. CASE Block
  BY <1>2, <1>3 DEF Block, At, client
<1>4. CASE Exception
  BY <1>2, <1>4 DEF Exception, At, client
<1>5. CASE RunOnVH \/ TransferFails \/ CleanUp
  BY <1>1, <1>5 DEF RunOnVH, TransferFails, CleanUp, At, shared, client
<1> QED
  BY <1>3, <1>4, <1>5

(* setResult, or the VE thread at its first block request. *)
LEMMA ResultExtra ==
  ASSUME Inv, Extra, Block \/ Exception \/ RunOnVH \/ TransferFails \/ CleanUp
  PROVE  Extra'
<1>1. UNCHANGED <<seq_no, request, completion, pc, reqid, pushed, started, delivered>>
  BY ResultFacts
<1>2. /\ Delivered' = Delivered /\ Issued' = Issued /\ StartedIds' = StartedIds
      /\ \A d \in Client : Submitting(d)' <=> Submitting(d)
  BY <1>1 DEF Delivered, Issued, Submitting, StartedIds
<1>3. CASE /\ cmd = NoCommand /\ cmd' = cmd /\ outcome' = outcome
           /\ ppc \in {"ve", "syscall"} /\ ppc' \in {"loop", "dead"}
  <2>1. CmdInv' /\ OrderInv'
    BY <1>1, <1>3 DEF Extra, CmdInv, OrderInv
  <2>2. FailInv'
    BY <1>1, <1>3 DEF Extra, FailInv, FailStop
  <2>3. TruthInv'
    BY <1>1, <1>2, <1>3, QuietTruth DEF Extra, TruthInv
  <2> QED
    BY <2>1, <2>2, <2>3 DEF Extra
<1>4. ASSUME cmd \in Command, ppc \in {"ve", "syscall", "exec"},
             NEW status \in {"OK", "EXCEPTION", "ERROR"}, SetResult(status),
             \/ status = "OK" /\ ppc' \in {"complete", "reply"}
             \/ ppc' = "fail"
      PROVE  Extra'
  <2>1. /\ cmd'.id = cmd.id /\ cmd'.status = status /\ cmd.id \in Id
        /\ outcome'[cmd.id] = status
        /\ \A j \in Id : j # cmd.id => outcome'[j] = outcome[j]
    BY <1>4 DEF SetResult, Command, Inv, TypeOK
  <2>2. cmd # NoCommand
    BY <2>1, InvalidFacts
  <2>3. CmdInv' /\ OrderInv'
    BY <1>1, <1>4 DEF Extra, CmdInv, OrderInv
  <2>4. TruthInv'
    <3>1. cmd.id \notin IdsOf(completion) \cup Delivered
      BY DEF Inv, SingleOwner
    <3>2. ASSUME NEW id \in Id, NEW st, id # cmd.id, Told(id, st) PROVE Told(id, st)'
      BY <3>2, <1>2, <2>1 DEF Told
    <3>3. \A id \in Delivered : id \in Id /\ Told(id, delivered[id])'
      BY <1>1, <3>1, <3>2 DEF Extra, TruthInv, Delivered
    <3>4. \A i \in 1..Len(completion) : completion[i].id \in Id /\ completion[i].id # cmd.id
      BY <3>1, IssuedIsId DEF IdsOf, Inv, AllIssued
    <3>5. \A i \in 1..Len(completion) : Told(completion[i].id, completion[i].status)'
      BY <1>1, <3>2, <3>4 DEF Extra, TruthInv
    <3>6. Told(cmd.id, cmd.status)'
      BY <1>4, <2>1 DEF Told
    <3> QED
      BY <1>1, <1>2, <3>3, <3>5, <3>6 DEF Extra, TruthInv
  <2>5. FailInv'
    <3>1. Len(started) \in Nat /\ Len(started) >= 1 /\ cmd.id = started[Len(started)]
      BY <1>4, <2>2, LenProperties DEF Extra, FailInv, Inv, TypeOK
    <3>2. \A i \in 1..Len(started) : started[i] \in Id
      BY ElementOfSeq DEF Inv, TypeOK
    <3>3. \A i \in 1..(Len(started) - 1) : started[i] # cmd.id /\ outcome[started[i]] = "OK"
      BY <3>1 DEF Extra, FailInv, FailStop
    <3>4. \A i \in 1..(Len(started) - 1) : outcome'[started[i]] = "OK"
      BY <2>1, <3>1, <3>2, <3>3
    <3>5. status = "OK" => \A i \in 1..Len(started) : outcome'[started[i]] = "OK"
      BY <2>1, <3>1, <3>4
    <3> QED
      BY <1>1, <1>4, <3>4, <3>5 DEF Extra, FailInv, FailStop
  <2> QED
    BY <2>3, <2>4, <2>5 DEF Extra
<1> QED
  BY <1>3, <1>4, ResultFacts

-----------------------------------------------------------------------------
(* The invariant holds for a context just created. *)
LEMMA InitExtra == Init => Extra
<1> SUFFICES ASSUME Init PROVE Extra
  OBVIOUS
<1>1. Len(request) = 0 /\ Len(started) = 0 /\ Len(pushed) = 0 /\ Len(completion) = 0
  BY EmptySeq DEF Init
<1>2. StartedIds = {} /\ Delivered = {}
  BY <1>1 DEF StartedIds, Delivered, Init
<1>3. CmdInv /\ OrderInv
  BY <1>1 DEF CmdInv, OrderInv, Init, NoCommand
<1>4. FailInv
  BY <1>1 DEF FailInv, FailStop, Init, NoCommand
<1>5. TruthInv
  BY <1>1, <1>2 DEF TruthInv, Init, NoCommand
<1> QED
  BY <1>3, <1>4, <1>5 DEF Extra

(* Every action keeps it. *)
LEMMA NextExtra == Inv /\ Extra /\ [Next]_vars => Extra'
<1> SUFFICES ASSUME Inv, Extra, [Next]_vars PROVE Extra'
  OBVIOUS
<1>1. ASSUME NEW c \in Client, ClientCalls(c) PROVE Extra'
  BY <1>1, ClientQuiet, DeliverExtra DEF ClientCalls
<1>2. ASSUME NEW c \in Client, ClientStep(c) PROVE Extra'
  BY <1>2, ClientQuiet, PushExtra, DeliverExtra DEF ClientStep
<1>3. CASE PseudoStep
  BY <1>3, PseudoQuiet, ResultExtra, PopExtra, DrainExtra, CompleteExtra DEF PseudoStep
<1>4. CASE Syscall
  BY <1>4, PseudoQuiet
<1>5. CASE VEStops
  BY <1>5, ResultExtra DEF VEStops
<1>6. CASE UNCHANGED vars
  <2>1. CmdInv' /\ OrderInv' /\ FailInv'
    BY <1>6 DEF vars, Extra, CmdInv, OrderInv, FailInv, FailStop
  <2>2. Issued' = Issued /\ \A d \in Client : Submitting(d)' => Submitting(d) /\ reqid'[d] = reqid[d]
    BY <1>6 DEF vars, Issued, Submitting
  <2>3. TruthInv'
    BY <1>6, <2>2, QuietTruth DEF vars, Extra, TruthInv
  <2> QED
    BY <2>1, <2>3 DEF Extra
<1> QED
  BY <1>1, <1>2, <1>3, <1>4, <1>5, <1>6 DEF Next

(* Requests are started in the order in which they were pushed, and none   *)
(* is skipped.                                                             *)
THEOREM OrderCorrect == Spec => []ExecutionOrder
<1>1. Inv /\ Extra => ExecutionOrder
  <2> SUFFICES ASSUME Inv, Extra PROVE IsPrefix(started, pushed)
    BY DEF ExecutionOrder
  <2>1. /\ started \in Seq(Id) /\ pushed \in Seq(Id)
        /\ Len(started) \in Nat /\ Len(pushed) \in Nat /\ Len(started) <= Len(pushed)
        /\ \A i \in 1..Len(started) : started[i] = pushed[i]
    BY LenProperties DEF Inv, TypeOK, Extra, OrderInv
  <2> QED
    BY <2>1 DEF IsPrefix
<1> QED
  BY InitInv, NextInv, InitExtra, NextExtra, <1>1, PTL DEF Spec

(* A caller is told what happened to its request: UNFINISHED when it was   *)
(* never started, and the status its execution ended with otherwise.       *)
THEOREM StatusCorrect == Spec => []StatusTruthful
<1>1. Inv /\ Extra => StatusTruthful
  <2> SUFFICES ASSUME Inv, Extra, NEW id \in Id, delivered[id] # "none"
               PROVE  /\ delivered[id] = "UNFINISHED" => \A i \in 1..Len(started) : started[i] # id
                      /\ delivered[id] # "UNFINISHED" => delivered[id] = outcome[id]
    BY DEF StatusTruthful
  <2>1. Told(id, delivered[id])
    BY DEF Extra, TruthInv, Delivered
  <2> QED
    BY <2>1 DEF Told, StartedIds
<1> QED
  BY InitInv, NextInv, InitExtra, NextExtra, <1>1, PTL DEF Spec

(* Every request that was started, but the last one, ended with OK:        *)
(* nothing is executed after a failure.                                    *)
THEOREM FailStopCorrect == Spec => []FailStop
<1>1. Extra => FailStop
  BY DEF Extra, FailInv
<1> QED
  BY InitInv, NextInv, InitExtra, NextExtra, <1>1, PTL DEF Spec

-----------------------------------------------------------------------------
(* The results in the completion queue. *)
CompletedResults == {<<completion[i].id, completion[i].status>> : i \in 1..Len(completion)}

(* The result in the hand of the pseudo thread. *)
ResultInHand == IF cmd.status = "none" THEN {} ELSE {<<cmd.id, cmd.status>>}

(* A request that has a result is with the pseudo thread, in the           *)
(* completion queue or delivered.                                          *)
LEMMA ResultPlace ==
  ASSUME NEW id, Service!HasResult(id)
  PROVE  id \in IdsOf(completion) \cup Delivered \cup {cmd.id}
  BY DEF Service!HasResult, ServiceResults, IdsOf

(* A step that moves no request. *)
LEMMA ServiceStutter ==
  ASSUME UNCHANGED <<request, completion, cmd, delivered>>, ServiceStopped' = ServiceStopped
  PROVE  UNCHANGED Service!vars
  BY DEF Service!vars, ServiceQueue, ServiceRunning, ServiceResults, Delivered

(* pushRequest is Accept. *)
LEMMA ServiceAccept ==
  ASSUME Inv, Extra, NEW c \in Client, PushRequest(c)
  PROVE  Service!Next
<1> DEFINE x == [id |-> reqid[c], kind |-> kind[c], status |-> "none"]
<1>1. /\ pc[c] = "push"
      /\ request' = Append(request, x)
      /\ UNCHANGED <<completion, ppc, cmd, delivered>>
  BY DEF PushRequest, Request!Push, pseudo
<1>2. Submitting(c) /\ reqid[c] \in Id
  BY <1>1 DEF Submitting, Inv, ClientInv, TypeOK
<1>3. x \in Command /\ x.id = reqid[c]
  BY <1>2 DEF Command, Inv, TypeOK
<1> HIDE DEF x
<1>4. /\ Len(request) \in Nat /\ Len(request') = Len(request) + 1
      /\ \A j \in 1..Len(request) : request'[j] = request[j]
      /\ request'[Len(request) + 1] = x
  BY <1>1, <1>3, AppendFacts, LenProperties DEF Inv, TypeOK
<1>5. /\ reqid[c] # cmd.id
      /\ reqid[c] \notin IdsOf(request) \cup IdsOf(completion) \cup Delivered
  BY <1>2 DEF Inv, SingleOwner
<1>6. ServiceQueue' = Append(ServiceQueue, reqid[c])
  <2>1. \A i \in 1..Len(request) : request[i].id \in Id
    <3>1. \A i \in 1..Len(request) : request[i] \in Command
      BY ElementOfSeq DEF Inv, TypeOK
    <3> QED
      BY <3>1 DEF Command
  <2>2. ServiceQueue \in Seq(Id) /\ Len(ServiceQueue) = Len(request)
    BY <1>4, <2>1 DEF ServiceQueue
  <2>3. ServiceQueue' = [i \in 1..(Len(request) + 1) |-> request'[i].id]
    BY <1>4 DEF ServiceQueue
  <2>4. Append(ServiceQueue, reqid[c])
          = [i \in 1..(Len(request) + 1) |-> IF i = Len(request) + 1 THEN reqid[c] ELSE ServiceQueue[i]]
    BY <1>2, <1>4, <2>2
  <2>5. \A i \in 1..(Len(request) + 1) :
          request'[i].id = IF i = Len(request) + 1 THEN reqid[c] ELSE ServiceQueue[i]
    BY <1>3, <1>4 DEF ServiceQueue
  <2> QED
    BY <2>3, <2>4, <2>5
<1>7. /\ reqid[c] # ServiceRunning /\ ~Service!HasResult(reqid[c])
      /\ \A i \in 1..Len(ServiceQueue) : ServiceQueue[i] # reqid[c]
  <2>1. reqid[c] # ServiceRunning
    BY <1>2, <1>5, InvalidFacts DEF ServiceRunning
  <2>2. ~Service!HasResult(reqid[c])
    BY <1>5, ResultPlace
  <2>3. Len(ServiceQueue) = Len(request)
    BY <1>4 DEF ServiceQueue
  <2>4. \A i \in 1..Len(request) : ServiceQueue[i] # reqid[c]
    BY <1>5 DEF ServiceQueue, IdsOf
  <2> QED
    BY <2>1, <2>2, <2>3, <2>4
<1>8. /\ ServiceRunning' = ServiceRunning /\ ServiceStopped' = ServiceStopped
      /\ ServiceResults' = ServiceResults /\ Delivered' = Delivered
  BY <1>1 DEF ServiceRunning, ServiceStopped, ServiceResults, Delivered
<1>9. Service!Accept(reqid[c])
  BY <1>6, <1>7, <1>8 DEF Service!Accept
<1> QED
  BY <1>2, <1>9 DEF Service!Next

(* callWaitResult, callPeekResult and close take a result. *)
LEMMA ServiceTake ==
  ASSUME Inv, Extra, NEW c \in Client,
         \/ CloseReturn(c) \/ WaitReturn(c)
         \/ \E id \in returned : PeekResult(c, id)
  PROVE  Service!Next
<1>1. PICK id : Deliver(id) /\ UNCHANGED <<request, ppc, cmd>>
  BY DEF CloseReturn, WaitReturn, PeekResult, pseudo
<1>2. PICK k \in 1..Len(completion) :
        /\ completion[k].id = id
        /\ completion' = RemoveAt(completion, k)
        /\ delivered' = [delivered EXCEPT ![id] = completion[k].status]
  BY <1>1 DEF Deliver, Completion!TakeAt, Completion!IsFirst, Completion!RemoveAt, RemoveAt
<1>3. /\ Len(completion) \in Nat /\ Len(completion') = Len(completion) - 1
      /\ \A j \in 1..(Len(completion) - 1) :
           completion'[j] = IF j < k THEN completion[j] ELSE completion[j + 1]
  BY <1>2, RemoveAtFacts DEF Inv, TypeOK
<1>4. id \in Id /\ id \in IdsOf(completion) /\ Delivered' = Delivered \cup {id}
  BY <1>1, DeliverFacts
<1>5. /\ delivered'[id] = completion[k].status
      /\ \A j \in Id : j # id => delivered'[j] = delivered[j]
  BY <1>2, <1>4 DEF Inv, TypeOK
<1>6. id \notin Delivered
  BY <1>4 DEF Inv, SingleOwner
<1> DEFINE p == <<id, completion[k].status>>
<1>7. CompletedResults = CompletedResults' \cup {p}
  <2>1. \A j \in 1..Len(completion') : \E i \in 1..Len(completion) : completion'[j] = completion[i]
    BY <1>3
  <2>2. ASSUME NEW i \in 1..Len(completion)
        PROVE  i = k \/ \E j \in 1..Len(completion') : completion'[j] = completion[i]
    <3>1. CASE i < k
      BY <3>1, <1>3
    <3>2. CASE i > k
      <4>1. i - 1 \in 1..(Len(completion) - 1) /\ ~(i - 1 < k) /\ (i - 1) + 1 = i
        BY <3>2, <1>3
      <4> QED
        BY <4>1, <1>3
    <3> QED
      BY <3>1, <3>2, <1>3
  <2> QED
    BY SMTT(30), <1>2, <2>1, <2>2 DEF CompletedResults
<1>8. {<<j, delivered'[j]>> : j \in Delivered'} = {<<j, delivered[j]>> : j \in Delivered} \cup {p}
  <2>1. \A j \in Delivered : delivered'[j] = delivered[j]
    BY <1>5, <1>6 DEF Delivered
  <2> QED
    BY <1>4, <1>5, <2>1
<1>9. ServiceResults' = ServiceResults
  <2>1. ServiceResults = CompletedResults \cup {<<j, delivered[j]>> : j \in Delivered} \cup ResultInHand
    BY DEF ServiceResults, CompletedResults, ResultInHand
  <2>2. ServiceResults' = CompletedResults' \cup {<<j, delivered'[j]>> : j \in Delivered'} \cup ResultInHand'
    BY DEF ServiceResults, CompletedResults, ResultInHand
  <2>3. ResultInHand' = ResultInHand
    BY <1>1 DEF ResultInHand
  <2> QED
    BY <1>7, <1>8, <2>1, <2>2, <2>3
<1>10. Service!HasResult(id)
  <2>1. p \in ServiceResults /\ p[1] = id
    BY <1>7 DEF ServiceResults, CompletedResults
  <2> QED
    BY <2>1 DEF Service!HasResult
<1>11. ServiceQueue' = ServiceQueue /\ ServiceRunning' = ServiceRunning /\ ServiceStopped' = ServiceStopped
  BY <1>1 DEF ServiceQueue, ServiceRunning, ServiceStopped
<1>12. Service!Take(id)
  BY <1>4, <1>6, <1>9, <1>10, <1>11 DEF Service!Take
<1> QED
  BY <1>4, <1>12 DEF Service!Next

(* eventLoop and setCompletion take the front of the queue: the service    *)
(* sees its queue lose the first request.                                  *)
LEMMA ServicePop ==
  ASSUME Inv, Extra, request # << >>, request' = Tail(request)
  PROVE  /\ Head(request) \in Command
         /\ Head(request).status = "none"
         /\ ServiceQueue # << >>
         /\ Head(ServiceQueue) = Head(request).id
         /\ ServiceQueue' = Tail(ServiceQueue)
<1>1. /\ Len(request) \in Nat /\ Len(request) >= 1 /\ Len(request') = Len(request) - 1
      /\ \A j \in 1..(Len(request) - 1) : request'[j] = request[j + 1]
      /\ Head(request) = request[1] /\ Head(request) \in Command
  BY TailFacts DEF Inv, TypeOK
<1>2. Head(request).status = "none"
  BY <1>1 DEF Extra, CmdInv
<1>3. \A i \in 1..Len(request) : request[i].id \in Id
  <2>1. \A i \in 1..Len(request) : request[i] \in Command
    BY ElementOfSeq DEF Inv, TypeOK
  <2> QED
    BY <2>1 DEF Command
<1>4. /\ ServiceQueue \in Seq(Id) /\ Len(ServiceQueue) = Len(request)
      /\ \A i \in 1..Len(request) : ServiceQueue[i] = request[i].id
  BY <1>1, <1>3 DEF ServiceQueue
<1>5. ServiceQueue # << >>
  BY <1>1, <1>4, EmptySeq
<1>6. /\ Tail(ServiceQueue) \in Seq(Id)
      /\ Len(Tail(ServiceQueue)) = Len(request) - 1
      /\ \A j \in 1..(Len(request) - 1) : Tail(ServiceQueue)[j] = ServiceQueue[j + 1]
      /\ Head(ServiceQueue) = ServiceQueue[1]
  BY <1>4, <1>5, TailFacts
<1>7. ServiceQueue' = [i \in 1..(Len(request) - 1) |-> request'[i].id]
  BY <1>1 DEF ServiceQueue
<1>8. ServiceQueue' \in Seq(Id) /\ Len(ServiceQueue') = Len(request) - 1
  BY <1>1, <1>3, <1>7
<1>9. \A j \in 1..(Len(request) - 1) : ServiceQueue'[j] = Tail(ServiceQueue)[j]
  BY <1>1, <1>4, <1>6, <1>7
<1>10. ServiceQueue' = Tail(ServiceQueue)
  BY <1>6, <1>8, <1>9, SeqEqual
<1> QED
  BY <1>1, <1>2, <1>4, <1>5, <1>6, <1>10

(* popRequest is Start. *)
LEMMA ServiceStart ==
  ASSUME Inv, Extra, PopRequest
  PROVE  Service!Next
<1>1. /\ ppc = "loop" /\ ppc' = "exec"
      /\ request # << >> /\ request' = Tail(request)
      /\ cmd' = Head(request)
      /\ UNCHANGED <<completion, delivered>>
  BY DEF PopRequest, At, Request!Pop
<1>2. cmd = NoCommand /\ NoCommand.status = "none" /\ NoCommand.id = Invalid
  BY <1>1 DEF Extra, CmdInv, NoCommand
<1>3. ~ServiceStopped /\ ~ServiceStopped'
  BY <1>1 DEF ServiceStopped
<1>4. ServiceRunning = Invalid /\ ServiceRunning' = Head(request).id
  BY <1>1, <1>2, ServicePop DEF ServiceRunning
<1>5. ServiceResults' = ServiceResults /\ Delivered' = Delivered
  BY <1>1, <1>2, ServicePop DEF ServiceResults, Delivered
<1>6. ServiceStopped' = ServiceStopped
  BY <1>1 DEF ServiceStopped
<1>7. Service!Start
  BY <1>1, <1>3, <1>4, <1>5, <1>6, ServicePop DEF Service!Start
<1> QED
  BY <1>7 DEF Service!Next

(* setCompletion's popNoWait is Abandon. *)
LEMMA ServiceAbandon ==
  ASSUME Inv, Extra, Drain
  PROVE  Service!Next
<1>1. /\ ppc = "drain" /\ ppc' = "drainpush"
      /\ request # << >> /\ request' = Tail(request)
      /\ cmd' = [Head(request) EXCEPT !.status = "UNFINISHED"]
      /\ UNCHANGED <<completion, delivered>>
  BY DEF Drain, At, Request!Pop, history
<1>2. cmd = NoCommand /\ NoCommand.status = "none" /\ NoCommand.id = Invalid
  BY <1>1 DEF Extra, CmdInv, NoCommand
<1>3. cmd'.id = Head(request).id /\ cmd'.status = "UNFINISHED"
  BY <1>1, ServicePop DEF Command
<1>4. ServiceStopped /\ ServiceStopped' = ServiceStopped
  BY <1>1 DEF ServiceStopped
<1>5. ServiceRunning = Invalid /\ ServiceRunning' = ServiceRunning
  BY <1>2, <1>3 DEF ServiceRunning
<1>6. Delivered' = Delivered
  BY <1>1 DEF Delivered
<1>7. ServiceResults' = ServiceResults \cup {<<Head(request).id, "UNFINISHED">>}
  BY <1>1, <1>2, <1>3, <1>6 DEF ServiceResults
<1>8. Service!Abandon
  BY <1>1, <1>4, <1>5, <1>6, <1>7, ServicePop DEF Service!Abandon
<1> QED
  BY <1>8 DEF Service!Next

(* setResult is Finish; the loss of the VE thread before its first block   *)
(* is Stop, and the first block itself changes nothing.                    *)
LEMMA ServiceFinish ==
  ASSUME Inv, Extra, Block \/ Exception \/ RunOnVH \/ TransferFails \/ CleanUp
  PROVE  Service!Next \/ UNCHANGED Service!vars
<1>1. UNCHANGED <<request, completion, delivered>>
  BY ResultFacts
<1>2. Delivered' = Delivered /\ ServiceQueue' = ServiceQueue
  BY <1>1 DEF Delivered, ServiceQueue
<1>3. CASE /\ cmd = NoCommand /\ cmd' = cmd
           /\ ppc \in {"ve", "syscall"} /\ ppc' \in {"loop", "dead"}
  <2>1. ServiceRunning = Invalid /\ ServiceRunning' = ServiceRunning /\ ServiceResults' = ServiceResults
    BY <1>1, <1>2, <1>3 DEF ServiceRunning, ServiceResults, NoCommand
  <2>2. CASE ppc' = "loop"
    BY <1>1, <1>3, <2>2, ServiceStutter DEF ServiceStopped
  <2>3. CASE ppc' = "dead"
    <3>1. ServiceStopped' = TRUE
      BY <2>3 DEF ServiceStopped
    <3>2. Service!Stop
      BY <1>2, <2>1, <3>1 DEF Service!Stop
    <3> QED
      BY <3>2 DEF Service!Next
  <2> QED
    BY <1>3, <2>2, <2>3
<1>4. ASSUME cmd \in Command, ppc \in {"ve", "syscall", "exec"},
             NEW status \in {"OK", "EXCEPTION", "ERROR"}, SetResult(status),
             \/ status = "OK" /\ ppc' \in {"complete", "reply"}
             \/ ppc' = "fail"
      PROVE  Service!Next
  <2>1. cmd'.id = cmd.id /\ cmd'.status = status /\ cmd.id \in Id /\ cmd.status = "none"
    BY <1>4 DEF SetResult, Command, Extra, CmdInv
  <2>2. ServiceRunning = cmd.id /\ cmd.id # Invalid /\ ServiceRunning' = Invalid
    BY <1>4, <2>1, InvalidFacts DEF ServiceRunning
  <2>3. ServiceResults' = ServiceResults \cup {<<cmd.id, status>>}
    BY <1>1, <1>2, <1>4, <2>1 DEF ServiceResults
  <2>4. ServiceStopped' \in BOOLEAN /\ (status # "OK" => ServiceStopped')
    BY <1>4 DEF ServiceStopped
  <2>5. Service!Finish(status)
    BY <1>2, <2>2, <2>3, <2>4 DEF Service!Finish
  <2> QED
    BY <2>5 DEF Service!Next
<1> QED
  BY <1>3, <1>4, ResultFacts

(* pushCompletion moves a result, which the service does not see. *)
LEMMA ServiceComplete ==
  ASSUME Inv, Extra, ReplyClose \/ Complete \/ FailComplete \/ DrainComplete
  PROVE  UNCHANGED Service!vars
<1>1. /\ \/ ppc = "reply" /\ ppc' = "dead"
         \/ ppc = "complete" /\ ppc' = "loop"
         \/ ppc \in {"pushfail", "drainpush"} /\ ppc' = "drain"
      /\ completion' = Append(completion, cmd)
      /\ cmd' = NoCommand
      /\ UNCHANGED <<request, delivered>>
  BY DEF ReplyClose, Complete, FailComplete, DrainComplete, PushCompletion, At,
         Completion!Push, history
<1>2. cmd \in Command /\ cmd.status # "none" /\ NoCommand.status = "none" /\ NoCommand.id = Invalid
  BY <1>1, InvalidFacts DEF Inv, PseudoInv, NoCommand
<1>3. /\ Len(completion) \in Nat /\ Len(completion') = Len(completion) + 1
      /\ \A j \in 1..Len(completion) : completion'[j] = completion[j]
      /\ completion'[Len(completion) + 1] = cmd
  BY <1>1, <1>2, AppendFacts, LenProperties DEF Inv, TypeOK
<1>4. CompletedResults' = CompletedResults \cup {<<cmd.id, cmd.status>>}
  BY <1>3 DEF CompletedResults
<1>5. Delivered' = Delivered /\ ServiceQueue' = ServiceQueue
  BY <1>1 DEF Delivered, ServiceQueue
<1>6. ServiceResults' = ServiceResults
  BY <1>1, <1>2, <1>4, <1>5 DEF ServiceResults, CompletedResults
<1>7. ServiceRunning' = ServiceRunning
  BY <1>1, <1>2 DEF ServiceRunning
<1>8. ServiceStopped' = ServiceStopped
  BY <1>1 DEF ServiceStopped
<1> QED
  BY <1>5, <1>6, <1>7, <1>8 DEF Service!vars

(* Every step of the context is a step of the service, or none. *)
LEMMA ServiceStep == Inv /\ Extra /\ [Next]_vars => [Service!Next]_(Service!vars)
<1> SUFFICES ASSUME Inv, Extra, [Next]_vars PROVE Service!Next \/ UNCHANGED Service!vars
  OBVIOUS
<1>1. ASSUME NEW c \in Client, ClientCalls(c) \/ ClientStep(c)
      PROVE  Service!Next \/ UNCHANGED Service!vars
  <2>1. CASE PushRequest(c)
    BY <2>1, ServiceAccept
  <2>2. CASE \/ CloseReturn(c) \/ WaitReturn(c) \/ \E id \in returned : PeekResult(c, id)
    BY <2>2, ServiceTake
  <2>3. CASE \/ \E k \in Kind : Submit(c, k)
             \/ Close(c) \/ CloseExited(c)
             \/ StatusReady(c) \/ StatusClosed(c)
             \/ \E id \in returned : WaitResult(c, id)
    <3>1. UNCHANGED <<request, completion, ppc, cmd, delivered>>
      BY <2>3 DEF Submit, Close, IssueRequestID, CloseExited, StatusReady, StatusClosed,
                  WaitResult, shared, pseudo, history
    <3> QED
      BY <3>1, ServiceStutter DEF ServiceStopped
  <2> QED
    BY <1>1, <2>1, <2>2, <2>3 DEF ClientCalls, ClientStep
<1>2. CASE StartEventLoop \/ SyscallDone \/ Syscall \/ DoCall \/ FailState \/ FailClose \/ DrainEnd
  <2>1. UNCHANGED <<request, completion, cmd, delivered>>
    BY <1>2 DEF StartEventLoop, SyscallDone, Syscall, DoCall, FailState, FailClose, DrainEnd,
                shared, history
  <2>2. ServiceStopped' = ServiceStopped
    BY <1>2 DEF StartEventLoop, SyscallDone, Syscall, DoCall, FailState, FailClose, DrainEnd,
                At, ServiceStopped
  <2> QED
    BY <2>1, <2>2, ServiceStutter
<1>3. CASE PopRequest
  BY <1>3, ServiceStart
<1>4. CASE Drain
  BY <1>4, ServiceAbandon
<1>5. CASE Block \/ Exception \/ RunOnVH \/ TransferFails \/ CleanUp
  BY <1>5, ServiceFinish
<1>6. CASE ReplyClose \/ Complete \/ FailComplete \/ DrainComplete
  BY <1>6, ServiceComplete
<1>7. CASE UNCHANGED vars
  BY <1>7, ServiceStutter DEF vars, ServiceStopped
<1> QED
  BY <1>1, <1>2, <1>3, <1>4, <1>5, <1>6, <1>7 DEF Next, PseudoStep, VEStops

(* The thread context implements ContextService: whatever its clients and  *)
(* its pseudo thread do, requests are executed one at a time in the order  *)
(* they were accepted, each gets one result, and each result is taken once. *)
THEOREM ServiceRefinement == Spec => ImplementsService
<1>1. Init => Service!Init
  <2> SUFFICES ASSUME Init PROVE Service!Init
    OBVIOUS
  <2>1. Len(request) = 0 /\ Len(completion) = 0
    BY EmptySeq DEF Init
  <2>2. Delivered = {}
    BY DEF Init, Delivered
  <2>3. ServiceQueue = << >>
    BY <2>1 DEF ServiceQueue
  <2>4. ServiceRunning = Invalid /\ ServiceStopped = FALSE
    BY DEF Init, ServiceRunning, ServiceStopped, NoCommand
  <2>5. ServiceResults = {}
    BY <2>1, <2>2 DEF Init, ServiceResults, NoCommand
  <2> QED
    BY <2>2, <2>3, <2>4, <2>5 DEF Service!Init
<1> QED
  BY <1>1, InitInv, NextInv, InitExtra, NextExtra, ServiceStep, PTL
  DEF Spec, ImplementsService, Service!Spec
=============================================================================
