------------------------- MODULE ThreadContextProofs -------------------------
(***************************************************************************)
(* Proofs about ThreadContext, for any set of clients, any request IDs,    *)
(* any position of seq_no and any combination of failures: its type        *)
(* invariant, that a request is in one place at a time, that a result has  *)
(* one taker and is never replaced, and that the state clients read agrees *)
(* with what the pseudo thread does.                                       *)
(***************************************************************************)
EXTENDS ThreadContext, QueueLemmas

(* The IDs handed out by issueRequestID so far: a window that may wrap     *)
(* around VEO_REQUEST_ID_INVALID.                                          *)
Issued ==
  {id \in Id : IF seq_no >= StartSeq THEN StartSeq <= id /\ id < seq_no
                                     ELSE StartSeq <= id \/ id < seq_no}

(* Fewer IDs are issued than there are, so the window does not close. *)
SeqInv == Issues <= MaxRequests

(* Every ID in use was issued. *)
AllIssued ==
  /\ IdsOf(request) \subseteq Issued
  /\ IdsOf(completion) \subseteq Issued
  /\ Delivered \subseteq Issued
  /\ rem_reqid \subseteq Issued
  /\ returned \subseteq Issued
  /\ cmd.id \in Issued \cup {Invalid}
  /\ \A c \in Client : pc[c] = "close" => reqid[c] \in Issued \cup {Invalid}

(* What the pseudo thread has in hand at each point. *)
PseudoInv ==
  /\ ppc \in {"exec", "reply", "complete", "fail", "closeq", "pushfail", "drainpush"}
       => cmd \in Command
  /\ ppc \in {"reply", "complete", "fail", "closeq", "pushfail", "drainpush"}
       => cmd.status \in Status
  /\ \A i \in 1..Len(completion) : completion[i].status \in Status

(* An ID is unknown to everyone else while its request is submitted, only  *)
(* IDs that were returned are waited for, and the ID of a close request is *)
(* never returned.                                                         *)
ClientInv ==
  /\ \A c \in Client :
       /\ Submitting(c) => reqid[c] \in rem_reqid /\ reqid[c] \notin returned
       /\ pc[c] = "wait" => reqid[c] \in returned
       /\ pc[c] = "close" => reqid[c] \notin returned
  /\ \A c, d \in Client :
       c # d /\ Submitting(c) /\ pc[d] = "close" => reqid[c] # reqid[d]

(* The inductive invariant. *)
Inv == TypeOK /\ SeqInv /\ AllIssued /\ PseudoInv /\ ClientInv /\ SingleOwner /\ OneTaker

-----------------------------------------------------------------------------
(* issueRequestID yields a valid ID that was not handed out before.        *)
LEMMA FreshID ==
  ASSUME TypeOK, SeqInv, Issues < MaxRequests, seq_no' = NextSeq
  PROVE  /\ NewID \in Id
         /\ NewID \notin Issued
         /\ Issued' = Issued \cup {NewID}
         /\ NextSeq \in 0..Invalid
         /\ SeqInv'
<1> USE IdAssumption DEF TypeOK, Issues, Invalid, Id, NewID, NextSeq
<1>1. NewID \in Id /\ NextSeq \in 0..Invalid /\ SeqInv'
  BY DEF SeqInv
<1>2. NewID \notin Issued
  BY DEF Issued
<1>3. \A id \in Id : id \in Issued' <=> id \in Issued \/ id = NewID
  BY DEF Issued
<1> QED
  BY <1>1, <1>2, <1>3 DEF Issued

(* VEO_REQUEST_ID_INVALID is no request's ID. *)
LEMMA InvalidFacts == Invalid \notin Id /\ NoCommand.id = Invalid /\ "none" \notin Status
  BY IdAssumption DEF Invalid, Id, NoCommand, Status

(* The IDs that issueRequestID has handed out are valid ones. *)
LEMMA IssuedIsId == Issued \subseteq Id
  BY DEF Issued

(* A step that leaves the queues, the IDs and the clients alone. *)
LEMMA QuietStep ==
  ASSUME Inv, UNCHANGED <<seq_no, rem_reqid, request, completion, pc, reqid, returned, delivered>>,
         cmd'.id = cmd.id
  PROVE  (SeqInv /\ AllIssued /\ ClientInv /\ SingleOwner /\ OneTaker)'
<1>1. Issued' = Issued /\ Delivered' = Delivered /\ SeqInv'
  BY DEF Issued, Delivered, SeqInv, Issues, Inv
<1>2. AllIssued'
  BY <1>1 DEF AllIssued, Inv
<1>3. ClientInv'
  BY DEF ClientInv, Submitting, Inv
<1>4. SingleOwner'
  BY <1>1 DEF SingleOwner, Submitting, Inv
<1>5. OneTaker'
  BY DEF OneTaker, Waiting, Inv
<1> QED
  BY <1>1, <1>2, <1>3, <1>4, <1>5

(* issueRequestID. *)
LEMMA IssueStep ==
  ASSUME Inv, NEW c \in Client, NEW k \in AllKinds, pc[c] = "idle", IssueRequestID(c, k)
  PROVE  Inv'
<1> USE DEF Inv
<1>1. /\ NewID \in Id /\ NewID \notin Issued /\ Issued' = Issued \cup {NewID}
      /\ NextSeq \in 0..Invalid /\ SeqInv'
  BY FreshID DEF IssueRequestID
<1>2. /\ seq_no' = NextSeq
      /\ rem_reqid' = rem_reqid \cup {NewID}
      /\ reqid' = [reqid EXCEPT ![c] = NewID]
      /\ kind' = [kind EXCEPT ![c] = k]
      /\ pc' = [pc EXCEPT ![c] = "status"]
      /\ UNCHANGED <<state, request, queue_state, completion, ppc, cmd, freed,
                     returned, pushed, started, outcome, delivered>>
  BY DEF IssueRequestID, Goto, pseudo, history
<1>3. /\ reqid'[c] = NewID /\ pc'[c] = "status"
      /\ \A d \in Client : d # c => reqid'[d] = reqid[d] /\ pc'[d] = pc[d]
  BY <1>2 DEF TypeOK
<1>4. Delivered' = Delivered
  BY <1>2 DEF Delivered
<1>5. TypeOK'
  BY <1>1, <1>2 DEF TypeOK, ClientPC
<1>6. AllIssued'
  BY <1>1, <1>2, <1>3, <1>4 DEF AllIssued
<1>7. PseudoInv'
  BY <1>2 DEF PseudoInv
<1>8. ClientInv'
  BY <1>1, <1>2, <1>3, InvalidFacts DEF ClientInv, Submitting, AllIssued
<1>9. SingleOwner'
  <2>1. NewID \notin IdsOf(request) \cup {cmd.id} \cup IdsOf(completion) \cup Delivered
    BY <1>1, InvalidFacts DEF AllIssued
  <2>2. \A d \in Client : d # c /\ Submitting(d) => reqid[d] # NewID
    BY <1>1 DEF ClientInv, AllIssued
  <2> QED
    BY <1>2, <1>3, <1>4, <2>1, <2>2 DEF SingleOwner, Submitting
<1>10. OneTaker'
  <2>1. NewID \notin returned /\ \A d \in Client : pc[d] = "wait" => reqid[d] # NewID
    BY <1>1 DEF ClientInv, AllIssued
  <2>2. \A d \in Client, j \in Id : Waiting(d, j)' <=> Waiting(d, j)
    BY <1>3, <1>2 DEF Waiting
  <2>3. \A d \in Client : ~Waiting(d, NewID)
    BY <2>1 DEF Waiting
  <2> QED
    BY <1>2, <2>1, <2>2, <2>3 DEF OneTaker, TypeOK
<1> QED
  BY <1>1, <1>5, <1>6, <1>7, <1>8, <1>9, <1>10

(* pushRequest finds the queue open or closed. *)
LEMMA StatusStep ==
  ASSUME Inv, NEW c \in Client, StatusReady(c) \/ StatusClosed(c)
  PROVE  Inv'
<1> USE DEF Inv
<1>1. /\ pc[c] = "status"
      /\ UNCHANGED <<state, seq_no, rem_reqid, request, queue_state, completion, kind,
                     ppc, cmd, freed, pushed, started, outcome, delivered>>
  BY DEF StatusReady, StatusClosed, shared, pseudo, history
<1>2. \E l \in {"push", "idle", "close"} : pc' = [pc EXCEPT ![c] = l]
  BY DEF StatusReady, StatusClosed, Goto
<1>3. \/ pc'[c] \in {"push", "idle"} /\ reqid' = reqid /\ returned' = returned
      \/ pc'[c] = "idle" /\ reqid' = reqid /\ returned' = returned \cup {reqid[c]}
      \/ /\ pc'[c] = "close" /\ reqid' = [reqid EXCEPT ![c] = Invalid]
         /\ reqid'[c] = Invalid /\ returned' = returned
  BY DEF StatusReady, StatusClosed, Goto, TypeOK, history
<1>4. \A d \in Client : d # c => reqid'[d] = reqid[d] /\ pc'[d] = pc[d]
  BY <1>2, <1>3 DEF TypeOK
<1>5. Submitting(c) /\ reqid[c] \in rem_reqid /\ reqid[c] \in Id
  BY <1>1 DEF Submitting, ClientInv, TypeOK
<1>6. Delivered' = Delivered /\ Issued' = Issued /\ SeqInv'
  BY <1>1 DEF Delivered, Issued, SeqInv, Issues
<1>7. TypeOK'
  BY <1>1, <1>2, <1>3, <1>5 DEF TypeOK, ClientPC
<1>8. AllIssued'
  BY <1>1, <1>3, <1>4, <1>5, <1>6 DEF AllIssued, TypeOK
<1>9. PseudoInv'
  BY <1>1 DEF PseudoInv
<1>10. ClientInv'
  <2>1. \A d \in Client : d # c /\ Submitting(d) => reqid[d] # reqid[c]
    BY <1>5 DEF SingleOwner
  <2>2. \A d \in Client : Submitting(d) => reqid[d] # Invalid
    BY InvalidFacts DEF ClientInv, TypeOK
  <2>3. Invalid \notin returned
    BY InvalidFacts DEF TypeOK
  <2> QED
    BY <1>1, <1>3, <1>4, <1>5, <2>1, <2>2, <2>3 DEF ClientInv, Submitting
<1>11. SingleOwner'
  BY <1>1, <1>3, <1>4, <1>5, <1>6 DEF SingleOwner, Submitting
<1>12. OneTaker'
  <2>1. delivered[reqid[c]] = "none"
    BY <1>5 DEF SingleOwner, Delivered
  <2> QED
    BY <1>1, <1>3, <1>4, <1>5, <2>1 DEF OneTaker, Waiting
<1> QED
  BY <1>6, <1>7, <1>8, <1>9, <1>10, <1>11, <1>12

(* pushRequest puts the command into the request queue. *)
LEMMA PushStep ==
  ASSUME Inv, NEW c \in Client, PushRequest(c)
  PROVE  Inv'
<1> USE DEF Inv
<1> DEFINE x == [id |-> reqid[c], kind |-> kind[c], status |-> "none"]
<1>1. /\ pc[c] = "push"
      /\ request' = Append(request, x)
      /\ pushed' = Append(pushed, reqid[c])
      /\ UNCHANGED <<state, seq_no, rem_reqid, queue_state, completion, kind, reqid,
                     ppc, cmd, freed, started, outcome, delivered>>
  BY DEF PushRequest, Request!Push, pseudo
<1>2. \/ pc' = [pc EXCEPT ![c] = "close"] /\ returned' = returned
      \/ pc' = [pc EXCEPT ![c] = "idle"] /\ returned' = returned \cup {reqid[c]}
  BY DEF PushRequest, Goto
<1>3. /\ \A d \in Client : d # c => pc'[d] = pc[d]
      /\ \/ pc'[c] = "close" /\ returned' = returned
         \/ pc'[c] = "idle" /\ returned' = returned \cup {reqid[c]}
  BY <1>2 DEF TypeOK
<1>4. Submitting(c) /\ reqid[c] \in rem_reqid /\ reqid[c] \in Id
  BY <1>1 DEF Submitting, ClientInv, TypeOK
<1>5. x \in Command /\ x.id = reqid[c]
  BY <1>4 DEF Command, TypeOK
<1> HIDE DEF x
<1>6. reqid[c] \notin IdsOf(request) \cup {cmd.id} \cup IdsOf(completion) \cup Delivered
  BY <1>4 DEF SingleOwner
<1>7. IdsOf(request') = IdsOf(request) \cup {reqid[c]} /\ DistinctIds(request')
  BY <1>1, <1>5, <1>6, AppendIds DEF SingleOwner, TypeOK
<1>8. Delivered' = Delivered /\ Issued' = Issued /\ SeqInv'
  BY <1>1 DEF Delivered, Issued, SeqInv, Issues
<1>9. TypeOK'
  <2>1. request' \in Seq(Command) /\ pushed' \in Seq(Id)
    BY <1>1, <1>4, <1>5, AppendFacts DEF TypeOK
  <2> QED
    BY <1>1, <1>2, <1>4, <2>1 DEF TypeOK, ClientPC
<1>10. AllIssued'
  BY <1>1, <1>2, <1>3, <1>4, <1>7, <1>8 DEF AllIssued, TypeOK
<1>11. PseudoInv'
  BY <1>1 DEF PseudoInv
<1>12. \A d \in Client : d # c /\ Submitting(d) => reqid[d] # reqid[c]
  BY <1>4 DEF SingleOwner
<1>13. ClientInv'
  BY <1>1, <1>3, <1>4, <1>12 DEF ClientInv, Submitting
<1>14. SingleOwner'
  <2>1. \A d \in Client : Submitting(d)' => d # c /\ Submitting(d)
    BY <1>3 DEF Submitting
  <2> QED
    BY <1>1, <1>6, <1>7, <1>8, <1>12, <2>1 DEF SingleOwner
<1>15. OneTaker'
  <2>1. delivered[reqid[c]] = "none"
    BY <1>4, <1>6 DEF Delivered
  <2> QED
    BY <1>1, <1>3, <1>4, <2>1 DEF OneTaker, Waiting
<1> QED
  BY <1>8, <1>9, <1>10, <1>11, <1>13, <1>14, <1>15

(* A result leaves the completion queue for its caller. *)
LEMMA DeliverFacts ==
  ASSUME Inv, NEW id, Deliver(id)
  PROVE  /\ id \in Id /\ id \in IdsOf(completion)
         /\ completion' \in Seq(Command)
         /\ IdsOf(completion') = IdsOf(completion) \ {id}
         /\ DistinctIds(completion')
         /\ \A i \in 1..Len(completion') : completion'[i].status \in Status
         /\ delivered' \in [Id -> Status \cup {"none"}]
         /\ delivered'[id] # "none"
         /\ \A j \in Id : j # id => delivered'[j] = delivered[j]
         /\ Delivered' = Delivered \cup {id}
<1> USE DEF Inv
<1>1. PICK k \in 1..Len(completion) :
        /\ completion[k].id = id
        /\ completion' = RemoveAt(completion, k)
        /\ delivered' = [delivered EXCEPT ![id] = completion[k].status]
  BY DEF Deliver, Completion!TakeAt, Completion!IsFirst, Completion!RemoveAt, RemoveAt
<1>2. completion[k] \in Command /\ completion[k].status \in Status
  BY ElementOfSeq DEF TypeOK, PseudoInv
<1>3. id \in Id /\ id \in IdsOf(completion)
  BY <1>1, <1>2 DEF Command, IdsOf
<1>4. /\ IdsOf(completion') = IdsOf(completion) \ {id}
      /\ DistinctIds(completion')
  BY <1>1, RemoveAtIds DEF SingleOwner, TypeOK
<1>5. /\ completion' \in Seq(Command)
      /\ Len(completion) \in Nat
      /\ Len(completion') = Len(completion) - 1
      /\ \A j \in 1..(Len(completion) - 1) :
           completion'[j] = IF j < k THEN completion[j] ELSE completion[j + 1]
  BY <1>1, RemoveAtFacts DEF TypeOK
<1>6. \A i \in 1..Len(completion') : completion'[i].status \in Status
  BY <1>5 DEF PseudoInv
<1>7. /\ delivered' \in [Id -> Status \cup {"none"}]
      /\ delivered'[id] # "none"
      /\ \A j \in Id : j # id => delivered'[j] = delivered[j]
  BY <1>1, <1>2, <1>3, InvalidFacts DEF TypeOK
<1>8. Delivered' = Delivered \cup {id}
  BY <1>3, <1>7 DEF Delivered
<1> QED
  BY <1>3, <1>4, <1>5, <1>6, <1>7, <1>8

(* callWaitResult, callPeekResult or close gets its result. *)
LEMMA DeliverStep ==
  ASSUME Inv, NEW c \in Client,
         \/ CloseReturn(c) \/ WaitReturn(c)
         \/ \E id \in returned : PeekResult(c, id)
  PROVE  Inv'
<1> USE DEF Inv
<1>1. PICK id :
        /\ Deliver(id)
        /\ UNCHANGED <<state, seq_no, request, queue_state, kind, reqid, ppc, cmd,
                       returned, pushed, started, outcome>>
        /\ freed' \in BOOLEAN
        /\ \/ /\ pc[c] \in {"close", "wait"} /\ id = reqid[c]
              /\ pc' = [pc EXCEPT ![c] = "idle"]
              /\ rem_reqid' = rem_reqid
           \/ /\ id \in returned /\ id \in rem_reqid
              /\ pc' = pc
              /\ rem_reqid' = rem_reqid \ {id}
  BY DEF CloseReturn, WaitReturn, PeekResult, Goto, pseudo, client, TypeOK
<1>2. /\ id \in Id /\ id \in IdsOf(completion)
      /\ completion' \in Seq(Command)
      /\ IdsOf(completion') = IdsOf(completion) \ {id}
      /\ DistinctIds(completion')
      /\ \A i \in 1..Len(completion') : completion'[i].status \in Status
      /\ delivered' \in [Id -> Status \cup {"none"}]
      /\ delivered'[id] # "none"
      /\ \A j \in Id : j # id => delivered'[j] = delivered[j]
      /\ Delivered' = Delivered \cup {id}
  BY <1>1, DeliverFacts
<1>3. \A d \in Client : \/ pc'[d] = pc[d]
                        \/ d = c /\ pc[c] \in {"close", "wait"} /\ pc'[d] = "idle"
  BY <1>1 DEF TypeOK
<1>4. TypeOK'
  BY <1>1, <1>2 DEF TypeOK, ClientPC
<1>5. Issued' = Issued /\ SeqInv'
  BY <1>1 DEF Issued, SeqInv, Issues
<1>6. AllIssued'
  BY <1>1, <1>2, <1>3, <1>5 DEF AllIssued
<1>7. PseudoInv'
  BY <1>1, <1>2 DEF PseudoInv
<1>8. ClientInv'
  BY <1>1, <1>3 DEF ClientInv, Submitting
<1>9. SingleOwner'
  BY <1>1, <1>2, <1>3 DEF SingleOwner, Submitting
<1>10. OneTaker'
  <2>1. \A d \in Client : pc'[d] = "wait" => reqid[d] # id
    <3>1. CASE pc[c] = "wait" /\ id = reqid[c] /\ pc'[c] = "idle"
      BY <3>1, <1>2, <1>3 DEF OneTaker, Waiting
    <3>2. CASE pc[c] = "close" /\ id = reqid[c] /\ pc'[c] = "idle"
      BY <3>2, <1>3 DEF ClientInv
    <3>3. CASE id \in rem_reqid /\ pc' = pc
      BY <3>3, <1>2 DEF OneTaker, Waiting
    <3> QED
      BY <3>1, <3>2, <3>3, <1>1 DEF TypeOK
  <2>2. \A j \in returned : delivered'[j] = "none" => j # id /\ delivered[j] = "none"
    BY <1>2 DEF TypeOK
  <2>3. \A d \in Client, j \in Id : Waiting(d, j) /\ j # id => Waiting(d, j)'
    BY <1>1, <1>3 DEF Waiting
  <2>4. \A d \in Client, j \in Id : Waiting(d, j)' => Waiting(d, j) /\ j # id
    BY <1>1, <1>3, <2>1 DEF Waiting
  <2>5. rem_reqid' \subseteq rem_reqid /\ rem_reqid \subseteq rem_reqid' \cup {id}
    BY <1>1
  <2>6. \A d \in Client, j \in Id :
          Waiting(d, j)' => /\ j \notin rem_reqid'
                            /\ delivered'[j] = "none"
                            /\ \A e \in Client \ {d} : ~Waiting(e, j)'
    BY <1>2, <2>4, <2>5 DEF OneTaker
  <2>7. \A j \in returned :
          delivered'[j] = "none" <=> j \in rem_reqid' \/ \E d \in Client : Waiting(d, j)'
    <3> SUFFICES ASSUME NEW j \in returned
                 PROVE  delivered'[j] = "none" <=>
                          j \in rem_reqid' \/ \E d \in Client : Waiting(d, j)'
      OBVIOUS
    <3>1. CASE j = id
      <4>1. delivered'[id] # "none" /\ \A d \in Client : ~Waiting(d, id)'
        BY <1>2, <2>4
      <4>2. id \notin rem_reqid'
        BY <3>1, <1>1, <1>2 DEF OneTaker, Waiting, ClientInv
      <4> QED
        BY <3>1, <4>1, <4>2
    <3>2. CASE j # id
      BY <3>2, <1>2, <2>3, <2>4, <2>5 DEF OneTaker, TypeOK
    <3> QED
      BY <3>1, <3>2
  <2> QED
    BY <1>1, <2>6, <2>7 DEF OneTaker
<1> QED
  BY <1>4, <1>5, <1>6, <1>7, <1>8, <1>9, <1>10

(* callWaitResult claims an ID. *)
LEMMA WaitStep ==
  ASSUME Inv, NEW c \in Client, NEW id \in returned, WaitResult(c, id)
  PROVE  Inv'
<1> USE DEF Inv
<1>1. /\ pc[c] = "idle" /\ id \in rem_reqid /\ id \in Id
      /\ rem_reqid' = rem_reqid \ {id}
      /\ reqid' = [reqid EXCEPT ![c] = id]
      /\ kind' = [kind EXCEPT ![c] = "call"]
      /\ pc' = [pc EXCEPT ![c] = "wait"]
      /\ UNCHANGED <<state, seq_no, request, queue_state, completion, ppc, cmd, freed,
                     returned, pushed, started, outcome, delivered>>
  BY DEF WaitResult, Goto, pseudo, history, TypeOK
<1>2. /\ reqid'[c] = id /\ pc'[c] = "wait"
      /\ \A d \in Client : d # c => reqid'[d] = reqid[d] /\ pc'[d] = pc[d]
  BY <1>1 DEF TypeOK
<1>3. Delivered' = Delivered /\ Issued' = Issued /\ SeqInv'
  BY <1>1 DEF Delivered, Issued, SeqInv, Issues
<1>4. TypeOK'
  BY <1>1 DEF TypeOK, ClientPC, AllKinds
<1>5. AllIssued'
  BY <1>1, <1>2, <1>3 DEF AllIssued
<1>6. PseudoInv'
  BY <1>1 DEF PseudoInv
<1>7. ClientInv'
  BY <1>1, <1>2 DEF ClientInv, Submitting
<1>8. SingleOwner'
  <2>1. \A d \in Client : Submitting(d)' => d # c /\ Submitting(d) /\ reqid'[d] = reqid[d]
    BY <1>2 DEF Submitting
  <2> QED
    BY <1>1, <1>3, <2>1 DEF SingleOwner
<1>9. OneTaker'
  <2>1. \A d \in Client, j \in Id : Waiting(d, j)' <=> Waiting(d, j) \/ (d = c /\ j = id)
    BY <1>1, <1>2 DEF Waiting
  <2>2. delivered[id] = "none" /\ \A d \in Client : ~Waiting(d, id)
    <3>1. \A d \in Client : ~Waiting(d, id)
      BY <1>1 DEF OneTaker
    <3>2. delivered[id] = "none"
      BY <1>1 DEF OneTaker
    <3> QED
      BY <3>1, <3>2
  <2> QED
    BY <1>1, <2>1, <2>2 DEF OneTaker, TypeOK
<1> QED
  BY <1>3, <1>4, <1>5, <1>6, <1>7, <1>8, <1>9

(* eventLoop or setCompletion takes the front of the request queue. *)
LEMMA PopStep ==
  ASSUME Inv, PopRequest \/ Drain
  PROVE  Inv'
<1> USE DEF Inv
<1>1. /\ request # << >> /\ request' = Tail(request)
      /\ cmd' = Head(request) \/ cmd' = [Head(request) EXCEPT !.status = "UNFINISHED"]
      /\ \/ ppc' = "exec"
         \/ ppc' = "drainpush" /\ cmd' = [Head(request) EXCEPT !.status = "UNFINISHED"]
      /\ started' = started \/ started' = Append(started, Head(request).id)
      /\ UNCHANGED <<state, seq_no, rem_reqid, queue_state, completion, pc, kind, reqid,
                     freed, returned, pushed, outcome, delivered>>
  BY DEF PopRequest, Drain, Request!Pop, client, history
<1>2. /\ Head(request) \in Command /\ request' \in Seq(Command)
      /\ IdsOf(request') = IdsOf(request) \ {Head(request).id}
      /\ Head(request).id \in IdsOf(request)
      /\ DistinctIds(request')
  BY <1>1, TailFacts, TailIds DEF TypeOK, SingleOwner
<1>3. /\ cmd' \in Command /\ cmd'.id = Head(request).id
      /\ ppc' = "drainpush" => cmd'.status \in Status
  BY <1>1, <1>2 DEF Command, Status
<1>4. Delivered' = Delivered /\ Issued' = Issued /\ SeqInv'
  BY <1>1 DEF Delivered, Issued, SeqInv, Issues
<1>5. TypeOK'
  <2>1. Head(request).id \in Id
    BY <1>2 DEF Command
  <2>2. Append(started, Head(request).id) \in Seq(Id)
    BY <2>1, AppendFacts DEF TypeOK
  <2>3. started' \in Seq(Id)
    BY <1>1, <2>2 DEF TypeOK
  <2> QED
    BY <1>1, <1>2, <1>3, <2>3 DEF TypeOK, PseudoPC
<1>6. AllIssued'
  BY <1>1, <1>2, <1>3, <1>4 DEF AllIssued
<1>7. PseudoInv'
  BY <1>1, <1>3 DEF PseudoInv
<1>8. ClientInv'
  BY <1>1 DEF ClientInv, Submitting
<1>9. SingleOwner'
  <2>1. \A d \in Client : Submitting(d)' = Submitting(d)
    BY <1>1 DEF Submitting
  <2> QED
    BY <1>1, <1>2, <1>3, <1>4, <2>1 DEF SingleOwner
<1>10. OneTaker'
  BY <1>1 DEF OneTaker, Waiting
<1> QED
  BY <1>4, <1>5, <1>6, <1>7, <1>8, <1>9, <1>10

(* The pseudo thread's command goes to the completion queue. *)
LEMMA CompleteStep ==
  ASSUME Inv, ReplyClose \/ Complete \/ FailComplete \/ DrainComplete
  PROVE  Inv'
<1> USE DEF Inv
<1>1. /\ ppc \in {"reply", "complete", "pushfail", "drainpush"}
      /\ ppc' \in {"dead", "loop", "drain"}
      /\ completion' = Append(completion, cmd)
      /\ cmd' = NoCommand
      /\ UNCHANGED <<state, seq_no, rem_reqid, request, queue_state, pc, kind, reqid, freed,
                     returned, pushed, started, outcome, delivered>>
  BY DEF ReplyClose, Complete, FailComplete, DrainComplete, PushCompletion, At,
         Completion!Push, client, history
<1>2. cmd \in Command /\ cmd.status \in Status /\ cmd.id \in Id
  BY <1>1 DEF PseudoInv, Command
<1>3. cmd'.id = Invalid
  BY <1>1, InvalidFacts
<1>4. /\ completion' \in Seq(Command)
      /\ IdsOf(completion') = IdsOf(completion) \cup {cmd.id}
      /\ DistinctIds(completion')
  BY <1>1, <1>2, AppendFacts, AppendIds DEF TypeOK, SingleOwner
<1>5. \A i \in 1..Len(completion') : completion'[i].status \in Status
  <2>1. /\ Len(completion) \in Nat
        /\ Len(completion') = Len(completion) + 1
        /\ \A j \in 1..Len(completion) : completion'[j] = completion[j]
        /\ completion'[Len(completion) + 1] = cmd
    BY <1>1, <1>2, AppendFacts, LenProperties DEF TypeOK
  <2> QED
    BY <1>2, <2>1 DEF PseudoInv
<1>6. Delivered' = Delivered /\ Issued' = Issued /\ SeqInv'
  BY <1>1 DEF Delivered, Issued, SeqInv, Issues
<1>7. TypeOK'
  BY <1>1, <1>4 DEF TypeOK, PseudoPC
<1>8. AllIssued'
  BY <1>1, <1>2, <1>3, <1>4, <1>6, InvalidFacts DEF AllIssued
<1>9. PseudoInv'
  BY <1>1, <1>5 DEF PseudoInv
<1>10. ClientInv'
  BY <1>1 DEF ClientInv, Submitting
<1>11. SingleOwner'
  <2>1. \A d \in Client : Submitting(d)' = Submitting(d)
    BY <1>1 DEF Submitting
  <2>2. /\ \A d \in Client : Submitting(d) => reqid[d] # Invalid
        /\ Invalid \notin IdsOf(request) \cup IdsOf(completion') \cup Delivered
    BY <1>2, <1>4, InvalidFacts, IssuedIsId DEF ClientInv, AllIssued, TypeOK
  <2> QED
    BY <1>1, <1>2, <1>3, <1>4, <1>6, <2>1, <2>2 DEF SingleOwner
<1>12. OneTaker'
  BY <1>1 DEF OneTaker, Waiting
<1> QED
  BY <1>6, <1>7, <1>8, <1>9, <1>10, <1>11, <1>12

(* Steps that change the state, the position of the pseudo thread or the   *)
(* status of queue or command, and nothing else.                           *)
LEMMA ControlStep ==
  ASSUME Inv, \/ StartEventLoop \/ SyscallDone \/ Syscall \/ DoCall \/ FailState
              \/ FailClose \/ DrainEnd \/ (\E c \in Client : CloseExited(c))
  PROVE  Inv'
<1> USE DEF Inv
<1>1. /\ UNCHANGED <<seq_no, rem_reqid, request, completion, pc, kind, reqid, cmd,
                     returned, pushed, started, outcome, delivered>>
      /\ state' \in States
      /\ queue_state' \in {"READY", "CLOSED"}
      /\ freed' \in BOOLEAN
      /\ \/ ppc' = ppc
         \/ ppc' \in {"ve", "syscall", "dead"}
         \/ ppc = "fail" /\ ppc' = "closeq"
         \/ ppc = "closeq" /\ ppc' = "pushfail"
  BY DEF StartEventLoop, SyscallDone, Syscall, DoCall, FailState, FailClose, DrainEnd,
         CloseExited, At, shared, client, pseudo, history, TypeOK, States
<1>2. TypeOK'
  BY <1>1 DEF TypeOK, PseudoPC
<1>3. PseudoInv'
  BY <1>1 DEF PseudoInv
<1> QED
  BY <1>1, <1>2, <1>3, QuietStep

(* A command's handler calls setResult, or the VE thread reaches its first *)
(* block request or fails to.                                              *)
LEMMA ResultStep ==
  ASSUME Inv, Block \/ Exception \/ RunOnVH \/ TransferFails \/ CleanUp
  PROVE  Inv'
<1> USE DEF Inv
<1>1. /\ UNCHANGED <<seq_no, rem_reqid, request, queue_state, completion, pc, kind, reqid,
                     freed, returned, pushed, started, delivered>>
      /\ state' \in States
      /\ \/ cmd' = cmd /\ outcome' = outcome /\ ppc' \in {"loop", "dead"}
         \/ /\ cmd # NoCommand
            /\ ppc' \in {"complete", "fail", "reply"}
            /\ \E status \in Status : SetResult(status)
  BY DEF Block, Exception, RunOnVH, TransferFails, CleanUp, shared, client, TypeOK, States,
         Status, NoCommand
<1>2. /\ cmd' \in Command \cup {NoCommand}
      /\ outcome' \in [Id -> Status \cup {"none"}]
      /\ cmd'.id = cmd.id
      /\ ppc' \in {"complete", "fail", "reply"} => cmd' \in Command /\ cmd'.status \in Status
  <2>1. CASE cmd' = cmd /\ outcome' = outcome /\ ppc' \in {"loop", "dead"}
    BY <2>1 DEF TypeOK
  <2>2. ASSUME cmd # NoCommand, NEW status \in Status, SetResult(status)
        PROVE  /\ cmd' \in Command /\ cmd'.id = cmd.id /\ cmd'.status \in Status
               /\ outcome' \in [Id -> Status \cup {"none"}]
    <3>1. cmd \in Command
      BY <2>2 DEF TypeOK
    <3> QED
      BY <2>2, <3>1 DEF SetResult, Command, TypeOK
  <2> QED
    BY <1>1, <2>1, <2>2
<1>3. TypeOK'
  BY <1>1, <1>2 DEF TypeOK, PseudoPC
<1>4. PseudoInv'
  BY <1>1, <1>2 DEF PseudoInv
<1> QED
  BY <1>1, <1>2, <1>3, <1>4, QuietStep

-----------------------------------------------------------------------------
(* The inductive invariant holds for a context just created. *)
LEMMA InitInv == Init => Inv
<1> SUFFICES ASSUME Init PROVE Inv
  OBVIOUS
<1> USE IdAssumption, InvalidFacts DEF Init
<1>1. TypeOK
  BY EmptySeq DEF TypeOK, States, ClientPC, AllKinds, PseudoPC, Invalid
<1>2. IdsOf(request) = {} /\ IdsOf(completion) = {} /\ Delivered = {}
      /\ DistinctIds(request) /\ DistinctIds(completion)
  BY EmptySeq DEF IdsOf, DistinctIds, Delivered
<1>3. SeqInv /\ PseudoInv
  BY DEF SeqInv, Issues, PseudoInv
<1>4. AllIssued /\ ClientInv
  BY <1>2 DEF AllIssued, ClientInv, Submitting
<1>5. SingleOwner /\ OneTaker
  BY <1>2 DEF SingleOwner, OneTaker, Submitting, Waiting
<1> QED
  BY <1>1, <1>3, <1>4, <1>5 DEF Inv

(* Every action keeps the inductive invariant. *)
LEMMA NextInv == Inv /\ [Next]_vars => Inv'
<1> SUFFICES ASSUME Inv, [Next]_vars PROVE Inv'
  OBVIOUS
<1>1. ASSUME NEW c \in Client, ClientCalls(c) PROVE Inv'
  <2>1. ASSUME NEW k \in Kind, Submit(c, k) PROVE Inv'
    BY <2>1, IssueStep, KindAssumption DEF Submit
  <2>2. CASE Close(c)
    BY <2>2, IssueStep DEF Close, AllKinds
  <2>3. CASE CloseExited(c)
    BY <2>3, ControlStep
  <2>4. ASSUME NEW id \in returned, WaitResult(c, id) PROVE Inv'
    BY <2>4, WaitStep
  <2>5. ASSUME NEW id \in returned, PeekResult(c, id) PROVE Inv'
    BY <2>5, DeliverStep
  <2> QED
    BY <1>1, <2>1, <2>2, <2>3, <2>4, <2>5 DEF ClientCalls
<1>2. ASSUME NEW c \in Client, ClientStep(c) PROVE Inv'
  BY <1>2, StatusStep, PushStep, DeliverStep DEF ClientStep
<1>3. CASE PseudoStep
  BY <1>3, ControlStep, ResultStep, PopStep, CompleteStep DEF PseudoStep
<1>4. CASE Syscall
  BY <1>4, ControlStep
<1>5. CASE VEStops
  BY <1>5, ResultStep DEF VEStops
<1>6. CASE UNCHANGED vars
  <2>1. (SeqInv /\ AllIssued /\ ClientInv /\ SingleOwner /\ OneTaker)'
    BY <1>6, QuietStep DEF vars
  <2>2. TypeOK' /\ PseudoInv'
    BY <1>6 DEF vars, TypeOK, PseudoInv, Inv
  <2> QED
    BY <2>1, <2>2 DEF Inv
<1> QED
  BY <1>1, <1>2, <1>3, <1>4, <1>5, <1>6 DEF Next

(* Every variable of the context keeps its type. *)
THEOREM TypeCorrect == Spec => []TypeOK
<1>1. Inv => TypeOK
  BY DEF Inv
<1> QED
  BY InitInv, NextInv, <1>1, PTL DEF Spec

(* A request is in one place at a time: issueRequestID never repeats an    *)
(* ID, also when seq_no wraps around, and no request is executed, queued   *)
(* as completed or answered twice, for any number of clients and requests, *)
(* with or without failures.                                               *)
THEOREM OwnerCorrect == Spec => []SingleOwner
<1>1. Inv => SingleOwner
  BY DEF Inv
<1> QED
  BY InitInv, NextInv, <1>1, PTL DEF Spec

(* callWaitResult and callPeekResult give a result one taker, and no       *)
(* result that was not delivered is out of reach.                          *)
THEOREM TakerCorrect == Spec => []OneTaker
<1>1. Inv => OneTaker
  BY DEF Inv
<1> QED
  BY InitInv, NextInv, <1>1, PTL DEF Spec

-----------------------------------------------------------------------------
(* The only steps that record an answer are deliveries. *)
LEMMA DeliveredStep ==
  ASSUME Inv, [Next]_vars, NEW id \in Id, delivered[id] # "none"
  PROVE  delivered'[id] = delivered[id]
<1>1. CASE \E j : Deliver(j)
  <2>1. PICK j : Deliver(j)
    BY <1>1
  <2>2. j \in IdsOf(completion) /\ \A h \in Id : h # j => delivered'[h] = delivered[h]
    BY <2>1, DeliverFacts
  <2>3. id # j
    BY <2>2 DEF Inv, SingleOwner, Delivered
  <2> QED
    BY <2>2, <2>3
<1>2. CASE ~ \E j : Deliver(j)
  <2>1. delivered' = delivered
    BY <1>2 DEF Next, ClientCalls, ClientStep, PseudoStep, VEStops, vars, history, PushCompletion,
       Submit, Close, IssueRequestID, CloseExited, WaitResult, PeekResult, StatusReady,
       StatusClosed, PushRequest, CloseReturn, WaitReturn, StartEventLoop, SyscallDone,
       Syscall, PopRequest, DoCall, RunOnVH, TransferFails, CleanUp, ReplyClose, Complete,
       FailState, FailClose, FailComplete, Drain, DrainComplete, DrainEnd, Block, Exception
  <2> QED
    BY <2>1
<1> QED
  BY <1>1, <1>2

(* A result that was delivered is never replaced: no later peek, wait or   *)
(* close answers for the same request again.                               *)
THEOREM DeliveryCorrect == Spec => DeliveredOnce
<1>1. Inv /\ [Next]_vars
        => [\A id \in Id : delivered[id] # "none" => delivered'[id] = delivered[id]]_vars
  BY DeliveredStep
<1> QED
  BY InitInv, NextInv, <1>1, PTL DEF Spec, DeliveredOnce

-----------------------------------------------------------------------------
(* The state that clients read agrees with the position of the pseudo      *)
(* thread: eventLoop's loop condition and the handler's TERMINATED result  *)
(* never end a healthy event loop, and EXIT is only seen when no further   *)
(* command will start.                                                     *)
THEOREM StateCorrect == Spec => []StateAgrees
<1>1. Init => StateAgrees
  BY DEF Init, StateAgrees
<1>2. StateAgrees /\ [Next]_vars => StateAgrees'
  <2> SUFFICES ASSUME StateAgrees, [Next]_vars PROVE StateAgrees'
    OBVIOUS
  <2> USE DEF StateAgrees, At
  <2>1. ASSUME NEW c \in Client, ClientCalls(c) \/ ClientStep(c) PROVE StateAgrees'
    BY <2>1 DEF ClientCalls, ClientStep, Submit, Close, IssueRequestID, CloseExited,
       WaitResult, PeekResult, StatusReady, StatusClosed, PushRequest, CloseReturn,
       WaitReturn, pseudo, shared
  <2>2. CASE StartEventLoop \/ SyscallDone \/ Syscall \/ DoCall
    BY <2>2 DEF StartEventLoop, SyscallDone, Syscall, DoCall
  <2>3. CASE PopRequest \/ RunOnVH \/ TransferFails \/ CleanUp
    BY <2>3 DEF PopRequest, RunOnVH, TransferFails, CleanUp, shared
  <2>4. CASE ReplyClose \/ Complete \/ FailComplete \/ DrainComplete
    BY <2>4 DEF ReplyClose, Complete, FailComplete, DrainComplete, PushCompletion
  <2>5. CASE FailState \/ FailClose \/ Drain \/ DrainEnd
    BY <2>5 DEF FailState, FailClose, Drain, DrainEnd, shared
  <2>6. CASE VEStops
    BY <2>6 DEF VEStops, Block, Exception
  <2>7. CASE UNCHANGED vars
    BY <2>7 DEF vars
  <2> QED
    BY <2>1, <2>2, <2>3, <2>4, <2>5, <2>6, <2>7 DEF Next, PseudoStep
<1> QED
  BY <1>1, <1>2, PTL DEF Spec
=============================================================================
