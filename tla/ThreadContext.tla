---------------------------- MODULE ThreadContext ----------------------------
(***************************************************************************)
(* One VEO thread context (ThreadContext.hpp, ThreadContext.cpp,           *)
(* AsyncTransfer.cpp and the CommQueue of Command.cpp): client threads     *)
(* submit requests and collect their results, a pseudo thread executes the *)
(* requests on behalf of the VE thread.  They meet in the request queue,   *)
(* the completion queue, the state of the context and rem_reqid, the set   *)
(* of request IDs whose result nobody has asked for yet.                   *)
(*                                                                         *)
(* The two queues are used through the operations of AtomicQueue, which    *)
(* module BlockingQueue implements.                                        *)
(*                                                                         *)
(* A client's submission is one step up to and including issueRequestID:   *)
(* only the load of the state can be seen by the pseudo thread and only    *)
(* the fetch_add by other clients, and nobody can ask for an ID that has   *)
(* not been returned, so these steps commute with everyone else's.  The    *)
(* load of queue_state and the push that follows are separate steps.       *)
(*                                                                         *)
(* veo_context_close deletes the context when close returns.  The model    *)
(* stops there: a pseudo thread that goes on would use freed memory.       *)
(***************************************************************************)
EXTENDS Naturals, Sequences, SequencesExt, CommandQueues

CONSTANTS
  Client,       \* threads that use the context
  Kind,         \* the requests they make, a subset of AllKinds
  Fault,        \* the failures that may happen, a subset of AllFaults
  IdSpace,      \* number of values of a request ID (2^64)
  StartSeq,     \* seq_no at the start: the IDs before it were used up and done
  MaxRequests   \* bound: the number of IDs issued in a behaviour

(* VE function call, VH function call, asynchronous VE memory transfer,    *)
(* close of the context.                                                   *)
AllKinds == {"call", "vh", "mem", "close"}

(* "exception": the VE thread raises an exception during a call;           *)
(* "first": it raises one before its first block request;                  *)
(* "mem": ve_send_data or ve_recv_data fails.                              *)
AllFaults == {"exception", "first", "mem"}

ASSUME KindAssumption == Kind \subseteq AllKinds
ASSUME FaultAssumption == Fault \subseteq AllFaults
ASSUME IdAssumption ==
  /\ IdSpace \in Nat
  /\ StartSeq \in 0..(IdSpace - 1)
  /\ MaxRequests \in Nat
  /\ MaxRequests < IdSpace - 1

VARIABLES
  state,        \* ThreadContext::state
  seq_no,       \* ThreadContext::seq_no
  rem_reqid,    \* ThreadContext::rem_reqid
  request,      \* comq.request
  queue_state,  \* comq.request.queue_state
  completion,   \* comq.completion
  pc,           \* where each client is in its call
  kind,         \* the request each client is making
  reqid,        \* the local variable id, or the argument reqid, of each client
  ppc,          \* where the pseudo thread is
  cmd,          \* the command it works on
  freed,        \* the context has been deleted
  returned,     \* history: the valid IDs that callers have been given
  pushed,       \* history: IDs in the order of their push to comq.request
  started,      \* history: IDs in the order in which eventLoop took them
  outcome,      \* history: how the execution of each request ended
  delivered     \* history: the status each request's caller was told

shared == <<state, rem_reqid, request, queue_state, completion>>
client == <<pc, kind, reqid>>
pseudo == <<ppc, cmd>>
history == <<returned, pushed, started, outcome, delivered>>
vars == <<state, seq_no, rem_reqid, request, queue_state, completion, pc, kind,
          reqid, ppc, cmd, freed, returned, pushed, started, outcome, delivered>>

Invalid == IdSpace - 1                      \* VEO_REQUEST_ID_INVALID
Id == 0..(IdSpace - 2)
States == {"UNKNOWN", "RUNNING", "SYSCALL", "BLOCKED", "EXIT"}
Status == {"OK", "EXCEPTION", "ERROR", "UNFINISHED"}

(* A command; its status is "none" until setResult. *)
Command == [id : Id, kind : AllKinds, status : Status \cup {"none"}]

(* The pseudo thread has no command; in "ve" and "syscall": the VE thread  *)
(* runs to its first block request.                                        *)
NoCommand == [id |-> Invalid, kind |-> "call", status |-> "none"]

Request == INSTANCE AtomicQueue WITH queue <- request, MsgId <- Id
Completion == INSTANCE AtomicQueue WITH queue <- completion, MsgId <- Id

ClientPC == {"idle", "status", "push", "wait", "close"}
PseudoPC == {"created", "ve", "syscall", "loop", "exec", "reply", "complete",
             "fail", "closeq", "pushfail", "drain", "drainpush", "dead"}

(* The number of IDs issued since the start. *)
Issues ==
  IF seq_no >= StartSeq THEN seq_no - StartSeq
                        ELSE seq_no + Invalid - StartSeq

(* Faulty variants of the next definitions: VEO_REQUEST_ID_INVALID is      *)
(* handed out; fetch_add is lost.                                          *)
NewIDNoSkip == seq_no
NextSeqLost == seq_no

(* issueRequestID: the value fetch_add yields, or the next one, 0, when    *)
(* that is VEO_REQUEST_ID_INVALID, the largest one.                        *)
NewID == IF seq_no = Invalid THEN 0 ELSE seq_no
NextSeq == NewID + 1

Closing == \E c \in Client : pc[c] # "idle" /\ kind[c] = "close"

(* Clients may use the context: veo_context_open has returned it, and      *)
(* nobody has begun to close it.                                           *)
Usable == ppc # "created" /\ ~Closing /\ ~freed

(* The pseudo thread is at a point of its code, and the context exists. *)
At(label) == ppc = label /\ ~freed

(* peekCompletion or waitCompletion finds the command; its status becomes  *)
(* the caller's answer.                                                    *)
Deliver(id) ==
  \E i \in 1..Len(completion) :
    /\ Completion!TakeAt(id, i)
    /\ delivered' = [delivered EXCEPT ![id] = completion[i].status]

Goto(c, label) == pc' = [pc EXCEPT ![c] = label]

-----------------------------------------------------------------------------
(* Faulty variants of the definitions below, each with a mistake the code  *)
(* could contain.  No specification uses them; they serve to check that    *)
(* the properties notice such a mistake.                                   *)

(* A close request overtakes the queued ones. *)
PushRequestUrgent(c) ==
  /\ pc[c] = "push"
  /\ request' = IF kind[c] = "close"
                 THEN Cons([id |-> reqid[c], kind |-> kind[c], status |-> "none"], request)
                 ELSE Append(request, [id |-> reqid[c], kind |-> kind[c], status |-> "none"])
  /\ pushed' = Append(pushed, reqid[c])
  /\ Goto(c, IF kind[c] = "close" THEN "close" ELSE "idle")
  /\ returned' = IF kind[c] = "close" THEN returned ELSE returned \cup {reqid[c]}
  /\ UNCHANGED <<state, seq_no, rem_reqid, queue_state, completion, kind, reqid,
                 pseudo, freed, started, outcome, delivered>>

(* close does not wait for the pseudo thread's reply. *)
CloseReturnNow(c) ==
  /\ pc[c] = "close"
  /\ Goto(c, "idle")
  /\ freed' = TRUE
  /\ UNCHANGED <<shared, seq_no, kind, reqid, pseudo, history>>

(* callWaitResult leaves the ID in rem_reqid. *)
WaitResultNoErase(c, id) ==
  /\ pc[c] = "idle"
  /\ Usable
  /\ id \in rem_reqid
  /\ reqid' = [reqid EXCEPT ![c] = id]
  /\ kind' = [kind EXCEPT ![c] = "call"]
  /\ Goto(c, "wait")
  /\ UNCHANGED <<shared, seq_no, pseudo, freed, history>>

(* callPeekResult does not look the ID up in rem_reqid. *)
PeekResultNoLookup(c, id) ==
  /\ pc[c] = "idle"
  /\ Usable
  /\ Deliver(id)
  /\ rem_reqid' = rem_reqid \ {id}
  /\ UNCHANGED <<state, seq_no, request, queue_state, client, pseudo, freed,
                 returned, pushed, started, outcome>>

(* The state stays SYSCALL after a system call. *)
SyscallDoneNoReset ==
  /\ At("syscall")
  /\ ppc' = "ve"
  /\ UNCHANGED <<shared, seq_no, client, cmd, freed, history>>

(* eventLoop takes the newest request. *)
PopRequestNewest ==
  /\ At("loop")
  /\ state = "BLOCKED"
  /\ request # << >>
  /\ request' = Front(request)
  /\ cmd' = Last(request)
  /\ started' = Append(started, Last(request).id)
  /\ ppc' = "exec"
  /\ UNCHANGED <<state, seq_no, rem_reqid, queue_state, completion, client,
                 freed, returned, pushed, outcome, delivered>>

(* The return value of ve_send_data or ve_recv_data does not stop eventLoop. *)
TransferFailsIgnored ==
  /\ At("exec")
  /\ cmd.kind = "mem"
  /\ "mem" \in Fault
  /\ cmd' = [cmd EXCEPT !.status = "ERROR"]
  /\ outcome' = [outcome EXCEPT ![cmd.id] = "ERROR"]
  /\ ppc' = "complete"
  /\ UNCHANGED <<shared, seq_no, client, freed, returned, pushed, started, delivered>>

(* _closeCommandHandler calls pthread_exit without a reply. *)
CleanUpNoReply ==
  /\ At("exec")
  /\ cmd.kind = "close"
  /\ state' = "EXIT"
  /\ cmd' = NoCommand
  /\ ppc' = "dead"
  /\ UNCHANGED <<seq_no, rem_reqid, request, queue_state, completion, client,
                 freed, history>>

(* eventLoop drops the command instead of returning it. *)
CompleteDropped ==
  /\ At("complete")
  /\ cmd' = NoCommand
  /\ ppc' = "loop"
  /\ UNCHANGED <<shared, seq_no, client, freed, history>>

(* eventLoop returns without setCompletion. *)
FailCompleteNoDrain ==
  /\ At("pushfail")
  /\ Completion!Push(cmd)
  /\ cmd' = NoCommand
  /\ ppc' = "dead"
  /\ UNCHANGED <<state, seq_no, rem_reqid, request, queue_state, client, freed, history>>

(* setCompletion reads the front of the queue without removing it. *)
DrainNoPop ==
  /\ At("drain")
  /\ request # << >>
  /\ cmd' = [Head(request) EXCEPT !.status = "UNFINISHED"]
  /\ ppc' = "drainpush"
  /\ UNCHANGED <<shared, seq_no, client, freed, history>>

(* setCompletion reports the requests it did not execute as done. *)
DrainReportsOK ==
  /\ At("drain")
  /\ Request!Pop
  /\ cmd' = [Head(request) EXCEPT !.status = "OK"]
  /\ ppc' = "drainpush"
  /\ UNCHANGED <<state, seq_no, rem_reqid, queue_state, completion, client, freed, history>>

-----------------------------------------------------------------------------
(* ThreadContext::ThreadContext, in handleCloneRequest's parent.  A freshly *)
(* created context has handed no ID out, so nothing is remembered.          *)
Init ==
  /\ state = "UNKNOWN"
  /\ seq_no = StartSeq
  /\ rem_reqid = {}
  /\ request = << >>
  /\ queue_state = "READY"
  /\ completion = << >>
  /\ pc = [c \in Client |-> "idle"]
  /\ kind = [c \in Client |-> "call"]
  /\ reqid = [c \in Client |-> Invalid]
  /\ ppc = "created"
  /\ cmd = NoCommand
  /\ freed = FALSE
  /\ returned = {}
  /\ pushed = << >>
  /\ started = << >>
  /\ outcome = [id \in Id |-> "none"]
  /\ delivered = [id \in Id |-> "none"]

-----------------------------------------------------------------------------
(* issueRequestID, with what precedes it in callAsync, callVHAsync,        *)
(* asyncReadMem, asyncWriteMem and close.                                  *)
IssueRequestID(c, k) ==
  /\ state # "EXIT"
  /\ Issues < MaxRequests
  /\ seq_no' = NextSeq
  /\ rem_reqid' = rem_reqid \cup {NewID}
  /\ reqid' = [reqid EXCEPT ![c] = NewID]
  /\ kind' = [kind EXCEPT ![c] = k]
  /\ Goto(c, "status")
  /\ UNCHANGED <<state, request, queue_state, completion, pseudo, freed, history>>

(* callAsync, callVHAsync, asyncReadMem, asyncWriteMem.  On a context in   *)
(* state EXIT they return VEO_REQUEST_ID_INVALID and change nothing.       *)
Submit(c, k) ==
  /\ pc[c] = "idle"
  /\ Usable
  /\ k # "close"
  /\ IssueRequestID(c, k)

(* veo_context_close, called when no other thread is inside a call on the  *)
(* context.                                                                *)
Close(c) ==
  /\ "close" \in Kind
  /\ Usable
  /\ \A d \in Client : pc[d] = "idle"
  /\ IssueRequestID(c, "close")

(* close on a context in state EXIT returns zero at once: delete.          *)
CloseExited(c) ==
  /\ "close" \in Kind
  /\ Usable
  /\ \A d \in Client : pc[d] = "idle"
  /\ state = "EXIT"
  /\ freed' = TRUE
  /\ UNCHANGED <<shared, seq_no, client, pseudo, history>>

(* pushRequest: the load of queue_state finds READY. *)
StatusReady(c) ==
  /\ pc[c] = "status"
  /\ queue_state = "READY"
  /\ Goto(c, "push")
  /\ UNCHANGED <<shared, seq_no, kind, reqid, pseudo, freed, history>>

(* pushRequest returns one.  callAsync, asyncReadMem and asyncWriteMem     *)
(* return VEO_REQUEST_ID_INVALID, callVHAsync does not look at the result  *)
(* and returns id, close waits for VEO_REQUEST_ID_INVALID.                 *)
StatusClosed(c) ==
  /\ pc[c] = "status"
  /\ queue_state = "CLOSED"
  /\ \/ /\ kind[c] \in {"call", "mem"}
        /\ Goto(c, "idle")
        /\ UNCHANGED <<reqid, returned>>
     \/ /\ kind[c] = "vh"
        /\ returned' = returned \cup {reqid[c]}
        /\ Goto(c, "idle")
        /\ UNCHANGED reqid
     \/ /\ kind[c] = "close"
        /\ reqid' = [reqid EXCEPT ![c] = Invalid]
        /\ Goto(c, "close")
        /\ UNCHANGED returned
  /\ UNCHANGED <<shared, seq_no, kind, pseudo, freed, pushed, started, outcome, delivered>>

(* pushRequest: request.push; the request's ID is returned, close goes on  *)
(* to waitCompletion.                                                      *)
PushRequest(c) ==
  /\ pc[c] = "push"
  /\ Request!Push([id |-> reqid[c], kind |-> kind[c], status |-> "none"])
  /\ pushed' = Append(pushed, reqid[c])
  /\ \/ /\ kind[c] = "close"
        /\ Goto(c, "close")
        /\ UNCHANGED returned
     \/ /\ kind[c] # "close"
        /\ Goto(c, "idle")
        /\ returned' = returned \cup {reqid[c]}
  /\ UNCHANGED <<state, seq_no, rem_reqid, queue_state, completion, kind, reqid,
                 pseudo, freed, started, outcome, delivered>>

(* close: waitCompletion(id) returns; veo_context_close deletes the        *)
(* context.                                                                *)
CloseReturn(c) ==
  /\ pc[c] = "close"
  /\ Deliver(reqid[c])
  /\ Goto(c, "idle")
  /\ freed' = TRUE
  /\ UNCHANGED <<state, seq_no, rem_reqid, request, queue_state, kind, reqid,
                 pseudo, returned, pushed, started, outcome>>

(* callWaitResult, up to the unlock of req_mtx.  For an ID that is not in  *)
(* rem_reqid it returns VEO_COMMAND_ERROR and changes nothing.             *)
WaitResult(c, id) ==
  /\ pc[c] = "idle"
  /\ Usable
  /\ id \in rem_reqid
  /\ rem_reqid' = rem_reqid \ {id}
  /\ reqid' = [reqid EXCEPT ![c] = id]
  /\ kind' = [kind EXCEPT ![c] = "call"]
  /\ Goto(c, "wait")
  /\ UNCHANGED <<state, seq_no, request, queue_state, completion, pseudo, freed, history>>

(* callWaitResult: waitCompletion returns the command. *)
WaitReturn(c) ==
  /\ pc[c] = "wait"
  /\ Deliver(reqid[c])
  /\ Goto(c, "idle")
  /\ UNCHANGED <<state, seq_no, rem_reqid, request, queue_state, kind, reqid,
                 pseudo, freed, returned, pushed, started, outcome>>

(* callPeekResult, which holds req_mtx throughout, finds the result.       *)
(* Without one, or for an ID that is not in rem_reqid, it changes nothing. *)
PeekResult(c, id) ==
  /\ pc[c] = "idle"
  /\ Usable
  /\ id \in rem_reqid
  /\ Deliver(id)
  /\ rem_reqid' = rem_reqid \ {id}
  /\ UNCHANGED <<state, seq_no, request, queue_state, client, pseudo, freed,
                 returned, pushed, started, outcome>>

-----------------------------------------------------------------------------
(* startEventLoop, up to sem_post. *)
StartEventLoop ==
  /\ At("created")
  /\ state' = "RUNNING"
  /\ ppc' = "ve"
  /\ UNCHANGED <<seq_no, rem_reqid, request, queue_state, completion, client,
                 cmd, freed, history>>

(* handleSingleException: a system call that the filter does not catch.    *)
(* One that it answers with ENOSYS, and a return of vedl_wait_exception    *)
(* with nothing to handle, change nothing.                                 *)
Syscall ==
  /\ At("ve")
  /\ state = "RUNNING"
  /\ state' = "SYSCALL"
  /\ ppc' = "syscall"
  /\ UNCHANGED <<seq_no, rem_reqid, request, queue_state, completion, client,
                 cmd, freed, history>>

SyscallDone ==
  /\ At("syscall")
  /\ state' = "RUNNING"
  /\ ppc' = "ve"
  /\ UNCHANGED <<seq_no, rem_reqid, request, queue_state, completion, client,
                 cmd, freed, history>>

(* The command's handler has called setResult. *)
SetResult(status) ==
  /\ cmd' = [cmd EXCEPT !.status = status]
  /\ outcome' = [outcome EXCEPT ![cmd.id] = status]

(* defaultFilter catches the block request: the VE thread is ready for its *)
(* first command, or the VE function has returned (callAsync).             *)
Block ==
  /\ At("ve")
  /\ state = "RUNNING"
  /\ state' = "BLOCKED"
  /\ \/ /\ cmd = NoCommand
        /\ ppc' = "loop"
        /\ UNCHANGED <<cmd, outcome>>
     \/ /\ cmd # NoCommand
        /\ SetResult("OK")
        /\ ppc' = "complete"
  /\ UNCHANGED <<seq_no, rem_reqid, request, queue_state, completion, client,
                 freed, returned, pushed, started, delivered>>

(* handleSingleException returns VEO_HANDLER_STATUS_EXCEPTION, on its own, *)
(* with a block request or after a system call.  Before the first block    *)
(* startEventLoop then returns, otherwise the command's handler returns 1. *)
Exception ==
  /\ \/ /\ cmd = NoCommand
        /\ "first" \in Fault
        /\ At("ve") \/ At("syscall")
        /\ state' = "EXIT"
        /\ ppc' = "dead"
        /\ UNCHANGED <<cmd, outcome>>
     \/ /\ cmd # NoCommand
        /\ "exception" \in Fault
        /\ \/ At("ve") /\ state' \in {"RUNNING", "BLOCKED"}
           \/ At("syscall") /\ state' = "RUNNING"
        /\ SetResult("EXCEPTION")
        /\ ppc' = "fail"
  /\ UNCHANGED <<seq_no, rem_reqid, request, queue_state, completion, client,
                 freed, returned, pushed, started, delivered>>

(* eventLoop: popRequest, while the state is BLOCKED. *)
PopRequest ==
  /\ At("loop")
  /\ state = "BLOCKED"
  /\ Request!Pop
  /\ cmd' = Head(request)
  /\ started' = Append(started, Head(request).id)
  /\ ppc' = "exec"
  /\ UNCHANGED <<state, seq_no, rem_reqid, queue_state, completion, client,
                 freed, returned, pushed, outcome, delivered>>

(* callAsync's handler: _doCall, which ends with _unBlock. *)
DoCall ==
  /\ At("exec")
  /\ cmd.kind = "call"
  /\ state' = "RUNNING"
  /\ ppc' = "ve"
  /\ UNCHANGED <<seq_no, rem_reqid, request, queue_state, completion, client,
                 cmd, freed, history>>

(* The handlers of callVHAsync, asyncReadMem and asyncWriteMem succeed. *)
RunOnVH ==
  /\ At("exec")
  /\ cmd.kind \in {"vh", "mem"}
  /\ SetResult("OK")
  /\ ppc' = "complete"
  /\ UNCHANGED <<shared, seq_no, client, freed, returned, pushed, started, delivered>>

(* The handler of asyncReadMem or asyncWriteMem returns non-zero. *)
TransferFails ==
  /\ At("exec")
  /\ cmd.kind = "mem"
  /\ "mem" \in Fault
  /\ SetResult("ERROR")
  /\ ppc' = "fail"
  /\ UNCHANGED <<shared, seq_no, client, freed, returned, pushed, started, delivered>>

(* _closeCommandHandler, up to the assignment of the state. *)
CleanUp ==
  /\ At("exec")
  /\ cmd.kind = "close"
  /\ state' = "EXIT"
  /\ SetResult("OK")
  /\ ppc' = "reply"
  /\ UNCHANGED <<seq_no, rem_reqid, request, queue_state, completion, client,
                 freed, returned, pushed, started, delivered>>

(* The command goes to the completion queue (pushCompletion). *)
PushCompletion ==
  /\ Completion!Push(cmd)
  /\ cmd' = NoCommand
  /\ UNCHANGED <<state, seq_no, rem_reqid, request, queue_state, client, freed, history>>

(* _closeCommandHandler: the reply and pthread_exit. *)
ReplyClose ==
  /\ At("reply")
  /\ PushCompletion
  /\ ppc' = "dead"

(* eventLoop: the handler has returned zero. *)
Complete ==
  /\ At("complete")
  /\ PushCompletion
  /\ ppc' = "loop"

(* eventLoop: the handler has returned non-zero. *)
FailState ==
  /\ At("fail")
  /\ state' = "EXIT"
  /\ ppc' = "closeq"
  /\ UNCHANGED <<seq_no, rem_reqid, request, queue_state, completion, client,
                 cmd, freed, history>>

FailClose ==
  /\ At("closeq")
  /\ queue_state' = "CLOSED"
  /\ ppc' = "pushfail"
  /\ UNCHANGED <<state, seq_no, rem_reqid, request, completion, client, cmd, freed, history>>

FailComplete ==
  /\ At("pushfail")
  /\ PushCompletion
  /\ ppc' = "drain"

(* setCompletion: popNoWait finds a command. *)
Drain ==
  /\ At("drain")
  /\ Request!Pop
  /\ cmd' = [Head(request) EXCEPT !.status = "UNFINISHED"]
  /\ ppc' = "drainpush"
  /\ UNCHANGED <<state, seq_no, rem_reqid, queue_state, completion, client, freed, history>>

DrainComplete ==
  /\ At("drainpush")
  /\ PushCompletion
  /\ ppc' = "drain"

(* setCompletion: popNoWait returns nullptr; eventLoop returns. *)
DrainEnd ==
  /\ At("drain")
  /\ request = << >>
  /\ ppc' = "dead"
  /\ UNCHANGED <<shared, seq_no, client, cmd, freed, history>>

-----------------------------------------------------------------------------
(* A client begins a call. *)
ClientCalls(c) ==
  \/ \E k \in Kind : Submit(c, k)
  \/ Close(c)
  \/ CloseExited(c)
  \/ \E id \in returned : WaitResult(c, id) \/ PeekResult(c, id)

(* A client inside a call goes on. *)
ClientStep(c) ==
  \/ StatusReady(c) \/ StatusClosed(c) \/ PushRequest(c)
  \/ CloseReturn(c) \/ WaitReturn(c)

(* The pseudo thread runs on, the VE thread being at work or not. *)
PseudoStep ==
  \/ StartEventLoop \/ SyscallDone
  \/ PopRequest \/ DoCall \/ RunOnVH \/ TransferFails
  \/ CleanUp \/ ReplyClose \/ Complete
  \/ FailState \/ FailClose \/ FailComplete
  \/ Drain \/ DrainComplete \/ DrainEnd

VEStops == Block \/ Exception

Next ==
  \/ \E c \in Client : ClientCalls(c) \/ ClientStep(c)
  \/ PseudoStep
  \/ Syscall
  \/ VEStops

Spec == Init /\ [][Next]_vars

(* A client inside a call and the pseudo thread run on; a VE function      *)
(* returns or raises an exception in the end, however many system calls it *)
(* makes.  No client has to make a call or to ask for a result.            *)
Fairness ==
  /\ \A c \in Client : WF_vars(ClientStep(c))
  /\ WF_vars(PseudoStep)
  /\ SF_vars(VEStops)

FairSpec == Spec /\ Fairness
-----------------------------------------------------------------------------
(* Every variable has its type. *)
TypeOK ==
  /\ state \in States
  /\ seq_no \in 0..Invalid
  /\ rem_reqid \subseteq Id
  /\ request \in Seq(Command)
  /\ queue_state \in {"READY", "CLOSED"}
  /\ completion \in Seq(Command)
  /\ pc \in [Client -> ClientPC]
  /\ kind \in [Client -> AllKinds]
  /\ reqid \in [Client -> Id \cup {Invalid}]
  /\ ppc \in PseudoPC
  /\ cmd \in Command \cup {NoCommand}
  /\ freed \in BOOLEAN
  /\ returned \subseteq Id
  /\ pushed \in Seq(Id)
  /\ started \in Seq(Id)
  /\ outcome \in [Id -> Status \cup {"none"}]
  /\ delivered \in [Id -> Status \cup {"none"}]

(* The client has issued an ID and not yet pushed its request. *)
Submitting(c) == pc[c] \in {"status", "push"}

(* Client c is inside callWaitResult(id). *)
Waiting(c, id) == pc[c] = "wait" /\ reqid[c] = id

(* The requests whose result has been handed out. *)
Delivered == {id \in Id : delivered[id] # "none"}

(* A request, named by its ID, is in one place at a time: with the client  *)
(* that submits it, in the request queue, with the pseudo thread, in the   *)
(* completion queue, or delivered.  So issueRequestID never reuses an ID,  *)
(* and no result is produced, queued or handed out twice, whatever the     *)
(* interleaving of the clients, eventLoop, setCompletion and the close     *)
(* handler's own reply.                                                    *)
SingleOwner ==
  /\ DistinctIds(request)
  /\ DistinctIds(completion)
  /\ \A c, d \in Client :
       c # d /\ Submitting(c) /\ Submitting(d) => reqid[c] # reqid[d]
  /\ \A c \in Client :
       Submitting(c) =>
         reqid[c] \notin IdsOf(request) \cup {cmd.id} \cup IdsOf(completion) \cup Delivered
  /\ cmd.id \notin IdsOf(request) \cup IdsOf(completion) \cup Delivered
  /\ IdsOf(request) \cap (IdsOf(completion) \cup Delivered) = {}
  /\ IdsOf(completion) \cap Delivered = {}

(* callWaitResult and callPeekResult share rem_reqid but the wait for the  *)
(* completion happens outside req_mtx.  Still a result has one taker: an   *)
(* ID is either in rem_reqid, claimed by one callWaitResult, or delivered; *)
(* nobody waits for a result that someone else takes or has taken, and no  *)
(* result becomes uncollectable.                                           *)
OneTaker ==
  /\ \A c \in Client, id \in Id :
       Waiting(c, id) => /\ id \notin rem_reqid
                         /\ delivered[id] = "none"
                         /\ \A d \in Client \ {c} : ~Waiting(d, id)
  /\ \A id \in returned :
       delivered[id] = "none" <=>
         id \in rem_reqid \/ \E c \in Client : Waiting(c, id)

(* Requests start in the order in which they were pushed, none is skipped. *)
(* A write of VE memory followed by a call without a wait between them, as *)
(* in examples/test_async_mem.c, relies on it.                             *)
ExecutionOrder == IsPrefix(started, pushed)

(* The status a caller is told is what happened to its request: a request  *)
(* reported UNFINISHED was never started, any other status is the one its  *)
(* execution ended with.                                                   *)
StatusTruthful ==
  \A id \in Id :
    /\ delivered[id] = "UNFINISHED" => \A i \in 1..Len(started) : started[i] # id
    /\ delivered[id] \notin {"none", "UNFINISHED"} => delivered[id] = outcome[id]

(* Nothing is executed on the VE after a command has failed. *)
FailStop ==
  \A i \in 1..(Len(started) - 1) : outcome[started[i]] = "OK"

(* The state a client can read agrees with what the pseudo thread does:    *)
(* it takes commands only from a blocked VE thread, the exception handler  *)
(* runs only while RUNNING (its return value TERMINATED and the exit of    *)
(* eventLoop's while condition never happen), and EXIT is seen only once   *)
(* no further command will start.                                          *)
StateAgrees ==
  /\ ppc \in {"loop", "exec", "complete"} => state = "BLOCKED"
  /\ ppc = "ve" => state = "RUNNING"
  /\ state = "EXIT" =>
       ppc \in {"reply", "closeq", "pushfail", "drain", "drainpush", "dead"}

(* A result that has been delivered is never replaced by another one. *)
DeliveredOnce ==
  [][\A id \in Id : delivered[id] # "none" => delivered'[id] = delivered[id]]_vars

(* The pseudo thread does not touch a deleted context. *)
CloseTerminatesPseudoThread == freed => ppc = "dead"

(* close loses no request: when the context is deleted, every request that *)
(* was pushed before has been executed.                                    *)
CloseCompletesAll ==
  freed => \A i \in 1..Len(pushed) : outcome[pushed[i]] # "none"

(* The context as its clients see it.  A command is under execution while  *)
(* the pseudo thread has it and no result is set; a result set is one with *)
(* the pseudo thread, in the completion queue, or delivered.               *)
ServiceQueue == [i \in 1..Len(request) |-> request[i].id]
ServiceRunning == IF cmd.status = "none" THEN cmd.id ELSE Invalid
ServiceStopped ==
  ppc \in {"reply", "fail", "closeq", "pushfail", "drain", "drainpush", "dead"}
ServiceResults ==
  {<<completion[i].id, completion[i].status>> : i \in 1..Len(completion)}
    \cup {<<id, delivered[id]>> : id \in Delivered}
    \cup IF cmd.status = "none" THEN {} ELSE {<<cmd.id, cmd.status>>}

Service == INSTANCE ContextService WITH
  None <- Invalid,
  queue <- ServiceQueue,
  running <- ServiceRunning,
  stopped <- ServiceStopped,
  results <- ServiceResults,
  taken <- Delivered

(* The clients, the two queues, rem_reqid and the pseudo thread together   *)
(* do what ContextService says: every step of theirs is one of its steps,  *)
(* or none.                                                                *)
ImplementsService == Service!Spec

(* A request that is in the queue before the queue is closed gets a        *)
(* result, also when a request before it fails: eventLoop executes it or   *)
(* setCompletion returns it.                                               *)
QueuedRequestCompletes ==
  \A id \in Id :
    (id \in IdsOf(request) /\ queue_state = "READY")
      ~> (id \in IdsOf(completion) \cup Delivered)

(* Every request whose ID was returned to a caller gets a result, so that  *)
(* callWaitResult returns.                                                 *)
ReturnedRequestCompletes ==
  \A id \in Id :
    id \in returned ~> (id \in IdsOf(completion) \cup Delivered \/ freed)

(* callWaitResult returns. *)
WaitReturns == \A c \in Client : pc[c] = "wait" ~> pc[c] = "idle"

(* close returns. *)
CloseReturns == Closing ~> freed
=============================================================================
