----------------------------- MODULE ProcHandle -----------------------------
(***************************************************************************)
(* The operations of a VEO process handle (ProcHandle.cpp), called by      *)
(* several VH threads.  Each of them is carried out by the worker, a VEO   *)
(* context that belongs to the process: the caller submits a request to it *)
(* and waits.  Some hold main_mutex meanwhile, some do not.                *)
(*                                                                         *)
(* A thread has at most one request with the worker, so a request is named *)
(* by its thread.  Of the worker, which ThreadContext models in full, this *)
(* module keeps what its callers can notice: the order of its queue, the   *)
(* separate loads and stores of its state and queue_state, the draining of *)
(* its queue after a failure, and the end of its event loop.               *)
(*                                                                         *)
(* veo_proc_destroy is called when no other operation is under way, and    *)
(* none but itself after it.                                               *)
(***************************************************************************)
EXTENDS Integers, Sequences, SequencesExt, FiniteSets

CONSTANTS
  Thread,         \* VH threads that use the process
  Name,           \* the operations they call, a subset of AllNames
  Symbol,         \* pairs of a library handle and a symbol name
  Address,        \* VEMVA of each symbol, 0 for one that does not exist
  VeorunVersion,  \* funcs.version
  Fault,          \* "exception": a VE function may raise an exception;
                  \* "mem": a transfer may fail
  MaxContexts,    \* bound: the number of contexts opened
  NoThread        \* no thread

AllNames == {"loadLibrary", "getSym", "allocBuff", "freeBuff", "readMem", "writeMem",
             "openContext", "exitProc"}

ASSUME NameAssumption == Name \subseteq AllNames
ASSUME AddressAssumption == Address \in [Symbol -> Nat]
ASSUME VersionAssumption == VeorunVersion \in 2..4
ASSUME FaultAssumption == Fault \subseteq {"exception", "mem"}
ASSUME BoundAssumption == MaxContexts \in Nat
ASSUME NoThreadAssumption == NoThread \notin Thread

VARIABLES
  main_mutex,     \* owner of ProcHandle::main_mutex
  sym_mtx,        \* owner of ProcHandle::sym_mtx
  sym_name,       \* ProcHandle::sym_name, 0 where it has no entry
  main_exited,    \* main_thread->state is EXIT
  state,          \* worker->state
  queue_state,    \* of the worker's request queue
  request,        \* the worker's request queue
  wpc,            \* where the worker's pseudo thread is
  failed,         \* the thread whose request has failed
  answer,         \* completion of each thread's request
  pc,             \* where each thread is
  op,             \* the operation each thread is in, or was in last
  req,            \* the request it makes of the worker
  result,         \* what the operation returned
  contexts,       \* number of contexts created on the VE, named 1, 2, ...
  ctx,            \* the context of each name, see CloneHandshake
  aborted,        \* the program has been ended by an assertion or std::terminate
  held            \* history: the contexts that openContext has returned

sym == <<sym_mtx, sym_name>>
worker == <<state, queue_state, request, wpc, failed>>
vars == <<main_mutex, sym_mtx, sym_name, main_exited, state, queue_state, request,
          wpc, failed, answer, pc, op, req, result, contexts, ctx, aborted, held>>

Handshake == INSTANCE CloneHandshake WITH Owner <- 1..MaxContexts

Request == {"load_library", "find_sym", "alloc_buff", "free_buff", "load_library_err",
            "read_mem", "write_mem", "create_thread", "exit"}
PC == {"idle", "find", "hit", "found", "miss", "mutex", "submit", "status", "push", "wait",
       "store", "stored", "stuck"}

None == 0
Thrown == -2                \* the operation ended with a VEOException
Failed == -1                \* a negative number
NoAnswer == [status |-> "none", val |-> 0]

(* An operation with its argument; only getSym's matters. *)
AnySymbol == CHOOSE s \in Symbol : TRUE
Operation == [name : {"getSym"}, symbol : Symbol]
               \cup [name : AllNames \ {"getSym"}, symbol : {AnySymbol}]

(* Requests made with main_mutex held. *)
Locked == {"alloc_buff", "free_buff", "read_mem", "write_mem", "create_thread", "exit"}

Goto(t, label) == pc' = [pc EXCEPT ![t] = label]

(* The lock_guard of the latest request goes out of scope. *)
Unlock(t) == main_mutex' = IF main_mutex = t THEN NoThread ELSE main_mutex

(* The operation of thread t ends. *)
Return(t, val) ==
  /\ Unlock(t)
  /\ result' = [result EXCEPT ![t] = val]
  /\ Goto(t, "idle")
  /\ UNCHANGED req

(* The operation of thread t goes on with another request. *)
Ask(t, q) ==
  /\ Unlock(t)
  /\ req' = [req EXCEPT ![t] = q]
  /\ Goto(t, IF q \in Locked THEN "mutex" ELSE "submit")
  /\ UNCHANGED result

Exiting(t) == pc[t] # "idle" /\ op[t].name = "exitProc"

-----------------------------------------------------------------------------
Init ==
  /\ main_mutex = NoThread
  /\ sym_mtx = NoThread
  /\ sym_name = [s \in Symbol |-> None]
  /\ main_exited = FALSE
  /\ state = "BLOCKED"
  /\ queue_state = "READY"
  /\ request = << >>
  /\ wpc = "loop"
  /\ failed = NoThread
  /\ answer = [t \in Thread |-> NoAnswer]
  /\ pc = [t \in Thread |-> "idle"]
  /\ op = [t \in Thread |-> [name |-> "allocBuff", symbol |-> AnySymbol]]
  /\ req = [t \in Thread |-> "alloc_buff"]
  /\ result = [t \in Thread |-> None]
  /\ contexts = 0
  /\ Handshake!Init
  /\ aborted = FALSE
  /\ held = {}

(* The request with which each operation starts. *)
FirstRequest(name) ==
  CASE name = "loadLibrary" -> "load_library"
    [] name = "getSym" -> "find_sym"
    [] name = "allocBuff" -> "alloc_buff"
    [] name = "freeBuff" -> "free_buff"
    [] name = "readMem" -> "read_mem"
    [] name = "writeMem" -> "write_mem"
    [] name = "openContext" -> "create_thread"
    [] name = "exitProc" -> "exit"

(* A thread calls an operation. *)
Call(t, o) ==
  /\ pc[t] = "idle"
  /\ ~aborted
  /\ o.name \in Name
  /\ IF o.name = "exitProc" THEN \A u \in Thread : pc[u] = "idle" \/ Exiting(u)
     ELSE ~main_exited /\ \A u \in Thread : ~Exiting(u)
  /\ op' = [op EXCEPT ![t] = o]
  /\ req' = [req EXCEPT ![t] = FirstRequest(o.name)]
  /\ Goto(t, IF o.name = "getSym" THEN "find"
             ELSE IF FirstRequest(o.name) \in Locked THEN "mutex" ELSE "submit")
  /\ result' = [result EXCEPT ![t] = None]
  /\ UNCHANGED <<main_mutex, sym, main_exited, worker, answer, contexts, ctx, aborted, held>>

(* The lock_guard of main_mutex.  exitProc returns at once when the main   *)
(* thread has exited.                                                      *)
LockMain(t) ==
  /\ pc[t] = "mutex"
  /\ main_mutex = NoThread
  /\ \/ /\ req[t] = "exit" /\ main_exited
        /\ Return(t, 0)
     \/ /\ ~(req[t] = "exit" /\ main_exited)
        /\ main_mutex' = t
        /\ Goto(t, "submit")
        /\ UNCHANGED <<req, result>>
  /\ UNCHANGED <<sym, main_exited, worker, answer, op, contexts, ctx, aborted, held>>

-----------------------------------------------------------------------------
(* Mutant of CacheKey: the library is left out. *)
CacheKeyNameOnly(s) == CHOOSE r \in Symbol : r[2] = s[2]

(* getSym's cache has an entry for each library and symbol name. *)
CacheKey(s) == s

(* getSym: sym_name.find, under sym_mtx. *)
SymFind(t) ==
  /\ pc[t] = "find"
  /\ sym_mtx = NoThread
  /\ sym_mtx' = t
  /\ Goto(t, IF sym_name[CacheKey(op[t].symbol)] # None THEN "hit" ELSE "miss")
  /\ UNCHANGED <<main_mutex, sym_name, main_exited, worker, answer, op, req, result,
                 contexts, ctx, aborted, held>>

(* getSym releases sym_mtx, ... *)
SymHit(t) ==
  /\ pc[t] = "hit"
  /\ sym_mtx' = NoThread
  /\ Goto(t, "found")
  /\ UNCHANGED <<main_mutex, sym_name, main_exited, worker, answer, op, req, result,
                 contexts, ctx, aborted, held>>

(* ... and returns what the iterator points to by then. *)
SymReturn(t) ==
  /\ pc[t] = "found"
  /\ Return(t, sym_name[CacheKey(op[t].symbol)])
  /\ UNCHANGED <<sym, main_exited, worker, answer, op, contexts, ctx, aborted, held>>

SymMiss(t) ==
  /\ pc[t] = "miss"
  /\ sym_mtx' = NoThread
  /\ Goto(t, "submit")
  /\ UNCHANGED <<main_mutex, sym_name, main_exited, worker, answer, op, req, result,
                 contexts, ctx, aborted, held>>

(* getSym puts the address, which result holds, into the cache. *)
SymStore(t) ==
  /\ pc[t] = "store"
  /\ sym_mtx = NoThread
  /\ sym_mtx' = t
  /\ sym_name' = [sym_name EXCEPT ![CacheKey(op[t].symbol)] = result[t]]
  /\ Goto(t, "stored")
  /\ UNCHANGED <<main_mutex, main_exited, worker, answer, op, req, result, contexts, ctx, aborted, held>>

SymStored(t) ==
  /\ pc[t] = "stored"
  /\ sym_mtx' = NoThread
  /\ Goto(t, "idle")
  /\ UNCHANGED <<main_mutex, sym_name, main_exited, worker, answer, op, req, result,
                 contexts, ctx, aborted, held>>

-----------------------------------------------------------------------------
(* callAsync, asyncReadMem, asyncWriteMem and _callOpenContext look at the *)
(* worker's state, exitProc does not.  A request that is refused has the   *)
(* ID VEO_REQUEST_ID_INVALID, for which callWaitResult answers ERROR.      *)
Submit(t) ==
  /\ pc[t] = "submit"
  /\ \/ /\ state = "EXIT" /\ req[t] # "exit"
        /\ answer' = [answer EXCEPT ![t] = [status |-> "ERROR", val |-> 0]]
        /\ Goto(t, "wait")
     \/ /\ state # "EXIT" \/ req[t] = "exit"
        /\ Goto(t, "status")
        /\ UNCHANGED answer
  /\ UNCHANGED <<main_mutex, sym, main_exited, worker, op, req, result, contexts, ctx, aborted, held>>

(* pushRequest loads queue_state.  When it is CLOSED, exitProc waits for   *)
(* the completion of VEO_REQUEST_ID_INVALID.                               *)
Status(t) ==
  /\ pc[t] = "status"
  /\ \/ /\ queue_state = "READY"
        /\ Goto(t, "push")
        /\ UNCHANGED answer
     \/ /\ queue_state = "CLOSED" /\ req[t] # "exit"
        /\ answer' = [answer EXCEPT ![t] = [status |-> "ERROR", val |-> 0]]
        /\ Goto(t, "wait")
     \/ /\ queue_state = "CLOSED" /\ req[t] = "exit"
        /\ Goto(t, "stuck")
        /\ UNCHANGED answer
  /\ UNCHANGED <<main_mutex, sym, main_exited, worker, op, req, result, contexts, ctx, aborted, held>>

(* pushRequest: request.push *)
Push(t) ==
  /\ pc[t] = "push"
  /\ request' = Append(request, t)
  /\ Goto(t, "wait")
  /\ UNCHANGED <<main_mutex, sym, main_exited, state, queue_state, wpc, failed, answer,
                 op, req, result, contexts, ctx, aborted, held>>

(* Mutant of Follow: loadLibraryError tries again until it has a message. *)
FollowRetries(t, val) ==
  CASE req[t] = "load_library" -> IF val = 0 THEN "alloc_buff" ELSE "return"
    [] req[t] = "find_sym" -> IF val = 0 THEN "return" ELSE "store"
    [] op[t].name = "loadLibrary" /\ req[t] = "alloc_buff" -> "load_library_err"
    [] req[t] = "load_library_err" -> IF val < 0 THEN "alloc_buff" ELSE "read_mem"
    [] op[t].name = "loadLibrary" /\ req[t] = "read_mem" -> "free_buff"
    [] OTHER -> "return"

(* What an operation does after its request was answered with OK and a     *)
(* value: the next request, "store" or "return".  A loadLibrary that       *)
(* yields no handle goes on in loadLibraryError.                           *)
Follow(t, val) ==
  CASE req[t] = "load_library" ->
         IF val = 0 /\ VeorunVersion >= 4 THEN "alloc_buff" ELSE "return"
    [] req[t] = "find_sym" -> IF val = 0 THEN "return" ELSE "store"
    [] op[t].name = "loadLibrary" /\ req[t] = "alloc_buff" ->
         IF val = 0 THEN "return" ELSE "load_library_err"
    [] req[t] = "load_library_err" -> IF val < 0 THEN "return" ELSE "read_mem"
    [] op[t].name = "loadLibrary" /\ req[t] = "read_mem" -> "free_buff"
    [] OTHER -> "return"

(* What the operation returns then: a failed loadLibrary returns 0. *)
Value(t, val) == IF op[t].name = "loadLibrary" /\ req[t] # "load_library" THEN 0 ELSE val

(* callWaitResult returns OK, or waitCompletion returns for exitProc,      *)
(* which goes on to mark the main thread as exited.                        *)
Answered(t) ==
  /\ pc[t] = "wait"
  /\ answer[t] # NoAnswer
  /\ answer[t].status = "OK" \/ req[t] = "exit"
  /\ LET val == answer[t].val
         next == Follow(t, val)
     IN  \/ next = "return" /\ Return(t, Value(t, val))
         \/ /\ next = "store"
            /\ result' = [result EXCEPT ![t] = val]
            /\ Goto(t, "store")
            /\ UNCHANGED <<main_mutex, req>>
         \/ next \in Request /\ Ask(t, next)
  /\ answer' = [answer EXCEPT ![t] = NoAnswer]
  /\ main_exited' = (main_exited \/ req[t] = "exit")
  /\ held' = IF req[t] = "create_thread" /\ answer[t].val > 0
             THEN held \cup {answer[t].val} ELSE held
  /\ UNCHANGED <<sym, worker, op, contexts, ctx, aborted>>

(* Mutants of Throws: main_mutex stays locked when an exception is thrown, *)
(* and the cache gets an entry for a symbol whose look-up failed.          *)
ThrowsNoUnlock(t) ==
  /\ pc[t] = "wait"
  /\ answer[t] # NoAnswer
  /\ answer[t].status # "OK"
  /\ req[t] \notin {"read_mem", "write_mem", "exit"}
  /\ result' = [result EXCEPT ![t] = Thrown]
  /\ Goto(t, "idle")
  /\ answer' = [answer EXCEPT ![t] = NoAnswer]
  /\ UNCHANGED <<main_mutex, req, sym, main_exited, worker, op, contexts, ctx, aborted, held>>
ThrowsCached(t) ==
  /\ pc[t] = "wait"
  /\ answer[t] # NoAnswer
  /\ answer[t].status # "OK"
  /\ req[t] = "find_sym"
  /\ result' = [result EXCEPT ![t] = Thrown]
  /\ Goto(t, "store")
  /\ answer' = [answer EXCEPT ![t] = NoAnswer]
  /\ UNCHANGED <<main_mutex, req, sym, main_exited, worker, op, contexts, ctx, aborted, held>>

(* callWaitResult does not return OK: doOnContext and openContext throw.   *)
(* loadLibraryError catches what allocBuff and load_library_err throw and  *)
(* goes on, after the latter, with an rv that was not set.                 *)
Throws(t) ==
  /\ pc[t] = "wait"
  /\ answer[t] # NoAnswer
  /\ answer[t].status # "OK"
  /\ req[t] \notin {"read_mem", "write_mem", "exit"}
  /\ \/ /\ op[t].name = "loadLibrary" /\ req[t] \in {"alloc_buff", "load_library_err"}
        /\ Return(t, 0)
     \/ /\ op[t].name = "loadLibrary" /\ req[t] = "load_library_err"
        /\ Ask(t, "read_mem")
     \/ /\ ~(op[t].name = "loadLibrary" /\ req[t] \in {"alloc_buff", "load_library_err"})
        /\ Return(t, Thrown)
  /\ answer' = [answer EXCEPT ![t] = NoAnswer]
  /\ UNCHANGED <<sym, main_exited, worker, op, contexts, ctx, aborted, held>>

(* readMem and writeMem assert that callWaitResult returned OK. *)
Aborts(t) ==
  /\ pc[t] = "wait"
  /\ answer[t] # NoAnswer
  /\ answer[t].status # "OK"
  /\ req[t] \in {"read_mem", "write_mem"}
  /\ aborted' = TRUE
  /\ UNCHANGED <<main_mutex, sym, main_exited, worker, answer, pc, op, req, result, contexts, ctx, held>>

-----------------------------------------------------------------------------
(* What a request of thread t may yield on the VE. *)
Values(t) ==
  CASE req[t] = "find_sym" -> {Address[op[t].symbol]}
    [] req[t] \in {"load_library", "alloc_buff"} -> {0, 1}
    [] req[t] = "load_library_err" -> {Failed, 0}
    [] OTHER -> {0}

(* Mutant of Run: popRequest leaves the request in the queue. *)
RunNoPop ==
  /\ wpc = "loop" /\ request # << >>
  /\ LET t == Head(request)
     IN  /\ req[t] \notin {"create_thread", "exit"}
         /\ \E val \in Values(t) : answer' = [answer EXCEPT ![t] = [status |-> "OK", val |-> val]]
  /\ UNCHANGED <<main_mutex, sym, main_exited, state, queue_state, request, wpc, failed, pc,
                 op, req, result, contexts, ctx, aborted, held>>

(* The worker executes a request that is neither openContext's nor         *)
(* exitProc's.                                                             *)
Run ==
  /\ wpc = "loop" /\ request # << >>
  /\ LET t == Head(request)
     IN  /\ req[t] \notin {"create_thread", "exit"}
         /\ \E val \in Values(t) : answer' = [answer EXCEPT ![t] = [status |-> "OK", val |-> val]]
  /\ request' = Tail(request)
  /\ UNCHANGED <<main_mutex, sym, main_exited, state, queue_state, wpc, failed, pc, op,
                 req, result, contexts, ctx, aborted, held>>

(* _callOpenContext's handler.  The VE thread runs to clone(), or raises   *)
(* an exception, after which the handler goes on in the same way; then the *)
(* new context and handleCloneRequest, whose ve__do_clone may fail.        *)
OpenClone ==
  /\ wpc = "loop" /\ request # << >>
  /\ req[Head(request)] = "create_thread"
  /\ \/ /\ contexts < MaxContexts
        /\ contexts' = contexts + 1
        /\ Handshake!Clone(contexts + 1)
        /\ wpc' = "semwait"
     \/ /\ wpc' = "notopen"
        /\ UNCHANGED <<contexts, ctx>>
  /\ UNCHANGED <<main_mutex, sym, main_exited, state, queue_state, request, failed, answer,
                 pc, op, req, result, aborted, held>>

(* handleCloneRequest returns the new thread. *)
OpenJoin ==
  /\ wpc = "semwait"
  /\ Handshake!SemWait(contexts)
  /\ wpc' = "opened"
  /\ UNCHANGED <<main_mutex, sym, main_exited, state, queue_state, request, failed, answer,
                 pc, op, req, result, contexts, aborted, held>>

(* Mutant of OpenDone: a context is created and the request answered with  *)
(* an error.                                                               *)
OpenDoneForgets ==
  /\ wpc \in {"opened", "notopen"}
  /\ answer' = [answer EXCEPT ![Head(request)] = [status |-> "ERROR", val |-> 0]]
  /\ request' = Tail(request)
  /\ wpc' = "loop"
  /\ UNCHANGED <<main_mutex, sym, main_exited, state, queue_state, failed, pc, op, req,
                 result, contexts, ctx, aborted, held>>

(* The VE thread goes on to the next block request.  The answer, with      *)
(* status OK, is the new context or the negative error of the clone; in    *)
(* the latter case the new context is deleted.                             *)
OpenDone ==
  /\ wpc \in {"opened", "notopen"}
  /\ answer' = [answer EXCEPT ![Head(request)] =
       [status |-> "OK", val |-> IF wpc = "opened" THEN contexts ELSE Failed]]
  /\ request' = Tail(request)
  /\ wpc' = "loop"
  /\ UNCHANGED <<main_mutex, sym, main_exited, state, queue_state, failed, pc, op, req,
                 result, contexts, ctx, aborted, held>>

(* It raises an exception instead, or sem_init failed: nobody catches what *)
(* the handler throws.                                                     *)
OpenThrows ==
  /\ wpc \in {"opened", "notopen"}
  /\ "exception" \in Fault
  /\ aborted' = TRUE
  /\ UNCHANGED <<main_mutex, sym, main_exited, worker, answer, pc, op, req, result,
                 contexts, ctx, held>>

(* The pseudo thread of a new context, until its creator need not wait. *)
ContextStarts ==
  /\ \E c \in 1..contexts : Handshake!StartEventLoop(c) \/ Handshake!SemPost(c)
  /\ UNCHANGED <<main_mutex, sym, main_exited, worker, answer, pc, op, req, result,
                 contexts, aborted, held>>

(* exitProc's handler: whatever the exception handler returns is taken for *)
(* success.  The state is left RUNNING, which ends the event loop.         *)
RunExit ==
  /\ wpc = "loop" /\ request # << >>
  /\ LET t == Head(request)
     IN  /\ req[t] = "exit"
         /\ answer' = [answer EXCEPT ![t] = [status |-> "OK", val |-> 0]]
  /\ request' = Tail(request)
  /\ state' = "RUNNING"
  /\ wpc' = "gone"
  /\ UNCHANGED <<main_mutex, sym, main_exited, queue_state, failed, pc, op, req, result,
                 contexts, ctx, aborted, held>>

(* The handler returns non-zero. *)
RunFails ==
  /\ wpc = "loop" /\ request # << >>
  /\ LET t == Head(request)
     IN  /\ req[t] \notin {"create_thread", "exit"}
         /\ (IF req[t] \in {"read_mem", "write_mem"} THEN "mem" ELSE "exception") \in Fault
         /\ failed' = t
  /\ request' = Tail(request)
  /\ state' = "EXIT"
  /\ wpc' = "close"
  /\ UNCHANGED <<main_mutex, sym, main_exited, queue_state, answer, pc, op, req, result,
                 contexts, ctx, aborted, held>>

FailClose ==
  /\ wpc = "close"
  /\ queue_state' = "CLOSED"
  /\ wpc' = "drain"
  /\ UNCHANGED <<main_mutex, sym, main_exited, state, request, failed, answer, pc, op,
                 req, result, contexts, ctx, aborted, held>>

(* The failed request is answered, and setCompletion answers the others. *)
FailDrain ==
  /\ wpc = "drain"
  /\ answer' = [t \in Thread |->
       IF t = failed THEN [status |-> IF req[t] \in {"read_mem", "write_mem"} THEN "ERROR"
                                      ELSE "EXCEPTION", val |-> 0]
       ELSE IF \E i \in 1..Len(request) : request[i] = t
            THEN [status |-> "UNFINISHED", val |-> 0] ELSE answer[t]]
  /\ request' = << >>
  /\ failed' = NoThread
  /\ wpc' = "gone"
  /\ UNCHANGED <<main_mutex, sym, main_exited, state, queue_state, pc, op, req, result,
                 contexts, ctx, aborted, held>>

-----------------------------------------------------------------------------
Acquire(t) == LockMain(t) \/ SymFind(t) \/ SymStore(t)

ThreadStep(t) ==
  \/ SymHit(t) \/ SymReturn(t) \/ SymMiss(t) \/ SymStored(t)
  \/ Submit(t) \/ Status(t) \/ Push(t)
  \/ Answered(t) \/ Throws(t) \/ Aborts(t)

WorkerStep ==
  Run \/ OpenClone \/ OpenJoin \/ OpenDone \/ OpenThrows \/ RunExit \/ RunFails \/ FailClose \/ FailDrain

Next ==
  /\ ~aborted
  /\ \/ \E t \in Thread : (\E o \in Operation : Call(t, o)) \/ Acquire(t) \/ ThreadStep(t)
     \/ WorkerStep
     \/ ContextStarts

Spec == Init /\ [][Next]_vars

(* Threads inside an operation and the worker run on, a mutex that is free *)
(* again and again is got in the end, and VE functions end.                *)
Fairness ==
  /\ \A t \in Thread : SF_vars(~aborted /\ Acquire(t)) /\ WF_vars(~aborted /\ ThreadStep(t))
  /\ WF_vars(~aborted /\ WorkerStep)
  /\ WF_vars(~aborted /\ ContextStarts)

FairSpec == Spec /\ Fairness

-----------------------------------------------------------------------------
(* Every variable has its type. *)
TypeOK ==
  /\ main_mutex \in Thread \cup {NoThread}
  /\ sym_mtx \in Thread \cup {NoThread}
  /\ sym_name \in [Symbol -> Nat]
  /\ main_exited \in BOOLEAN
  /\ state \in {"BLOCKED", "RUNNING", "EXIT"}
  /\ queue_state \in {"READY", "CLOSED"}
  /\ request \in Seq(Thread)
  /\ wpc \in {"loop", "semwait", "opened", "notopen", "close", "drain", "gone"}
  /\ failed \in Thread \cup {NoThread}
  /\ answer \in [Thread -> [status : {"none", "OK", "EXCEPTION", "ERROR", "UNFINISHED"},
                            val : Int]]
  /\ pc \in [Thread -> PC]
  /\ op \in [Thread -> Operation]
  /\ req \in [Thread -> Request]
  /\ result \in [Thread -> Int]
  /\ contexts \in 0..MaxContexts
  /\ ctx \in [1..MaxContexts -> Handshake!Context]
  /\ aborted \in BOOLEAN
  /\ held \subseteq Nat

(* Each mutex is held by the thread that is inside its section, whether an *)
(* operation returns, throws, or goes from one request to the next: no     *)
(* exit path of getSym, loadLibraryError or doOnContext leaves a mutex     *)
(* behind, and main_mutex keeps the locked operations apart.               *)
MutexDiscipline ==
  \A t \in Thread :
    /\ main_mutex = t <=> /\ pc[t] \in {"submit", "status", "push", "wait", "stuck"}
                          /\ req[t] \in Locked
    /\ sym_mtx = t <=> pc[t] \in {"hit", "miss", "stored"}

(* An answer goes to the request it belongs to: a request with the worker  *)
(* has one thread that waits for it, and a thread that does not wait       *)
(* leaves no answer behind for its next request.                           *)
AnswerBelongs ==
  /\ \A i, j \in 1..Len(request) : request[i] = request[j] => i = j
  /\ \A t \in Thread :
       /\ t = failed \/ (\E i \in 1..Len(request) : request[i] = t)
            => pc[t] = "wait" /\ answer[t] = NoAnswer
       /\ t = failed => \A i \in 1..Len(request) : request[i] # t
       /\ answer[t] # NoAnswer => pc[t] = "wait"

(* getSym returns the address of the symbol asked for, from the cache or   *)
(* from the VE, or throws; it never answers for another library, and never *)
(* forgets a symbol that exists.                                           *)
SymbolsTrue ==
  \A t \in Thread :
    pc[t] = "idle" /\ op[t].name = "getSym" =>
      result[t] \in {Address[op[t].symbol], Thrown}

(* A context created on the VE is with the worker that opens it, is the    *)
(* answer one openContext is about to get, or was returned by one: none is *)
(* lost and none is given to two callers, whatever fails besides.          *)
ContextsOwned ==
  \A c \in 1..MaxContexts :
    LET takers == {t \in Thread : answer[t] = [status |-> "OK", val |-> c]
                                    /\ req[t] = "create_thread"}
        opening == c = contexts /\ wpc \in {"semwait", "opened"}
    IN  Cardinality(takers) = IF c > contexts \/ c \in held \/ opening THEN 0 ELSE 1

(* A context that a caller gets has its own VEOS handle and a known state, *)
(* and its pseudo thread no longer uses the worker's stack: openContext    *)
(* never overtakes startEventLoop.                                         *)
ContextsReady ==
  /\ \A c \in held : Handshake!Ready(c)
  /\ \A c \in 1..contexts : Handshake!FrameAlive(c)

(* Every operation returns, unless the worker fails or the program ends: no *)
(* thread waits for ever for a mutex or for an answer while the others go   *)
(* on.                                                                      *)
OperationsReturn ==
  \A t \in Thread : pc[t] # "idle" ~> pc[t] = "idle" \/ state = "EXIT" \/ aborted

(* veo_proc_destroy returns. *)
ExitReturns == \A t \in Thread : Exiting(t) ~> ~Exiting(t)
=============================================================================
