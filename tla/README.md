# A TLA+ model of veoffload

veoffload (libveo) lets a program on the Vector Host (VH) run functions on a
Vector Engine (VE).  This directory holds TLA+ modules that model the part of
libveo where threads meet, TLC configurations that check them on small
instances, and proofs that TLAPS checks.

Paths below are relative to `src/src/libveo/` unless they say otherwise.

## 1. The system

### Parts and their state

| Part | Files | State | Operations |
|---|---|---|---|
| BlockingQueue | Command.hpp, Command.cpp | a deque of commands, a mutex, a condition variable, `queue_state` | push, pop, popNoWait, tryFind, wait, setStatus, getStatus |
| CommQueue | Command.hpp, Command.cpp | a request and a completion queue | pushRequest, popRequest, pushCompletion, peekCompletion, waitCompletion, setCompletion |
| ThreadContext, client side | ThreadContext.hpp/.cpp, AsyncTransfer.cpp | `seq_no`, `rem_reqid` (under `req_mtx`), reads of `state` | callAsync, callAsyncByName, callVHAsync, asyncReadMem, asyncWriteMem, callPeekResult, callWaitResult, close |
| ThreadContext, pseudo thread | ThreadContext.cpp | `state`, the command in execution, `ve_sp` | startEventLoop, eventLoop, the command handlers, the exception handler and its filters |
| CallArgs | CallArgs.hpp/.cpp | argument list, stack image, flags | set, setOnStack, clear, setup, getRegVal, copyin, copyout |
| ProcHandle | ProcHandle.hpp/.cpp | main thread context, worker context, `main_mutex`, symbol cache | loadLibrary, getSym, allocBuff, freeBuff, readMem, writeMem, openContext, exitProc |
| Process creation | ProcHandle.cpp, api.cpp | `spawn_mtx`, `proc_no`, `g_handle`, the thread's signal mask, libvepseudo's global data, the process VEOS knows | veo_proc_create, the constructor, spawn_helper, init_lhm_shm_area, init_rwlock_to_sync_dma_fork, veo_sigcont_handler |
| Choice of the VE node | api.cpp | none; reads `_VENODELIST` and `VE_NODE_NUMBER` | veo_proc_create_static |
| Thread attributes | ThreadContext.hpp/.cpp | stack size | get, set |
| C API | api.cpp, `src/include/ve_offload.h` | none | conversion of handles, of exceptions to error values |
| Logging | log.hpp/.cpp | log4c category | |

### How they interact

A VEO context has a *pseudo thread*: a VH thread that stands for a VE thread.
It serves the VE thread's system calls while that runs, and when the VE thread
asks to be *blocked* it takes commands from the context's request queue.
Client threads, any number of them, append commands to that queue and get
request IDs back.  The pseudo thread executes one command at a time (run a VE
function, run a VH function, transfer memory, close) and puts it on the
completion queue, where `callWaitResult` or `callPeekResult` finds it by its
ID.  `rem_reqid` holds the IDs nobody has asked for yet.

A handler that returns non-zero ends the event loop: state EXIT, request queue
closed, the failed command completed, then every queued request completed as
`VEO_COMMAND_UNFINISHED` (`setCompletion`).  The close handler sets EXIT,
answers the request itself and calls `pthread_exit`; `veo_context_close` then
deletes the context.

ProcHandle does everything on the VE process through a context of its own, the
worker, by submitting a request and waiting for it, mostly under `main_mutex`.

A context gets its pseudo thread by a handshake.  The VE thread of the parent
(the main thread, or for `openContext` the worker) is made to call clone();
the parent's pseudo thread handles it in `handleCloneRequest`: a semaphore and
an argument record on its stack, libvepseudo's clone, then `sem_wait`.  The
new pseudo thread fills in the context and posts the semaphore.

`veo_proc_create` chooses a node and runs the constructor of ProcHandle, which
blocks all signals, gets a VEOS handle, and under `spawn_mtx` lets
`spawn_helper` create the VE process if `proc_no` says there is none; then it
runs the VE main thread from block request to block request to read the table
of helper functions and to create the worker.

### What is hard, and what makes each part correct

 * **BlockingQueue**: several threads wait for *different* commands on one
   condition variable.  Correct if its content changes by whole operations
   only, a command object has one owner, and nobody sleeps through the arrival
   of its command.
 * **CommQueue and ThreadContext**: the check of `queue_state`, the push, the
   closing of the queue and its draining are separate steps of different
   threads; `state` is read without a lock; waiting happens outside `req_mtx`;
   IDs wrap around.  Correct if a request is in one place at a time and is
   answered exactly once, by the truth, to one taker; if requests run in order
   and none after a failure; if every accepted request is answered, every wait
   and close returns, and a deleted context is no longer in use.
 * **CallArgs**: the size of the frame is computed apart from its content, the
   decision to transfer it apart from what is in it, and one object serves
   many calls.  Correct if the VE function sees what the program passed, the
   output arrives, and the caller's frame is left alone.
 * **ProcHandle**: waits for the worker with a mutex held, goes through
   several requests in one operation, ends by return, exception or assertion,
   and keeps a cache under a mutex locked by hand.  Correct if no path leaves a
   mutex locked, every thread gets the answer to its own request, the cache is
   true, no created context is lost, and every operation returns.
 * **The clone handshake**: two threads share a stack frame of one of them.
   Correct if the parent leaves it only when the child is done with it, and
   if nobody gets a context that is not set up.
 * **Process creation**: some twenty calls of VEOS and the kernel, each of
   which may fail, with clean-up that differs from path to path, global data
   that a second process would overwrite, and signals that use a handle the
   constructor may have freed.  Correct if one process is created at most, a
   failure stands in nobody's way, the thread is left as it was, what stays
   behind after a failure is known, and every call returns.

`PROJECT.json` lists the hazards line by line with the properties aimed at
them.

## 2. The modules

| Module | What it is |
|---|---|
| `CommandQueues` | vocabulary: the IDs in a queue, a queue without repeated IDs |
| `AtomicQueue` | abstract specification: what a BlockingQueue promises |
| `BlockingQueue` | mutex, condition variable and deque, step by step; implements `AtomicQueue` |
| `ContextService` | abstract specification: what a context promises its clients |
| `ThreadContext` | one context: clients, pseudo thread, both queues, IDs, state, close; implements `ContextService` |
| `CallArgs` | an argument list on its way to the VE and back |
| `CloneHandshake` | how a context gets its pseudo thread |
| `ProcHandle` | several threads in the operations of a process handle, with its worker; uses `CloneHandshake` for the contexts it opens |
| `NodeSelection` | the node veo_proc_create_static chooses, as an operator |
| `ProcCreate` | several calls of veo_proc_create; uses `NodeSelection`, and `CloneHandshake` for the worker |
| `MCBlockingQueue`, `MCThreadContext`, `MCCallArgs`, `MCProcHandle`, `MCProcCreate` | constants and symmetry for TLC |
| `QueueLemmas` | facts on Append, Tail and RemoveAt, and on the IDs in a queue |
| `BlockingQueueProofs`, `CallArgsProofs`, `ProcHandleProofs`, `ProcCreateProofs` | theorems about the modules they are named after, with their proofs |
| `ThreadContextProofs`, `ContextServiceProofs`, `ContextCloseProofs` | those about ThreadContext, each on top of the one before: requests and IDs; order, truth and the refinement; close, and that no request is lost |

`ThreadContext` uses its two queues through `INSTANCE AtomicQueue`; that
`BlockingQueue` implements `AtomicQueue` is checked and proved, which is what
allows `ThreadContext` to treat a push or a removal as one step.

A definition whose comment calls it a *mutant* of another is used by no
specification.  Each shows a mistake the code could contain; put in the
place of the definition it varies, it makes TLC find a property violated.

### BlockingQueue

`queue`, `mtx`: the members of the class.  `pc[t]`: where thread `t` is in its
call.  `op[t]`: the call and its argument, while it is in one.  `got[t]`: the
`unique_ptr` the last call returned.  A call is Lock; then PushBack and NotifyAll, or Take, or
TakeNothing; then Unlock.  `pop` and `wait` that find nothing go through
CondWait, Relock (after NotifyAll of another thread, or Spurious), Release,
and Lock again, since the `unique_lock` lives inside the loop's body.

### ThreadContext

`state`, `seq_no`, `rem_reqid`: members of the class.  `request`,
`completion`, `queue_state`: those of `comq`.  `pc`, `kind`, `reqid`: the
position and local variables of each client.  `ppc`, `cmd`: the pseudo
thread's.  `returned`, `pushed`, `started`, `outcome`, `delivered` are history
variables: no guard reads them, but that clients ask only for IDs they were
given.

 * A submission is one step up to the end of `issueRequestID`: the load of
   `state`, the atomic `fetch_add` and the insertion to `rem_reqid`.  The load
   touches what only the pseudo thread writes, the others what only clients
   use, and nobody asks for an ID that was not returned; the three commute
   with everyone else's steps.  The load of `queue_state` (StatusReady,
   StatusClosed) and the push (PushRequest) are steps of their own.
 * `callWaitResult` is two steps, WaitResult under `req_mtx` and WaitReturn;
   `callPeekResult` holds `req_mtx` throughout and is one.
 * The exception handler: Syscall and SyscallDone around
   `ve_syscall_handler`, Block for the block request, Exception for errors,
   also together with a block request or after a system call.
 * The failure path of `eventLoop` is FailState, FailClose, FailComplete,
   then Drain and DrainComplete in turn, and DrainEnd.  The close handler is
   CleanUp and ReplyClose.
 * The model ends when the context is deleted: what a thread does to a deleted
   object is undefined.  Clients call `veo_context_close` when no other client
   is inside a call.
 * Calls that change nothing have no action: submission in state EXIT, peek
   and wait for an unknown ID, peek before the result is there.
 * The return of `exceptionHandler` with TERMINATED and the end of
   `eventLoop` by its `while` condition do not happen (`StateAgrees`).
 * `StartSeq` generalises the constructor's `seq_no(0)` to a context that has
   used up and completed earlier IDs, so that wrap-around is within reach.

### ContextService

A context without threads: `queue`, the one request `running`, `stopped`, the
`results`, the IDs `taken`.  Requests are accepted, started in order, finished
or abandoned, and their results taken once; a failure or a close stops it.
ThreadContext implements it with `queue` the IDs in the request queue,
`running` the command in the pseudo thread's hand while it has no result,
`results` what is in the completion queue, delivered, or in the pseudo
thread's hand with a result, and `taken` the IDs delivered.  The abstract
`Accept` is enabled in a stopped context as well: that is what lost_request is
about, and the refinement does not hide it.

### CallArgs

Memory is a function from addresses to bytes, a byte names where it comes
from, so that a misplaced byte cannot go unnoticed.  SetArg and Clear are the
program's; SetUp is `setup` and the register part of `_doCall`; CopyIn,
Execute (the VE, by the calling convention the image is laid out for) and
CopyOut follow.  Where the VE function leaves its stack pointer is not under
libveo's control: both the caller's and the frame's are tried.  Each transfer
may fail; copyin and copyout drop the result and go on (`lost`), and the
properties say what still holds then: registers, the caller's frame, and that
an argument whose way back failed keeps the bytes that were sent.  SetUp's
contract is the program's: it leaves no argument unset when it calls
(CallArgs.cpp:222 fills the gaps below an argument with null pointers, which
setup would dereference).

`std::accumulate` and the loop of getStackImage are the recursive functions
`BufferSpace` and `GetStackImage`, which go from argument to argument.  SetUp
has two bounds: the VE stack has room for the frame, and the buffers of a call
add up to less than 2^31 bytes.  The second is there because `accumulate`
starts with the int 0 and so adds in an int (CallArgs.cpp:284); beyond it the
size reserved is not the size of the image, and the assertion in setup ends
the program.

### ProcHandle

`main_mutex`, `sym_mtx`, `sym_name`: members of the class, a mutex by its
owner.  `pc`, `op`, `req`: where a thread is, the operation it called, and the
request it has with the worker; an operation is a sequence of requests, for
loadLibrary up to five (load_library, and in loadLibraryError alloc_buff,
load_library_err, read_mem, free_buff), each locking and unlocking
`main_mutex` or not as the function does that makes it.  `answer` is the
completed command of the thread's request.

Of the worker the module keeps what its callers can notice: `state` and
`queue_state`, read at different times, the queue, and the steps of its
failure; draining is one step, and the failure before the first block request
is left out.  Submit stands for callAsync, asyncReadMem,
asyncWriteMem, _callOpenContext and the part of exitProc that makes its
command, Status and Push for pushRequest.

 * `exceptionHandler` returns a non-zero status whatever happens, so that
   exitProc's handler always reports success (RunExit).
 * loadLibraryError reads `rv` uninitialised when load_library_err throws:
   Throws allows both outcomes.
 * openContext's handler is OpenClone (the VE thread runs to clone(); the
   handshake begins or the clone fails), OpenJoin (`sem_wait`), OpenDone (the
   VE thread runs on to its next block request and the request is answered);
   ContextStarts is the new pseudo thread.  An exception in the handler is
   caught by nobody and ends the program (OpenThrows).  An assertion does so
   as well (Aborts).
 * getSym reads the iterator after unlocking `sym_mtx`: SymHit and SymReturn
   are two steps, and SymReturn finds what is there by then.  An entry is never
   erased, and its node stays where it is when others are inserted.
 * `funcs.exit` is present, as with every veorun that has the worker's
   functions; names are not too long.
 * Contract: veo_proc_destroy is called when no other operation is under way,
   and nothing but veo_proc_destroy after it.

### CloneHandshake

One record per context: the ThreadContext object, whether `os_handle` is its
own yet, its `state`, the semaphore on the parent's stack, and where the child
is.  Clone and CloneFails are `handleCloneRequest` up to libvepseudo's clone,
SemWait the rest of it; StartEventLoop, SemPost, FirstBlock and
FirstException are the child in `startEventLoop`.  The module has operators
for its steps and no `Next`: ProcHandle and ProcCreate decide when each
happens.

### NodeSelection and ProcCreate

`SelectNode` follows the branches of veo_proc_create_static.  A number in the
environment is what `stoi` makes of it, an integer or `Bad`; entries of the
list are converted when they are looked at, so that a bad entry behind the one
looked for does no harm (`Found`).

In ProcCreate each call of veo_proc_create is made by a thread of its own.
`pc[c]` names the next call of the constructor or of `spawn_helper`;
`AfterSpawnStep` and `AfterBootStep` are their order.  Spawn and SpawnFails,
Boot and BootFails are the two outcomes, with what the step leaves behind
(`globals`, `file`, `ve`, `sigcont`, `proc_no`) and what its error path undoes
(`ClosesFile`, `CleansUp`; `Throws` names the failures that leave
`spawn_helper` by an exception, so that the constructor does not reach
`veos_handle_free`).  A failing `pthread_rwlock` call aborts, a veorun that is
too old meets an assertion.  Unlock, RestoreMask and ClearHandle are the
destructors, in the order in which they run; RestoreMask and ClearHandle are
the two statements of `finally_`.

## 3. The runs

| Run | Module, configuration | Checks |
|---|---|---|
| queue | MCBlockingQueue, MCBlockingQueue.cfg | types, one owner per command, no lost wake-up, refinement of AtomicQueue; a wait whose command is queued is served |
| context_safe | MCThreadContext, MCThreadContextSafe.cfg | all safety properties and refinement of ContextService, with calls, transfers, close and every failure |
| context_live | MCThreadContextNoFault.cfg | close and completion properties without failures |
| context_fault_live | MCThreadContextFaultLive.cfg | with failures, requests (VH calls too) queued while the queue is open are answered |
| call_args | MCCallArgs, MCCallArgs.cfg | frame, arguments and output, with transfers that fail, for every argument list of the bound but those of out_on_stack |
| process | MCProcHandle, MCProcHandle.cfg | mutexes, answers, symbol cache, the owner and the set-up of contexts, with every operation and every failure of the worker; every operation returns unless the worker fails |
| creation | MCProcCreate, MCProcCreate.cfg | one set of global data, refusals, the thread's state, what a failure leaves, the worker's life, the node, and that every call returns, with every call failing |

and five runs in which the code does something else than its documentation
says; TLC finds the property violated:

| Run | What TLC shows |
|---|---|
| lost_request | a request pushed after the queue was closed and drained is accepted and never answered (Command.cpp:91) |
| close_early | close returns while the pseudo thread still uses the context (ThreadContext.cpp:480) |
| out_on_stack | the pointer to an output buffer beyond the register arguments is not transferred when nothing else is copied in (CallArgs.cpp:170) |
| exit_hangs | veo_proc_destroy never returns after the worker has failed (ProcHandle.cpp:717) |
| first_node | under the job scheduler, with venode -1, VE_NODE_NUMBER decides if it is set and assigned (api.cpp:175), where api.cpp:147 and 244 say that the first assigned node is used |

More disagreements came up that are left without a run of their own:

 * `close` waits for VEO_REQUEST_ID_INVALID when its command is refused
   (ThreadContext.cpp:487), as exitProc does in exit_hangs;
 * a failure before the first block request leaves accepted requests
   unanswered (ThreadContext.cpp:399), as in lost_request;
 * callVHAsync ignores a refusal and returns a valid ID
   (ThreadContext.cpp:576), where api.cpp:458 promises
   VEO_REQUEST_ID_INVALID;
 * readMem and writeMem assert success (ProcHandle.cpp:815), so that a failed
   transfer ends the program where api.cpp:559 promises a negative value;
 * a worker that cannot be created is only logged (ProcHandle.cpp:547), and a
   handle is returned where api.cpp:120 promises NULL; WorkerReady excepts it;
 * exitProc stores the exception handler's status, which is never zero, as its
   success (ProcHandle.cpp:696), so that it reports none of its failures;
 * the comment of veo_args_set_stack says that only VEO_INTENT_IN is supported
   (api.cpp:780 and 788).  It is stale: the guide (`src/doc/GettingStarted.md`),
   the programs test_stackargs.c and fortrantest.c of `src/examples/` and the
   code pass VEO_INTENT_OUT and VEO_INTENT_INOUT, and OutputDelivered of
   `call_args` shows that the output arrives.

CallerFrameKept of `call_args` excepts a call whose copyin failed.  The VE
function then takes its pointers from what the stack held before, and TLC finds
a list (with an output buffer of four bytes) in which such a pointer, left by
the first call, makes the output of the second go past the caller's stack
pointer.  The call does not notice: copyin drops the result of its transfer
(CallArgs.cpp:321).

Three properties of `creation` name what they leave out, each of which TLC
finds when the exception is dropped.  SignalHandleLive: `finally_` restores the
signal mask before it clears `g_handle`, and a SIGCONT between the two
statements finds a pointer to a handle that may have been freed.
WorkerOutlives: when the main thread fails in the last waitForBlock, the worker
is deleted under its pseudo thread.  NothingLeft: the VEOS handle when
spawn_helper throws or the constructor fails after it, the temporary file when
it cannot be mapped, and the process VEOS has created when the VEMVA header,
the start or its acknowledgement fails.

### Bounds

 * queue: three threads, three commands, two of them with the same ID, so
   that the first match matters.  Two waiters for different IDs and a pusher
   are the smallest case in which a notification can go to the wrong thread.
 * context_safe: two clients, four requests, seven ID values starting at 5, so
   that the IDs run over VEO_REQUEST_ID_INVALID (6) to 0.  Four requests are
   enough for one that fails, one that is being submitted meanwhile, one in
   the queue and a close.  Clients are symmetric.  VH calls, which differ from
   calls only in that they cannot fail and that their submission ignores a
   refusal, are in context_live and context_fault_live.
 * The runs with liveness have three requests and no symmetry; the violations
   need two.
 * call_args: words of two bytes, one register argument, a parameter area at
   offset 2, up to three arguments out of five kinds (values of one and two
   bytes, buffers of lengths 1, 3 and 4 with each intent) and two calls.  So
   lists use both registers and stack, buffers need padding or not, and the
   second call meets the traces of the first on the object and on the stack.
   The stack pointer starts at 44, which leaves room for two of the largest
   frames (20 bytes each), with 8 bytes of the caller's above it.
 * process: two threads and all eight operations, in any number; the same
   symbol name in two libraries, and a symbol that does not exist; two
   contexts.  With two threads one can fail, be in the queue, or be between
   two checks while the other is anywhere in its operation.  exit_hangs needs
   two operations only.
 * creation: two calls, at the same time or one after the other, with every
   call of VEOS and the kernel failing or not; venode from -2 to 2, a node
   list that is unset, empty, in descending order or with an entry that is no
   number, VE_NODE_NUMBER unset, no number, listed or not.  Two calls are
   enough for a refusal, for a race for `spawn_mtx` and for a second try after
   a failure; the theorems cover any number.  first_node has one call and no
   failures, with the same arguments.
 * CHECK_DEADLOCK is off where the system may stop: a context that was deleted
   or whose requests are all used up, and a program that makes no more calls.

### Fairness

 * queue: a thread that holds the mutex runs on (weak fairness of its
   steps), and one that finds the mutex free over and over gets it (strong
   fairness of Lock and Relock): std::mutex promises no order, but a thread
   that is never let in on a running system is not libveo's failure.  Nothing
   is assumed of spurious wake-ups, and no thread has to make a call.
 * ThreadContext: clients inside a call and the pseudo thread run on (weak
   fairness): all their steps are VH code, and the blocking ones are enabled
   only when their queue has what they wait for, which WaitServed justifies.
   Strong fairness of VEStops says that a VE function ends, by returning or by
   an exception, however many system calls it makes.  No client has to make or
   to finish a sequence of calls.
 * ProcHandle: threads inside an operation and the worker run on (weak
   fairness; the VE functions libveo itself calls end), and a mutex that is
   free over and over is got (strong fairness).  No thread has to make a call.
 * ProcCreate: a thread inside veo_proc_create and the worker's pseudo thread
   run on (weak fairness), which includes that VEOS answers and the VE main
   thread gets to its block requests or fails.  Weak fairness is enough for
   `spawn_mtx`, because each call takes it once.

## 4. What is proved

TLAPS proves the following for every set of threads, clients or calls, any
number of commands, request IDs, contexts and symbols, and any combination of
failures.

*BlockingQueueProofs.*  `Inv` is TypeOK, MutualExclusion, CallShape,
SingleOwner and NoLostWakeup.  CallShape says which calls can be at which
point, and that a call that is not over holds no result; without it SingleOwner
is not inductive, for a call could discard a command by finding another.
NoLostWakeup needs MutualExclusion (nobody pushes between a fruitless search
and the wait) and that removing a command never makes another the first match
of a thread that had none.  `Refinement` maps PushBack to Push, Take to Pop or
TakeAt, every other step to a stutter.

*ThreadContextProofs.*  `Inv` is TypeOK, SingleOwner and OneTaker with

 * SeqInv and AllIssued: the IDs issued form a window, possibly across the
   wrap-around, that does not close on itself, and every ID in use is inside
   it; so a new ID is new to everybody;
 * PseudoInv: the pseudo thread has a command, and the command a result, where
   the code takes it for granted;
 * ClientInv: an ID is with nobody else while its request is submitted, and a
   close ID is never returned to a caller.

From it follow SingleOwner, OneTaker, DeliveredOnce (as an action property) and
TypeOK; StateAgrees is inductive with TypeOK alone.

*ContextServiceProofs.*  On top of that, `Extra` is

 * CmdInv: the pseudo thread has no command between two commands, and one in
   execution or in the queue has no result;
 * OrderInv: until the queue is drained, what was pushed is what was started
   followed by what is queued;
 * TruthInv: a status on its way, in the completion queue, in the pseudo
   thread's hand or delivered, is what happened to the request, for which a
   request that is submitted or queued must not have been started;
 * FailInv: the command in hand is the last started, and all before it ended
   well.

ExecutionOrder, StatusTruthful and FailStop follow, and `ServiceRefinement`:
ThreadContext implements ContextService.  PushRequest maps to Accept, the
removal by eventLoop to Start, the end of an execution to Finish, Drain to
Abandon, a delivery to Take, every other step to a stutter or to Stop.

*ContextCloseProofs.*  What veo_context_close relies on.  `CloseInv` is

 * CloserInv: while a client is in close, no other is inside a call;
 * CommandInv: a close command is the last one in the queue and has a client
   that waits for it from its push to its reply, and whoever waits in close
   has its command in the queue, in the pseudo thread's hand, or answered by a
   pseudo thread that has ended.

CloseCorrect is CloseTerminatesPseudoThread under the hypothesis that no
handler of a command fails (`CommandsSucceed`; a failure before the first
block request may still happen): with such a failure the pseudo thread
completes the close command while it still drains the queue, which is what
close_early shows.  CloseComplete is CloseCompletesAll, with `DoneInv` (the
pseudo thread ends by a close only, when everything pushed has an outcome), for
contexts without failures: any of them leaves requests that never run, as
lost_request shows.

LostCorrect and AnswerCorrect say what a waiting client waits for.
`NothingLost` follows each request from its push: it is in the request queue, in
the pseudo thread's hand, in the completion queue or delivered, and with
SingleOwner in one of them only.  It holds with every failure, and rests on
CmdInv: the pseudo thread has no command when it takes the next one, so none is
overwritten.  The same is true of every ID returned, except for the VH call that
a closed queue refuses.  `AnswerComing` adds, for contexts without failures, that
the request a client waits for in callWaitResult or in close has its result, or
is with a pseudo thread that has not ended (`ReplyInv`: it ends with an empty
queue).  That is the part of WaitReturns and CloseReturns that fairness does not
give; TLC checks the whole.  Both are stated in the proof module.

*CallArgsProofs.*  For lists of any length, buffers of any length, any word
size, number of registers and frame offset, and any number of calls with one
object.  `ImageOK(top, img, m)` says what an image is after `m` arguments:

 * Flags: it is to be copied in, or out, exactly if one of them asks for it;
 * Places: the buffers lie one after the other between the parameter area and
   the end of the image;
 * Slots: each argument past the registers has its value, or the address of
   its buffer, in its slot;
 * Contents: each buffer for input has its bytes.

One argument more keeps all four (StepValue, StepBuffer, ImageStep), so they
hold of the whole image, which is as long as the frame reserved for it.  This
is an induction over the list.  The library's induction theorems cannot be
used, as they have an operator as a parameter; SetInduction is derived from
well-foundedness with a *set* as its parameter, and PrimitiveRecursion from
SetInduction, which yields the equations of BufferSpace and GetStackImage.
`Inv` is TypeInv, FrameInv (the call at work has such an image in its frame,
registers to match, and what is known about the transfers that failed) and
TransferInv (after copyin memory holds the image).  FrameCorrect
(ImageFillsFrame) follows.  CallerCorrect, CalleeCorrect and OutputCorrect
also need OutputInv (after the VE function ran, its output is where copyout
reads) and the hypothesis `AllTransferred`: a list with a buffer whose address
is passed on the stack has an argument that is copied in.  out_on_stack shows
what happens with the other lists.  Transfers fail or not in all four.

*ProcHandleProofs.*  `Inv` is TypeOK with

 * LocalInv: what a thread asks for fits where it is, what a getSym has got so
   far is the address of its symbol, every cache entry is true, and
   MutexDiscipline.  The last needs the first: which mutex a thread holds is
   decided by its request;
 * QueueInv: AnswerBelongs, and the worker opens a context for the request at
   the front of its queue;
 * ContextInv: contexts are numbered without a gap, and all but the one whose
   parent waits have told their parent that they are set up;
 * OwnerInv: a context is given to one thread, stated with quantifiers, from
   which the cardinality in ContextsOwned follows at the end.

All six invariants of the run `process` follow.  ReplyCorrect is the safety half
of OperationsReturn, with every failure: a thread that has no answer yet
(`AnswerComing`) has its request with the worker, which is still going to look at
it or has failed and left it in the queue.  On top of `Inv` it needs StateInv
(the worker's state agrees with its place in the event loop) and ExitInv: no
operation is under way beside veo_proc_destroy, so when the worker executes
`exit` the one thread past main_mutex is the one it answers (ExitAlone), and its
queue is empty when it ends.

*ProcCreateProofs.*  `Inv` is TypeOK with what is true of a call by itself
(ThreadInv, LeftInv, WorkerInv) and of the calls together: `spawn_mtx` is held
by the call in its section, `proc_no` is non-zero exactly when some call has
got its process, and `spawn_helper` runs only while it is zero.  OneProcess,
GlobalsKept and NullJustified rest on the latter, the others on the former.
OneProcess (one call at most gets a process) and SemaphoreAlive (the worker
uses its parent's stack only while that waits) are stated in the module and
proved; the run checks GlobalsKept and WorkerReady, which break with them.
NodeAssigned, an action property, is proved of SelectNode for lists of any
length.  With venode -1 under the job scheduler it says that the node is an
assigned one, and the first if VE_NODE_NUMBER is not set; what the
documentation says of the other case is refuted by first_node.

Assumptions: the IDs issued are fewer than there are (IdAssumption,
2^64 - 1 in the code); `NoThread`, `NoCaller` and `nullptr` are no threads, no
calls and no commands; a command's ID is a message ID; symbols have natural
numbers for addresses; the number of contexts is bounded by some number; the
arguments of veo_proc_create are an integer, a list and a number as
NodeSelection describes them; a value fits a word and a buffer is copied in,
out or both (ArgAssumption), lists to call with have no argument unset
(CallAssumption), and the first stack pointer is inside the VE's memory.

With this every invariant and every action property of the passing runs is a
theorem.  Only model-checked: the liveness properties (WaitServed,
ReturnedRequestCompletes, QueuedRequestCompletes, WaitReturns, CloseReturns,
OperationsReturn, CreateReturns), since fairness and ENABLED are out of the
prover's reach, and that a deadlock does not occur where it is checked.
AnswerCorrect and ReplyCorrect prove the safety half of three of them.

## 5. Not modelled

 * An exception thrown in the pseudo thread when `vedl_wait_exception` fails:
   it is not caught and ends the program.
 * In process creation: the data passed to VEOS (its request, the environment
   and the auxiliary vectors of the VE process), file names (and the 16 bytes
   into which the device's name is cut), the resending of SIGCONT by a thread
   without a VEOS handle.
 * Thread attributes: a record with one checked field.  The CPU and the stack
   size given to a new thread.
 * Return values of VE functions, the bytes of asynchronous transfers, logging.
 * The wrappers of the C API other than those named above: they convert
   handles and exceptions.
 * Arguments changed or freed by the program while a request that uses them
   is queued (callAsync captures them by reference), and a VH function that
   waits for a request of its own context: both are the program's to avoid.

## 6. Plan

1. Done: BlockingQueue against AtomicQueue; ThreadContext against
   ContextService; CallArgs with failing transfers; ProcHandle with the clone
   handshake; creation of the process with every failure; the proofs of
   section 4.
2. ProcHandle's worker as an implementation of ContextService, which it now
   abstracts on its own, with a proof.  It needs a specification in between:
   Run starts and finishes a request in one step, FailDrain abandons several,
   and a thread's name stands for one request ID after another.
3. CallArgs composed with ThreadContext: arguments by reference.
