----------------------------- MODULE ProcCreate -----------------------------
(***************************************************************************)
(* The creation of a VE process: veo_proc_create (api.cpp), the            *)
(* constructor of ProcHandle and spawn_helper (ProcHandle.cpp).  Several   *)
(* calls are made, at the same time or one after another; each of them     *)
(* is made once, by a VH thread of its own.                                *)
(*                                                                         *)
(* spawn_helper and the constructor are sequences of calls to VEOS and the *)
(* kernel, each of which may fail.  A program counter names the call that  *)
(* comes next, and Fault the ones that may fail; what a call leaves        *)
(* behind, and what is undone when it fails, is listed per call.           *)
(***************************************************************************)
EXTENDS Naturals, FiniteSets, NodeSelection

CONSTANTS
  Caller,       \* calls of veo_proc_create
  Arguments,    \* their inputs: venode, _VENODELIST, VE_NODE_NUMBER
  Fault,        \* the calls that may fail, a subset of Fallible
  NoCaller,     \* nobody
  NoArguments   \* no longer needed

VARIABLES
  spawn_mtx,    \* owner of internal::spawn_mtx
  proc_no,      \* internal::proc_no
  globals,      \* whose spawn_helper wrote libvepseudo's global data last
  sigcont,      \* veo_sigcont_handler is installed
  pc,           \* where each call is
  args,         \* its venode, _VENODELIST and VE_NODE_NUMBER, until it has chosen
  node,         \* the VE node, ProcHandle::ve_number
  mask,         \* the calling thread's signal mask: its own, or all blocked
  g_handle,     \* its g_handle is set, to the VEOS handle of this call
  handle,       \* the VEOS handle: not created, open or freed
  file,         \* the temporary file of the system call arguments exists
  ve,           \* the VE process, as VEOS knows it
  worker,       \* ProcHandle::worker, see CloneHandshake
  result,       \* what veo_proc_create returns
  aborted,      \* the program has been ended
  failed        \* history: the calls that have failed

shared == <<spawn_mtx, proc_no, globals, sigcont, aborted>>
input == <<args, node>>
vars == <<spawn_mtx, proc_no, globals, sigcont, pc, args, node, mask, g_handle, handle,
          file, ve, worker, result, aborted, failed>>

Worker == INSTANCE CloneHandshake WITH Owner <- Caller, ctx <- worker

(* The calls of spawn_helper, each with the next one: the mapping of       *)
(* libvepseudo's ptrace area and the assignments to its global data, the   *)
(* rwlock, the temporary file, its mapping, the request for a new process, *)
(* VEOS's request to load it, the VEMVA header, the executable, the stack, *)
(* the start of the process, its acknowledgement, the signal handler.      *)
AfterSpawnStep ==
  [ptrace |-> "rwlock", rwlock |-> "mkstemp", mkstemp |-> "shm", shm |-> "new_proc",
   new_proc |-> "load_req", load_req |-> "vemva", vemva |-> "load", load |-> "stack",
   stack |-> "start", start |-> "ack", ack |-> "sigaction", sigaction |-> "boot"]
SpawnStep == DOMAIN AfterSpawnStep

(* The constructor after that: the main thread runs to its first block     *)
(* request, the table of helper functions is read, the main thread runs to *)
(* clone(), the worker is created, the main thread runs to the next block. *)
AfterBootStep == [boot |-> "funcs", funcs |-> "hook", hook |-> "clone", last |-> "unlock"]
BootStep == DOMAIN AfterBootStep

Fallible == {"create", "sem", "clone", "first", "version"} \cup SpawnStep \cup BootStep
PC == {"idle", "select", "create", "lock", "clone", "semwait", "unlock", "restore", "restored", "done"}
        \cup SpawnStep \cup BootStep

ASSUME FaultAssumption == Fault \subseteq Fallible
ASSUME NoCallerAssumption == NoCaller \notin Caller
ASSUME ArgumentsAssumption == Arguments \subseteq (Int \X (Seq(Int \cup {Bad}) \cup {Unset})
                                                       \X (Int \cup {Bad, Unset}))

Goto(c, label) == pc' = [pc EXCEPT ![c] = label]
Fails(c, label) ==
  /\ label \in Fault
  /\ failed' = [failed EXCEPT ![c] = @ \cup {label}]

(* A VEOException: the destructors run, then veo_proc__create returns NULL. *)
Throw(c, label) ==
  /\ result' = [result EXCEPT ![c] = "NULL"]
  /\ Goto(c, label)

Free(c) == handle' = [handle EXCEPT ![c] = "freed"]

-----------------------------------------------------------------------------
Init ==
  /\ spawn_mtx = NoCaller
  /\ proc_no = 0
  /\ globals = NoCaller
  /\ sigcont = FALSE
  /\ pc = [c \in Caller |-> "idle"]
  /\ args = [c \in Caller |-> NoArguments]
  /\ node = [c \in Caller |-> NoNode]
  /\ mask = [c \in Caller |-> "own"]
  /\ g_handle = [c \in Caller |-> FALSE]
  /\ handle = [c \in Caller |-> "none"]
  /\ file = [c \in Caller |-> FALSE]
  /\ ve = [c \in Caller |-> "none"]
  /\ Worker!Init
  /\ result = [c \in Caller |-> "none"]
  /\ aborted = FALSE
  /\ failed = [c \in Caller |-> {}]

(* veo_proc_create, with what it reads. *)
Create(c, a) ==
  /\ pc[c] = "idle"
  /\ args' = [args EXCEPT ![c] = a]
  /\ Goto(c, "select")
  /\ UNCHANGED <<shared, node, mask, g_handle, handle, file, ve, worker, result, failed>>

(* veo_proc_create_static: a node is chosen, or NULL is returned; then the *)
(* constructor, whose object finally_ blocks all signals.                  *)
Select(c) ==
  /\ pc[c] = "select"
  /\ node' = [node EXCEPT ![c] = SelectNode(args[c][1], args[c][2], args[c][3])]
  /\ args' = [args EXCEPT ![c] = NoArguments]
  /\ IF node'[c] = NoNode
     THEN /\ Throw(c, "done")
          /\ failed' = [failed EXCEPT ![c] = {"node"}]
          /\ UNCHANGED mask
     ELSE /\ Goto(c, "create")
          /\ mask' = [mask EXCEPT ![c] = "blocked"]
          /\ UNCHANGED <<result, failed>>
  /\ UNCHANGED <<shared, g_handle, handle, file, ve, worker>>

(* veos_handle_create, and the main thread's context. *)
CreateHandle(c) ==
  /\ pc[c] = "create"
  /\ \/ /\ handle' = [handle EXCEPT ![c] = "open"]
        /\ g_handle' = [g_handle EXCEPT ![c] = TRUE]
        /\ Goto(c, "lock")
        /\ UNCHANGED <<result, failed>>
     \/ /\ Fails(c, "create")
        /\ Throw(c, "restore")
        /\ UNCHANGED <<handle, g_handle>>
  /\ UNCHANGED <<shared, input, mask, file, ve, worker>>

(* Mutant of Lock: proc_no is not looked at. *)
LockUnchecked(c) ==
  /\ pc[c] = "lock"
  /\ spawn_mtx = NoCaller
  /\ spawn_mtx' = c
  /\ Goto(c, "ptrace")
  /\ UNCHANGED <<input, proc_no, globals, sigcont, aborted, result, handle, mask, g_handle, file, ve,
                 worker, failed>>

(* Mutant of Lock: proc_no is increased before spawn_helper. *)
LockCounts(c) ==
  /\ pc[c] = "lock"
  /\ spawn_mtx = NoCaller
  /\ spawn_mtx' = c
  /\ proc_no' = 1
  /\ IF proc_no # 0 THEN Free(c) /\ Throw(c, "unlock")
     ELSE Goto(c, "ptrace") /\ UNCHANGED <<handle, result>>
  /\ UNCHANGED <<input, globals, sigcont, aborted, mask, g_handle, file, ve, worker, failed>>

(* The lock_guard of spawn_mtx and the test of proc_no. *)
Lock(c) ==
  /\ pc[c] = "lock"
  /\ spawn_mtx = NoCaller
  /\ spawn_mtx' = c
  /\ IF proc_no # 0 THEN Free(c) /\ Throw(c, "unlock")
     ELSE Goto(c, "ptrace") /\ UNCHANGED <<handle, result>>
  /\ UNCHANGED <<input, proc_no, globals, sigcont, aborted, mask, g_handle, file, ve, worker, failed>>

(* spawn_helper has returned zero: ++proc_no. *)
Count(c) == IF pc[c] = "sigaction" THEN proc_no + 1 ELSE proc_no

(* A call of spawn_helper succeeds. *)
Spawn(c) ==
  /\ pc[c] \in SpawnStep
  /\ Goto(c, AfterSpawnStep[pc[c]])
  /\ globals' = IF pc[c] \in {"ptrace", "rwlock", "vemva"} THEN c ELSE globals
  /\ file' = [file EXCEPT ![c] = pc[c] \in {"mkstemp", "shm", "new_proc"}]
  /\ ve' = [ve EXCEPT ![c] = CASE pc[c] = "load_req" -> "created"
                                [] pc[c] = "start" -> "started"
                                [] OTHER -> @]
  /\ sigcont' = (sigcont \/ pc[c] = "sigaction")
  /\ proc_no' = Count(c)
  /\ UNCHANGED <<input, spawn_mtx, aborted, mask, g_handle, handle, worker, result, failed>>

(* Mutant of ClosesFile: the error path of VEOS's answer is forgotten. *)
ClosesFileOnce == {"new_proc"}

(* The failures after which close_syscall_args_file is called,             *)
(* process_thread_cleanup is called, and spawn_helper throws, so that the  *)
(* constructor does not get to veos_handle_free.                           *)
ClosesFile == {"new_proc", "load_req"}
CleansUp == {"load", "stack", "sigaction"}
Throws == {"ptrace", "mkstemp", "shm"}

(* A call of spawn_helper fails; init_rwlock_to_sync_dma_fork aborts. *)
SpawnFails(c) ==
  /\ pc[c] \in SpawnStep
  /\ Fails(c, pc[c])
  /\ aborted' = (pc[c] = "rwlock")
  /\ file' = [file EXCEPT ![c] = @ /\ pc[c] \notin ClosesFile]
  /\ ve' = [ve EXCEPT ![c] = IF pc[c] \in CleansUp THEN "none" ELSE @]
  /\ IF pc[c] \in Throws THEN UNCHANGED handle ELSE Free(c)
  /\ Throw(c, "unlock")
  /\ UNCHANGED <<input, spawn_mtx, proc_no, globals, sigcont, mask, g_handle, worker>>

-----------------------------------------------------------------------------
(* waitForBlock, ve_recv_data or the hooked exception handler succeeds.    *)
Boot(c) ==
  /\ pc[c] \in BootStep
  /\ Goto(c, AfterBootStep[pc[c]])
  /\ result' = [result EXCEPT ![c] = IF pc[c] = "last" THEN "handle" ELSE @]
  /\ UNCHANGED <<shared, input, mask, g_handle, handle, file, ve, worker, failed>>

(* It fails: a VEOException, or for a veorun older than version 2 an       *)
(* assertion.                                                              *)
BootFails(c) ==
  /\ pc[c] \in BootStep
  /\ \/ Fails(c, pc[c]) /\ UNCHANGED aborted
     \/ pc[c] = "funcs" /\ Fails(c, "version") /\ aborted' = TRUE
  /\ Throw(c, "unlock")
  /\ UNCHANGED <<input, spawn_mtx, proc_no, globals, sigcont, mask, g_handle, handle, file, ve, worker>>

(* worker->handleCloneRequest: the child is started; or ve__do_clone       *)
(* fails, which is logged; or sem_init fails.                              *)
CloneWorker(c) ==
  /\ pc[c] = "clone"
  /\ \/ Worker!Clone(c) /\ Goto(c, "semwait") /\ UNCHANGED <<result, failed>>
     \/ Fails(c, "clone") /\ Worker!CloneFails(c) /\ Goto(c, "last") /\ UNCHANGED result
     \/ Fails(c, "sem") /\ Worker!CloneFails(c) /\ Throw(c, "unlock")
  /\ UNCHANGED <<shared, input, mask, g_handle, handle, file, ve>>

(* Mutant of JoinWorker: an interrupted sem_wait is an error. *)
JoinWorkerInterrupted(c) ==
  /\ pc[c] = "semwait"
  /\ \/ Worker!SemWait(c) /\ Goto(c, "last") /\ UNCHANGED result
     \/ Throw(c, "unlock") /\ UNCHANGED worker
  /\ UNCHANGED <<shared, input, mask, g_handle, handle, file, ve, failed>>

JoinWorker(c) ==
  /\ pc[c] = "semwait"
  /\ Worker!SemWait(c)
  /\ Goto(c, "last")
  /\ UNCHANGED <<shared, input, mask, g_handle, handle, file, ve, result, failed>>

-----------------------------------------------------------------------------
(* Mutant of Unlock: spawn_mtx is unlocked where the constructor returns,  *)
(* not where it throws.                                                    *)
UnlockOnReturn(c) ==
  /\ pc[c] = "unlock"
  /\ spawn_mtx' = IF result[c] = "handle" THEN NoCaller ELSE spawn_mtx
  /\ Goto(c, "restore")
  /\ UNCHANGED <<input, proc_no, globals, sigcont, aborted, mask, g_handle, handle, file, ve, worker,
                 result, failed>>

(* The constructor returns or throws: the lock_guard, *)
Unlock(c) ==
  /\ pc[c] = "unlock"
  /\ spawn_mtx' = NoCaller
  /\ Goto(c, "restore")
  /\ UNCHANGED <<input, proc_no, globals, sigcont, aborted, mask, g_handle, handle, file, ve, worker,
                 result, failed>>

(* Mutant of RestoreMask: only a constructor that returns restores it. *)
RestoreMaskOnReturn(c) ==
  /\ pc[c] = "restore"
  /\ mask' = [mask EXCEPT ![c] = IF result[c] = "handle" THEN "own" ELSE @]
  /\ Goto(c, "restored")
  /\ UNCHANGED <<shared, input, g_handle, handle, file, ve, worker, result, failed>>

(* finally_ restores the signal mask ... *)
RestoreMask(c) ==
  /\ pc[c] = "restore"
  /\ mask' = [mask EXCEPT ![c] = "own"]
  /\ Goto(c, "restored")
  /\ UNCHANGED <<shared, input, g_handle, handle, file, ve, worker, result, failed>>

(* Mutant of ClearHandle: g_handle stays. *)
ClearHandleNot(c) ==
  /\ pc[c] = "restored"
  /\ IF result[c] = "NULL" THEN Worker!Delete(c) ELSE UNCHANGED worker
  /\ Goto(c, "done")
  /\ UNCHANGED <<shared, input, g_handle, mask, handle, file, ve, result, failed>>

(* ... and clears g_handle.  When the constructor has thrown, the worker   *)
(* is deleted with the members of the ProcHandle.                          *)
ClearHandle(c) ==
  /\ pc[c] = "restored"
  /\ g_handle' = [g_handle EXCEPT ![c] = FALSE]
  /\ IF result[c] = "NULL" THEN Worker!Delete(c) ELSE UNCHANGED worker
  /\ Goto(c, "done")
  /\ UNCHANGED <<shared, input, mask, handle, file, ve, result, failed>>

-----------------------------------------------------------------------------
(* The worker's pseudo thread. *)
WorkerStarts(c) ==
  /\ \/ Worker!StartEventLoop(c) \/ Worker!SemPost(c) \/ Worker!FirstBlock(c)
     \/ "first" \in Fault /\ Worker!FirstException(c)
  /\ UNCHANGED <<shared, input, pc, mask, g_handle, handle, file, ve, result, failed>>

CallerStep(c) ==
  \/ Select(c) \/ CreateHandle(c) \/ Lock(c) \/ Spawn(c) \/ SpawnFails(c)
  \/ Boot(c) \/ BootFails(c) \/ CloneWorker(c) \/ JoinWorker(c)
  \/ Unlock(c) \/ RestoreMask(c) \/ ClearHandle(c)

Next ==
  /\ ~aborted
  /\ \E c \in Caller : (\E a \in Arguments : Create(c, a)) \/ CallerStep(c) \/ WorkerStarts(c)

Spec == Init /\ [][Next]_vars

(* A thread inside veo_proc_create and the worker's pseudo thread run on,  *)
(* VEOS answers and the VE main thread gets to its block requests.         *)
Fairness ==
  \A c \in Caller : WF_vars(~aborted /\ CallerStep(c)) /\ WF_vars(~aborted /\ WorkerStarts(c))

FairSpec == Spec /\ Fairness
-----------------------------------------------------------------------------
(* Every variable has its type. *)
TypeOK ==
  /\ spawn_mtx \in Caller \cup {NoCaller}
  /\ proc_no \in Nat
  /\ globals \in Caller \cup {NoCaller}
  /\ sigcont \in BOOLEAN
  /\ pc \in [Caller -> PC]
  /\ args \in [Caller -> Arguments \cup {NoArguments}]
  /\ node \in [Caller -> Int \cup {NoNode}]
  /\ mask \in [Caller -> {"own", "blocked"}]
  /\ g_handle \in [Caller -> BOOLEAN]
  /\ handle \in [Caller -> {"none", "open", "freed"}]
  /\ file \in [Caller -> BOOLEAN]
  /\ ve \in [Caller -> {"none", "created", "started"}]
  /\ worker \in [Caller -> Worker!Context]
  /\ result \in [Caller -> {"none", "NULL", "handle"}]
  /\ aborted \in BOOLEAN
  /\ failed \in [Caller -> SUBSET (Fallible \cup {"node"})]

(* The call has got its process, whether it returns it or not. *)
Spawned(c) ==
  pc[c] \in BootStep \cup {"clone", "semwait"} \/ result[c] = "handle"
    \/ failed[c] \cap (BootStep \cup {"sem", "version"}) # {}

(* However many calls are made at a time, spawn_mtx and proc_no let one of *)
(* them have its process, and a process handle is returned for one at most. *)
OneProcess == \A c, d \in Caller : Spawned(c) /\ Spawned(d) => c = d

(* libvepseudo's data of the VH process (global_tid_info[0], tid_counter,  *)
(* the ptrace area, the VEMVA list) are those of the VE process that was   *)
(* created: no later or concurrent call of veo_proc_create writes them.    *)
GlobalsKept == \A c \in Caller : Spawned(c) => globals = c

(* A call to which nothing has happened returns NULL only because another  *)
(* call got its process: one that fails before that does not stand in the  *)
(* way of the others.                                                      *)
NullJustified ==
  \A c \in Caller :
    result[c] = "NULL" /\ failed[c] = {} => \E d \in Caller \ {c} : Spawned(d)

(* On every path out of the constructor the thread gets its signal mask    *)
(* back and keeps no VEOS handle, and spawn_mtx is unlocked.               *)
ThreadRestored ==
  \A c \in Caller :
    pc[c] \in {"idle", "done"} => mask[c] = "own" /\ ~g_handle[c] /\ spawn_mtx # c

(* The signals of the thread are not blocked: before and after, and inside *)
(* vedl_wait_exception, around which handleSingleException restores the    *)
(* mask.                                                                   *)
Interruptible(c) == mask[c] = "own" \/ pc[c] \in {"boot", "hook", "last"}

(* veo_sigcont_handler runs in the thread and goes on to libvepseudo's     *)
(* handler, which uses g_handle; without one it sends the signal again.    *)
TakesSignal(c) == sigcont /\ Interruptible(c) /\ g_handle[c]

(* A thread that takes SIGCONT while or after it creates a process has a   *)
(* VEOS handle that exists.  The exception is the moment between the two   *)
(* statements of finally_'s destructor: the mask is restored first, and    *)
(* g_handle may point to a handle that was freed.                          *)
SignalHandleLive ==
  \A c \in Caller : TakesSignal(c) /\ pc[c] # "restored" => handle[c] = "open"

(* A call that returns NULL leaves nothing behind, except after the        *)
(* failures named here: the VEOS handle when spawn_helper throws or the VE *)
(* process exists already, the temporary file when it cannot be mapped,    *)
(* and a process of VEOS that spawn_helper gives up without cleaning up.   *)
NothingLeft ==
  \A c \in Caller :
    pc[c] = "done" /\ result[c] = "NULL" =>
      /\ handle[c] = "open" => failed[c] \cap {"ptrace", "mkstemp", "shm"} # {} \/ Spawned(c)
      /\ file[c] => "shm" \in failed[c]
      /\ ve[c] # "none" => failed[c] \cap {"vemva", "start", "ack"} # {} \/ Spawned(c)

(* The worker of a process handle that was returned has its own VEOS       *)
(* handle and a known state, unless its creation failed (the constructor   *)
(* goes on all the same).                                                  *)
WorkerReady ==
  \A c \in Caller : result[c] = "handle" => Worker!Ready(c) \/ "clone" \in failed[c]

(* The worker's pseudo thread uses the stack of the constructor only while *)
(* the constructor waits for it.                                           *)
SemaphoreAlive == \A c \in Caller : Worker!FrameAlive(c)

(* The worker is not deleted under its pseudo thread, except when the main *)
(* thread fails in the last waitForBlock.                                  *)
WorkerOutlives ==
  \A c \in Caller :
    worker[c].object = "deleted" /\ Worker!Alive(c) => "last" \in failed[c]

(* The choice of the node.  Under the job scheduler a process is created   *)
(* only on an assigned node, venode numbers the assigned nodes, and a call *)
(* with -1 gets the first one when VE_NODE_NUMBER is not set.  Which one   *)
(* it gets when VE_NODE_NUMBER is set is the subject of FirstNodeUsed.     *)
NodeAssigned ==
  [][\A c \in Caller :
       pc[c] = "select" /\ pc'[c] # "select" =>
         LET venode == args[c][1]
             list == args[c][2]
             number == args[c][3]
         IN  \/ node'[c] = NoNode /\ pc'[c] = "done"
             \/ list = Unset /\ node'[c] = IF venode >= 0 THEN venode
                                           ELSE IF number # Unset THEN number ELSE 0
             \/ /\ list # Unset
                /\ \E i \in 1..Len(list) :
                     /\ list[i] = node'[c]
                     /\ venode >= 0 => i = venode + 1
                     /\ venode = -1 /\ number = Unset => i = 1]_vars

(* What the comment of veo_proc_create_static says of the job scheduler,   *)
(* whatever VE_NODE_NUMBER is: "If venode is -1, the first VE node of the  *)
(* VE nodes assigned by the job scheduler is used." (api.cpp:147).  It is  *)
(* violated: VE_NODE_NUMBER, if it is an assigned node, comes first.       *)
FirstNodeUsed ==
  [][\A c \in Caller :
       LET venode == args[c][1]
           list == args[c][2]
       IN  pc[c] = "select" /\ venode = -1 /\ list # Unset /\ node'[c] # NoNode =>
             node'[c] = Head(list)]_vars

(* Every call of veo_proc_create returns, whatever fails: no path leaves   *)
(* spawn_mtx locked or waits for a semaphore that nobody posts.            *)
CreateReturns == \A c \in Caller : pc[c] # "idle" ~> pc[c] = "done" \/ aborted
=============================================================================
