-------------------------- MODULE ProcCreateProofs --------------------------
(***************************************************************************)
(* Proofs about ProcCreate, for any number of calls of veo_proc_create,    *)
(* any arguments and any combination of failing calls: its type invariant, *)
(* that one process is created at most and keeps libvepseudo's data, that  *)
(* a refusal has a reason, that a thread gets its signal mask back, what   *)
(* is left behind by a failure, and the life time of the worker.           *)
(***************************************************************************)
EXTENDS ProcCreate, SequenceTheorems, TLAPS

(* The call holds spawn_mtx. *)
Critical == SpawnStep \cup BootStep \cup {"clone", "semwait", "unlock"}

(* The call has a VEOS handle and no result yet. *)
Working == {"lock", "clone", "semwait"} \cup SpawnStep \cup BootStep

(* What is true of a call by itself: of its thread, *)
ThreadInv(c) ==
  /\ pc[c] = "select" => args[c] \in Arguments
  /\ pc[c] \in {"idle", "select", "create"} => handle[c] = "none" /\ ~g_handle[c]
  /\ pc[c] \in {"idle", "select", "restored", "done"} <=> mask[c] = "own"
  /\ pc[c] = "done" => ~g_handle[c]
  /\ pc[c] \in Working => handle[c] = "open"
  /\ pc[c] \in Working \cup {"idle", "select", "create"} => result[c] = "none"
  /\ pc[c] \in SpawnStep \cup {"idle", "select", "create", "lock"} => failed[c] = {}

(* of what it has acquired from VEOS and the file system, *)
LeftInv(c) ==
  /\ handle[c] = "open" =>
       pc[c] \in {"lock"} \cup SpawnStep \/ failed[c] \cap Throws # {} \/ Spawned(c)
  /\ file[c] => pc[c] \in {"shm", "new_proc", "load_req"} \/ "shm" \in failed[c]
  /\ ve[c] # "none" =>
       \/ pc[c] \in {"vemva", "load", "stack", "start", "ack", "sigaction"}
       \/ failed[c] \cap {"vemva", "start", "ack"} # {}
       \/ Spawned(c)

(* and of its worker. *)
WorkerInv(c) ==
  LET w == worker[c] IN
  /\ w.child \in {"init", "post"} => w.sem = "zero"
  /\ w.sem = "posted" => w.child \in {"ve", "loop", "dead"}
  /\ w.child \in {"post", "ve", "loop", "dead"} => w.own /\ w.state # "UNKNOWN"
  /\ pc[c] = "semwait" => w.object = "live" /\ w.child # "none"
  /\ pc[c] = "last" \/ result[c] = "handle" => Worker!Ready(c) \/ "clone" \in failed[c]
  /\ Worker!Alive(c) =>
       pc[c] \in {"semwait", "last"} \/ result[c] = "handle" \/ "last" \in failed[c]
  /\ w.object = "deleted" => pc[c] = "done" /\ result[c] = "NULL"

(* What is true of the calls together: spawn_mtx has one owner; proc_no    *)
(* counts the processes; spawn_helper runs only before there is one.       *)
SharedInv ==
  /\ \A c \in Caller : pc[c] \in Critical <=> spawn_mtx = c
  /\ proc_no # 0 <=> \E c \in Caller : Spawned(c)
  /\ \A c \in Caller : pc[c] \in SpawnStep => proc_no = 0
  /\ \A c \in Caller : pc[c] \in SpawnStep \ {"ptrace"} => globals = c

(* The inductive invariant. *)
Inv ==
  /\ TypeOK
  /\ \A c \in Caller : ThreadInv(c) /\ LeftInv(c) /\ WorkerInv(c)
  /\ SharedInv /\ OneProcess /\ GlobalsKept /\ NullJustified

-----------------------------------------------------------------------------
(* The calls of spawn_helper and where each of them leads. *)
LEMMA SpawnSteps ==
  /\ SpawnStep = {"ptrace", "rwlock", "mkstemp", "shm", "new_proc", "load_req", "vemva", "load",
                  "stack", "start", "ack", "sigaction"}
  /\ AfterSpawnStep["ptrace"] = "rwlock" /\ AfterSpawnStep["rwlock"] = "mkstemp"
  /\ AfterSpawnStep["mkstemp"] = "shm" /\ AfterSpawnStep["shm"] = "new_proc"
  /\ AfterSpawnStep["new_proc"] = "load_req" /\ AfterSpawnStep["load_req"] = "vemva"
  /\ AfterSpawnStep["vemva"] = "load" /\ AfterSpawnStep["load"] = "stack"
  /\ AfterSpawnStep["stack"] = "start" /\ AfterSpawnStep["start"] = "ack"
  /\ AfterSpawnStep["ack"] = "sigaction" /\ AfterSpawnStep["sigaction"] = "boot"
  BY DEF SpawnStep, AfterSpawnStep

(* The steps of the constructor after that. *)
LEMMA BootSteps ==
  /\ BootStep = {"boot", "funcs", "hook", "last"}
  /\ AfterBootStep["boot"] = "funcs" /\ AfterBootStep["funcs"] = "hook"
  /\ AfterBootStep["hook"] = "clone" /\ AfterBootStep["last"] = "unlock"
  BY DEF BootStep, AfterBootStep

(* The phases of a call, as sets of labels. *)
LEMMA Phases ==
  /\ Critical = {"ptrace", "rwlock", "mkstemp", "shm", "new_proc", "load_req", "vemva", "load",
                 "stack", "start", "ack", "sigaction", "boot", "funcs", "hook", "last",
                 "clone", "semwait", "unlock"}
  /\ Working = (Critical \ {"unlock"}) \cup {"lock"}
  /\ PC = Critical \cup {"idle", "select", "create", "lock", "restore", "restored", "done"}
  /\ \A x \in SpawnStep : AfterSpawnStep[x] \in (SpawnStep \ {"ptrace"}) \cup {"boot"}
  /\ \A x \in SpawnStep : AfterSpawnStep[x] = "boot" <=> x = "sigaction"
  /\ \A x \in BootStep : AfterBootStep[x] \in {"funcs", "hook", "clone", "unlock"}
  /\ SpawnStep \subseteq Critical /\ BootStep \subseteq Critical
  /\ SpawnStep \subseteq Fallible /\ BootStep \subseteq Fallible
  /\ SpawnStep \cap (BootStep \cup {"clone", "semwait", "sem", "version", "create", "unlock", "lock"}) = {}
  BY SpawnSteps, BootSteps DEF Critical, Working, PC, Fallible

(* A node is chosen or none is. *)
LEMMA SelectType ==
  ASSUME NEW a \in Arguments
  PROVE  SelectNode(a[1], a[2], a[3]) \in Int \cup {NoNode}
<1> DEFINE venode == a[1]
           list == a[2]
           number == a[3]
<1>1. /\ venode \in Int
      /\ list = Unset \/ list \in Seq(Int \cup {Bad})
      /\ number \in Int \cup {Bad, Unset}
  BY ArgumentsAssumption
<1> HIDE DEF venode, list, number
<1>2. ASSUME list # Unset
      PROVE  Len(list) \in Nat /\ \A i \in 1..Len(list) : list[i] \in Int \cup {Bad}
  BY <1>1, <1>2, LenProperties, ElementOfSeq
<1>3. Default(list, number) \in Int \cup {Bad}
  BY <1>1, <1>2 DEF Default
<1>4. venode >= 0 /\ list # Unset => Translate(venode, list) \in Int \cup {Bad}
  BY <1>1, <1>2 DEF Translate
<1>5. SelectNode(venode, list, number) \in Int \cup {NoNode}
  BY <1>1, <1>3, <1>4 DEF SelectNode
<1> QED
  BY <1>5 DEF venode, list, number

-----------------------------------------------------------------------------
(* The handshake keeps the type of the worker. *)
LEMMA WorkerType ==
  ASSUME TypeOK, NEW c \in Caller,
         \/ Worker!Clone(c) \/ Worker!CloneFails(c) \/ Worker!SemWait(c) \/ Worker!Delete(c)
         \/ Worker!StartEventLoop(c) \/ Worker!SemPost(c) \/ Worker!FirstBlock(c)
         \/ Worker!FirstException(c)
  PROVE  /\ worker' \in [Caller -> Worker!Context]
         /\ \A d \in Caller : d # c => worker'[d] = worker[d]
<1>1. worker \in [Caller -> Worker!Context] /\ worker[c] \in Worker!Context
  BY DEF TypeOK
<1>2. CASE Worker!Clone(c)
  BY <1>1, <1>2 DEF Worker!Clone, Worker!Context
<1>3. CASE Worker!CloneFails(c)
  BY <1>1, <1>3 DEF Worker!CloneFails, Worker!Context, Worker!NoContext
<1>4. CASE Worker!SemWait(c) \/ Worker!Delete(c)
  BY <1>1, <1>4 DEF Worker!SemWait, Worker!Delete, Worker!Context
<1>5. CASE Worker!StartEventLoop(c) \/ Worker!SemPost(c)
  BY <1>1, <1>5 DEF Worker!StartEventLoop, Worker!SemPost, Worker!Context
<1>6. CASE Worker!FirstBlock(c) \/ Worker!FirstException(c)
  BY <1>1, <1>6 DEF Worker!FirstBlock, Worker!FirstException, Worker!Context
<1> QED
  BY <1>2, <1>3, <1>4, <1>5, <1>6

(* A step of one call keeps the types and leaves the other calls alone. *)
Others(c) ==
  \A d \in Caller : d # c =>
    /\ pc'[d] = pc[d] /\ args'[d] = args[d] /\ mask'[d] = mask[d]
    /\ g_handle'[d] = g_handle[d] /\ handle'[d] = handle[d] /\ file'[d] = file[d] /\ ve'[d] = ve[d]
    /\ worker'[d] = worker[d] /\ result'[d] = result[d] /\ failed'[d] = failed[d]

LEMMA BeginType ==
  ASSUME TypeOK, NEW c \in Caller, ThreadInv(c),
         (\E a \in Arguments : Create(c, a)) \/ Select(c) \/ CreateHandle(c) \/ Lock(c)
  PROVE  TypeOK' /\ Others(c)
<1> USE DEF Goto, shared, input, Others
<1>1. ASSUME NEW a \in Arguments, Create(c, a) PROVE TypeOK' /\ Others(c)
  BY <1>1 DEF Create, TypeOK, PC
<1>2. CASE Select(c)
  <2>1. args[c] \in Arguments
    BY <1>2 DEF Select, ThreadInv
  <2>2. /\ node' = [node EXCEPT ![c] = SelectNode(args[c][1], args[c][2], args[c][3])]
        /\ SelectNode(args[c][1], args[c][2], args[c][3]) \in Int \cup {NoNode}
    BY <1>2, <2>1, SelectType DEF Select
  <2>3. node' \in [Caller -> Int \cup {NoNode}]
    BY <2>2 DEF TypeOK
  <2>4. CASE node'[c] = NoNode
    BY <1>2, <2>3, <2>4 DEF Select, Throw, TypeOK, PC
  <2>5. CASE node'[c] # NoNode
    BY <1>2, <2>3, <2>5 DEF Select, Throw, TypeOK, PC
  <2> QED
    BY <2>4, <2>5
<1>3. CASE CreateHandle(c)
  <2>1. "create" \in Fallible /\ "lock" \in PC /\ "restore" \in PC
    BY DEF Fallible, PC
  <2>2. /\ handle' \in [Caller -> {"none", "open", "freed"}]
        /\ g_handle' \in [Caller -> BOOLEAN]
        /\ result' \in [Caller -> {"none", "NULL", "handle"}]
    BY <1>3 DEF CreateHandle, Throw, TypeOK
  <2>3. pc' \in [Caller -> PC]
    BY <1>3, <2>1 DEF CreateHandle, Throw, TypeOK
  <2>4. failed' \in [Caller -> SUBSET (Fallible \cup {"node"})]
    BY <1>3, <2>1 DEF CreateHandle, Fails, TypeOK
  <2>5. TypeOK'
    BY <1>3, <2>2, <2>3, <2>4 DEF CreateHandle, TypeOK
  <2>6. Others(c)
    BY <1>3 DEF CreateHandle, Fails, Throw, TypeOK
  <2> QED
    BY <2>5, <2>6
<1>4. CASE Lock(c)
  BY <1>4, Phases DEF Lock, Free, Throw, TypeOK
<1> QED
  BY <1>1, <1>2, <1>3, <1>4

LEMMA SpawnType ==
  ASSUME TypeOK, NEW c \in Caller, Spawn(c) \/ SpawnFails(c)
  PROVE  TypeOK' /\ Others(c)
<1> USE DEF Goto, input, Others
<1>1. pc[c] \in SpawnStep /\ pc[c] \in Fallible /\ AfterSpawnStep[pc[c]] \in PC /\ "unlock" \in PC
  <2>1. pc[c] \in SpawnStep
    BY DEF Spawn, SpawnFails
  <2> QED
    BY <2>1, Phases
<1>2. CASE Spawn(c)
  <2>1. proc_no' \in Nat /\ globals' \in Caller \cup {NoCaller} /\ sigcont' \in BOOLEAN
    BY <1>2 DEF Spawn, Count, TypeOK
  <2>2. /\ pc' \in [Caller -> PC] /\ file' \in [Caller -> BOOLEAN]
        /\ ve' \in [Caller -> {"none", "created", "started"}]
    BY <1>1, <1>2 DEF Spawn, TypeOK
  <2>3. TypeOK'
    BY <1>2, <2>1, <2>2 DEF Spawn, TypeOK
  <2>4. Others(c)
    BY <1>2 DEF Spawn, TypeOK
  <2> QED
    BY <2>3, <2>4
<1>3. CASE SpawnFails(c)
  <2>1. /\ pc' \in [Caller -> PC] /\ file' \in [Caller -> BOOLEAN]
        /\ ve' \in [Caller -> {"none", "created", "started"}]
        /\ result' \in [Caller -> {"none", "NULL", "handle"}]
    BY <1>1, <1>3 DEF SpawnFails, Throw, TypeOK
  <2>2. handle' \in [Caller -> {"none", "open", "freed"}] /\ aborted' \in BOOLEAN
    BY <1>3 DEF SpawnFails, Free, TypeOK
  <2>3. failed' \in [Caller -> SUBSET (Fallible \cup {"node"})]
    BY <1>1, <1>3 DEF SpawnFails, Fails, TypeOK
  <2>4. TypeOK'
    BY <1>3, <2>1, <2>2, <2>3 DEF SpawnFails, TypeOK
  <2>5. Others(c)
    BY <1>3 DEF SpawnFails, Fails, Throw, Free, TypeOK
  <2> QED
    BY <2>4, <2>5
<1> QED
  BY <1>2, <1>3

LEMMA BootType ==
  ASSUME TypeOK, NEW c \in Caller,
         Boot(c) \/ BootFails(c) \/ CloneWorker(c) \/ JoinWorker(c) \/ WorkerStarts(c)
  PROVE  TypeOK' /\ Others(c)
<1> USE DEF Goto, shared, input, Others
<1>1. /\ "unlock" \in PC /\ "semwait" \in PC /\ "last" \in PC
      /\ \A x \in BootStep : x \in Fallible /\ AfterBootStep[x] \in PC
      /\ {"version", "clone", "sem"} \subseteq Fallible
  BY Phases, BootSteps DEF Fallible
<1>2. CASE Boot(c)
  BY <1>1, <1>2 DEF Boot, TypeOK
<1>3. CASE BootFails(c)
  <2>1. failed' \in [Caller -> SUBSET (Fallible \cup {"node"})] /\ aborted' \in BOOLEAN
    <3>1. pc[c] \in Fallible /\ "version" \in Fallible
      BY <1>1, <1>3 DEF BootFails
    <3>2. \E l \in Fallible : failed' = [failed EXCEPT ![c] = @ \cup {l}]
      BY <1>3, <3>1 DEF BootFails, Fails
    <3>3. aborted' \in BOOLEAN
      BY <1>3 DEF BootFails, TypeOK
    <3> QED
      BY <3>2, <3>3 DEF TypeOK
  <2>2. TypeOK'
    BY <1>1, <1>3, <2>1 DEF BootFails, Throw, TypeOK
  <2>3. Others(c)
    BY <1>3 DEF BootFails, Fails, Throw, TypeOK
  <2> QED
    BY <2>2, <2>3
<1>4. CASE CloneWorker(c)
  <2>1. /\ worker' \in [Caller -> Worker!Context]
        /\ \A d \in Caller : d # c => worker'[d] = worker[d]
    BY <1>4, WorkerType DEF CloneWorker
  <2>2. failed' \in [Caller -> SUBSET (Fallible \cup {"node"})]
    BY <1>1, <1>4 DEF CloneWorker, Fails, TypeOK
  <2>3. pc' \in [Caller -> PC] /\ result' \in [Caller -> {"none", "NULL", "handle"}]
    BY <1>1, <1>4 DEF CloneWorker, Throw, TypeOK
  <2>4. TypeOK'
    BY <1>4, <2>1, <2>2, <2>3 DEF CloneWorker, TypeOK
  <2>5. Others(c)
    BY <1>4, <2>1 DEF CloneWorker, Fails, Throw, TypeOK
  <2> QED
    BY <2>4, <2>5
<1>5. CASE JoinWorker(c)
  <2>1. /\ worker' \in [Caller -> Worker!Context]
        /\ \A d \in Caller : d # c => worker'[d] = worker[d]
    BY <1>5, WorkerType DEF JoinWorker
  <2> QED
    BY <1>1, <1>5, <2>1 DEF JoinWorker, TypeOK
<1>6. CASE WorkerStarts(c)
  <2>1. /\ worker' \in [Caller -> Worker!Context]
        /\ \A d \in Caller : d # c => worker'[d] = worker[d]
    BY <1>6, WorkerType DEF WorkerStarts
  <2> QED
    BY <1>6, <2>1 DEF WorkerStarts, TypeOK
<1> QED
  BY <1>2, <1>3, <1>4, <1>5, <1>6

LEMMA EndType ==
  ASSUME TypeOK, NEW c \in Caller, Unlock(c) \/ RestoreMask(c) \/ ClearHandle(c)
  PROVE  TypeOK' /\ Others(c)
<1> USE DEF Goto, shared, input, Others
<1>1. {"restore", "restored", "done"} \subseteq PC
  BY DEF PC
<1>2. CASE Unlock(c)
  BY <1>1, <1>2 DEF Unlock, TypeOK
<1>3. CASE RestoreMask(c)
  BY <1>1, <1>3 DEF RestoreMask, TypeOK
<1>4. CASE ClearHandle(c)
  <2>1. /\ worker' \in [Caller -> Worker!Context]
        /\ \A d \in Caller : d # c => worker'[d] = worker[d]
    BY <1>4, WorkerType DEF ClearHandle, TypeOK
  <2> QED
    BY <1>1, <1>4, <2>1 DEF ClearHandle, TypeOK
<1> QED
  BY <1>2, <1>3, <1>4

-----------------------------------------------------------------------------
(* What is true of one call by itself. *)
LocalInv(c) == ThreadInv(c) /\ LeftInv(c) /\ WorkerInv(c)

(* Another call's step does not touch it. *)
LEMMA OthersInv ==
  ASSUME NEW c \in Caller, NEW d \in Caller, d # c, Others(c), LocalInv(d)
  PROVE  LocalInv(d)'
<1>1. /\ pc'[d] = pc[d] /\ args'[d] = args[d] /\ mask'[d] = mask[d] /\ g_handle'[d] = g_handle[d]
      /\ handle'[d] = handle[d] /\ file'[d] = file[d] /\ ve'[d] = ve[d]
      /\ worker'[d] = worker[d] /\ result'[d] = result[d] /\ failed'[d] = failed[d]
  BY DEF Others
<1>2. ThreadInv(d)'
  BY <1>1 DEF LocalInv, ThreadInv
<1>3. LeftInv(d)'
  BY <1>1 DEF LocalInv, LeftInv, Spawned
<1>4. WorkerInv(d)'
  BY <1>1 DEF LocalInv, WorkerInv, Worker!Ready, Worker!Alive
<1> QED
  BY <1>2, <1>3, <1>4 DEF LocalInv

(* A step of a call that leaves its worker alone. *)
LEMMA WorkerKept ==
  ASSUME NEW c \in Caller, WorkerInv(c), worker'[c] = worker[c],
         pc[c] # "done", pc'[c] # "semwait",
         pc'[c] = "last" => pc[c] = "last",
         result'[c] = "handle" => result[c] = "handle" \/ pc[c] = "last",
         result[c] = "handle" => result'[c] = "handle",
         failed[c] \subseteq failed'[c],
         pc[c] \in {"semwait", "last"} => \/ pc'[c] = pc[c]
                                         \/ result'[c] = "handle" \/ "last" \in failed'[c]
  PROVE  WorkerInv(c)'
  BY DEF WorkerInv, Worker!Ready, Worker!Alive

LEMMA BeginLocal ==
  ASSUME TypeOK, NEW c \in Caller, LocalInv(c),
         (\E a \in Arguments : Create(c, a)) \/ Select(c) \/ CreateHandle(c) \/ Lock(c)
  PROVE  LocalInv(c)'
<1> USE Phases, SpawnSteps, BootSteps DEF Goto, shared, input
<1>1. ASSUME NEW a \in Arguments, Create(c, a) PROVE LocalInv(c)'
  <2>1. /\ pc[c] = "idle" /\ pc'[c] = "select" /\ args'[c] = a
        /\ UNCHANGED <<mask, g_handle, handle, file, ve, worker, result, failed>>
    BY <1>1 DEF Create, TypeOK
  <2>2. ThreadInv(c)'
    BY <2>1 DEF LocalInv, ThreadInv
  <2>3. LeftInv(c)'
    BY <2>1 DEF LocalInv, LeftInv, Spawned
  <2>4. WorkerInv(c)'
    BY <2>1, WorkerKept DEF LocalInv
  <2> QED
    BY <2>2, <2>3, <2>4 DEF LocalInv
<1>2. CASE Select(c)
  <2>1. /\ pc[c] = "select" /\ pc'[c] \in {"done", "create"}
        /\ pc'[c] = "done" => mask' = mask /\ result'[c] = "NULL" /\ failed'[c] = {"node"}
        /\ pc'[c] = "create" => result' = result /\ failed' = failed /\ mask'[c] = "blocked"
        /\ UNCHANGED <<g_handle, handle, file, ve, worker>>
    BY <1>2 DEF Select, Throw, TypeOK
  <2>2. result[c] = "none" /\ failed[c] = {}
    BY <2>1 DEF LocalInv, ThreadInv
  <2>3. ThreadInv(c)'
    BY <2>1 DEF LocalInv, ThreadInv
  <2>4. LeftInv(c)'
    BY <2>1, <2>2 DEF LocalInv, LeftInv, Spawned
  <2>5. WorkerInv(c)'
    BY <2>1, <2>2, WorkerKept DEF LocalInv
  <2> QED
    BY <2>3, <2>4, <2>5 DEF LocalInv
<1>3. CASE CreateHandle(c)
  <2>1. /\ pc[c] = "create"
        /\ \/ pc'[c] = "lock" /\ handle'[c] = "open" /\ result' = result /\ failed' = failed
           \/ /\ pc'[c] = "restore" /\ handle' = handle /\ g_handle' = g_handle
              /\ result'[c] = "NULL" /\ failed'[c] = failed[c] \cup {"create"}
        /\ UNCHANGED <<mask, file, ve, worker>>
    BY <1>3 DEF CreateHandle, Fails, Throw, TypeOK
  <2>2. result[c] = "none" /\ failed[c] = {}
    BY <2>1 DEF LocalInv, ThreadInv
  <2>3. ThreadInv(c)'
    BY <2>1 DEF LocalInv, ThreadInv
  <2>4. LeftInv(c)'
    BY <2>1, <2>2 DEF LocalInv, LeftInv, ThreadInv, Spawned
  <2>5. WorkerInv(c)'
    BY <2>1, <2>2, WorkerKept DEF LocalInv
  <2> QED
    BY <2>3, <2>4, <2>5 DEF LocalInv
<1>4. CASE Lock(c)
  <2>1. /\ pc[c] = "lock"
        /\ \/ pc'[c] = "unlock" /\ handle'[c] = "freed" /\ result'[c] = "NULL"
           \/ pc'[c] = "ptrace" /\ handle' = handle /\ result' = result
        /\ UNCHANGED <<mask, g_handle, file, ve, worker, failed>>
    BY <1>4 DEF Lock, Free, Throw, TypeOK
  <2>2. result[c] = "none" /\ failed[c] = {}
    BY <2>1 DEF LocalInv, ThreadInv
  <2>3. ThreadInv(c)'
    BY <2>1 DEF LocalInv, ThreadInv
  <2>4. LeftInv(c)'
    BY <2>1, <2>2 DEF LocalInv, LeftInv, Spawned
  <2>5. WorkerInv(c)'
    BY <2>1, <2>2, WorkerKept DEF LocalInv
  <2> QED
    BY <2>3, <2>4, <2>5 DEF LocalInv
<1> QED
  BY <1>1, <1>2, <1>3, <1>4

LEMMA SpawnLocal ==
  ASSUME TypeOK, NEW c \in Caller, LocalInv(c), Spawn(c) \/ SpawnFails(c)
  PROVE  LocalInv(c)'
<1> USE Phases, SpawnSteps, BootSteps DEF Goto, shared, input
<1>1. pc[c] \in SpawnStep /\ result[c] = "none" /\ failed[c] = {} /\ handle[c] = "open"
  BY DEF Spawn, SpawnFails, LocalInv, ThreadInv
<1>2. CASE Spawn(c)
  <2>1. /\ pc'[c] = AfterSpawnStep[pc[c]]
        /\ file'[c] = (pc[c] \in {"mkstemp", "shm", "new_proc"})
        /\ ve'[c] # "none" => ve[c] # "none" \/ pc[c] = "load_req" \/ pc[c] = "start"
        /\ UNCHANGED <<mask, g_handle, handle, worker, result, failed>>
    BY <1>2 DEF Spawn, TypeOK
  <2>2. ThreadInv(c)'
    BY <1>1, <2>1 DEF LocalInv, ThreadInv
  <2>3. LeftInv(c)'
    <3>1. ve[c] # "none" => pc[c] \in {"vemva", "load", "stack", "start", "ack", "sigaction"}
      BY <1>1 DEF LocalInv, LeftInv, Spawned
    <3>2. pc'[c] = "boot" => Spawned(c)'
      BY DEF Spawned
    <3>3. file'[c] => pc'[c] \in {"shm", "new_proc", "load_req"}
      <4>1. file'[c] => pc[c] \in {"mkstemp", "shm", "new_proc"}
        BY <2>1, Zenon
      <4> QED
        BY <2>1, <4>1
    <3>4. ve'[c] # "none" =>
            pc'[c] \in {"vemva", "load", "stack", "start", "ack", "sigaction", "boot"}
      BY <1>1, <2>1, <3>1
    <3>5. pc'[c] \in SpawnStep \cup {"boot"}
      BY <1>1, <2>1
    <3> QED
      BY <3>2, <3>3, <3>4, <3>5 DEF LeftInv
  <2>4. WorkerInv(c)'
    BY <1>1, <2>1, WorkerKept DEF LocalInv
  <2> QED
    BY <2>2, <2>3, <2>4 DEF LocalInv
<1>3. CASE SpawnFails(c)
  <2>1. /\ pc'[c] = "unlock" /\ result'[c] = "NULL" /\ failed'[c] = {pc[c]}
        /\ file'[c] = (file[c] /\ pc[c] \notin ClosesFile)
        /\ ve'[c] = IF pc[c] \in CleansUp THEN "none" ELSE ve[c]
        /\ handle'[c] = IF pc[c] \in Throws THEN handle[c] ELSE "freed"
        /\ UNCHANGED <<mask, g_handle, worker>>
    BY <1>1, <1>3 DEF SpawnFails, Fails, Throw, Free, TypeOK
  <2>2. ThreadInv(c)'
    BY <1>1, <2>1 DEF LocalInv, ThreadInv
  <2>3. ~Spawned(c)
    BY <1>1 DEF Spawned
  <2>4. LeftInv(c)'
    <3>1. /\ file[c] => pc[c] \in {"shm", "new_proc", "load_req"}
          /\ ve[c] # "none" => pc[c] \in {"vemva", "load", "stack", "start", "ack", "sigaction"}
      BY <1>1, <2>3 DEF LocalInv, LeftInv
    <3>2. handle'[c] = "open" => failed'[c] \cap Throws # {}
      BY <2>1
    <3>3. file'[c] => "shm" \in failed'[c]
      BY <2>1, <3>1 DEF ClosesFile
    <3>4. ve'[c] # "none" => failed'[c] \cap {"vemva", "start", "ack"} # {}
      BY ZenonT(30), <2>1, <3>1 DEF CleansUp
    <3> QED
      BY <3>2, <3>3, <3>4 DEF LeftInv
  <2>5. WorkerInv(c)'
    BY <1>1, <2>1, WorkerKept DEF LocalInv
  <2> QED
    BY <2>2, <2>4, <2>5 DEF LocalInv
<1> QED
  BY <1>2, <1>3

LEMMA BootLocal ==
  ASSUME TypeOK, NEW c \in Caller, LocalInv(c), Boot(c) \/ BootFails(c)
  PROVE  LocalInv(c)'
<1> USE Phases, SpawnSteps, BootSteps DEF Goto, shared, input
<1>1. pc[c] \in BootStep /\ result[c] = "none" /\ handle[c] = "open" /\ Spawned(c)
  BY DEF Boot, BootFails, LocalInv, ThreadInv, Spawned
<1>2. CASE Boot(c)
  <2>1. /\ pc'[c] = AfterBootStep[pc[c]]
        /\ result'[c] = IF pc[c] = "last" THEN "handle" ELSE "none"
        /\ UNCHANGED <<mask, g_handle, handle, file, ve, worker, failed>>
    BY <1>1, <1>2 DEF Boot, TypeOK
  <2>2. Spawned(c)'
    BY <1>1, <2>1 DEF Spawned
  <2>3. ThreadInv(c)'
    BY <1>1, <2>1 DEF LocalInv, ThreadInv
  <2>4. LeftInv(c)'
    BY <1>1, <2>1, <2>2 DEF LocalInv, LeftInv
  <2>5. WorkerInv(c)'
    BY <1>1, <2>1, WorkerKept DEF LocalInv
  <2> QED
    BY <2>3, <2>4, <2>5 DEF LocalInv
<1>3. CASE BootFails(c)
  <2>1. /\ pc'[c] = "unlock" /\ result'[c] = "NULL"
        /\ failed'[c] = failed[c] \cup {pc[c]} \/ (pc[c] = "funcs" /\ failed'[c] = failed[c] \cup {"version"})
        /\ UNCHANGED <<mask, g_handle, handle, file, ve, worker>>
    BY <1>1, <1>3 DEF BootFails, Fails, Throw, TypeOK
  <2>2. Spawned(c)' /\ failed[c] \subseteq failed'[c]
    BY <1>1, <2>1 DEF Spawned
  <2>3. ThreadInv(c)'
    BY <1>1, <2>1 DEF LocalInv, ThreadInv
  <2>4. LeftInv(c)'
    BY <1>1, <2>1, <2>2 DEF LocalInv, LeftInv
  <2>5. WorkerInv(c)'
    BY <1>1, <2>1, <2>2, WorkerKept DEF LocalInv
  <2> QED
    BY <2>3, <2>4, <2>5 DEF LocalInv
<1> QED
  BY <1>2, <1>3

LEMMA CloneLocal ==
  ASSUME TypeOK, NEW c \in Caller, LocalInv(c), CloneWorker(c) \/ JoinWorker(c)
  PROVE  LocalInv(c)'
<1> USE Phases, SpawnSteps, BootSteps DEF Goto, shared, input
<1>1. /\ pc[c] \in {"clone", "semwait"} /\ result[c] = "none" /\ handle[c] = "open" /\ Spawned(c)
      /\ worker[c] \in Worker!Context
  BY DEF CloneWorker, JoinWorker, LocalInv, ThreadInv, Spawned, TypeOK
<1>2. CASE CloneWorker(c)
  <2>1. /\ pc[c] = "clone"
        /\ \/ pc'[c] = "semwait" /\ result' = result /\ failed' = failed /\ Worker!Clone(c)
           \/ /\ pc'[c] = "last" /\ result' = result /\ failed'[c] = failed[c] \cup {"clone"}
              /\ Worker!CloneFails(c)
           \/ /\ pc'[c] = "unlock" /\ result'[c] = "NULL" /\ failed'[c] = failed[c] \cup {"sem"}
              /\ Worker!CloneFails(c)
        /\ UNCHANGED <<mask, g_handle, handle, file, ve>>
    BY <1>2 DEF CloneWorker, Fails, Throw, TypeOK
  <2>2. Spawned(c)' /\ failed[c] \subseteq failed'[c]
    BY <1>1, <2>1 DEF Spawned
  <2>3. ThreadInv(c)'
    BY <1>1, <2>1 DEF LocalInv, ThreadInv
  <2>4. LeftInv(c)'
    BY <1>1, <2>1, <2>2 DEF LocalInv, LeftInv
  <2>5. CASE Worker!Clone(c) /\ pc'[c] = "semwait" /\ result' = result
    <3>1. worker'[c] = [object |-> "live", own |-> FALSE, state |-> "UNKNOWN",
                        sem |-> "zero", child |-> "init"]
      BY <2>5 DEF Worker!Clone, TypeOK
    <3>2. WorkerInv(c)'
      BY <1>1, <2>5, <3>1 DEF WorkerInv, Worker!Ready, Worker!Alive
    <3> QED
      BY <2>3, <2>4, <3>2 DEF LocalInv
  <2>6. CASE /\ Worker!CloneFails(c)
             /\ \/ pc'[c] = "last" /\ "clone" \in failed'[c]
                \/ pc'[c] = "unlock" /\ result'[c] = "NULL"
    <3>1. worker'[c].child = "none" /\ worker'[c].sem = "none" /\ worker'[c].object = "live"
      BY <2>6 DEF Worker!CloneFails, Worker!NoContext, TypeOK
    <3>2. WorkerInv(c)'
      BY <1>1, <2>1, <2>6, <3>1 DEF WorkerInv, Worker!Ready, Worker!Alive
    <3> QED
      BY <2>3, <2>4, <3>2 DEF LocalInv
  <2> QED
    BY <2>1, <2>5, <2>6
<1>3. CASE JoinWorker(c)
  <2>1. /\ pc[c] = "semwait" /\ pc'[c] = "last"
        /\ UNCHANGED <<mask, g_handle, handle, file, ve, result, failed>>
    BY <1>3 DEF JoinWorker, TypeOK
  <2>2. /\ worker[c].sem = "posted" /\ worker'[c].sem = "none"
        /\ worker'[c].child = worker[c].child /\ worker'[c].object = worker[c].object
        /\ worker'[c].own = worker[c].own /\ worker'[c].state = worker[c].state
    BY <1>1, <1>3 DEF JoinWorker, Worker!SemWait, Worker!Context, TypeOK
  <2>3. Spawned(c)'
    BY <1>1, <2>1 DEF Spawned
  <2>4. ThreadInv(c)'
    BY <1>1, <2>1 DEF LocalInv, ThreadInv
  <2>5. LeftInv(c)'
    BY <1>1, <2>1, <2>3 DEF LocalInv, LeftInv
  <2>6. WorkerInv(c)'
    BY <1>1, <2>1, <2>2 DEF LocalInv, WorkerInv, Worker!Ready, Worker!Alive
  <2> QED
    BY <2>4, <2>5, <2>6 DEF LocalInv
<1> QED
  BY <1>2, <1>3

LEMMA WorkerLocal ==
  ASSUME TypeOK, NEW c \in Caller, LocalInv(c), WorkerStarts(c)
  PROVE  LocalInv(c)'
<1>1. UNCHANGED <<pc, args, mask, g_handle, handle, file, ve, result, failed>>
  BY DEF WorkerStarts, input
<1>2. ThreadInv(c)'
  BY <1>1 DEF LocalInv, ThreadInv
<1>3. LeftInv(c)'
  BY <1>1 DEF LocalInv, LeftInv, Spawned
<1>4. worker[c] \in Worker!Context
  BY DEF TypeOK
<1>5. /\ worker'[c].object = worker[c].object
      /\ \/ /\ worker[c].child = "init" /\ worker'[c].child = "post" /\ worker'[c].own
            /\ worker'[c].state = "RUNNING" /\ worker'[c].sem = worker[c].sem
         \/ /\ worker[c].child = "post" /\ worker'[c].child = "ve" /\ worker'[c].sem = "posted"
            /\ worker'[c].own = worker[c].own /\ worker'[c].state = worker[c].state
         \/ /\ worker[c].child = "ve" /\ worker'[c].child \in {"loop", "dead"}
            /\ worker'[c].sem = worker[c].sem
            /\ worker'[c].own = worker[c].own /\ worker'[c].state # "UNKNOWN"
  BY <1>4 DEF WorkerStarts, Worker!StartEventLoop, Worker!SemPost, Worker!FirstBlock,
              Worker!FirstException, Worker!Context, TypeOK
<1>6. WorkerInv(c)'
  BY <1>1, <1>5 DEF LocalInv, WorkerInv, Worker!Ready, Worker!Alive
<1> QED
  BY <1>2, <1>3, <1>6 DEF LocalInv

LEMMA EndLocal ==
  ASSUME TypeOK, NEW c \in Caller, LocalInv(c), Unlock(c) \/ RestoreMask(c) \/ ClearHandle(c)
  PROVE  LocalInv(c)'
<1> USE Phases, SpawnSteps, BootSteps DEF Goto, shared, input
<1>1. /\ \/ pc[c] = "unlock" /\ pc'[c] = "restore" /\ mask' = mask /\ g_handle' = g_handle
         \/ pc[c] = "restore" /\ pc'[c] = "restored" /\ mask'[c] = "own" /\ g_handle' = g_handle
         \/ pc[c] = "restored" /\ pc'[c] = "done" /\ mask' = mask /\ ~g_handle'[c]
      /\ UNCHANGED <<handle, file, ve, result, failed>>
  BY DEF Unlock, RestoreMask, ClearHandle, TypeOK
<1>2. ThreadInv(c)'
  BY <1>1 DEF LocalInv, ThreadInv
<1>3. LeftInv(c)'
  BY <1>1 DEF LocalInv, LeftInv, Spawned
<1>4. CASE worker'[c] = worker[c]
  BY <1>1, <1>2, <1>3, <1>4, WorkerKept DEF LocalInv
<1>5. CASE ClearHandle(c) /\ result[c] = "NULL" /\ Worker!Delete(c)
  <2>1. /\ worker'[c].child = worker[c].child /\ worker'[c].sem = worker[c].sem
        /\ worker'[c].own = worker[c].own /\ worker'[c].state = worker[c].state
        /\ pc'[c] = "done" /\ pc[c] = "restored"
    BY <1>1, <1>5 DEF ClearHandle, Worker!Delete, Worker!Context, TypeOK
  <2>2. WorkerInv(c)'
    BY <1>1, <1>5, <2>1 DEF LocalInv, WorkerInv, Worker!Ready, Worker!Alive
  <2> QED
    BY <1>2, <1>3, <2>2 DEF LocalInv
<1> QED
  BY <1>4, <1>5 DEF Unlock, RestoreMask, ClearHandle

-----------------------------------------------------------------------------
(* A call that has its process keeps it. *)
LEMMA SpawnedOthers ==
  ASSUME NEW c \in Caller, NEW d \in Caller, d # c, Others(c)
  PROVE  Spawned(d)' <=> Spawned(d)
  BY DEF Others, Spawned

(* Steps in which the acting call neither enters nor leaves the critical   *)
(* section, and does not get its process.                                  *)
LEMMA SharedQuiet ==
  ASSUME Inv, NEW c \in Caller, Others(c),
         UNCHANGED <<spawn_mtx, proc_no, globals>>,
         Spawned(c)' <=> Spawned(c),
         pc'[c] \in Critical <=> pc[c] \in Critical,
         pc'[c] \in SpawnStep => pc[c] \in SpawnStep /\ (pc'[c] # "ptrace" => pc[c] # "ptrace"),
         \/ result'[c] = result[c] /\ failed[c] \subseteq failed'[c]
         \/ result'[c] # "NULL" \/ failed'[c] # {}
  PROVE  (SharedInv /\ OneProcess /\ GlobalsKept /\ NullJustified)'
<1>1. \A d \in Caller : Spawned(d)' <=> Spawned(d)
  BY SpawnedOthers
<1>2. \A d \in Caller : d # c => pc'[d] = pc[d] /\ result'[d] = result[d] /\ failed'[d] = failed[d]
  BY DEF Others
<1>3. SharedInv'
  BY <1>1, <1>2 DEF Inv, SharedInv
<1>4. OneProcess' /\ GlobalsKept'
  BY <1>1 DEF Inv, OneProcess, GlobalsKept
<1>5. NullJustified'
  BY <1>1, <1>2 DEF Inv, NullJustified
<1> QED
  BY <1>3, <1>4, <1>5

LEMMA LockShared ==
  ASSUME Inv, NEW c \in Caller, Others(c), Lock(c)
  PROVE  (SharedInv /\ OneProcess /\ GlobalsKept /\ NullJustified)'
<1> USE Phases, SpawnSteps, BootSteps, NoCallerAssumption
<1>1. /\ pc[c] = "lock" /\ spawn_mtx = NoCaller /\ spawn_mtx' = c
      /\ \/ proc_no # 0 /\ pc'[c] = "unlock" /\ result'[c] = "NULL"
         \/ proc_no = 0 /\ pc'[c] = "ptrace" /\ result' = result
      /\ UNCHANGED <<proc_no, globals, failed>>
  BY DEF Lock, Free, Throw, Goto, Inv, TypeOK
<1>2. ThreadInv(c) /\ result[c] = "none" /\ failed[c] = {}
  BY <1>1 DEF Inv, ThreadInv
<1>3. ~Spawned(c) /\ ~Spawned(c)'
  BY <1>1, <1>2 DEF Spawned
<1>4. \A d \in Caller : Spawned(d)' <=> Spawned(d)
  BY <1>3, SpawnedOthers
<1>5. \A d \in Caller : d # c => pc'[d] = pc[d] /\ result'[d] = result[d] /\ failed'[d] = failed[d]
  BY DEF Others
<1>6. SharedInv'
  <2>1. \A d \in Caller : pc'[d] \in Critical <=> spawn_mtx' = d
    BY <1>1, <1>5 DEF Inv, SharedInv
  <2>2. proc_no' # 0 <=> \E d \in Caller : Spawned(d)'
    BY <1>1, <1>4 DEF Inv, SharedInv
  <2>3. /\ \A d \in Caller : pc'[d] \in SpawnStep => proc_no' = 0
        /\ \A d \in Caller : pc'[d] \in SpawnStep \ {"ptrace"} => globals' = d
    BY <1>1, <1>5 DEF Inv, SharedInv
  <2> QED
    BY <2>1, <2>2, <2>3 DEF SharedInv
<1>7. OneProcess' /\ GlobalsKept'
  BY <1>1, <1>4 DEF Inv, OneProcess, GlobalsKept
<1>8. NullJustified'
  <2>1. result'[c] = "NULL" => \E d \in Caller \ {c} : Spawned(d)
    BY <1>1, <1>2, <1>3 DEF Inv, SharedInv
  <2> QED
    BY <1>1, <1>4, <1>5, <2>1 DEF Inv, NullJustified
<1> QED
  BY <1>6, <1>7, <1>8

LEMMA SpawnShared ==
  ASSUME Inv, NEW c \in Caller, Others(c), Spawn(c)
  PROVE  (SharedInv /\ OneProcess /\ GlobalsKept /\ NullJustified)'
<1> USE Phases, SpawnSteps, BootSteps, NoCallerAssumption
<1>1. /\ pc[c] \in SpawnStep /\ pc'[c] = AfterSpawnStep[pc[c]]
      /\ globals' = c \/ (globals' = globals /\ pc[c] # "ptrace")
      /\ proc_no' = IF pc[c] = "sigaction" THEN proc_no + 1 ELSE proc_no
      /\ UNCHANGED <<spawn_mtx, result, failed>>
  BY DEF Spawn, Count, Goto, Inv, TypeOK
<1>2. result[c] = "none" /\ failed[c] = {}
  BY <1>1 DEF Inv, ThreadInv
<1>3. spawn_mtx = c /\ proc_no = 0 /\ \A d \in Caller : ~Spawned(d)
  BY <1>1 DEF Inv, SharedInv
<1>4. globals' = c
  BY <1>1 DEF Inv, SharedInv
<1>5. \A d \in Caller : d # c => /\ pc'[d] = pc[d] /\ result'[d] = result[d] /\ failed'[d] = failed[d]
                                /\ pc[d] \notin Critical /\ ~Spawned(d)'
  BY <1>3, SpawnedOthers DEF Others, Inv, SharedInv
<1>6. Spawned(c)' <=> pc[c] = "sigaction"
  BY <1>1, <1>2 DEF Spawned
<1>7. SharedInv'
  <2>1. \A d \in Caller : pc'[d] \in Critical <=> spawn_mtx' = d
    BY <1>1, <1>3, <1>5
  <2>2. proc_no' # 0 <=> \E d \in Caller : Spawned(d)'
    BY <1>1, <1>3, <1>5, <1>6
  <2>3. /\ \A d \in Caller : pc'[d] \in SpawnStep => proc_no' = 0
        /\ \A d \in Caller : pc'[d] \in SpawnStep \ {"ptrace"} => globals' = d
    BY <1>1, <1>3, <1>4, <1>5
  <2> QED
    BY <2>1, <2>2, <2>3 DEF SharedInv
<1>8. OneProcess' /\ GlobalsKept'
  BY <1>4, <1>5 DEF OneProcess, GlobalsKept
<1>9. NullJustified'
  <2>1. \A d \in Caller : ~(result[d] = "NULL" /\ failed[d] = {})
    BY <1>3 DEF Inv, NullJustified
  <2> QED
    BY <1>1, <2>1 DEF NullJustified
<1> QED
  BY <1>7, <1>8, <1>9

LEMMA UnlockShared ==
  ASSUME Inv, NEW c \in Caller, Others(c), Unlock(c)
  PROVE  (SharedInv /\ OneProcess /\ GlobalsKept /\ NullJustified)'
<1> USE Phases, SpawnSteps, BootSteps, NoCallerAssumption
<1>1. /\ pc[c] = "unlock" /\ pc'[c] = "restore" /\ spawn_mtx' = NoCaller
      /\ UNCHANGED <<proc_no, globals, result, failed>>
  BY DEF Unlock, Goto, Inv, TypeOK
<1>2. \A d \in Caller : Spawned(d)' <=> Spawned(d)
  BY <1>1, SpawnedOthers DEF Spawned
<1>3. spawn_mtx = c /\ \A d \in Caller : d # c => pc'[d] = pc[d] /\ pc[d] \notin Critical
  BY <1>1 DEF Others, Inv, SharedInv
<1>4. SharedInv'
  BY <1>1, <1>2, <1>3 DEF Inv, SharedInv
<1>5. OneProcess' /\ GlobalsKept' /\ NullJustified'
  BY <1>1, <1>2 DEF Inv, OneProcess, GlobalsKept, NullJustified
<1> QED
  BY <1>4, <1>5

(* All other steps. *)
LEMMA OtherShared ==
  ASSUME Inv, NEW c \in Caller, Others(c),
         \/ \E a \in Arguments : Create(c, a)
         \/ Select(c) \/ CreateHandle(c) \/ SpawnFails(c) \/ Boot(c) \/ BootFails(c)
         \/ CloneWorker(c) \/ JoinWorker(c) \/ RestoreMask(c) \/ ClearHandle(c) \/ WorkerStarts(c)
  PROVE  (SharedInv /\ OneProcess /\ GlobalsKept /\ NullJustified)'
<1> USE Phases, SpawnSteps, BootSteps
<1>1. ThreadInv(c) /\ TypeOK /\ failed[c] \in SUBSET (Fallible \cup {"node"})
  BY DEF Inv, TypeOK
<1>2. UNCHANGED <<spawn_mtx, proc_no, globals>>
  BY DEF Create, Select, CreateHandle, SpawnFails, Boot, BootFails, CloneWorker, JoinWorker,
         RestoreMask, ClearHandle, WorkerStarts, shared
<1>3. CASE (\E a \in Arguments : Create(c, a)) \/ RestoreMask(c) \/ ClearHandle(c) \/ WorkerStarts(c)
  <2>1. /\ (pc'[c] \notin Critical /\ pc[c] \notin Critical) \/ pc' = pc
        /\ UNCHANGED <<result, failed>>
    BY <1>1, <1>3 DEF Create, RestoreMask, ClearHandle, WorkerStarts, Goto, TypeOK
  <2>2. Spawned(c)' <=> Spawned(c)
    BY <2>1 DEF Spawned
  <2> QED
    BY <1>2, <2>1, <2>2, SharedQuiet
<1>4. CASE Select(c) \/ CreateHandle(c)
  <2>1. /\ pc[c] \in {"select", "create"} /\ pc'[c] \in {"create", "done", "lock", "restore"}
        /\ \/ UNCHANGED <<result, failed>>
           \/ result'[c] = "NULL" /\ failed'[c] \in {{"node"}, failed[c] \cup {"create"}}
    BY <1>1, <1>4 DEF Select, CreateHandle, Fails, Throw, Goto, TypeOK
  <2>2. result[c] = "none" /\ failed[c] = {}
    BY <1>1, <2>1 DEF ThreadInv
  <2>3. Spawned(c)' <=> Spawned(c)
    BY <2>1, <2>2 DEF Spawned
  <2>4. pc[c] \notin Critical /\ pc'[c] \notin Critical /\ pc'[c] \notin SpawnStep
    BY <2>1 DEF Critical, SpawnStep
  <2>5. \/ result'[c] = result[c] /\ failed[c] \subseteq failed'[c]
        \/ failed'[c] # {}
    BY <2>1
  <2> QED
    BY <1>2, <2>3, <2>4, <2>5, SharedQuiet
<1>5. CASE SpawnFails(c)
  <2>1. /\ pc[c] \in SpawnStep /\ pc'[c] = "unlock"
        /\ result'[c] = "NULL" /\ failed'[c] = failed[c] \cup {pc[c]}
    BY <1>1, <1>5 DEF SpawnFails, Fails, Throw, Goto, TypeOK
  <2>2. result[c] = "none" /\ failed[c] = {}
    BY <1>1, <2>1 DEF ThreadInv
  <2>3. Spawned(c)' <=> Spawned(c)
    BY <2>1, <2>2 DEF Spawned
  <2> QED
    BY <1>2, <2>1, <2>2, <2>3, SharedQuiet
<1>6. CASE Boot(c) \/ JoinWorker(c)
  <2>1. /\ pc[c] \in BootStep \cup {"semwait"}
        /\ pc'[c] \in {"funcs", "hook", "clone", "last", "unlock"}
        /\ failed' = failed
        /\ result'[c] = IF pc[c] = "last" THEN "handle" ELSE result[c]
        /\ pc'[c] = "unlock" => pc[c] = "last"
    BY <1>1, <1>6 DEF Boot, JoinWorker, Goto, TypeOK
  <2>2. Spawned(c)' <=> Spawned(c)
    BY <2>1 DEF Spawned
  <2> QED
    BY <1>2, <2>1, <2>2, SharedQuiet
<1>7. CASE BootFails(c) \/ CloneWorker(c)
  <2>1. /\ pc[c] \in BootStep \cup {"clone"}
        /\ \/ pc'[c] \in {"last", "semwait"} /\ result' = result
           \/ pc'[c] = "unlock" /\ failed'[c] \cap (BootStep \cup {"sem", "version"}) # {}
        /\ failed[c] \subseteq failed'[c]
    <3>1. CASE BootFails(c)
      <4>1. /\ pc[c] \in BootStep /\ pc'[c] = "unlock"
            /\ failed'[c] = failed[c] \cup {pc[c]} \/ failed'[c] = failed[c] \cup {"version"}
        BY <1>1, <3>1 DEF BootFails, Fails, Throw, Goto, TypeOK
      <4> QED
        BY <4>1
    <3>2. CASE CloneWorker(c)
      BY <1>1, <3>2 DEF CloneWorker, Fails, Throw, Goto, TypeOK
    <3> QED
      BY <1>7, <3>1, <3>2
  <2>2. Spawned(c)' /\ Spawned(c)
    BY <2>1 DEF Spawned
  <2>3. \/ result'[c] = result[c] \/ failed'[c] # {}
    BY <2>1
  <2> QED
    BY <1>2, <2>1, <2>2, <2>3, SharedQuiet
<1> QED
  BY <1>3, <1>4, <1>5, <1>6, <1>7

-----------------------------------------------------------------------------
(* The inductive invariant holds before the first call. *)
LEMMA InitInv == Init => Inv
<1> SUFFICES ASSUME Init PROVE Inv
  OBVIOUS
<1> USE Phases, SpawnSteps, BootSteps, NoCallerAssumption
<1>1. TypeOK
  BY DEF Init, TypeOK, Worker!Init, Worker!Context, Worker!NoContext
<1>2. ASSUME NEW c \in Caller PROVE ~Spawned(c) /\ LocalInv(c)
  <2>1. /\ pc[c] = "idle" /\ mask[c] = "own" /\ ~g_handle[c] /\ handle[c] = "none" /\ ~file[c]
        /\ ve[c] = "none" /\ result[c] = "none" /\ failed[c] = {}
        /\ worker[c].child = "none" /\ worker[c].sem = "none" /\ worker[c].object = "none"
    BY DEF Init, Worker!Init, Worker!NoContext
  <2>2. ~Spawned(c)
    BY <2>1 DEF Spawned
  <2>3. ThreadInv(c) /\ LeftInv(c)
    BY <2>1 DEF ThreadInv, LeftInv
  <2>4. WorkerInv(c)
    BY <2>1 DEF WorkerInv, Worker!Alive
  <2> QED
    BY <2>2, <2>3, <2>4 DEF LocalInv
<1>3. SharedInv
  BY <1>2 DEF Init, SharedInv
<1>4. OneProcess /\ GlobalsKept /\ NullJustified
  BY <1>2 DEF OneProcess, GlobalsKept, NullJustified, Init
<1> QED
  BY <1>1, <1>2, <1>3, <1>4 DEF Inv, LocalInv

(* Every step keeps it. *)
LEMMA NextInv == Inv /\ [Next]_vars => Inv'
<1> SUFFICES ASSUME Inv, [Next]_vars PROVE Inv'
  OBVIOUS
<1>1. TypeOK /\ \A c \in Caller : LocalInv(c) /\ ThreadInv(c)
  BY DEF Inv, LocalInv
<1>2. ASSUME NEW c \in Caller,
             (\E a \in Arguments : Create(c, a)) \/ CallerStep(c) \/ WorkerStarts(c)
      PROVE  Inv'
  <2>1. TypeOK' /\ Others(c)
    BY <1>1, <1>2, BeginType, SpawnType, BootType, EndType DEF CallerStep
  <2>2. LocalInv(c)'
    BY <1>1, <1>2, BeginLocal, SpawnLocal, BootLocal, CloneLocal, WorkerLocal, EndLocal DEF CallerStep
  <2>3. \A d \in Caller : LocalInv(d)'
    BY <1>1, <2>1, <2>2, OthersInv
  <2>4. (SharedInv /\ OneProcess /\ GlobalsKept /\ NullJustified)'
    BY <1>2, <2>1, LockShared, SpawnShared, UnlockShared, OtherShared DEF CallerStep
  <2> QED
    BY <2>1, <2>3, <2>4 DEF Inv, LocalInv
<1>3. CASE UNCHANGED vars
  <2>1. TypeOK' /\ SharedInv' /\ OneProcess' /\ GlobalsKept' /\ NullJustified'
    BY <1>3 DEF vars, Inv, TypeOK, SharedInv, OneProcess, GlobalsKept, NullJustified, Spawned
  <2>2. ASSUME NEW c \in Caller PROVE ThreadInv(c)' /\ LeftInv(c)' /\ WorkerInv(c)'
    BY <1>1, <1>3 DEF vars, LocalInv, ThreadInv, LeftInv, WorkerInv, Spawned, Worker!Ready, Worker!Alive
  <2> QED
    BY <2>1, <2>2 DEF Inv
<1> QED
  BY <1>2, <1>3 DEF Next

(* Every variable keeps its type; in particular proc_no never gets below   *)
(* zero and a node that is chosen is a number.                             *)
THEOREM TypeCorrect == Spec => []TypeOK
<1>1. Inv => TypeOK
  BY DEF Inv
<1> QED
  BY InitInv, NextInv, <1>1, PTL DEF Spec

(* At most one call of veo_proc_create gets a VE process, however many are *)
(* made, at the same time or one after another.                            *)
THEOREM OneProcessCorrect == Spec => []OneProcess
<1>1. Inv => OneProcess
  BY DEF Inv
<1> QED
  BY InitInv, NextInv, <1>1, PTL DEF Spec

(* libvepseudo's global data stay those of the process that was created. *)
THEOREM GlobalsCorrect == Spec => []GlobalsKept
<1>1. Inv => GlobalsKept
  BY DEF Inv
<1> QED
  BY InitInv, NextInv, <1>1, PTL DEF Spec

(* A call to which nothing has happened is refused only because another    *)
(* one got its process.                                                    *)
THEOREM RefusalCorrect == Spec => []NullJustified
<1>1. Inv => NullJustified
  BY DEF Inv
<1> QED
  BY InitInv, NextInv, <1>1, PTL DEF Spec

(* Whatever fails, a thread leaves veo_proc_create with its own signal     *)
(* mask, without a VEOS handle and without spawn_mtx.                      *)
THEOREM ThreadCorrect == Spec => []ThreadRestored
<1>1. Inv => ThreadRestored
  <2> SUFFICES ASSUME Inv, NEW c \in Caller, pc[c] \in {"idle", "done"}
               PROVE  mask[c] = "own" /\ ~g_handle[c] /\ spawn_mtx # c
    BY DEF ThreadRestored
  <2>1. mask[c] = "own" /\ ~g_handle[c]
    BY DEF Inv, ThreadInv
  <2>2. pc[c] \notin Critical
    BY Phases
  <2>3. spawn_mtx # c
    BY <2>2 DEF Inv, SharedInv
  <2> QED
    BY <2>1, <2>3
<1> QED
  BY InitInv, NextInv, <1>1, PTL DEF Spec

(* A thread that takes SIGCONT has a VEOS handle that exists, except       *)
(* between the two statements of finally_'s destructor.                    *)
THEOREM SignalCorrect == Spec => []SignalHandleLive
<1>1. Inv => SignalHandleLive
  <2> SUFFICES ASSUME Inv, NEW c \in Caller, TakesSignal(c), pc[c] # "restored"
               PROVE  handle[c] = "open"
    BY DEF SignalHandleLive
  <2>1. ThreadInv(c) /\ g_handle[c] /\ pc[c] \in PC
    BY DEF Inv, TakesSignal, TypeOK
  <2>2. CASE pc[c] \in {"boot", "hook", "last"}
    BY <2>1, <2>2, Phases DEF ThreadInv
  <2>3. CASE mask[c] = "own" /\ pc[c] \notin {"boot", "hook", "last"}
    BY <2>1, <2>3, Phases DEF ThreadInv
  <2> QED
    BY <2>2, <2>3 DEF TakesSignal, Interruptible
<1> QED
  BY InitInv, NextInv, <1>1, PTL DEF Spec

(* What a call that returns NULL can leave behind, and after which         *)
(* failures.                                                               *)
THEOREM NothingLeftCorrect == Spec => []NothingLeft
<1>1. Inv => NothingLeft
  BY SpawnSteps DEF Inv, LeftInv, NothingLeft, Throws
<1> QED
  BY InitInv, NextInv, <1>1, PTL DEF Spec

(* The worker, call by call. *)
LEMMA WorkerFacts ==
  ASSUME Inv, NEW c \in Caller
  PROVE  /\ result[c] = "handle" => Worker!Ready(c) \/ "clone" \in failed[c]
         /\ Worker!FrameAlive(c)
         /\ worker[c].object = "deleted" /\ Worker!Alive(c) => "last" \in failed[c]
<1>1. WorkerInv(c)
  BY DEF Inv
<1> QED
  BY <1>1 DEF WorkerInv, Worker!FrameAlive

(* The worker of a process handle that was returned is ready, unless its   *)
(* creation failed.                                                        *)
THEOREM WorkerReadyCorrect == Spec => []WorkerReady
<1>1. Inv => WorkerReady
  BY WorkerFacts DEF WorkerReady
<1> QED
  BY InitInv, NextInv, <1>1, PTL DEF Spec

(* The worker's pseudo thread uses the stack of the constructor only while *)
(* the constructor is in handleCloneRequest.                               *)
THEOREM SemaphoreCorrect == Spec => []SemaphoreAlive
<1>1. Inv => SemaphoreAlive
  BY WorkerFacts DEF SemaphoreAlive
<1> QED
  BY InitInv, NextInv, <1>1, PTL DEF Spec

(* The worker is not deleted under its pseudo thread, unless the main      *)
(* thread fails after the clone.                                           *)
THEOREM OutlivesCorrect == Spec => []WorkerOutlives
<1>1. Inv => WorkerOutlives
  BY WorkerFacts DEF WorkerOutlives
<1> QED
  BY InitInv, NextInv, <1>1, PTL DEF Spec

-----------------------------------------------------------------------------
(* What veo_proc_create_static may choose: nothing; without a list what    *)
(* was asked for; with one a node of the list, the one asked for, or the   *)
(* first if nothing was asked for.                                         *)
LEMMA SelectMeaning ==
  ASSUME NEW venode \in Int, NEW list, NEW number \in Int \cup {Bad, Unset},
         list = Unset \/ list \in Seq(Int \cup {Bad}),
         SelectNode(venode, list, number) # NoNode
  PROVE  \/ /\ list = Unset
            /\ SelectNode(venode, list, number) = IF venode >= 0 THEN venode
                                                  ELSE IF number # Unset THEN number ELSE 0
         \/ /\ list # Unset
            /\ \E i \in 1..Len(list) :
                 /\ list[i] = SelectNode(venode, list, number)
                 /\ venode >= 0 => i = venode + 1
                 /\ venode = -1 /\ number = Unset => i = 1
<1>1. CASE list = Unset
  <2>1. CASE venode >= 0
    <3>1. ~(venode < -1) /\ ~(venode = -1) /\ ~(venode >= 0 /\ list # Unset)
      BY <1>1, <2>1
    <3>2. SelectNode(venode, list, number) = venode
      BY <3>1 DEF SelectNode
    <3>3. venode = IF venode >= 0 THEN venode
                   ELSE IF number # Unset THEN number ELSE 0
      BY <2>1
    <3> QED
      BY <1>1, <3>2, <3>3
  <2>2. CASE venode = -1
    <3>1. Default(list, number) = IF number # Unset THEN number ELSE 0
      BY <1>1 DEF Default
    <3>2. SelectNode(venode, list, number) = Default(list, number)
      BY <2>2 DEF SelectNode
    <3> QED
      BY <1>1, <2>2, <3>1, <3>2
  <2>3. CASE venode < -1
    BY <2>3 DEF SelectNode
  <2> QED
    BY <2>1, <2>2, <2>3
<1>2. CASE list # Unset /\ venode >= 0
  <2>1. Len(list) \in Nat
    BY <1>2, LenProperties
  <2>2. SelectNode(venode, list, number) = Translate(venode, list) /\ Translate(venode, list) # Bad
    BY <1>2 DEF SelectNode
  <2>3. venode + 1 \in 1..Len(list) /\ Translate(venode, list) = list[venode + 1]
    BY <1>2, <2>1, <2>2 DEF Translate
  <2> QED
    BY <1>2, <2>2, <2>3
<1>3. CASE list # Unset /\ venode = -1
  <2>1. Len(list) \in Nat
    BY <1>3, LenProperties
  <2>2. SelectNode(venode, list, number) = Default(list, number) /\ Default(list, number) # Bad
    BY <1>3 DEF SelectNode
  <2>3. CASE number # Unset
    <3>1. Default(list, number) = number /\ Found(number, list)
      BY <1>3, <2>2, <2>3 DEF Default
    <3> QED
      BY <1>3, <2>2, <2>3, <3>1 DEF Found
  <2>4. CASE number = Unset
    <3>1. Default(list, number) = list[1] /\ Len(list) > 0
      BY <1>3, <2>2, <2>4 DEF Default
    <3> QED
      BY <1>3, <2>1, <2>2, <2>4, <3>1
  <2> QED
    BY <2>3, <2>4
<1>4. CASE venode < -1
  BY <1>4 DEF SelectNode
<1> QED
  BY <1>1, <1>2, <1>3, <1>4

(* The node of a process is the one asked for, and under the job scheduler *)
(* an assigned one, the first if neither venode nor VE_NODE_NUMBER names   *)
(* one, for every argument and every environment.                          *)
THEOREM NodeCorrect == Spec => NodeAssigned
<1> DEFINE Chosen(c) ==
      LET venode == args[c][1]
          list == args[c][2]
          number == args[c][3]
      IN  \/ node'[c] = NoNode /\ pc'[c] = "done"
          \/ list = Unset /\ node'[c] = IF venode >= 0 THEN venode
                                        ELSE IF number # Unset THEN number ELSE 0
          \/ /\ list # Unset
             /\ \E i \in 1..Len(list) :
                  /\ list[i] = node'[c]
                  /\ venode >= 0 => i = venode + 1
                  /\ venode = -1 /\ number = Unset => i = 1
<1>1. Inv /\ [Next]_vars => [\A c \in Caller : pc[c] = "select" /\ pc'[c] # "select" => Chosen(c)]_vars
  <2> SUFFICES ASSUME Inv, Next, NEW c \in Caller, pc[c] = "select", pc'[c] # "select" PROVE Chosen(c)
    OBVIOUS
  <2>1. PICK d \in Caller : (\E a \in Arguments : Create(d, a)) \/ CallerStep(d) \/ WorkerStarts(d)
    BY DEF Next
  <2>2. TypeOK /\ ThreadInv(d) /\ ThreadInv(c)
    BY DEF Inv
  <2>3. Others(d)
    BY <2>1, <2>2, BeginType, SpawnType, BootType, EndType DEF CallerStep
  <2>4. d = c
    BY <2>3 DEF Others
  <2>5. Select(c)
    <3>1. pc[c] \notin SpawnStep /\ pc[c] \notin BootStep
      BY SpawnSteps, BootSteps
    <3> QED
      BY <2>1, <2>4, <3>1 DEF Create, CallerStep, CreateHandle, Lock, Spawn, SpawnFails, Boot,
         BootFails, CloneWorker, JoinWorker, Unlock, RestoreMask, ClearHandle, WorkerStarts
  <2>6. args[c] \in Arguments
    BY <2>2 DEF ThreadInv
  <2>7. /\ args[c][1] \in Int /\ args[c][3] \in Int \cup {Bad, Unset}
        /\ args[c][2] = Unset \/ args[c][2] \in Seq(Int \cup {Bad})
    BY <2>6, ArgumentsAssumption
  <2>8. node'[c] = SelectNode(args[c][1], args[c][2], args[c][3])
    BY <2>2, <2>5 DEF Select, TypeOK
  <2>9. node'[c] = NoNode => pc'[c] = "done"
    BY <2>2, <2>5 DEF Select, Throw, Goto, TypeOK
  <2>10. CASE node'[c] = NoNode
    BY <2>9, <2>10
  <2>11. CASE node'[c] # NoNode
    <3> DEFINE venode == args[c][1]
               list == args[c][2]
               number == args[c][3]
    <3> HIDE DEF venode, list, number
    <3>1. venode \in Int /\ number \in Int \cup {Bad, Unset}
      BY <2>7 DEF venode, number
    <3>2. list = Unset \/ list \in Seq(Int \cup {Bad})
      BY <2>7 DEF list
    <3>3. node'[c] = SelectNode(venode, list, number)
      BY <2>8 DEF venode, list, number
    <3>4. SelectNode(venode, list, number) # NoNode
      BY <2>11, <3>3
    <3>5. \/ /\ list = Unset
             /\ SelectNode(venode, list, number) = IF venode >= 0 THEN venode
                                                   ELSE IF number # Unset THEN number ELSE 0
          \/ /\ list # Unset
             /\ \E i \in 1..Len(list) :
                  /\ list[i] = SelectNode(venode, list, number)
                  /\ venode >= 0 => i = venode + 1
                  /\ venode = -1 /\ number = Unset => i = 1
      BY <3>1, <3>2, <3>4, SelectMeaning
    <3> QED
      BY <3>3, <3>5 DEF venode, list, number
  <2> QED
    BY <2>10, <2>11
<1> QED
  BY InitInv, NextInv, <1>1, PTL DEF Spec, NodeAssigned
=============================================================================
