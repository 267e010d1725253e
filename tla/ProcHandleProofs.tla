--------------------------- MODULE ProcHandleProofs ---------------------------
(***************************************************************************)
(* Proofs about ProcHandle, for any number of threads, symbols and         *)
(* contexts, with every failure of the worker: its mutexes, the way of an  *)
(* answer to its caller, the symbol cache, who owns a new context, and     *)
(* that an operation waits for an answer only while one can come.          *)
(***************************************************************************)
EXTENDS ProcHandle, SequenceTheorems, FiniteSetTheorems, TLAPS

Queued(t) == \E i \in 1..Len(request) : request[i] = t

(* The request of a getSym, and only its, is find_sym, and what a getSym   *)
(* has got so far is the address of its symbol.                            *)
ThreadInv(t) ==
  /\ op[t].name = "getSym" <=> req[t] = "find_sym"
  /\ pc[t] \in {"find", "hit", "found", "miss", "store", "stored"} => req[t] = "find_sym"
  /\ pc[t] = "mutex" => req[t] \in Locked
  /\ pc[t] \in {"hit", "found"} => sym_name[op[t].symbol] = Address[op[t].symbol]
  /\ pc[t] \in {"store", "stored"} => result[t] = Address[op[t].symbol]
  /\ pc[t] = "idle" /\ req[t] = "find_sym" => result[t] \in {Address[op[t].symbol], Thrown}
  /\ answer[t].status = "OK" /\ req[t] = "find_sym" => answer[t].val = Address[op[t].symbol]

(* An entry of the cache is true. *)
CacheTrue == \A s \in Symbol : sym_name[s] \in {None, Address[s]}

LocalInv == (\A t \in Thread : ThreadInv(t)) /\ CacheTrue /\ MutexDiscipline

(* The worker opens a context for the request at the front of its queue. *)
WorkerInv ==
  /\ wpc \in {"semwait", "opened", "notopen"} =>
       request # << >> /\ req[Head(request)] = "create_thread"
  /\ wpc \in {"semwait", "opened"} => contexts > 0

QueueInv == AnswerBelongs /\ WorkerInv

(* The contexts created are numbered without a gap, and all but the one    *)
(* whose parent waits have told their parent that they are set up.         *)
ContextInv ==
  \A c \in 1..MaxContexts :
    /\ c > contexts => ctx[c] = Handshake!NoContext
    /\ c <= contexts =>
         /\ ctx[c].object = "live"
         /\ \/ ctx[c].child = "init" /\ ctx[c].sem = "zero"
            \/ ctx[c].child = "post" /\ ctx[c].sem = "zero" /\ ctx[c].own /\ ctx[c].state = "RUNNING"
            \/ ctx[c].child = "ve" /\ ctx[c].sem # "zero" /\ ctx[c].own /\ ctx[c].state = "RUNNING"
         /\ ctx[c].child # "ve" => c = contexts /\ wpc = "semwait"

Opening(c) == c = contexts /\ wpc \in {"semwait", "opened"}
Unanswered(c) == c > contexts \/ c \in held \/ Opening(c)
Taker(c, t) == answer[t].status = "OK" /\ answer[t].val = c /\ req[t] = "create_thread"

(* A context is given to one thread. *)
Owned(c) ==
  /\ Unanswered(c) => \A t \in Thread : ~Taker(c, t)
  /\ ~Unanswered(c) => \E t \in Thread : Taker(c, t)
  /\ \A t, u \in Thread : Taker(c, t) /\ Taker(c, u) => t = u

OwnerInv ==
  /\ \A c \in held : c \in 1..contexts /\ ~Opening(c)
  /\ \A t \in Thread :
       answer[t].status = "OK" /\ req[t] = "create_thread" => answer[t].val <= contexts
  /\ \A c \in 1..MaxContexts : Owned(c)

(* The inductive invariant. *)
Inv == TypeOK /\ LocalInv /\ QueueInv /\ ContextInv /\ OwnerInv

-----------------------------------------------------------------------------
(* The queue of the worker after a push, and after the removal of the      *)
(* request at its front.                                                   *)
LEMMA PushFacts ==
  ASSUME NEW S, NEW q \in Seq(S), NEW x \in S, NEW r, r = Append(q, x)
  PROVE  /\ r \in Seq(S) /\ Len(q) \in Nat /\ Len(r) = Len(q) + 1
         /\ \A i \in 1..Len(q) : r[i] = q[i]
         /\ r[Len(q) + 1] = x
         /\ r # << >>
         /\ q # << >> => Head(r) = Head(q)
<1>1. /\ r \in Seq(S) /\ Len(q) \in Nat /\ Len(r) = Len(q) + 1
      /\ \A i \in 1..Len(q) : r[i] = q[i]
      /\ r[Len(q) + 1] = x
  BY AppendProperties, LenProperties
<1>2. r # << >>
  BY <1>1, EmptySeq
<1>3. ASSUME q # << >> PROVE Head(r) = Head(q)
  <2>1. Head(r) = r[1] /\ Head(q) = q[1] /\ 1 \in 1..Len(q)
    BY <1>1, <1>2, <1>3, HeadTailProperties, EmptySeq
  <2> QED
    BY <1>1, <2>1
<1> QED
  BY <1>1, <1>2, <1>3

LEMMA PopFacts ==
  ASSUME NEW S, NEW q \in Seq(S), q # << >>, NEW r, r = Tail(q)
  PROVE  /\ r \in Seq(S) /\ Len(q) \in Nat /\ Len(q) >= 1 /\ Len(r) = Len(q) - 1
         /\ \A i \in 1..Len(r) : r[i] = q[i + 1]
         /\ Head(q) = q[1] /\ Head(q) \in S
<1>1. Len(q) \in Nat /\ Len(q) # 0
  BY LenProperties, EmptySeq
<1>2. r \in Seq(S) /\ Len(r) = Len(q) - 1 /\ Head(q) = q[1] /\ Head(q) \in S
  BY <1>1, HeadTailProperties
<1>3. \A i \in 1..Len(r) : r[i] = q[i + 1]
  BY <1>1, <1>2, HeadTailProperties
<1> QED
  BY <1>1, <1>2, <1>3

(* Who is in the queue after a push. *)
LEMMA PushQueued ==
  ASSUME request \in Seq(Thread), NEW t \in Thread, request' = Append(request, t),
         ~Queued(t),
         \A i, j \in 1..Len(request) : request[i] = request[j] => i = j
  PROVE  /\ \A i, j \in 1..Len(request') : request'[i] = request'[j] => i = j
         /\ \A u : Queued(u)' <=> Queued(u) \/ u = t
<1> DEFINE q == request
           r == request'
<1>1. /\ r \in Seq(Thread) /\ Len(q) \in Nat /\ Len(r) = Len(q) + 1
      /\ \A i \in 1..Len(q) : r[i] = q[i]
      /\ r[Len(q) + 1] = t
  BY PushFacts
<1>2. \A i \in 1..Len(q) : q[i] # t
  BY DEF Queued
<1>3. \A i \in 1..Len(r) : i \in 1..Len(q) \/ i = Len(q) + 1
  BY <1>1
<1>4. \A i, j \in 1..Len(r) : r[i] = r[j] => i = j
  BY <1>1, <1>2, <1>3
<1>5. \A u : Queued(u)' <=> Queued(u) \/ u = t
  BY <1>1, <1>3 DEF Queued
<1> QED
  BY <1>4, <1>5

(* Who is in the queue after the request at the front was taken. *)
LEMMA PopQueued ==
  ASSUME request \in Seq(Thread), request # << >>, request' = Tail(request),
         \A i, j \in 1..Len(request) : request[i] = request[j] => i = j
  PROVE  /\ Head(request) \in Thread /\ Queued(Head(request))
         /\ \A i, j \in 1..Len(request') : request'[i] = request'[j] => i = j
         /\ \A u : Queued(u)' <=> Queued(u) /\ u # Head(request)
<1> DEFINE q == request
           r == request'
<1>1. /\ r \in Seq(Thread) /\ Len(q) \in Nat /\ Len(q) >= 1 /\ Len(r) = Len(q) - 1
      /\ \A i \in 1..Len(r) : r[i] = q[i + 1]
      /\ Head(q) = q[1] /\ Head(q) \in Thread
  BY PopFacts
<1>2. Queued(Head(q))
  BY <1>1 DEF Queued
<1>3. \A i, j \in 1..Len(r) : r[i] = r[j] => i = j
  BY <1>1
<1>4. ASSUME NEW u PROVE Queued(u)' <=> Queued(u) /\ u # Head(q)
  <2>1. ASSUME Queued(u)' PROVE Queued(u) /\ u # Head(q)
    BY <1>1, <2>1 DEF Queued
  <2>2. ASSUME Queued(u), u # Head(q) PROVE Queued(u)'
    <3>1. PICK i \in 1..Len(q) : q[i] = u
      BY <2>2 DEF Queued
    <3>2. i - 1 \in 1..Len(r) /\ r[i - 1] = u
      BY <1>1, <2>2, <3>1
    <3> QED
      BY <3>2 DEF Queued
  <2> QED
    BY <2>1, <2>2
<1> QED
  BY <1>1, <1>2, <1>3, <1>4

(* How an operation goes on: only getSym stores, and its next request is   *)
(* never that of another operation.                                        *)
LEMMA FollowFacts ==
  ASSUME TypeOK, NEW t \in Thread, NEW val \in Int
  PROVE  /\ Follow(t, val) \in {"return", "store", "alloc_buff", "load_library_err", "read_mem",
                                "free_buff"}
         /\ Follow(t, val) = "store" => req[t] = "find_sym"
         /\ req[t] = "find_sym" => Follow(t, val) \in {"return", "store"}
         /\ req[t] = "exit" => Follow(t, val) = "return"
         /\ req[t] = "create_thread" => Follow(t, val) = "return"
  BY DEF Follow, TypeOK, Request

(* What a request yields is a number, for find_sym the right one. *)
LEMMA ValuesFacts ==
  ASSUME TypeOK, NEW t \in Thread, ThreadInv(t), NEW val \in Values(t)
  PROVE  val \in Int /\ (req[t] = "find_sym" => val = Address[op[t].symbol])
  BY AddressAssumption DEF Values, TypeOK, ThreadInv, Operation, Failed

(* The symbol of a getSym. *)
LEMMA SymbolFacts ==
  ASSUME TypeOK, NEW t \in Thread, ThreadInv(t), req[t] = "find_sym"
  PROVE  op[t].name = "getSym" /\ op[t].symbol \in Symbol /\ Address[op[t].symbol] \in Nat
  BY AddressAssumption DEF TypeOK, ThreadInv, Operation

(* The operations and the first request of each. *)
LEMMA CallFacts ==
  ASSUME NEW o \in Operation
  PROVE  /\ o.name \in AllNames
         /\ FirstRequest(o.name) \in Request
         /\ o.name = "getSym" <=> FirstRequest(o.name) = "find_sym"
  BY DEF Operation, AllNames, FirstRequest, Request

(* What the parent and the child write is a context again. *)
LEMMA ContextFields ==
  ASSUME NEW r \in Handshake!Context
  PROVE  /\ [r EXCEPT !.sem = "none"] \in Handshake!Context
         /\ [r EXCEPT !.sem = "posted", !.child = "ve"] \in Handshake!Context
         /\ [r EXCEPT !.own = TRUE, !.state = "RUNNING", !.child = "post"] \in Handshake!Context
<1>1. [r EXCEPT !.sem = "none"] \in Handshake!Context
  BY DEF Handshake!Context
<1>2. [r EXCEPT !.sem = "posted", !.child = "ve"] \in Handshake!Context
  BY DEF Handshake!Context
<1>3. [r EXCEPT !.own = TRUE, !.state = "RUNNING", !.child = "post"] \in Handshake!Context
  BY DEF Handshake!Context
<1> QED
  BY <1>1, <1>2, <1>3

-----------------------------------------------------------------------------
(* Every action keeps the types. *)
LEMMA CallerType ==
  ASSUME Inv, NEW t \in Thread,
         (\E o \in Operation : Call(t, o)) \/ Acquire(t) \/ ThreadStep(t)
  PROVE  TypeOK'
<1> USE DEF TypeOK, Goto, PC, sym, worker
<1>1. TypeOK /\ ThreadInv(t)
  BY DEF Inv, LocalInv
<1>2. ASSUME NEW o \in Operation, Call(t, o) PROVE TypeOK'
  BY <1>1, <1>2, CallFacts DEF Call, None
<1>3. CASE LockMain(t)
  <2>1. /\ main_mutex' \in Thread \cup {NoThread}
        /\ pc' \in [Thread -> PC] /\ req' = req /\ result' \in [Thread -> Int]
    <3>1. CASE Return(t, 0)
      BY <1>1, <3>1, <1>3 DEF LockMain, Return, Unlock
    <3>2. CASE main_mutex' = t /\ Goto(t, "submit") /\ UNCHANGED <<req, result>>
      BY <1>1, <3>2
    <3> QED
      BY <1>3, <3>1, <3>2 DEF LockMain
  <2> QED
    BY <1>1, <1>3, <2>1 DEF LockMain
<1>4. CASE SymFind(t)
  BY <1>1, <1>4 DEF SymFind
<1>5. CASE SymStore(t)
  <2>1. op[t].symbol \in Symbol /\ result[t] \in Nat
    BY <1>1, <1>5, SymbolFacts DEF SymStore, ThreadInv
  <2> QED
    BY <1>1, <1>5, <2>1 DEF SymStore, CacheKey
<1>6. CASE SymReturn(t)
  <2>1. op[t].symbol \in Symbol
    BY <1>1, <1>6, SymbolFacts DEF SymReturn, ThreadInv
  <2>2. sym_name[op[t].symbol] \in Int
    BY <1>1, <2>1
  <2> QED
    BY <1>1, <1>6, <2>2 DEF SymReturn, CacheKey, Return, Unlock
<1>7. CASE SymHit(t) \/ SymMiss(t)
  BY <1>1, <1>7 DEF SymHit, SymMiss
<1>8. CASE SymStored(t)
  BY <1>1, <1>8 DEF SymStored
<1>9. CASE Submit(t)
  <2>1. pc' \in [Thread -> PC]
    BY <1>1, <1>9 DEF Submit
  <2>2. answer' = answer \/ answer' = [answer EXCEPT ![t] = [status |-> "ERROR", val |-> 0]]
    BY <1>9 DEF Submit
  <2>3. answer' \in [Thread -> [status : {"none", "OK", "EXCEPTION", "ERROR", "UNFINISHED"},
                               val : Int]]
    <3>1. CASE answer' = answer
      BY <1>1, <3>1
    <3>2. CASE answer' = [answer EXCEPT ![t] = [status |-> "ERROR", val |-> 0]]
      BY <1>1, <3>2
    <3> QED
      BY <2>2, <3>1, <3>2
  <2> QED
    BY <1>1, <1>9, <2>1, <2>3 DEF Submit
<1>10. CASE Status(t)
  <2>1. pc' \in [Thread -> PC]
    BY <1>1, <1>10 DEF Status
  <2>2. answer' = answer \/ answer' = [answer EXCEPT ![t] = [status |-> "ERROR", val |-> 0]]
    BY <1>10 DEF Status
  <2>3. answer' \in [Thread -> [status : {"none", "OK", "EXCEPTION", "ERROR", "UNFINISHED"},
                               val : Int]]
    <3>1. CASE answer' = answer
      BY <1>1, <3>1
    <3>2. CASE answer' = [answer EXCEPT ![t] = [status |-> "ERROR", val |-> 0]]
      BY <1>1, <3>2
    <3> QED
      BY <2>2, <3>1, <3>2
  <2> QED
    BY <1>1, <1>10, <2>1, <2>3 DEF Status
<1>11. CASE Push(t)
  <2>1. request' \in Seq(Thread)
    BY <1>1, <1>11, PushFacts DEF Push
  <2> QED
    BY <1>1, <1>11, <2>1 DEF Push
<1>12. CASE Answered(t)
  <2> DEFINE val == answer[t].val
  <2>1. val \in Int
    BY <1>1
  <2>2. Value(t, val) \in Int
    BY <2>1 DEF Value
  <2>3. answer' \in [Thread -> [status : {"none", "OK", "EXCEPTION", "ERROR", "UNFINISHED"},
                               val : Int]]
    BY <1>1, <1>12 DEF Answered, NoAnswer
  <2>4. held' \subseteq Nat
    <3>1. held' = held \/ (val > 0 /\ held' = held \cup {val})
      BY <1>12 DEF Answered
    <3>2. val > 0 => val \in Nat
      BY <2>1
    <3>3. held \subseteq Nat
      BY <1>1
    <3> HIDE DEF val, TypeOK
    <3> QED
      BY <3>1, <3>2, <3>3
  <2>5. /\ main_mutex' \in Thread \cup {NoThread}
        /\ pc' \in [Thread -> PC] /\ req' \in [Thread -> Request] /\ result' \in [Thread -> Int]
    <3> DEFINE next == Follow(t, val)
    <3>1. \/ Return(t, Value(t, val))
          \/ /\ result' = [result EXCEPT ![t] = val] /\ Goto(t, "store")
             /\ UNCHANGED <<main_mutex, req>>
          \/ next \in Request /\ Ask(t, next)
      BY <1>12 DEF Answered
    <3>2. CASE Return(t, Value(t, val))
      BY <1>1, <2>2, <3>2 DEF Return, Unlock
    <3>3. CASE /\ result' = [result EXCEPT ![t] = val] /\ Goto(t, "store")
               /\ UNCHANGED <<main_mutex, req>>
      BY <1>1, <2>1, <3>3
    <3> HIDE DEF next
    <3>4. CASE next \in Request /\ Ask(t, next)
      BY <1>1, <3>4 DEF Ask, Unlock
    <3> QED
      BY <3>1, <3>2, <3>3, <3>4
  <2>6. UNCHANGED <<sym_mtx, sym_name, state, queue_state, request, wpc, failed, op, contexts, ctx, aborted>>
        /\ main_exited' \in BOOLEAN
    BY <1>12 DEF Answered
  <2> QED
    BY <1>1, <2>3, <2>4, <2>5, <2>6
<1>13. CASE Throws(t)
  <2>1. answer' \in [Thread -> [status : {"none", "OK", "EXCEPTION", "ERROR", "UNFINISHED"},
                               val : Int]]
    BY <1>1, <1>13 DEF Throws, NoAnswer
  <2>2. Return(t, 0) \/ Return(t, Thrown) \/ Ask(t, "read_mem")
    BY <1>13 DEF Throws
  <2>3. /\ main_mutex' \in Thread \cup {NoThread}
        /\ pc' \in [Thread -> PC] /\ req' \in [Thread -> Request] /\ result' \in [Thread -> Int]
    <3>1. CASE Ask(t, "read_mem")
      BY <1>1, <3>1 DEF Ask, Unlock, Request
    <3>2. ASSUME NEW v \in Int, Return(t, v)
          PROVE  /\ main_mutex' \in Thread \cup {NoThread} /\ pc' \in [Thread -> PC]
                 /\ req' \in [Thread -> Request] /\ result' \in [Thread -> Int]
      BY <1>1, <3>2 DEF Return, Unlock
    <3>3. 0 \in Int /\ Thrown \in Int
      BY DEF Thrown
    <3> QED
      BY <2>2, <3>1, <3>2, <3>3
  <2> QED
    BY <1>1, <1>13, <2>1, <2>3 DEF Throws
<1>14. CASE Aborts(t)
  BY <1>1, <1>14 DEF Aborts
<1> QED
  BY <1>2, <1>3, <1>4, <1>5, <1>6, <1>7, <1>8, <1>9, <1>10, <1>11, <1>12, <1>13, <1>14
     DEF Acquire, ThreadStep

LEMMA WorkerType ==
  ASSUME Inv, WorkerStep \/ ContextStarts
  PROVE  TypeOK'
<1> USE DEF TypeOK, PC, sym, worker
<1>1. TypeOK
  BY DEF Inv
<1>2. ASSUME request # << >>
      PROVE  Head(request) \in Thread /\ Tail(request) \in Seq(Thread) /\ ThreadInv(Head(request))
  BY <1>1, <1>2, PopFacts DEF Inv, LocalInv
<1>3. CASE Run
  <2>1. PICK val \in Values(Head(request)) :
          answer' = [answer EXCEPT ![Head(request)] = [status |-> "OK", val |-> val]]
    BY <1>3 DEF Run
  <2>2. val \in Int
    BY <1>1, <1>2, <1>3, <2>1, ValuesFacts DEF Run
  <2> QED
    BY <1>1, <1>2, <1>3, <2>1, <2>2 DEF Run
<1>4. CASE OpenClone
  <2>1. ctx' \in [1..MaxContexts -> Handshake!Context]
    <3>1. ctx' = ctx \/ (contexts < MaxContexts /\ Handshake!Clone(contexts + 1))
      BY <1>4 DEF OpenClone
    <3> DEFINE new == [object |-> "live", own |-> FALSE, state |-> "UNKNOWN",
                       sem |-> "zero", child |-> "init"]
    <3>2. new \in Handshake!Context
      BY DEF Handshake!Context
    <3> QED
      BY <1>1, <3>1, <3>2 DEF Handshake!Clone
  <2> QED
    BY <1>1, <1>4, <2>1, BoundAssumption DEF OpenClone
<1>5. CASE OpenJoin
  <2>1. ctx' \in [1..MaxContexts -> Handshake!Context]
    <3>1. ctx' = [ctx EXCEPT ![contexts] = [@ EXCEPT !.sem = "none"]]
      BY <1>5 DEF OpenJoin, Handshake!SemWait
    <3>2. ctx \in [1..MaxContexts -> Handshake!Context]
      BY <1>1
    <3>3. contexts \in 1..MaxContexts => [ctx[contexts] EXCEPT !.sem = "none"] \in Handshake!Context
      BY <3>2, ContextFields
    <3> HIDE DEF TypeOK
    <3> QED
      BY <3>1, <3>2, <3>3
  <2> QED
    BY <1>1, <1>5, <2>1 DEF OpenJoin
<1>6. CASE OpenDone
  <2>1. request # << >>
    BY <1>6 DEF OpenDone, Inv, QueueInv, WorkerInv
  <2> QED
    BY <1>1, <1>2, <1>6, <2>1, BoundAssumption DEF OpenDone, Failed
<1>7. CASE OpenThrows
  BY <1>1, <1>7 DEF OpenThrows
<1>8. CASE RunExit
  <2>1. /\ answer' = [answer EXCEPT ![Head(request)] = [status |-> "OK", val |-> 0]]
        /\ request # << >> /\ request' = Tail(request)
    BY <1>8 DEF RunExit
  <2>2. answer' \in [Thread -> [status : {"none", "OK", "EXCEPTION", "ERROR", "UNFINISHED"}, val : Int]]
    BY <1>1, <2>1
  <2> QED
    BY <1>1, <1>2, <1>8, <2>1, <2>2 DEF RunExit
<1>9. CASE RunFails
  BY <1>1, <1>2, <1>9 DEF RunFails
<1>10. CASE FailClose
  BY <1>1, <1>10 DEF FailClose
<1>11. CASE FailDrain
  <2>1. request' \in Seq(Thread)
    BY <1>11, EmptySeq DEF FailDrain
  <2> QED
    BY <1>1, <1>11, <2>1 DEF FailDrain
<1>12. CASE ContextStarts
  <2>1. ctx' \in [1..MaxContexts -> Handshake!Context]
    <3>1. PICK c \in 1..contexts : Handshake!StartEventLoop(c) \/ Handshake!SemPost(c)
      BY <1>12 DEF ContextStarts
    <3>2. c \in 1..MaxContexts
      BY <1>1, BoundAssumption
    <3>3. CASE Handshake!StartEventLoop(c)
      <4>1. ctx' = [ctx EXCEPT ![c] = [@ EXCEPT !.own = TRUE, !.state = "RUNNING", !.child = "post"]]
        BY <3>3 DEF Handshake!StartEventLoop
      <4>2. [ctx[c] EXCEPT !.own = TRUE, !.state = "RUNNING", !.child = "post"] \in Handshake!Context
        BY <1>1, <3>2, ContextFields
      <4> QED
        BY <1>1, <4>1, <4>2
    <3>4. CASE Handshake!SemPost(c)
      <4>1. ctx' = [ctx EXCEPT ![c] = [@ EXCEPT !.sem = "posted", !.child = "ve"]]
        BY <3>4 DEF Handshake!SemPost
      <4>2. [ctx[c] EXCEPT !.sem = "posted", !.child = "ve"] \in Handshake!Context
        BY <1>1, <3>2, ContextFields
      <4> QED
        BY <1>1, <4>1, <4>2
    <3> QED
      BY <3>1, <3>3, <3>4
  <2> QED
    BY <1>1, <1>12, <2>1 DEF ContextStarts
<1> QED
  BY <1>3, <1>4, <1>5, <1>6, <1>7, <1>8, <1>9, <1>10, <1>11, <1>12 DEF WorkerStep

-----------------------------------------------------------------------------
(* MutexDiscipline for one thread. *)
Mutex(t) ==
  /\ main_mutex = t <=> /\ pc[t] \in {"submit", "status", "push", "wait", "stuck"}
                        /\ req[t] \in Locked
  /\ sym_mtx = t <=> pc[t] \in {"hit", "miss", "stored"}

(* A step of thread t leaves the other threads alone, ... *)
Others(t) ==
  \A u \in Thread \ {t} :
    pc'[u] = pc[u] /\ op'[u] = op[u] /\ req'[u] = req[u] /\ result'[u] = result[u]
      /\ answer'[u] = answer[u]

(* ... and takes or releases mutexes for itself only. *)
Hands(t) ==
  /\ main_mutex' = main_mutex \/ {main_mutex, main_mutex'} \subseteq {t, NoThread}
  /\ sym_mtx' = sym_mtx \/ {sym_mtx, sym_mtx'} \subseteq {t, NoThread}

CacheStep == \A s \in Symbol : sym_name'[s] \in {sym_name[s], Address[s]}

(* Then only its own part of the invariant has to be looked at. *)
LEMMA LocalFrame ==
  ASSUME Inv, NEW t \in Thread, Others(t), Hands(t), CacheStep, ThreadInv(t)', Mutex(t)'
  PROVE  LocalInv'
<1>1. TypeOK /\ CacheTrue /\ (\A u \in Thread : ThreadInv(u) /\ Mutex(u))
  BY DEF Inv, LocalInv, MutexDiscipline, Mutex
<1>2. CacheTrue'
  BY <1>1 DEF CacheTrue, CacheStep
<1>3. ASSUME NEW u \in Thread, u # t PROVE ThreadInv(u)'
  <2>1. pc'[u] = pc[u] /\ op'[u] = op[u] /\ req'[u] = req[u] /\ result'[u] = result[u]
          /\ answer'[u] = answer[u]
    BY <1>3 DEF Others
  <2>2. pc[u] \in {"hit", "found"} => sym_name'[op[u].symbol] = Address[op[u].symbol]
    BY <1>1, SymbolFacts DEF ThreadInv, CacheStep
  <2> QED
    BY <1>1, <2>1, <2>2 DEF ThreadInv
<1>4. ASSUME NEW u \in Thread, u # t PROVE Mutex(u)'
  <2>1. pc'[u] = pc[u] /\ req'[u] = req[u]
    BY <1>4 DEF Others
  <2>2. (main_mutex' = u <=> main_mutex = u) /\ (sym_mtx' = u <=> sym_mtx = u)
    BY <1>4, NoThreadAssumption DEF Hands
  <2> QED
    BY <1>1, <2>1, <2>2 DEF Mutex
<1> QED
  BY <1>2, <1>3, <1>4 DEF LocalInv, MutexDiscipline, Mutex

(* The actions of a thread touch no other. *)
LEMMA CallerOthers ==
  ASSUME TypeOK, NEW t \in Thread,
         (\E o \in Operation : Call(t, o)) \/ Acquire(t) \/ ThreadStep(t)
  PROVE  Others(t)
<1> USE DEF TypeOK, Others, Goto
<1>1. ASSUME NEW o \in Operation, Call(t, o) PROVE Others(t)
  BY <1>1 DEF Call
<1>2. CASE LockMain(t)
  BY <1>2 DEF LockMain, Return
<1>3. CASE SymFind(t) \/ SymHit(t) \/ SymMiss(t) \/ SymStored(t) \/ SymStore(t)
  BY <1>3 DEF SymFind, SymHit, SymMiss, SymStored, SymStore
<1>4. CASE SymReturn(t)
  BY <1>4 DEF SymReturn, Return
<1>5. CASE Submit(t) \/ Status(t)
  BY <1>5 DEF Submit, Status
<1>6. CASE Push(t) \/ Aborts(t)
  BY <1>6 DEF Push, Aborts
<1>7. CASE Answered(t)
  BY <1>7 DEF Answered, Return, Ask
<1>8. CASE Throws(t)
  BY <1>8 DEF Throws, Return, Ask
<1> QED
  BY <1>1, <1>2, <1>3, <1>4, <1>5, <1>6, <1>7, <1>8 DEF Acquire, ThreadStep

(* A thread calls, locks, looks the cache up or stores in it. *)
LEMMA CallLocal ==
  ASSUME Inv, NEW t \in Thread,
         \/ (\E o \in Operation : Call(t, o)) \/ Acquire(t)
         \/ SymHit(t) \/ SymReturn(t) \/ SymMiss(t) \/ SymStored(t)
  PROVE  LocalInv'
<1>1. TypeOK /\ ThreadInv(t) /\ Mutex(t) /\ CacheTrue
  BY DEF Inv, LocalInv, MutexDiscipline, Mutex
<1>2. Others(t)
  BY <1>1, CallerOthers DEF ThreadStep
<1>3. ASSUME NEW o \in Operation, Call(t, o) PROVE LocalInv'
  <2>1. /\ pc[t] = "idle" /\ op'[t] = o /\ req'[t] = FirstRequest(o.name) /\ answer' = answer
        /\ pc'[t] = IF o.name = "getSym" THEN "find"
                    ELSE IF FirstRequest(o.name) \in Locked THEN "mutex" ELSE "submit"
        /\ UNCHANGED <<main_mutex, sym_mtx, sym_name>>
    BY <1>1, <1>3 DEF Call, Goto, TypeOK, sym
  <2>2. answer[t] = NoAnswer
    BY <2>1 DEF Inv, QueueInv, AnswerBelongs
  <2>3. ThreadInv(t)'
    BY <2>1, <2>2, CallFacts DEF ThreadInv, NoAnswer
  <2>4. Mutex(t)'
    BY <1>1, <2>1, CallFacts DEF Mutex
  <2> QED
    BY <1>2, <2>1, <2>3, <2>4, LocalFrame DEF Hands, CacheStep
<1>4. CASE LockMain(t)
  <2>1. /\ pc[t] = "mutex" /\ main_mutex = NoThread
        /\ op' = op /\ req' = req /\ answer' = answer /\ UNCHANGED <<sym_mtx, sym_name>>
        /\ \/ pc'[t] = "idle" /\ main_mutex' = NoThread /\ req[t] = "exit"
           \/ pc'[t] = "submit" /\ main_mutex' = t /\ result' = result
    BY <1>1, <1>4, NoThreadAssumption DEF LockMain, Goto, TypeOK, sym, Return, Unlock
  <2>2. ThreadInv(t)'
    BY <1>1, <2>1 DEF ThreadInv
  <2>3. Mutex(t)'
    BY <1>1, <2>1, NoThreadAssumption DEF Mutex, ThreadInv
  <2> QED
    BY <1>2, <2>1, <2>2, <2>3, LocalFrame DEF Hands, CacheStep
<1>5. CASE SymFind(t)
  <2>1. req[t] = "find_sym"
    BY <1>1, <1>5 DEF SymFind, ThreadInv
  <2>2. op[t].symbol \in Symbol
    BY <1>1, <2>1, SymbolFacts
  <2>3. /\ pc[t] = "find" /\ sym_mtx = NoThread /\ sym_mtx' = t
        /\ UNCHANGED <<main_mutex, sym_name, answer, op, req, result>>
        /\ pc'[t] = IF sym_name[op[t].symbol] # None THEN "hit" ELSE "miss"
    BY <1>1, <1>5 DEF SymFind, Goto, TypeOK, CacheKey
  <2>4. ThreadInv(t)'
    BY <1>1, <2>1, <2>2, <2>3 DEF ThreadInv, CacheTrue
  <2>5. Mutex(t)'
    BY <1>1, <2>3 DEF Mutex
  <2> QED
    BY <1>2, <2>3, <2>4, <2>5, LocalFrame DEF Hands, CacheStep
<1>6. CASE SymStore(t)
  <2>1. req[t] = "find_sym" /\ result[t] = Address[op[t].symbol]
    BY <1>1, <1>6 DEF SymStore, ThreadInv
  <2>2. op[t].symbol \in Symbol
    BY <1>1, <2>1, SymbolFacts
  <2>3. /\ pc[t] = "store" /\ sym_mtx = NoThread /\ sym_mtx' = t /\ pc'[t] = "stored"
        /\ UNCHANGED <<main_mutex, answer, op, req, result>>
        /\ sym_name' = [sym_name EXCEPT ![op[t].symbol] = result[t]]
    BY <1>1, <1>6 DEF SymStore, Goto, TypeOK, CacheKey
  <2>4. CacheStep
    BY <1>1, <2>1, <2>3 DEF CacheStep, TypeOK
  <2>5. ThreadInv(t)'
    BY <1>1, <2>1, <2>3 DEF ThreadInv
  <2>6. Mutex(t)'
    BY <1>1, <2>3 DEF Mutex
  <2> QED
    BY <1>2, <2>3, <2>4, <2>5, <2>6, LocalFrame DEF Hands
<1>7. CASE SymReturn(t)
  <2>1. req[t] = "find_sym" /\ sym_mtx # t /\ main_mutex # t
    BY <1>1, <1>7 DEF SymReturn, ThreadInv, Mutex
  <2>2. /\ pc[t] = "found" /\ sym_mtx' = sym_mtx /\ pc'[t] = "idle" /\ main_mutex' = main_mutex
        /\ UNCHANGED <<sym_name, answer, op, req>>
        /\ result'[t] = sym_name[op[t].symbol]
    BY <1>1, <1>7, <2>1 DEF SymReturn, Goto, TypeOK, CacheKey, Return, Unlock, sym
  <2>3. ThreadInv(t)'
    BY <1>1, <2>1, <2>2 DEF ThreadInv
  <2>4. Mutex(t)'
    BY <1>1, <2>1, <2>2, NoThreadAssumption DEF Mutex
  <2> QED
    BY <1>2, <2>1, <2>2, <2>3, <2>4, LocalFrame DEF Hands, CacheStep
<1>8. CASE SymHit(t) \/ SymMiss(t) \/ SymStored(t)
  <2>1. req[t] = "find_sym" /\ sym_mtx = t /\ main_mutex # t
    BY <1>1, <1>8 DEF SymHit, SymMiss, SymStored, ThreadInv, Mutex
  <2>2. /\ sym_mtx' = NoThread
        /\ \/ pc[t] = "hit" /\ pc'[t] = "found"
           \/ pc[t] = "miss" /\ pc'[t] = "submit"
           \/ pc[t] = "stored" /\ pc'[t] = "idle"
        /\ UNCHANGED <<main_mutex, sym_name, answer, op, req, result>>
    BY <1>1, <1>8 DEF SymHit, SymMiss, SymStored, Goto, TypeOK
  <2>3. ThreadInv(t)'
    BY <1>1, <2>1, <2>2 DEF ThreadInv
  <2>4. Mutex(t)'
    BY <1>1, <2>1, <2>2, NoThreadAssumption DEF Mutex, Locked
  <2> QED
    BY <1>2, <2>1, <2>2, <2>3, <2>4, LocalFrame DEF Hands, CacheStep
<1> QED
  BY <1>3, <1>4, <1>5, <1>6, <1>7, <1>8 DEF Acquire

(* A thread submits its request and gets the answer. *)
LEMMA SubmitLocal ==
  ASSUME Inv, NEW t \in Thread,
         Submit(t) \/ Status(t) \/ Push(t) \/ Answered(t) \/ Throws(t) \/ Aborts(t)
  PROVE  LocalInv'
<1>1. TypeOK /\ ThreadInv(t) /\ Mutex(t) /\ CacheTrue
  BY DEF Inv, LocalInv, MutexDiscipline, Mutex
<1>2. Others(t)
  BY <1>1, CallerOthers DEF ThreadStep
<1>3. sym_name' = sym_name /\ sym_mtx' = sym_mtx /\ op' = op
  BY DEF Submit, Status, Push, Answered, Throws, Aborts, sym
<1>4. CASE Submit(t) \/ Status(t) \/ Push(t) \/ Aborts(t)
  <2>1. UNCHANGED <<main_mutex, req, result>>
    BY <1>4 DEF Submit, Status, Push, Aborts
  <2>2. /\ pc[t] \in {"submit", "status", "push", "wait"}
        /\ pc'[t] \in {"submit", "status", "push", "wait", "stuck"}
    BY <1>1, <1>4 DEF Submit, Status, Push, Aborts, Goto, TypeOK
  <2>3. answer'[t] = answer[t] \/ answer'[t].status = "ERROR"
    <3>1. CASE answer' = answer
      BY <3>1
    <3>2. CASE answer' = [answer EXCEPT ![t] = [status |-> "ERROR", val |-> 0]]
      BY <1>1, <3>2 DEF TypeOK
    <3> QED
      BY <1>4, <3>1, <3>2 DEF Submit, Status, Push, Aborts
  <2>4. ThreadInv(t)'
    BY <1>1, <1>3, <2>1, <2>2, <2>3 DEF ThreadInv
  <2>5. Mutex(t)'
    BY <1>1, <1>3, <2>1, <2>2 DEF Mutex
  <2> QED
    BY <1>2, <1>3, <2>1, <2>4, <2>5, LocalFrame DEF Hands, CacheStep
<1>5. CASE Answered(t)
  <2> DEFINE val == answer[t].val
             next == Follow(t, val)
  <2>1. val \in Int /\ pc[t] = "wait" /\ answer'[t] = NoAnswer
        /\ (answer[t].status = "OK" \/ req[t] = "exit")
    BY <1>1, <1>5 DEF Answered, TypeOK
  <2>2. req[t] = "find_sym" => val = Address[op[t].symbol] /\ op[t].name = "getSym"
    BY <1>1, <2>1 DEF ThreadInv
  <2>3. \/ next = "return" /\ Return(t, Value(t, val))
        \/ /\ next = "store" /\ result' = [result EXCEPT ![t] = val] /\ Goto(t, "store")
           /\ UNCHANGED <<main_mutex, req>>
        \/ next \in Request /\ Ask(t, next)
    BY <1>5 DEF Answered
  <2>4. /\ next = "store" => req[t] = "find_sym"
        /\ req[t] = "find_sym" => next \in {"return", "store"}
        /\ next \in {"return", "store", "alloc_buff", "load_library_err", "read_mem", "free_buff"}
    BY <1>1, <2>1, FollowFacts
  <2> HIDE DEF val, next
  <2>5. CASE next = "return"
    <3>1. Return(t, Value(t, val))
      BY <2>3, <2>5 DEF Request
    <3>2. /\ pc'[t] = "idle" /\ req' = req /\ result'[t] = Value(t, val)
          /\ main_mutex' = IF main_mutex = t THEN NoThread ELSE main_mutex
      BY <1>1, <3>1 DEF Return, Unlock, Goto, TypeOK
    <3>3. req[t] = "find_sym" => result'[t] = val
      BY <2>2, <3>2 DEF Value
    <3>4. ThreadInv(t)'
      BY <1>1, <1>3, <2>1, <2>2, <3>2, <3>3 DEF ThreadInv, NoAnswer
    <3>5. Mutex(t)'
      BY <1>1, <1>3, <2>1, <3>2, NoThreadAssumption DEF Mutex
    <3> QED
      BY <1>2, <1>3, <3>2, <3>4, <3>5, LocalFrame DEF Hands, CacheStep
  <2>6. CASE next = "store"
    <3>1. result' = [result EXCEPT ![t] = val] /\ Goto(t, "store") /\ UNCHANGED <<main_mutex, req>>
      BY <2>3, <2>6 DEF Request
    <3>2. pc'[t] = "store" /\ result'[t] = val /\ req[t] = "find_sym"
      BY <1>1, <2>4, <2>6, <3>1 DEF Goto, TypeOK
    <3>3. ThreadInv(t)'
      BY <1>1, <1>3, <2>1, <2>2, <3>1, <3>2 DEF ThreadInv, NoAnswer
    <3>4. Mutex(t)'
      BY <1>1, <1>3, <2>1, <3>1, <3>2 DEF Mutex, Locked
    <3> QED
      BY <1>2, <1>3, <3>1, <3>3, <3>4, LocalFrame DEF Hands, CacheStep
  <2>7. CASE next \notin {"return", "store"}
    <3>1. Ask(t, next) /\ req[t] # "find_sym" /\ next # "find_sym"
      BY <2>3, <2>4, <2>7
    <3>2. /\ req'[t] = next /\ pc'[t] = IF next \in Locked THEN "mutex" ELSE "submit"
          /\ main_mutex' = IF main_mutex = t THEN NoThread ELSE main_mutex
      BY <1>1, <3>1 DEF Ask, Unlock, Goto, TypeOK
    <3>3. ThreadInv(t)'
      BY <1>1, <1>3, <2>1, <3>1, <3>2 DEF ThreadInv, NoAnswer
    <3>4. Mutex(t)'
      BY <1>1, <1>3, <2>1, <3>2, NoThreadAssumption DEF Mutex
    <3> QED
      BY <1>2, <1>3, <3>2, <3>3, <3>4, LocalFrame DEF Hands, CacheStep
  <2> QED
    BY <2>5, <2>6, <2>7
<1>6. CASE Throws(t)
  <2>1. pc[t] = "wait" /\ answer'[t] = NoAnswer
    BY <1>1, <1>6 DEF Throws, TypeOK
  <2>2. \/ Return(t, 0) /\ op[t].name = "loadLibrary"
        \/ Return(t, Thrown)
        \/ Ask(t, "read_mem") /\ op[t].name = "loadLibrary"
    BY <1>6 DEF Throws
  <2>3. /\ main_mutex' = IF main_mutex = t THEN NoThread ELSE main_mutex
        /\ \/ pc'[t] = "idle" /\ req' = req /\ (result'[t] = Thrown \/ op[t].name = "loadLibrary")
           \/ pc'[t] = "mutex" /\ req'[t] = "read_mem" /\ op[t].name = "loadLibrary"
    BY <1>1, <2>2 DEF Return, Ask, Unlock, Goto, TypeOK, Locked
  <2>4. ThreadInv(t)'
    BY <1>1, <1>3, <2>1, <2>3 DEF ThreadInv, NoAnswer, Locked
  <2>5. Mutex(t)'
    BY <1>1, <1>3, <2>1, <2>3, NoThreadAssumption DEF Mutex
  <2> QED
    BY <1>2, <1>3, <2>3, <2>4, <2>5, LocalFrame DEF Hands, CacheStep
<1> QED
  BY <1>4, <1>5, <1>6

(* The worker answers truly. *)
LEMMA WorkerLocal ==
  ASSUME Inv, WorkerStep \/ ContextStarts
  PROVE  LocalInv'
<1>1. TypeOK /\ CacheTrue /\ MutexDiscipline /\ (\A t \in Thread : ThreadInv(t))
  BY DEF Inv, LocalInv
<1>2. UNCHANGED <<main_mutex, sym_mtx, sym_name, pc, op, req, result>>
  BY DEF WorkerStep, Run, OpenClone, OpenJoin, OpenDone, OpenThrows, RunExit, RunFails, FailClose,
         FailDrain, ContextStarts, sym
<1>3. ASSUME request # << >> PROVE Head(request) \in Thread
  BY <1>1, <1>3, PopFacts DEF TypeOK
<1>4. ASSUME NEW t \in Thread
      PROVE  answer'[t].status = "OK" /\ req[t] = "find_sym" => answer'[t].val = Address[op[t].symbol]
  <2>0. answer[t].status = "OK" /\ req[t] = "find_sym" => answer[t].val = Address[op[t].symbol]
    BY <1>1 DEF ThreadInv
  <2>1. CASE Run
    <3>1. PICK val \in Values(Head(request)) :
            answer' = [answer EXCEPT ![Head(request)] = [status |-> "OK", val |-> val]]
      BY <2>1 DEF Run
    <3>2. Head(request) \in Thread
      BY <2>1, <1>3 DEF Run
    <3>3. req[Head(request)] = "find_sym" => val = Address[op[Head(request)].symbol]
      BY <1>1, <3>2, ValuesFacts
    <3>4. CASE t = Head(request)
      BY <1>1, <3>1, <3>3, <3>4 DEF TypeOK
    <3>5. CASE t # Head(request)
      BY <1>1, <2>0, <3>1, <3>5 DEF TypeOK
    <3> QED
      BY <3>4, <3>5
  <2>2. CASE OpenDone \/ RunExit
    <3>1. request # << >> /\ req[Head(request)] \in {"create_thread", "exit"}
      BY <2>2 DEF OpenDone, RunExit, Inv, QueueInv, WorkerInv
    <3>2. CASE t = Head(request)
      BY <3>1, <3>2
    <3>3. CASE t # Head(request)
      BY <1>1, <2>0, <2>2, <3>3 DEF TypeOK, OpenDone, RunExit
    <3> QED
      BY <3>2, <3>3
  <2>3. CASE FailDrain
    <3>1. answer'[t] = answer[t] \/ answer'[t].status \in {"ERROR", "EXCEPTION", "UNFINISHED"}
      BY <2>3 DEF FailDrain
    <3> QED
      BY <2>0, <3>1
  <2>4. CASE OpenClone \/ OpenJoin \/ OpenThrows \/ RunFails \/ FailClose \/ ContextStarts
    <3>1. answer' = answer
      BY <2>4 DEF OpenClone, OpenJoin, OpenThrows, RunFails, FailClose, ContextStarts
    <3> QED
      BY <2>0, <3>1
  <2> QED
    BY <2>1, <2>2, <2>3, <2>4 DEF WorkerStep
<1>5. ASSUME NEW t \in Thread PROVE ThreadInv(t)'
  BY <1>1, <1>2, <1>4 DEF ThreadInv
<1>6. CacheTrue' /\ MutexDiscipline'
  BY <1>1, <1>2 DEF CacheTrue, MutexDiscipline
<1> QED
  BY <1>5, <1>6 DEF LocalInv

-----------------------------------------------------------------------------
(* AnswerBelongs for one thread. *)
Belongs(t) ==
  /\ t = failed \/ Queued(t) => pc[t] = "wait" /\ answer[t] = NoAnswer
  /\ t = failed => ~Queued(t)
  /\ answer[t] # NoAnswer => pc[t] = "wait"
Distinct == \A i, j \in 1..Len(request) : request[i] = request[j] => i = j

LEMMA BelongsDef == AnswerBelongs <=> Distinct /\ \A t \in Thread : Belongs(t)
  BY DEF AnswerBelongs, Distinct, Belongs, Queued

LEMMA HeadQueued ==
  ASSUME request \in Seq(Thread), request # << >>
  PROVE  Head(request) \in Thread /\ Queued(Head(request))
  BY PopFacts DEF Queued

(* A thread calls, locks or gets its answer: it has no request with the    *)
(* worker, before or after.                                                *)
LEMMA CallerQueue ==
  ASSUME Inv, NEW t \in Thread,
         (\E o \in Operation : Call(t, o)) \/ Acquire(t) \/ ThreadStep(t)
  PROVE  QueueInv'
<1>1. TypeOK /\ WorkerInv /\ Distinct /\ \A u \in Thread : Belongs(u)
  BY BelongsDef DEF Inv, QueueInv
<1>2. Others(t)
  BY <1>1, CallerOthers
<1>3. wpc' = wpc /\ contexts' = contexts /\ failed' = failed
  BY DEF Acquire, ThreadStep, Call, LockMain, SymFind, SymStore, SymHit, SymReturn, SymMiss, SymStored, Submit,
         Status, Push, Answered, Throws, Aborts, worker
<1>4. CASE Push(t)
  <2>1. /\ pc[t] = "push" /\ pc'[t] = "wait" /\ answer' = answer /\ req' = req
        /\ request' = Append(request, t)
    BY <1>1, <1>4 DEF Push, Goto, TypeOK
  <2>2. ~Queued(t) /\ t # failed /\ answer[t] = NoAnswer
    BY <1>1, <2>1 DEF Belongs
  <2>3. Distinct' /\ \A u : Queued(u)' <=> Queued(u) \/ u = t
    BY <1>1, <2>1, <2>2, PushQueued DEF TypeOK, Distinct
  <2>4. ASSUME NEW u \in Thread PROVE Belongs(u)'
    <3>1. CASE u = t
      BY <1>3, <2>1, <2>2, <3>1 DEF Belongs
    <3>2. CASE u # t
      <4>1. Queued(u)' <=> Queued(u)
        BY <2>3, <3>2
      <4>2. pc'[u] = pc[u]
        BY <1>2, <3>2 DEF Others
      <4> QED
        BY <1>1, <1>3, <2>1, <4>1, <4>2 DEF Belongs
    <3> QED
      BY <3>1, <3>2
  <2>5. request' # << >> /\ (request # << >> => Head(request') = Head(request))
    <3>1. request \in Seq(Thread)
      BY <1>1 DEF TypeOK
    <3> QED
      BY <2>1, <3>1, PushFacts
  <2>6. WorkerInv'
    BY <1>1, <1>3, <2>1, <2>5 DEF WorkerInv
  <2> QED
    BY <2>3, <2>4, <2>6, BelongsDef DEF QueueInv, AnswerBelongs, Distinct, Belongs, Queued
<1>5. CASE ~Push(t)
  <2>1. request' = request
    BY <1>5 DEF Acquire, ThreadStep, Call, LockMain, SymFind, SymStore, SymHit, SymReturn, SymMiss, SymStored,
           Submit, Status, Answered, Throws, Aborts, worker
  <2>2. \/ pc[t] # "wait" \/ answer[t] # NoAnswer
    BY <1>5 DEF Acquire, ThreadStep, Call, LockMain, SymFind, SymStore, SymHit, SymReturn, SymMiss, SymStored,
           Submit, Status, Answered, Throws, Aborts
  <2>3. ~Queued(t) /\ t # failed
    BY <1>1, <2>2 DEF Belongs
  <2>4. answer'[t] # NoAnswer => pc'[t] = "wait"
    <3>1. CASE Submit(t) \/ Status(t)
      <4>1. pc[t] # "wait" /\ answer[t] = NoAnswer
        BY <1>1, <3>1 DEF Submit, Status, Belongs
      <4>2. answer' = answer \/ pc' = [pc EXCEPT ![t] = "wait"]
        BY <3>1 DEF Submit, Status, Goto
      <4> QED
        BY <1>1, <4>1, <4>2 DEF TypeOK
    <3>2. CASE Answered(t) \/ Throws(t)
      BY <1>1, <3>2 DEF Answered, Throws, TypeOK
    <3>3. CASE Aborts(t)
      BY <1>1, <3>3 DEF Aborts, Belongs
    <3>4. CASE ~(Submit(t) \/ Status(t) \/ Answered(t) \/ Throws(t) \/ Aborts(t))
      <4>1. answer' = answer /\ pc[t] # "wait"
        BY <1>5, <3>4 DEF Acquire, ThreadStep, Call, LockMain, SymFind, SymStore, SymHit, SymReturn, SymMiss,
               SymStored
      <4> QED
        BY <1>1, <4>1 DEF Belongs
    <3> QED
      BY <3>1, <3>2, <3>3, <3>4
  <2>5. \A u : Queued(u)' <=> Queued(u)
    BY <2>1 DEF Queued
  <2>6. ASSUME NEW u \in Thread PROVE Belongs(u)'
    <3>1. CASE u = t
      BY <1>3, <2>3, <2>4, <2>5, <3>1 DEF Belongs
    <3>2. CASE u # t
      BY <1>1, <1>2, <1>3, <2>5, <3>2 DEF Belongs, Others
    <3> QED
      BY <3>1, <3>2
  <2>7. WorkerInv'
    <3>1. ASSUME request # << >> PROVE req'[Head(request)] = req[Head(request)]
      BY <1>1, <1>2, <2>3, <3>1, HeadQueued DEF TypeOK, Others
    <3> QED
      BY <1>1, <1>3, <2>1, <3>1 DEF WorkerInv
  <2>8. Distinct'
    BY <1>1, <2>1 DEF Distinct
  <2> QED
    BY <2>6, <2>7, <2>8 DEF QueueInv, AnswerBelongs, Distinct, Belongs, Queued
<1> QED
  BY <1>4, <1>5

(* The worker takes a request and answers it, or keeps it as failed. *)
LEMMA WorkerQueue ==
  ASSUME Inv, WorkerStep \/ ContextStarts
  PROVE  QueueInv'
<1>1. TypeOK /\ WorkerInv /\ Distinct /\ \A u \in Thread : Belongs(u)
  BY BelongsDef DEF Inv, QueueInv
<1>2. pc' = pc /\ req' = req
  BY DEF WorkerStep, Run, OpenClone, OpenJoin, OpenDone, OpenThrows, RunExit, RunFails, FailClose,
         FailDrain, ContextStarts
<1>3. ASSUME request # << >>, request' = Tail(request)
      PROVE  /\ Head(request) \in Thread /\ Queued(Head(request))
             /\ Distinct' /\ \A u : Queued(u)' <=> Queued(u) /\ u # Head(request)
  BY <1>1, <1>3, PopQueued DEF TypeOK, Distinct
<1>4. CASE Run \/ OpenDone \/ RunExit
  <2> DEFINE h == Head(request)
  <2>1. request # << >> /\ request' = Tail(request) /\ failed' = failed /\ wpc' \in {"loop", "gone"}
    BY <1>1, <1>4 DEF Run, OpenDone, RunExit, WorkerInv
  <2>2. h \in Thread /\ Queued(h) /\ Distinct' /\ \A u : Queued(u)' <=> Queued(u) /\ u # h
    BY <1>3, <2>1
  <2>3. \A u \in Thread : u # h => answer'[u] = answer[u]
    BY <1>1, <1>4, <2>2 DEF Run, OpenDone, RunExit, TypeOK
  <2>4. pc[h] = "wait" /\ h # failed
    BY <1>1, <2>2 DEF Belongs
  <2> HIDE DEF h
  <2>5. ASSUME NEW u \in Thread PROVE Belongs(u)'
    <3>1. CASE u = h
      BY <1>2, <2>1, <2>2, <2>4, <3>1 DEF Belongs
    <3>2. CASE u # h
      <4>1. Queued(u)' <=> Queued(u)
        BY <2>2, <3>2
      <4> QED
        BY <1>1, <1>2, <2>1, <2>3, <3>2, <4>1 DEF Belongs
    <3> QED
      BY <3>1, <3>2
  <2>6. WorkerInv'
    BY <2>1 DEF WorkerInv
  <2> QED
    BY <2>2, <2>5, <2>6 DEF QueueInv, AnswerBelongs, Distinct, Belongs, Queued
<1>5. CASE RunFails
  <2> DEFINE h == Head(request)
  <2>1. /\ request # << >> /\ request' = Tail(request) /\ failed' = h /\ wpc' = "close"
        /\ answer' = answer
    BY <1>5 DEF RunFails
  <2>2. h \in Thread /\ Queued(h) /\ Distinct' /\ \A u : Queued(u)' <=> Queued(u) /\ u # h
    BY <1>3, <2>1
  <2> HIDE DEF h
  <2>3. ASSUME NEW u \in Thread PROVE Belongs(u)'
    BY <1>1, <1>2, <2>1, <2>2 DEF Belongs
  <2>4. WorkerInv'
    BY <2>1 DEF WorkerInv
  <2> QED
    BY <2>2, <2>3, <2>4 DEF QueueInv, AnswerBelongs, Distinct, Belongs, Queued
<1>6. CASE FailDrain
  <2>1. request' = << >> /\ failed' = NoThread /\ wpc' = "gone"
    BY <1>6 DEF FailDrain
  <2>2. Len(request') = 0
    BY <2>1, EmptySeq
  <2>3. Distinct' /\ \A u : ~Queued(u)'
    BY <2>2 DEF Distinct, Queued
  <2>4. ASSUME NEW u \in Thread PROVE Belongs(u)'
    <3>1. u = failed \/ Queued(u) \/ answer'[u] = answer[u]
      BY <1>6 DEF FailDrain, Queued
    <3>2. u # failed'
      BY <2>1, NoThreadAssumption
    <3> QED
      BY <1>1, <1>2, <2>3, <3>1, <3>2 DEF Belongs
  <2>5. WorkerInv'
    BY <2>1 DEF WorkerInv
  <2> QED
    BY <2>3, <2>4, <2>5 DEF QueueInv, AnswerBelongs, Distinct, Belongs, Queued
<1>7. CASE OpenClone \/ OpenJoin \/ OpenThrows \/ FailClose \/ ContextStarts
  <2>1. request' = request /\ failed' = failed /\ answer' = answer
    BY <1>7 DEF OpenClone, OpenJoin, OpenThrows, FailClose, ContextStarts, worker
  <2>2. \A u : Queued(u)' <=> Queued(u)
    BY <2>1 DEF Queued
  <2>3. Distinct'
    BY <1>1, <2>1 DEF Distinct
  <2>4. ASSUME NEW u \in Thread PROVE Belongs(u)'
    BY <1>1, <1>2, <2>1, <2>2 DEF Belongs
  <2>5. WorkerInv'
    BY <1>1, <1>2, <1>7, <2>1 DEF WorkerInv, OpenClone, OpenJoin, OpenThrows, FailClose, ContextStarts,
       worker, TypeOK
  <2> QED
    BY <2>3, <2>4, <2>5 DEF QueueInv, AnswerBelongs, Distinct, Belongs, Queued
<1> QED
  BY <1>4, <1>5, <1>6, <1>7 DEF WorkerStep

-----------------------------------------------------------------------------
(* The handshake: a parent goes on only after its child. *)
LEMMA ContextStep ==
  ASSUME Inv, Next
  PROVE  ContextInv'
<1>1. TypeOK /\ ContextInv /\ WorkerInv
  BY DEF Inv, QueueInv
<1>2. contexts \in Nat /\ MaxContexts \in Nat /\ contexts <= MaxContexts
  BY <1>1, BoundAssumption DEF TypeOK
<1>3. CASE OpenClone
  <2>1. CASE contexts < MaxContexts /\ contexts' = contexts + 1 /\ wpc' = "semwait"
               /\ Handshake!Clone(contexts + 1)
    <3>1. contexts + 1 \in 1..MaxContexts
      BY <1>2, <2>1
    <3>2. /\ ctx'[contexts + 1] = [object |-> "live", own |-> FALSE, state |-> "UNKNOWN",
                                   sem |-> "zero", child |-> "init"]
          /\ \A c \in 1..MaxContexts : c # contexts + 1 => ctx'[c] = ctx[c]
      BY <1>1, <2>1, <3>1 DEF Handshake!Clone, TypeOK
    <3>3. wpc = "loop"
      BY <1>3 DEF OpenClone
    <3>4. ASSUME NEW c \in 1..MaxContexts, c # contexts + 1
          PROVE  (c > contexts' <=> c > contexts) /\ (c <= contexts' <=> c <= contexts)
      BY <1>2, <2>1, <3>4
    <3> QED
      BY <1>1, <1>2, <2>1, <3>2, <3>3, <3>4 DEF ContextInv
  <2>2. CASE wpc' = "notopen" /\ UNCHANGED <<contexts, ctx>>
    BY <1>1, <1>3, <2>2 DEF OpenClone, ContextInv
  <2> QED
    BY <1>3, <2>1, <2>2 DEF OpenClone
<1>4. CASE OpenJoin
  <2>1. /\ contexts' = contexts /\ contexts \in 1..MaxContexts /\ wpc' = "opened"
        /\ ctx[contexts].sem = "posted"
    BY <1>1, <1>2, <1>4 DEF OpenJoin, Handshake!SemWait, WorkerInv
  <2>2. ctx[contexts].child = "ve"
    BY <1>1, <1>2, <2>1 DEF ContextInv
  <2>3. /\ ctx'[contexts] = [ctx[contexts] EXCEPT !.sem = "none"]
        /\ \A c \in 1..MaxContexts : c # contexts => ctx'[c] = ctx[c]
    BY <1>1, <1>4, <2>1 DEF OpenJoin, Handshake!SemWait, TypeOK
  <2>4. /\ ctx'[contexts].object = ctx[contexts].object /\ ctx'[contexts].own = ctx[contexts].own
        /\ ctx'[contexts].state = ctx[contexts].state /\ ctx'[contexts].child = ctx[contexts].child
        /\ ctx'[contexts].sem = "none"
    BY <1>1, <2>1, <2>3 DEF TypeOK, Handshake!Context
  <2>5. /\ ctx[contexts].object = "live" /\ ctx[contexts].own /\ ctx[contexts].state = "RUNNING"
    BY <1>1, <1>2, <2>1, <2>2 DEF ContextInv
  <2> DEFINE Shape(c) ==
        /\ c > contexts => ctx[c] = Handshake!NoContext
        /\ c <= contexts =>
             /\ ctx[c].object = "live"
             /\ \/ ctx[c].child = "init" /\ ctx[c].sem = "zero"
                \/ ctx[c].child = "post" /\ ctx[c].sem = "zero" /\ ctx[c].own /\ ctx[c].state = "RUNNING"
                \/ ctx[c].child = "ve" /\ ctx[c].sem # "zero" /\ ctx[c].own /\ ctx[c].state = "RUNNING"
             /\ ctx[c].child # "ve" => c = contexts /\ wpc = "semwait"
  <2>6. ASSUME NEW c \in 1..MaxContexts, c # contexts PROVE Shape(c)'
    <3>1. Shape(c) /\ ctx'[c] = ctx[c]
      BY <1>1, <2>3, <2>6 DEF ContextInv
    <3> QED
      BY <2>1, <2>6, <3>1
  <2>7. Shape(contexts)'
    BY <1>2, <2>1, <2>2, <2>4, <2>5
  <2>8. \A c \in 1..MaxContexts : Shape(c)'
    BY <2>1, <2>6, <2>7
  <2> QED
    BY <2>8 DEF ContextInv
<1>5. CASE ContextStarts
  <2>1. PICK c \in 1..contexts : Handshake!StartEventLoop(c) \/ Handshake!SemPost(c)
    BY <1>5 DEF ContextStarts
  <2>2. c \in 1..MaxContexts /\ c <= contexts /\ ~(c > contexts)
    BY <1>2
  <2>3. contexts' = contexts /\ wpc' = wpc
    BY <1>5 DEF ContextStarts, worker
  <2>4. \A d \in 1..MaxContexts : d # c => ctx'[d] = ctx[d]
    BY <1>1, <2>1 DEF TypeOK, Handshake!StartEventLoop, Handshake!SemPost
  <2>5. CASE Handshake!StartEventLoop(c)
    <3>1. /\ ctx[c].child = "init"
          /\ ctx'[c] = [ctx[c] EXCEPT !.own = TRUE, !.state = "RUNNING", !.child = "post"]
      BY <1>1, <2>2, <2>5 DEF TypeOK, Handshake!StartEventLoop
    <3>2. /\ ctx'[c].object = ctx[c].object /\ ctx'[c].own /\ ctx'[c].state = "RUNNING"
          /\ ctx'[c].child = "post" /\ ctx'[c].sem = ctx[c].sem
      BY <1>1, <2>2, <3>1 DEF TypeOK, Handshake!Context
    <3>3. /\ ctx[c].object = "live" /\ ctx[c].sem = "zero" /\ c = contexts /\ wpc = "semwait"
      BY <1>1, <2>2, <3>1 DEF ContextInv
    <3> QED
      BY <1>1, <2>2, <2>3, <2>4, <3>2, <3>3 DEF ContextInv
  <2>6. CASE Handshake!SemPost(c)
    <3>1. ctx[c].child = "post" /\ ctx'[c] = [ctx[c] EXCEPT !.sem = "posted", !.child = "ve"]
      BY <1>1, <2>2, <2>6 DEF TypeOK, Handshake!SemPost
    <3>2. /\ ctx'[c].object = ctx[c].object /\ ctx'[c].own = ctx[c].own
          /\ ctx'[c].state = ctx[c].state /\ ctx'[c].child = "ve" /\ ctx'[c].sem = "posted"
      BY <1>1, <2>2, <3>1 DEF TypeOK, Handshake!Context
    <3>3. ctx[c].object = "live" /\ ctx[c].own /\ ctx[c].state = "RUNNING"
      BY <1>1, <2>2, <3>1 DEF ContextInv
    <3> QED
      BY ZenonT(30), <1>1, <2>2, <2>3, <2>4, <3>2, <3>3 DEF ContextInv
  <2> QED
    BY <2>1, <2>5, <2>6
<1>6. CASE Run \/ OpenDone \/ OpenThrows \/ RunExit \/ RunFails \/ FailClose \/ FailDrain
  <2>1. UNCHANGED <<contexts, ctx>> /\ (wpc = "semwait" => wpc' = wpc)
    BY <1>6 DEF Run, OpenDone, OpenThrows, RunExit, RunFails, FailClose, FailDrain, worker
  <2> QED
    BY <1>1, <2>1 DEF ContextInv
<1>7. ASSUME NEW t \in Thread, (\E o \in Operation : Call(t, o)) \/ Acquire(t) \/ ThreadStep(t)
      PROVE  ContextInv'
  <2>1. UNCHANGED <<contexts, ctx, wpc>>
    BY <1>7 DEF Acquire, ThreadStep, Call, LockMain, SymFind, SymStore, SymHit, SymReturn, SymMiss, SymStored,
           Submit, Status, Push, Answered, Throws, Aborts, worker
  <2> QED
    BY <1>1, <2>1 DEF ContextInv
<1> QED
  BY <1>3, <1>4, <1>5, <1>6, <1>7 DEF Next, WorkerStep

-----------------------------------------------------------------------------
(* Nothing changes for the owners of the contexts when no context is       *)
(* created or handed out, and no answer to an openContext comes or goes.   *)
LEMMA OwnerFrame ==
  ASSUME TypeOK, TypeOK', OwnerInv, UNCHANGED <<contexts, held>>,
         \A c : Opening(c)' <=> Opening(c),
         \A t \in Thread : \/ answer'[t] = answer[t] /\ req'[t] = req[t]
                           \/ /\ ~(answer[t].status = "OK" /\ req[t] = "create_thread"
                                     /\ answer[t].val > 0)
                              /\ ~(answer'[t].status = "OK" /\ req'[t] = "create_thread"
                                     /\ answer'[t].val > 0)
  PROVE  OwnerInv'
<1>1. \A c \in 1..MaxContexts, t \in Thread : Taker(c, t)' <=> Taker(c, t)
  BY BoundAssumption DEF Taker
<1>2. \A c : Unanswered(c)' <=> Unanswered(c)
  BY DEF Unanswered
<1>3. \A c \in 1..MaxContexts : Owned(c)'
  BY <1>1, <1>2 DEF OwnerInv, Owned
<1>4. ASSUME NEW t \in Thread, answer'[t].status = "OK", req'[t] = "create_thread"
      PROVE  answer'[t].val <= contexts'
  <2>1. contexts' \in Nat /\ answer'[t].val \in Int
    BY BoundAssumption DEF TypeOK
  <2>2. CASE answer'[t].val > 0
    BY <1>4, <2>1, <2>2 DEF OwnerInv
  <2>3. CASE ~(answer'[t].val > 0)
    BY <2>1, <2>3
  <2> QED
    BY <2>2, <2>3
<1> QED
  BY <1>3, <1>4 DEF OwnerInv

LEMMA CallerOwner ==
  ASSUME Inv, NEW t \in Thread,
         (\E o \in Operation : Call(t, o)) \/ Acquire(t) \/ ThreadStep(t)
  PROVE  OwnerInv'
<1>1. TypeOK /\ TypeOK' /\ OwnerInv /\ Belongs(t)
  BY BelongsDef, CallerType DEF Inv, QueueInv
<1>2. Others(t)
  BY <1>1, CallerOthers
<1>3. UNCHANGED <<contexts, wpc>>
  BY DEF Acquire, ThreadStep, Call, LockMain, SymFind, SymStore, SymHit, SymReturn, SymMiss, SymStored,
         Submit, Status, Push, Answered, Throws, Aborts, worker
<1>4. \A c : Opening(c)' <=> Opening(c)
  BY <1>3 DEF Opening
<1>5. CASE Answered(t) /\ req[t] = "create_thread" /\ answer[t].val > 0
  <2> DEFINE val == answer[t].val
  <2>1. held' = held \cup {val} /\ answer'[t] = NoAnswer /\ answer[t].status = "OK"
    BY <1>1, <1>5 DEF Answered, TypeOK
  <2>2. val \in 1..contexts /\ val \in 1..MaxContexts /\ Taker(val, t)
    <3>1. val \in Int /\ contexts \in Nat /\ MaxContexts \in Nat /\ contexts <= MaxContexts
      BY <1>1, BoundAssumption DEF TypeOK
    <3>2. val <= contexts
      BY <1>1, <1>5, <2>1 DEF OwnerInv
    <3>3. Taker(val, t)
      BY <1>5, <2>1 DEF Taker
    <3>4. val > 0
      BY <1>5
    <3> HIDE DEF val
    <3> QED
      BY <3>1, <3>2, <3>3, <3>4
  <2>3. ~Unanswered(val) /\ \A u \in Thread : Taker(val, u) => u = t
    BY <1>1, <2>2 DEF OwnerInv, Owned
  <2> HIDE DEF val
  <2>4. \A c, u : u \in Thread /\ u # t => (Taker(c, u)' <=> Taker(c, u))
    BY <1>2 DEF Taker, Others
  <2>5. \A c : ~Taker(c, t)'
    BY <2>1 DEF Taker, NoAnswer
  <2>6. \A c : Taker(c, t) => c = val
    BY DEF Taker, val
  <2>7. ASSUME NEW c \in 1..MaxContexts PROVE Owned(c)'
    <3>1. CASE c = val
      BY <2>1, <2>3, <2>4, <2>5, <3>1 DEF Owned, Unanswered
    <3>2. CASE c # val
      <4>1. Unanswered(c)' <=> Unanswered(c)
        BY <1>3, <1>4, <2>1, <3>2 DEF Unanswered
      <4>2. \A u \in Thread : Taker(c, u)' <=> Taker(c, u)
        BY <2>4, <2>5, <2>6, <3>2
      <4> QED
        BY <1>1, <4>1, <4>2 DEF OwnerInv, Owned
    <3> QED
      BY <3>1, <3>2
  <2>8. \A c \in held' : c \in 1..contexts' /\ ~Opening(c)'
    BY <1>1, <1>3, <1>4, <2>1, <2>2, <2>3 DEF OwnerInv, Unanswered
  <2>9. ASSUME NEW u \in Thread, answer'[u].status = "OK", req'[u] = "create_thread"
        PROVE  answer'[u].val <= contexts'
    <3>1. u # t
      BY <2>1, <2>9 DEF NoAnswer
    <3> QED
      BY <1>1, <1>2, <1>3, <2>9, <3>1 DEF OwnerInv, Others
  <2> QED
    BY <2>7, <2>8, <2>9 DEF OwnerInv
<1>6. CASE ~(Answered(t) /\ req[t] = "create_thread" /\ answer[t].val > 0)
  <2>1. held' = held
    BY <1>6 DEF Acquire, ThreadStep, Call, LockMain, SymFind, SymStore, SymHit, SymReturn, SymMiss, SymStored,
           Submit, Status, Push, Answered, Throws, Aborts
  <2>2. \/ answer'[t] = answer[t] /\ req'[t] = req[t]
        \/ /\ ~(answer[t].status = "OK" /\ req[t] = "create_thread" /\ answer[t].val > 0)
           /\ ~(answer'[t].status = "OK" /\ req'[t] = "create_thread")
    <3>1. ASSUME NEW o \in Operation, Call(t, o)
          PROVE  answer[t].status = "none" /\ answer'[t].status = "none"
      BY <1>1, <3>1 DEF Call, Belongs, NoAnswer
    <3>2. CASE Submit(t) \/ Status(t)
      <4>1. answer[t].status = "none"
        BY <1>1, <3>2 DEF Submit, Status, Belongs, NoAnswer
      <4>2. answer' = answer \/ answer' = [answer EXCEPT ![t] = [status |-> "ERROR", val |-> 0]]
        BY <3>2 DEF Submit, Status
      <4>3. answer'[t] = answer[t] \/ answer'[t].status = "ERROR"
        BY <1>1, <4>2 DEF TypeOK
      <4> QED
        BY <4>1, <4>3
    <3>3. CASE Throws(t)
      <4>1. answer'[t] = NoAnswer /\ answer[t].status # "OK"
        BY <1>1, <3>3 DEF Throws, TypeOK
      <4> QED
        BY <4>1 DEF NoAnswer
    <3>4. CASE Answered(t)
      <4>1. answer'[t] = NoAnswer
        BY <1>1, <3>4 DEF Answered, TypeOK
      <4>2. answer'[t].status = "none"
        BY <4>1 DEF NoAnswer
      <4> QED
        BY <1>6, <3>4, <4>2
    <3>5. CASE Acquire(t) \/ SymHit(t) \/ SymReturn(t) \/ SymMiss(t) \/ SymStored(t) \/ Push(t) \/ Aborts(t)
      BY <3>5 DEF Acquire, LockMain, Return, SymFind, SymStore, SymHit, SymReturn, SymMiss, SymStored, Push, Aborts
    <3> QED
      BY <3>1, <3>2, <3>3, <3>4, <3>5 DEF ThreadStep
  <2>3. \A u \in Thread : u # t => answer'[u] = answer[u] /\ req'[u] = req[u]
    BY <1>2 DEF Others
  <2> QED
    BY <1>1, <1>3, <1>4, <2>1, <2>2, <2>3, OwnerFrame
<1> QED
  BY <1>5, <1>6

LEMMA WorkerOwner ==
  ASSUME Inv, WorkerStep \/ ContextStarts
  PROVE  OwnerInv'
<1>1. TypeOK /\ TypeOK' /\ OwnerInv /\ WorkerInv /\ \A u \in Thread : Belongs(u)
  BY BelongsDef, WorkerType DEF Inv, QueueInv
<1>2. req' = req /\ held' = held
  BY DEF WorkerStep, Run, OpenClone, OpenJoin, OpenDone, OpenThrows, RunExit, RunFails, FailClose,
         FailDrain, ContextStarts
<1>3. contexts \in Nat /\ MaxContexts \in Nat
  BY <1>1, BoundAssumption DEF TypeOK
<1>4. ASSUME request # << >>
      PROVE  Head(request) \in Thread /\ answer[Head(request)] = NoAnswer
  BY <1>1, <1>4, HeadQueued DEF TypeOK, Belongs
<1>5. CASE OpenClone
  <2>1. answer' = answer /\ wpc = "loop"
    BY <1>5 DEF OpenClone
  <2>2. CASE contexts' = contexts + 1 /\ wpc' = "semwait"
    <3>1. \A c, t : Taker(c, t)' <=> Taker(c, t)
      BY <1>2, <2>1 DEF Taker
    <3>2. ASSUME NEW c \in 1..MaxContexts PROVE Unanswered(c)' <=> Unanswered(c)
      BY <1>2, <1>3, <2>1, <2>2 DEF Unanswered, Opening
    <3>3. \A c \in 1..MaxContexts : Owned(c)'
      BY <1>1, <3>1, <3>2 DEF OwnerInv, Owned
    <3>4. \A c \in held' : c \in 1..contexts' /\ ~Opening(c)'
      BY <1>1, <1>2, <1>3, <2>2 DEF OwnerInv, Opening
    <3>5. \A t \in Thread :
            answer'[t].status = "OK" /\ req'[t] = "create_thread" => answer'[t].val <= contexts'
      BY <1>1, <1>2, <1>3, <2>1, <2>2 DEF OwnerInv, TypeOK
    <3> QED
      BY <3>3, <3>4, <3>5 DEF OwnerInv
  <2>3. CASE contexts' = contexts /\ wpc' = "notopen"
    <3>1. \A c : Opening(c)' <=> Opening(c)
      BY <2>1, <2>3 DEF Opening
    <3> QED
      BY <1>1, <1>2, <2>1, <2>3, <3>1, OwnerFrame
  <2> QED
    BY <1>5, <2>2, <2>3 DEF OpenClone
<1>6. CASE OpenDone /\ wpc = "opened"
  <2> DEFINE given == [status |-> "OK", val |-> contexts]
  <2>a. Head(request) \in Thread
    BY <1>1, <1>4, <1>6 DEF WorkerInv
  <2>b. PICK h \in Thread : h = Head(request)
    BY <2>a
  <2>1. /\ h \in Thread /\ answer[h] = NoAnswer /\ req[h] = "create_thread"
        /\ contexts \in 1..MaxContexts
    BY <1>1, <1>3, <1>4, <1>6, <2>b DEF WorkerInv, TypeOK
  <2>2. /\ answer' = [answer EXCEPT ![h] = given] /\ contexts' = contexts /\ wpc' = "loop"
    BY <1>6, <2>b DEF OpenDone
  <2>3. answer'[h] = given /\ \A u \in Thread : u # h => answer'[u] = answer[u]
    BY <1>1, <2>1, <2>2 DEF TypeOK
  <2>4. Opening(contexts) /\ \A c : c # contexts => ~Opening(c)
    BY <1>6 DEF Opening
  <2>5. \A c : ~Opening(c)'
    BY <2>2 DEF Opening
  <2>6. \A c : \A u \in Thread : u # h => (Taker(c, u)' <=> Taker(c, u))
    BY <1>2, <2>3 DEF Taker
  <2>7. ASSUME NEW c PROVE ~Taker(c, h) /\ (Taker(c, h)' <=> c = contexts)
    <3>1. answer[h].status = "none"
      BY <2>1 DEF NoAnswer
    <3>2. answer'[h].status = "OK" /\ answer'[h].val = contexts /\ req'[h] = "create_thread"
      BY <1>2, <2>1, <2>3
    <3>3. ~Taker(c, h)
      BY <3>1 DEF Taker
    <3>4. Taker(c, h)' <=> c = contexts
      BY <3>2 DEF Taker
    <3> QED
      BY <3>3, <3>4
  <2>8. ASSUME NEW c \in 1..MaxContexts PROVE Owned(c)'
    <3>1. CASE c = contexts
      <4>1. \A u \in Thread : ~Taker(c, u)
        BY <1>1, <2>1, <2>4, <3>1 DEF OwnerInv, Owned, Unanswered
      <4>2. ~Unanswered(c)'
        BY <1>1, <1>2, <1>3, <2>2, <2>4, <2>5, <3>1 DEF OwnerInv, Unanswered
      <4> QED
        <5>1. Taker(c, h)'
          BY <2>7, <3>1
        <5>2. \A u \in Thread : Taker(c, u)' => u = h
          BY <2>6, <4>1
        <5> QED
          BY <2>1, <4>2, <5>1, <5>2 DEF Owned
    <3>2. CASE c # contexts
      <4>1. Unanswered(c)' <=> Unanswered(c)
        BY <1>2, <2>2, <2>4, <2>5, <3>2 DEF Unanswered
      <4>2. \A u \in Thread : Taker(c, u)' <=> Taker(c, u)
        <5>1. Taker(c, h)' <=> Taker(c, h)
          BY <2>7, <3>2
        <5> QED
          BY <2>6, <5>1
      <4> QED
        BY <1>1, <4>1, <4>2 DEF OwnerInv, Owned
    <3> QED
      BY <3>1, <3>2
  <2>9. \A c \in held' : c \in 1..contexts' /\ ~Opening(c)'
    BY <1>1, <1>2, <2>2, <2>5 DEF OwnerInv
  <2>10. ASSUME NEW u \in Thread, answer'[u].status = "OK", req'[u] = "create_thread"
         PROVE  answer'[u].val <= contexts'
    <3>1. CASE u = h
      BY <1>3, <2>2, <2>3, <3>1
    <3>2. CASE u # h
      BY <1>1, <1>2, <2>2, <2>3, <2>10, <3>2 DEF OwnerInv
    <3> QED
      BY <3>1, <3>2
  <2> QED
    BY <2>8, <2>9, <2>10 DEF OwnerInv
<1>7. CASE Run \/ RunExit \/ (OpenDone /\ wpc = "notopen")
  <2> DEFINE h == Head(request)
  <2>1. request # << >> /\ contexts' = contexts
    BY <1>1, <1>7 DEF Run, RunExit, OpenDone, WorkerInv
  <2>2. h \in Thread /\ answer[h] = NoAnswer
    BY <1>4, <2>1
  <2>3. req[h] # "create_thread" \/ answer'[h].val = Failed
    BY <1>1, <1>7, <2>2 DEF Run, RunExit, OpenDone, TypeOK
  <2>4. \A u \in Thread : u # h => answer'[u] = answer[u]
    BY <1>1, <1>7, <2>2 DEF Run, RunExit, OpenDone, TypeOK
  <2>5. \A c : Opening(c)' <=> Opening(c)
    BY <1>7, <2>1 DEF Run, RunExit, OpenDone, Opening
  <2> HIDE DEF h
  <2>6. /\ ~(answer[h].status = "OK" /\ req[h] = "create_thread" /\ answer[h].val > 0)
        /\ ~(answer'[h].status = "OK" /\ req'[h] = "create_thread" /\ answer'[h].val > 0)
    BY <1>2, <2>2, <2>3 DEF NoAnswer, Failed
  <2> QED
    BY <1>1, <1>2, <2>1, <2>4, <2>5, <2>6, OwnerFrame
<1>8. CASE FailDrain
  <2>1. contexts' = contexts /\ \A c : Opening(c)' <=> Opening(c)
    BY <1>8 DEF FailDrain, Opening
  <2>2. ASSUME NEW u \in Thread
        PROVE  \/ answer'[u] = answer[u] /\ req'[u] = req[u]
               \/ /\ ~(answer[u].status = "OK" /\ req[u] = "create_thread" /\ answer[u].val > 0)
                  /\ ~(answer'[u].status = "OK" /\ req'[u] = "create_thread" /\ answer'[u].val > 0)
    <3>1. CASE u = failed \/ Queued(u)
      <4>1. answer[u].status = "none"
        BY <1>1, <3>1 DEF Belongs, NoAnswer
      <4>2. answer'[u].status # "OK"
        BY <1>8, <3>1 DEF FailDrain, Queued
      <4> QED
        BY <4>1, <4>2
    <3>2. CASE ~(u = failed \/ Queued(u))
      BY <1>2, <1>8, <3>2 DEF FailDrain, Queued
    <3> QED
      BY <3>1, <3>2
  <2> QED
    BY <1>1, <1>2, <2>1, <2>2, OwnerFrame
<1>9. CASE OpenJoin \/ OpenThrows \/ RunFails \/ FailClose \/ ContextStarts
  <2>1. contexts' = contexts /\ answer' = answer
    BY <1>9 DEF OpenJoin, OpenThrows, RunFails, FailClose, ContextStarts
  <2>2. \A c : Opening(c)' <=> Opening(c)
    BY <1>9, <2>1 DEF OpenJoin, OpenThrows, RunFails, FailClose, ContextStarts, Opening, worker
  <2> QED
    BY <1>1, <1>2, <2>1, <2>2, OwnerFrame
<1> QED
  BY <1>5, <1>6, <1>7, <1>8, <1>9 DEF WorkerStep, OpenDone

-----------------------------------------------------------------------------
LEMMA InitInv == Init => Inv
<1> SUFFICES ASSUME Init PROVE Inv
  OBVIOUS
<1>1. request = << >> /\ Len(request) = 0 /\ request \in Seq(Thread)
  BY EmptySeq DEF Init
<1>2. ctx \in [1..MaxContexts -> Handshake!Context] /\ \A c \in 1..MaxContexts : ctx[c] = Handshake!NoContext
  BY DEF Init, Handshake!Init, Handshake!NoContext, Handshake!Context
<1>3. [name |-> "allocBuff", symbol |-> AnySymbol] \in Operation
  BY DEF Operation, AllNames
<1>4. TypeOK
  <2>1. /\ main_mutex \in Thread \cup {NoThread} /\ sym_mtx \in Thread \cup {NoThread}
        /\ failed \in Thread \cup {NoThread}
        /\ main_exited \in BOOLEAN /\ aborted \in BOOLEAN
        /\ state \in {"BLOCKED", "RUNNING", "EXIT"} /\ queue_state \in {"READY", "CLOSED"}
        /\ wpc \in {"loop", "semwait", "opened", "notopen", "close", "drain", "gone"}
        /\ held \subseteq Nat
    BY DEF Init
  <2>2. contexts \in 0..MaxContexts
    BY BoundAssumption DEF Init
  <2>3. sym_name \in [Symbol -> Nat] /\ result \in [Thread -> Int]
    BY DEF Init, None
  <2>4. answer \in [Thread -> [status : {"none", "OK", "EXCEPTION", "ERROR", "UNFINISHED"}, val : Int]]
    BY DEF Init, NoAnswer
  <2>5. op \in [Thread -> Operation]
    BY <1>3 DEF Init
  <2>6. pc \in [Thread -> PC] /\ req \in [Thread -> Request]
    BY DEF Init, PC, Request
  <2> QED
    BY <1>1, <1>2, <2>1, <2>2, <2>3, <2>4, <2>5, <2>6 DEF TypeOK
<1>5. LocalInv
  BY NoThreadAssumption
     DEF Init, LocalInv, ThreadInv, CacheTrue, MutexDiscipline, None, NoAnswer, Locked
<1>6. QueueInv
  BY <1>1, NoThreadAssumption DEF Init, QueueInv, AnswerBelongs, WorkerInv
<1>7. ContextInv
  BY <1>2, BoundAssumption DEF Init, ContextInv
<1>8. OwnerInv
  BY BoundAssumption DEF Init, OwnerInv, Owned, Unanswered, Taker, NoAnswer
<1> QED
  BY <1>4, <1>5, <1>6, <1>7, <1>8 DEF Inv

LEMMA NextInv == Inv /\ [Next]_vars => Inv'
<1> SUFFICES ASSUME Inv, [Next]_vars PROVE Inv'
  OBVIOUS
<1>1. CASE UNCHANGED vars
  BY <1>1 DEF vars, Inv, TypeOK, LocalInv, ThreadInv, CacheTrue, MutexDiscipline, QueueInv, WorkerInv,
     AnswerBelongs, ContextInv, OwnerInv, Owned, Unanswered, Opening, Taker
<1>2. CASE Next
  <2>1. ASSUME NEW t \in Thread, (\E o \in Operation : Call(t, o)) \/ Acquire(t) \/ ThreadStep(t)
        PROVE  Inv'
    <3>1. LocalInv'
      BY <2>1, CallLocal, SubmitLocal DEF ThreadStep
    <3> QED
      BY <1>2, <2>1, <3>1, CallerType, CallerQueue, ContextStep, CallerOwner DEF Inv
  <2>2. ASSUME WorkerStep \/ ContextStarts PROVE Inv'
    BY <1>2, <2>2, WorkerType, WorkerLocal, WorkerQueue, ContextStep, WorkerOwner DEF Inv
  <2> QED
    BY <1>2, <2>1, <2>2 DEF Next
<1> QED
  BY <1>1, <1>2

-----------------------------------------------------------------------------
(* The variables of a process handle keep their types; the symbol cache    *)
(* never holds the negative value of a getSym that threw.                  *)
THEOREM TypeCorrect == Spec => []TypeOK
<1>1. Inv => TypeOK
  BY DEF Inv
<1> QED
  BY InitInv, NextInv, <1>1, PTL DEF Spec

(* No path through an operation leaves main_mutex or sym_mtx locked.       *)
THEOREM MutexCorrect == Spec => []MutexDiscipline
<1>1. Inv => MutexDiscipline
  BY DEF Inv, LocalInv
<1> QED
  BY InitInv, NextInv, <1>1, PTL DEF Spec

(* Every thread gets the answer to its own request, once. *)
THEOREM AnswersCorrect == Spec => []AnswerBelongs
<1>1. Inv => AnswerBelongs
  BY DEF Inv, QueueInv
<1> QED
  BY InitInv, NextInv, <1>1, PTL DEF Spec

(* getSym returns the address of the symbol it was asked for. *)
THEOREM SymbolsCorrect == Spec => []SymbolsTrue
<1>1. Inv => SymbolsTrue
  BY DEF Inv, LocalInv, ThreadInv, SymbolsTrue
<1> QED
  BY InitInv, NextInv, <1>1, PTL DEF Spec

(* No context that openContext creates is lost or given to two callers. *)
THEOREM OwnersCorrect == Spec => []ContextsOwned
<1>1. ASSUME Inv PROVE ContextsOwned
  <2> SUFFICES ASSUME NEW c \in 1..MaxContexts
               PROVE  Cardinality({t \in Thread : answer[t] = [status |-> "OK", val |-> c]
                                                    /\ req[t] = "create_thread"})
                        = IF Unanswered(c) THEN 0 ELSE 1
    BY DEF ContextsOwned, Unanswered, Opening
  <2> DEFINE takers == {t \in Thread : answer[t] = [status |-> "OK", val |-> c]
                                         /\ req[t] = "create_thread"}
  <2>1. \A t \in Thread : t \in takers <=> Taker(c, t)
    BY <1>1 DEF Inv, TypeOK, Taker
  <2>2. takers \subseteq Thread
    OBVIOUS
  <2> HIDE DEF takers
  <2>3. Owned(c)
    BY <1>1 DEF Inv, OwnerInv
  <2>4. CASE Unanswered(c)
    <3>1. takers = {}
      BY <2>1, <2>2, <2>3, <2>4 DEF Owned
    <3> QED
      BY <2>4, <3>1, FS_EmptySet DEF takers
  <2>5. CASE ~Unanswered(c)
    <3>1. PICK t \in Thread : Taker(c, t)
      BY <2>3, <2>5 DEF Owned
    <3>2. takers = {t}
      BY <2>1, <2>2, <2>3, <3>1 DEF Owned
    <3>3. Cardinality(takers) = 1
      BY <3>2, FS_Singleton
    <3> QED
      BY <2>5, <3>3 DEF takers
  <2> QED
    BY <2>4, <2>5
<1> QED
  BY InitInv, NextInv, <1>1, PTL DEF Spec

(* openContext never overtakes the set-up of the context it returns. *)
THEOREM ReadyCorrect == Spec => []ContextsReady
<1>1. ASSUME Inv PROVE ContextsReady
  <2>1. contexts \in Nat /\ MaxContexts \in Nat /\ contexts <= MaxContexts
    BY <1>1, BoundAssumption DEF Inv, TypeOK
  <2>2. ASSUME NEW c \in held PROVE Handshake!Ready(c)
    <3>1. c \in 1..contexts /\ ~Opening(c)
      BY <1>1, <2>2 DEF Inv, OwnerInv
    <3>2. c \in 1..MaxContexts /\ c <= contexts /\ ~(c = contexts /\ wpc = "semwait")
      BY <2>1, <3>1 DEF Opening
    <3> QED
      BY <1>1, <3>2 DEF Inv, ContextInv, Handshake!Ready
  <2>3. ASSUME NEW c \in 1..contexts PROVE Handshake!FrameAlive(c)
    <3>1. c \in 1..MaxContexts /\ c <= contexts
      BY <2>1
    <3> QED
      BY <1>1, <3>1 DEF Inv, ContextInv, Handshake!FrameAlive
  <2> QED
    BY <2>2, <2>3 DEF ContextsReady
<1> QED
  BY InitInv, NextInv, <1>1, PTL DEF Spec

-----------------------------------------------------------------------------
(* What a thread inside an operation waits for.  The rest of this module   *)
(* shows that it is there, whatever fails and whoever ends the process.    *)
Sent(t) == pc[t] = "wait" /\ answer[t] = NoAnswer

(* A thread without an answer has its request with the worker, which is    *)
(* going to answer it, or has failed and left it behind; only then can     *)
(* veo_proc_destroy wait for an ID that no request has.                    *)
AnswerComing ==
  \A t \in Thread :
    /\ Sent(t) => t = failed \/ (Queued(t) /\ (wpc # "gone" \/ state = "EXIT"))
    /\ pc[t] = "stuck" => state = "EXIT"

(* The worker's state and its place in the event loop; it keeps a failed   *)
(* request only on the way out.                                            *)
StateInv ==
  /\ wpc \in {"loop", "semwait", "opened", "notopen"} => state = "BLOCKED"
  /\ wpc \in {"close", "drain"} => state = "EXIT"
  /\ failed # NoThread => wpc \in {"close", "drain"}
  /\ queue_state = "CLOSED" => state = "EXIT"

Ends(t) == pc[t] # "idle" /\ req[t] = "exit"
Ended(t) == pc[t] = "wait" /\ req[t] = "exit" /\ answer[t] # NoAnswer

(* No other operation is under way beside exitProc, and after it exitProc  *)
(* gets no further than main_mutex; the worker leaves its event loop in    *)
(* peace only with an empty queue.                                         *)
ExitInv ==
  /\ \A t \in Thread : op[t].name = "exitProc" <=> req[t] = "exit"
  /\ \A t, u \in Thread : Ends(t) => pc[u] = "idle" \/ Ends(u)
  /\ main_exited => \A t \in Thread : pc[t] = "idle" \/ (pc[t] = "mutex" /\ req[t] = "exit")
  /\ wpc = "gone" /\ state # "EXIT" =>
       (\A t \in Thread : ~Queued(t)) /\ (main_exited \/ \E t \in Thread : Ended(t))

ReplyInv == Inv /\ StateInv /\ ExitInv /\ AnswerComing

(* Only one thread is past main_mutex in exitProc, and then all others     *)
(* stand before it.                                                        *)
LEMMA ExitAlone ==
  ASSUME Inv, ExitInv, NEW t \in Thread, req[t] = "exit",
         pc[t] \in {"submit", "status", "push", "wait", "stuck"},
         NEW u \in Thread, u # t
  PROVE  main_mutex = t /\ (pc[u] = "idle" \/ (pc[u] = "mutex" /\ req[u] = "exit"))
<1>1. main_mutex = t /\ main_mutex # u
  BY DEF Inv, LocalInv, MutexDiscipline, Locked
<1>2. pc[u] = "idle" \/ (req[u] = "exit" /\ pc[u] \in PC)
  BY DEF ExitInv, Ends, Inv, TypeOK
<1>3. req[u] = "exit" => pc[u] \notin {"submit", "status", "push", "wait", "stuck"}
  BY <1>1 DEF Inv, LocalInv, MutexDiscipline, Locked
<1>4. req[u] = "exit" => pc[u] \notin {"find", "hit", "found", "miss", "store", "stored"}
  BY DEF Inv, LocalInv, ThreadInv
<1> QED
  BY <1>1, <1>2, <1>3, <1>4 DEF PC

(* A step of thread t, as far as the end of the process is concerned: it   *)
(* enters an operation, gets main_mutex, or goes on from a place behind.   *)
Enters(t) ==
  /\ pc[t] = "idle" /\ pc'[t] # "wait" /\ pc'[t] # "stuck" /\ main_exited' = main_exited
  /\ IF req'[t] = "exit" THEN pc'[t] = "mutex" /\ \A u \in Thread : pc[u] = "idle" \/ Ends(u)
     ELSE ~main_exited /\ \A u \in Thread : ~Ends(u)

Locks(t) ==
  /\ pc[t] = "mutex" /\ req'[t] = req[t] /\ main_mutex = NoThread /\ main_exited' = main_exited
  /\ pc'[t] = "idle" \/ (pc'[t] = "submit" /\ ~(req[t] = "exit" /\ main_exited))

Continues(t) ==
  /\ pc[t] \notin {"idle", "mutex"} /\ ~Sent(t)
  /\ req'[t] = "exit" <=> req[t] = "exit"
  /\ main_exited' <=> main_exited \/ Ended(t)
  /\ Ended(t) => pc'[t] = "idle"
  /\ pc'[t] = "stuck" => state = "EXIT"

LEMMA CallerMoves ==
  ASSUME ReplyInv, NEW t \in Thread, ~Aborts(t),
         (\E o \in Operation : Call(t, o)) \/ Acquire(t) \/ ThreadStep(t)
  PROVE  /\ Enters(t) \/ Locks(t) \/ Continues(t)
         /\ op'[t].name = "exitProc" <=> req'[t] = "exit"
<1>1. /\ TypeOK /\ StateInv /\ ThreadInv(t) /\ Belongs(t)
      /\ \A u \in Thread : op[u].name = "exitProc" <=> req[u] = "exit"
      /\ \A u \in Thread : pc[u] = "stuck" => state = "EXIT"
  BY BelongsDef DEF ReplyInv, Inv, LocalInv, QueueInv, ExitInv, AnswerComing
<1> USE DEF Goto
<1>2. ASSUME NEW o \in Operation, Call(t, o)
      PROVE  Enters(t) /\ (op'[t].name = "exitProc" <=> req'[t] = "exit")
  <2>1. o.name \in AllNames
    BY CallFacts
  <2>2. /\ o.name = "exitProc" <=> FirstRequest(o.name) = "exit"
        /\ FirstRequest("exitProc") \in Locked
    BY <2>1 DEF AllNames, FirstRequest, Locked
  <2>3. /\ op'[t] = o /\ req'[t] = FirstRequest(o.name) /\ pc[t] = "idle"
        /\ pc'[t] \in {"find", "mutex", "submit"} /\ (o.name = "exitProc" => pc'[t] = "mutex")
        /\ main_exited' = main_exited
    BY <1>1, <1>2, <2>2 DEF Call, TypeOK
  <2>4. \A u \in Thread : Exiting(u) <=> Ends(u)
    BY <1>1 DEF Exiting, Ends
  <2> QED
    BY <1>2, <2>2, <2>3, <2>4 DEF Call, Enters
<1>3. CASE LockMain(t)
  <2>1. /\ pc[t] = "mutex" /\ main_mutex = NoThread /\ main_exited' = main_exited
        /\ req' = req /\ op' = op
        /\ \/ pc' = [pc EXCEPT ![t] = "idle"]
           \/ pc' = [pc EXCEPT ![t] = "submit"] /\ ~(req[t] = "exit" /\ main_exited)
    BY <1>3 DEF LockMain, Return
  <2> QED
    BY <1>1, <2>1 DEF Locks, TypeOK
<1>4. CASE SymFind(t) \/ SymStore(t) \/ SymHit(t) \/ SymReturn(t) \/ SymMiss(t) \/ SymStored(t) \/ Submit(t) \/ Push(t)
  <2>1. /\ pc[t] \in {"find", "store", "hit", "found", "miss", "stored", "submit", "push"}
        /\ req' = req /\ op' = op /\ main_exited' = main_exited
    BY <1>4 DEF SymFind, SymStore, SymHit, SymReturn, SymMiss, SymStored, Submit, Push, Return
  <2>2. pc'[t] # "stuck"
    BY <1>1, <1>4 DEF SymFind, SymStore, SymHit, SymReturn, SymMiss, SymStored, Submit, Push, Return, TypeOK
  <2> QED
    BY <1>1, <2>1, <2>2 DEF Continues, Sent, Ended, TypeOK
<1>5. CASE Status(t)
  <2>1. pc[t] = "status" /\ req' = req /\ op' = op /\ main_exited' = main_exited
    BY <1>5 DEF Status
  <2>2. pc'[t] = "stuck" => queue_state = "CLOSED"
    BY <1>1, <1>5 DEF Status, TypeOK
  <2> QED
    BY <1>1, <2>1, <2>2 DEF Continues, Sent, Ended, StateInv, TypeOK
<1>6. CASE Answered(t)
  <2>1. /\ pc[t] = "wait" /\ answer[t] # NoAnswer /\ op' = op
        /\ main_exited' = (main_exited \/ req[t] = "exit")
    BY <1>6 DEF Answered
  <2>2. /\ Follow(t, answer[t].val) \in {"return", "store", "alloc_buff", "load_library_err", "read_mem",
                                         "free_buff"}
        /\ req[t] = "exit" => Follow(t, answer[t].val) = "return"
    BY <1>1, FollowFacts DEF TypeOK
  <2>3. CASE Follow(t, answer[t].val) = "return"
    <3>1. req' = req /\ pc'[t] = "idle"
      BY <1>1, <1>6, <2>3 DEF Answered, Return, Request, TypeOK
    <3> QED
      BY <1>1, <2>1, <3>1 DEF Continues, Sent, Ended
  <2>4. CASE Follow(t, answer[t].val) # "return"
    <3>1. req[t] # "exit" /\ req'[t] # "exit" /\ pc'[t] # "stuck"
      BY <1>1, <1>6, <2>2, <2>4 DEF Answered, Ask, Request, TypeOK
    <3> QED
      BY <1>1, <2>1, <3>1 DEF Continues, Sent, Ended
  <2> QED
    BY <2>3, <2>4
<1>7. CASE Throws(t)
  <2>1. /\ pc[t] = "wait" /\ answer[t] # NoAnswer /\ op' = op /\ req[t] # "exit"
        /\ main_exited' = main_exited
    BY <1>7 DEF Throws
  <2>2. req'[t] # "exit" /\ pc'[t] # "stuck"
    BY <1>1, <1>7, <2>1 DEF Throws, Return, Ask, TypeOK
  <2> QED
    BY <1>1, <2>1, <2>2 DEF Continues, Sent, Ended
<1> QED
  BY <1>2, <1>3, <1>4, <1>5, <1>6, <1>7 DEF Acquire, ThreadStep

LEMMA CallerReply ==
  ASSUME ReplyInv, NEW t \in Thread,
         (\E o \in Operation : Call(t, o)) \/ Acquire(t) \/ ThreadStep(t)
  PROVE  StateInv' /\ ExitInv' /\ AnswerComing'
<1>1. /\ Inv /\ TypeOK /\ StateInv /\ ExitInv /\ AnswerComing
      /\ Distinct /\ \A u \in Thread : Belongs(u)
  BY BelongsDef DEF ReplyInv, Inv, QueueInv
<1>2. Others(t)
  BY <1>1, CallerOthers
<1>3. wpc' = wpc /\ state' = state /\ queue_state' = queue_state /\ failed' = failed
  BY DEF Acquire, ThreadStep, Call, LockMain, SymFind, SymStore, SymHit, SymReturn, SymMiss, SymStored, Submit,
         Status, Push, Answered, Throws, Aborts, worker
<1>4. StateInv'
  BY <1>1, <1>3 DEF StateInv
<1>5. CASE Aborts(t)
  <2>1. UNCHANGED <<pc, op, req, answer, request, main_exited>>
    BY <1>5 DEF Aborts, worker
  <2> QED
    BY <1>1, <1>3, <1>4, <2>1 DEF ExitInv, AnswerComing, Ends, Ended, Sent, Queued
<1>6. CASE ~Aborts(t)
  <2>1. (Enters(t) \/ Locks(t) \/ Continues(t)) /\ (op'[t].name = "exitProc" <=> req'[t] = "exit")
    BY <1>6, CallerMoves
  <2>2. \A u \in Thread : u # t =>
          /\ pc'[u] = pc[u] /\ op'[u] = op[u] /\ req'[u] = req[u]
          /\ (Ends(u)' <=> Ends(u)) /\ (Ended(u)' <=> Ended(u)) /\ (Sent(u)' <=> Sent(u))
    BY <1>2 DEF Others, Ends, Ended, Sent
  <2>3. \A u \in Thread : op'[u].name = "exitProc" <=> req'[u] = "exit"
    BY <1>1, <2>1, <2>2 DEF ExitInv
  (* The places of the others beside a thread that ends the process. *)
  <2>4. ASSUME NEW u \in Thread, NEW v \in Thread, Ends(u)' PROVE pc'[v] = "idle" \/ Ends(v)'
    BY <1>1, <2>1, <2>2, <2>4 DEF ExitInv, Enters, Locks, Continues, Ends
  (* Once it is over. *)
  <2>5. ASSUME main_exited', NEW u \in Thread
        PROVE  pc'[u] = "idle" \/ (pc'[u] = "mutex" /\ req'[u] = "exit")
    <3>1. CASE main_exited
      BY <1>1, <2>1, <2>2, <3>1 DEF ExitInv, Enters, Locks, Continues
    <3>2. CASE ~main_exited
      <4>1. Continues(t) /\ Ended(t) /\ pc'[t] = "idle"
        BY <2>1, <2>5, <3>2 DEF Enters, Locks, Continues
      <4> QED
        BY <1>1, <2>2, <4>1, ExitAlone DEF Ended
    <3> QED
      BY <3>1, <3>2
  (* The worker has left its event loop in peace: nobody is going to push. *)
  <2>6. ASSUME wpc = "gone", state # "EXIT"
        PROVE  /\ pc[t] # "push"
               /\ main_exited' \/ \E u \in Thread : Ended(u)'
    <3>1. CASE main_exited
      BY <1>1, <2>1, <3>1 DEF ExitInv, Enters, Locks, Continues
    <3>2. CASE ~main_exited
      <4>1. PICK w \in Thread : Ended(w)
        BY <1>1, <2>6, <3>2 DEF ExitInv
      <4>2. CASE w = t
        BY <2>1, <4>1, <4>2 DEF Enters, Locks, Continues, Ended
      <4>3. CASE w # t
        BY <1>1, <2>2, <4>1, <4>3, ExitAlone DEF Ended
      <4> QED
        BY <4>2, <4>3
    <3> QED
      BY <3>1, <3>2
  <2>7. CASE Push(t)
    <3>1. /\ pc[t] = "push" /\ pc'[t] = "wait" /\ request' = Append(request, t)
      BY <1>1, <2>7 DEF Push, Goto, TypeOK
    <3>2. ~Queued(t)
      BY <1>1, <3>1 DEF Belongs
    <3>3. \A u : Queued(u)' <=> Queued(u) \/ u = t
      BY <1>1, <3>1, <3>2, PushQueued DEF TypeOK, Distinct
    <3>4. ~(wpc = "gone" /\ state # "EXIT")
      BY <2>6, <3>1
    <3>5. ExitInv'
      BY <1>3, <2>3, <2>4, <2>5, <3>4 DEF ExitInv
    <3>6. AnswerComing'
      BY <1>1, <1>3, <2>2, <3>1, <3>3, <3>4 DEF AnswerComing
    <3> QED
      BY <1>4, <3>5, <3>6
  <2>8. CASE ~Push(t)
    <3>1. request' = request
      BY <2>8 DEF Acquire, ThreadStep, Call, LockMain, SymFind, SymStore, SymHit, SymReturn, SymMiss, SymStored,
             Submit, Status, Answered, Throws, Aborts, worker
    <3>2. \A u : Queued(u)' <=> Queued(u)
      BY <3>1 DEF Queued
    <3>3. ExitInv'
      BY <1>1, <1>3, <2>3, <2>4, <2>5, <2>6, <3>2 DEF ExitInv
    <3>4. ~Sent(t)'
      BY <1>1, <1>6, <2>8 DEF Acquire, ThreadStep, Call, LockMain, SymFind, SymStore, SymHit, SymReturn, SymMiss,
             SymStored, Submit, Status, Answered, Throws, Return, Ask, Goto, Sent, NoAnswer, TypeOK
    <3>5. pc'[t] = "stuck" => state = "EXIT"
      BY <1>1, <2>1 DEF Enters, Locks, Continues
    <3>6. AnswerComing'
      BY <1>1, <1>3, <2>2, <3>2, <3>4, <3>5 DEF AnswerComing
    <3> QED
      BY <1>4, <3>3, <3>6
  <2> QED
    BY <2>7, <2>8
<1> QED
  BY <1>5, <1>6

LEMMA WorkerReply ==
  ASSUME ReplyInv, WorkerStep \/ ContextStarts
  PROVE  StateInv' /\ ExitInv' /\ AnswerComing'
<1>1. /\ Inv /\ TypeOK /\ StateInv /\ ExitInv /\ AnswerComing /\ WorkerInv
      /\ Distinct /\ \A u \in Thread : Belongs(u)
  BY BelongsDef DEF ReplyInv, Inv, QueueInv
<1>2. pc' = pc /\ req' = req /\ op' = op /\ main_exited' = main_exited
  BY DEF WorkerStep, Run, OpenClone, OpenJoin, OpenDone, OpenThrows, RunExit, RunFails, FailClose,
         FailDrain, ContextStarts
<1>3. \A u : Ends(u)' <=> Ends(u)
  BY <1>2 DEF Ends
<1>4. StateInv'
  BY <1>1, NoThreadAssumption DEF StateInv, WorkerStep, Run, OpenClone, OpenJoin, OpenDone, OpenThrows,
     RunExit, RunFails, FailClose, FailDrain, ContextStarts, worker
<1>5. ASSUME request # << >>, request' = Tail(request)
      PROVE  /\ Head(request) \in Thread /\ Queued(Head(request))
             /\ \A u : Queued(u)' <=> Queued(u) /\ u # Head(request)
  BY <1>1, <1>5, PopQueued DEF TypeOK, Distinct
<1>6. ASSUME ~(wpc' = "gone" /\ state' # "EXIT") PROVE ExitInv'
  BY <1>1, <1>2, <1>3, <1>6 DEF ExitInv
<1>7. CASE Run \/ OpenDone
  <2>1. /\ request # << >> /\ request' = Tail(request) /\ failed' = failed
        /\ wpc' = "loop" /\ state' = state
    BY <1>1, <1>7 DEF Run, OpenDone, WorkerInv
  <2>a. PICK h \in Thread : h = Head(request)
    BY <1>5, <2>1
  <2>2. \A u : Queued(u)' <=> Queued(u) /\ u # h
    BY <1>5, <2>1, <2>a
  <2>b. \E v : answer' = [answer EXCEPT ![h] = [status |-> "OK", val |-> v]]
    BY <1>7, <2>a DEF Run, OpenDone
  <2>3. answer'[h].status = "OK" /\ \A u \in Thread : u # h => answer'[u] = answer[u]
    BY <1>1, <2>b DEF TypeOK
  <2>4. ~Sent(h)' /\ \A u \in Thread : u # h => (Sent(u)' <=> Sent(u))
    BY <1>2, <2>3 DEF Sent, NoAnswer
  <2>5. AnswerComing'
    BY <1>1, <1>2, <2>1, <2>2, <2>4 DEF AnswerComing
  <2> QED
    BY <1>4, <1>6, <2>1, <2>5
<1>8. CASE RunExit
  <2>1. request # << >> /\ request' = Tail(request) /\ wpc = "loop"
    BY <1>8 DEF RunExit
  <2>a. PICK h \in Thread : h = Head(request)
    BY <1>5, <2>1
  <2>2. Queued(h) /\ \A u : Queued(u)' <=> Queued(u) /\ u # h
    BY <1>5, <2>1, <2>a
  <2>3. answer'[h].status = "OK" /\ pc[h] = "wait" /\ req[h] = "exit"
    BY <1>1, <1>8, <2>a, <2>2 DEF RunExit, TypeOK, Belongs
  <2>4. state = "BLOCKED"
    BY <1>1, <2>1 DEF StateInv
  <2>5. Ended(h)' /\ ~Sent(h)'
    BY <1>2, <2>3 DEF Ended, Sent, NoAnswer
  <2>6. \A u \in Thread : u # h => pc[u] # "wait"
    BY <1>1, <2>3, ExitAlone
  <2>7. \A u \in Thread : ~Queued(u)'
    BY <1>1, <2>2, <2>6 DEF Belongs
  <2>8. ExitInv'
    BY <1>1, <1>2, <1>3, <2>2, <2>5, <2>7 DEF ExitInv
  <2>9. AnswerComing'
    BY <1>1, <1>2, <2>4, <2>5, <2>6 DEF AnswerComing, Sent
  <2> QED
    BY <1>4, <2>8, <2>9
<1>9. CASE RunFails
  <2>1. /\ request # << >> /\ request' = Tail(request) /\ failed' = Head(request) /\ wpc = "loop"
        /\ answer' = answer /\ state' = "EXIT"
    BY <1>9 DEF RunFails
  <2>2. \A u : Queued(u)' <=> Queued(u) /\ u # Head(request)
    BY <1>5, <2>1
  <2>3. \A u \in Thread : u # failed
    BY <1>1, <2>1, NoThreadAssumption DEF StateInv
  <2>4. \A u : Sent(u)' <=> Sent(u)
    BY <1>2, <2>1 DEF Sent
  <2>5. AnswerComing'
    BY <1>1, <1>2, <2>1, <2>2, <2>3, <2>4 DEF AnswerComing
  <2> QED
    BY <1>4, <1>6, <2>1, <2>5
<1>10. CASE FailDrain
  <2>1. state' = "EXIT"
    BY <1>1, <1>10 DEF FailDrain, StateInv
  <2>2. ASSUME NEW u \in Thread PROVE ~Sent(u)'
    <3>1. CASE u = failed \/ Queued(u)
      <4>1. answer'[u].status \in {"ERROR", "EXCEPTION", "UNFINISHED"}
        BY <1>10, <3>1 DEF FailDrain, Queued
      <4> QED
        BY <4>1 DEF Sent, NoAnswer
    <3>2. CASE ~(u = failed \/ Queued(u))
      <4>1. answer'[u] = answer[u] /\ ~Sent(u)
        BY <1>1, <1>10, <3>2 DEF FailDrain, Queued, AnswerComing
      <4> QED
        BY <1>2, <4>1 DEF Sent
    <3> QED
      BY <3>1, <3>2
  <2>3. AnswerComing'
    BY <2>1, <2>2 DEF AnswerComing
  <2> QED
    BY <1>4, <1>6, <2>1, <2>3
<1>11. CASE OpenClone \/ OpenJoin \/ OpenThrows \/ FailClose \/ ContextStarts
  <2>1. /\ request' = request /\ answer' = answer /\ failed' = failed /\ state' = state
        /\ wpc' = "gone" <=> wpc = "gone"
    BY <1>11 DEF OpenClone, OpenJoin, OpenThrows, FailClose, ContextStarts, worker
  <2>2. \A u : (Sent(u)' <=> Sent(u)) /\ (Queued(u)' <=> Queued(u)) /\ (Ended(u)' <=> Ended(u))
    BY <1>2, <2>1 DEF Sent, Queued, Ended
  <2>3. ExitInv'
    BY <1>1, <1>2, <1>3, <2>1, <2>2 DEF ExitInv
  <2>4. AnswerComing'
    BY <1>1, <1>2, <2>1, <2>2 DEF AnswerComing
  <2> QED
    BY <1>4, <2>3, <2>4
<1> QED
  BY <1>7, <1>8, <1>9, <1>10, <1>11 DEF WorkerStep

(* An operation without an answer has its request with the worker, and a   *)
(* worker that left it behind has failed: the veo_proc_destroy that ends   *)
(* the worker's event loop overtakes no operation, and never waits for an  *)
(* ID that no request has while the worker is well.  This is the safety    *)
(* half of OperationsReturn.                                               *)
THEOREM ReplyCorrect == Spec => []AnswerComing
<1>1. Init => ReplyInv
  <2> SUFFICES ASSUME Init PROVE ReplyInv
    OBVIOUS
  <2>1. Inv
    BY InitInv
  <2>2. StateInv /\ AnswerComing
    BY DEF Init, StateInv, AnswerComing, Sent
  <2>3. ExitInv
    BY DEF Init, ExitInv, Ends
  <2> QED
    BY <2>1, <2>2, <2>3 DEF ReplyInv
<1>2. ReplyInv /\ [Next]_vars => ReplyInv'
  <2> SUFFICES ASSUME ReplyInv, [Next]_vars PROVE ReplyInv'
    OBVIOUS
  <2>1. Inv'
    BY NextInv DEF ReplyInv
  <2>2. CASE Next
    BY <2>1, <2>2, CallerReply, WorkerReply DEF Next, ReplyInv
  <2>3. CASE UNCHANGED vars
    BY <2>1, <2>3 DEF vars, ReplyInv, StateInv, ExitInv, AnswerComing, Ends, Ended, Sent, Queued
  <2> QED
    BY <2>2, <2>3
<1>3. ReplyInv => AnswerComing
  BY DEF ReplyInv
<1> QED
  BY <1>1, <1>2, <1>3, PTL DEF Spec
=============================================================================
