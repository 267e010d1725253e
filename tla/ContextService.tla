--------------------------- MODULE ContextService ---------------------------
(***************************************************************************)
(* What a VEO thread context promises its clients, without threads, queues *)
(* of commands or request tables: requests are executed one at a time in   *)
(* the order in which they were accepted; each gets one result, which says *)
(* what happened to it; after a failure, or close, nothing is executed any *)
(* more; a result is handed out once.                                      *)
(***************************************************************************)
EXTENDS Naturals, Sequences

CONSTANTS
  Id,           \* names of requests
  None          \* no request

VARIABLES
  queue,        \* the requests accepted and not started, oldest first
  running,      \* the request under execution
  stopped,      \* no further request will be executed
  results,      \* pairs of a request and its status
  taken         \* the requests whose result has been handed out

vars == <<queue, running, stopped, results, taken>>

HasResult(id) == \E r \in results : r[1] = id

Init ==
  /\ queue = << >>
  /\ running = None
  /\ stopped = FALSE
  /\ results = {}
  /\ taken = {}

Accept(id) ==
  /\ id # running /\ ~HasResult(id) /\ \A i \in 1..Len(queue) : queue[i] # id
  /\ queue' = Append(queue, id)
  /\ UNCHANGED <<running, stopped, results, taken>>

Start ==
  /\ ~stopped
  /\ running = None
  /\ queue # << >>
  /\ running' = Head(queue)
  /\ queue' = Tail(queue)
  /\ UNCHANGED <<stopped, results, taken>>

(* Anything but success stops the service; so does a request to close.     *)
Finish(status) ==
  /\ running # None
  /\ results' = results \cup {<<running, status>>}
  /\ running' = None
  /\ stopped' \in BOOLEAN
  /\ status # "OK" => stopped'
  /\ UNCHANGED <<queue, taken>>

(* A request that will not be executed is reported as such. *)
Abandon ==
  /\ stopped
  /\ running = None
  /\ queue # << >>
  /\ results' = results \cup {<<Head(queue), "UNFINISHED">>}
  /\ queue' = Tail(queue)
  /\ UNCHANGED <<running, stopped, taken>>

Take(id) ==
  /\ HasResult(id)
  /\ id \notin taken
  /\ taken' = taken \cup {id}
  /\ UNCHANGED <<queue, running, stopped, results>>

(* The VE thread is lost before it is given anything to do. *)
Stop ==
  /\ running = None
  /\ stopped' = TRUE
  /\ UNCHANGED <<queue, running, results, taken>>

Next ==
  \/ \E id \in Id : Accept(id) \/ Take(id)
  \/ Start
  \/ \E status \in {"OK", "EXCEPTION", "ERROR"} : Finish(status)
  \/ Abandon
  \/ Stop

Spec == Init /\ [][Next]_vars
=============================================================================
