--------------------------- MODULE CloneHandshake ---------------------------
(***************************************************************************)
(* How a VEO thread context gets its pseudo thread (ThreadContext.cpp).    *)
(* The thread that handles the clone() of the VE, the parent, creates the  *)
(* ThreadContext object and calls handleCloneRequest: it puts a semaphore  *)
(* and the child's argument on its stack, has libvepseudo start the child  *)
(* and waits.  The child fills in the context, posts the semaphore and     *)
(* runs to the first block request of its VE thread.                       *)
(***************************************************************************)
CONSTANTS
  Owner         \* a context has an owner: who asked for it

VARIABLES
  ctx           \* the context of each owner

(* object: of class ThreadContext; own: os_handle has been replaced by the *)
(* child's; sem: child_thread_sem and the argument on the parent's stack.  *)
Context == [object : {"none", "live", "deleted"},
            own : BOOLEAN,
            state : {"UNKNOWN", "RUNNING", "BLOCKED", "EXIT"},
            sem : {"none", "zero", "posted"},
            child : {"none", "init", "post", "ve", "loop", "dead"}]

NoContext == [object |-> "none", own |-> FALSE, state |-> "UNKNOWN",
              sem |-> "none", child |-> "none"]

Init == ctx = [x \in Owner |-> NoContext]

-----------------------------------------------------------------------------
(* The parent: the constructor of ThreadContext and handleCloneRequest, up *)
(* to ve__do_clone, which starts the child or fails.                       *)
Clone(x) ==
  ctx' = [ctx EXCEPT ![x] = [object |-> "live", own |-> FALSE, state |-> "UNKNOWN",
                             sem |-> "zero", child |-> "init"]]

CloneFails(x) == ctx' = [ctx EXCEPT ![x] = [NoContext EXCEPT !.object = "live"]]

(* Mutant of SemWait: the parent does not wait. *)
SemWaitNot(x) == ctx' = [ctx EXCEPT ![x].sem = "none"]

(* sem_wait and sem_destroy; handleCloneRequest returns. *)
SemWait(x) ==
  /\ ctx[x].sem = "posted"
  /\ ctx' = [ctx EXCEPT ![x].sem = "none"]

Delete(x) ==
  ctx' = [ctx EXCEPT ![x].object = IF @ = "live" THEN "deleted" ELSE @]

-----------------------------------------------------------------------------
(* Mutant of StartEventLoop: the semaphore is posted first. *)
StartEventLoopPosts(x) ==
  /\ ctx[x].child = "init"
  /\ ctx' = [ctx EXCEPT ![x].sem = "posted", ![x].child = "post"]

(* The child: startEventLoop, up to the assignment of the state. *)
StartEventLoop(x) ==
  /\ ctx[x].child = "init"
  /\ ctx' = [ctx EXCEPT ![x].own = TRUE, ![x].state = "RUNNING", ![x].child = "post"]

SemPost(x) ==
  /\ ctx[x].child = "post"
  /\ ctx' = [ctx EXCEPT ![x].sem = "posted", ![x].child = "ve"]

(* The VE thread stops at its first block request: eventLoop. *)
FirstBlock(x) ==
  /\ ctx[x].child = "ve"
  /\ ctx' = [ctx EXCEPT ![x].state = "BLOCKED", ![x].child = "loop"]

(* It raises an exception instead: startEventLoop returns. *)
FirstException(x) ==
  /\ ctx[x].child = "ve"
  /\ ctx' = [ctx EXCEPT ![x].state = "EXIT", ![x].child = "dead"]

-----------------------------------------------------------------------------
(* The pseudo thread exists and has not ended. *)
Alive(x) == ctx[x].child \notin {"none", "dead"}

(* The context can be given to a caller. *)
Ready(x) == ctx[x].object = "live" /\ ctx[x].own /\ ctx[x].state # "UNKNOWN"

(* The child uses the semaphore and its argument, on the stack of another  *)
(* thread, only while that thread is in handleCloneRequest.                *)
FrameAlive(x) == ctx[x].child \in {"init", "post"} => ctx[x].sem # "none"
=============================================================================
