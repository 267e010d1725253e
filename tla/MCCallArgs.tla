----------------------------- MODULE MCCallArgs -----------------------------
(* Instances of CallArgs for TLC: words of two bytes, one argument register *)
(* and a small frame, so that lists of three arguments use both registers   *)
(* and stack and buffers need padding.                                      *)
EXTENDS CallArgs

In == OnStack(TRUE, FALSE, 3)
InOut == OnStack(TRUE, TRUE, 1)
Out == OnStack(FALSE, TRUE, 4)

Args == {Value(101, 1), Value(102, 2), In, InOut, Out}

(* Lists with no argument left unset. *)
AllLists == UNION {[1..n -> Args] : n \in 0..MaxArgs}

(* Lists in which an output buffer passed on the stack comes with some      *)
(* argument that is copied in.                                              *)
TransferredLists == {list \in AllLists : Transferred(list)}
=============================================================================
