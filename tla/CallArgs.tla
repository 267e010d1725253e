------------------------------ MODULE CallArgs ------------------------------
(***************************************************************************)
(* The arguments of a VE function (CallArgs.hpp, CallArgs.cpp) on their    *)
(* way to the VE and back.  The program fills a veo_args object argument   *)
(* by argument.  A call builds a stack image from it, sets the registers,  *)
(* copies the image to the VE stack if some argument asks for it, runs the *)
(* VE function, and copies the image back if some argument asks for it.    *)
(* One object, changed or not, serves several calls.                       *)
(*                                                                         *)
(* Memory is a function from addresses to bytes.  A byte is a tuple: byte  *)
(* k of word v is <<"word", 0, v, k>>; byte k of the VH buffer of argument *)
(* n is <<"in", c, n, k>> when the program filled it after c calls, and    *)
(* <<"out", c, n, k>> when the VE function of call c wrote it.  Arguments  *)
(* are numbered from 0.                                                    *)
(***************************************************************************)
EXTENDS Integers, Sequences

CONSTANTS
  NumRegs,      \* NUM_ARGS_ON_REGISTER (8)
  ParamOffset,  \* PARAM_AREA_OFFSET (176)
  WordSize,     \* 8
  ArgSet,       \* arguments the program may set
  MaxArgs,      \* bound: number of arguments
  CallLists,    \* argument lists the program may call with
  StartSP,      \* stack pointer of the VE thread before the first call
  MemSize,      \* VE memory is 0..(MemSize - 1)
  Fault,        \* the transfers that may fail, a subset of {"in", "out"}
  MaxCalls      \* bound: number of calls

(* ArgType<T>: an integer or floating-point value with sizeof(T) = width. *)
Value(v, width) == [type |-> "value", v |-> v, width |-> width, in |-> FALSE,
                    out |-> FALSE, len |-> 0]

(* ArgOnStack: a VH buffer of len bytes, copied in or out or both. *)
OnStack(in, out, len) == [type |-> "stack", v |-> 0, width |-> 0, in |-> in,
                          out |-> out, len |-> len]

(* The empty unique_ptr that resize leaves for an argument not yet set. *)
Null == [type |-> "null", v |-> 0, width |-> 0, in |-> FALSE, out |-> FALSE,
         len |-> 0]

ASSUME SizeAssumption ==
  /\ NumRegs \in Nat /\ ParamOffset \in Nat
  /\ WordSize \in Nat \ {0} /\ MaxCalls \in Nat /\ MaxArgs \in Nat
  /\ MemSize \in Nat /\ StartSP \in 0..MemSize
ASSUME FaultAssumption == Fault \subseteq {"in", "out"}

(* A value fits a word, and a buffer is copied in, out or both.            *)
ASSUME ArgAssumption ==
  \A arg \in ArgSet :
    \/ /\ arg = Value(arg.v, arg.width)
       /\ arg.v \in Int /\ arg.width \in 1..WordSize
    \/ /\ arg = OnStack(arg.in, arg.out, arg.len)
       /\ arg.in \in BOOLEAN /\ arg.out \in BOOLEAN /\ (arg.in \/ arg.out)
       /\ arg.len \in Nat
ASSUME CallAssumption == CallLists \subseteq Seq(ArgSet)

VARIABLES
  arguments,    \* CallArgs::arguments
  buff,         \* the VH buffer of each argument
  mem,          \* memory of the VE process
  ve_sp,        \* ThreadContext::ve_sp
  obj,          \* the other fields of CallArgs and the arguments' vemva_
  regs,         \* argument registers of the VE thread
  pc,           \* where the latest call is
  calls,        \* number of calls made
  given,        \* history: buffers, stack pointer and memory at the call
  lost,         \* history: the transfers of the latest call that failed
  seen          \* history: what the VE function found as its arguments

vars == <<arguments, buff, mem, ve_sp, obj, regs, pc, calls, given, lost, seen>>

Addr == 0..(MemSize - 1)
Zero == <<"zero", 0, 0, 0>>
Junk == <<"junk", 0, 0, 0>>
Undefined == -1

NumArgs == Len(arguments)
Arg(n) == arguments[n + 1]

-----------------------------------------------------------------------------
(* Bytes to add to len for a multiple of the word size. *)
Pad(len) == IF len % WordSize > 0 THEN WordSize - (len % WordSize) ELSE 0

(* Mutant of SizeOnStack: the size is not rounded up to whole words. *)
SizeOnStackNoPad(arg) == arg.len

(* ArgBase::sizeOnStack *)
SizeOnStack(arg) == arg.len + Pad(arg.len)

(* set_value: width bytes of v at offset pos, zeros up to the next word. *)
SetValue(stack, pos, v, width) ==
  [i \in DOMAIN stack |->
     LET k == i - 1 - pos
     IN  IF k \in 0..(width - 1) THEN <<"word", 0, v, k>>
         ELSE IF k \in width..(width + Pad(width) - 1) THEN Zero
         ELSE stack[i]]

(* Mutant of ParamPos: slots counted from the first argument on the stack. *)
ParamPosFromFirst(n) == ParamOffset + WordSize * (n - NumRegs)

(* Offset in the frame of the parameter slot of argument n. *)
ParamPos(n) == ParamOffset + WordSize * n

(* Argument n's setStackImage applied to the image built so far, for a     *)
(* stack frame at address sp.                                              *)
SetStackImage(sp, img, n) ==
  LET arg == Arg(n)
      vemva == sp + Len(img.stack)
      data == IF arg.in THEN buff[n + 1] ELSE [k \in 1..arg.len |-> Zero]
      stack == img.stack \o data \o [k \in 1..Pad(arg.len) |-> Zero]
  IN  IF arg.type = "value"
      THEN [img EXCEPT !.stack = IF n < NumRegs THEN @ ELSE SetValue(@, ParamPos(n), arg.v, arg.width),
                       !.in = @ \/ n >= NumRegs,
                       !.vemva = Append(@, 0)]
      ELSE [stack |-> IF n < NumRegs THEN stack ELSE SetValue(stack, ParamPos(n), vemva, WordSize),
            in |-> img.in \/ arg.in,
            out |-> img.out \/ arg.out,
            vemva |-> Append(img.vemva, vemva)]

(* The largest int: accumulate starts with 0, so that it adds in an int. *)
IntMax == 2147483647

(* accumulate: the bytes that the buffers of the first n arguments take. *)
BufferSpace[n \in 0..NumArgs] ==
  IF n = 0 THEN 0 ELSE BufferSpace[n - 1] + SizeOnStack(arguments[n])

(* The size that getStackImage allocates on the stack. *)
ParamArea == ParamOffset + WordSize * NumArgs
StackSize == ParamArea + BufferSpace[NumArgs]

(* Mutant of StackTop: the stack pointer is not shifted. *)
StackTopUnshifted == ve_sp

(* Where getStackImage puts the frame. *)
StackTop == ve_sp - StackSize

(* The image before the first argument: an empty parameter area. *)
EmptyImage ==
  [stack |-> [k \in 1..ParamArea |-> Zero], in |-> FALSE, out |-> FALSE, vemva |-> << >>]

(* getStackImage: the stack image, the flags and where the buffers are,    *)
(* after the first n arguments.                                            *)
GetStackImage[n \in 0..NumArgs] ==
  IF n = 0 THEN EmptyImage ELSE SetStackImage(StackTop, GetStackImage[n - 1], n - 1)

(* getRegVal: the value, or the address of the buffer. *)
GetRegVal(vemva) ==
  [i \in 1..(IF NumArgs < NumRegs THEN NumArgs ELSE NumRegs) |->
     IF arguments[i].type = "value" THEN arguments[i].v ELSE vemva[i]]

-----------------------------------------------------------------------------
(* A veo_args object, before its first use. *)
Init ==
  /\ arguments = << >>
  /\ buff = << >>
  /\ mem = [a \in Addr |-> Junk]
  /\ ve_sp = StartSP
  /\ obj = [stack_top |-> 0, stack_size |-> 0, stack_buf |-> << >>,
            copied_in |-> FALSE, copied_out |-> FALSE, vemva |-> << >>]
  /\ regs = << >>
  /\ pc = "idle"
  /\ calls = 0
  /\ given = [buff |-> << >>, sp |-> StartSP, mem |-> mem]
  /\ lost = {}
  /\ seen = << >>

Idle == pc \in {"idle", "done"}

Extend(seq, len, e) ==
  IF Len(seq) < len THEN seq \o [i \in 1..(len - Len(seq)) |-> e] ELSE seq

(* set_ and setOnStack: the list is extended as far as argument n. *)
SetArg(n, arg) ==
  /\ Idle
  /\ calls < MaxCalls
  /\ arguments' = [Extend(arguments, n + 1, Null) EXCEPT ![n + 1] = arg]
  /\ buff' = [Extend(buff, n + 1, << >>) EXCEPT ![n + 1] =
                [k \in 1..arg.len |-> <<"in", calls, n, k>>]]
  /\ pc' = "idle"
  /\ UNCHANGED <<mem, ve_sp, obj, regs, calls, given, lost, seen>>

(* clear *)
Clear ==
  /\ Idle
  /\ arguments' = << >>
  /\ buff' = << >>
  /\ pc' = "idle"
  /\ UNCHANGED <<mem, ve_sp, obj, regs, calls, given, lost, seen>>

(* _doCall: setup shifts the stack pointer and builds the image, and the   *)
(* register arguments are set.  The program calls with no argument unset.  *)
(* Bounds: the VE stack has room for the frame, and the int in which the   *)
(* sizes of the buffers are added does not overflow.                       *)
SetUp ==
  /\ Idle
  /\ calls < MaxCalls
  /\ arguments \in CallLists
  /\ StackSize <= ve_sp
  /\ BufferSpace[NumArgs] <= IntMax
  /\ ve_sp' = StackTop
  /\ LET img == GetStackImage[NumArgs]
     IN  /\ obj' = [stack_top |-> StackTop, stack_size |-> StackSize, stack_buf |-> img.stack,
                    copied_in |-> img.in, copied_out |-> img.out, vemva |-> img.vemva]
         /\ regs' = GetRegVal(img.vemva)
  /\ given' = [buff |-> buff, sp |-> ve_sp, mem |-> mem]
  /\ lost' = {}
  /\ seen' = << >>
  /\ calls' = calls + 1
  /\ pc' = "copyin"
  /\ UNCHANGED <<arguments, buff, mem>>

(* A transfer between the VH and the VE takes place or fails; nobody looks *)
(* at what it returns.                                                     *)
Transfer(direction) ==
  \/ lost' = lost
  \/ direction \in Fault /\ lost' = lost \cup {direction}

(* copyin *)
CopyIn ==
  /\ pc = "copyin"
  /\ IF obj.copied_in THEN Transfer("in") ELSE UNCHANGED lost
  /\ mem' = IF obj.copied_in /\ "in" \notin lost'
            THEN [a \in Addr |-> IF a - obj.stack_top \in 0..(obj.stack_size - 1)
                                 THEN obj.stack_buf[a - obj.stack_top + 1] ELSE mem[a]]
            ELSE mem
  /\ pc' = "ve"
  /\ UNCHANGED <<arguments, buff, ve_sp, obj, regs, calls, given, seen>>

-----------------------------------------------------------------------------
(* The VE side, by the calling convention that the image is built for.     *)
(* The parameter in slot n of the frame: its low width bytes.              *)
Slot(n, width) ==
  LET a == ve_sp + ParamOffset + WordSize * n   \* by the ABI
      v == mem[a][3]
  IN  IF \A k \in 0..(width - 1) : mem[a + k] = <<"word", 0, v, k>>
      THEN v ELSE Undefined

Param(n) ==
  IF n < NumRegs THEN regs[n + 1]
  ELSE Slot(n, IF Arg(n).type = "value" THEN Arg(n).width ELSE WordSize)

(* Address a is in the buffer that parameter n points to, if it does. *)
InBuffer(a, n) == Param(n) # Undefined /\ a - Param(n) \in 0..(Arg(n).len - 1)

(* The VE function looks at its parameters and at the buffers they point   *)
(* to, and fills the buffers that are for output.  It ends in a block      *)
(* request that reports its stack pointer, from which _collectReturnValue  *)
(* updates ve_sp: nothing here depends on whether the frame is given up.   *)
Execute ==
  /\ pc = "ve"
  /\ seen' = [i \in 1..NumArgs |->
       [param |-> Param(i - 1),
        data |-> [k \in 1..Arg(i - 1).len |->
                    LET a == Param(i - 1) + k - 1
                    IN  IF a \in Addr /\ InBuffer(a, i - 1) THEN mem[a] ELSE Junk]]]
  /\ mem' = [a \in Addr |->
       LET written == {n \in 0..(NumArgs - 1) : Arg(n).out /\ InBuffer(a, n)}
       IN  IF written = {} THEN mem[a]
           ELSE LET n == CHOOSE n \in written : TRUE
                IN  <<"out", calls, n, a - Param(n) + 1>>]
  /\ ve_sp' \in {ve_sp, ve_sp + obj.stack_size}
  /\ pc' = "copyout"
  /\ UNCHANGED <<arguments, buff, obj, regs, calls, given, lost>>

-----------------------------------------------------------------------------
(* Mutant of CopyoutFromStackImage: copies the padding too. *)
CopyoutPadded(image, i) ==
  SubSeq(image, obj.vemva[i] - obj.stack_top + 1,
                obj.vemva[i] - obj.stack_top + SizeOnStack(arguments[i]))

(* ArgOnStack::copyoutFromStackImage: what the VH buffer receives. *)
CopyoutFromStackImage(image, i) ==
  SubSeq(image, obj.vemva[i] - obj.stack_top + 1,
                obj.vemva[i] - obj.stack_top + arguments[i].len)

(* copyout; after a failed transfer the buffers are filled from the image  *)
(* that was sent to the VE.                                                *)
CopyOut ==
  /\ pc = "copyout"
  /\ IF obj.copied_out
     THEN /\ Transfer("out")
          /\ LET image == IF "out" \in lost' THEN obj.stack_buf
                          ELSE [i \in 1..obj.stack_size |-> mem[obj.stack_top + i - 1]]
             IN  /\ obj' = [obj EXCEPT !.stack_buf = image]
                 /\ buff' = [i \in 1..NumArgs |->
                      IF arguments[i].out THEN CopyoutFromStackImage(image, i) ELSE buff[i]]
     ELSE UNCHANGED <<obj, buff, lost>>
  /\ pc' = "done"
  /\ UNCHANGED <<arguments, mem, ve_sp, regs, calls, given, seen>>

Next ==
  \/ \E n \in 0..(MaxArgs - 1), arg \in ArgSet : SetArg(n, arg)
  \/ Clear
  \/ SetUp
  \/ CopyIn
  \/ Execute
  \/ CopyOut

Spec == Init /\ [][Next]_vars

-----------------------------------------------------------------------------
(* The stack image is as large as the frame reserved for it, as setup      *)
(* asserts, and the frame ends where the caller's stack pointer was.       *)
ImageFillsFrame ==
  pc \in {"copyin", "ve"} =>
    /\ Len(obj.stack_buf) = obj.stack_size
    /\ obj.stack_top + obj.stack_size = given.sp

(* An argument that makes getStackImage set copied_in. *)
CopiedIn(list, i) == list[i].in \/ (list[i].type = "value" /\ i > NumRegs)

(* A buffer whose address is passed on the stack comes with some argument  *)
(* that is copied in.                                                      *)
Transferred(list) ==
  (\E i \in 1..Len(list) : i > NumRegs /\ list[i].type = "stack")
    => \E i \in 1..Len(list) : CopiedIn(list, i)

(* A call leaves what the VE stack holds above the frame alone: neither    *)
(* copyin nor the function's own output goes past the caller's pointer,    *)
(* unless copyin failed and the addresses on the stack are old ones.       *)
CallerFrameKept ==
  "in" \notin lost => \A a \in given.sp..(MemSize - 1) : mem[a] = given.mem[a]

(* What the VE function finds is what the program passed: each value, and  *)
(* for each buffer a pointer to the place copyout reads, where the bytes   *)
(* of the VH buffer are if it is for input.  A failed transfer, which the  *)
(* call does not notice, spoils what was to be copied in this call and     *)
(* nothing in the next one.                                                *)
CalleeSeesArguments ==
  pc = "copyout" =>
    \A n \in 0..(NumArgs - 1) :
      "in" \notin lost \/ n < NumRegs =>
        /\ Arg(n).type = "value" => seen[n + 1].param = Arg(n).v
        /\ Arg(n).type = "stack" => seen[n + 1].param = obj.vemva[n + 1]
        /\ Arg(n).in /\ lost = {} => seen[n + 1].data = given.buff[n + 1]

(* When the call is over, each buffer that is for output holds what the VE *)
(* function wrote to it, every other buffer is as the program left it.     *)
(* When a transfer failed, an output buffer may hold what was copied in,   *)
(* but the other buffers are still untouched.                              *)
OutputDelivered ==
  pc = "done" =>
    \A n \in 0..(NumArgs - 1) :
      /\ ~Arg(n).out => buff[n + 1] = given.buff[n + 1]
      /\ Arg(n).out /\ lost = {} =>
           buff[n + 1] = [k \in 1..Arg(n).len |-> <<"out", calls, n, k>>]
      /\ Arg(n).out /\ Arg(n).in /\ lost = {"out"} => buff[n + 1] = given.buff[n + 1]
=============================================================================
