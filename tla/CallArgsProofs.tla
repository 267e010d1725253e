--------------------------- MODULE CallArgsProofs ---------------------------
(***************************************************************************)
(* Proofs about CallArgs: what its properties say holds for every list of  *)
(* arguments, every length of a buffer, every word size, number of         *)
(* argument registers and frame offset, and any number of calls.           *)
(***************************************************************************)
EXTENDS CallArgs, SequenceTheorems, WellFoundedInduction, TLAPS

Byte == {"word", "in", "out", "zero", "junk"} \X Int \X Int \X Int

ImageType == [stack : Seq(Byte), in : BOOLEAN, out : BOOLEAN, vemva : Seq(Int)]

(* The parameter that argument i stands for, and its size in a slot. *)
ParamValue(vemva, i) == IF arguments[i].type = "value" THEN arguments[i].v ELSE vemva[i]
ParamWidth(i) == IF arguments[i].type = "value" THEN arguments[i].width ELSE WordSize

(* What is true of the image of a frame at address top after the first m   *)
(* arguments.  The flags are those of the arguments seen so far; the       *)
(* buffers lie between the parameter area and the end of the image, one    *)
(* after the other; each slot holds its parameter; and each buffer that is *)
(* for input has its bytes.                                                *)
Flags(img, m) ==
  /\ img.in <=> \E i \in 1..m : CopiedIn(arguments, i)
  /\ img.out <=> \E i \in 1..m : arguments[i].out
Places(top, img, m) ==
  /\ \A i \in 1..m : arguments[i].type = "stack" =>
       /\ top + ParamArea <= img.vemva[i]
       /\ img.vemva[i] + arguments[i].len <= top + Len(img.stack)
  /\ \A i, j \in 1..m : i < j /\ arguments[i].type = "stack" /\ arguments[j].type = "stack"
       => img.vemva[i] + arguments[i].len <= img.vemva[j]
Slots(img, m) ==
  \A i \in 1..m : i > NumRegs =>
    \A k \in 0..(ParamWidth(i) - 1) :
      img.stack[ParamPos(i - 1) + k + 1] = <<"word", 0, ParamValue(img.vemva, i), k>>
Contents(top, img, m) ==
  \A i \in 1..m : arguments[i].in =>
    \A k \in 1..arguments[i].len : img.stack[img.vemva[i] - top + k] = buff[i][k]
ImageOK(top, img, m) ==
  /\ img \in ImageType
  /\ Len(img.vemva) = m
  /\ ParamArea <= Len(img.stack)
  /\ Flags(img, m)
  /\ Places(top, img, m)
  /\ Slots(img, m)
  /\ Contents(top, img, m)

(* The arguments have buffers of their lengths. *)
Buffers ==
  /\ buff \in Seq(Seq(Byte))
  /\ Len(buff) = NumArgs
  /\ \A i \in 1..NumArgs : Len(buff[i]) = arguments[i].len

TypeInv ==
  /\ arguments \in Seq(ArgSet \cup {Null})
  /\ Buffers
  /\ mem \in [Addr -> Byte]
  /\ ve_sp \in 0..MemSize
  /\ pc \in {"idle", "copyin", "ve", "copyout", "done"}
  /\ calls \in Nat

(* The call at work, up to copyout. *)
Sent == [stack |-> obj.stack_buf, in |-> obj.copied_in, out |-> obj.copied_out,
         vemva |-> obj.vemva]
FrameInv ==
  pc \in {"copyin", "ve", "copyout"} =>
    /\ arguments \in CallLists
    /\ obj.stack_top \in Nat /\ obj.stack_size \in Nat /\ given.sp \in 0..MemSize
    /\ obj.stack_top + obj.stack_size = given.sp
    /\ Len(obj.stack_buf) = obj.stack_size
    /\ ImageOK(obj.stack_top, Sent, NumArgs)
    /\ regs = GetRegVal(obj.vemva)
    /\ buff = given.buff
    /\ lost \subseteq {"in"}
    /\ pc = "copyin" => lost = {}
    /\ pc # "copyout" => ve_sp = obj.stack_top
    /\ pc = "copyout" => ve_sp \in {obj.stack_top, given.sp}

(* copyin has transferred the image. *)
TransferInv ==
  pc = "ve" /\ obj.copied_in /\ lost = {} =>
    \A i \in 1..obj.stack_size : mem[obj.stack_top + i - 1] = obj.stack_buf[i]

(* The VE function has filled the buffers that are for output. *)
OutputInv ==
  pc = "copyout" /\ lost = {} =>
    \A i \in 1..NumArgs : arguments[i].out =>
      \A k \in 1..arguments[i].len :
        mem[obj.vemva[i] + k - 1] = <<"out", calls, i - 1, k>>

Inv == TypeInv /\ FrameInv /\ TransferInv
Safe == OutputInv /\ CallerFrameKept /\ CalleeSeesArguments /\ OutputDelivered

(* In every list the program calls with, an address passed on the stack    *)
(* is transferred.                                                         *)
AllTransferred == \A list \in CallLists : Transferred(list)
-----------------------------------------------------------------------------
(* Induction over the natural numbers, for a set of them. *)
LEMMA SetInduction ==
  ASSUME NEW S, 0 \in S, \A n \in Nat : n \in S => n + 1 \in S
  PROVE  Nat \subseteq S
<1> DEFINE R == {ss \in Nat \X Nat : ss[1] < ss[2]}
           T == Nat \ S
<1>1. IsWellFoundedOn(R, Nat)
  BY NatLessThanWellFounded DEF OpToRel
<1>2. \A x, y \in Nat : <<x, y>> \in R <=> x < y
  OBVIOUS
<1> HIDE DEF R
<1>3. ASSUME T # {} PROVE FALSE
  <2>1. T \subseteq Nat
    OBVIOUS
  <2>2. PICK x \in T : \A y \in T : ~(<<y, x>> \in R)
    BY <1>1, <1>3, <2>1, WFMin
  <2>3. x \in Nat /\ x \notin S /\ x # 0
    BY <2>2
  <2>4. x - 1 \in T /\ x - 1 < x
    BY <2>3
  <2> QED
    BY <2>2, <2>3, <2>4, <1>2
<1> QED
  BY <1>3

(* f is defined by recursion over 0..N. *)
Recursive(f, N, v0, step) ==
  f = [n \in 0..N |-> IF n = 0 THEN v0 ELSE step[<<f[n - 1], n>>]]

(* Such a function exists. *)
LEMMA PrimitiveRecursion ==
  ASSUME NEW V, NEW v0 \in V, NEW N \in Nat, NEW step \in [V \X (1..N) -> V]
  PROVE  \E f \in [0..N -> V] : Recursive(f, N, v0, step)
<1> USE DEF Recursive
<1> DEFINE UpTo(f, m) == Recursive(f, m, v0, step)
           S == {m \in Nat : m <= N => \E f \in [0..m -> V] : UpTo(f, m)}
<1>1. 0 \in S
  <2> DEFINE g == [n \in 0..0 |-> v0]
  <2>1. g \in [0..0 -> V]
    OBVIOUS
  <2>2. UpTo(g, 0)
    OBVIOUS
  <2> QED
    BY <2>1, <2>2
<1>2. ASSUME NEW m \in Nat, m \in S PROVE m + 1 \in S
  <2> SUFFICES ASSUME m + 1 <= N PROVE \E f \in [0..(m + 1) -> V] : UpTo(f, m + 1)
    OBVIOUS
  <2>1. PICK f \in [0..m -> V] : UpTo(f, m)
    BY <1>2
  <2> DEFINE g == [n \in 0..(m + 1) |-> IF n = m + 1 THEN step[<<f[m], m + 1>>] ELSE f[n]]
  <2>2. step[<<f[m], m + 1>>] \in V
    BY <2>1
  <2>3. g \in [0..(m + 1) -> V]
    BY <2>2
  <2>4. \A n \in 0..m : f[n] = IF n = 0 THEN v0 ELSE step[<<f[n - 1], n>>]
    BY <2>1
  <2>5. ASSUME NEW n \in 0..(m + 1)
        PROVE  g[n] = IF n = 0 THEN v0 ELSE step[<<g[n - 1], n>>]
    <3>1. CASE n = m + 1
      BY <3>1
    <3>2. CASE n = 0
      <4>1. 0 \in 0..m /\ 0 # m + 1 /\ 0 \in 0..(m + 1)
        OBVIOUS
      <4>2. f[0] = v0
        BY <2>4, <4>1
      <4> QED
        BY <3>2, <4>1, <4>2
    <3>3. CASE n \in 1..m
      BY <2>4, <3>3
    <3> QED
      BY <3>1, <3>2, <3>3
  <2>6. UpTo(g, m + 1)
    BY <2>5
  <2> QED
    BY <2>3, <2>6
<1>3. Nat \subseteq S
  BY <1>1, <1>2, SetInduction
<1> QED
  BY <1>3

(* A function on 1..n is a sequence. *)
LEMMA FcnIsSeq ==
  ASSUME NEW S, NEW n \in Nat, NEW f \in [1..n -> S]
  PROVE  f \in Seq(S) /\ Len(f) = n
  OBVIOUS
-----------------------------------------------------------------------------
(* Padding is a number of bytes. *)
LEMMA PadFacts ==
  ASSUME NEW len \in Nat
  PROVE  Pad(len) \in Nat
<1>1. len % WordSize \in 0..(WordSize - 1)
  BY SizeAssumption
<1> QED
  BY <1>1, SizeAssumption DEF Pad

(* A value and its padding take one word. *)
LEMMA PadWord ==
  ASSUME NEW width \in 1..WordSize
  PROVE  width + Pad(width) = WordSize
<1>1. CASE width = WordSize
  BY SizeAssumption, <1>1 DEF Pad
<1>2. CASE width # WordSize
  <2>1. width % WordSize = width
    BY SizeAssumption, <1>2
  <2> QED
    BY <2>1, SizeAssumption DEF Pad
<1> QED
  BY <1>1, <1>2

(* The slots of the parameters follow each other. *)
LEMMA SlotOrder ==
  ASSUME NEW n \in Nat, NEW m \in Nat, n < m
  PROVE  /\ ParamPos(n) \in Nat
         /\ ParamPos(n) + WordSize <= ParamOffset + WordSize * m
<1>1. m - n - 1 \in Nat
  OBVIOUS
<1>2. WordSize * (m - n - 1) \in Nat /\ WordSize * n \in Nat
  BY <1>1, SizeAssumption
<1>3. WordSize * m = WordSize * n + WordSize + WordSize * (m - n - 1)
  BY SizeAssumption
<1> QED
  BY <1>2, <1>3, SizeAssumption DEF ParamPos

(* Every byte of the model has its type. *)
LEMMA ByteFacts ==
  /\ Zero \in Byte /\ Junk \in Byte
  /\ \A v \in Int, k \in Int : <<"word", 0, v, k>> \in Byte
  /\ \A c \in Int, n \in Int, k \in Int : <<"in", c, n, k>> \in Byte /\ <<"out", c, n, k>> \in Byte
  BY DEF Zero, Junk, Byte

(* What ArgAssumption says of an argument, by its type. *)
LEMMA ArgFacts ==
  ASSUME NEW arg \in ArgSet
  PROVE  /\ arg.type \in {"value", "stack"}
         /\ arg.in \in BOOLEAN /\ arg.out \in BOOLEAN /\ arg.len \in Nat
         /\ arg.type = "value" =>
              arg.v \in Int /\ arg.width \in 1..WordSize /\ ~arg.in /\ ~arg.out /\ arg.len = 0
         /\ arg.type = "stack" => arg.in \/ arg.out
<1>1. CASE arg = Value(arg.v, arg.width) /\ arg.v \in Int /\ arg.width \in 1..WordSize
  <2>1. arg.type = "value" /\ arg.in = FALSE /\ arg.out = FALSE /\ arg.len = 0
    BY <1>1 DEF Value
  <2>2. arg.in \in BOOLEAN /\ arg.out \in BOOLEAN /\ ~arg.in /\ ~arg.out
    BY <2>1
  <2>3. arg.len \in Nat
    BY <2>1
  <2> QED
    BY <1>1, <2>1, <2>2, <2>3
<1>2. CASE /\ arg = OnStack(arg.in, arg.out, arg.len)
           /\ arg.in \in BOOLEAN /\ arg.out \in BOOLEAN /\ (arg.in \/ arg.out)
           /\ arg.len \in Nat
  <2>1. arg.type = "stack"
    BY <1>2 DEF OnStack
  <2> QED
    BY <1>2, <2>1
<1> QED
  BY <1>1, <1>2, ArgAssumption

(* The room an argument takes is enough for its buffer. *)
LEMMA SizeFacts ==
  ASSUME NEW arg \in ArgSet
  PROVE  arg.len \in Nat /\ SizeOnStack(arg) \in Nat /\ arg.len <= SizeOnStack(arg)
<1>1. arg.len \in Nat
  BY ArgFacts
<1>2. Pad(arg.len) \in Nat
  BY <1>1, PadFacts
<1> QED
  BY <1>1, <1>2 DEF SizeOnStack

(* new is stack with v in the word at pos. *)
WordSet(stack, pos, v, width, new) ==
  /\ new \in Seq(Byte)
  /\ Len(new) = Len(stack)
  /\ \A k \in 0..(width - 1) : new[pos + k + 1] = <<"word", 0, v, k>>
  /\ \A i \in 1..Len(stack) : i <= pos \/ i > pos + WordSize => new[i] = stack[i]

(* set_value changes one word. *)
LEMMA SetValueFacts ==
  ASSUME NEW stack \in Seq(Byte), NEW pos \in Nat, NEW v \in Int, NEW width \in 1..WordSize,
         pos + WordSize <= Len(stack)
  PROVE  WordSet(stack, pos, v, width, SetValue(stack, pos, v, width))
<1> DEFINE new == SetValue(stack, pos, v, width)
           N == Len(stack)
<1>1. N \in Nat /\ DOMAIN stack = 1..N /\ \A i \in 1..N : stack[i] \in Byte
  BY LenProperties
<1>2. WordSize \in Nat /\ Pad(width) \in Nat /\ width + Pad(width) = WordSize
  <2>1. width \in Nat
    BY SizeAssumption
  <2> QED
    BY <2>1, SizeAssumption, PadFacts, PadWord
<1>3. new = [i \in 1..N |->
               IF i - 1 - pos \in 0..(width - 1) THEN <<"word", 0, v, i - 1 - pos>>
               ELSE IF i - 1 - pos \in width..(WordSize - 1) THEN Zero
               ELSE stack[i]]
  <2>1. width + Pad(width) - 1 = WordSize - 1
    BY <1>2
  <2> QED
    BY <1>1, <2>1 DEF SetValue
<1> HIDE DEF new
<1>4. ASSUME NEW i \in 1..N PROVE new[i] \in Byte
  <2>1. \/ new[i] = <<"word", 0, v, i - 1 - pos>>
        \/ new[i] = Zero
        \/ new[i] = stack[i]
    BY <1>3
  <2>2. <<"word", 0, v, i - 1 - pos>> \in Byte /\ Zero \in Byte
    <3>1. i - 1 - pos \in Int
      BY <1>1
    <3> QED
      BY <3>1, ByteFacts
  <2> QED
    BY <1>1, <2>1, <2>2
<1>5. new \in [1..N -> Byte]
  BY <1>3, <1>4
<1>6. new \in Seq(Byte) /\ Len(new) = N
  BY <1>1, <1>5, FcnIsSeq
<1>7. ASSUME NEW k \in 0..(width - 1) PROVE new[pos + k + 1] = <<"word", 0, v, k>>
  <2>1. pos + k + 1 \in 1..N /\ (pos + k + 1) - 1 - pos = k
    BY <1>1, <1>2
  <2> QED
    BY <1>3, <2>1
<1>8. ASSUME NEW i \in 1..N, i <= pos \/ i > pos + WordSize PROVE new[i] = stack[i]
  <2>1. i - 1 - pos \notin 0..(width - 1) /\ i - 1 - pos \notin width..(WordSize - 1)
    BY <1>1, <1>2, <1>8
  <2> QED
    BY <1>3, <2>1
<1> QED
  BY <1>6, <1>7, <1>8 DEF new, WordSet

(* The data of a buffer and its padding are appended. *)
LEMMA AppendData ==
  ASSUME NEW stack \in Seq(Byte), NEW data \in Seq(Byte)
  PROVE  LET new == stack \o data \o [k \in 1..Pad(Len(data)) |-> Zero]
         IN  /\ new \in Seq(Byte)
             /\ Len(new) = Len(stack) + Len(data) + Pad(Len(data))
             /\ \A i \in 1..Len(stack) : new[i] = stack[i]
             /\ \A k \in 1..Len(data) : new[Len(stack) + k] = data[k]
<1> DEFINE pad == [k \in 1..Pad(Len(data)) |-> Zero]
           both == stack \o data
           new == both \o pad
<1>1. Len(stack) \in Nat /\ Len(data) \in Nat /\ Pad(Len(data)) \in Nat
  BY LenProperties, PadFacts
<1>2. pad \in Seq(Byte) /\ Len(pad) = Pad(Len(data))
  <2>1. pad \in [1..Pad(Len(data)) -> Byte]
    BY ByteFacts
  <2> QED
    BY <1>1, <2>1, FcnIsSeq
<1>3. /\ both \in Seq(Byte) /\ Len(both) = Len(stack) + Len(data)
      /\ \A i \in 1..(Len(stack) + Len(data)) :
           both[i] = IF i <= Len(stack) THEN stack[i] ELSE data[i - Len(stack)]
  BY ConcatProperties
<1> HIDE DEF pad, both
<1>4. /\ new \in Seq(Byte) /\ Len(new) = Len(both) + Len(pad)
      /\ \A i \in 1..(Len(both) + Len(pad)) :
           new[i] = IF i <= Len(both) THEN both[i] ELSE pad[i - Len(both)]
  <2>1. both \in Seq(Byte) /\ pad \in Seq(Byte)
    BY <1>2, <1>3
  <2> QED
    BY <2>1, ConcatProperties
<1> HIDE DEF new
<1>5. ASSUME NEW i \in 1..Len(stack) PROVE new[i] = stack[i]
  <2>1. i \in 1..Len(both) /\ i \in 1..(Len(both) + Len(pad)) /\ i \in 1..(Len(stack) + Len(data))
    BY <1>1, <1>2, <1>3
  <2>2. new[i] = both[i] /\ both[i] = stack[i]
    BY <1>1, <1>3, <1>4, <2>1
  <2> QED
    BY <2>2
<1>6. ASSUME NEW k \in 1..Len(data) PROVE new[Len(stack) + k] = data[k]
  <2> DEFINE i == Len(stack) + k
  <2>1. /\ i \in 1..Len(both) /\ i \in 1..(Len(both) + Len(pad)) /\ i \in 1..(Len(stack) + Len(data))
        /\ ~(i <= Len(stack)) /\ i - Len(stack) = k
    BY <1>1, <1>2, <1>3
  <2>2. new[i] = both[i]
    BY <1>1, <1>3, <1>4, <2>1
  <2>3. both[i] = data[i - Len(stack)]
    BY <1>3, <2>1
  <2> QED
    BY <2>1, <2>2, <2>3
<1>7. Len(new) = Len(stack) + Len(data) + Pad(Len(data))
  BY <1>1, <1>2, <1>3, <1>4
<1> QED
  BY <1>4, <1>5, <1>6, <1>7 DEF new, both, pad

(* The slot of argument m, counted from 0, is in the parameter area. *)
LEMMA SlotInArea ==
  ASSUME NumArgs \in Nat, NEW m \in 0..(NumArgs - 1)
  PROVE  ParamPos(m) \in Nat /\ ParamPos(m) + WordSize <= ParamArea /\ ParamArea \in Nat
<1>1. WordSize * NumArgs \in Nat
  BY SizeAssumption
<1> QED
  BY <1>1, SizeAssumption, SlotOrder DEF ParamArea

(* What setStackImage of argument m does to an image. *)
Stepped(top, img, m, new) ==
  LET arg == arguments[m + 1]
      old == Len(img.stack)
  IN  /\ new \in ImageType
      /\ Len(new.stack) = old + SizeOnStack(arg)
      /\ new.in <=> img.in \/ CopiedIn(arguments, m + 1)
      /\ new.out <=> img.out \/ arg.out
      /\ Len(new.vemva) = Len(img.vemva) + 1
      /\ \A i \in 1..Len(img.vemva) : new.vemva[i] = img.vemva[i]
      /\ arg.type = "stack" => new.vemva[Len(img.vemva) + 1] = top + old
      /\ m + 1 > NumRegs => \A k \in 0..(ParamWidth(m + 1) - 1) :
           new.stack[ParamPos(m) + k + 1] =
             <<"word", 0, IF arg.type = "value" THEN arg.v ELSE top + old, k>>
      /\ \A i \in 1..old : i <= ParamPos(m) \/ i > ParamPos(m) + WordSize =>
           new.stack[i] = img.stack[i]
      /\ arg.in => \A k \in 1..arg.len : new.stack[old + k] = buff[m + 1][k]

(* setStackImage of a value writes its slot and nothing else. *)
LEMMA StepValue ==
  ASSUME arguments \in Seq(ArgSet), NEW top \in Int, NEW m \in 0..(NumArgs - 1),
         NEW img \in ImageType, ParamArea <= Len(img.stack), arguments[m + 1].type = "value"
  PROVE  Stepped(top, img, m, SetStackImage(top, img, m))
<1> DEFINE arg == arguments[m + 1]
           new == SetStackImage(top, img, m)
           old == Len(img.stack)
           put == SetValue(img.stack, ParamPos(m), arg.v, arg.width)
<1>1. NumArgs \in Nat /\ m + 1 \in 1..NumArgs
  BY LenProperties DEF NumArgs
<1>2. arg \in ArgSet
  BY <1>1, ElementOfSeq DEF NumArgs
<1>3. arg.v \in Int /\ arg.width \in 1..WordSize /\ ~arg.in /\ ~arg.out /\ arg.len = 0
  BY <1>2, ArgFacts
<1>4. /\ img.stack \in Seq(Byte) /\ img.in \in BOOLEAN /\ img.out \in BOOLEAN
      /\ img.vemva \in Seq(Int) /\ old \in Nat /\ Len(img.vemva) \in Nat
  BY LenProperties DEF ImageType
<1>5. /\ ParamPos(m) \in Nat /\ ParamPos(m) + WordSize <= old
      /\ img.stack \in Seq(Byte) /\ arg.v \in Int /\ arg.width \in 1..WordSize
  BY <1>1, <1>3, <1>4, SlotInArea, SizeAssumption
<1> HIDE DEF arg
<1>6. /\ put \in Seq(Byte) /\ Len(put) = old
      /\ \A k \in 0..(arg.width - 1) : put[ParamPos(m) + k + 1] = <<"word", 0, arg.v, k>>
      /\ \A i \in 1..old : i <= ParamPos(m) \/ i > ParamPos(m) + WordSize => put[i] = img.stack[i]
  <2>1. WordSet(img.stack, ParamPos(m), arg.v, arg.width, put)
    BY <1>5, SetValueFacts
  <2> HIDE DEF put
  <2> QED
    BY <2>1 DEF WordSet
<1> USE DEF arg
<1>7. SizeOnStack(arg) = 0
  BY <1>3, SizeAssumption DEF SizeOnStack, Pad
<1>8. /\ Append(img.vemva, 0) \in Seq(Int) /\ Len(Append(img.vemva, 0)) = Len(img.vemva) + 1
      /\ \A i \in 1..Len(img.vemva) : Append(img.vemva, 0)[i] = img.vemva[i]
  BY <1>4, AppendProperties
<1>9. new = [stack |-> IF m < NumRegs THEN img.stack ELSE put,
             in |-> img.in \/ m >= NumRegs, out |-> img.out, vemva |-> Append(img.vemva, 0)]
  BY DEF SetStackImage, Arg, ImageType
<1> HIDE DEF new, put
<1>10. new \in ImageType
  BY <1>4, <1>6, <1>8, <1>9 DEF ImageType
<1>11. new.in <=> img.in \/ CopiedIn(arguments, m + 1)
  <2>1. m >= NumRegs <=> m + 1 > NumRegs
    BY SizeAssumption
  <2>2. CopiedIn(arguments, m + 1) <=> m >= NumRegs
    BY <1>3, <2>1 DEF CopiedIn
  <2> QED
    BY <1>9, <2>2
<1>12. new.out <=> img.out \/ arg.out
  BY <1>3, <1>9
<1>13. Len(new.stack) = old + SizeOnStack(arg)
  BY <1>4, <1>6, <1>7, <1>9
<1>14. m + 1 > NumRegs => \A k \in 0..(ParamWidth(m + 1) - 1) :
         new.stack[ParamPos(m) + k + 1] =
           <<"word", 0, IF arg.type = "value" THEN arg.v ELSE top + old, k>>
  BY <1>6, <1>9, SizeAssumption DEF ParamWidth
<1>15. \A i \in 1..old : i <= ParamPos(m) \/ i > ParamPos(m) + WordSize =>
         new.stack[i] = img.stack[i]
  BY <1>6, <1>9
<1> QED
  BY <1>3, <1>8, <1>9, <1>10, <1>11, <1>12, <1>13, <1>14, <1>15 DEF Stepped, new

(* A byte of a buffer that is appended lies behind the parameter area. *)
LEMMA PastArea ==
  ASSUME NEW old \in Nat, NEW len \in Nat, NEW pad \in Nat, NEW k \in 1..len,
         NEW size, size = old + len + pad,
         NEW pos \in Nat, NEW word \in Nat, pos + word <= old
  PROVE  old + k \in 1..size /\ old + k > pos + word
  OBVIOUS

(* setStackImage of a buffer appends it and writes the slot of its address. *)
LEMMA StepBuffer ==
  ASSUME arguments \in Seq(ArgSet), Buffers, NEW top \in Int, NEW m \in 0..(NumArgs - 1),
         NEW img \in ImageType, ParamArea <= Len(img.stack), arguments[m + 1].type = "stack"
  PROVE  Stepped(top, img, m, SetStackImage(top, img, m))
<1> DEFINE arg == arguments[m + 1]
           new == SetStackImage(top, img, m)
           old == Len(img.stack)
           data == IF arg.in THEN buff[m + 1] ELSE [k \in 1..arg.len |-> Zero]
           grown == img.stack \o data \o [k \in 1..Pad(arg.len) |-> Zero]
           put == SetValue(grown, ParamPos(m), top + old, WordSize)
<1>1. NumArgs \in Nat /\ m + 1 \in 1..NumArgs
  BY LenProperties DEF NumArgs
<1>2. arg \in ArgSet
  BY <1>1, ElementOfSeq DEF NumArgs
<1>3. arg.in \in BOOLEAN /\ arg.out \in BOOLEAN /\ arg.len \in Nat
  BY <1>2, ArgFacts
<1>4. /\ img.stack \in Seq(Byte) /\ img.in \in BOOLEAN /\ img.out \in BOOLEAN
      /\ img.vemva \in Seq(Int) /\ old \in Nat /\ Len(img.vemva) \in Nat
  BY LenProperties DEF ImageType
<1>5. data \in Seq(Byte) /\ Len(data) = arg.len
  <2>1. CASE arg.in
    BY <1>1, <2>1, ElementOfSeq DEF Buffers
  <2>2. CASE ~arg.in
    <3>1. [k \in 1..arg.len |-> Zero] \in [1..arg.len -> Byte]
      BY ByteFacts
    <3> QED
      BY <1>3, <2>2, <3>1, FcnIsSeq
  <2> QED
    BY <2>1, <2>2
<1> HIDE DEF data
<1>6. /\ grown \in Seq(Byte) /\ Len(grown) = old + arg.len + Pad(arg.len)
      /\ \A i \in 1..old : grown[i] = img.stack[i]
      /\ \A k \in 1..arg.len : grown[old + k] = data[k]
  <2>1. grown = img.stack \o data \o [k \in 1..Pad(Len(data)) |-> Zero]
    BY <1>5
  <2> DEFINE long == img.stack \o data \o [k \in 1..Pad(Len(data)) |-> Zero]
  <2>2. /\ long \in Seq(Byte) /\ Len(long) = Len(img.stack) + Len(data) + Pad(Len(data))
        /\ \A i \in 1..Len(img.stack) : long[i] = img.stack[i]
        /\ \A k \in 1..Len(data) : long[Len(img.stack) + k] = data[k]
    <3>1. img.stack \in Seq(Byte) /\ data \in Seq(Byte)
      BY <1>4, <1>5
    <3> QED
      BY <3>1, AppendData
  <2> HIDE DEF grown, long
  <2> QED
    BY <1>5, <2>1, <2>2 DEF long
<1>7. Pad(arg.len) \in Nat /\ SizeOnStack(arg) = arg.len + Pad(arg.len)
  BY <1>3, PadFacts DEF SizeOnStack
<1>8. /\ ParamPos(m) \in Nat /\ ParamPos(m) + WordSize <= ParamArea /\ ParamArea \in Nat
      /\ WordSize \in 1..WordSize
  BY <1>1, SlotInArea, SizeAssumption
<1>9. ParamPos(m) + WordSize <= Len(grown) /\ top + old \in Int
  BY <1>3, <1>4, <1>6, <1>7, <1>8, SizeAssumption
<1> HIDE DEF grown
<1>10. /\ put \in Seq(Byte) /\ Len(put) = Len(grown)
       /\ \A k \in 0..(WordSize - 1) : put[ParamPos(m) + k + 1] = <<"word", 0, top + old, k>>
       /\ \A i \in 1..Len(grown) :
            i <= ParamPos(m) \/ i > ParamPos(m) + WordSize => put[i] = grown[i]
  <2>1. WordSet(grown, ParamPos(m), top + old, WordSize, put)
    BY <1>6, <1>8, <1>9, SetValueFacts
  <2> HIDE DEF put
  <2> QED
    BY <2>1 DEF WordSet
<1>11. /\ Append(img.vemva, top + old) \in Seq(Int)
       /\ Len(Append(img.vemva, top + old)) = Len(img.vemva) + 1
       /\ \A i \in 1..Len(img.vemva) : Append(img.vemva, top + old)[i] = img.vemva[i]
       /\ Append(img.vemva, top + old)[Len(img.vemva) + 1] = top + old
  BY <1>4, <1>9, AppendProperties
<1>12. new = [stack |-> IF m < NumRegs THEN grown ELSE put,
              in |-> img.in \/ arg.in, out |-> img.out \/ arg.out,
              vemva |-> Append(img.vemva, top + old)]
  BY DEF SetStackImage, Arg, grown, data
<1> HIDE DEF new, put
<1>13. new \in ImageType
  BY <1>3, <1>4, <1>6, <1>10, <1>11, <1>12 DEF ImageType
<1>14. new.in <=> img.in \/ CopiedIn(arguments, m + 1)
  BY <1>12 DEF CopiedIn
<1>15. new.out <=> img.out \/ arg.out
  BY <1>12
<1>16. Len(new.stack) = Len(grown)
  BY <1>10, <1>12
<1>17. m + 1 > NumRegs => \A k \in 0..(ParamWidth(m + 1) - 1) :
         new.stack[ParamPos(m) + k + 1] =
           <<"word", 0, IF arg.type = "value" THEN arg.v ELSE top + old, k>>
  BY <1>10, <1>12, SizeAssumption DEF ParamWidth
<1>18. \A i \in 1..Len(grown) : i <= ParamPos(m) \/ i > ParamPos(m) + WordSize =>
         new.stack[i] = grown[i]
  BY <1>10, <1>12
<1>19. \A i \in 1..old : i <= ParamPos(m) \/ i > ParamPos(m) + WordSize =>
         new.stack[i] = img.stack[i]
  <2> TAKE i \in 1..old
  <2>1. i \in 1..Len(grown)
    BY <1>3, <1>4, <1>6, <1>7
  <2> QED
    BY <1>6, <1>18, <2>1
<1>20. ASSUME arg.in, NEW k \in 1..arg.len PROVE new.stack[old + k] = buff[m + 1][k]
  <2>1. old + k \in 1..Len(grown) /\ old + k > ParamPos(m) + WordSize
    <3>1. old \in Nat /\ arg.len \in Nat /\ k \in 1..arg.len /\ Len(grown) = old + arg.len + Pad(arg.len)
      BY <1>3, <1>4, <1>6
    <3>2. Pad(arg.len) \in Nat /\ WordSize \in Nat /\ ParamPos(m) + WordSize <= old /\ ParamPos(m) \in Nat
      BY <1>4, <1>7, <1>8, SizeAssumption
    <3> QED
      BY <3>1, <3>2, PastArea
  <2>2. new.stack[old + k] = data[k]
    BY <1>6, <1>18, <2>1
  <2> QED
    BY <1>20, <2>2 DEF data
<1>21. new.vemva = Append(img.vemva, top + old)
  BY <1>12
<1>22. Len(new.stack) = old + SizeOnStack(arg)
  BY <1>3, <1>4, <1>6, <1>7, <1>16
<1> QED
  BY <1>11, <1>13, <1>14, <1>15, <1>17, <1>19, <1>20, <1>21, <1>22 DEF Stepped, new

(* One more argument keeps the image as it should be. *)
LEMMA ImageStep ==
  ASSUME arguments \in Seq(ArgSet), NEW top \in Int, NEW m \in 0..(NumArgs - 1),
         NEW img, ImageOK(top, img, m), NEW new, Stepped(top, img, m, new)
  PROVE  ImageOK(top, new, m + 1)
<1> DEFINE old == Len(img.stack)
           arg == arguments[m + 1]
<1>1. NumArgs \in Nat /\ m \in Nat /\ m + 1 \in 1..NumArgs
  BY LenProperties DEF NumArgs
<1>2. \A i \in 1..(m + 1) : arguments[i] \in ArgSet
  BY <1>1, ElementOfSeq DEF NumArgs
<1>3. /\ img \in ImageType /\ new \in ImageType /\ Len(img.vemva) = m
      /\ old \in Nat /\ Len(new.stack) \in Nat
      /\ \A i \in 1..m : img.vemva[i] \in Int
  BY LenProperties, ElementOfSeq DEF ImageOK, Stepped, ImageType
<1>4. /\ arg.len \in Nat /\ SizeOnStack(arg) \in Nat /\ arg.len <= SizeOnStack(arg)
  <2>1. arg \in ArgSet
    BY <1>1, <1>2
  <2> QED
    BY <2>1, SizeFacts
<1>5. /\ Len(new.stack) = old + SizeOnStack(arg) /\ ParamArea <= old
      /\ Len(new.vemva) = m + 1
      /\ \A i \in 1..m : new.vemva[i] = img.vemva[i]
      /\ arg.type = "stack" => new.vemva[m + 1] = top + old
  BY <1>3 DEF ImageOK, Stepped
<1>6. \A i \in 1..(m + 1) : i = m + 1 \/ i \in 1..m
  BY <1>1
<1>7. ParamPos(m) \in Nat /\ ParamPos(m) + WordSize <= ParamArea /\ ParamArea \in Nat /\ WordSize \in Nat
  BY <1>1, SlotInArea, SizeAssumption
<1>8. \A p \in 1..old : p <= ParamPos(m) \/ p > ParamPos(m) + WordSize => new.stack[p] = img.stack[p]
  BY DEF Stepped
<1>9. Flags(new, m + 1)
  <2>1. m + 1 \in 1..(m + 1) /\ \A i \in 1..m : i \in 1..(m + 1)
    BY <1>1
  <2>2. (\E i \in 1..(m + 1) : CopiedIn(arguments, i)) <=>
          CopiedIn(arguments, m + 1) \/ \E i \in 1..m : CopiedIn(arguments, i)
    BY <1>6, <2>1
  <2>3. (\E i \in 1..(m + 1) : arguments[i].out) <=>
          arg.out \/ \E i \in 1..m : arguments[i].out
    BY <1>6, <2>1
  <2>4. /\ new.in <=> img.in \/ CopiedIn(arguments, m + 1)
        /\ new.out <=> img.out \/ arg.out
    BY DEF Stepped
  <2>5. /\ img.in <=> \E i \in 1..m : CopiedIn(arguments, i)
        /\ img.out <=> \E i \in 1..m : arguments[i].out
    BY DEF ImageOK, Flags
  <2> QED
    BY <2>2, <2>3, <2>4, <2>5 DEF Flags
<1>10. Places(top, new, m + 1)
  <2>1. ASSUME NEW i \in 1..(m + 1), arguments[i].type = "stack"
        PROVE  /\ top + ParamArea <= new.vemva[i]
               /\ new.vemva[i] + arguments[i].len <= top + Len(new.stack)
    <3>1. CASE i = m + 1
      <4>1. new.vemva[i] = top + old /\ arguments[i].len = arg.len
        BY <1>5, <2>1, <3>1
      <4>2. /\ top \in Int /\ old \in Nat /\ ParamArea \in Nat /\ ParamArea <= old
            /\ SizeOnStack(arg) \in Nat /\ arg.len \in Nat /\ arg.len <= SizeOnStack(arg)
            /\ Len(new.stack) = old + SizeOnStack(arg)
        BY <1>3, <1>4, <1>5, <1>7
      <4> HIDE DEF old, arg
      <4> QED
        BY <4>1, <4>2
    <3>2. CASE i \in 1..m
      <4>1. /\ top + ParamArea <= img.vemva[i]
            /\ img.vemva[i] + arguments[i].len <= top + old
        BY <2>1, <3>2 DEF ImageOK, Places
      <4>2. arguments[i].len \in Nat
        BY <1>2, ArgFacts
      <4> QED
        <5>1. /\ new.vemva[i] = img.vemva[i] /\ img.vemva[i] \in Int
              /\ Len(new.stack) = old + SizeOnStack(arg) /\ old \in Nat /\ SizeOnStack(arg) \in Nat
          BY <1>3, <1>4, <1>5, <3>2
        <5> HIDE DEF old, arg
        <5> QED
          BY <4>1, <4>2, <5>1
    <3> QED
      BY <1>6, <3>1, <3>2
  <2>2. ASSUME NEW i \in 1..(m + 1), NEW j \in 1..(m + 1), i < j,
               arguments[i].type = "stack", arguments[j].type = "stack"
        PROVE  new.vemva[i] + arguments[i].len <= new.vemva[j]
    <3>1. i \in 1..m
      BY <1>1, <2>2
    <3>2. CASE j = m + 1
      <4>1. img.vemva[i] + arguments[i].len <= top + old
        BY <2>2, <3>1 DEF ImageOK, Places
      <4> QED
        BY <1>5, <2>2, <3>1, <3>2, <4>1
    <3>3. CASE j \in 1..m
      <4>1. img.vemva[i] + arguments[i].len <= img.vemva[j]
        BY <2>2, <3>1, <3>3 DEF ImageOK, Places
      <4> QED
        BY <1>5, <3>1, <3>3, <4>1
    <3> QED
      BY <1>6, <3>2, <3>3
  <2> QED
    BY <2>1, <2>2 DEF Places
<1>11. Slots(new, m + 1)
  <2> SUFFICES ASSUME NEW i \in 1..(m + 1), i > NumRegs, NEW k \in 0..(ParamWidth(i) - 1)
               PROVE  new.stack[ParamPos(i - 1) + k + 1] =
                        <<"word", 0, ParamValue(new.vemva, i), k>>
    BY DEF Slots
  <2>1. CASE i = m + 1
    <3>1. i - 1 = m
      BY <1>1, <2>1
    <3>2. arg.type = "value" \/ arg.type = "stack"
      BY <1>1, <1>2, ArgFacts
    <3>3. ParamValue(new.vemva, m + 1) = IF arg.type = "value" THEN arg.v ELSE top + old
      BY <1>5, <3>2 DEF ParamValue
    <3> QED
      BY <2>1, <3>1, <3>3 DEF Stepped
  <2>2. CASE i \in 1..m
    <3> DEFINE p == ParamPos(i - 1) + k + 1
    <3>1. ParamWidth(i) \in 1..WordSize
      BY <1>2, ArgFacts, SizeAssumption DEF ParamWidth
    <3>2. ParamPos(i - 1) \in Nat /\ ParamPos(i - 1) + WordSize <= ParamPos(m)
      <4>1. i - 1 \in Nat /\ i - 1 < m
        BY <1>1, <2>2
      <4> QED
        BY <1>1, <4>1, SlotOrder DEF ParamPos
    <3>3. p \in 1..old /\ p <= ParamPos(m)
      <4>1. old \in Nat /\ ParamPos(m) <= old /\ ParamPos(m) \in Nat /\ WordSize \in Nat
        BY <1>3, <1>5, <1>7
      <4> HIDE DEF old
      <4> QED
        BY <3>1, <3>2, <4>1
    <3>4. img.stack[p] = <<"word", 0, ParamValue(img.vemva, i), k>>
      BY <2>2 DEF ImageOK, Slots
    <3>5. ParamValue(new.vemva, i) = ParamValue(img.vemva, i)
      BY <1>5, <2>2 DEF ParamValue
    <3> QED
      BY <1>8, <3>3, <3>4, <3>5
  <2> QED
    BY <1>6, <2>1, <2>2
<1>12. Contents(top, new, m + 1)
  <2> SUFFICES ASSUME NEW i \in 1..(m + 1), arguments[i].in, NEW k \in 1..arguments[i].len
               PROVE  new.stack[new.vemva[i] - top + k] = buff[i][k]
    BY DEF Contents
  <2>1. arguments[i].type = "stack" /\ arguments[i].len \in Nat
    BY <1>2, ArgFacts
  <2>2. CASE i = m + 1
    <3>1. new.vemva[m + 1] - top + k = old + k
      BY <1>3, <1>5, <2>1, <2>2
    <3> QED
      BY <2>2, <3>1 DEF Stepped
  <2>3. CASE i \in 1..m
    <3> DEFINE q == img.vemva[i] - top + k
    <3>1. /\ top + ParamArea <= img.vemva[i]
          /\ img.vemva[i] + arguments[i].len <= top + old
      BY <2>1, <2>3 DEF ImageOK, Places
    <3>2. q \in 1..old /\ q > ParamPos(m) + WordSize
      <4> DEFINE v == img.vemva[i]
                 len == arguments[i].len
      <4>1. /\ old \in Nat /\ v \in Int /\ len \in Nat /\ k \in 1..len
            /\ top + ParamArea <= v /\ v + len <= top + old /\ q = v - top + k
        BY <1>3, <2>1, <2>3, <3>1
      <4> HIDE DEF old, v, len, q
      <4> QED
        BY <1>7, <4>1
    <3>3. img.stack[q] = buff[i][k]
      BY <2>3 DEF ImageOK, Contents
    <3> QED
      BY <1>5, <1>8, <2>3, <3>2, <3>3
  <2> QED
    BY <1>6, <2>2, <2>3
<1>13. ParamArea <= Len(new.stack)
  BY <1>3, <1>4, <1>5, <1>7
<1> QED
  BY <1>3, <1>5, <1>9, <1>10, <1>11, <1>12, <1>13 DEF ImageOK
-----------------------------------------------------------------------------
(* The recursive definitions are what they say. *)
LEMMA BufferSpaceDef ==
  ASSUME arguments \in Seq(ArgSet)
  PROVE  /\ BufferSpace \in [0..NumArgs -> Nat]
         /\ BufferSpace = [n \in 0..NumArgs |->
              IF n = 0 THEN 0 ELSE BufferSpace[n - 1] + SizeOnStack(arguments[n])]
<1> DEFINE step == [p \in Nat \X (1..NumArgs) |-> p[1] + SizeOnStack(arguments[p[2]])]
<1>1. NumArgs \in Nat
  BY LenProperties DEF NumArgs
<1>2. \A i \in 1..NumArgs : SizeOnStack(arguments[i]) \in Nat
  <2> TAKE i \in 1..NumArgs
  <2>1. arguments[i] \in ArgSet
    BY ElementOfSeq DEF NumArgs
  <2> QED
    BY <2>1, SizeFacts
<1>3. step \in [Nat \X (1..NumArgs) -> Nat]
  BY <1>2
<1>4. \A v \in Nat, n \in 1..NumArgs : step[<<v, n>>] = v + SizeOnStack(arguments[n])
  OBVIOUS
<1> HIDE DEF step
<1>5. PICK f \in [0..NumArgs -> Nat] : Recursive(f, NumArgs, 0, step)
  BY <1>1, <1>3, PrimitiveRecursion
<1>6. ASSUME NEW n \in 0..NumArgs
      PROVE  f[n] = IF n = 0 THEN 0 ELSE f[n - 1] + SizeOnStack(arguments[n])
  <2>1. CASE n = 0
    BY <1>5, <2>1 DEF Recursive
  <2>2. CASE n # 0
    <3>1. n \in 1..NumArgs /\ n - 1 \in 0..NumArgs /\ f[n - 1] \in Nat
      BY <1>1, <1>5, <2>2
    <3>2. f[n] = step[<<f[n - 1], n>>]
      BY <1>5, <2>2 DEF Recursive
    <3> QED
      BY <1>4, <2>2, <3>1, <3>2
  <2> QED
    BY <2>1, <2>2
<1>7. f = [n \in 0..NumArgs |-> IF n = 0 THEN 0 ELSE f[n - 1] + SizeOnStack(arguments[n])]
  BY <1>5, <1>6 DEF Recursive
<1>8. BufferSpace = [n \in 0..NumArgs |->
        IF n = 0 THEN 0 ELSE BufferSpace[n - 1] + SizeOnStack(arguments[n])]
  BY <1>7 DEF BufferSpace
<1>9. ASSUME NEW n \in 0..NumArgs PROVE BufferSpace[n] \in Nat
  <2> DEFINE S == {i \in Nat : i <= NumArgs => BufferSpace[i] \in Nat}
  <2>1. 0 \in S
    BY <1>1, <1>8
  <2>2. ASSUME NEW i \in Nat, i \in S PROVE i + 1 \in S
    <3> SUFFICES ASSUME i + 1 <= NumArgs PROVE BufferSpace[i + 1] \in Nat
      OBVIOUS
    <3>1. i + 1 \in 1..NumArgs /\ BufferSpace[i] \in Nat
      BY <1>1, <2>2
    <3>2. BufferSpace[i + 1] = BufferSpace[i] + SizeOnStack(arguments[i + 1])
      BY <1>1, <1>8, <3>1
    <3> QED
      BY <1>2, <3>1, <3>2
  <2>3. Nat \subseteq S
    BY <2>1, <2>2, SetInduction
  <2> QED
    BY <1>1, <2>3
<1> QED
  BY <1>8, <1>9

(* The equation by which getStackImage goes from argument to argument. *)
LEMMA GetStackImageDef ==
  ASSUME arguments \in Seq(ArgSet), Buffers, StackTop \in Int
  PROVE  GetStackImage = [n \in 0..NumArgs |->
           IF n = 0 THEN EmptyImage ELSE SetStackImage(StackTop, GetStackImage[n - 1], n - 1)]
<1> DEFINE V == {img \in ImageType : ParamArea <= Len(img.stack)}
           step == [p \in V \X (1..NumArgs) |-> SetStackImage(StackTop, p[1], p[2] - 1)]
<1>1. NumArgs \in Nat /\ ParamArea \in Nat
  BY LenProperties, SizeAssumption DEF NumArgs, ParamArea
<1>2. EmptyImage \in V
  <2>1. [k \in 1..ParamArea |-> Zero] \in [1..ParamArea -> Byte]
    BY ByteFacts
  <2>2. /\ [k \in 1..ParamArea |-> Zero] \in Seq(Byte)
        /\ Len([k \in 1..ParamArea |-> Zero]) = ParamArea
    BY <1>1, <2>1, FcnIsSeq
  <2> QED
    BY <1>1, <2>2, EmptySeq DEF EmptyImage, ImageType
<1>3. ASSUME NEW img \in V, NEW n \in 1..NumArgs PROVE SetStackImage(StackTop, img, n - 1) \in V
  <2> DEFINE new == SetStackImage(StackTop, img, n - 1)
  <2>1. n - 1 \in 0..(NumArgs - 1) /\ (n - 1) + 1 = n
    BY <1>1
  <2>2. arguments[n] \in ArgSet
    BY ElementOfSeq DEF NumArgs
  <2>3. arguments[(n - 1) + 1].type \in {"value", "stack"}
    BY <2>1, <2>2, ArgFacts
  <2>4. Stepped(StackTop, img, n - 1, new)
    BY <2>1, <2>3, StepValue, StepBuffer
  <2>5. new \in ImageType /\ Len(new.stack) = Len(img.stack) + SizeOnStack(arguments[n])
    BY <2>1, <2>4 DEF Stepped
  <2>6. SizeOnStack(arguments[n]) \in Nat
    BY <2>2, SizeFacts
  <2>7. Len(img.stack) \in Nat
    BY LenProperties DEF ImageType
  <2> HIDE DEF new
  <2>8. new \in V
    BY <1>1, <2>5, <2>6, <2>7
  <2> QED
    BY <2>8 DEF new
<1>4. step \in [V \X (1..NumArgs) -> V]
  BY <1>3
<1>5. \A img \in V, n \in 1..NumArgs : step[<<img, n>>] = SetStackImage(StackTop, img, n - 1)
  OBVIOUS
<1> HIDE DEF V, step
<1>6. PICK f \in [0..NumArgs -> V] : Recursive(f, NumArgs, EmptyImage, step)
  BY <1>1, <1>2, <1>4, PrimitiveRecursion
<1>7. ASSUME NEW n \in 0..NumArgs
      PROVE  f[n] = IF n = 0 THEN EmptyImage ELSE SetStackImage(StackTop, f[n - 1], n - 1)
  <2>1. CASE n = 0
    BY <1>6, <2>1 DEF Recursive
  <2>2. CASE n # 0
    <3>1. n \in 1..NumArgs /\ n - 1 \in 0..NumArgs
      BY <1>1, <2>2
    <3>2. f[n - 1] \in V /\ f[n] = step[<<f[n - 1], n>>]
      BY <1>6, <2>2, <3>1 DEF Recursive
    <3> QED
      BY <1>5, <2>2, <3>1, <3>2
  <2> QED
    BY <2>1, <2>2
<1>8. f = [n \in 0..NumArgs |->
        IF n = 0 THEN EmptyImage ELSE SetStackImage(StackTop, f[n - 1], n - 1)]
  BY <1>6, <1>7 DEF Recursive
<1> QED
  BY <1>8 DEF GetStackImage

(* getStackImage builds an image that fills the space it allocates and     *)
(* holds what the callee and copyout need.                                 *)
LEMMA GetStackImageCorrect ==
  ASSUME arguments \in Seq(ArgSet), Buffers, StackTop \in Int
  PROVE  LET img == GetStackImage[NumArgs]
         IN  ImageOK(StackTop, img, NumArgs) /\ Len(img.stack) = StackSize
<1> DEFINE Good(n) == /\ ImageOK(StackTop, GetStackImage[n], n)
                      /\ Len(GetStackImage[n].stack) = ParamArea + BufferSpace[n]
           S == {n \in Nat : n <= NumArgs => Good(n)}
<1>1. NumArgs \in Nat /\ ParamArea \in Nat
  BY LenProperties, SizeAssumption DEF NumArgs, ParamArea
<1>2. 0 \in S
  <2>1. 0 \in 0..NumArgs
    BY <1>1
  <2>2. GetStackImage[0] = EmptyImage /\ BufferSpace[0] = 0
    BY <2>1, GetStackImageDef, BufferSpaceDef
  <2>3. [k \in 1..ParamArea |-> Zero] \in [1..ParamArea -> Byte]
    BY ByteFacts
  <2>4. /\ [k \in 1..ParamArea |-> Zero] \in Seq(Byte)
        /\ Len([k \in 1..ParamArea |-> Zero]) = ParamArea
    BY <1>1, <2>3, FcnIsSeq
  <2>5. /\ EmptyImage \in ImageType /\ Len(EmptyImage.vemva) = 0
        /\ Len(EmptyImage.stack) = ParamArea /\ EmptyImage.in = FALSE /\ EmptyImage.out = FALSE
    BY <1>1, <2>4, EmptySeq DEF EmptyImage, ImageType
  <2>6. ImageOK(StackTop, EmptyImage, 0)
    BY <1>1, <2>5 DEF ImageOK, Flags, Places, Slots, Contents
  <2> QED
    BY <1>1, <2>2, <2>5, <2>6
<1>3. ASSUME NEW n \in Nat, n \in S PROVE n + 1 \in S
  <2> SUFFICES ASSUME n + 1 <= NumArgs PROVE Good(n + 1)
    OBVIOUS
  <2> DEFINE img == GetStackImage[n]
             new == GetStackImage[n + 1]
  <2>1. n \in 0..(NumArgs - 1) /\ n + 1 \in 1..NumArgs /\ n + 1 \in 0..NumArgs /\ (n + 1) - 1 = n /\ n + 1 # 0
    BY <1>1
  <2>2. ImageOK(StackTop, img, n) /\ Len(img.stack) = ParamArea + BufferSpace[n]
    BY <1>1, <1>3
  <2>3. new = SetStackImage(StackTop, img, n)
    BY <2>1, GetStackImageDef
  <2>4. BufferSpace[n + 1] = BufferSpace[n] + SizeOnStack(arguments[n + 1])
    BY <2>1, BufferSpaceDef
  <2> HIDE DEF img, new
  <2>5. arguments[n + 1] \in ArgSet
    BY <2>1, ElementOfSeq DEF NumArgs
  <2>6. arguments[n + 1].type \in {"value", "stack"} /\ SizeOnStack(arguments[n + 1]) \in Nat
    BY <2>5, ArgFacts, SizeFacts
  <2>7. Stepped(StackTop, img, n, new)
    BY <2>1, <2>2, <2>3, <2>6, StepValue, StepBuffer DEF ImageOK
  <2>8. ImageOK(StackTop, new, n + 1)
    BY <2>1, <2>2, <2>7, ImageStep
  <2>9. Len(new.stack) = Len(img.stack) + SizeOnStack(arguments[n + 1])
    BY <2>7 DEF Stepped
  <2>10. BufferSpace[n] \in Nat
    <3>1. n \in 0..NumArgs
      BY <1>1, <2>1
    <3> QED
      BY <3>1, BufferSpaceDef
  <2>11. Len(new.stack) = ParamArea + BufferSpace[n + 1]
    BY <1>1, <2>2, <2>4, <2>6, <2>9, <2>10
  <2> QED
    BY <2>8, <2>11 DEF new
<1>4. Nat \subseteq S
  BY <1>2, <1>3, SetInduction
<1>5. Good(NumArgs)
  BY <1>1, <1>4
<1> QED
  BY <1>5 DEF StackSize
-----------------------------------------------------------------------------
(* What is said of an image depends on the arguments and their buffers. *)
LEMMA SameImage ==
  ASSUME UNCHANGED <<arguments, buff>>
  PROVE  \A top, img, m : ImageOK(top, img, m)' <=> ImageOK(top, img, m)
  BY DEF ImageOK, Flags, Places, Slots, Contents, ParamArea, ParamValue, ParamWidth, NumArgs,
     CopiedIn

(* Buffers depends on the arguments and their buffers only. *)
LEMMA SameBuffers ==
  ASSUME UNCHANGED <<arguments, buff>>
  PROVE  Buffers' <=> Buffers
  BY DEF Buffers, NumArgs

(* resize keeps what is there. *)
Extended(seq, len, e, new) ==
  /\ Len(new) = IF Len(seq) < len THEN len ELSE Len(seq)
  /\ \A i \in 1..Len(new) : new[i] = IF i <= Len(seq) THEN seq[i] ELSE e

(* What resize returns. *)
LEMMA ExtendFacts ==
  ASSUME NEW S, NEW seq \in Seq(S), NEW len \in Nat, NEW e \in S
  PROVE  Extend(seq, len, e) \in Seq(S) /\ Extended(seq, len, e, Extend(seq, len, e))
<1> USE DEF Extended
<1>1. Len(seq) \in Nat
  BY LenProperties
<1>2. CASE Len(seq) < len
  <2> DEFINE tail == [i \in 1..(len - Len(seq)) |-> e]
  <2>1. tail \in [1..(len - Len(seq)) -> S] /\ len - Len(seq) \in Nat
    BY <1>1, <1>2
  <2>2. tail \in Seq(S) /\ Len(tail) = len - Len(seq)
    BY <2>1, FcnIsSeq
  <2>3. \A i \in 1..(len - Len(seq)) : tail[i] = e
    OBVIOUS
  <2> HIDE DEF tail
  <2>4. /\ seq \o tail \in Seq(S) /\ Len(seq \o tail) = Len(seq) + Len(tail)
        /\ \A i \in 1..(Len(seq) + Len(tail)) :
             (seq \o tail)[i] = IF i <= Len(seq) THEN seq[i] ELSE tail[i - Len(seq)]
    BY <2>2, ConcatProperties
  <2>5. Len(seq) + Len(tail) = len
    BY <1>1, <2>2
  <2>6. \A i \in 1..len : ~(i <= Len(seq)) => tail[i - Len(seq)] = e
    BY <1>1, <2>3
  <2>7. Extend(seq, len, e) = seq \o tail
    BY <1>2 DEF Extend, tail
  <2> HIDE DEF Extend
  <2> QED
    BY <1>2, <2>4, <2>5, <2>6, <2>7
<1>3. CASE ~(Len(seq) < len)
  BY <1>1, <1>3 DEF Extend
<1> QED
  BY <1>2, <1>3

(* The invariant holds of an object before its first use. *)
LEMMA InitInv == Init => Inv /\ Safe
<1> SUFFICES ASSUME Init PROVE Inv /\ Safe
  OBVIOUS
<1>1. arguments \in Seq(ArgSet \cup {Null}) /\ Len(arguments) = 0
  BY EmptySeq DEF Init
<1>2. Buffers
  BY <1>1, EmptySeq DEF Init, Buffers, NumArgs
<1>3. mem \in [Addr -> Byte]
  BY ByteFacts DEF Init
<1>4. TypeInv
  BY <1>1, <1>2, <1>3, SizeAssumption DEF Init, TypeInv
<1>5. FrameInv /\ TransferInv
  BY DEF Init, FrameInv, TransferInv
<1>6. CallerFrameKept
  BY DEF Init, CallerFrameKept
<1>7. OutputInv /\ CalleeSeesArguments /\ OutputDelivered
  BY DEF Init, OutputInv, CalleeSeesArguments, OutputDelivered
<1> QED
  BY <1>4, <1>5, <1>6, <1>7 DEF Inv, Safe

(* The program changes the object between calls. *)
LEMMA SetArgInv ==
  ASSUME Inv, NEW n \in 0..(MaxArgs - 1), NEW arg \in ArgSet, SetArg(n, arg)
  PROVE  Inv'
<1> DEFINE A == ArgSet \cup {Null}
           list == Extend(arguments, n + 1, Null)
           bufs == Extend(buff, n + 1, << >>)
           data == [k \in 1..arg.len |-> <<"in", calls, n, k>>]
<1>1. /\ arguments' = [list EXCEPT ![n + 1] = arg]
      /\ buff' = [bufs EXCEPT ![n + 1] = data]
      /\ pc' = "idle" /\ UNCHANGED <<mem, ve_sp, obj, regs, calls, given, lost>>
  BY DEF SetArg
<1>2. n + 1 \in Nat /\ n + 1 >= 1 /\ n \in Int /\ arg \in A /\ Null \in A
  BY SizeAssumption
<1>3. /\ arguments \in Seq(A) /\ buff \in Seq(Seq(Byte)) /\ Len(buff) = Len(arguments)
      /\ Len(arguments) \in Nat /\ calls \in Nat
      /\ \A i \in 1..Len(arguments) : Len(buff[i]) = arguments[i].len
  BY LenProperties DEF Inv, TypeInv, Buffers, NumArgs
<1>4. arg.len \in Nat
  BY ArgFacts
<1>5. data \in Seq(Byte) /\ Len(data) = arg.len
  <2>1. data \in [1..arg.len -> Byte]
    <3>1. \A k \in 1..arg.len : <<"in", calls, n, k>> \in Byte
      <4> TAKE k \in 1..arg.len
      <4>1. calls \in Int /\ n \in Int /\ k \in Int
        BY <1>2, <1>3
      <4> QED
        BY <4>1, ByteFacts
    <3> QED
      BY <3>1
  <2> QED
    BY <1>4, <2>1, FcnIsSeq
<1>6. << >> \in Seq(Byte) /\ Len(<< >>) = 0
  BY EmptySeq
<1> HIDE DEF A, data
<1>7. /\ list \in Seq(A)
      /\ Len(list) = IF Len(arguments) < n + 1 THEN n + 1 ELSE Len(arguments)
      /\ \A i \in 1..Len(list) : list[i] = IF i <= Len(arguments) THEN arguments[i] ELSE Null
  <2>1. arguments \in Seq(A) /\ n + 1 \in Nat /\ Null \in A
    BY <1>2, <1>3
  <2>2. list \in Seq(A) /\ Extended(arguments, n + 1, Null, list)
    BY <2>1, ExtendFacts
  <2> QED
    BY <2>2 DEF Extended
<1>8. /\ bufs \in Seq(Seq(Byte))
      /\ Len(bufs) = IF Len(buff) < n + 1 THEN n + 1 ELSE Len(buff)
      /\ \A i \in 1..Len(bufs) : bufs[i] = IF i <= Len(buff) THEN buff[i] ELSE << >>
  <2>1. buff \in Seq(Seq(Byte)) /\ n + 1 \in Nat /\ << >> \in Seq(Byte)
    BY <1>2, <1>3, <1>6
  <2>2. bufs \in Seq(Seq(Byte)) /\ Extended(buff, n + 1, << >>, bufs)
    BY <2>1, ExtendFacts
  <2> QED
    BY <2>2 DEF Extended
<1> HIDE DEF list, bufs
<1>9. n + 1 \in 1..Len(list) /\ Len(bufs) = Len(list)
  BY <1>2, <1>3, <1>7, <1>8
<1>10. /\ arguments' \in Seq(A) /\ Len(arguments') = Len(list)
       /\ \A j \in 1..Len(list) : arguments'[j] = IF j = n + 1 THEN arg ELSE list[j]
  BY <1>1, <1>2, <1>7, <1>9, ExceptSeq
<1>11. /\ buff' \in Seq(Seq(Byte)) /\ Len(buff') = Len(bufs)
       /\ \A j \in 1..Len(bufs) : buff'[j] = IF j = n + 1 THEN data ELSE bufs[j]
  BY <1>1, <1>5, <1>8, <1>9, ExceptSeq
<1>12. ASSUME NEW j \in 1..Len(list) PROVE Len(buff'[j]) = arguments'[j].len
  <2>1. CASE j = n + 1
    BY <1>5, <1>9, <1>10, <1>11, <2>1
  <2>2. CASE j # n + 1
    <3>1. arguments'[j] = list[j] /\ buff'[j] = bufs[j]
      BY <1>9, <1>10, <1>11, <2>2
    <3>2. CASE j <= Len(arguments)
      <4>1. list[j] = arguments[j] /\ bufs[j] = buff[j] /\ j \in 1..Len(arguments)
        BY <1>3, <1>7, <1>8, <1>9, <3>2
      <4> QED
        BY <1>3, <3>1, <4>1
    <3>3. CASE ~(j <= Len(arguments))
      <4>1. list[j] = Null /\ bufs[j] = << >>
        BY <1>3, <1>7, <1>8, <1>9, <3>3
      <4> QED
        BY <1>6, <3>1, <4>1 DEF Null
    <3> QED
      BY <3>2, <3>3
  <2> QED
    BY <2>1, <2>2
<1>13. Buffers'
  BY <1>9, <1>10, <1>11, <1>12 DEF Buffers, NumArgs
<1>14. TypeInv'
  BY <1>1, <1>10, <1>13 DEF Inv, TypeInv, A, Addr
<1>15. FrameInv' /\ TransferInv'
  BY <1>1 DEF FrameInv, TransferInv
<1> QED
  BY <1>14, <1>15 DEF Inv

(* clear leaves an empty list. *)
LEMMA ClearInv ==
  ASSUME Inv, Clear
  PROVE  Inv'
<1>1. /\ arguments' = << >> /\ buff' = << >>
      /\ pc' = "idle" /\ UNCHANGED <<mem, ve_sp, obj, regs, calls, given, lost>>
  BY DEF Clear
<1>2. arguments' \in Seq(ArgSet \cup {Null}) /\ Len(arguments') = 0 /\ buff' \in Seq(Seq(Byte)) /\ Len(buff') = 0
  BY <1>1, EmptySeq
<1>3. Buffers'
  BY <1>2 DEF Buffers, NumArgs
<1>4. TypeInv'
  BY <1>1, <1>2, <1>3 DEF Inv, TypeInv, Addr
<1>5. FrameInv' /\ TransferInv'
  BY <1>1 DEF FrameInv, TransferInv
<1> QED
  BY <1>4, <1>5 DEF Inv

(* setup builds an image that is as it should be, in a frame of its size. *)
LEMMA SetUpInv ==
  ASSUME Inv, SetUp
  PROVE  Inv'
<1> DEFINE img == GetStackImage[NumArgs]
<1>1. /\ arguments \in CallLists /\ StackSize <= ve_sp /\ ve_sp' = StackTop
      /\ obj' = [stack_top |-> StackTop, stack_size |-> StackSize, stack_buf |-> img.stack,
                 copied_in |-> img.in, copied_out |-> img.out, vemva |-> img.vemva]
      /\ regs' = GetRegVal(img.vemva)
      /\ given' = [buff |-> buff, sp |-> ve_sp, mem |-> mem]
      /\ lost' = {} /\ calls' = calls + 1 /\ pc' = "copyin"
      /\ UNCHANGED <<arguments, buff, mem>>
  BY DEF SetUp
<1>2. arguments \in Seq(ArgSet)
  BY <1>1, CallAssumption
<1>3. NumArgs \in Nat /\ ParamArea \in Nat /\ NumArgs' = NumArgs
  BY <1>1, <1>2, LenProperties, SizeAssumption DEF NumArgs, ParamArea
<1>4. StackSize \in Nat
  <2>1. NumArgs \in 0..NumArgs
    BY <1>3
  <2> QED
    BY <1>2, <1>3, <2>1, BufferSpaceDef DEF StackSize
<1>5. ve_sp \in 0..MemSize /\ MemSize \in Int
  BY SizeAssumption DEF Inv, TypeInv
<1>6. StackTop \in Nat /\ StackTop + StackSize = ve_sp /\ StackTop <= ve_sp
  BY <1>1, <1>4, <1>5 DEF StackTop
<1>7. Buffers
  BY DEF Inv, TypeInv
<1>8. ImageOK(StackTop, img, NumArgs) /\ Len(img.stack) = StackSize
  BY <1>2, <1>6, <1>7, GetStackImageCorrect
<1>9. img \in ImageType
  BY <1>8 DEF ImageOK
<1> HIDE DEF img
<1>10. Sent' = img
  BY <1>1, <1>9 DEF Sent, ImageType
<1>11. ImageOK(obj.stack_top, Sent, NumArgs)'
  BY <1>1, <1>3, <1>8, <1>10, SameImage
<1>12. regs' = GetRegVal(obj.vemva)'
  BY <1>1 DEF GetRegVal, NumArgs
<1>13. FrameInv'
  BY <1>1, <1>4, <1>5, <1>6, <1>8, <1>11, <1>12 DEF FrameInv
<1>14. Buffers'
  BY <1>1, <1>7, SameBuffers
<1>15. TypeInv'
  BY <1>1, <1>5, <1>6, <1>14 DEF Inv, TypeInv, Addr
<1>16. TransferInv'
  BY <1>1 DEF TransferInv
<1> QED
  BY <1>13, <1>15, <1>16 DEF Inv

(* What FrameInv says while a call is at work, in one place. *)
LEMMA FrameFacts ==
  ASSUME Inv, pc \in {"copyin", "ve", "copyout"}
  PROVE  /\ arguments \in Seq(ArgSet) /\ NumArgs \in Nat
         /\ \A i \in 1..NumArgs : arguments[i] \in ArgSet
         /\ obj.stack_top \in Nat /\ obj.stack_size \in Nat /\ given.sp \in Nat
         /\ given.sp <= MemSize /\ MemSize \in Nat
         /\ obj.stack_top + obj.stack_size = given.sp
         /\ obj.stack_buf \in Seq(Byte) /\ Len(obj.stack_buf) = obj.stack_size
         /\ ParamArea <= obj.stack_size
         /\ obj.vemva \in Seq(Int) /\ Len(obj.vemva) = NumArgs
         /\ lost \subseteq {"in"} /\ buff = given.buff
<1>1. arguments \in Seq(ArgSet)
  BY CallAssumption DEF Inv, FrameInv
<1>2. NumArgs \in Nat /\ \A i \in 1..NumArgs : arguments[i] \in ArgSet
  BY <1>1, LenProperties, ElementOfSeq DEF NumArgs
<1>3. ImageOK(obj.stack_top, Sent, NumArgs)
  BY DEF Inv, FrameInv
<1>4. /\ obj.stack_buf \in Seq(Byte) /\ obj.vemva \in Seq(Int) /\ Len(obj.vemva) = NumArgs
      /\ ParamArea <= Len(obj.stack_buf)
  BY <1>3 DEF ImageOK, ImageType, Sent
<1> QED
  BY <1>1, <1>2, <1>4, SizeAssumption DEF Inv, FrameInv

(* Where the buffers are. *)
LEMMA PlaceFacts ==
  ASSUME Inv, pc \in {"copyin", "ve", "copyout"},
         NEW i \in 1..NumArgs, arguments[i].type = "stack"
  PROVE  /\ arguments[i].len \in Nat /\ obj.vemva[i] \in Nat
         /\ obj.stack_top <= obj.vemva[i]
         /\ obj.vemva[i] + arguments[i].len <= given.sp
<1>1. arguments[i] \in ArgSet /\ obj.vemva[i] \in Int
  BY FrameFacts, ElementOfSeq
<1>2. arguments[i].len \in Nat
  BY <1>1, ArgFacts
<1>3. /\ obj.stack_top + ParamArea <= obj.vemva[i]
      /\ obj.vemva[i] + arguments[i].len <= obj.stack_top + Len(obj.stack_buf)
  BY DEF Inv, FrameInv, ImageOK, Places, Sent
<1>4. ParamArea \in Nat
  <2>1. WordSize * NumArgs \in Nat
    BY FrameFacts, SizeAssumption
  <2> QED
    BY <2>1, SizeAssumption DEF ParamArea
<1>5. /\ obj.stack_top \in Nat /\ obj.stack_size \in Nat
      /\ obj.stack_top + obj.stack_size = given.sp /\ Len(obj.stack_buf) = obj.stack_size
  BY FrameFacts
<1> DEFINE v == obj.vemva[i]
           len == arguments[i].len
           top == obj.stack_top
<1>6. /\ v \in Int /\ len \in Nat /\ top \in Nat /\ top + ParamArea <= v
      /\ v + len <= given.sp
  BY <1>1, <1>2, <1>3, <1>5
<1> HIDE DEF v, len, top
<1>7. v \in Nat /\ top <= v
  BY <1>4, <1>6
<1> QED
  BY <1>6, <1>7 DEF v, len, top

(* copyin puts the image in the frame, or loses it. *)
LEMMA CopyInInv ==
  ASSUME Inv, CopyIn
  PROVE  Inv'
<1> DEFINE top == obj.stack_top
           size == obj.stack_size
<1>1. /\ pc = "copyin" /\ pc' = "ve"
      /\ UNCHANGED <<arguments, buff, ve_sp, obj, regs, calls, given>>
  BY DEF CopyIn
<1>2. /\ top \in Nat /\ size \in Nat /\ top + size <= MemSize /\ MemSize \in Nat
      /\ obj.stack_buf \in Seq(Byte) /\ Len(obj.stack_buf) = size
  BY <1>1, FrameFacts
<1>3. lost' \subseteq {"in"}
  BY <1>1 DEF CopyIn, Transfer, Inv, FrameInv
<1>4. mem' \in [Addr -> Byte]
  <2>1. ASSUME NEW a \in Addr, a - top \in 0..(size - 1) PROVE obj.stack_buf[a - top + 1] \in Byte
    <3>1. a - top + 1 \in 1..Len(obj.stack_buf)
      BY <1>2, <2>1 DEF Addr
    <3> QED
      BY <1>2, <3>1, ElementOfSeq
  <2>2. mem \in [Addr -> Byte]
    BY DEF Inv, TypeInv
  <2> QED
    BY <2>1, <2>2 DEF CopyIn
<1>5. Buffers'
  BY <1>1, SameBuffers DEF Inv, TypeInv
<1>6. TypeInv'
  BY <1>1, <1>4, <1>5 DEF Inv, TypeInv, Addr
<1>7. NumArgs' = NumArgs /\ Sent' = Sent /\ GetRegVal(obj.vemva)' = GetRegVal(obj.vemva)
  BY <1>1 DEF NumArgs, Sent, GetRegVal
<1>8. ImageOK(obj.stack_top, Sent, NumArgs)'
  BY <1>1, <1>7, SameImage DEF Inv, FrameInv
<1>9. FrameInv'
  BY <1>1, <1>3, <1>7, <1>8 DEF Inv, FrameInv
<1>10. ASSUME obj'.copied_in, lost' = {}, NEW i \in 1..obj'.stack_size
       PROVE  mem'[obj'.stack_top + i - 1] = obj'.stack_buf[i]
  <2> DEFINE a == top + i - 1
  <2>1. i \in 1..size
    BY <1>1
  <2>2. a \in Addr /\ a - top \in 0..(size - 1) /\ a - top + 1 = i
    BY <1>2, <2>1 DEF Addr
  <2>3. mem' = [b \in Addr |-> IF b - obj.stack_top \in 0..(obj.stack_size - 1)
                               THEN obj.stack_buf[b - obj.stack_top + 1] ELSE mem[b]]
    BY <1>1, <1>10 DEF CopyIn
  <2>4. mem'[a] = obj.stack_buf[i]
    BY <2>2, <2>3
  <2> QED
    BY <1>1, <2>4
<1>11. TransferInv'
  BY <1>1, <1>10 DEF TransferInv
<1> QED
  BY <1>6, <1>9, <1>11 DEF Inv

(* The parameters are numbers, whatever the VE function finds. *)
LEMMA ParamInt ==
  ASSUME Inv, pc = "ve", NEW n \in 0..(NumArgs - 1)
  PROVE  Param(n) \in Int
<1>1. NumArgs \in Nat /\ n + 1 \in 1..NumArgs /\ arguments[n + 1] \in ArgSet /\ obj.vemva[n + 1] \in Int
  <2>1. n + 1 \in 1..NumArgs /\ NumArgs \in Nat
    BY FrameFacts
  <2> QED
    BY <2>1, FrameFacts, ElementOfSeq
<1>2. CASE n < NumRegs
  <2>1. n + 1 \in 1..(IF NumArgs < NumRegs THEN NumArgs ELSE NumRegs)
    BY <1>1, <1>2, SizeAssumption
  <2>2. regs[n + 1] = IF arguments[n + 1].type = "value" THEN arguments[n + 1].v ELSE obj.vemva[n + 1]
    BY <2>1 DEF Inv, FrameInv, GetRegVal
  <2>3. arguments[n + 1].type = "value" => arguments[n + 1].v \in Int
    BY <1>1, ArgFacts
  <2> QED
    BY <1>1, <1>2, <2>2, <2>3 DEF Param
<1>3. CASE ~(n < NumRegs)
  <2> DEFINE a == ve_sp + ParamOffset + WordSize * n
             width == IF Arg(n).type = "value" THEN Arg(n).width ELSE WordSize
  <2>1. /\ ParamPos(n) \in Nat /\ ParamPos(n) + WordSize <= ParamArea /\ ParamArea \in Nat
    BY <1>1, SlotInArea
  <2>2. /\ ve_sp = obj.stack_top /\ obj.stack_top \in Nat /\ obj.stack_size \in Nat
        /\ obj.stack_top + obj.stack_size <= MemSize /\ MemSize \in Nat
        /\ ParamArea <= obj.stack_size
    BY FrameFacts DEF Inv, FrameInv
  <2>3. WordSize * n \in Nat /\ WordSize \in Nat /\ WordSize >= 1 /\ ParamOffset \in Nat
    BY SizeAssumption
  <2>4. a = obj.stack_top + ParamPos(n)
    BY <2>2, <2>3 DEF ParamPos
  <2>5. a \in Addr
    BY <2>1, <2>2, <2>3, <2>4 DEF Addr
  <2>6. mem[a] \in Byte
    BY <2>5 DEF Inv, TypeInv
  <2>7. mem[a][3] \in Int
    BY <2>6 DEF Byte
  <2>8. Param(n) = Slot(n, width)
    BY <1>3 DEF Param
  <2>9. Slot(n, width) = mem[a][3] \/ Slot(n, width) = Undefined
    BY DEF Slot
  <2> QED
    BY <2>7, <2>8, <2>9 DEF Undefined
<1> QED
  BY <1>2, <1>3

(* The VE function finds its parameters: in a register, or in a slot of    *)
(* the frame when copyin has taken place.                                  *)
LEMMA ParamCorrect ==
  ASSUME AllTransferred, Inv, pc = "ve", NEW n \in 0..(NumArgs - 1),
         "in" \notin lost \/ n < NumRegs
  PROVE  Param(n) = ParamValue(obj.vemva, n + 1)
<1>1. NumArgs \in Nat /\ n + 1 \in 1..NumArgs
  BY FrameFacts
<1>2. arguments[n + 1] \in ArgSet
  BY <1>1, FrameFacts
<1>3. CASE n < NumRegs
  <2>1. n + 1 \in 1..(IF NumArgs < NumRegs THEN NumArgs ELSE NumRegs)
    BY <1>1, <1>3, SizeAssumption
  <2>2. regs[n + 1] = IF arguments[n + 1].type = "value" THEN arguments[n + 1].v ELSE obj.vemva[n + 1]
    BY <2>1 DEF Inv, FrameInv, GetRegVal
  <2> QED
    BY <1>3, <2>2 DEF Param, ParamValue
<1>4. CASE ~(n < NumRegs)
  <2> DEFINE a == ve_sp + ParamOffset + WordSize * n
             top == obj.stack_top
             v == ParamValue(obj.vemva, n + 1)
             width == ParamWidth(n + 1)
  <2>1. lost = {}
    BY <1>4, FrameFacts
  <2>2. n + 1 > NumRegs
    BY <1>4, SizeAssumption
  <2>3. \E i \in 1..NumArgs : CopiedIn(arguments, i)
    <3>1. CASE arguments[n + 1].type = "value"
      BY <1>1, <2>2, <3>1 DEF CopiedIn
    <3>2. CASE arguments[n + 1].type = "stack"
      <4>1. Transferred(arguments)
        BY DEF AllTransferred, Inv, FrameInv
      <4> QED
        BY <1>1, <2>2, <3>2, <4>1 DEF Transferred, NumArgs
    <3> QED
      BY <1>2, <3>1, <3>2, ArgFacts
  <2>4. obj.copied_in
    BY <2>3 DEF Inv, FrameInv, ImageOK, Flags, Sent
  <2>5. \A i \in 1..obj.stack_size : mem[top + i - 1] = obj.stack_buf[i]
    BY <2>1, <2>4 DEF Inv, TransferInv
  <2>6. /\ ParamPos(n) \in Nat /\ ParamPos(n) + WordSize <= ParamArea /\ ParamArea \in Nat
    BY <1>1, SlotInArea
  <2>7. /\ ve_sp = top /\ top \in Nat /\ obj.stack_size \in Nat /\ ParamArea <= obj.stack_size
    BY FrameFacts DEF Inv, FrameInv
  <2>8. WordSize * n \in Nat /\ WordSize \in Nat /\ WordSize >= 1 /\ ParamOffset \in Nat
    BY SizeAssumption
  <2>9. a = top + ParamPos(n)
    BY <2>7, <2>8 DEF ParamPos
  <2>10. width \in 1..WordSize
    BY <1>2, <2>8, ArgFacts DEF ParamWidth
  <2>11. \A k \in 0..(width - 1) : obj.stack_buf[ParamPos(n) + k + 1] = <<"word", 0, v, k>>
    <3>1. (n + 1) - 1 = n
      OBVIOUS
    <3>2. \A k \in 0..(width - 1) : obj.stack_buf[ParamPos((n + 1) - 1) + k + 1] = <<"word", 0, v, k>>
      BY <1>1, <2>2 DEF Inv, FrameInv, ImageOK, Slots, Sent
    <3> QED
      BY <3>1, <3>2
  <2>12. ASSUME NEW k \in 0..(width - 1) PROVE mem[a + k] = <<"word", 0, v, k>>
    <3> DEFINE i == ParamPos(n) + k + 1
    <3>1. i \in 1..obj.stack_size /\ a + k = top + i - 1
      BY <2>6, <2>7, <2>8, <2>9, <2>10
    <3> QED
      BY <2>5, <2>11, <3>1
  <2>13. mem[a] = <<"word", 0, v, 0>>
    <3>1. 0 \in 0..(width - 1) /\ a + 0 = a
      BY <2>7, <2>8, <2>10
    <3> QED
      BY <2>12, <3>1
  <2>14. mem[a][3] = v
    BY <2>13
  <2>15. Slot(n, width) = v
    BY <2>12, <2>14 DEF Slot
  <2> QED
    BY <1>4, <2>15 DEF Param, ParamWidth, Arg
<1> QED
  BY <1>3, <1>4

(* The VE function leaves the call as it is, but for memory. *)
LEMMA ExecuteInv ==
  ASSUME Inv, Execute
  PROVE  Inv'
<1> DEFINE written(a) == {n \in 0..(NumArgs - 1) : Arg(n).out /\ InBuffer(a, n)}
<1>1. /\ pc = "ve" /\ pc' = "copyout" /\ ve_sp' \in {ve_sp, ve_sp + obj.stack_size}
      /\ UNCHANGED <<arguments, buff, obj, regs, calls, given, lost>>
      /\ mem' = [a \in Addr |-> IF written(a) = {} THEN mem[a]
                   ELSE LET n == CHOOSE n \in written(a) : TRUE
                        IN  <<"out", calls, n, a - Param(n) + 1>>]
  BY DEF Execute
<1>2. ve_sp = obj.stack_top /\ obj.stack_top \in Nat /\ obj.stack_size \in Nat /\ given.sp \in Nat
      /\ obj.stack_top + obj.stack_size = given.sp /\ given.sp <= MemSize /\ MemSize \in Nat
  BY <1>1, FrameFacts DEF Inv, FrameInv
<1>3. NumArgs \in Nat /\ calls \in Nat /\ mem \in [Addr -> Byte]
  BY <1>1, FrameFacts DEF Inv, TypeInv
<1>4. ASSUME NEW a \in Addr, written(a) # {}
      PROVE  LET n == CHOOSE n \in written(a) : TRUE
             IN  <<"out", calls, n, a - Param(n) + 1>> \in Byte
  <2> DEFINE n == CHOOSE n \in written(a) : TRUE
  <2>1. n \in written(a)
    BY <1>4
  <2>2. n \in 0..(NumArgs - 1)
    BY <2>1
  <2> HIDE DEF n
  <2>3. Param(n) \in Int /\ n \in Int /\ calls \in Int /\ a \in Int
    BY <1>1, <1>3, <2>2, ParamInt DEF Addr
  <2>4. a - Param(n) + 1 \in Int
    BY <2>3
  <2>5. <<"out", calls, n, a - Param(n) + 1>> \in Byte
    BY <2>3, <2>4, ByteFacts
  <2> QED
    BY <2>5 DEF n
<1>5. mem' \in [Addr -> Byte]
  <2> HIDE DEF written
  <2> QED
    BY <1>1, <1>3, <1>4
<1>6. Buffers'
  BY <1>1, SameBuffers DEF Inv, TypeInv
<1>7. TypeInv'
  BY <1>1, <1>2, <1>5, <1>6 DEF Inv, TypeInv, Addr
<1>8. NumArgs' = NumArgs /\ Sent' = Sent /\ GetRegVal(obj.vemva)' = GetRegVal(obj.vemva)
  BY <1>1 DEF NumArgs, Sent, GetRegVal
<1>9. ImageOK(obj.stack_top, Sent, NumArgs)'
  BY <1>1, <1>8, SameImage DEF Inv, FrameInv
<1>10. FrameInv'
  BY <1>1, <1>2, <1>8, <1>9 DEF Inv, FrameInv
<1>11. TransferInv'
  BY <1>1 DEF TransferInv
<1> QED
  BY <1>7, <1>10, <1>11 DEF Inv

(* A buffer for output is where copyout looks for it, and no other one     *)
(* overlaps it.                                                            *)
LEMMA BufferCorrect ==
  ASSUME AllTransferred, Inv, pc = "ve", NEW n \in 0..(NumArgs - 1),
         arguments[n + 1].type = "stack", "in" \notin lost \/ n < NumRegs, NEW a \in Int
  PROVE  /\ n + 1 \in 1..NumArgs
         /\ Param(n) = obj.vemva[n + 1]
         /\ InBuffer(a, n) <=> a \in obj.vemva[n + 1]..(obj.vemva[n + 1] + arguments[n + 1].len - 1)
<1>1. n + 1 \in 1..NumArgs
  BY FrameFacts
<1>2. Param(n) = obj.vemva[n + 1]
  BY ParamCorrect DEF ParamValue
<1>3. arguments[n + 1].len \in Nat /\ obj.vemva[n + 1] \in Nat
  BY <1>1, PlaceFacts
<1> DEFINE v == obj.vemva[n + 1]
           len == arguments[n + 1].len
<1>4. InBuffer(a, n) <=> v # Undefined /\ a - v \in 0..(len - 1)
  BY <1>2 DEF InBuffer, Arg
<1>5. v \in Nat /\ len \in Nat
  BY <1>3
<1> HIDE DEF v, len
<1>6. InBuffer(a, n) <=> a \in v..(v + len - 1)
  BY <1>4, <1>5 DEF Undefined
<1> QED
  BY <1>1, <1>2, <1>6 DEF v, len

(* Two buffers do not overlap. *)
LEMMA Disjoint ==
  ASSUME Inv, pc = "ve", NEW i \in 1..NumArgs, NEW j \in 1..NumArgs, i # j,
         arguments[i].type = "stack", arguments[j].type = "stack", NEW a \in Int,
         a \in obj.vemva[i]..(obj.vemva[i] + arguments[i].len - 1),
         a \in obj.vemva[j]..(obj.vemva[j] + arguments[j].len - 1)
  PROVE  FALSE
<1>1. NumArgs \in Nat
  BY FrameFacts
<1>2. /\ i < j => obj.vemva[i] + arguments[i].len <= obj.vemva[j]
      /\ j < i => obj.vemva[j] + arguments[j].len <= obj.vemva[i]
  BY DEF Inv, FrameInv, ImageOK, Places, Sent
<1>3. /\ arguments[i].len \in Nat /\ obj.vemva[i] \in Nat
      /\ arguments[j].len \in Nat /\ obj.vemva[j] \in Nat
  BY PlaceFacts
<1> DEFINE vi == obj.vemva[i]
           vj == obj.vemva[j]
           li == arguments[i].len
           lj == arguments[j].len
<1>4. /\ vi \in Nat /\ vj \in Nat /\ li \in Nat /\ lj \in Nat
      /\ a \in vi..(vi + li - 1) /\ a \in vj..(vj + lj - 1)
      /\ i < j => vi + li <= vj
      /\ j < i => vj + lj <= vi
  BY <1>2, <1>3
<1> HIDE DEF vi, vj, li, lj
<1> QED
  BY <1>1, <1>4

(* What the VE function writes: its output buffers, nothing else. *)
LEMMA ExecuteWrites ==
  ASSUME AllTransferred, Inv, Execute, "in" \notin lost
  PROVE  /\ \A a \in given.sp..(MemSize - 1) : mem'[a] = mem[a]
         /\ \A i \in 1..NumArgs : arguments[i].out =>
              \A k \in 1..arguments[i].len :
                mem'[obj.vemva[i] + k - 1] = <<"out", calls, i - 1, k>>
<1> DEFINE written(a) == {n \in 0..(NumArgs - 1) : Arg(n).out /\ InBuffer(a, n)}
<1>1. /\ pc = "ve"
      /\ mem' = [a \in Addr |-> IF written(a) = {} THEN mem[a]
                   ELSE LET n == CHOOSE n \in written(a) : TRUE
                        IN  <<"out", calls, n, a - Param(n) + 1>>]
  BY DEF Execute
<1>2. /\ NumArgs \in Nat /\ obj.stack_top \in Nat /\ given.sp \in Nat
      /\ given.sp <= MemSize /\ MemSize \in Nat
  BY <1>1, FrameFacts
<1>3. ASSUME NEW n \in 0..(NumArgs - 1), Arg(n).out
      PROVE  arguments[n + 1].type = "stack" /\ n + 1 \in 1..NumArgs
  <2>1. n + 1 \in 1..NumArgs
    BY <1>2
  <2>2. arguments[n + 1] \in ArgSet
    BY <1>1, <2>1, FrameFacts
  <2> QED
    BY <1>3, <2>1, <2>2, ArgFacts DEF Arg
<1>4. ASSUME NEW a \in given.sp..(MemSize - 1) PROVE mem'[a] = mem[a]
  <2>1. a \in Addr /\ a \in Int
    BY <1>2 DEF Addr
  <2>2. ASSUME NEW n \in written(a) PROVE FALSE
    <3>1. n \in 0..(NumArgs - 1) /\ Arg(n).out /\ InBuffer(a, n)
      BY <2>2
    <3>2. arguments[n + 1].type = "stack" /\ n + 1 \in 1..NumArgs
      BY <1>3, <3>1
    <3>3. a \in obj.vemva[n + 1]..(obj.vemva[n + 1] + arguments[n + 1].len - 1)
      BY <1>1, <2>1, <3>1, <3>2, BufferCorrect
    <3>4. /\ obj.vemva[n + 1] + arguments[n + 1].len <= given.sp
          /\ obj.vemva[n + 1] \in Nat /\ arguments[n + 1].len \in Nat
      BY <1>1, <3>2, PlaceFacts
    <3> QED
      BY <1>2, <3>3, <3>4
  <2>3. written(a) = {}
    BY <2>2
  <2> HIDE DEF written
  <2> QED
    BY <1>1, <2>1, <2>3
<1>5. ASSUME NEW i \in 1..NumArgs, arguments[i].out, NEW k \in 1..arguments[i].len
      PROVE  mem'[obj.vemva[i] + k - 1] = <<"out", calls, i - 1, k>>
  <2> DEFINE a == obj.vemva[i] + k - 1
  <2>1. i - 1 \in 0..(NumArgs - 1) /\ (i - 1) + 1 = i
    BY <1>2
  <2>2. arguments[i].type = "stack"
    BY <1>3, <1>5, <2>1 DEF Arg
  <2>3. /\ arguments[i].len \in Nat /\ obj.vemva[i] \in Nat
        /\ obj.vemva[i] + arguments[i].len <= given.sp
    BY <1>1, <2>2, PlaceFacts
  <2>4. /\ a \in Addr /\ a \in Int
        /\ a \in obj.vemva[i]..(obj.vemva[i] + arguments[i].len - 1)
    BY <1>2, <2>3 DEF Addr
  <2>5. Param(i - 1) = obj.vemva[i] /\ InBuffer(a, i - 1)
    BY <1>1, <2>1, <2>2, <2>4, BufferCorrect
  <2>6. i - 1 \in written(a)
    BY <1>5, <2>1, <2>5 DEF Arg
  <2>7. ASSUME NEW n \in written(a) PROVE n = i - 1
    <3>1. n \in 0..(NumArgs - 1) /\ Arg(n).out /\ InBuffer(a, n)
      BY <2>7
    <3>2. arguments[n + 1].type = "stack" /\ n + 1 \in 1..NumArgs
      BY <1>3, <3>1
    <3>3. a \in obj.vemva[n + 1]..(obj.vemva[n + 1] + arguments[n + 1].len - 1)
      BY <1>1, <2>4, <3>1, <3>2, BufferCorrect
    <3>4. n + 1 = i
      BY <1>1, <2>2, <2>4, <3>2, <3>3, Disjoint
    <3> QED
      BY <1>2, <3>1, <3>4
  <2>8. written(a) # {} /\ (CHOOSE n \in written(a) : TRUE) = i - 1
    BY <2>6, <2>7
  <2>9. a - obj.vemva[i] + 1 = k
    BY <2>3
  <2> HIDE DEF written, a
  <2>10. mem'[a] = <<"out", calls, i - 1, a - Param(i - 1) + 1>>
    BY <1>1, <2>4, <2>8
  <2> QED
    BY <2>5, <2>9, <2>10 DEF a
<1> QED
  BY <1>4, <1>5

(* The callee sees what the program passed. *)
LEMMA ExecuteSees ==
  ASSUME AllTransferred, Inv, Execute
  PROVE  CalleeSeesArguments'
<1>1. /\ pc = "ve" /\ UNCHANGED <<arguments, buff, obj, given, lost>>
      /\ seen' = [i \in 1..NumArgs |->
           [param |-> Param(i - 1),
            data |-> [k \in 1..Arg(i - 1).len |->
                        LET a == Param(i - 1) + k - 1
                        IN  IF a \in Addr /\ InBuffer(a, i - 1) THEN mem[a] ELSE Junk]]]
  BY DEF Execute
<1>2. NumArgs \in Nat /\ NumArgs' = NumArgs
  BY <1>1, FrameFacts DEF NumArgs
<1> DEFINE Sees(n) ==
             /\ arguments[n + 1].type = "value" => seen'[n + 1].param = arguments[n + 1].v
             /\ arguments[n + 1].type = "stack" => seen'[n + 1].param = obj.vemva[n + 1]
             /\ arguments[n + 1].in /\ lost = {} => seen'[n + 1].data = given.buff[n + 1]
<1>a. ASSUME \A n \in 0..(NumArgs - 1) : "in" \notin lost \/ n < NumRegs => Sees(n)
      PROVE  CalleeSeesArguments'
  <2>1. \A n : Arg(n)' = arguments[n + 1]
    BY <1>1 DEF Arg
  <2>2. UNCHANGED <<obj, given, lost, NumArgs>>
    BY <1>1, <1>2
  <2> SUFFICES ASSUME NEW n \in 0..(NumArgs - 1), "in" \notin lost \/ n < NumRegs
               PROVE  /\ Arg(n)'.type = "value" => seen'[n + 1].param = Arg(n)'.v
                      /\ Arg(n)'.type = "stack" => seen'[n + 1].param = obj.vemva[n + 1]
                      /\ Arg(n)'.in /\ lost = {} => seen'[n + 1].data = given.buff[n + 1]
    BY <2>2 DEF CalleeSeesArguments
  <2>3. Sees(n)
    BY <1>a
  <2> QED
    BY <2>1, <2>3
<1> SUFFICES ASSUME NEW n \in 0..(NumArgs - 1), "in" \notin lost \/ n < NumRegs
             PROVE  Sees(n)
  BY <1>a
<1>3. n + 1 \in 1..NumArgs /\ (n + 1) - 1 = n
  BY <1>2
<1>4. /\ seen'[n + 1].param = Param(n)
      /\ seen'[n + 1].data = [k \in 1..Arg(n).len |->
           IF Param(n) + k - 1 \in Addr /\ InBuffer(Param(n) + k - 1, n)
           THEN mem[Param(n) + k - 1] ELSE Junk]
  BY <1>1, <1>3
<1>5. Param(n) = ParamValue(obj.vemva, n + 1)
  BY <1>1, ParamCorrect
<1>6. ASSUME Arg(n).in, lost = {} PROVE seen'[n + 1].data = given.buff[n + 1]
  <2> DEFINE v == obj.vemva[n + 1]
             len == arguments[n + 1].len
             top == obj.stack_top
  <2>1. arguments[n + 1] \in ArgSet
    BY <1>1, <1>3, FrameFacts
  <2>2. arguments[n + 1].type = "stack" /\ Arg(n) = arguments[n + 1]
    BY <1>6, <2>1, ArgFacts DEF Arg
  <2>3. len \in Nat /\ v \in Nat /\ top <= v /\ v + len <= given.sp
    BY <1>1, <1>3, <2>2, PlaceFacts
  <2>4. /\ top \in Nat /\ obj.stack_size \in Nat /\ top + obj.stack_size = given.sp
        /\ given.sp <= MemSize /\ MemSize \in Nat /\ buff = given.buff
    BY <1>1, FrameFacts
  <2>5. obj.copied_in
    <3>1. CopiedIn(arguments, n + 1)
      BY <1>6, <2>2 DEF CopiedIn
    <3> QED
      BY <1>1, <1>3, <3>1 DEF Inv, FrameInv, ImageOK, Flags, Sent
  <2>6. \A i \in 1..obj.stack_size : mem[top + i - 1] = obj.stack_buf[i]
    BY <1>1, <1>6, <2>5 DEF Inv, TransferInv
  <2>7. Param(n) = v
    BY <1>5, <2>2 DEF ParamValue
  <2>8. ASSUME NEW k \in 1..len
        PROVE  /\ v + k - 1 \in Addr /\ InBuffer(v + k - 1, n)
               /\ mem[v + k - 1] = buff[n + 1][k]
    <3> DEFINE a == v + k - 1
               i == v - top + k
    <3>1. /\ a \in Addr /\ a \in Int /\ a \in v..(v + len - 1)
          /\ i \in 1..obj.stack_size /\ top + i - 1 = a
      <4> HIDE DEF v, len, top
      <4> QED
        BY <2>3, <2>4 DEF Addr
    <3>2. InBuffer(a, n)
      BY <1>1, <1>6, <2>2, <3>1, BufferCorrect
    <3>3. obj.stack_buf[i] = buff[n + 1][k]
      BY <1>1, <1>3, <1>6, <2>2 DEF Inv, FrameInv, ImageOK, Contents, Sent
    <3>4. mem[a] = obj.stack_buf[i]
      BY <2>6, <3>1
    <3> QED
      BY <3>1, <3>2, <3>3, <3>4
  <2>9. seen'[n + 1].data = [k \in 1..len |-> buff[n + 1][k]]
    BY <1>4, <2>2, <2>7, <2>8
  <2>10. buff[n + 1] \in Seq(Byte) /\ Len(buff[n + 1]) = len
    BY <1>3, ElementOfSeq DEF Inv, TypeInv, Buffers
  <2>11. buff[n + 1] = [k \in 1..len |-> buff[n + 1][k]]
    BY <2>10, LenProperties
  <2> QED
    BY <2>4, <2>9, <2>11
<1>7. Arg(n) = arguments[n + 1]
  BY DEF Arg
<1> QED
  BY <1>4, <1>5, <1>6, <1>7 DEF ParamValue

(* The image that copyout takes the buffers from, and what it takes. *)
LEMMA CopyoutFacts ==
  ASSUME Inv, pc = "copyout", NEW image \in Seq(Byte), Len(image) = obj.stack_size,
         NEW i \in 1..NumArgs, arguments[i].type = "stack"
  PROVE  /\ CopyoutFromStackImage(image, i) \in Seq(Byte)
         /\ Len(CopyoutFromStackImage(image, i)) = arguments[i].len
         /\ \A k \in 1..arguments[i].len :
              /\ CopyoutFromStackImage(image, i)[k] = image[obj.vemva[i] - obj.stack_top + k]
              /\ obj.vemva[i] - obj.stack_top + k \in 1..obj.stack_size
<1> DEFINE v == obj.vemva[i]
           len == arguments[i].len
           top == obj.stack_top
           from == v - top + 1
           to == v - top + len
           part == CopyoutFromStackImage(image, i)
<1>1. /\ len \in Nat /\ v \in Nat /\ top <= v /\ v + len <= given.sp
      /\ top \in Nat /\ obj.stack_size \in Nat /\ top + obj.stack_size = given.sp
  BY PlaceFacts, FrameFacts
<1>2. part = SubSeq(image, from, to)
  BY DEF CopyoutFromStackImage
<1> HIDE DEF v, len, top, part
<1>3. from \in Int /\ to \in Int /\ to - from + 1 = len /\ from >= 1 /\ to <= obj.stack_size
  BY <1>1
<1>4. \A j \in from..to : image[j] \in Byte
  <2> TAKE j \in from..to
  <2>1. j \in 1..Len(image)
    BY <1>1, <1>3
  <2> QED
    BY <2>1, ElementOfSeq
<1> HIDE DEF from, to
<1>5. /\ part \in Seq(Byte) /\ Len(part) = IF from <= to THEN to - from + 1 ELSE 0
      /\ \A j \in 1..(to - from + 1) : part[j] = image[from + j - 1]
  BY <1>2, <1>3, <1>4, SubSeqProperties
<1>6. Len(part) = len
  BY <1>1, <1>3, <1>5
<1>7. \A k \in 1..len : part[k] = image[v - top + k] /\ v - top + k \in 1..obj.stack_size
  <2> TAKE k \in 1..len
  <2>1. k \in 1..(to - from + 1)
    BY <1>3
  <2>2. from + k - 1 = v - top + k /\ v - top + k \in 1..obj.stack_size
    BY <1>1 DEF from
  <2> QED
    BY <1>5, <2>1, <2>2
<1> QED
  BY <1>5, <1>6, <1>7 DEF part, v, len, top

(* copyout copies into the buffers that are for output, each in full. *)
LEMMA CopyOutBuffers ==
  ASSUME Inv, CopyOut, obj.copied_out
  PROVE  \E image \in Seq(Byte) :
           /\ Len(image) = obj.stack_size
           /\ buff' = [i \in 1..NumArgs |->
                IF arguments[i].out THEN CopyoutFromStackImage(image, i) ELSE buff[i]]
           /\ "out" \in lost' => image = obj.stack_buf
           /\ "out" \notin lost' =>
                \A i \in 1..obj.stack_size : image[i] = mem[obj.stack_top + i - 1]
           /\ lost' = lost \/ lost' = lost \cup {"out"}
<1> DEFINE read == [i \in 1..obj.stack_size |-> mem[obj.stack_top + i - 1]]
           image == IF "out" \in lost' THEN obj.stack_buf ELSE read
<1>1. pc = "copyout"
  BY DEF CopyOut
<1>2. /\ buff' = [i \in 1..NumArgs |->
           IF arguments[i].out THEN CopyoutFromStackImage(image, i) ELSE buff[i]]
      /\ lost' = lost \/ lost' = lost \cup {"out"}
  BY DEF CopyOut, Transfer
<1>3. /\ obj.stack_top \in Nat /\ obj.stack_size \in Nat
      /\ obj.stack_top + obj.stack_size <= MemSize /\ MemSize \in Nat
      /\ obj.stack_buf \in Seq(Byte) /\ Len(obj.stack_buf) = obj.stack_size
  BY <1>1, FrameFacts
<1>4. read \in [1..obj.stack_size -> Byte]
  <2>1. \A i \in 1..obj.stack_size : obj.stack_top + i - 1 \in Addr
    BY <1>3 DEF Addr
  <2> QED
    BY <2>1 DEF Inv, TypeInv
<1>5. \A i \in 1..obj.stack_size : read[i] = mem[obj.stack_top + i - 1]
  OBVIOUS
<1> HIDE DEF read
<1>6. read \in Seq(Byte) /\ Len(read) = obj.stack_size
  BY <1>3, <1>4, FcnIsSeq
<1>7. image \in Seq(Byte) /\ Len(image) = obj.stack_size
  BY <1>3, <1>6
<1>8. "out" \in lost' => image = obj.stack_buf
  OBVIOUS
<1>9. "out" \notin lost' => \A i \in 1..obj.stack_size : image[i] = mem[obj.stack_top + i - 1]
  BY <1>5
<1> HIDE DEF image
<1> QED
  BY <1>2, <1>7, <1>8, <1>9

(* copyout fills buffers without changing their lengths. *)
LEMMA CopyOutInv ==
  ASSUME Inv, CopyOut
  PROVE  Inv'
<1>1. pc = "copyout" /\ pc' = "done" /\ UNCHANGED <<arguments, mem, ve_sp, calls>>
  BY DEF CopyOut
<1>2. NumArgs \in Nat /\ NumArgs' = NumArgs
  BY <1>1, FrameFacts DEF NumArgs
<1>3. Buffers
  BY DEF Inv, TypeInv
<1>4. CASE obj.copied_out
  <2>1. PICK image \in Seq(Byte) :
          /\ Len(image) = obj.stack_size
          /\ buff' = [i \in 1..NumArgs |->
               IF arguments[i].out THEN CopyoutFromStackImage(image, i) ELSE buff[i]]
    BY <1>4, CopyOutBuffers
  <2>2. ASSUME NEW i \in 1..NumArgs
        PROVE  buff'[i] \in Seq(Byte) /\ Len(buff'[i]) = arguments[i].len
    <3>1. CASE arguments[i].out
      <4>1. arguments[i].type = "stack"
        BY <1>1, <3>1, FrameFacts, ArgFacts
      <4>2. buff'[i] = CopyoutFromStackImage(image, i)
        BY <2>1, <3>1
      <4> QED
        BY <1>1, <2>1, <4>1, <4>2, CopyoutFacts
    <3>2. CASE ~arguments[i].out
      <4>1. buff'[i] = buff[i]
        BY <2>1, <3>2
      <4> QED
        BY <1>3, <4>1, ElementOfSeq DEF Buffers
    <3> QED
      BY <3>1, <3>2
  <2>3. buff' \in [1..NumArgs -> Seq(Byte)]
    BY <2>1, <2>2
  <2>4. buff' \in Seq(Seq(Byte)) /\ Len(buff') = NumArgs
    BY <1>2, <2>3, FcnIsSeq
  <2>5. Buffers'
    BY <1>1, <1>2, <2>2, <2>4 DEF Buffers
  <2> QED
    BY <1>1, <2>5 DEF Inv, TypeInv, FrameInv, TransferInv, Addr
<1>5. CASE ~obj.copied_out
  <2>1. UNCHANGED <<arguments, buff>>
    BY <1>1, <1>5 DEF CopyOut
  <2>2. Buffers'
    BY <1>3, <2>1, SameBuffers
  <2> QED
    BY <1>1, <2>2 DEF Inv, TypeInv, FrameInv, TransferInv, Addr
<1> QED
  BY <1>4, <1>5

(* The program gets its output. *)
LEMMA CopyOutDelivers ==
  ASSUME Inv, OutputInv, CopyOut
  PROVE  OutputDelivered'
<1>1. pc = "copyout" /\ UNCHANGED <<arguments, mem, calls, given>>
  BY DEF CopyOut
<1>2. NumArgs \in Nat /\ NumArgs' = NumArgs /\ buff = given.buff /\ lost \subseteq {"in"}
  BY <1>1, FrameFacts DEF NumArgs
<1> SUFFICES ASSUME NEW n \in 0..(NumArgs - 1)
             PROVE  /\ ~Arg(n).out => buff'[n + 1] = given.buff[n + 1]
                    /\ Arg(n).out /\ lost' = {} =>
                         buff'[n + 1] = [k \in 1..Arg(n).len |-> <<"out", calls, n, k>>]
                    /\ Arg(n).out /\ Arg(n).in /\ lost' = {"out"} => buff'[n + 1] = given.buff[n + 1]
  BY <1>1, <1>2 DEF OutputDelivered, Arg
<1>3. n + 1 \in 1..NumArgs /\ (n + 1) - 1 = n /\ Arg(n) = arguments[n + 1]
  BY <1>2 DEF Arg
<1>4. CASE ~obj.copied_out
  <2>1. buff' = buff
    BY <1>4 DEF CopyOut
  <2>2. ~arguments[n + 1].out
    BY <1>1, <1>3, <1>4 DEF Inv, FrameInv, ImageOK, Flags, Sent
  <2> QED
    BY <1>2, <1>3, <2>1, <2>2
<1>5. CASE obj.copied_out
  <2>1. PICK image \in Seq(Byte) :
          /\ Len(image) = obj.stack_size
          /\ buff' = [i \in 1..NumArgs |->
               IF arguments[i].out THEN CopyoutFromStackImage(image, i) ELSE buff[i]]
          /\ "out" \in lost' => image = obj.stack_buf
          /\ "out" \notin lost' =>
               \A i \in 1..obj.stack_size : image[i] = mem[obj.stack_top + i - 1]
          /\ lost' = lost \/ lost' = lost \cup {"out"}
    BY <1>5, CopyOutBuffers
  <2>2. CASE ~arguments[n + 1].out
    BY <1>2, <1>3, <2>1, <2>2
  <2>3. CASE arguments[n + 1].out
    <3> DEFINE part == CopyoutFromStackImage(image, n + 1)
               len == arguments[n + 1].len
               pos == obj.vemva[n + 1] - obj.stack_top
    <3>1. arguments[n + 1].type = "stack"
      BY <1>1, <1>3, <2>3, FrameFacts, ArgFacts
    <3>2. buff'[n + 1] = part
      BY <1>3, <2>1, <2>3
    <3>3. /\ part \in Seq(Byte) /\ Len(part) = len
          /\ \A k \in 1..len : part[k] = image[pos + k] /\ pos + k \in 1..obj.stack_size
      BY <1>1, <1>3, <2>1, <3>1, CopyoutFacts
    <3> HIDE DEF part
    <3>4. part = [k \in 1..len |-> part[k]]
      BY <3>3, LenProperties
    <3>5. ASSUME lost' = {} PROVE part = [k \in 1..len |-> <<"out", calls, n, k>>]
      <4>1. lost = {}
        BY <2>1, <3>5
      <4>2. ASSUME NEW k \in 1..len PROVE part[k] = <<"out", calls, n, k>>
        <5>1. mem[obj.vemva[n + 1] + k - 1] = <<"out", calls, n, k>>
          BY <1>1, <1>3, <2>3, <4>1 DEF OutputInv
        <5>2. obj.stack_top + (pos + k) - 1 = obj.vemva[n + 1] + k - 1
          <6>1. obj.stack_top \in Nat /\ obj.vemva[n + 1] \in Nat
            BY <1>1, <1>3, <3>1, FrameFacts, PlaceFacts
          <6> QED
            BY <6>1
        <5>3. image[pos + k] = mem[obj.stack_top + (pos + k) - 1]
          BY <2>1, <3>3, <3>5
        <5> QED
          BY <3>3, <5>1, <5>2, <5>3
      <4> QED
        BY <3>4, <4>2
    <3>6. ASSUME arguments[n + 1].in, lost' = {"out"} PROVE part = given.buff[n + 1]
      <4>1. image = obj.stack_buf
        BY <2>1, <3>6
      <4>2. \A k \in 1..len : part[k] = buff[n + 1][k]
        BY <1>1, <1>3, <3>3, <3>6, <4>1 DEF Inv, FrameInv, ImageOK, Contents, Sent
      <4>3. buff[n + 1] \in Seq(Byte) /\ Len(buff[n + 1]) = len
        BY <1>3, ElementOfSeq DEF Inv, TypeInv, Buffers
      <4> QED
        BY <1>2, <3>3, <4>2, <4>3, SeqEqual
    <3> QED
      BY <1>3, <2>3, <3>2, <3>5, <3>6
  <2> QED
    BY <2>2, <2>3
<1> QED
  BY <1>4, <1>5
-----------------------------------------------------------------------------
(* Every action keeps the invariant. *)
LEMMA NextInv == Inv /\ [Next]_vars => Inv'
<1> SUFFICES ASSUME Inv, [Next]_vars PROVE Inv'
  OBVIOUS
<1>1. CASE UNCHANGED vars
  <2>1. UNCHANGED <<arguments, buff, mem, ve_sp, obj, regs, pc, calls, given, lost>>
    BY <1>1 DEF vars
  <2>2. Buffers'
    BY <2>1, SameBuffers DEF Inv, TypeInv
  <2>3. NumArgs' = NumArgs /\ Sent' = Sent /\ GetRegVal(obj.vemva)' = GetRegVal(obj.vemva)
    BY <2>1 DEF NumArgs, Sent, GetRegVal
  <2>4. FrameInv'
    BY <2>1, <2>3, SameImage DEF Inv, FrameInv
  <2> QED
    BY <2>1, <2>2, <2>4 DEF Inv, TypeInv, TransferInv, Addr
<1> QED
  BY <1>1, SetArgInv, ClearInv, SetUpInv, CopyInInv, ExecuteInv, CopyOutInv DEF Next

(* Every action keeps the properties, when addresses are transferred. *)
LEMMA NextSafe ==
  ASSUME AllTransferred
  PROVE  Inv /\ Safe /\ [Next]_vars => Safe'
<1> SUFFICES ASSUME Inv, Safe, [Next]_vars PROVE Safe'
  OBVIOUS
<1>1. ASSUME pc' = "idle", UNCHANGED <<mem, given, lost>> PROVE Safe'
  BY <1>1 DEF Safe, OutputInv, CallerFrameKept, CalleeSeesArguments, OutputDelivered
<1>2. CASE (\E n \in 0..(MaxArgs - 1), arg \in ArgSet : SetArg(n, arg)) \/ Clear
  BY <1>1, <1>2 DEF SetArg, Clear
<1>3. CASE SetUp
  <2>1. pc' = "copyin" /\ given'.mem = mem /\ mem' = mem
    BY <1>3 DEF SetUp
  <2> QED
    BY <2>1 DEF Safe, OutputInv, CallerFrameKept, CalleeSeesArguments, OutputDelivered
<1>4. CASE CopyIn
  <2>1. pc = "copyin" /\ pc' = "ve" /\ UNCHANGED <<obj, given>>
    BY <1>4 DEF CopyIn
  <2>2. lost = {}
    BY <2>1 DEF Inv, FrameInv
  <2>3. ASSUME NEW a \in given.sp..(MemSize - 1) PROVE mem'[a] = mem[a]
    <3>1. /\ obj.stack_top \in Nat /\ obj.stack_size \in Nat /\ given.sp \in Nat
          /\ obj.stack_top + obj.stack_size = given.sp /\ MemSize \in Nat
      BY <2>1, FrameFacts
    <3>2. a \in Addr /\ a - obj.stack_top \notin 0..(obj.stack_size - 1)
      BY <3>1 DEF Addr
    <3> QED
      BY <1>4, <3>2 DEF CopyIn
  <2>4. CallerFrameKept'
    BY <2>1, <2>2, <2>3 DEF Safe, CallerFrameKept
  <2> QED
    BY <2>1, <2>4 DEF Safe, OutputInv, CalleeSeesArguments, OutputDelivered
<1>5. CASE Execute
  <2>1. pc' = "copyout" /\ UNCHANGED <<arguments, obj, calls, given, lost>>
    BY <1>5 DEF Execute
  <2>2. NumArgs' = NumArgs
    BY <2>1 DEF NumArgs
  <2>3. CallerFrameKept'
    BY <1>5, <2>1, ExecuteWrites DEF Safe, CallerFrameKept
  <2>4. OutputInv'
    BY <1>5, <2>1, <2>2, ExecuteWrites DEF OutputInv
  <2>5. CalleeSeesArguments'
    BY <1>5, ExecuteSees
  <2> QED
    BY <2>1, <2>3, <2>4, <2>5 DEF Safe, OutputDelivered
<1>6. CASE CopyOut
  <2>1. pc' = "done" /\ UNCHANGED <<mem, given>> /\ lost \subseteq lost'
    BY <1>6 DEF CopyOut, Transfer
  <2>2. OutputDelivered'
    BY <1>6, CopyOutDelivers DEF Safe
  <2> QED
    BY <2>1, <2>2 DEF Safe, OutputInv, CallerFrameKept, CalleeSeesArguments
<1>7. CASE UNCHANGED vars
  BY <1>7 DEF vars, Safe, OutputInv, CallerFrameKept, CalleeSeesArguments, OutputDelivered, NumArgs, Arg
<1> QED
  BY <1>2, <1>3, <1>4, <1>5, <1>6, <1>7 DEF Next

(* The image that setup builds fills the frame it reserved, so that the    *)
(* assertion in setup never fails as long as the sum of the sizes of the   *)
(* buffers fits an int.                                                    *)
THEOREM FrameCorrect == Spec => []ImageFillsFrame
<1>1. Inv => ImageFillsFrame
  BY DEF Inv, FrameInv, ImageFillsFrame
<1> QED
  BY InitInv, NextInv, <1>1, PTL DEF Spec

(* Neither copyin nor the output of the VE function goes past the frame.   *)
THEOREM CallerCorrect ==
  ASSUME AllTransferred
  PROVE  Spec => []CallerFrameKept
<1>1. Safe => CallerFrameKept
  BY DEF Safe
<1> QED
  BY InitInv, NextInv, NextSafe, <1>1, PTL DEF Spec

(* The VE function finds what the program passed, in registers and on the  *)
(* stack.                                                                  *)
THEOREM CalleeCorrect ==
  ASSUME AllTransferred
  PROVE  Spec => []CalleeSeesArguments
<1>1. Safe => CalleeSeesArguments
  BY DEF Safe
<1> QED
  BY InitInv, NextInv, NextSafe, <1>1, PTL DEF Spec

(* The program gets in each output buffer what the VE function wrote, and  *)
(* its other buffers are left alone.                                       *)
THEOREM OutputCorrect ==
  ASSUME AllTransferred
  PROVE  Spec => []OutputDelivered
<1>1. Safe => OutputDelivered
  BY DEF Safe
<1> QED
  BY InitInv, NextInv, NextSafe, <1>1, PTL DEF Spec
=============================================================================
