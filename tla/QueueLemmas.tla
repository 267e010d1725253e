----------------------------- MODULE QueueLemmas -----------------------------
(* What the three updates of a queue (append at the back, removal of the    *)
(* front, removal at a position) do to its elements.                        *)
EXTENDS Naturals, Sequences, SequencesExt, CommandQueues, SequenceTheorems, TLAPS

(* push_back keeps every element in place and puts the new one at the end. *)
LEMMA AppendFacts ==
  ASSUME NEW S, NEW s \in Seq(S), NEW x \in S
  PROVE  /\ Append(s, x) \in Seq(S)
         /\ Len(Append(s, x)) = Len(s) + 1
         /\ \A j \in 1..Len(s) : Append(s, x)[j] = s[j]
         /\ Append(s, x)[Len(s) + 1] = x
  BY AppendProperties

(* pop_front shifts every element but the first. *)
LEMMA TailFacts ==
  ASSUME NEW S, NEW s \in Seq(S), s # << >>
  PROVE  /\ Tail(s) \in Seq(S)
         /\ Len(s) \in Nat /\ Len(s) >= 1
         /\ Len(Tail(s)) = Len(s) - 1
         /\ \A j \in 1..(Len(s) - 1) : Tail(s)[j] = s[j + 1]
         /\ Head(s) = s[1] /\ Head(s) \in S
  BY HeadTailProperties, EmptySeq, LenProperties, ElementOfSeq

(* erase keeps the elements before the position and shifts the others. *)
LEMMA RemoveAtFacts ==
  ASSUME NEW S, NEW s \in Seq(S), NEW i \in 1..Len(s)
  PROVE  /\ RemoveAt(s, i) \in Seq(S)
         /\ Len(s) \in Nat
         /\ Len(RemoveAt(s, i)) = Len(s) - 1
         /\ \A j \in 1..(Len(s) - 1) :
              RemoveAt(s, i)[j] = IF j < i THEN s[j] ELSE s[j + 1]
<1> DEFINE u == SubSeq(s, 1, i - 1)
           v == SubSeq(s, i + 1, Len(s))
<1>1. Len(s) \in Nat
  BY LenProperties
<1>2. /\ u \in Seq(S)
      /\ Len(u) = i - 1
      /\ \A j \in 1..(i - 1) : u[j] = s[j]
  BY <1>1, SubSeqProperties
<1>3. /\ v \in Seq(S)
      /\ Len(v) = Len(s) - i
      /\ \A j \in 1..(Len(s) - i) : v[j] = s[i + j]
  BY <1>1, SubSeqProperties
<1>4. RemoveAt(s, i) = u \o v
  BY DEF RemoveAt
<1> HIDE DEF u, v
<1>5. /\ u \o v \in Seq(S)
      /\ Len(u \o v) = Len(u) + Len(v)
      /\ \A j \in 1..(Len(u) + Len(v)) :
           (u \o v)[j] = IF j <= Len(u) THEN u[j] ELSE v[j - Len(u)]
  BY <1>2, <1>3, ConcatProperties
<1>6. ASSUME NEW j \in 1..(Len(s) - 1)
      PROVE  (u \o v)[j] = IF j < i THEN s[j] ELSE s[j + 1]
  <2>1. CASE j < i
    BY <1>1, <1>2, <1>3, <1>5, <2>1
  <2>2. CASE ~(j < i)
    <3>1. (u \o v)[j] = v[j - (i - 1)]
      BY <1>1, <1>2, <1>3, <1>5, <2>2
    <3>2. j - (i - 1) \in 1..(Len(s) - i) /\ i + (j - (i - 1)) = j + 1
      BY <1>1, <2>2
    <3> QED
      BY <3>1, <3>2, <1>3, <2>2
  <2> QED
    BY <2>1, <2>2
<1> QED
  BY <1>1, <1>2, <1>3, <1>4, <1>5, <1>6

(* Taking the front is removal at position 1. *)
LEMMA RemoveAtFront ==
  ASSUME NEW S, NEW s \in Seq(S), s # << >>
  PROVE  RemoveAt(s, 1) = Tail(s)
<1>1. Len(s) \in Nat /\ 1 \in 1..Len(s)
  BY TailFacts
<1>2. /\ RemoveAt(s, 1) \in Seq(S)
      /\ Len(RemoveAt(s, 1)) = Len(s) - 1
      /\ \A j \in 1..(Len(s) - 1) : RemoveAt(s, 1)[j] = s[j + 1]
  BY <1>1, RemoveAtFacts
<1>3. /\ Tail(s) \in Seq(S)
      /\ Len(Tail(s)) = Len(s) - 1
      /\ \A j \in 1..(Len(s) - 1) : Tail(s)[j] = s[j + 1]
  BY TailFacts
<1>4. \A j \in 1..Len(RemoveAt(s, 1)) : RemoveAt(s, 1)[j] = Tail(s)[j]
  BY <1>1, <1>2, <1>3
<1>5. Len(RemoveAt(s, 1)) = Len(Tail(s))
  BY <1>2, <1>3
<1> QED
  BY <1>2, <1>3, <1>4, <1>5, SeqEqual, Zenon

-----------------------------------------------------------------------------
(* The IDs in a queue after a push. *)
LEMMA AppendIds ==
  ASSUME NEW S, NEW q \in Seq(S), NEW x \in S
  PROVE  /\ IdsOf(Append(q, x)) = IdsOf(q) \cup {x.id}
         /\ DistinctIds(q) /\ x.id \notin IdsOf(q) => DistinctIds(Append(q, x))
<1> DEFINE r == Append(q, x)
<1>1. /\ Len(q) \in Nat
      /\ Len(r) = Len(q) + 1
      /\ \A j \in 1..Len(q) : r[j] = q[j]
      /\ r[Len(q) + 1] = x
  BY AppendFacts, LenProperties
<1> HIDE DEF r
<1>2. IdsOf(r) = IdsOf(q) \cup {x.id}
  BY <1>1 DEF IdsOf
<1>3. DistinctIds(q) /\ x.id \notin IdsOf(q) => DistinctIds(r)
  BY <1>1 DEF IdsOf, DistinctIds
<1> QED
  BY <1>2, <1>3 DEF r

(* The IDs in a queue without repetition after the removal at a position. *)
LEMMA RemoveAtIds ==
  ASSUME NEW S, NEW q \in Seq(S), NEW k \in 1..Len(q), DistinctIds(q)
  PROVE  /\ IdsOf(RemoveAt(q, k)) = IdsOf(q) \ {q[k].id}
         /\ q[k].id \in IdsOf(q)
         /\ DistinctIds(RemoveAt(q, k))
<1> DEFINE r == RemoveAt(q, k)
           old(j) == IF j < k THEN j ELSE j + 1
           new(i) == IF i < k THEN i ELSE i - 1
<1>1. /\ Len(q) \in Nat
      /\ Len(r) = Len(q) - 1
      /\ \A j \in 1..(Len(q) - 1) : r[j] = IF j < k THEN q[j] ELSE q[j + 1]
  BY RemoveAtFacts
<1> HIDE DEF r
<1>2. \A j \in 1..Len(r) : /\ old(j) \in 1..Len(q)
                           /\ old(j) # k
                           /\ r[j] = q[old(j)]
  BY <1>1
<1>3. \A i \in 1..Len(q) : i # k => /\ new(i) \in 1..Len(r)
                                    /\ r[new(i)] = q[i]
  <2> SUFFICES ASSUME NEW i \in 1..Len(q), i # k
               PROVE  new(i) \in 1..Len(r) /\ r[new(i)] = q[i]
    OBVIOUS
  <2>1. new(i) \in 1..(Len(q) - 1) /\ old(new(i)) = i
    BY <1>1
  <2> QED
    BY <2>1, <1>1, <1>2
<1>4. \A i, j \in 1..Len(r) : old(i) = old(j) => i = j
  BY <1>1
<1> HIDE DEF old, new
<1>5. DistinctIds(r)
  <2> SUFFICES ASSUME NEW i \in 1..Len(r), NEW j \in 1..Len(r), r[i].id = r[j].id
               PROVE  i = j
    BY DEF DistinctIds
  <2>1. q[old(i)].id = q[old(j)].id
    BY <1>2
  <2>2. old(i) = old(j)
    BY <2>1, <1>2 DEF DistinctIds
  <2> QED
    BY <2>2, <1>4
<1>6. q[k].id \in IdsOf(q)
  BY DEF IdsOf
<1>7. IdsOf(r) \subseteq IdsOf(q) \ {q[k].id}
  <2> SUFFICES ASSUME NEW j \in 1..Len(r)
               PROVE  r[j].id \in IdsOf(q) /\ r[j].id # q[k].id
    BY DEF IdsOf
  <2> QED
    BY <1>2 DEF IdsOf, DistinctIds
<1>8. IdsOf(q) \ {q[k].id} \subseteq IdsOf(r)
  <2> SUFFICES ASSUME NEW i \in 1..Len(q), q[i].id # q[k].id
               PROVE  q[i].id \in IdsOf(r)
    BY DEF IdsOf
  <2> QED
    BY <1>3 DEF IdsOf
<1> QED
  BY <1>5, <1>6, <1>7, <1>8 DEF r

(* The IDs in a queue without repetition after the removal of its front. *)
LEMMA TailIds ==
  ASSUME NEW S, NEW q \in Seq(S), q # << >>, DistinctIds(q)
  PROVE  /\ IdsOf(Tail(q)) = IdsOf(q) \ {Head(q).id}
         /\ Head(q).id \in IdsOf(q)
         /\ DistinctIds(Tail(q))
<1>1. 1 \in 1..Len(q) /\ Head(q) = q[1]
  BY TailFacts
<1>2. RemoveAt(q, 1) = Tail(q)
  BY RemoveAtFront
<1>3. /\ IdsOf(RemoveAt(q, 1)) = IdsOf(q) \ {q[1].id}
      /\ q[1].id \in IdsOf(q)
      /\ DistinctIds(RemoveAt(q, 1))
  BY <1>1, RemoveAtIds
<1> QED
  BY <1>1, <1>2, <1>3
=============================================================================
