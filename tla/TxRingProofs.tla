---------------------------- MODULE TxRingProofs ----------------------------
(***************************************************************************)
(* Proofs that the ring of reply bytes is a first-in first-out queue, for  *)
(* every size of the ring and every set of reply bytes, provided that a    *)
(* reset clears the count (ldv1000, vp932, vip9500sg; not ldp1000) and     *)
(* that the implementor never lets more bytes pile up than there are cells.*)
(***************************************************************************)
EXTENDS TxRing, SequenceTheorems, TLAPS

RingInUse == ClearsCount /\ Unread <= Size

(* The inductive invariant.                                                *)
RingInv == TypeOK /\ RingHoldsUnread

(* Going around the ring.                                                  *)
LEMMA WrapIsCell ==
  ASSUME NEW p \in Cells
  PROVE  Wrap(p + 1) \in Cells
  BY RingAssumption DEF Wrap, Cells

(* A cell less than a lap from a cell is a cell.                           *)
LEMMA SlotIsCell ==
  ASSUME NEW s \in Cells, NEW i \in 1..Size
  PROVE  Slot(s, i) \in Cells
  BY RingAssumption DEF Slot, Cells

(* Moving a pointer on by one is moving it to the next cell.               *)
LEMMA SlotAfter ==
  ASSUME NEW s \in Cells, NEW i \in 1..Size
  PROVE  /\ Wrap(Slot(s, i) + 1) = Slot(s, i + 1)
         /\ Slot(Wrap(s + 1), i) = Slot(s, i + 1)
  BY RingAssumption DEF Slot, Cells, Wrap

(* Bytes less than a lap apart are in different cells.                     *)
LEMMA SlotsDiffer ==
  ASSUME NEW s \in Cells, NEW i \in 1..Size, NEW j \in 1..Size, i # j
  PROVE  Slot(s, i) # Slot(s, j)
  BY RingAssumption DEF Slot, Cells

(* The ring is empty and in order after a reset.                           *)
LEMMA InitInv == Init => RingInv
  <1> SUFFICES ASSUME Init PROVE RingInv
    OBVIOUS
  <1>1. unread \in Seq(Values) /\ Len(unread) = 0
    BY EmptySeq DEF Init
  <1>2. TypeOK
    BY <1>1, RingAssumption DEF Init, TypeOK, Cells
  <1>3. RingHoldsUnread
    BY <1>1, RingAssumption DEF Init, RingHoldsUnread, Slot
  <1>4. QED
    BY <1>2, <1>3 DEF RingInv

(* What the invariant says of the ring in use.                             *)
LEMMA RingTyped ==
  RingInv => /\ unread \in Seq(Values) /\ buf \in [Cells -> Values]
             /\ start \in Cells /\ end \in Cells /\ count \in 0..255
             /\ count = Len(unread) /\ count \in 0..Size
  <1> SUFFICES ASSUME RingInv
               PROVE  /\ unread \in Seq(Values) /\ buf \in [Cells -> Values]
                      /\ start \in Cells /\ end \in Cells /\ count \in 0..255
                      /\ count = Len(unread) /\ count \in 0..Size
    OBVIOUS
  <1>1. /\ unread \in Seq(Values) /\ buf \in [Cells -> Values]
        /\ start \in Cells /\ end \in Cells /\ count \in 0..255
    BY DEF RingInv, TypeOK
  <1>2. count = Len(unread) /\ Len(unread) <= Size
    BY DEF RingInv, RingHoldsUnread
  <1>3. count \in 0..Size
    BY <1>1, <1>2, RingAssumption
  <1>4. QED
    BY <1>1, <1>2, <1>3

(* The invariant places the unread bytes.                                  *)
LEMMA RingOrdered ==
  RingInv => /\ end = Slot(start, Len(unread) + 1)
             /\ \A i \in 1..Len(unread) : buf[Slot(start, i)] = unread[i]
  BY DEF RingInv, RingHoldsUnread

(* The count is far from wrapping.                                         *)
LEMMA CountFits ==
  ASSUME NEW k \in 0..255
  PROVE  k % CountModulus = k
  BY DEF CountModulus

(* A count that is not zero can be decremented.                            *)
LEMMA OneLess ==
  ASSUME NEW k \in 1..255
  PROVE  k - 1 \in 0..255
  OBVIOUS

(* A push finds room, and its count does not wrap.                         *)
LEMMA RoomToPush ==
  ASSUME RingInUse, RingInv, NEW v \in Values, Push(v)
  PROVE  /\ count \in 0..254 /\ count + 1 \in 1..Size
         /\ count' = count + 1 /\ count' \in 0..255
  <1>1. count < Unread /\ Unread <= Size
    BY DEF Push, RingInUse
  <1>2. count \in 0..255
    BY RingTyped
  <1>3. count \in 0..254 /\ count + 1 \in 1..Size /\ count + 1 \in 0..255
    BY <1>1, <1>2, RingAssumption
  <1>4. count' = count + 1
    <2>1. count + 1 \in 0..255
      BY <1>3
    <2>2. (count + 1) % CountModulus = count + 1
      BY <2>1, CountFits
    <2>3. QED
      BY <2>2 DEF Push
  <1>5. QED
    BY <1>3, <1>4

(* What Append does to a sequence.                                         *)
LEMMA AppendFacts ==
  ASSUME NEW S, NEW s \in Seq(S), NEW v \in S
  PROVE  /\ Append(s, v) \in Seq(S) /\ Len(Append(s, v)) = Len(s) + 1
         /\ Append(s, v)[Len(s) + 1] = v
         /\ \A i \in 1..Len(s) : Append(s, v)[i] = s[i]
  OBVIOUS

(* What Tail does to a sequence.                                           *)
LEMMA TailFacts ==
  ASSUME NEW S, NEW s \in Seq(S), Len(s) # 0
  PROVE  /\ Tail(s) \in Seq(S) /\ Len(Tail(s)) = Len(s) - 1
         /\ s # <<>> /\ Head(s) = s[1]
         /\ \A i \in 1..Len(s) - 1 : Tail(s)[i] = s[i + 1]
  OBVIOUS

(* A push keeps the ring in order.                                         *)
LEMMA PushInv ==
  ASSUME RingInUse, RingInv, NEW v \in Values, Push(v)
  PROVE  RingInv'
  <1>1. /\ count \in 0..254 /\ count + 1 \in 1..Size /\ count = Len(unread)
        /\ unread \in Seq(Values) /\ buf \in [Cells -> Values]
        /\ start \in Cells /\ end \in Cells
    BY RoomToPush, RingTyped
  <1>2. /\ unread' = Append(unread, v) /\ start' = start /\ out' = None
        /\ buf' = [buf EXCEPT ![end] = v] /\ end' = Wrap(end + 1)
    BY DEF Push
  <1>3. /\ unread' \in Seq(Values) /\ Len(unread') = count + 1
        /\ unread'[count + 1] = v
        /\ \A i \in 1..count : unread'[i] = unread[i]
    <2>1. unread' = Append(unread, v) /\ unread \in Seq(Values) /\ count = Len(unread)
      BY <1>1, <1>2
    <2>2. QED
      BY <2>1, AppendFacts
  <1>4. count' = count + 1 /\ count' \in 0..255
    BY RoomToPush
  <1>5. end = Slot(start, count + 1)
    BY <1>1, RingOrdered
  <1>6. end' \in Cells
    BY <1>1, <1>2, WrapIsCell
  <1>7. end' = Slot(start, count + 1 + 1)
    BY <1>1, <1>2, <1>5, SlotAfter
  <1>8. TypeOK'
    BY <1>1, <1>2, <1>3, <1>4, <1>6 DEF TypeOK
  <1>9. ASSUME NEW i \in 1..count + 1 PROVE buf'[Slot(start, i)] = unread'[i]
    <2>1. i \in 1..Size
      BY <1>1, RingAssumption
    <2>2. Slot(start, i) \in Cells
      BY <1>1, <2>1, SlotIsCell
    <2>3. CASE i = count + 1
      BY <1>1, <1>2, <1>3, <1>5, <2>3
    <2>4. CASE i # count + 1
      <3>1. i \in 1..count
        BY <1>1, <2>4
      <3>2. Slot(start, i) # end
        BY <1>1, <1>5, <2>1, <2>4, SlotsDiffer
      <3>3. buf[Slot(start, i)] = unread[i]
        BY <1>1, <3>1, RingOrdered
      <3>4. QED
        BY <1>1, <1>2, <1>3, <2>2, <3>1, <3>2, <3>3
    <2>5. QED
      BY <2>3, <2>4
  <1>10. RingHoldsUnread'
    <2>1. Len(unread') = count + 1 /\ count' = count + 1 /\ start' = start
      BY <1>2, <1>3, <1>4
    <2>2. Len(unread') <= Size
      BY <1>1, <2>1, RingAssumption
    <2>3. end' = Slot(start', Len(unread') + 1)
      BY <1>7, <2>1
    <2>4. \A i \in 1..Len(unread') : buf'[Slot(start', i)] = unread'[i]
      BY <1>9, <2>1
    <2>5. QED
      BY <2>1, <2>2, <2>3, <2>4 DEF RingHoldsUnread
  <1>11. QED
    BY <1>8, <1>10 DEF RingInv

(* A read takes the oldest unread byte, and its count does not wrap.       *)
LEMMA PopFacts ==
  ASSUME RingInv, Pop
  PROVE  /\ count \in 1..Size /\ count \in 1..255 /\ count = Len(unread)
         /\ count' = count - 1
         /\ unread # <<>> /\ unread' = Tail(unread)
         /\ unread' \in Seq(Values) /\ Len(unread') = count - 1
         /\ Head(unread) = unread[1]
         /\ \A i \in 1..count - 1 : unread'[i] = unread[i + 1]
  <1>1. count \in 1..Size /\ count \in 1..255 /\ count = Len(unread) /\ unread \in Seq(Values)
    BY RingTyped, RingAssumption DEF Pop, CanRead
  <1>2. count' = count - 1
    <2>1. count - 1 \in 0..255
      <3>1. count \in 1..255
        BY <1>1
      <3>2. QED
        BY <3>1, OneLess
    <2>2. (count - 1) % CountModulus = count - 1
      BY <2>1, CountFits
    <2>3. QED
      BY <2>2 DEF Pop
  <1>3. /\ Tail(unread) \in Seq(Values) /\ Len(Tail(unread)) = count - 1
        /\ unread # <<>> /\ Head(unread) = unread[1]
        /\ \A i \in 1..count - 1 : Tail(unread)[i] = unread[i + 1]
    BY <1>1, TailFacts
  <1>4. unread' = Tail(unread)
    BY <1>3 DEF Pop
  <1>5. QED
    BY <1>1, <1>2, <1>3, <1>4

(* A read keeps the ring in order.                                         *)
LEMMA PopInv ==
  ASSUME RingInv, Pop
  PROVE  RingInv'
  <1>1. /\ count \in 1..Size /\ count \in 1..255 /\ count = Len(unread)
        /\ count' = count - 1
        /\ unread' \in Seq(Values) /\ Len(unread') = count - 1
        /\ \A i \in 1..count - 1 : unread'[i] = unread[i + 1]
    BY PopFacts
  <1>2. /\ buf \in [Cells -> Values] /\ start \in Cells /\ end \in Cells
    BY RingTyped
  <1>3. /\ buf' = buf /\ end' = end /\ start' = Wrap(start + 1) /\ out' = buf[start]
    BY DEF Pop
  <1>4. start' \in Cells
    BY <1>2, <1>3, WrapIsCell
  <1>5. TypeOK'
    <2>1. count' \in 0..255 /\ unread' \in Seq(Values)
      <3>1. count \in 1..255 /\ count' = count - 1 /\ unread' \in Seq(Values)
        BY <1>1
      <3>2. count - 1 \in 0..255
        BY <3>1, OneLess
      <3>3. QED
        BY <3>1, <3>2
    <2>2. buf' \in [Cells -> Values] /\ end' \in Cells /\ out' \in Values
      BY <1>2, <1>3
    <2>3. QED
      BY <1>4, <2>1, <2>2 DEF TypeOK
  <1>6. ASSUME NEW i \in 1..Size PROVE Slot(start', i) = Slot(start, i + 1)
    BY <1>2, <1>3, SlotAfter
  <1>7. end' = Slot(start', count)
    <2>1. end = Slot(start, count + 1)
      BY <1>1, RingOrdered
    <2>2. QED
      BY <1>1, <1>3, <1>6, <2>1
  <1>8. ASSUME NEW i \in 1..count - 1 PROVE buf'[Slot(start', i)] = unread'[i]
    <2>1. i \in 1..Size /\ i + 1 \in 1..count
      BY <1>1, RingAssumption
    <2>2. buf[Slot(start, i + 1)] = unread[i + 1]
      BY <1>1, <2>1, RingOrdered
    <2>3. QED
      BY <1>1, <1>3, <1>6, <2>1, <2>2
  <1>9. RingHoldsUnread'
    <2>1. count' = Len(unread') /\ Len(unread') <= Size
      BY <1>1, RingAssumption
    <2>2. Len(unread') + 1 = count
      BY <1>1
    <2>3. QED
      BY <1>1, <1>7, <1>8, <2>1, <2>2 DEF RingHoldsUnread
  <1>10. QED
    BY <1>5, <1>9 DEF RingInv

(* A reset that clears the count empties the ring.                         *)
LEMMA ResetInv ==
  ASSUME RingInUse, RingInv, Reset
  PROVE  RingInv'
  <1>1. unread' \in Seq(Values) /\ Len(unread') = 0 /\ start' = 0 /\ end' = 0 /\ count' = 0
    BY EmptySeq DEF Reset, ClearRing, RingInUse
  <1>2. TypeOK'
    BY <1>1, RingAssumption DEF Reset, RingInv, TypeOK, Cells
  <1>3. RingHoldsUnread'
    BY <1>1, RingAssumption DEF RingHoldsUnread, Slot
  <1>4. QED
    BY <1>2, <1>3 DEF RingInv

(* Every step keeps the ring in order.                                     *)
LEMMA NextInv ==
  ASSUME RingInUse, RingInv, [Next]_vars
  PROVE  RingInv'
  <1>1. CASE UNCHANGED vars
    BY <1>1 DEF vars, RingInv, TypeOK, RingHoldsUnread
  <1>2. QED
    BY <1>1, PushInv, PopInv, ResetInv DEF Next

(* The cells from start on hold the bytes not yet read, in order, and the  *)
(* count and the end pointer agree with them, however often the pointers   *)
(* have gone around.                                                       *)
THEOREM RingCorrect == RingInUse => (Spec => []RingHoldsUnread)
  <1> SUFFICES ASSUME RingInUse PROVE Spec => []RingHoldsUnread
    OBVIOUS
  <1>1. RingInv /\ [Next]_vars => RingInv'
    BY NextInv
  <1>2. RingInv => RingHoldsUnread
    BY DEF RingInv
  <1>3. QED
    BY InitInv, <1>1, <1>2, PTL DEF Spec

(* The ring implements the queue: every push, read and reset of the ring   *)
(* is one of the queue.                                                    *)
THEOREM RingIsFifo == RingInUse => (Spec => IsFifo)
  <1> SUFFICES ASSUME RingInUse PROVE Spec => IsFifo
    OBVIOUS
  <1>1. Init => F!FifoInit
    BY DEF Init, F!FifoInit, CanRead
  <1>2. RingInv /\ [Next]_vars => [F!FifoNext]_(F!fifoVars)
    <2> SUFFICES ASSUME RingInv, [Next]_vars
                 PROVE  [F!FifoNext]_(F!fifoVars)
      OBVIOUS
    <2>1. ASSUME NEW v \in Values, Push(v) PROVE F!FifoPush(v)
      <3>1. count' = count + 1 /\ count' # 0
        BY <2>1, RoomToPush
      <3>2. QED
        BY <2>1, <3>1 DEF Push, F!FifoPush, CanRead
    <2>2. CASE Pop
      <3>1. /\ count = Len(unread) /\ count \in 1..Size /\ unread # <<>>
            /\ unread' = Tail(unread) /\ unread' \in Seq(Values)
            /\ count' = count - 1 /\ Len(unread') = count - 1
            /\ Head(unread) = unread[1]
        BY <2>2, PopFacts
      <3>2. Slot(start, 1) = start
        BY RingTyped, RingAssumption DEF Slot, Cells
      <3>3. buf[start] = unread[1]
        <4>1. 1 \in 1..Len(unread)
          BY <3>1, RingAssumption
        <4>2. QED
          BY <3>2, <4>1, RingOrdered
      <3>4. out' = Head(unread)
        BY <2>2, <3>1, <3>3 DEF Pop
      <3>5. count' # 0 <=> Tail(unread) # <<>>
        BY <3>1, EmptySeq
      <3>6. F!FifoPop
        BY <3>1, <3>4, <3>5 DEF F!FifoPop, CanRead
      <3>7. QED
        BY <3>6 DEF F!FifoNext
    <2>3. CASE Reset
      BY <2>3 DEF Reset, RingInUse, F!FifoClear, F!FifoNext, CanRead
    <2>4. CASE UNCHANGED vars
      BY <2>4 DEF vars, F!fifoVars, CanRead
    <2>5. QED
      BY <2>1, <2>2, <2>3, <2>4 DEF Next, F!FifoNext
  <1>3. RingInv /\ [Next]_vars => RingInv'
    BY NextInv
  <1>4. QED
    BY InitInv, <1>1, <1>2, <1>3, PTL DEF Spec, IsFifo, F!FifoSpec
=============================================================================
