------------------------------- MODULE TxRing -------------------------------
(***************************************************************************)
(* The ring of reply bytes that four interpreters keep (ldp1000, ldv1000,  *)
(* vp932, vip9500sg): a fixed array, a start and an end pointer that wrap  *)
(* after the last cell, and an 8-bit count that can_read looks at.  The    *)
(* four differ only in what a reset does: ldp1000i_reset moves both        *)
(* pointers and leaves the count alone.                                    *)
(*                                                                         *)
(* No copy of the code refuses a push when the ring is full: Unread bounds *)
(* how far the implementor lets the replies pile up.                       *)
(***************************************************************************)
EXTENDS Integers, Sequences

CONSTANTS
  Size,           \* cells in the ring, 12 in the code
  Values,         \* the bytes an interpreter replies with
  None,           \* not one of them
  ClearsCount,    \* a reset zeroes the count too
  Unread          \* how many bytes the implementor lets pile up

ASSUME RingAssumption ==
  /\ Size \in Nat \ {0}
  /\ ClearsCount \in BOOLEAN
  /\ Unread \in Nat
  /\ Unread < 256
  /\ None \notin Values

VARIABLES
  buf,        \* the cells
  start,      \* cell of the oldest byte
  end,        \* cell the next byte goes to
  count,      \* u8TxBufCount
  out,        \* the byte the latest step read
  unread      \* history: the bytes pushed since the last reset, not yet read

vars == <<buf, start, end, count, out, unread>>

Cells == 0..Size - 1
CountModulus == 256             \* the count is a uint8_t
WrapEarly(p) == IF p >= Size - 1 THEN 0 ELSE p                   \* mutant
Wrap(p) == IF p > Size - 1 THEN 0 ELSE p

CanRead == count # 0

Init ==
  /\ buf \in [Cells -> Values]
  /\ start = 0 /\ end = 0
  /\ count = 0
  /\ out = None
  /\ unread = <<>>

Push(v) ==
  /\ count < Unread
  /\ buf' = [buf EXCEPT ![end] = v]
  /\ end' = Wrap(end + 1)
  /\ count' = (count + 1) % CountModulus
  /\ out' = None
  /\ unread' = Append(unread, v)
  /\ UNCHANGED start

(* The implementor reads when can_read says so.                            *)
Pop ==
  /\ CanRead
  /\ out' = buf[start]
  /\ start' = Wrap(start + 1)
  /\ count' = (count - 1) % CountModulus
  /\ unread' = IF unread = <<>> THEN unread ELSE Tail(unread)
  /\ UNCHANGED <<buf, end>>

ClearStartOnly == start' = 0 /\ UNCHANGED end                    \* mutant
ClearRing == start' = 0 /\ end' = 0

Reset ==
  /\ ClearRing
  /\ count' = IF ClearsCount THEN 0 ELSE count
  /\ out' = None
  /\ unread' = <<>>
  /\ UNCHANGED buf

Next == (\E v \in Values : Push(v)) \/ Pop \/ Reset

Spec == Init /\ [][Next]_vars
-----------------------------------------------------------------------------
TypeOK ==
  /\ buf \in [Cells -> Values]
  /\ start \in Cells /\ end \in Cells
  /\ count \in 0..255
  /\ out \in Values \cup {None}
  /\ unread \in Seq(Values)

(* The i-th cell from cell s on.                                           *)
Slot(s, i) == IF s + i - 1 >= Size THEN s + i - 1 - Size ELSE s + i - 1

(* The three pieces of bookkeeping agree: the cells from start on hold the *)
(* unread bytes in order, the count is their number and end is the cell    *)
(* after the last of them, across any number of laps around the ring.      *)
RingHoldsUnread ==
  /\ count = Len(unread)
  /\ Len(unread) <= Size
  /\ end = Slot(start, Len(unread) + 1)
  /\ \A i \in 1..Len(unread) : buf[Slot(start, i)] = unread[i]

(* can_read answers non-zero exactly when there is a byte to read.         *)
CanReadIsHonest == CanRead <=> unread # <<>>

(* The ring is a first-in first-out queue of the bytes pushed since the    *)
(* last reset.                                                             *)
F == INSTANCE Fifo WITH queue <- unread, ready <- CanRead
IsFifo == F!FifoSpec
=============================================================================
