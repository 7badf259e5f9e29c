-------------------------------- MODULE Fifo --------------------------------
(***************************************************************************)
(* What the reply queue of an interpreter promises its implementor: the    *)
(* bytes pushed since the last reset come out once each and in order, and  *)
(* there is a byte to read exactly when one is left.                       *)
(***************************************************************************)
EXTENDS Sequences

CONSTANTS
  Values,     \* the bytes an interpreter replies with
  None        \* what out holds when the latest step read nothing

VARIABLES
  queue,      \* the bytes waiting, oldest first
  out,        \* the byte the latest step read
  ready       \* what can_read answers

fifoVars == <<queue, out, ready>>

FifoInit == queue = <<>> /\ out = None /\ ready = FALSE

FifoPush(v) ==
  /\ queue' = Append(queue, v)
  /\ out' = None
  /\ ready' = TRUE

FifoPop ==
  /\ queue # <<>>
  /\ queue' = Tail(queue)
  /\ out' = Head(queue)
  /\ ready' = (Tail(queue) # <<>>)

FifoClear == queue' = <<>> /\ out' = None /\ ready' = FALSE

FifoNext == (\E v \in Values : FifoPush(v)) \/ FifoPop \/ FifoClear

FifoSpec == FifoInit /\ [][FifoNext]_fifoVars
=============================================================================
