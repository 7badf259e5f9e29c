------------------------------ MODULE MCTxRing ------------------------------
(* A ring of four cells instead of twelve: wrapping, a full ring and a     *)
(* reset of a part-full ring all happen within a few pushes.               *)
EXTENDS TxRing
=============================================================================
