------------------------------ MODULE Exchange ------------------------------
(***************************************************************************)
(* What an interpreter that answers in the vertical blank promises its     *)
(* host: it tells nothing it was not asked, it tells it once, and what it  *)
(* tells is an answer to that request.  A request may be dropped untold,   *)
(* by a later one, by a failure of the player or by a reset: that none is  *)
(* dropped without reason is for the interpreters to say.                  *)
(***************************************************************************)
EXTENDS Integers, Sequences, Functions

CONSTANTS
  Requests,       \* what the host may ask
  Answers(_)      \* the words that answer a request

VARIABLES
  asked,          \* the requests not yet answered
  told            \* the words the latest step told the host

exchangeVars == <<asked, told>>

ExchangeInit == asked = {} /\ told = <<>>

Ask(r) ==
  /\ \E kept \in SUBSET asked : asked' = kept \cup {r}
  /\ told' = <<>>

(* Some requests are settled, each by at most one of the words told.       *)
Settle ==
  \E settled \in SUBSET asked :
    /\ asked' = asked \ settled
    /\ \E of \in Injection(1..Len(told'), settled) :
         \A i \in 1..Len(told') : told'[i] \in Answers(of[i])

ExchangeNext == (\E r \in Requests : Ask(r)) \/ Settle

ExchangeSpec == ExchangeInit /\ [][ExchangeNext]_exchangeVars
=============================================================================
