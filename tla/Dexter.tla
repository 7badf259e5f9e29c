------------------------------- MODULE Dexter -------------------------------
(***************************************************************************)
(* An implementor that holds several interpreters, of which the one for    *)
(* the player the host expects is plugged in: the host's bytes, the        *)
(* vertical blanks and the resets go to that one, and its callbacks to the *)
(* one player.                                                             *)
(***************************************************************************)
EXTENDS VP932, VIP9500SG, PR8210, PR7820, VP931

CONSTANT Interpreters       \* the ones that may be plugged in

ASSUME DexterAssumption ==
  Interpreters \subseteq {"VP932", "VIP9500SG", "PR8210", "PR7820", "VP931"}

vars == <<playerVars, vp932_vars, vip_vars, pr8210_vars, pr7820_vars, vp931_vars>>

Init ==
  /\ plugged \in Interpreters
  /\ PlayerInit
  /\ VP932Init /\ VIPInit /\ PR8210Init /\ PR7820Init /\ VP931Init

Unplugged ==
  /\ plugged # "VP932" => UNCHANGED vp932_vars
  /\ plugged # "VIP9500SG" => UNCHANGED vip_vars
  /\ plugged # "PR8210" => UNCHANGED pr8210_vars
  /\ plugged # "PR7820" => UNCHANGED pr7820_vars
  /\ plugged # "VP931" => UNCHANGED vp931_vars

Next ==
  /\ \/ plugged = "VP932" /\ VP932Next
     \/ plugged = "VIP9500SG" /\ VIPNext
     \/ plugged = "PR8210" /\ PR8210Next
     \/ plugged = "PR7820" /\ PR7820Next
     \/ plugged = "VP931" /\ VP931Next
  /\ Unplugged

Spec == Init /\ [][Next]_vars

(* The implementor calls the interpreter in every vertical blank, and the  *)
(* player gets on with what it was told to do.  Nothing is assumed of the  *)
(* host.  The PR-7820 takes no part in the vertical blank.                 *)
VBlank ==
  /\ \/ plugged = "VP932" /\ VP932VBlank
     \/ plugged = "VIP9500SG" /\ VIPThink
     \/ plugged = "PR8210" /\ PR8210VBlank
     \/ plugged = "VP931" /\ \E buffer \in VP931Buffers : VP931Vsync(buffer)
  /\ Unplugged
PlayerStep ==
  /\ \/ plugged = "VP932" /\ VP932PlayerMoves
     \/ plugged = "VIP9500SG" /\ VIPPlayerMoves
     \/ plugged = "PR8210" /\ PR8210PlayerMoves
     \/ plugged = "PR7820" /\ PR7820PlayerMoves
     \/ plugged = "VP931" /\ VP931PlayerMoves
  /\ Unplugged
FairSpec == Spec /\ WF_vars(VBlank) /\ WF_vars(PlayerStep)
-----------------------------------------------------------------------------
(* Whatever is sent to the one plugged in, no interpreter's buffer, ring,  *)
(* register or counter leaves its bounds.                                  *)
TypeOK == VP932TypeOK /\ VIPTypeOK /\ PR8210TypeOK /\ PR7820TypeOK
=============================================================================
