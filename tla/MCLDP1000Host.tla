--------------------------- MODULE MCLDP1000Host ---------------------------
(* LDP1000 and its host on a disc of three frames.                         *)
EXTENDS LDP1000Host

Digit0 == 48
Digit2 == 50
(* Every command that keeps state, and some of each kind that does not.    *)
HostCommands ==
  {Digit0, Digit2, SkipForward, SkipBackward, VarForward, VarReverse, Enter,
   ClearEntry, Search, Repeat, 58, 36, 40, FrameInquiry, StatusInquiry, MotorOn, 255}

(* A repeat, then a search while it runs.                                  *)
CancelCommands == {Digit2, Enter, Search, Repeat, 58}
=============================================================================
