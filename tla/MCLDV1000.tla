----------------------------- MODULE MCLDV1000 -----------------------------
(* LDV1000 and its host on discs of one or two frames.                     *)
EXTENDS LDV1000Host

Digit1 == 15

(* Searching, auto-stop and switching discs, with what disturbs them, and  *)
(* one of each kind of command that keeps nothing.                         *)
HostCommands == {Digit1, Search, AutoStop, PlayCmd, Stop, Clear, Reject, NoEntry,
                 1, SwitchDisc, StepReverse, 164, 205, SeekDelay, SpinupDelay}
(* A host that does not wait: searches, disc changes, sound and queries.   *)
RashCommands == {Digit1, Search, SwitchDisc, PlayCmd, Audio1, Audio2, Forward1X, NoEntry,
                 FrameQuery, Hello, ListDiscs, WhichDisc}
=============================================================================
