------------------------------- MODULE PR8210 -------------------------------
(***************************************************************************)
(* The Pioneer PR-8210 / PR-8210A interpreter (src/src/pr8210-interpreter  *)
(* .c): ten-bit remote control messages that count from their second copy, *)
(* the stand-by line, which blinks while the player is busy, and the two   *)
(* lines that make the PR-8210A jump a track.                              *)
(***************************************************************************)
EXTENDS Player

CONSTANTS
  PR8210Messages,     \* the messages the host may send
  PR8210MaxDigits,    \* digits of a frame number, 5 in the code
  PR8210Blink         \* the vsync that blinks the stand-by line, 12 in the code

ASSUME PR8210Assumption ==
  /\ PR8210Messages \subseteq 0..1023
  /\ PR8210MaxDigits \in Nat \ {0} /\ PR8210Blink \in Nat

VARIABLES
  pr8210_u8OldMsg,            \* the command of the latest message
  pr8210_u8CurMsg,            \* the command last obeyed, if it is the same
  pr8210_u32Frame, pr8210_u8FrameIdx,     \* the number and its digits
  pr8210_u8Audio,             \* the channels enabled, left and right
  pr8210_bJumpTriggerRaised, pr8210_bScanCRaised,     \* the two lines
  pr8210_bInternalMode,       \* they are not looked at
  pr8210_bPlayerBusy,         \* a search was begun, its end not yet seen
  pr8210_bStandByRaised,      \* the stand-by line
  pr8210_u8VsyncCounter,      \* vsyncs since it blinked
  pr8210_line,                \* history: what change_standby last said
  pr8210_copies,              \* history: copies of the latest message, to 3
  pr8210_pins                 \* history: the lines as last reported

pr8210_message == <<pr8210_u8OldMsg, pr8210_u8CurMsg, pr8210_copies>>
pr8210_number == <<pr8210_u32Frame, pr8210_u8FrameIdx>>
pr8210_jump == <<pr8210_bJumpTriggerRaised, pr8210_bScanCRaised, pr8210_bInternalMode,
                 pr8210_pins>>
pr8210_standby == <<pr8210_bPlayerBusy, pr8210_bStandByRaised, pr8210_u8VsyncCounter,
                    pr8210_line>>
pr8210_vars == <<pr8210_message, pr8210_number, pr8210_u8Audio, pr8210_jump, pr8210_standby>>
-----------------------------------------------------------------------------
PR8210None == 255               \* ~0, which no message carries
PR8210Pins(trigger, scanC, internal) ==
  [trigger |-> trigger, scanC |-> scanC, internal |-> internal]

(* The five bits of a message, and the frame around them: 00ccccc100, and  *)
(* the message that is all zeros.                                          *)
PR8210Cmd(msg) == (msg \div 8) % 256
PR8210Intact(msg) == msg = 0 \/ (msg \div 256 = 0 /\ msg % 8 = 4)

PR8210Filler == 0
PR8210Search == 11              \* 0x0B
PR8210AudioRight == 13          \* 0x0D
PR8210AudioLeft == 14           \* 0x0E
PR8210Reject == 15              \* 0x0F
PR8210Digits == 16..25          \* 0x10..0x19
PR8210OneCall == {4, 5, 9, 10}
PR8210CallOf(cmd) ==
  CASE cmd = 4 -> Call("step", 1)
    [] cmd = 5 -> Call("play", 0)
    [] cmd = 9 -> Call("step", -1)
    [] cmd = 10 -> Call("pause", 0)
PR8210Standby(raised) == Call("change_standby", IF raised THEN 1 ELSE 0)
PR8210ChangeAudio(ch, on) == Call("change_audio", <<ch, on>>)

PR8210Init ==
  /\ pr8210_u8OldMsg = PR8210None /\ pr8210_u8CurMsg = PR8210None
  /\ pr8210_u32Frame = 0 /\ pr8210_u8FrameIdx = 0
  /\ pr8210_u8Audio = <<1, 1>>
  /\ pr8210_bJumpTriggerRaised = TRUE /\ pr8210_bScanCRaised = TRUE
  /\ pr8210_bInternalMode = TRUE
  /\ pr8210_bPlayerBusy = FALSE /\ pr8210_bStandByRaised = FALSE
  /\ pr8210_u8VsyncCounter = 0
  /\ pr8210_line = FALSE /\ pr8210_copies = 0
  /\ pr8210_pins = PR8210Pins(TRUE, TRUE, TRUE)

(* The implementor is told nothing: its stand-by line stays as it is.      *)
PR8210Reset ==
  /\ pr8210_u8OldMsg' = PR8210None /\ pr8210_u8CurMsg' = PR8210None
  /\ pr8210_u32Frame' = 0 /\ pr8210_u8FrameIdx' = 0
  /\ pr8210_u8Audio' = <<1, 1>>
  /\ pr8210_bJumpTriggerRaised' = TRUE /\ pr8210_bScanCRaised' = TRUE
  /\ pr8210_bInternalMode' = TRUE
  /\ pr8210_bPlayerBusy' = FALSE /\ pr8210_bStandByRaised' = FALSE
  /\ pr8210_u8VsyncCounter' = 0
  /\ pr8210_copies' = 0
  /\ pr8210_pins' = PR8210Pins(TRUE, TRUE, TRUE)
  /\ Nothing
  /\ UNCHANGED pr8210_line
-----------------------------------------------------------------------------
(* What pr8210i_write does with a command it obeys.                        *)
PR8210Call(cmd) ==
  /\ \/ cmd \in PR8210OneCall /\ Do(<<PR8210CallOf(cmd)>>, <<>>)
     \/ cmd \in {PR8210Filler, PR8210Reject} /\ Nothing
     \/ /\ cmd \notin PR8210OneCall \cup PR8210Digits \cup
            {PR8210Filler, PR8210Search, PR8210AudioRight, PR8210AudioLeft, PR8210Reject}
        /\ Do(<<Error>>, <<>>)
  /\ UNCHANGED <<pr8210_number, pr8210_u8Audio, pr8210_standby>>

PR8210Toggle(cmd) ==
  /\ cmd \in {PR8210AudioLeft, PR8210AudioRight}
  /\ LET ch == IF cmd = PR8210AudioLeft THEN 1 ELSE 2
     IN /\ pr8210_u8Audio' = [pr8210_u8Audio EXCEPT ![ch] = 1 - @]
        /\ Do(<<PR8210ChangeAudio(ch - 1, 1 - pr8210_u8Audio[ch])>>, <<>>)
  /\ UNCHANGED <<pr8210_number, pr8210_standby>>

PR8210Room == pr8210_u8FrameIdx < PR8210MaxDigits

PR8210Digit(cmd) ==
  /\ cmd \in PR8210Digits
  /\ \/ /\ PR8210Room
        /\ pr8210_u32Frame' = pr8210_u32Frame * 10 + (cmd - 16)
        /\ pr8210_u8FrameIdx' = pr8210_u8FrameIdx + 1
        /\ Nothing
     \/ ~PR8210Room /\ Do(<<Error>>, <<>>) /\ UNCHANGED pr8210_number
  /\ UNCHANGED <<pr8210_u8Audio, pr8210_standby>>

PR8210SearchUnseen == UNCHANGED pr8210_bStandByRaised               \* mutant
PR8210RaiseStandBy == pr8210_bStandByRaised' = TRUE

PR8210BeginSearch(cmd) ==
  /\ cmd = PR8210Search
  /\ \/ /\ pr8210_u8FrameIdx # 0
        /\ Do(<<Call("begin_search", pr8210_u32Frame), PR8210Standby(TRUE)>>, <<>>)
        /\ pr8210_line' = TRUE
        /\ PR8210RaiseStandBy
        /\ pr8210_bPlayerBusy' = TRUE
        /\ pr8210_u8VsyncCounter' = 0
     \/ pr8210_u8FrameIdx = 0 /\ Nothing /\ UNCHANGED pr8210_standby
  /\ pr8210_u32Frame' = 0 /\ pr8210_u8FrameIdx' = 0
  /\ UNCHANGED pr8210_u8Audio

PR8210Obey(cmd) ==
  PR8210Call(cmd) \/ PR8210Toggle(cmd) \/ PR8210Digit(cmd) \/ PR8210BeginSearch(cmd)
-----------------------------------------------------------------------------
(* pr8210i_write.                                                          *)
PR8210Ignored ==
  Nothing /\ UNCHANGED <<pr8210_number, pr8210_u8Audio, pr8210_standby>>

PR8210Corrupt(msg) ==
  /\ ~PR8210Intact(msg)
  /\ Do(<<Error>>, <<>>)
  /\ UNCHANGED <<pr8210_message, pr8210_number, pr8210_u8Audio, pr8210_standby>>

PR8210KeepCurrent == UNCHANGED pr8210_u8CurMsg                      \* mutant
PR8210ForgetCurrent == pr8210_u8CurMsg' = PR8210None

PR8210FirstCopy(cmd) ==
  /\ cmd # pr8210_u8OldMsg
  /\ pr8210_u8OldMsg' = cmd
  /\ PR8210ForgetCurrent
  /\ PR8210Ignored

PR8210SecondCopy(cmd) ==
  /\ cmd = pr8210_u8OldMsg /\ cmd # pr8210_u8CurMsg
  /\ PR8210Obey(cmd)
  /\ pr8210_u8CurMsg' = cmd
  /\ UNCHANGED pr8210_u8OldMsg

PR8210FurtherCopy(cmd) ==
  /\ cmd = pr8210_u8OldMsg /\ cmd = pr8210_u8CurMsg
  /\ PR8210Ignored
  /\ UNCHANGED <<pr8210_u8OldMsg, pr8210_u8CurMsg>>

PR8210Receive(msg) ==
  /\ PR8210Intact(msg)
  /\ LET cmd == PR8210Cmd(msg)
     IN /\ PR8210FirstCopy(cmd) \/ PR8210SecondCopy(cmd) \/ PR8210FurtherCopy(cmd)
        /\ pr8210_copies' = IF cmd = pr8210_u8OldMsg THEN Min({3, pr8210_copies + 1}) ELSE 1

PR8210Write(msg) == (PR8210Corrupt(msg) \/ PR8210Receive(msg)) /\ UNCHANGED pr8210_jump
-----------------------------------------------------------------------------
(* pr8210i_on_jmp_trigger_changed, and the skip it makes.                  *)
PR8210SkipBy(scanC) == Call("skip", IF scanC THEN 1 ELSE -1)

PR8210Trigger(raised, scanC) ==
  /\ pr8210_bScanCRaised' = scanC
  /\ pr8210_bJumpTriggerRaised' = raised
  /\ IF pr8210_bJumpTriggerRaised /\ ~raised /\ ~pr8210_bInternalMode
       THEN Do(<<PR8210SkipBy(scanC)>>, <<>>) ELSE Nothing
  /\ pr8210_pins' = [pr8210_pins EXCEPT !.trigger = raised, !.scanC = scanC]
  /\ UNCHANGED <<pr8210_bInternalMode, pr8210_message, pr8210_number, pr8210_u8Audio,
                 pr8210_standby>>

(* pr8210i_on_jmptrig_and_scanc_intext_changed: a trigger that was low     *)
(* before the mode became external is obeyed now.                          *)
PR8210NoEdge(internal) == FALSE                                     \* mutant
PR8210Edge(internal) == ~pr8210_bJumpTriggerRaised /\ ~internal

PR8210Mode(internal) ==
  /\ \/ /\ internal # pr8210_bInternalMode
        /\ pr8210_bInternalMode' = internal
        /\ Do(<<Call("change_auto_track_jump", internal)>> \o
              IF PR8210Edge(internal) THEN <<PR8210SkipBy(pr8210_bScanCRaised)>> ELSE <<>>,
              <<>>)
     \/ internal = pr8210_bInternalMode /\ Nothing /\ UNCHANGED pr8210_bInternalMode
  /\ pr8210_pins' = [pr8210_pins EXCEPT !.internal = internal]
  /\ UNCHANGED <<pr8210_bJumpTriggerRaised, pr8210_bScanCRaised, pr8210_message,
                 pr8210_number, pr8210_u8Audio, pr8210_standby>>
-----------------------------------------------------------------------------
(* pr8210i_on_vblank.  The player is busy while it spins up or searches.   *)
PR8210NotPlaying == player.disc # "PLAYING"                        \* mutant
PR8210PlayerIsBusy == player.disc \in {"SPINNING_UP", "SEARCHING"}

PR8210StillBusy ==
  /\ pr8210_bPlayerBusy /\ PR8210PlayerIsBusy
  /\ \/ /\ pr8210_u8VsyncCounter >= PR8210Blink
        /\ pr8210_bStandByRaised' = ~pr8210_bStandByRaised
        /\ pr8210_line' = ~pr8210_bStandByRaised
        /\ pr8210_u8VsyncCounter' = 0
        /\ Do(<<PR8210Standby(~pr8210_bStandByRaised)>>, <<>>)
     \/ /\ pr8210_u8VsyncCounter < PR8210Blink
        /\ pr8210_u8VsyncCounter' = pr8210_u8VsyncCounter + 1
        /\ Nothing
        /\ UNCHANGED <<pr8210_bStandByRaised, pr8210_line>>
  /\ UNCHANGED pr8210_bPlayerBusy

PR8210NoLongerBusy ==
  /\ pr8210_bPlayerBusy /\ ~PR8210PlayerIsBusy
  /\ pr8210_bPlayerBusy' = FALSE
  /\ \/ /\ pr8210_bStandByRaised
        /\ pr8210_line' = FALSE
        /\ Do(<<PR8210Standby(FALSE)>>, <<>>)
     \/ ~pr8210_bStandByRaised /\ Nothing /\ UNCHANGED pr8210_line
  /\ UNCHANGED <<pr8210_bStandByRaised, pr8210_u8VsyncCounter>>

PR8210NotBusy == ~pr8210_bPlayerBusy /\ Nothing /\ UNCHANGED pr8210_standby

PR8210VBlank ==
  /\ PR8210StillBusy \/ PR8210NoLongerBusy \/ PR8210NotBusy
  /\ UNCHANGED <<pr8210_message, pr8210_number, pr8210_u8Audio, pr8210_jump>>

PR8210PlayerMoves == PlayerMoves /\ UNCHANGED pr8210_vars

PR8210Next ==
  \/ \E msg \in PR8210Messages : PR8210Write(msg)
  \/ \E raised, scanC \in BOOLEAN : PR8210Trigger(raised, scanC)
  \/ \E internal \in BOOLEAN : PR8210Mode(internal)
  \/ PR8210VBlank
  \/ PR8210Reset
  \/ PR8210PlayerMoves

PR8210Spec == plugged = "PR8210" /\ PlayerInit /\ PR8210Init /\ [][PR8210Next]_<<playerVars, pr8210_vars>>
-----------------------------------------------------------------------------
PR8210Called == CallsOf("PR8210")

(* No sixth digit is counted, and the vsync counter stays in its period.   *)
PR8210TypeOK ==
  /\ pr8210_u8OldMsg \in 0..255 /\ pr8210_u8CurMsg \in {PR8210None, pr8210_u8OldMsg}
  /\ pr8210_u32Frame \in Nat /\ pr8210_u8FrameIdx \in 0..PR8210MaxDigits
  /\ pr8210_u8Audio \in {0, 1} \X {0, 1}
  /\ pr8210_bJumpTriggerRaised \in BOOLEAN /\ pr8210_bScanCRaised \in BOOLEAN
  /\ pr8210_bInternalMode \in BOOLEAN
  /\ pr8210_bPlayerBusy \in BOOLEAN /\ pr8210_bStandByRaised \in BOOLEAN
  /\ pr8210_u8VsyncCounter \in 0..PR8210Blink
  /\ pr8210_line \in BOOLEAN /\ pr8210_copies \in 0..3

(* A message drives the player, the sound or the stand-by line when it is  *)
(* the second copy in a row, and then only: corrupted messages in between  *)
(* do not break the row, a different message and a reset do.               *)
PR8210ByMessage == {"play", "pause", "step", "begin_search", "change_audio"}
PR8210Acts == \E i \in DOMAIN PR8210Called : PR8210Called[i].cb \in PR8210ByMessage
PR8210Second == pr8210_copies = 1 /\ pr8210_copies' = 2
PR8210SecondCopyActs ==
  [][/\ PR8210Acts' => PR8210Second
     /\ PR8210Second /\ pr8210_u8OldMsg \in PR8210OneCall => PR8210Acts'
    ]_<<playerVars, pr8210_vars>>

(* While a search lasts, the implementor's stand-by line is what the       *)
(* interpreter takes it for, so that every blink changes it and the end of *)
(* the search leaves it low.                                               *)
PR8210LineIsBelieved == pr8210_bPlayerBusy => (pr8210_line <=> pr8210_bStandByRaised)

(* The player jumps a track exactly when, of the lines as they were        *)
(* reported since the last reset, "external and trigger low" becomes true, *)
(* in the direction that scan C has then, whichever of the two changed.    *)
PR8210Triggered(pins) == ~pins.internal /\ ~pins.trigger
PR8210JumpsOnEdge ==
  [][\A dir \in {-1, 1} : Call("skip", dir) \in ToSet(PR8210Called') <=>
       /\ ~PR8210Triggered(pr8210_pins) /\ PR8210Triggered(pr8210_pins')
       /\ dir = IF pr8210_pins'.scanC THEN 1 ELSE -1
    ]_<<playerVars, pr8210_vars>>

(* The stand-by line stops blinking, whatever the host sends, unless that  *)
(* is another search.                                                      *)
PR8210JustBegun == \E i \in DOMAIN PR8210Called : PR8210Called[i].cb = "begin_search"
PR8210BlinkingEnds ==
  pr8210_bPlayerBusy ~> (~pr8210_bPlayerBusy \/ PR8210JustBegun)
=============================================================================
