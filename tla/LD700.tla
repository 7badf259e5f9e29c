------------------------------- MODULE LD700 -------------------------------
(***************************************************************************)
(* The Pioneer LD-700 interpreter (src/src/ld700-interpreter.c): a decoder *)
(* of four-byte remote-control frames  A8 57 c ~c,  the commands it turns  *)
(* into callbacks to the player, and the EXT_ACK' line it drives from the  *)
(* vertical blank.                                                         *)
(*                                                                         *)
(* Three parties act: the host computer writes bytes, the vertical blank   *)
(* ticks, and the player changes its status on its own.  The status the    *)
(* caller passes to ld700i_write and ld700i_on_vblank is the variable disc.*)
(***************************************************************************)
EXTENDS Integers, Sequences

CONSTANTS
  Bytes,      \* the bytes the host may write
  Statuses    \* the player statuses that may be reported

AllStatuses == {"ERROR", "SEARCHING", "STOPPED", "PLAYING", "PAUSED",
                "SPINNING_UP", "TRAY_EJECTED"}

ASSUME ConstantsAssumption ==
  /\ Bytes \subseteq 0..255
  /\ Statuses \subseteq AllStatuses
  /\ Statuses # {}

VARIABLES
  cmdState,   \* which byte of a frame is expected next
  state,      \* whether a frame number or an escaped command is being entered
  frame,      \* the frame number keyed in so far
  frameIdx,   \* how many digits it has
  timeout,    \* vblanks during which a repeated command is a duplicate
  newCmd,     \* a command was executed since the last vblank
  extAck,     \* the value of EXT_ACK' the interpreter believes in
  queued,     \* the command byte of the frame being received
  last,       \* the last command executed
  line,       \* the value of EXT_ACK' the implementor was last told
  disc,       \* the player's status
  calls       \* the player callbacks made by the latest step

decoder == <<cmdState, queued>>
digits == <<frame, frameIdx>>
ack == <<newCmd, extAck, line>>
vars == <<cmdState, state, frame, frameIdx, timeout, newCmd, extAck, queued,
          last, line, disc, calls>>
-----------------------------------------------------------------------------
(* Bytes and limits of the protocol. *)
Prefix == 168                   \* 0xA8
PrefixCheck == 87               \* 0x57
Window == 4                     \* vblanks a duplicate is recognised for
MaxDigits == 5
NoCommand == 255                \* the value of last after a reset

Complement(b) == 255 - b        \* b ^ 0xFF of a byte

CmdReject == 22                 \* 0x16
CmdPlay == 23                   \* 0x17
CmdPause == 24                  \* 0x18
CmdFrame == 65                  \* 0x41
CmdSearch == 66                 \* 0x42
CmdRight == 73                  \* 0x49
CmdStereo == 74                 \* 0x4A
CmdLeft == 75                   \* 0x4B
CmdStepReverse == 80            \* 0x50
CmdStepForward == 84            \* 0x54
CmdEscape == 95                 \* 0x5F
EscShowCharacters == 7          \* 0x5F 0x07

Digits == 0..9
SilentEscapes == 2..7           \* escaped commands accepted and not supported

Call(cb, arg) == [cb |-> cb, arg |-> arg]
Error(code) == Call("error", code)
UnknownByte == Error(0)         \* LD700_ERR_UNKNOWN_CMD_BYTE
TooManyDigits == Error(2)       \* LD700_ERR_TOO_MANY_DIGITS
Unhandled == Error(3)           \* LD700_ERR_UNHANDLED_SITUATION

(* Commands that only make one callback: which one.  The argument of       *)
(* change_audio is 1 for left, 2 for right, 3 for both; of step, 1 when    *)
(* backward.                                                               *)
OneCall == {CmdPlay, CmdPause, CmdRight, CmdStereo, CmdLeft, CmdStepReverse,
            CmdStepForward}
CallOf(c) ==
  CASE c = CmdPlay -> Call("play", 0)
    [] c = CmdPause -> Call("pause", 0)
    [] c = CmdRight -> Call("change_audio", 2)
    [] c = CmdStereo -> Call("change_audio", 3)
    [] c = CmdLeft -> Call("change_audio", 1)
    [] c = CmdStepReverse -> Call("step", 1)
    [] c = CmdStepForward -> Call("step", 0)

KnownCommands == Digits \cup OneCall \cup {CmdReject, CmdFrame, CmdSearch, CmdEscape}

(* The callbacks of 0x16, reject: stop a disc that turns, eject a disc     *)
(* that does not.                                                          *)
RejectCalls ==
  CASE disc \in {"PLAYING", "PAUSED"} -> <<Call("stop", 0)>>
    [] disc = "STOPPED" -> <<Call("eject", 0)>>
    [] disc = "TRAY_EJECTED" -> <<>>
    [] OTHER -> <<Unhandled>>
-----------------------------------------------------------------------------
(* ld700i_reset: every variable gets its default, and the implementor is   *)
(* told that the line is inactive whatever it was before.  The implementor *)
(* resets the interpreter before it uses it.                               *)
Init ==
  /\ frame = 0 /\ frameIdx = 0
  /\ timeout = 0
  /\ newCmd = FALSE
  /\ extAck = FALSE /\ line = FALSE
  /\ cmdState = "PREFIX"
  /\ queued = 0
  /\ last = NoCommand
  /\ state = "NORMAL"
  /\ disc \in Statuses
  /\ calls = <<>>

ResetFrame == frame' = 0 /\ frameIdx' = 0

ForgetCommand == last' = NoCommand /\ state' = "NORMAL"

Reset ==
  /\ ResetFrame
  /\ timeout' = 0
  /\ newCmd' = FALSE
  /\ extAck' = FALSE /\ line' = FALSE
  /\ cmdState' = "PREFIX"
  /\ queued' = 0
  /\ ForgetCommand
  /\ calls' = <<>>
  /\ UNCHANGED disc

(* ld700i_change_ext_ack: the callback is made only when the value changes.*)
ChangeExtAck(active) ==
  /\ extAck' = active
  /\ line' = IF extAck # active THEN active ELSE line
-----------------------------------------------------------------------------
(* ld700i_write.  The byte of a frame that is in its place and does not    *)
(* complete the frame is only remembered; while the window is open it      *)
(* keeps it open.                                                          *)
LetWindowClose == UNCHANGED timeout                              \* mutant
KeepWindowOpen == timeout' = IF timeout # 0 THEN Window ELSE timeout

AcceptPrefix(b) ==
  /\ \/ cmdState = "PREFIX" /\ b = Prefix /\ cmdState' = "PREFIX_XOR"
     \/ cmdState = "PREFIX_XOR" /\ b = PrefixCheck /\ cmdState' = "CMD"
  /\ KeepWindowOpen
  /\ calls' = <<>>
  /\ UNCHANGED <<state, digits, ack, queued, last, disc>>

QueueCommand(b) ==
  /\ cmdState = "CMD"
  /\ cmdState' = "CMD_XOR"
  /\ queued' = b
  /\ KeepWindowOpen
  /\ calls' = <<>>
  /\ UNCHANGED <<state, digits, ack, last, disc>>

(* The fourth byte is not the complement of the third: the frame is void.  *)
RejectFrame(b) ==
  /\ cmdState = "CMD_XOR"
  /\ b # Complement(queued)
  /\ cmdState' = "PREFIX"
  /\ calls' = <<UnknownByte>>
  /\ UNCHANGED <<state, digits, timeout, ack, queued, last, disc>>

(* The byte after which the code goes on to act on queued: the right       *)
(* fourth byte, or a wrong first or second byte, whose error handling sets *)
(* the decoder back to PREFIX and falls through to the command.            *)
BadPrefix(b) == \/ cmdState = "PREFIX" /\ b # Prefix
                \/ cmdState = "PREFIX_XOR" /\ b # PrefixCheck
CompletesUnchecked(b) == cmdState = "CMD_XOR" \/ BadPrefix(b)     \* mutant
Completes(b) == \/ cmdState = "CMD_XOR" /\ b = Complement(queued)
                \/ BadPrefix(b)
ErrorsOf(b) == IF BadPrefix(b) THEN <<UnknownByte>> ELSE <<>>

IsDuplicate == queued = last /\ timeout # 0

DropDuplicate(b) ==
  /\ Completes(b)
  /\ IsDuplicate
  /\ cmdState' = "PREFIX"
  /\ timeout' = Window
  /\ calls' = ErrorsOf(b)
  /\ UNCHANGED <<state, digits, ack, queued, last, disc>>

(* What every executed command does around its own effect.                 *)
ReopenClosedWindow(rearm) ==                                     \* mutant
  timeout' = IF rearm /\ timeout = 0 THEN Window ELSE timeout
OpenWindow(rearm) == timeout' = IF rearm THEN Window ELSE timeout

Accept(b, made, rearm) ==
  /\ cmdState' = "PREFIX"
  /\ newCmd' = TRUE
  /\ last' = queued
  /\ OpenWindow(rearm)
  /\ calls' = ErrorsOf(b) \o made
  /\ UNCHANGED <<extAck, line, queued, disc>>

Digit(b) ==
  /\ queued \in Digits
  /\ IF frameIdx < MaxDigits
       THEN /\ frame' = frame * 10 + queued
            /\ frameIdx' = frameIdx + 1
            /\ Accept(b, <<>>, TRUE)
       ELSE /\ UNCHANGED digits
            /\ Accept(b, <<TooManyDigits>>, TRUE)
  /\ UNCHANGED state

RejectDisc(b) ==
  /\ queued = CmdReject
  /\ Accept(b, RejectCalls, FALSE)
  /\ UNCHANGED <<state, digits>>

CallPlayer(b) ==
  /\ queued \in OneCall
  /\ Accept(b, <<CallOf(queued)>>, queued # CmdStereo \/ disc # "TRAY_EJECTED")
  /\ UNCHANGED <<state, digits>>

EnterFrame(b) ==
  /\ queued = CmdFrame
  /\ state' = "FRAME"
  /\ Accept(b, <<>>, TRUE)
  /\ UNCHANGED digits

BeginSearch(b) ==
  /\ queued = CmdSearch
  /\ state' = "NORMAL"
  /\ ResetFrame
  /\ Accept(b, <<Call("begin_search", frame)>>, TRUE)

Escape(b) ==
  /\ queued = CmdEscape
  /\ state' = "ESCAPED"
  /\ Accept(b, <<>>, FALSE)
  /\ UNCHANGED digits

UnknownCommand(b) ==
  /\ queued \notin KnownCommands
  /\ Accept(b, <<UnknownByte>>, TRUE)
  /\ UNCHANGED <<state, digits>>

EscapedCommand(b) ==
  /\ state' = "NORMAL"
  /\ Accept(b, IF queued \in SilentEscapes THEN <<>> ELSE <<UnknownByte>>,
            queued # EscShowCharacters)
  /\ UNCHANGED digits

Execute(b) ==
  /\ Completes(b)
  /\ ~IsDuplicate
  /\ \/ /\ state # "ESCAPED"
        /\ \/ Digit(b) \/ RejectDisc(b) \/ CallPlayer(b) \/ EnterFrame(b)
           \/ BeginSearch(b) \/ Escape(b) \/ UnknownCommand(b)
     \/ state = "ESCAPED" /\ EscapedCommand(b)

Write(b) == \/ AcceptPrefix(b) \/ QueueCommand(b) \/ RejectFrame(b)
            \/ DropDuplicate(b) \/ Execute(b)
-----------------------------------------------------------------------------
(* ld700i_on_vblank.  The state SEARCHING its switch handles is never      *)
(* entered, so that switch does nothing.                                   *)
Busy == disc \in {"SEARCHING", "SPINNING_UP"}

CountDownBelowZero == timeout' = timeout - 1                     \* mutant
WindowStaysOpen == UNCHANGED timeout                             \* mutant
CountDown == timeout' = IF timeout # 0 THEN timeout - 1 ELSE 0

VBlank ==
  /\ newCmd' = FALSE
  /\ ChangeExtAck(~newCmd /\ (timeout # 0 \/ Busy))
  /\ CountDown
  /\ calls' = <<>>
  /\ UNCHANGED <<cmdState, state, digits, queued, last, disc>>

(* The player changes status on its own or because of a callback.          *)
DiscMoves ==
  /\ disc' \in Statuses \ {disc}
  /\ calls' = <<>>
  /\ UNCHANGED <<decoder, state, digits, timeout, ack, last>>

Next == \/ Reset
        \/ \E b \in Bytes : Write(b)
        \/ VBlank
        \/ DiscMoves

Spec == Init /\ [][Next]_vars
-----------------------------------------------------------------------------
CmdStates == {"PREFIX", "PREFIX_XOR", "CMD", "CMD_XOR"}
Callbacks == {"play", "pause", "stop", "eject", "step", "begin_search",
              "change_audio", "error"}
CallRecord == [cb : Callbacks, arg : Nat]
Pow10 == [i \in 0..MaxDigits |->
            CASE i = 0 -> 1 [] i = 1 -> 10 [] i = 2 -> 100 [] i = 3 -> 1000
              [] i = 4 -> 10000 [] i = 5 -> 100000]

(* Every variable has its C type's values that the code can give it.       *)
TypeOK ==
  /\ cmdState \in CmdStates
  /\ state \in {"NORMAL", "ESCAPED", "FRAME"}
  /\ frame \in Nat
  /\ frameIdx \in 0..MaxDigits
  /\ timeout \in 0..Window
  /\ newCmd \in BOOLEAN /\ extAck \in BOOLEAN /\ line \in BOOLEAN
  /\ queued \in 0..255
  /\ last \in 0..255
  /\ disc \in AllStatuses
  /\ calls \in Seq(CallRecord)

(* The EXT_ACK' value cached in g_ld700i_bExtAckActive, which suppresses    *)
(* the callback when nothing changes, is always what the implementor was   *)
(* last told, resets included.                                             *)
LineIsWhatWeBelieve == line = extAck

(* The frame number never has more digits than frameIdx counts, whatever   *)
(* mixture of digits, searches and resets the host sends: a stale digit    *)
(* left behind by a search would break it.                                 *)
DigitsCounted == frame < Pow10[frameIdx]

(* Between an escape command and its argument only duplicates can come:    *)
(* while the interpreter waits for the argument, the last command executed *)
(* is the escape itself.                                                   *)
EscapeIsLast == state = "ESCAPED" => last = CmdEscape

(* A command that acknowledges opens the full duplicate window, and no     *)
(* vblank eats into it before the vblank that pulses the line: as long as  *)
(* the new-command flag is up the window is whole.                         *)
Unacknowledged == {CmdReject, CmdEscape, CmdStereo, EscShowCharacters}
FreshCommandHasWholeWindow ==
  newCmd /\ last \notin Unacknowledged => timeout = Window
=============================================================================
