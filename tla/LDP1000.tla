------------------------------ MODULE LDP1000 ------------------------------
(***************************************************************************)
(* The Sony LDP-1000A / LDP-1450 interpreter (src/src/ldp1000-interpreter.c*)
(* ): one-byte commands and ASCII digits from the host, an ENTER whose     *)
(* meaning depends on the command before it, and the vertical blank, which *)
(* watches a search or a repeat and reports its end.  The user index       *)
(* (0x80..0x82) is the module LDP1000UIC; the queue the replies go through *)
(* is TxRing.                                                              *)
(*                                                                         *)
(* The player is not part of the repository.  What it does when called is  *)
(* modelled from how the interpreter uses it: begin_search returns at once *)
(* and the status says SEARCHING until it says PAUSED.                     *)
(***************************************************************************)
EXTENDS Integers, Sequences

CONSTANTS
  Bytes,          \* the bytes the host may write
  Is1450,         \* the emulated player is an LDP-1450
  LastFrame,      \* the last frame of the disc
  Faulty,         \* a search of the player may fail
  KeyedLimit,     \* bound: how many digits the host keys in a row
  SpeedLimit      \* bound: how many, if it keys the same digit as a speed

ASSUME LDP1000Assumption ==
  /\ Bytes \subseteq 0..255
  /\ Is1450 \in BOOLEAN
  /\ LastFrame \in Nat
  /\ Faulty \in BOOLEAN
  /\ KeyedLimit \in Nat /\ SpeedLimit \in Nat

VARIABLES
  state,          \* what the next ENTER is for
  frame,          \* the number keyed in so far
  frameIdx,       \* how many digits it has
  reversed,       \* direction of the variable speed play or of the repeat
  searchActive,   \* begin_search was called and its end not yet seen
  repeatActive,   \* a segment is being repeated
  repStart,       \* first frame of the segment
  repEnd,         \* its last frame
  iterations,     \* how often it is still to be played, 0 for ever
  disc,           \* the player's status
  pos,            \* the frame the player shows
  goal,           \* the frame it searches
  back,           \* it plays backwards
  calls,          \* the callbacks the latest step made
  replies         \* the words the latest step pushed

number == <<frame, frameIdx>>
search == <<searchActive>>
repeat == <<repeatActive, repStart, repEnd, iterations>>
player == <<disc, pos, goal, back>>
vars == <<state, number, reversed, search, repeat, player, calls, replies>>
-----------------------------------------------------------------------------
Ack == 10                       \* 0x0A
Nak == 11                       \* 0x0B
Result == 1                     \* a search, a skip or a repeat is complete

MaxDigits == 5
DigitBytes == 48..57            \* 0x30..0x39
SkipForward == 45               \* 0x2D
SkipBackward == 46              \* 0x2E
VarForward == 61                \* 0x3D
Stop == 63                      \* 0x3F
Enter == 64                     \* 0x40
ClearEntry == 65                \* 0x41
Search == 67                    \* 0x43
Repeat == 68                    \* 0x44
VarReverse == 77                \* 0x4D
ClearAll == 86                  \* 0x56
FrameInquiry == 96              \* 0x60
MotorOn == 98                   \* 0x62
StatusInquiry == 103            \* 0x67
UserIndex == 128..130           \* 0x80..0x82, see LDP1000UIC
Unsupported == {36, 37}         \* 0x24 0x25: acknowledged, reported
Stubs == {40, 41, 80, 81, 85, 110, 111}  \* acknowledged, ignored

Call(cb, args) == [cb |-> cb, args |-> args]
Play(num, den, rev, mute) == Call("play", <<num, den, rev, mute>>)
Pause == Call("pause", <<>>)
Bit(b) == IF b THEN 1 ELSE 0
Error(code) == Call("error", <<code>>)

(* Commands that make one callback and acknowledge: which callback.        *)
CallOf(b) ==
  CASE b = 38 -> Call("change_video", <<0>>)        \* 0x26
    [] b = 39 -> Call("change_video", <<1>>)        \* 0x27
    [] b = 43 -> Call("step_forward", <<>>)         \* 0x2B
    [] b = 44 -> Call("step_reverse", <<>>)         \* 0x2C
    [] b = 58 -> Play(1, 1, 0, 0)                   \* 0x3A
    [] b = 59 -> Play(3, 1, 0, 1)                   \* 0x3B
    [] b = 60 -> Play(1, 5, 0, 1)                   \* 0x3C
    [] b = 70 -> Call("change_audio", <<0, 1>>)     \* 0x46
    [] b = 71 -> Call("change_audio", <<0, 0>>)     \* 0x47
    [] b = 72 -> Call("change_audio", <<1, 1>>)     \* 0x48
    [] b = 73 -> Call("change_audio", <<1, 0>>)     \* 0x49
    [] b = 74 -> Play(1, 1, 1, 1)                   \* 0x4A
    [] b = 75 -> Play(3, 1, 1, 1)                   \* 0x4B
    [] b = 76 -> Play(1, 5, 1, 1)                   \* 0x4C
    [] b = 79 -> Pause                              \* 0x4F
OneCall == {38, 39, 43, 44, 58, 59, 60, 70, 71, 72, 73, 74, 75, 76, 79}

Known == DigitBytes \cup OneCall \cup Unsupported \cup Stubs \cup UserIndex \cup
         {SkipForward, SkipBackward, VarForward, Stop, Enter, ClearEntry, Search,
          Repeat, VarReverse, ClearAll, FrameInquiry, MotorOn, StatusInquiry}

(* The conversions the C types make.                                       *)
Uint8(n) == n % 256
Int16(n) == ((n + 32768) % 65536) - 32768
-----------------------------------------------------------------------------
(* The player, as the callbacks leave it.                                  *)
Clamp(f) == IF f < 0 THEN 0 ELSE IF f > LastFrame THEN LastFrame ELSE f

PlayerObeys(c) ==
  /\ disc' = CASE c.cb = "play" -> "PLAYING"
               [] c.cb = "begin_search" -> "SEARCHING"
               [] c.cb \in {"pause", "skip", "step_forward", "step_reverse"} -> "PAUSED"
               [] OTHER -> disc
  /\ pos' = CASE c.cb = "skip" -> Clamp(pos + c.args[1])
              [] c.cb = "step_forward" -> Clamp(pos + 1)
              [] c.cb = "step_reverse" -> Clamp(pos - 1)
              [] OTHER -> pos
  /\ goal' = IF c.cb = "begin_search" THEN c.args[1] ELSE goal
  /\ back' = IF c.cb = "play" THEN c.args[3] = 1 ELSE back

(* A handler that makes one callback and pushes some words.                *)
Do(c, words) == calls' = <<c>> /\ replies' = words /\ PlayerObeys(c)
Answer(words) == calls' = <<>> /\ replies' = words /\ UNCHANGED player

ResetFrame == frame' = 0 /\ frameIdx' = 0
-----------------------------------------------------------------------------
Init ==
  /\ state = "NORMAL"
  /\ frame = 0 /\ frameIdx = 0
  /\ reversed = FALSE
  /\ searchActive = FALSE /\ repeatActive = FALSE
  /\ repStart = 0 /\ repEnd = 0
  /\ iterations = 0
  /\ disc = "PAUSED" /\ pos = 0 /\ goal = 0 /\ back = FALSE
  /\ calls = <<>> /\ replies = <<>>

(* ldp1000i_reset says nothing to the player.                              *)
Reset ==
  /\ state' = "NORMAL"
  /\ ResetFrame
  /\ reversed' = FALSE
  /\ searchActive' = FALSE /\ repeatActive' = FALSE
  /\ repStart' = 0 /\ repEnd' = 0
  /\ iterations' = 0
  /\ Answer(<<>>)
-----------------------------------------------------------------------------
(* ldp1000i_write, outside the user index mode, one action per command.    *)
CallPlayer(b) ==
  /\ b \in OneCall
  /\ Do(CallOf(b), <<Ack>>)
  /\ UNCHANGED <<state, number, reversed, search, repeat>>

(* A bound of the model: the host stops keying.                            *)
MayKey(d) ==
  \/ frameIdx < KeyedLimit
  \/ state = "WAIT_VARIABLE_SPEED" /\ frame % 10 = d /\ frameIdx < SpeedLimit

RoomForDigit == frameIdx < MaxDigits

Digit(b) ==
  /\ b \in DigitBytes
  /\ MayKey(b - 48)
  /\ IF RoomForDigit
       THEN /\ frame' = frame * 10 + (b - 48)
            /\ frameIdx' = frameIdx + 1
            /\ Answer(<<Ack>>)
       ELSE /\ UNCHANGED number
            /\ Do(Error(2), <<Nak>>)            \* LDP1000_ERR_TOO_MANY_DIGITS
  /\ UNCHANGED <<state, reversed, search, repeat>>

BeginSkip(b) ==
  /\ \/ b = SkipForward /\ state' = "SKIP_FORWARD"
     \/ b = SkipBackward /\ state' = "SKIP_BACKWARD"
  /\ ResetFrame
  /\ Do(Pause, <<Ack>>)
  /\ UNCHANGED <<reversed, search, repeat>>

BeginVariableSpeed(b) ==
  /\ b \in {VarForward, VarReverse}
  /\ state' = "WAIT_VARIABLE_SPEED"
  /\ reversed' = (b = VarReverse)
  /\ ResetFrame
  /\ Do(Play(1, 7, Bit(b = VarReverse), 1), <<Ack>>)
  /\ UNCHANGED <<search, repeat>>

RepeatOn == UNCHANGED repeatActive                              \* mutant
RepeatOff == repeatActive' = FALSE

BeginSearch(b) ==
  /\ b = Search
  /\ state' = "WAIT_SEARCH"
  /\ ResetFrame
  /\ RepeatOff
  /\ Do(Pause, <<Ack>>)
  /\ UNCHANGED <<reversed, search, repStart, repEnd, iterations>>

BeginRepeat(b) ==
  /\ b = Repeat
  /\ state' = "REPEAT0_WAIT_END_FRAME"
  /\ repStart' = pos
  /\ ResetFrame
  /\ Do(Pause, <<Ack>>)
  /\ UNCHANGED <<reversed, search, repeatActive, repEnd, iterations>>

ClearNumber(b) ==
  /\ b \in {ClearEntry, ClearAll}
  /\ state' = "NORMAL"
  /\ ResetFrame
  /\ Answer(<<Ack>>)
  /\ UNCHANGED <<reversed, search, repeat>>

(* ENTER.  The states after a skip and after a repeat count are not left.  *)
RepeatPlay == Play(1, 1, Bit(reversed), Bit(reversed))

EnterSearch(b) ==
  /\ b = Enter /\ state = "WAIT_SEARCH"
  /\ Do(Call("begin_search", <<frame>>), <<Ack>>)
  /\ searchActive' = TRUE
  /\ state' = "NORMAL"
  /\ UNCHANGED <<number, reversed, repeat>>

KeepDirection == UNCHANGED reversed                              \* mutant
TakeDirection == reversed' = (frame < repStart)

EnterRepeatEnd(b) ==
  /\ b = Enter /\ state = "REPEAT0_WAIT_END_FRAME"
  /\ repEnd' = frame
  /\ TakeDirection
  /\ ResetFrame
  /\ state' = "REPEAT1_WAIT_COUNT"
  /\ Answer(<<Ack>>)
  /\ UNCHANGED <<search, repeatActive, repStart, iterations>>

EnterRepeatCount(b) ==
  /\ b = Enter /\ state = "REPEAT1_WAIT_COUNT"
  /\ iterations' = IF frameIdx # 0 THEN Uint8(frame) ELSE 1
  /\ repeatActive' = TRUE
  /\ Do(RepeatPlay, <<Ack>>)
  /\ UNCHANGED <<state, number, reversed, search, repStart, repEnd>>

EnterSpeed(b) ==
  /\ b = Enter /\ state = "WAIT_VARIABLE_SPEED"
  /\ \/ frame = 0 /\ Do(Pause, <<Ack>>)
     \/ frame \in 1..255 /\ Do(Play(1, frame, Bit(reversed), 1), <<Ack>>)
     \/ frame > 255 /\ Answer(<<Nak>>)
  /\ state' = "NORMAL"
  /\ UNCHANGED <<number, reversed, search, repeat>>

EnterSkip(b) ==
  /\ b = Enter
  /\ \/ state = "SKIP_FORWARD" /\ Do(Call("skip", <<Int16(frame)>>), <<Ack, Result>>)
     \/ /\ state = "SKIP_BACKWARD"
        /\ Do(Call("skip", <<Int16(-Int16(frame))>>), <<Ack, Result>>)
  /\ UNCHANGED <<state, number, reversed, search, repeat>>

EnterNothing(b) ==
  /\ b = Enter /\ state = "NORMAL"
  /\ Do(Error(0), <<>>)
  /\ UNCHANGED <<state, number, reversed, search, repeat>>

(* Inquiries.  The frame number as five digits, most significant first.    *)
FrameDigits == LET d(n) == 48 + ((pos \div n) % 10)
               IN <<d(10000), d(1000), d(100), d(10), d(1)>>

StatusBytes ==
  <<IF disc = "SEARCHING" THEN 192 ELSE 128, 0, 16,
    IF state = "WAIT_SEARCH" THEN 3 ELSE 0,
    CASE disc = "PLAYING" -> 1 [] disc = "SEARCHING" -> 0 [] OTHER -> 32>>

Inquire(b) ==
  /\ \/ b = FrameInquiry /\ Answer(FrameDigits)
     \/ b = StatusInquiry /\ IF Is1450 THEN Answer(StatusBytes) ELSE Do(Error(1), <<>>)
     \/ b = MotorOn /\ Answer(<<Nak>>)
  /\ UNCHANGED <<state, number, reversed, search, repeat>>

(* Commands that only answer.                                              *)
AnswerOnly(b) ==
  /\ \/ b \in Stubs /\ Answer(<<Ack>>)
     \/ b \in Unsupported \cup {Stop} /\ Do(Error(1), <<Ack>>)
     \/ b \notin Known /\ Do(Error(0), <<Nak>>)
  /\ UNCHANGED <<state, number, reversed, search, repeat>>

Write(b) ==
  \/ CallPlayer(b) \/ Digit(b) \/ BeginSkip(b) \/ BeginVariableSpeed(b)
  \/ BeginSearch(b) \/ BeginRepeat(b) \/ ClearNumber(b) \/ EnterSearch(b)
  \/ EnterRepeatEnd(b) \/ EnterRepeatCount(b) \/ EnterSpeed(b) \/ EnterSkip(b)
  \/ EnterNothing(b) \/ Inquire(b) \/ AnswerOnly(b)
-----------------------------------------------------------------------------
(* ldp1000i_think_during_vblank, case by case.                             *)
SearchStaysOn == UNCHANGED searchActive                         \* mutant
SearchOff == searchActive' = FALSE

SearchEndsTold ==                                               \* mutant
  /\ searchActive /\ disc = "PAUSED"
  /\ SearchOff
  /\ IF repeatActive THEN Do(RepeatPlay, <<Result>>) ELSE Answer(<<Result>>)
  /\ UNCHANGED <<repeat>>

SearchEnds ==
  /\ searchActive /\ disc = "PAUSED"
  /\ SearchOff
  /\ \/ ~repeatActive /\ Answer(<<Result>>)
     \/ repeatActive /\ Do(RepeatPlay, <<>>)
  /\ UNCHANGED <<repeat>>

SearchGoesOn ==
  /\ searchActive /\ disc = "SEARCHING"
  /\ Answer(<<>>)
  /\ UNCHANGED <<search, repeat>>

SearchUnexpected ==
  /\ searchActive /\ disc \notin {"PAUSED", "SEARCHING"}
  /\ Do(Error(3), <<>>)                 \* LDP1000_ERR_UNHANDLED_SITUATION
  /\ UNCHANGED <<search, repeat>>

SegmentPassed == IF reversed THEN pos < repEnd ELSE pos > repEnd   \* mutant
SegmentEnded == IF reversed THEN pos <= repEnd ELSE pos >= repEnd

TwoLapsLeft == iterations = 2                                   \* mutant
OneLapLeft == iterations = 1

CountBelowZero == iterations' = iterations - 1                  \* mutant
CountLap == iterations' = IF iterations > 0 THEN iterations - 1 ELSE 0

LastLap ==
  /\ ~searchActive /\ repeatActive /\ SegmentEnded
  /\ OneLapLeft
  /\ Do(Pause, <<Result>>)
  /\ RepeatOff
  /\ UNCHANGED <<search, repStart, repEnd, iterations>>

NextLap ==
  /\ ~searchActive /\ repeatActive /\ SegmentEnded
  /\ ~OneLapLeft
  /\ Do(Call("begin_search", <<repStart>>), <<>>)
  /\ searchActive' = TRUE
  /\ CountLap
  /\ UNCHANGED <<repeatActive, repStart, repEnd>>

NothingToDo ==
  /\ ~searchActive
  /\ repeatActive => ~SegmentEnded
  /\ Answer(<<>>)
  /\ UNCHANGED <<search, repeat>>

VBlank ==
  /\ \/ SearchEnds \/ SearchGoesOn \/ SearchUnexpected
     \/ LastLap \/ NextLap \/ NothingToDo
  /\ UNCHANGED <<state, number, reversed>>
-----------------------------------------------------------------------------
(* What the player does by itself.                                         *)
interpreter == <<state, number, reversed, search, repeat>>

SeekDone ==
  /\ disc = "SEARCHING"
  /\ goal <= LastFrame
  /\ disc' = "PAUSED" /\ pos' = goal
  /\ calls' = <<>> /\ replies' = <<>>
  /\ UNCHANGED <<interpreter, goal, back>>

SeekFails ==
  /\ disc = "SEARCHING"
  /\ Faulty \/ goal > LastFrame
  /\ disc' = "ERROR"
  /\ calls' = <<>> /\ replies' = <<>>
  /\ UNCHANGED <<interpreter, pos, goal, back>>

Roll ==
  /\ disc = "PLAYING"
  /\ pos' = Clamp(IF back THEN pos - 1 ELSE pos + 1)
  /\ pos' # pos
  /\ calls' = <<>> /\ replies' = <<>>
  /\ UNCHANGED <<interpreter, disc, goal, back>>

PlayerMoves == SeekDone \/ SeekFails \/ Roll

Next == \/ Reset
        \/ \E b \in Bytes : Write(b)
        \/ VBlank
        \/ PlayerMoves

Spec == Init /\ [][Next]_vars
-----------------------------------------------------------------------------
States == {"NORMAL", "WAIT_SEARCH", "REPEAT0_WAIT_END_FRAME",
           "REPEAT1_WAIT_COUNT", "WAIT_VARIABLE_SPEED", "SKIP_FORWARD",
           "SKIP_BACKWARD"}
Callbacks == {"play", "pause", "begin_search", "step_forward", "step_reverse", "skip",
              "change_audio", "change_video", "error"}
PlayerStates == {"PAUSED", "PLAYING", "SEARCHING", "ERROR"}
Pow10 == [i \in 0..MaxDigits |->
            CASE i = 0 -> 1 [] i = 1 -> 10 [] i = 2 -> 100 [] i = 3 -> 1000
              [] i = 4 -> 10000 [] i = 5 -> 100000]

(* Every variable has its C type's values that the code can give it.       *)
TypeOK ==
  /\ state \in States
  /\ frame \in Nat /\ frameIdx \in 0..MaxDigits
  /\ reversed \in BOOLEAN /\ searchActive \in BOOLEAN /\ repeatActive \in BOOLEAN
  /\ repStart \in Nat /\ repEnd \in Nat
  /\ iterations \in 0..255
  /\ disc \in PlayerStates
  /\ pos \in 0..LastFrame /\ goal \in Nat /\ back \in BOOLEAN
  /\ calls \in Seq([cb : Callbacks, args : Seq(Int)])
  /\ replies \in Seq(0..255)

(* The number keyed in never has more digits than were keyed since the     *)
(* command that reset it, so that no search, repeat, speed or skip uses    *)
(* digits of an earlier one.                                               *)
DigitsCounted == frame < Pow10[frameIdx]

(* A search command cancels the repeat for good: from 0x43 to its ENTER    *)
(* nothing, no vblank of the old repeat either, can make the repeat active *)
(* again.                                                                  *)
SearchCancelsRepeat == state = "WAIT_SEARCH" => ~repeatActive

(* A repeat with a count never turns into the endless one by counting      *)
(* down.                                                                   *)
CountNeverWraps ==
  [][VBlank /\ repeatActive /\ iterations # 0 => iterations' # 0]_vars
=============================================================================
