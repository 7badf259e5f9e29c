--------------------------- MODULE LDP1000Proofs ---------------------------
(***************************************************************************)
(* Proofs that the invariants of LDP1000 hold for every set of bytes the   *)
(* host may write, patient or not, every disc and a faulty player or none, *)
(* and, of a patient host, what LDP1000Host says of the result code.       *)
(***************************************************************************)
EXTENDS LDP1000Host, TLAPS

CallRecord == [cb : Callbacks, args : Seq(Int)]

(* A call that the player can obey: one that carries a number where it is  *)
(* used.                                                                   *)
Callable(c) ==
  /\ c \in CallRecord
  /\ c.cb = "skip" => c.args[1] \in Int
  /\ c.cb = "begin_search" => c.args[1] \in Nat

(* The two halves of TypeOK: what the commands and the vertical blank      *)
(* assign, and what follows from the calls and replies they make.          *)
InterpreterTyped ==
  /\ state \in States
  /\ frame \in Nat /\ frameIdx \in 0..MaxDigits
  /\ reversed \in BOOLEAN /\ searchActive \in BOOLEAN /\ repeatActive \in BOOLEAN
  /\ repStart \in Nat /\ repEnd \in Nat
  /\ iterations \in 0..255
OutcomeTyped ==
  /\ disc \in PlayerStates
  /\ pos \in 0..LastFrame /\ goal \in Nat /\ back \in BOOLEAN
  /\ calls \in Seq(CallRecord)
  /\ replies \in Seq(0..255)

LEMMA TypedIsBoth ==
  /\ TypeOK <=> InterpreterTyped /\ OutcomeTyped
  /\ TypeOK' <=> InterpreterTyped' /\ OutcomeTyped'
  BY DEF TypeOK, InterpreterTyped, OutcomeTyped, CallRecord
-----------------------------------------------------------------------------
(* The frame the player shows is a frame of the disc.                      *)
LEMMA ClampTyped == \A f \in Int : Clamp(f) \in 0..LastFrame
  BY LDP1000Assumption DEF Clamp

(* Words of up to five bytes are sequences of bytes.                       *)
LEMMA WordsTyped ==
  /\ <<>> \in Seq(0..255) /\ <<Ack>> \in Seq(0..255) /\ <<Nak>> \in Seq(0..255)
  /\ <<Result>> \in Seq(0..255) /\ <<Ack, Result>> \in Seq(0..255)
  BY DEF Ack, Nak, Result

(* A handler that makes a callable call leaves the player typed.           *)
LEMMA DoTyped ==
  ASSUME TypeOK, NEW c, Callable(c), NEW words \in Seq(0..255), Do(c, words)
  PROVE  OutcomeTyped'
  <1>1. calls' \in Seq(CallRecord) /\ replies' \in Seq(0..255)
    BY DEF Do, Callable
  <1>2. disc' \in PlayerStates
    BY DEF Do, PlayerObeys, PlayerStates, TypeOK
  <1>3. pos' \in 0..LastFrame
    <2>1. pos \in Int /\ pos + 1 \in Int /\ pos - 1 \in Int
      BY LDP1000Assumption DEF TypeOK
    <2>2. c.cb = "skip" => pos + c.args[1] \in Int
      BY <2>1 DEF Callable
    <2>3. QED
      BY <2>1, <2>2, ClampTyped DEF Do, PlayerObeys, TypeOK
  <1>4. goal' \in Nat
    BY DEF Do, PlayerObeys, Callable, TypeOK
  <1>5. back' \in BOOLEAN
    BY Zenon DEF Do, PlayerObeys, TypeOK
  <1>6. QED
    BY <1>1, <1>2, <1>3, <1>4, <1>5 DEF OutcomeTyped

(* So does one that only answers.                                          *)
LEMMA AnswerTyped ==
  ASSUME TypeOK, NEW words \in Seq(0..255), Answer(words)
  PROVE  OutcomeTyped'
  BY DEF Answer, player, OutcomeTyped, TypeOK

(* A call is a record of its two parts.                                    *)
LEMMA CallTyped ==
  ASSUME NEW cb \in Callbacks, NEW args \in Seq(Int)
  PROVE  /\ Call(cb, args) \in CallRecord
         /\ Call(cb, args).cb = cb /\ Call(cb, args).args = args
  BY DEF Call, CallRecord

(* A call that carries nothing the player computes with is callable.       *)
LEMMA PlainCallTyped ==
  ASSUME NEW cb \in Callbacks \ {"skip", "begin_search"}, NEW args \in Seq(Int)
  PROVE  Callable(Call(cb, args))
  BY CallTyped DEF Callable

LEMMA PlayCallable == \A n, d, r, m \in Int : Callable(Play(n, d, r, m))
  <1>1. \A n, d, r, m \in Int : <<n, d, r, m>> \in Seq(Int)
    OBVIOUS
  <1>2. QED
    BY <1>1, PlainCallTyped DEF Play, Callbacks

LEMMA RepeatCallable == Callable(RepeatPlay)
  <1>1. Bit(reversed) \in Int
    BY DEF Bit
  <1>2. QED
    BY <1>1, PlayCallable DEF RepeatPlay

LEMMA PauseCallable == Callable(Pause)
  <1>1. <<>> \in Seq(Int)
    OBVIOUS
  <1>2. QED
    BY <1>1, PlainCallTyped DEF Pause, Callbacks

LEMMA ErrorsCallable ==
  Callable(Error(0)) /\ Callable(Error(1)) /\ Callable(Error(2)) /\ Callable(Error(3))
  <1>1. \A code \in Int : <<code>> \in Seq(Int)
    OBVIOUS
  <1>2. \A code \in Int : Callable(Error(code))
    BY <1>1, PlainCallTyped DEF Error, Callbacks
  <1>3. QED
    BY <1>2

LEMMA CallOfCallable ==
  ASSUME NEW b \in OneCall
  PROVE  Callable(CallOf(b))
  <1>1. /\ <<>> \in Seq(Int)
        /\ \A v \in Int : <<v>> \in Seq(Int)
        /\ \A v, w \in Int : <<v, w>> \in Seq(Int)
    OBVIOUS
  <1>2. /\ \A v \in Int : Callable(Call("change_video", <<v>>))
        /\ \A v, w \in Int : Callable(Call("change_audio", <<v, w>>))
        /\ Callable(Call("step_forward", <<>>)) /\ Callable(Call("step_reverse", <<>>))
    BY <1>1, PlainCallTyped DEF Callbacks
  <1>3. CASE b \in {38, 39, 43, 44, 70, 71, 72, 73}
    <2>1. CASE b \in {38, 39}
      BY <1>2, <2>1 DEF CallOf
    <2>2. CASE b \in {43, 44}
      BY <1>2, <2>2 DEF CallOf
    <2>3. CASE b \in {70, 71, 72, 73}
      BY <1>2, <2>3 DEF CallOf
    <2>4. QED
      BY <1>3, <2>1, <2>2, <2>3
  <1>4. CASE b \in {58, 59, 60, 74, 75, 76}
    <2>1. /\ Callable(Play(1, 1, 0, 0)) /\ Callable(Play(3, 1, 0, 1))
          /\ Callable(Play(1, 5, 0, 1)) /\ Callable(Play(1, 1, 1, 1))
          /\ Callable(Play(3, 1, 1, 1)) /\ Callable(Play(1, 5, 1, 1))
      BY PlayCallable
    <2>2. CASE b \in {58, 59, 60}
      BY <2>1, <2>2 DEF CallOf
    <2>3. CASE b \in {74, 75, 76}
      BY <2>1, <2>3 DEF CallOf
    <2>4. QED
      BY <1>4, <2>2, <2>3
  <1>5. CASE b = 79
    <2>1. CallOf(b) = Pause
      BY <1>5 DEF CallOf
    <2>2. QED
      BY <2>1, PauseCallable
  <1>6. QED
    BY <1>3, <1>4, <1>5 DEF OneCall

(* The calls that carry a number of the interpreter's.                     *)
LEMMA NumberCallable ==
  /\ \A f \in Nat : Callable(Call("begin_search", <<f>>))
  /\ \A n \in Int : Int16(n) \in Int /\ Callable(Call("skip", <<Int16(n)>>))
  <1>1. \A n \in Int : Int16(n) \in Int
    BY DEF Int16
  <1>2. \A n \in Int : <<n>> \in Seq(Int) /\ <<n>>[1] = n
    OBVIOUS
  <1>3. ASSUME NEW f \in Nat PROVE Callable(Call("begin_search", <<f>>))
    <2>1. /\ Call("begin_search", <<f>>) \in CallRecord
          /\ Call("begin_search", <<f>>).cb = "begin_search"
          /\ Call("begin_search", <<f>>).args = <<f>>
      <3>1. f \in Int
        OBVIOUS
      <3>2. QED
        BY <1>2, <3>1, CallTyped DEF Callbacks
    <2>2. "begin_search" # "skip"
      OBVIOUS
    <2>3. QED
      BY <1>2, <2>1, <2>2 DEF Callable
  <1>4. ASSUME NEW n \in Int PROVE Callable(Call("skip", <<n>>))
    <2>1. /\ Call("skip", <<n>>) \in CallRecord
          /\ Call("skip", <<n>>).cb = "skip"
          /\ Call("skip", <<n>>).args = <<n>>
      BY <1>2, CallTyped DEF Callbacks
    <2>2. "begin_search" # "skip"
      OBVIOUS
    <2>3. QED
      BY <1>2, <2>1, <2>2 DEF Callable
  <1>5. QED
    BY <1>1, <1>3, <1>4

(* The answers to the inquiries are bytes.                                 *)
LEMMA InquiriesTyped ==
  ASSUME TypeOK
  PROVE  FrameDigits \in Seq(0..255) /\ StatusBytes \in Seq(0..255)
  <1>1. \A n \in {10000, 1000, 100, 10, 1} : 48 + ((pos \div n) % 10) \in 0..255
    BY LDP1000Assumption DEF TypeOK
  <1>2. FrameDigits \in Seq(0..255)
    BY <1>1 DEF FrameDigits
  <1>3. /\ (IF disc = "SEARCHING" THEN 192 ELSE 128) \in 0..255
        /\ (IF state = "WAIT_SEARCH" THEN 3 ELSE 0) \in 0..255
        /\ (CASE disc = "PLAYING" -> 1 [] disc = "SEARCHING" -> 0 [] OTHER -> 32) \in 0..255
    OBVIOUS
  <1>4. StatusBytes \in Seq(0..255)
    BY <1>3 DEF StatusBytes
  <1>5. QED
    BY <1>2, <1>4
-----------------------------------------------------------------------------
(* A reset leaves every variable in its type.                              *)
LEMMA InitTyped == Init => TypeOK
  <1> SUFFICES ASSUME Init PROVE TypeOK
    OBVIOUS
  <1>1. /\ reversed \in BOOLEAN /\ searchActive \in BOOLEAN /\ repeatActive \in BOOLEAN
        /\ back \in BOOLEAN
    BY Zenon DEF Init
  <1>2. InterpreterTyped
    BY <1>1 DEF Init, InterpreterTyped, States, MaxDigits
  <1>3. OutcomeTyped
    BY <1>1, LDP1000Assumption DEF Init, OutcomeTyped, PlayerStates
  <1>4. QED
    BY <1>2, <1>3, TypedIsBoth

LEMMA ResetTyped ==
  ASSUME TypeOK, Reset
  PROVE  TypeOK'
  <1>1. /\ reversed' \in BOOLEAN /\ searchActive' \in BOOLEAN /\ repeatActive' \in BOOLEAN
    BY Zenon DEF Reset
  <1>2. InterpreterTyped'
    BY <1>1 DEF Reset, ResetFrame, InterpreterTyped, States, MaxDigits
  <1>3. OutcomeTyped'
    BY AnswerTyped, WordsTyped DEF Reset
  <1>4. QED
    BY <1>2, <1>3, TypedIsBoth

(* What a command makes the player do and answers: one step per command.   *)
LEMMA WriteOutcomeTyped ==
  ASSUME TypeOK, NEW b \in Bytes, Write(b)
  PROVE  OutcomeTyped'
  <1> frame \in Nat /\ Bit(reversed) \in Int /\ Bit(b = VarReverse) \in Int
    BY DEF TypeOK, Bit
  <1>1. CASE CallPlayer(b)
    BY <1>1, DoTyped, CallOfCallable, WordsTyped DEF CallPlayer
  <1>2. CASE Digit(b)
    BY <1>2, DoTyped, AnswerTyped, ErrorsCallable, WordsTyped DEF Digit
  <1>3. CASE BeginSkip(b)
    BY <1>3, DoTyped, PauseCallable, WordsTyped DEF BeginSkip
  <1>4. CASE BeginVariableSpeed(b)
    <2>1. Callable(Play(1, 7, Bit(b = VarReverse), 1))
      BY PlayCallable
    <2>2. QED
      BY <1>4, <2>1, DoTyped, WordsTyped DEF BeginVariableSpeed
  <1>5. CASE BeginSearch(b)
    BY <1>5, DoTyped, PauseCallable, WordsTyped DEF BeginSearch
  <1>6. CASE BeginRepeat(b)
    BY <1>6, DoTyped, PauseCallable, WordsTyped DEF BeginRepeat
  <1>7. CASE ClearNumber(b)
    BY <1>7, AnswerTyped, WordsTyped DEF ClearNumber
  <1>8. CASE EnterSearch(b)
    BY <1>8, DoTyped, NumberCallable, WordsTyped DEF EnterSearch
  <1>9. CASE EnterRepeatEnd(b)
    BY <1>9, AnswerTyped, WordsTyped DEF EnterRepeatEnd
  <1>10. CASE EnterRepeatCount(b)
    BY <1>10, DoTyped, RepeatCallable, WordsTyped DEF EnterRepeatCount
  <1>11. CASE EnterSpeed(b)
    <2>1. Callable(Play(1, frame, Bit(reversed), 1))
      BY PlayCallable
    <2>2. QED
      BY <1>11, <2>1, DoTyped, AnswerTyped, PauseCallable, WordsTyped DEF EnterSpeed
  <1>12. CASE EnterSkip(b)
    <2>1. frame \in Int
      OBVIOUS
    <2>2. Int16(frame) \in Int /\ Callable(Call("skip", <<Int16(frame)>>))
      BY <2>1, NumberCallable
    <2>3. -Int16(frame) \in Int
      BY <2>2
    <2>4. Callable(Call("skip", <<Int16(-Int16(frame))>>))
      BY <2>3, NumberCallable
    <2>5. QED
      BY <1>12, <2>2, <2>4, DoTyped, WordsTyped DEF EnterSkip
  <1>13. CASE EnterNothing(b)
    BY <1>13, DoTyped, ErrorsCallable, WordsTyped DEF EnterNothing
  <1>14. CASE Inquire(b)
    BY <1>14, DoTyped, AnswerTyped, ErrorsCallable, WordsTyped, InquiriesTyped DEF Inquire
  <1>15. CASE AnswerOnly(b)
    BY <1>15, DoTyped, AnswerTyped, ErrorsCallable, WordsTyped DEF AnswerOnly
  <1>16. QED
    BY <1>1, <1>2, <1>3, <1>4, <1>5, <1>6, <1>7, <1>8, <1>9, <1>10, <1>11, <1>12,
       <1>13, <1>14, <1>15 DEF Write

(* What a command assigns: one step per group of commands.                 *)
LEMMA WriteInterpreterTyped ==
  ASSUME TypeOK, NEW b \in Bytes, Write(b)
  PROVE  InterpreterTyped'
  <1> USE DEF InterpreterTyped, number, search, repeat
  <1> InterpreterTyped
    BY TypedIsBoth
  <1>1. CASE CallPlayer(b) \/ EnterSpeed(b) \/ EnterSkip(b) \/ EnterNothing(b)
             \/ Inquire(b) \/ AnswerOnly(b)
    <2>1. /\ state' = state \/ state' = "NORMAL"
          /\ UNCHANGED <<frame, frameIdx, reversed, searchActive, repeatActive,
                         repStart, repEnd, iterations>>
      BY <1>1, Zenon
         DEF CallPlayer, EnterSpeed, EnterSkip, EnterNothing, Inquire, AnswerOnly
    <2>2. QED
      BY <2>1 DEF States
  <1>2. CASE Digit(b)
    <2>1. b - 48 \in 0..9
      BY <1>2, LDP1000Assumption DEF Digit, DigitBytes
    <2>2. CASE RoomForDigit
      BY <1>2, <2>1, <2>2 DEF Digit, RoomForDigit, MaxDigits
    <2>3. CASE ~RoomForDigit
      BY <1>2, <2>3 DEF Digit
    <2>4. QED
      BY <2>2, <2>3
  <1>3. CASE BeginSkip(b) \/ ClearNumber(b)
    BY <1>3 DEF BeginSkip, ClearNumber, ResetFrame, States, MaxDigits
  <1>4. CASE BeginVariableSpeed(b)
    <2>1. reversed' \in BOOLEAN
      BY <1>4, Zenon DEF BeginVariableSpeed
    <2>2. QED
      BY <1>4, <2>1 DEF BeginVariableSpeed, ResetFrame, States, MaxDigits
  <1>5. CASE BeginSearch(b)
    <2>1. repeatActive' \in BOOLEAN
      BY <1>5, Zenon DEF BeginSearch, RepeatOff
    <2>2. QED
      BY <1>5, <2>1 DEF BeginSearch, ResetFrame, States, MaxDigits
  <1>6. CASE BeginRepeat(b)
    <2>1. repStart' \in Nat
      BY <1>6, LDP1000Assumption DEF BeginRepeat, TypeOK
    <2>2. QED
      BY <1>6, <2>1 DEF BeginRepeat, ResetFrame, States, MaxDigits
  <1>7. CASE EnterSearch(b)
    <2>1. searchActive' \in BOOLEAN
      BY <1>7, Zenon DEF EnterSearch
    <2>2. QED
      BY <1>7, <2>1 DEF EnterSearch, States
  <1>8. CASE EnterRepeatEnd(b)
    <2>1. reversed' \in BOOLEAN
      <3>1. (frame < repStart) \in BOOLEAN
        OBVIOUS
      <3>2. reversed' = (frame < repStart)
        BY <1>8 DEF EnterRepeatEnd, TakeDirection
      <3>3. QED
        BY <3>1, <3>2, Zenon
    <2>2. QED
      BY <1>8, <2>1 DEF EnterRepeatEnd, ResetFrame, States, MaxDigits
  <1>9. CASE EnterRepeatCount(b)
    <2>1. repeatActive' \in BOOLEAN
      BY <1>9, Zenon DEF EnterRepeatCount
    <2>2. iterations' \in 0..255
      BY <1>9 DEF EnterRepeatCount, Uint8
    <2>3. QED
      BY <1>9, <2>1, <2>2 DEF EnterRepeatCount
  <1>10. QED
    BY <1>1, <1>2, <1>3, <1>4, <1>5, <1>6, <1>7, <1>8, <1>9 DEF Write

LEMMA VBlankTyped ==
  ASSUME TypeOK, VBlank
  PROVE  TypeOK'
  <1> USE DEF InterpreterTyped, number, search, repeat
  <1> InterpreterTyped /\ UNCHANGED <<state, number, reversed>>
    BY TypedIsBoth DEF VBlank
  <1>1. CASE SearchEnds
    <2>1. searchActive' \in BOOLEAN
      BY <1>1, Zenon DEF SearchEnds, SearchOff
    <2>2. OutcomeTyped'
      BY <1>1, DoTyped, AnswerTyped, RepeatCallable, WordsTyped DEF SearchEnds
    <2>3. QED
      BY <1>1, <2>1, <2>2, TypedIsBoth DEF SearchEnds
  <1>2. CASE SearchGoesOn \/ NothingToDo
    <2>1. OutcomeTyped'
      BY <1>2, AnswerTyped, WordsTyped DEF SearchGoesOn, NothingToDo
    <2>2. QED
      BY <1>2, <2>1, TypedIsBoth DEF SearchGoesOn, NothingToDo
  <1>3. CASE SearchUnexpected
    <2>1. OutcomeTyped'
      BY <1>3, DoTyped, ErrorsCallable, WordsTyped DEF SearchUnexpected
    <2>2. QED
      BY <1>3, <2>1, TypedIsBoth DEF SearchUnexpected
  <1>4. CASE LastLap
    <2>1. repeatActive' \in BOOLEAN
      BY <1>4, Zenon DEF LastLap, RepeatOff
    <2>2. OutcomeTyped'
      BY <1>4, DoTyped, PauseCallable, WordsTyped DEF LastLap
    <2>3. QED
      BY <1>4, <2>1, <2>2, TypedIsBoth DEF LastLap
  <1>5. CASE NextLap
    <2>1. searchActive' \in BOOLEAN
      BY <1>5, Zenon DEF NextLap
    <2>2. iterations' \in 0..255
      BY <1>5 DEF NextLap, CountLap
    <2>3. Callable(Call("begin_search", <<repStart>>))
      BY NumberCallable
    <2>4. OutcomeTyped'
      BY <1>5, <2>3, DoTyped, WordsTyped DEF NextLap
    <2>5. QED
      BY <1>5, <2>1, <2>2, <2>4, TypedIsBoth DEF NextLap
  <1>6. QED
    BY <1>1, <1>2, <1>3, <1>4, <1>5 DEF VBlank

LEMMA PlayerMovesTyped ==
  ASSUME TypeOK, PlayerMoves
  PROVE  TypeOK'
  <1>1. UNCHANGED interpreter /\ calls' = <<>> /\ replies' = <<>>
    BY DEF PlayerMoves, SeekDone, SeekFails, Roll
  <1>2. disc' \in PlayerStates
    BY DEF PlayerMoves, SeekDone, SeekFails, Roll, TypeOK, PlayerStates
  <1>3. pos' \in 0..LastFrame
    <2>1. CASE Roll
      <3>1. pos - 1 \in Int /\ pos + 1 \in Int
        BY LDP1000Assumption DEF TypeOK
      <3>2. QED
        BY <2>1, <3>1, ClampTyped DEF Roll
    <2>2. CASE SeekDone \/ SeekFails
      BY <2>2, LDP1000Assumption DEF SeekDone, SeekFails, TypeOK
    <2>3. QED
      BY <2>1, <2>2 DEF PlayerMoves
  <1>4. UNCHANGED <<goal, back>>
    BY DEF PlayerMoves, SeekDone, SeekFails, Roll
  <1>5. QED
    BY <1>1, <1>2, <1>3, <1>4, WordsTyped DEF TypeOK, interpreter, number, search, repeat

(* For every host: every variable keeps the values of its C type, no sixth *)
(* digit is counted, and an iteration count is a byte.                     *)
THEOREM TypeCorrect == Spec => []TypeOK
  <1>1. Init => TypeOK
    BY InitTyped
  <1>2. TypeOK /\ [Next]_vars => TypeOK'
    <2> SUFFICES ASSUME TypeOK, [Next]_vars PROVE TypeOK'
      OBVIOUS
    <2>1. CASE Reset
      BY <2>1, ResetTyped
    <2>2. ASSUME NEW b \in Bytes, Write(b) PROVE TypeOK'
      BY <2>2, WriteInterpreterTyped, WriteOutcomeTyped, TypedIsBoth
    <2>3. CASE VBlank
      BY <2>3, VBlankTyped
    <2>4. CASE PlayerMoves
      BY <2>4, PlayerMovesTyped
    <2>5. CASE UNCHANGED vars
      BY <2>5 DEF vars, TypeOK, number, search, repeat, player
    <2>6. QED
      BY <2>1, <2>2, <2>3, <2>4, <2>5 DEF Next
  <1>3. QED
    BY <1>1, <1>2, PTL DEF Spec
-----------------------------------------------------------------------------
(* Every step but a command leaves the number alone or resets it.          *)
LEMMA NumberMoves ==
  ASSUME [Next]_vars
  PROVE  \/ \E b \in Bytes : Digit(b)
         \/ frame' = 0 /\ frameIdx' = 0
         \/ UNCHANGED number
  <1>1. CASE Reset
    BY <1>1 DEF Reset, ResetFrame
  <1>2. ASSUME NEW b \in Bytes, Write(b), ~Digit(b)
        PROVE  (frame' = 0 /\ frameIdx' = 0) \/ UNCHANGED number
    <2>1. CASE CallPlayer(b) \/ EnterSearch(b) \/ EnterRepeatCount(b) \/ EnterSpeed(b)
               \/ EnterSkip(b) \/ EnterNothing(b) \/ Inquire(b) \/ AnswerOnly(b)
      BY <2>1, Zenon DEF CallPlayer, EnterSearch, EnterRepeatCount, EnterSpeed, EnterSkip,
         EnterNothing, Inquire, AnswerOnly
    <2>2. CASE BeginSkip(b) \/ BeginVariableSpeed(b) \/ BeginSearch(b) \/ BeginRepeat(b)
               \/ ClearNumber(b) \/ EnterRepeatEnd(b)
      BY <2>2, Zenon DEF BeginSkip, BeginVariableSpeed, BeginSearch, BeginRepeat, ClearNumber,
         EnterRepeatEnd, ResetFrame
    <2>3. QED
      BY <1>2, <2>1, <2>2 DEF Write
  <1>3. CASE VBlank
    BY <1>3, Zenon DEF VBlank
  <1>4. CASE PlayerMoves
    BY <1>4, Zenon DEF PlayerMoves, SeekDone, SeekFails, Roll, interpreter
  <1>5. CASE UNCHANGED vars
    BY <1>5, Zenon DEF vars
  <1>6. QED
    BY <1>1, <1>2, <1>3, <1>4, <1>5 DEF Next

(* For every host, however it mixes commands and digits: the number that a *)
(* search, a repeat, a speed or a skip uses has no more digits than were   *)
(* keyed since the command that reset it.                                  *)
THEOREM DigitsAreCounted == Spec => []DigitsCounted
  <1>1. Init => DigitsCounted
    BY DEF Init, DigitsCounted, Pow10, MaxDigits
  <1>2. TypeOK /\ DigitsCounted /\ [Next]_vars => DigitsCounted'
    <2> SUFFICES ASSUME TypeOK, DigitsCounted, [Next]_vars PROVE DigitsCounted'
      OBVIOUS
    <2> frame \in Nat /\ frameIdx \in 0..5 /\ frame < Pow10[frameIdx]
      BY DEF TypeOK, DigitsCounted, MaxDigits
    <2>1. CASE \E b \in Bytes : Digit(b)
      <3>1. PICK b \in Bytes : Digit(b)
        BY <2>1
      <3>2. b - 48 \in 0..9
        BY <3>1, LDP1000Assumption DEF Digit, DigitBytes
      <3>3. CASE RoomForDigit
        <4>1. frame' = frame * 10 + (b - 48) /\ frameIdx' = frameIdx + 1
          BY <3>1, <3>3 DEF Digit
        <4>2. frameIdx \in 0..4 /\ Pow10[frameIdx + 1] = 10 * Pow10[frameIdx]
          BY <3>3 DEF RoomForDigit, Pow10, MaxDigits
        <4>3. Pow10[frameIdx] \in Nat
          BY <4>2 DEF Pow10, MaxDigits
        <4>4. QED
          BY <3>2, <4>1, <4>2, <4>3 DEF DigitsCounted
      <3>4. CASE ~RoomForDigit
        BY <3>1, <3>4 DEF Digit, number, DigitsCounted
      <3>5. QED
        BY <3>3, <3>4
    <2>2. CASE frame' = 0 /\ frameIdx' = 0
      BY <2>2 DEF DigitsCounted, Pow10, MaxDigits
    <2>3. CASE UNCHANGED number
      BY <2>3 DEF number, DigitsCounted
    <2>4. QED
      BY <2>1, <2>2, <2>3, NumberMoves
  <1>3. QED
    BY <1>1, <1>2, TypeCorrect, PTL DEF Spec
-----------------------------------------------------------------------------
(* Whoever is at work while a search command awaits its ENTER, the repeat  *)
(* that the command cancelled does not become active again.                *)
THEOREM SearchKeepsRepeatOff == Spec => []SearchCancelsRepeat
  <1>1. Init => SearchCancelsRepeat
    BY DEF Init, SearchCancelsRepeat
  <1>2. SearchCancelsRepeat /\ [Next]_vars => SearchCancelsRepeat'
    <2> SUFFICES ASSUME SearchCancelsRepeat, [Next]_vars, state' = "WAIT_SEARCH"
                 PROVE  repeatActive' = FALSE
      BY DEF SearchCancelsRepeat
    <2>1. CASE Reset
      BY <2>1 DEF Reset
    <2>2. ASSUME NEW b \in Bytes, Write(b) PROVE repeatActive' = FALSE
      <3>1. CASE BeginSearch(b)
        BY <3>1 DEF BeginSearch, RepeatOff
      <3>2. CASE CallPlayer(b) \/ Digit(b) \/ Inquire(b) \/ AnswerOnly(b)
        <4>1. UNCHANGED <<state, repeat>>
          BY <3>2, Zenon DEF CallPlayer, Digit, Inquire, AnswerOnly
        <4>2. QED
          BY <4>1 DEF repeat, SearchCancelsRepeat
      <3>3. QED
        BY <2>2, <3>1, <3>2
           DEF Write, BeginSkip, BeginVariableSpeed, BeginRepeat, ClearNumber, EnterSearch,
               EnterRepeatEnd, EnterRepeatCount, EnterSpeed, EnterSkip, EnterNothing
    <2>3. CASE VBlank
      <3>1. state = "WAIT_SEARCH" /\ repeatActive = FALSE
        BY <2>3 DEF VBlank, SearchCancelsRepeat
      <3>2. UNCHANGED repeatActive \/ repeatActive' = FALSE
        BY <2>3, Zenon
           DEF VBlank, SearchEnds, SearchGoesOn, SearchUnexpected, LastLap, NextLap,
               NothingToDo, RepeatOff, repeat
      <3>3. QED
        BY <3>1, <3>2
    <2>4. CASE PlayerMoves
      BY <2>4 DEF PlayerMoves, SeekDone, SeekFails, Roll, interpreter, repeat,
         SearchCancelsRepeat
    <2>5. CASE UNCHANGED vars
      BY <2>5 DEF vars, repeat, SearchCancelsRepeat
    <2>6. QED
      BY <2>1, <2>2, <2>3, <2>4, <2>5 DEF Next
  <1>3. QED
    BY <1>1, <1>2, PTL DEF Spec

(* No vertical blank counts a repeat down to the endless one.              *)
THEOREM CountStopsAtOne == Spec => CountNeverWraps
  <1>1. TypeOK /\ [Next]_vars
          => [VBlank /\ repeatActive /\ iterations # 0 => iterations' # 0]_vars
    <2> SUFFICES ASSUME TypeOK, VBlank, iterations # 0 PROVE iterations' # 0
      OBVIOUS
    <2>1. iterations \in 1..255
      BY DEF TypeOK
    <2>2. UNCHANGED iterations \/ (~OneLapLeft /\ CountLap)
      BY Zenon DEF VBlank, SearchEnds, SearchGoesOn, SearchUnexpected, LastLap, NextLap,
         NothingToDo, repeat
    <2>3. QED
      BY <2>1, <2>2 DEF OneLapLeft, CountLap
  <1>2. QED
    BY <1>1, TypeCorrect, PTL DEF Spec, CountNeverWraps
-----------------------------------------------------------------------------
(* A host is a host: what Spec promises HostSpec promises.                 *)
THEOREM HostIsAHost == HostSpec => Spec
  <1>1. HostInit => Init
    BY DEF HostInit
  <1>2. [HostNext]_hostVars => [Next]_vars
    BY Zenon DEF HostNext, HostWrite, HostVBlank, HostReset, hostVars, Next
  <1>3. QED
    BY <1>1, <1>2, PTL DEF HostSpec, Spec

THEOREM HostInvariants == HostSpec => []TypeOK /\ []DigitsCounted /\ []SearchCancelsRepeat
  BY HostIsAHost, TypeCorrect, DigitsAreCounted, SearchKeepsRepeatOff, PTL
-----------------------------------------------------------------------------
(* What a patient host and the interpreter know of each other: a search or *)
(* a repeat that is active is owed a result, and a search is for the loop  *)
(* of a repeat exactly while there is one.                                 *)
OwedInv ==
  /\ searchActive \/ repeatActive => owed
  /\ searchActive => purpose = IF repeatActive THEN "loop" ELSE "host"

(* From the ENTER of the end of a segment the direction leads to it, until *)
(* another command is given; which is not before the repeat has ended.     *)
DirectionInv ==
  state = "REPEAT1_WAIT_COUNT" \/ repeatActive => (reversed <=> repEnd < repStart)

(* The laps played and the laps to be played are those asked for, if a     *)
(* byte can count them.                                                    *)
CountInv ==
  repeatActive /\ asked <= 255 =>
    \/ asked = 0 /\ iterations = 0
    \/ iterations > 0 /\ laps + iterations = IF searchActive THEN asked ELSE asked + 1

PatientInv == OwedInv /\ DirectionInv /\ CountInv

GhostsTyped == asked \in Nat /\ laps \in Nat

(* A host that is owed a result only inquires, which changes nothing.      *)
LEMMA InquiryKeeps ==
  ASSUME Patient, owed, NEW b \in Bytes, HostWrite(b)
  PROVE  UNCHANGED <<interpreter, ghosts>>
  <1>1. b = 96 \/ b = 103
    BY DEF HostWrite, Inquiries, FrameInquiry, StatusInquiry
  <1>2. /\ b \notin DigitBytes /\ b \notin OneCall
        /\ b \notin {SkipForward, SkipBackward, VarForward, VarReverse, Search, Repeat,
                    ClearEntry, ClearAll, Enter}
    BY <1>1
       DEF DigitBytes, OneCall, SkipForward, SkipBackward, VarForward, VarReverse, Search,
           Repeat, ClearEntry, ClearAll, Enter
  <1>3. Inquire(b) \/ AnswerOnly(b)
    BY <1>2, Zenon
       DEF HostWrite, Write, CallPlayer, Digit, BeginSkip, BeginVariableSpeed, BeginSearch,
           BeginRepeat, ClearNumber, EnterSearch, EnterRepeatEnd, EnterRepeatCount,
           EnterSpeed, EnterSkip, EnterNothing
  <1>4. UNCHANGED interpreter
    BY <1>3, Zenon DEF Inquire, AnswerOnly, interpreter
  <1>5. b # Enter
    BY <1>2
  <1>6. UNCHANGED ghosts
    BY <1>5 DEF HostWrite, ghosts
  <1>7. QED
    BY <1>4, <1>6

(* What a byte leaves alone.                                               *)
LEMMA WriteKeepsActive ==
  ASSUME NEW b \in Bytes, Write(b), ~EnterSearch(b), ~EnterRepeatCount(b),
         ~searchActive, ~repeatActive
  PROVE  ~searchActive' /\ ~repeatActive'
  <1>1. UNCHANGED search
    BY Zenon
       DEF Write, CallPlayer, Digit, BeginSkip, BeginVariableSpeed, BeginSearch, BeginRepeat,
           ClearNumber, EnterRepeatEnd, EnterSpeed, EnterSkip, EnterNothing, Inquire,
           AnswerOnly
  <1>2. UNCHANGED repeatActive \/ repeatActive' = FALSE
    BY Zenon
       DEF Write, CallPlayer, Digit, BeginSkip, BeginVariableSpeed, BeginSearch, BeginRepeat,
           ClearNumber, EnterRepeatEnd, EnterSpeed, EnterSkip, EnterNothing, Inquire,
           AnswerOnly, RepeatOff, repeat
  <1>3. QED
    BY <1>1, <1>2 DEF search

LEMMA WriteDirects ==
  ASSUME NEW b \in Bytes, Write(b), ~EnterRepeatEnd(b), state' = "REPEAT1_WAIT_COUNT"
  PROVE  UNCHANGED <<state, reversed, repStart, repEnd>>
  <1>1. ~BeginSkip(b) /\ ~BeginVariableSpeed(b) /\ ~BeginSearch(b) /\ ~BeginRepeat(b)
        /\ ~ClearNumber(b) /\ ~EnterSearch(b) /\ ~EnterSpeed(b)
    BY DEF BeginSkip, BeginVariableSpeed, BeginSearch, BeginRepeat, ClearNumber, EnterSearch,
           EnterSpeed
  <1>2. UNCHANGED <<state, reversed, repStart, repEnd>>
    BY <1>1, Zenon
       DEF Write, CallPlayer, Digit, EnterRepeatCount, EnterSkip, EnterNothing, Inquire,
           AnswerOnly, repeat
  <1>3. QED
    BY <1>2

LEMMA PatientWrite ==
  ASSUME Patient, TypeOK, SearchCancelsRepeat, GhostsTyped, PatientInv,
         NEW b \in Bytes, HostWrite(b)
  PROVE  PatientInv'
  <1>1. CASE owed
    <2>1. UNCHANGED <<interpreter, ghosts>>
      BY <1>1, InquiryKeeps
    <2>2. QED
      BY <2>1
         DEF interpreter, ghosts, search, repeat, PatientInv, OwedInv, DirectionInv, CountInv
  <1>2. CASE ~owed
    <2> ~searchActive /\ ~repeatActive
      BY <1>2 DEF PatientInv, OwedInv
    <2>1. DirectionInv'
      <3>1. CASE EnterRepeatEnd(b)
        BY <3>1 DEF EnterRepeatEnd, TakeDirection, DirectionInv
      <3>2. CASE state' = "REPEAT1_WAIT_COUNT" /\ ~EnterRepeatEnd(b)
        BY <3>2, WriteDirects DEF HostWrite, PatientInv, DirectionInv
      <3>3. CASE state' # "REPEAT1_WAIT_COUNT"
        <4>1. ~EnterRepeatCount(b)
          BY <3>3 DEF EnterRepeatCount
        <4>2. CASE EnterSearch(b)
          BY <3>3, <4>2 DEF EnterSearch, repeat, DirectionInv
        <4>3. CASE ~EnterSearch(b)
          BY <3>3, <4>1, <4>3, WriteKeepsActive DEF HostWrite, DirectionInv
        <4>4. QED
          BY <4>2, <4>3
      <3>4. QED
        BY <3>1, <3>2, <3>3
    <2>2. OwedInv' /\ CountInv'
      <3>1. CASE EnterSearch(b)
        <4>1. purpose' = "host" /\ owed' = TRUE
          BY <3>1 DEF HostWrite, EnterSearch
        <4>2. ~repeatActive'
          BY <3>1 DEF EnterSearch, repeat
        <4>3. QED
          BY <4>1, <4>2 DEF OwedInv, CountInv
      <3>2. CASE EnterRepeatCount(b)
        <4>1. owed' = TRUE /\ laps' = 1 /\ asked' = IF frameIdx = 0 THEN 1 ELSE frame
          BY <3>2 DEF HostWrite, EnterRepeatCount
        <4>2. ~searchActive' /\ iterations' = IF frameIdx # 0 THEN frame % 256 ELSE 1
          BY <3>2 DEF EnterRepeatCount, search, Uint8
        <4>3. frame \in Nat /\ (frame <= 255 => frame % 256 = frame)
          BY DEF TypeOK
        <4>4. QED
          BY <4>1, <4>2, <4>3 DEF OwedInv, CountInv
      <3>3. CASE ~EnterSearch(b) /\ ~EnterRepeatCount(b)
        BY <3>3, WriteKeepsActive DEF HostWrite, OwedInv, CountInv
      <3>4. QED
        BY <3>1, <3>2, <3>3
    <2>3. QED
      BY <2>1, <2>2 DEF PatientInv
  <1>3. QED
    BY <1>1, <1>2

(* What a vertical blank may do, with what it tells and calls.             *)
LEMMA BlankCalls ==
  /\ <<>> # <<Result>>
  /\ \A c : <<c>> # <<>> /\ <<c>>[1] = c
  /\ RepeatPlay.cb = "play" /\ Pause.cb = "pause" /\ Error(3).cb = "error"
  /\ Call("begin_search", <<repStart>>).cb = "begin_search"
  BY DEF RepeatPlay, Play, Pause, Error, Call

LEMMA BlankCases ==
  ASSUME HostVBlank
  PROVE  \/ /\ searchActive /\ ~searchActive' /\ ~repeatActive
            /\ replies' = <<Result>> /\ ~owed'
            /\ UNCHANGED <<repeat, purpose, laps>>
         \/ /\ searchActive /\ ~searchActive' /\ repeatActive
            /\ replies' = <<>>
            /\ laps' = IF laps <= asked THEN laps + 1 ELSE laps
            /\ UNCHANGED <<repeat, purpose, owed>>
         \/ /\ ~searchActive /\ ~searchActive' /\ repeatActive /\ ~repeatActive'
            /\ iterations = 1 /\ replies' = <<Result>>
            /\ UNCHANGED laps
         \/ /\ ~searchActive /\ searchActive' /\ repeatActive /\ iterations # 1
            /\ replies' = <<>> /\ CountLap /\ purpose' = "loop"
            /\ UNCHANGED <<repeatActive, repStart, repEnd, laps, owed>>
         \/ /\ replies' = <<>>
            /\ UNCHANGED <<search, repeat, ghosts>>
  <1> USE DEF search
  <1>1. /\ purpose' = IF calls' # <<>> /\ calls'[1].cb = "begin_search" THEN "loop" ELSE purpose
        /\ owed' = IF replies' = <<Result>> THEN FALSE ELSE owed
        /\ laps' = IF calls' = <<RepeatPlay>> /\ laps <= asked THEN laps + 1 ELSE laps
        /\ asked' = asked
    BY DEF HostVBlank
  <1>2. CASE SearchEnds
    <2>1. searchActive /\ ~searchActive' /\ UNCHANGED repeat
      BY <1>2 DEF SearchEnds, SearchOff
    <2>2. CASE ~repeatActive
      <3>1. calls' = <<>> /\ replies' = <<Result>>
        BY <1>2, <2>2 DEF SearchEnds, Answer
      <3>2. QED
        BY <1>1, <2>1, <2>2, <3>1, BlankCalls
    <2>3. CASE repeatActive
      <3>1. calls' = <<RepeatPlay>> /\ replies' = <<>>
        BY <1>2, <2>3 DEF SearchEnds, Do
      <3>2. purpose' = purpose /\ owed' = owed
        BY <1>1, <3>1, BlankCalls
      <3>3. QED
        BY <1>1, <2>1, <2>3, <3>1, <3>2
    <2>4. QED
      BY <2>2, <2>3
  <1>3. CASE SearchGoesOn \/ SearchUnexpected \/ NothingToDo
    <2>1. replies' = <<>> /\ (calls' = <<>> \/ calls' = <<Error(3)>>) /\ UNCHANGED <<search, repeat>>
      BY <1>3, Zenon DEF SearchGoesOn, SearchUnexpected, NothingToDo, Answer, Do
    <2>2. purpose' = purpose /\ owed' = owed /\ laps' = laps
      BY <1>1, <2>1, BlankCalls
    <2>3. QED
      BY <1>1, <2>1, <2>2 DEF ghosts
  <1>4. CASE LastLap
    <2>1. /\ ~searchActive /\ ~searchActive' /\ repeatActive /\ ~repeatActive'
          /\ iterations = 1 /\ replies' = <<Result>> /\ calls' = <<Pause>>
      BY <1>4 DEF LastLap, OneLapLeft, RepeatOff, Do
    <2>2. laps' = laps
      BY <1>1, <2>1, BlankCalls
    <2>3. QED
      BY <2>1, <2>2
  <1>5. CASE NextLap
    <2>1. /\ ~searchActive /\ searchActive' /\ repeatActive /\ iterations # 1 /\ CountLap
          /\ replies' = <<>> /\ calls' = <<Call("begin_search", <<repStart>>)>>
          /\ UNCHANGED <<repeatActive, repStart, repEnd>>
      BY <1>5 DEF NextLap, OneLapLeft, Do
    <2>2. purpose' = "loop" /\ owed' = owed /\ laps' = laps
      BY <1>1, <2>1, BlankCalls
    <2>3. QED
      BY <2>1, <2>2
  <1>6. QED
    BY <1>2, <1>3, <1>4, <1>5 DEF HostVBlank, VBlank

LEMMA PatientVBlank ==
  ASSUME TypeOK, GhostsTyped, PatientInv, HostVBlank
  PROVE  PatientInv'
  <1> USE DEF search, repeat
  <1>1. state' = state /\ reversed' = reversed /\ asked' = asked
    BY DEF HostVBlank, VBlank
  <1>2. repStart' = repStart /\ repEnd' = repEnd
    BY BlankCases DEF HostVBlank, VBlank, SearchEnds, SearchGoesOn, SearchUnexpected, LastLap,
       NextLap, NothingToDo
  <1>3. repeatActive' => repeatActive
    BY BlankCases
  <1>4. DirectionInv'
    BY <1>1, <1>2, <1>3 DEF PatientInv, DirectionInv
  <1>5. OwedInv'
    BY BlankCases DEF PatientInv, OwedInv, ghosts
  <1>6. CountInv'
    <2> asked \in Nat /\ laps \in Nat /\ iterations \in Nat
      BY DEF GhostsTyped, TypeOK
    <2>1. CASE ~repeatActive'
      BY <2>1 DEF CountInv
    <2>2. CASE UNCHANGED <<search, repeat, ghosts>>
      BY <2>2 DEF PatientInv, CountInv, ghosts
    <2>3. CASE /\ searchActive /\ ~searchActive' /\ repeatActive
               /\ laps' = IF laps <= asked THEN laps + 1 ELSE laps
               /\ UNCHANGED repeat
      BY <1>1, <2>3 DEF PatientInv, CountInv
    <2>4. CASE /\ ~searchActive /\ searchActive' /\ repeatActive /\ iterations # 1
               /\ CountLap /\ UNCHANGED <<repeatActive, laps>>
      BY <1>1, <2>4 DEF PatientInv, CountInv, CountLap
    <2>5. QED
      BY <2>1, <2>2, <2>3, <2>4, BlankCases, Zenon DEF repeat
  <1>7. QED
    BY <1>4, <1>5, <1>6 DEF PatientInv

LEMMA PatientStep ==
  ASSUME Patient, TypeOK, SearchCancelsRepeat, GhostsTyped, PatientInv, [HostNext]_hostVars
  PROVE  GhostsTyped' /\ PatientInv'
  <1> USE DEF GhostsTyped
  <1>1. ASSUME NEW b \in Bytes, HostWrite(b) PROVE GhostsTyped'
    BY <1>1 DEF HostWrite, TypeOK
  <1>2. CASE HostVBlank
    BY <1>2, PatientVBlank DEF HostVBlank
  <1>3. CASE HostReset
    BY <1>3 DEF HostReset, Reset, PatientInv, OwedInv, DirectionInv, CountInv
  <1>4. CASE PlayerMoves /\ UNCHANGED ghosts
    BY <1>4
       DEF PlayerMoves, SeekDone, SeekFails, Roll, interpreter, ghosts, search, repeat,
           PatientInv, OwedInv, DirectionInv, CountInv
  <1>5. CASE UNCHANGED hostVars
    BY <1>5
       DEF hostVars, vars, ghosts, search, repeat, PatientInv, OwedInv, DirectionInv, CountInv
  <1>6. QED
    BY <1>1, <1>2, <1>3, <1>4, <1>5, PatientWrite, Zenon DEF HostNext
-----------------------------------------------------------------------------
(* What a patient host relies on, all of it from the invariant.            *)
THEOREM PatientCorrect == Patient => (HostSpec => [](GhostsTyped /\ PatientInv))
  <1> SUFFICES ASSUME Patient PROVE HostSpec => [](GhostsTyped /\ PatientInv)
    OBVIOUS
  <1>1. HostInit => GhostsTyped /\ PatientInv
    BY DEF HostInit, Init, GhostsTyped, PatientInv, OwedInv, DirectionInv, CountInv
  <1>2. TypeOK /\ SearchCancelsRepeat /\ GhostsTyped /\ PatientInv /\ [HostNext]_hostVars
          => GhostsTyped' /\ PatientInv'
    BY PatientStep
  <1>3. QED
    BY <1>1, <1>2, HostInvariants, PTL DEF HostSpec

(* While a repeat runs it plays towards its end, although the variable     *)
(* speed commands set the same direction.                                  *)
THEOREM DirectionHolds == Patient => (HostSpec => []DirectionLeadsToEnd)
  <1>1. PatientInv => DirectionLeadsToEnd
    BY DEF PatientInv, DirectionInv, DirectionLeadsToEnd
  <1>2. QED
    BY <1>1, PatientCorrect, PTL

(* The result code of a search is sent for a search the host asked for,    *)
(* never for one that takes a repeat back to its start.                    *)
THEOREM ResultsAreRegular == Patient => (HostSpec => ResultMeansRegularSearch)
  <1>1. PatientInv /\ [HostNext]_hostVars =>
          [VBlank /\ searchActive /\ replies' = <<Result>> => purpose = "host"]_hostVars
    <2> SUFFICES ASSUME PatientInv, VBlank, searchActive, replies' = <<Result>>
                 PROVE  purpose = "host"
      OBVIOUS
    <2>1. ~repeatActive
      BY BlankCalls, Zenon
         DEF VBlank, SearchEnds, SearchGoesOn, SearchUnexpected, LastLap, NextLap, NothingToDo,
             Answer, Do
    <2>2. QED
      BY <2>1 DEF PatientInv, OwedInv
  <1>2. QED
    BY <1>1, PatientCorrect, PTL DEF HostSpec, ResultMeansRegularSearch

(* And every search the host asked for that ends is answered by it.        *)
THEOREM RegularIsAnswered == Patient => (HostSpec => RegularSearchGetsResult)
  <1>1. PatientInv /\ [HostNext]_hostVars =>
          [VBlank /\ searchActive /\ ~searchActive' /\ purpose = "host"
             => replies' = <<Result>>]_hostVars
    <2> SUFFICES ASSUME PatientInv, VBlank, searchActive, ~searchActive', purpose = "host"
                 PROVE  replies' = <<Result>>
      OBVIOUS
    <2>1. SearchEnds
      BY DEF VBlank, SearchGoesOn, SearchUnexpected, LastLap, NextLap, NothingToDo, search
    <2>2. ~repeatActive
      BY DEF PatientInv, OwedInv
    <2>3. QED
      BY <2>1, <2>2 DEF SearchEnds, Answer
  <1>2. QED
    BY <1>1, PatientCorrect, PTL DEF HostSpec, RegularSearchGetsResult

(* No result is sent that the host is not owed, nor one twice.             *)
THEOREM ResultsAreOwed == Patient => (HostSpec => ResultIsOwed)
  <1>1. PatientInv => [VBlank /\ replies' = <<Result>> => owed]_hostVars
    <2> SUFFICES ASSUME PatientInv, VBlank, replies' = <<Result>> PROVE owed
      OBVIOUS
    <2>1. searchActive \/ repeatActive
      BY BlankCalls, Zenon
         DEF VBlank, SearchEnds, SearchGoesOn, SearchUnexpected, LastLap, NextLap, NothingToDo,
             Answer, Do
    <2>2. QED
      BY <2>1 DEF PatientInv, OwedInv
  <1>2. QED
    BY <1>1, PatientCorrect, PTL DEF HostSpec, ResultIsOwed

(* A repeat whose count fits in a byte plays its segment as often as asked.*)
CountedPlaysAsAsked ==
  [][VBlank /\ ~searchActive /\ replies' = <<Result>> /\ asked <= 255 => laps = asked]_hostVars

THEOREM CountedRepeats == Patient => (HostSpec => CountedPlaysAsAsked)
  <1>1. GhostsTyped /\ PatientInv =>
          [VBlank /\ ~searchActive /\ replies' = <<Result>> /\ asked <= 255
             => laps = asked]_hostVars
    <2> SUFFICES ASSUME GhostsTyped, PatientInv, VBlank, ~searchActive, replies' = <<Result>>,
                        asked <= 255
                 PROVE  laps = asked
      OBVIOUS
    <2>1. LastLap
      BY BlankCalls, Zenon
         DEF VBlank, SearchEnds, SearchGoesOn, SearchUnexpected, NextLap, NothingToDo, Answer, Do
    <2>2. repeatActive /\ iterations = 1
      BY <2>1 DEF LastLap, OneLapLeft
    <2>3. QED
      BY <2>2 DEF PatientInv, CountInv, GhostsTyped
  <1>2. QED
    BY <1>1, PatientCorrect, PTL DEF HostSpec, CountedPlaysAsAsked
-----------------------------------------------------------------------------
(* A count of two digits fits.                                             *)
KeyedInv ==
  /\ state = "REPEAT1_WAIT_COUNT" => frameIdx <= KeyedLimit
  /\ asked <= 255

LEMMA KeyedStep ==
  ASSUME KeyedLimit <= 2, TypeOK, DigitsCounted, GhostsTyped, KeyedInv, [HostNext]_hostVars
  PROVE  KeyedInv'
  <1> frame \in Nat /\ frameIdx \in 0..5 /\ KeyedLimit \in Nat /\ asked \in Nat
    BY LDP1000Assumption DEF TypeOK, GhostsTyped, MaxDigits
  <1>1. ASSUME NEW b \in Bytes, HostWrite(b) PROVE KeyedInv'
    <2>1. asked' <= 255
      <3>1. CASE b = Enter /\ state = "REPEAT1_WAIT_COUNT" /\ frameIdx # 0
        <4>1. asked' = frame /\ frameIdx \in 1..2
          BY <1>1, <3>1 DEF HostWrite, KeyedInv
        <4>2. frame < 100
          BY <4>1 DEF DigitsCounted, Pow10, MaxDigits
        <4>3. QED
          BY <4>1, <4>2
      <3>2. CASE ~(b = Enter /\ state = "REPEAT1_WAIT_COUNT" /\ frameIdx # 0)
        <4>1. asked' = 1 \/ asked' = asked
          BY <1>1, <3>2 DEF HostWrite
        <4>2. QED
          BY <4>1 DEF KeyedInv
      <3>3. QED
        BY <3>1, <3>2
    <2>2. ASSUME state' = "REPEAT1_WAIT_COUNT" PROVE frameIdx' <= KeyedLimit
      <3>1. CASE EnterRepeatEnd(b)
        BY <3>1 DEF EnterRepeatEnd, ResetFrame
      <3>2. CASE ~EnterRepeatEnd(b)
        <4>1. state = "REPEAT1_WAIT_COUNT"
          BY <1>1, <2>2, <3>2, WriteDirects DEF HostWrite
        <4>2. frameIdx <= KeyedLimit
          BY <4>1 DEF KeyedInv
        <4>3. CASE Digit(b)
          <5>1. MayKey(b - 48) /\ (frameIdx' = frameIdx + 1 \/ frameIdx' = frameIdx)
            BY <4>3 DEF Digit, number
          <5>2. frameIdx < KeyedLimit
            BY <4>1, <5>1 DEF MayKey
          <5>3. QED
            BY <5>1, <5>2
        <4>4. CASE ~Digit(b)
          <5>1. frameIdx' = 0 \/ frameIdx' = frameIdx
            BY <1>1, <4>4, Zenon
               DEF HostWrite, Write, CallPlayer, BeginSkip, BeginVariableSpeed, BeginSearch,
                   BeginRepeat, ClearNumber, EnterSearch, EnterRepeatEnd, EnterRepeatCount,
                   EnterSpeed, EnterSkip, EnterNothing, Inquire, AnswerOnly, ResetFrame, number
          <5>2. QED
            BY <4>2, <5>1
        <4>5. QED
          BY <4>3, <4>4
      <3>3. QED
        BY <3>1, <3>2
    <2>3. QED
      BY <2>1, <2>2 DEF KeyedInv
  <1>2. CASE HostVBlank
    BY <1>2 DEF HostVBlank, VBlank, number, KeyedInv
  <1>3. CASE HostReset
    BY <1>3 DEF HostReset, Reset, KeyedInv
  <1>4. CASE PlayerMoves /\ UNCHANGED ghosts
    BY <1>4 DEF PlayerMoves, SeekDone, SeekFails, Roll, interpreter, number, ghosts, KeyedInv
  <1>5. CASE UNCHANGED hostVars
    BY <1>5 DEF hostVars, vars, number, ghosts, KeyedInv
  <1>6. QED
    BY <1>1, <1>2, <1>3, <1>4, <1>5, Zenon DEF HostNext

(* A host that keys counts of at most two digits hears and sees its        *)
(* segments as often as it asked for.                                      *)
THEOREM RepeatsAsAsked ==
  Patient /\ KeyedLimit <= 2 => (HostSpec => RepeatPlaysAsAsked)
  <1> SUFFICES ASSUME Patient, KeyedLimit <= 2 PROVE HostSpec => RepeatPlaysAsAsked
    OBVIOUS
  <1>1. HostInit => KeyedInv
    BY DEF HostInit, Init, KeyedInv
  <1>2. TypeOK /\ DigitsCounted /\ GhostsTyped /\ KeyedInv /\ [HostNext]_hostVars => KeyedInv'
    BY KeyedStep
  <1>3. KeyedInv /\
          [VBlank /\ ~searchActive /\ replies' = <<Result>> /\ asked <= 255 => laps = asked]_hostVars
          => [VBlank /\ ~searchActive /\ replies' = <<Result>> => laps = asked]_hostVars
    BY DEF KeyedInv
  <1>4. QED
    BY <1>1, <1>2, <1>3, HostInvariants, PatientCorrect, CountedRepeats, PTL
       DEF HostSpec, CountedPlaysAsAsked, RepeatPlaysAsAsked
=============================================================================
