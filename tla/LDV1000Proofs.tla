---------------------------- MODULE LDV1000Proofs ----------------------------
(***************************************************************************)
(* Proofs about the LD-V1000 interpreter, for every set of bytes, discs    *)
(* and type of player: of Spec, where the host may write anything, and of  *)
(* HostSpec for what only a host that waits is promised.                   *)
(***************************************************************************)
EXTENDS LDV1000Host, FiniteSetTheorems, TLAPS

CallRecord == [cb : Callbacks, arg : Nat]

(* The two halves of TypeOK.                                               *)
InterpreterTyped ==
  /\ ready \in BOOLEAN /\ code \in Codes
  /\ frame \in 0..NumberModulus - 1 /\ keyed \in BOOLEAN
  /\ searchPending \in BOOLEAN /\ delay \in 0..MinDelay
  /\ expectsId \in BOOLEAN /\ switchPending \in BOOLEAN
  /\ autostop \in 0..NumberModulus - 1
  /\ audio \in [{0, 1} -> BOOLEAN] /\ tempMute \in BOOLEAN
  /\ waiting \in Nat /\ aborted \in BOOLEAN
  /\ result \in 0..Data
PlayerTyped ==
  /\ disc \in PlayerStates
  /\ pos \in 0..LastFrame /\ goal \in Nat /\ active \in Discs
  /\ sound \in [{0, 1} -> BOOLEAN]
  /\ calls \in Seq(CallRecord)

LEMMA TypedIsBoth ==
  /\ TypeOK <=> InterpreterTyped /\ PlayerTyped
  /\ TypeOK' <=> InterpreterTyped' /\ PlayerTyped'
  BY DEF TypeOK, InterpreterTyped, PlayerTyped, CallRecord
-----------------------------------------------------------------------------
(* What a number is counted modulo is used from here on by this alone.     *)
LEMMA ModulusFact ==
  /\ NumberModulus \in Nat /\ NumberModulus > 0
  /\ 0 \in 0..NumberModulus - 1 /\ 0..NumberModulus - 1 \subseteq Nat
  /\ \A n \in Nat : n % NumberModulus \in 0..NumberModulus - 1
  <1>1. NumberModulus \in Nat /\ NumberModulus > 0
    BY DEF NumberModulus
  <1>2. \A n \in Nat, m \in Nat : m > 0 => n % m \in 0..m - 1
    OBVIOUS
  <1>3. QED
    BY <1>1, <1>2

(* The frame the player shows is a frame of the disc.                      *)
LEMMA ClampTyped == \A f \in Int : Clamp(f) \in 0..LastFrame
  BY LDV1000Assumption DEF Clamp

(* A call is a record of its two parts.                                    *)
LEMMA CallTyped ==
  ASSUME NEW cb \in Callbacks, NEW arg \in Nat
  PROVE  /\ Call(cb, arg) \in CallRecord
         /\ Call(cb, arg).cb = cb /\ Call(cb, arg).arg = arg
  BY DEF Call, CallRecord

(* So is every call that a byte alone leads to.                            *)
LEMMA OneCallTyped == \A b \in OneCall : CallOf(b) \in CallRecord
  <1> SUFFICES ASSUME NEW b \in OneCall PROVE CallOf(b) \in CallRecord
    OBVIOUS
  <1>1. b \in {160, 161, 162, 32, 157, 158} \/ b \in 164..167 \/ b \in 177..186 \/ b \in 49..57
    BY DEF OneCall
  <1>2. CASE b \in {160, 161, 162, 32, 157, 158}
    BY <1>2, CallTyped DEF CallOf, Callbacks
  <1>3. CASE b \in 164..167
    <2>1. 4 * (b - 162) \in Nat
      BY <1>3
    <2>2. CallOf(b) = Call("change_speed", 4 * (b - 162))
      BY <1>3 DEF CallOf
    <2>3. QED
      BY <2>1, <2>2, CallTyped DEF Callbacks
  <1>4. CASE b \in 177..186
    <2>1. 10 * (b - 176) \in Nat
      BY <1>4
    <2>2. CallOf(b) = Call("skip_forward", 10 * (b - 176))
      BY <1>4 DEF CallOf
    <2>3. QED
      BY <2>1, <2>2, CallTyped DEF Callbacks
  <1>5. CASE b \in 49..57
    <2>1. 10 * (b - 48) \in Nat
      BY <1>5
    <2>2. CallOf(b) = Call("skip_backward", 10 * (b - 48))
      BY <1>5 DEF CallOf
    <2>3. QED
      BY <2>1, <2>2, CallTyped DEF Callbacks
  <1>6. QED
    BY <1>1, <1>2, <1>3, <1>4, <1>5

LEMMA SetAudioTyped == \A ch \in {0, 1}, on \in BOOLEAN : SetAudio(ch, on) \in CallRecord
  BY CallTyped DEF SetAudio, Callbacks

(* The sequences of calls that handlers make.                              *)
LEMMA CallsTyped ==
  /\ <<>> \in Seq(CallRecord)
  /\ \A c \in CallRecord : <<c>> \in Seq(CallRecord)
  /\ \A c, d \in CallRecord : <<c, d>> \in Seq(CallRecord)
  /\ \A c, d, e, f \in CallRecord : <<c, d, e, f>> \in Seq(CallRecord)
  OBVIOUS

LEMMA UnmuteTyped ==
  /\ <<Call("play", 0)>> \in Seq(CallRecord) /\ Unmute \in Seq(CallRecord)
  /\ <<Call("play", 0)>> \o Unmute \in Seq(CallRecord)
  <1>1. /\ <<SetAudio(0, TRUE)>> \in Seq(CallRecord) /\ <<SetAudio(1, TRUE)>> \in Seq(CallRecord)
        /\ <<>> \in Seq(CallRecord) /\ <<Call("play", 0)>> \in Seq(CallRecord)
    BY SetAudioTyped, CallTyped, CallsTyped DEF Callbacks
  <1>2. \A s, t \in Seq(CallRecord) : s \o t \in Seq(CallRecord)
    OBVIOUS
  <1>3. Unmute \in Seq(CallRecord)
    BY <1>1, <1>2 DEF Unmute
  <1>4. QED
    BY <1>1, <1>2, <1>3

(* A handler that makes such calls leaves the player typed.                *)
LEMMA DoTyped ==
  ASSUME TypeOK, NEW cs \in Seq(CallRecord), Do(cs)
  PROVE  PlayerTyped'
  <1>1. calls' \in Seq(CallRecord) /\ active' \in Discs
    BY DEF Do, TypeOK
  <1>2. sound' \in [{0, 1} -> BOOLEAN]
    <2>1. \A ch \in {0, 1} : sound[ch] \in BOOLEAN
      BY DEF TypeOK
    <2>2. QED
      BY <2>1, Zenon DEF Do, Hears
  <1>3. CASE cs = <<>>
    <2>1. disc' \in PlayerStates /\ pos' \in 0..LastFrame /\ goal' \in Nat
      BY <1>3 DEF Do, TypeOK
    <2>2. QED
      BY <1>1, <1>2, <2>1 DEF PlayerTyped
  <1>4. CASE cs # <<>>
    <2>1. PICK c : c = cs[1]
      OBVIOUS
    <2>2. c \in CallRecord /\ Moves(c)
      BY <1>4, <2>1 DEF Do
    <2>3. c.arg \in Nat
      BY <2>2 DEF CallRecord
    <2>4. disc' \in PlayerStates
      BY <2>2 DEF Moves, PlayerStates, TypeOK
    <2>5. pos' \in 0..LastFrame
      <3>1. pos \in Int /\ pos + c.arg \in Int /\ pos - c.arg \in Int /\ pos - 1 \in Int
        BY <2>3, LDV1000Assumption DEF TypeOK
      <3>2. QED
        BY <2>2, <3>1, ClampTyped DEF Moves, TypeOK
    <2>6. goal' \in Nat
      BY <2>2, <2>3 DEF Moves, TypeOK
    <2>7. QED
      BY <1>1, <1>2, <2>4, <2>5, <2>6 DEF PlayerTyped
  <1>5. QED
    BY <1>3, <1>4

(* One that makes no call too.                                             *)
LEMMA SilentTyped == TypeOK /\ Do(<<>>) => PlayerTyped'
  BY CallsTyped, DoTyped

(* The discs that are listed are finitely many.                            *)
LEMMA ListTyped == Cardinality(Discs) \in Nat
  BY FS_CardinalityType, LDV1000Assumption
-----------------------------------------------------------------------------
(* What a command calls.                                                   *)
LEMMA CommandCalls ==
  ASSUME TypeOK, NEW b \in Bytes, Command(b)
  PROVE  PlayerTyped'
  <1> b \in Nat /\ frame \in 0..NumberModulus - 1 /\ audio \in [{0, 1} -> BOOLEAN]
    BY LDV1000Assumption DEF TypeOK
  <1> frame \in Nat
    BY ModulusFact
  <1>0. \A c \in CallRecord : Do(<<c>>) => PlayerTyped'
    BY CallsTyped, DoTyped
  <1>1. CASE Digit(b) \/ ClearDigits(b) \/ RejectDisc(b) \/ Query(b) \/ ExpectDiscId(b)
    BY <1>1, SilentTyped, Zenon DEF Digit, ClearDigits, RejectDisc, Query, ExpectDiscId
  <1>2. CASE SwitchAudio(b)
    <2>1. PICK ch \in {0, 1}, on \in BOOLEAN : Do(<<SetAudio(ch, on)>>)
      BY <1>2, Zenon DEF SwitchAudio
    <2>2. QED
      BY <1>0, <2>1, SetAudioTyped
  <1>3. CASE CallPlayer(b)
    BY <1>0, <1>3, OneCallTyped DEF CallPlayer
  <1>4. CASE PlayForward(b)
    <2>1. /\ Call("play", 0) \in CallRecord /\ Call("change_speed", 4) \in CallRecord
          /\ SetAudio(0, FALSE) \in CallRecord /\ SetAudio(1, FALSE) \in CallRecord
      BY CallTyped, SetAudioTyped DEF Callbacks
    <2>2. /\ <<Call("play", 0), SetAudio(0, FALSE), SetAudio(1, FALSE), Call("change_speed", 4)>>
               \in Seq(CallRecord)
          /\ <<Call("change_speed", 4)>> \in Seq(CallRecord)
      BY <2>1, CallsTyped
    <2>3. \/ Do(<<Call("play", 0), SetAudio(0, FALSE), SetAudio(1, FALSE), Call("change_speed", 4)>>)
          \/ Do(<<Call("change_speed", 4)>>)
      BY <1>4, Zenon DEF PlayForward
    <2>4. QED
      BY <2>2, <2>3, DoTyped
  <1>5. CASE PlayDisc(b)
    BY <1>5, UnmuteTyped, DoTyped DEF PlayDisc
  <1>6. CASE PlayUntil(b) \/ Still(b)
    <2>1. \E cb \in {"play", "step_reverse", "pause"} : Do(<<Call(cb, 0)>>)
      BY <1>6, Zenon DEF PlayUntil, Still
    <2>2. QED
      BY <1>0, <2>1, CallTyped DEF Callbacks
  <1>7. CASE BeginSearch(b)
    <2>1. Do(<<Call("begin_search", frame)>>)
      BY <1>7, Zenon DEF BeginSearch
    <2>2. QED
      BY <1>0, <2>1, CallTyped DEF Callbacks
  <1>8. CASE ChangeDelay(b)
    <2>1. \E cb \in {"change_spinup_delay", "change_seek_delay"} : Do(<<Call(cb, frame % 2)>>)
      BY <1>8, Zenon DEF ChangeDelay
    <2>2. frame % 2 \in Nat
      OBVIOUS
    <2>3. QED
      BY <1>0, <2>1, <2>2, CallTyped DEF Callbacks
  <1>9. CASE DoNothing(b)
    <2>1. Do(<<>>) \/ Do(<<Error, Error>>)
      BY <1>9, Zenon DEF DoNothing
    <2>2. <<Error, Error>> \in Seq(CallRecord)
      BY CallTyped, CallsTyped DEF Error, Callbacks
    <2>3. QED
      BY <2>1, <2>2, SilentTyped, DoTyped
  <1>10. QED
    BY <1>1, <1>2, <1>3, <1>4, <1>5, <1>6, <1>7, <1>8, <1>9, Zenon DEF Command

(* What a command assigns.                                                 *)
LEMMA CommandAssigns ==
  ASSUME TypeOK, NEW b \in Bytes, Command(b)
  PROVE  InterpreterTyped'
  <1> USE DEF InterpreterTyped, Codes, output, number, searching, switching, muting, queue
  <1>0. InterpreterTyped /\ result' = result
    BY TypedIsBoth DEF Command
  <1>1. CASE Digit(b)
    <2>1. DigitOf(b) \in 0..9
      BY <1>1 DEF Digit, DigitOf, DigitBytes
    <2>2. frame' \in 0..NumberModulus - 1
      <3>1. frame \in Nat /\ frame * 10 + DigitOf(b) \in Nat
        BY <1>0, <2>1, ModulusFact
      <3>2. \A n \in Nat : n % NumberModulus \in 0..NumberModulus - 1
        BY ModulusFact
      <3>3. QED
        BY <1>1, <3>1, <3>2, Zenon DEF Digit
    <2>3. ready' \in BOOLEAN /\ keyed' = TRUE
      BY <1>1, Zenon DEF Digit
    <2>4. UNCHANGED <<code, searching, switching, autostop, muting, queue>>
      BY <1>1, Zenon DEF Digit
    <2>5. QED
      BY <1>0, <2>2, <2>3, <2>4
  <1> 0 \in 0..NumberModulus - 1
    BY ModulusFact
  <1>2. CASE ClearDigits(b) \/ RejectDisc(b) \/ PlayUntil(b) \/ ExpectDiscId(b) \/ CallPlayer(b)
    BY <1>0, <1>2
       DEF ClearDigits, RejectDisc, PlayUntil, ExpectDiscId, CallPlayer, ClearNumber, NotReady
  <1>3. CASE SwitchAudio(b)
    <2>1. \E ch \in {0, 1}, on \in BOOLEAN : audio' = [audio EXCEPT ![ch] = on]
      BY <1>0, <1>3, Zenon DEF SwitchAudio
    <2>2. audio' \in [{0, 1} -> BOOLEAN]
      BY <1>0, <2>1
    <2>3. /\ ClearNumber /\ NotReady
          /\ UNCHANGED <<code, searching, switching, autostop, tempMute, queue>>
      BY <1>3, Zenon DEF SwitchAudio
    <2>4. QED
      BY <1>0, <2>2, <2>3 DEF ClearNumber, NotReady
  <1>4. CASE PlayForward(b) \/ PlayDisc(b) \/ Still(b) \/ ChangeDelay(b) \/ DoNothing(b)
    BY <1>0, <1>4
       DEF PlayForward, PlayDisc, Still, ChangeDelay, DoNothing, ClearNumber, NotReady
  <1>5. CASE BeginSearch(b)
    <2>1. MinDelay \in 0..MinDelay
      BY DEF MinDelay
    <2>2. /\ delay' = MinDelay /\ searchPending' = TRUE /\ code' = Searched /\ NotReady
          /\ ClearNumber /\ UNCHANGED <<switching, autostop, muting, queue>>
      BY <1>5, Zenon DEF BeginSearch, StartDelay
    <2>3. QED
      BY <1>0, <2>1, <2>2 DEF ClearNumber, NotReady
  <1>6. CASE Query(b)
    <2>1. waiting' \in Nat /\ aborted' \in BOOLEAN
      <3>1. UNCHANGED queue \/ \E n \in {5, 1, Cardinality(Discs) + 1} : PushBytes(n)
        BY <1>6, Zenon DEF Query
      <3>2. \A n \in Nat : PushBytes(n) => aborted' \in BOOLEAN
        BY <1>0 DEF PushBytes
      <3>3. \A n \in Nat : PushBytes(n) => waiting' \in Nat
        BY <1>0 DEF PushBytes
      <3>4. QED
        BY <1>0, <3>1, <3>2, <3>3, ListTyped
    <2>2. NotReady /\ UNCHANGED <<code, number, searching, switching, autostop, muting>>
      BY <1>6 DEF Query
    <2>3. QED
      BY <1>0, <2>1, <2>2 DEF NotReady
  <1>7. QED
    BY <1>1, <1>2, <1>3, <1>4, <1>5, <1>6, Zenon DEF Command

(* Any byte written.                                                       *)
LEMMA WriteTyped ==
  ASSUME TypeOK, NEW b \in Bytes, Write(b)
  PROVE  TypeOK'
  <1> USE DEF output, number, searching, switching, muting, queue
  <1>1. CASE WriteBusy(b) \/ DropDiscId(b)
    <2>1. PlayerTyped'
      BY <1>1, SilentTyped, Zenon DEF WriteBusy, DropDiscId
    <2>2. InterpreterTyped'
      <3>1. ready' \in BOOLEAN /\ expectsId' \in BOOLEAN
        BY <1>1, Zenon DEF WriteBusy, DropDiscId, TypeOK
      <3>2. UNCHANGED <<code, number, searching, switchPending, autostop, muting, queue, result>>
        BY <1>1 DEF WriteBusy, DropDiscId
      <3>3. QED
        BY <3>1, <3>2 DEF InterpreterTyped, TypeOK
    <2>3. QED
      BY <2>1, <2>2, TypedIsBoth
  <1>2. CASE TakeDiscId(b)
    <2>1. PlayerTyped'
      <3>1. <<Call("begin_changing_to_disc", b)>> \in Seq(CallRecord)
        BY CallTyped, CallsTyped, LDV1000Assumption DEF Callbacks
      <3>2. Do(<<Call("begin_changing_to_disc", b)>>) \/ Do(<<>>)
        BY <1>2, Zenon DEF TakeDiscId
      <3>3. QED
        BY <3>1, <3>2, SilentTyped, DoTyped
    <2>2. InterpreterTyped'
      BY <1>2 DEF TakeDiscId, InterpreterTyped, TypeOK, Codes
    <2>3. QED
      BY <2>1, <2>2, TypedIsBoth
  <1>3. CASE Command(b)
    BY <1>3, CommandCalls, CommandAssigns, TypedIsBoth
  <1>4. QED
    BY <1>1, <1>2, <1>3 DEF Write
-----------------------------------------------------------------------------
(* The byte read is a status or stands for data.                           *)
LEMMA StatusTyped ==
  ASSUME NEW c \in Codes, NEW s \in {Searched, Playing, c + 128, c}
  PROVE  s \in 0..Data
  <1>1. c \in Nat /\ c <= 124
    BY DEF Codes, Failed, Forward, Searched, Stopping, Playing, Stopped, Parked
  <1>2. Searched = 80 /\ Playing = 100 /\ Data = 256
    BY DEF Searched, Playing, Data
  <1>3. s \in Nat /\ s <= 256
    BY <1>1, <1>2
  <1>4. QED
    BY <1>2, <1>3

LEMMA ReadTyped ==
  ASSUME TypeOK, Read
  PROVE  TypeOK'
  <1> USE DEF output, number, searching, switching, muting, queue
  <1>1. CASE ReadData
    <2>1. PlayerTyped'
      BY <1>1, SilentTyped, Zenon DEF ReadData
    <2>2. InterpreterTyped'
      BY <1>1 DEF ReadData, InterpreterTyped, TypeOK, Data
    <2>3. QED
      BY <2>1, <2>2, TypedIsBoth
  <1>2. CASE ReadStatus
    <2>1. PlayerTyped'
      <3>1. <<Error>> \in Seq(CallRecord) /\ <<Call("pause", 0)>> \in Seq(CallRecord)
        BY CallTyped, CallsTyped DEF Error, Callbacks
      <3>2. Do(<<>>) \/ Do(<<Error>>) \/ Do(<<Call("pause", 0)>>)
        BY <1>2, Zenon
           DEF ReadStatus, SearchDelays, SearchEnds, SearchGoesOn, SwitchEnds,
               SwitchUnexpected, SwitchGoesOn, StopNow, NothingPending
      <3>3. QED
        BY <3>1, <3>2, SilentTyped, DoTyped
    <2>2. delay' \in 0..MinDelay
      BY <1>2
         DEF ReadStatus, SearchDelays, SearchEnds, SearchGoesOn, SwitchEnds,
             SwitchUnexpected, SwitchGoesOn, StopNow, NothingPending, Delayed, CountDown,
             MinDelay, TypeOK
    <2>3. /\ code' \in Codes /\ ready' \in BOOLEAN
          /\ searchPending' \in BOOLEAN /\ switchPending' \in BOOLEAN
          /\ expectsId' \in BOOLEAN /\ autostop' \in 0..NumberModulus - 1
      BY <1>2, ModulusFact
         DEF ReadStatus, SearchDelays, SearchEnds, SearchGoesOn, SwitchEnds, SwitchOff,
             SwitchUnexpected, SwitchGoesOn, StopNow, NothingPending, TypeOK, Codes
    <2>4. result' \in 0..Data
      <3>1. result' \in {Searched, Playing, code' + 128, code'}
        BY <1>2, Zenon DEF ReadStatus, StatusByte
      <3>2. QED
        BY <2>3, <3>1, StatusTyped
    <2>5. UNCHANGED <<number, muting, queue>>
      BY <1>2 DEF ReadStatus
    <2>6. InterpreterTyped'
      BY <2>2, <2>3, <2>4, <2>5 DEF InterpreterTyped, TypeOK
    <2>7. QED
      BY <2>1, <2>6, TypedIsBoth
  <1>3. QED
    BY <1>1, <1>2 DEF Read

LEMMA PlayerMovesTyped ==
  ASSUME TypeOK, PlayerMoves
  PROVE  TypeOK'
  <1>1. InterpreterTyped'
    BY DEF PlayerMoves, interpreter, output, number, searching, switching, muting, queue,
           InterpreterTyped, TypeOK
  <1>2. goal' \in Nat /\ sound' \in [{0, 1} -> BOOLEAN] /\ calls' \in Seq(CallRecord)
    BY CallsTyped DEF PlayerMoves, TypeOK
  <1>3. disc' \in PlayerStates
    BY DEF PlayerMoves, SeekEnds, ChangeEnds, SpinsUp, Rolls, PlayerStates, TypeOK
  <1>4. pos' \in 0..LastFrame /\ active' \in Discs
    BY LDV1000Assumption DEF PlayerMoves, SeekEnds, ChangeEnds, SpinsUp, Rolls, TypeOK
  <1>5. QED
    BY <1>1, <1>2, <1>3, <1>4, TypedIsBoth DEF PlayerTyped

(* Whatever the host writes and whenever it reads, the number keyed has    *)
(* five digits, the delay of a search is never counted below zero, the     *)
(* status is one of the code's and every callback carries a number that    *)
(* the player can use.                                                     *)
THEOREM TypeCorrect == Spec => []TypeOK
  <1>1. Init => TypeOK
    <2> SUFFICES ASSUME Init PROVE TypeOK
      OBVIOUS
    <2>1. InterpreterTyped
      BY ModulusFact DEF Init, InterpreterTyped, Codes, Parked, MinDelay
    <2>2. PlayerTyped
      BY CallsTyped, LDV1000Assumption DEF Init, PlayerTyped, PlayerStates
    <2>3. QED
      BY <2>1, <2>2, TypedIsBoth
  <1>2. TypeOK /\ [Next]_vars => TypeOK'
    <2> SUFFICES ASSUME TypeOK, [Next]_vars PROVE TypeOK'
      OBVIOUS
    <2>1. CASE Reset
      <3>1. PlayerTyped'
        BY <2>1, SilentTyped DEF Reset
      <3>2. InterpreterTyped'
        BY <2>1, ModulusFact DEF Reset, number, InterpreterTyped, TypeOK, Codes, MinDelay
      <3>3. QED
        BY <3>1, <3>2, TypedIsBoth
    <2>2. ASSUME NEW b \in Bytes, Write(b) PROVE TypeOK'
      BY <2>2, WriteTyped
    <2>3. CASE Read
      BY <2>3, ReadTyped
    <2>4. CASE PlayerMoves
      BY <2>4, PlayerMovesTyped
    <2>5. CASE UNCHANGED vars
      BY <2>5 DEF vars, output, number, searching, switching, muting, queue, player, TypeOK
    <2>6. QED
      BY <2>1, <2>2, <2>3, <2>4, <2>5 DEF Next
  <1>3. QED
    BY <1>1, <1>2, PTL DEF Spec
-----------------------------------------------------------------------------
(* A host is a host: whatever it does, the interpreter and the player take *)
(* steps of theirs, so that what Spec promises HostSpec promises.          *)
LEMMA HostStepIsAStep ==
  ASSUME [HostNext]_hostVars
  PROVE  [Next]_vars
  BY Zenon DEF HostNext, HostWrite, HostRead, hostVars, Next

THEOREM HostIsAHost == HostSpec => Spec
  <1>1. HostInit => Init
    BY DEF HostInit
  <1>2. [HostNext]_hostVars => [Next]_vars
    BY HostStepIsAStep
  <1>3. QED
    BY <1>1, <1>2, PTL DEF HostSpec, Spec

THEOREM HostTypeCorrect == HostSpec => []TypeOK
  BY HostIsAHost, TypeCorrect, PTL
-----------------------------------------------------------------------------
(* The sound.  Calls that are quiet say nothing of it.                     *)
Quiet(cs) == \A i \in DOMAIN cs : cs[i].cb \notin {"enable_audio", "disable_audio"}
DoesQuietly == \E cs : Do(cs) /\ Quiet(cs)

(* The calls that set the sound differ from each other and from the rest.  *)
LEMMA SetAudioIs ==
  /\ \A ch \in {0, 1} : /\ SetAudio(ch, TRUE).cb = "enable_audio"
                       /\ SetAudio(ch, FALSE).cb = "disable_audio"
                       /\ SetAudio(ch, TRUE).arg = ch /\ SetAudio(ch, FALSE).arg = ch
  /\ Call("play", 0).cb = "play" /\ Call("change_speed", 4).cb = "change_speed"
  BY DEF SetAudio, Call

(* What a sequence of calls makes the player play depends on the set of    *)
(* the calls alone.                                                        *)
Made(cs) == {cs[i] : i \in DOMAIN cs}

LEMMA MadeIs ==
  /\ Made(<<>>) = {}
  /\ \A c : Made(<<c>>) = {c}
  /\ \A c, d, e, f : Made(<<c, d, e, f>>) = {c, d, e, f}
  /\ \A s, t \in Seq(CallRecord) : Made(s \o t) = Made(s) \cup Made(t)
  <1>1. Made(<<>>) = {}
    BY DEF Made
  <1>2. \A c : Made(<<c>>) = {c}
    BY DEF Made
  <1>3. ASSUME NEW c, NEW d, NEW e, NEW f PROVE Made(<<c, d, e, f>>) = {c, d, e, f}
    <2> DEFINE s == <<c, d, e, f>>
    <2>1. DOMAIN s = {1, 2, 3, 4} /\ s[1] = c /\ s[2] = d /\ s[3] = e /\ s[4] = f
      OBVIOUS
    <2> HIDE DEF s
    <2>2. Made(s) = {c, d, e, f}
      BY <2>1 DEF Made
    <2>3. QED
      BY <2>2 DEF s
  <1>4. ASSUME NEW s \in Seq(CallRecord), NEW t \in Seq(CallRecord)
        PROVE  Made(s \o t) = Made(s) \cup Made(t)
    <2>1. /\ Len(s) \in Nat /\ Len(t) \in Nat
          /\ DOMAIN s = 1..Len(s) /\ DOMAIN t = 1..Len(t)
          /\ DOMAIN (s \o t) = 1..Len(s) + Len(t)
          /\ \A i \in 1..Len(s) : (s \o t)[i] = s[i]
          /\ \A i \in 1..Len(t) : (s \o t)[Len(s) + i] = t[i]
      OBVIOUS
    <2>2. \A i \in 1..Len(s) + Len(t) :
            i \in 1..Len(s) \/ (i - Len(s) \in 1..Len(t) /\ i = Len(s) + (i - Len(s)))
      BY <2>1
    <2>3. /\ \A i \in 1..Len(s) : i \in 1..Len(s) + Len(t)
          /\ \A i \in 1..Len(t) : Len(s) + i \in 1..Len(s) + Len(t)
      BY <2>1
    <2>4. ASSUME NEW c \in Made(s \o t) PROVE c \in Made(s) \cup Made(t)
      <3>1. PICK i \in 1..Len(s) + Len(t) : c = (s \o t)[i]
        BY <2>1 DEF Made
      <3>2. CASE i \in 1..Len(s)
        BY <2>1, <3>1, <3>2 DEF Made
      <3>3. CASE i - Len(s) \in 1..Len(t) /\ i = Len(s) + (i - Len(s))
        <4>1. c = t[i - Len(s)]
          BY <2>1, <3>1, <3>3
        <4>2. QED
          BY <2>1, <3>3, <4>1 DEF Made
      <3>4. QED
        BY <2>2, <3>2, <3>3
    <2>5. Made(s) \subseteq Made(s \o t) /\ Made(t) \subseteq Made(s \o t)
      BY <2>1, <2>3 DEF Made
    <2>6. QED
      BY <2>4, <2>5
  <1>5. QED
    BY <1>1, <1>2, <1>3, <1>4

LEMMA HeardIs ==
  ASSUME NEW cs, Do(cs), NEW ch \in {0, 1}
  PROVE  sound'[ch] = IF SetAudio(ch, TRUE) \in Made(cs) THEN TRUE
                      ELSE IF SetAudio(ch, FALSE) \in Made(cs) THEN FALSE
                      ELSE sound[ch]
  BY Zenon DEF Do, Hears, Made

LEMMA UnmuteMakes ==
  Made(<<Call("play", 0)>> \o Unmute)
    = {Call("play", 0)} \cup {SetAudio(ch, TRUE) : ch \in {c \in {0, 1} : tempMute /\ audio[c]}}
  <1> DEFINE a == IF audio[0] THEN <<SetAudio(0, TRUE)>> ELSE <<>>
             c == IF audio[1] THEN <<SetAudio(1, TRUE)>> ELSE <<>>
  <1>1. /\ <<SetAudio(0, TRUE)>> \in Seq(CallRecord) /\ <<SetAudio(1, TRUE)>> \in Seq(CallRecord)
        /\ <<>> \in Seq(CallRecord) /\ <<Call("play", 0)>> \in Seq(CallRecord)
    BY SetAudioTyped, CallTyped, CallsTyped DEF Callbacks
  <1>2. a \in Seq(CallRecord) /\ c \in Seq(CallRecord)
    BY <1>1
  <1>3. Made(a) = IF audio[0] THEN {SetAudio(0, TRUE)} ELSE {}
    BY MadeIs, Zenon
  <1>4. Made(c) = IF audio[1] THEN {SetAudio(1, TRUE)} ELSE {}
    BY MadeIs, Zenon
  <1>5. Unmute = IF ~tempMute THEN <<>> ELSE a \o c
    BY Zenon DEF Unmute
  <1> HIDE DEF a, c
  <1>6. Made(a \o c) = Made(a) \cup Made(c) /\ a \o c \in Seq(CallRecord)
    BY <1>2, MadeIs
  <1>7. Unmute \in Seq(CallRecord) /\ Made(Unmute) = IF tempMute THEN Made(a) \cup Made(c) ELSE {}
    BY <1>1, <1>5, <1>6, MadeIs, Zenon
  <1>8. Made(<<Call("play", 0)>> \o Unmute) = {Call("play", 0)} \cup Made(Unmute)
    BY <1>1, <1>7, MadeIs
  <1>9. QED
    BY <1>3, <1>4, <1>7, <1>8

LEMMA QuietKeepsSound ==
  ASSUME TypeOK, DoesQuietly
  PROVE  sound' = sound
  <1>1. PICK cs : Do(cs) /\ Quiet(cs)
    BY DEF DoesQuietly
  <1>2. \A ch \in {0, 1}, i \in DOMAIN cs :
          cs[i] # SetAudio(ch, TRUE) /\ cs[i] # SetAudio(ch, FALSE)
    <2>1. \A i \in DOMAIN cs : cs[i].cb # "enable_audio" /\ cs[i].cb # "disable_audio"
      BY <1>1 DEF Quiet
    <2>2. QED
      BY <2>1, SetAudioIs, Zenon
  <1>3. sound' = [ch \in {0, 1} |-> sound[ch]]
    BY <1>1, <1>2, Zenon DEF Do, Hears
  <1>4. QED
    BY <1>3 DEF TypeOK

LEMMA QuietCalls ==
  /\ Quiet(<<>>)
  /\ Quiet(<<Error>>) /\ Quiet(<<Error, Error>>)
  /\ \A cb \in Callbacks \ {"enable_audio", "disable_audio"} : \A arg : Quiet(<<Call(cb, arg)>>)
  BY DEF Quiet, Error, Call, Callbacks

LEMMA OneCallQuiet == \A b \in OneCall : Quiet(<<CallOf(b)>>)
  <1> SUFFICES ASSUME NEW b \in OneCall PROVE Quiet(<<CallOf(b)>>)
    OBVIOUS
  <1>1. CallOf(b).cb \in {"pause", "change_speed", "skip_forward", "skip_backward",
                         "change_super_mode"}
    BY DEF CallOf, OneCall, Call
  <1>2. QED
    BY <1>1 DEF Quiet

(* Every byte written is quiet of the sound and leaves what the host has   *)
(* enabled, except for three commands.                                     *)
LEMMA WriteQuiet ==
  ASSUME NEW b \in Bytes, Write(b)
  PROVE  \/ DoesQuietly /\ UNCHANGED muting
         \/ SwitchAudio(b) \/ PlayDisc(b)
         \/ PlayForward(b) /\ disc # "PLAYING"
  <1> Quiet(<<>>)
    BY QuietCalls
  <1>1. CASE WriteBusy(b) \/ DropDiscId(b)
    BY <1>1, Zenon DEF WriteBusy, DropDiscId, DoesQuietly
  <1>2. CASE TakeDiscId(b)
    <2>1. Quiet(<<Call("begin_changing_to_disc", b)>>)
      BY QuietCalls DEF Callbacks
    <2>2. QED
      BY <1>2, <2>1, Zenon DEF TakeDiscId, DoesQuietly
  <1>3. CASE Digit(b) \/ ClearDigits(b) \/ RejectDisc(b) \/ Query(b) \/ ExpectDiscId(b)
    BY <1>3, Zenon DEF Digit, ClearDigits, RejectDisc, Query, ExpectDiscId, DoesQuietly
  <1>4. CASE CallPlayer(b)
    BY <1>4, OneCallQuiet, Zenon DEF CallPlayer, DoesQuietly
  <1>5. CASE PlayUntil(b) \/ Still(b) \/ BeginSearch(b) \/ ChangeDelay(b)
    <2>1. \A cb \in {"play", "pause", "step_reverse", "begin_search", "change_spinup_delay",
                     "change_seek_delay"} : \A arg : Quiet(<<Call(cb, arg)>>)
      BY QuietCalls DEF Callbacks
    <2>2. QED
      BY <1>5, <2>1, Zenon DEF PlayUntil, Still, BeginSearch, ChangeDelay, DoesQuietly, muting
  <1>6. CASE DoNothing(b)
    BY <1>6, QuietCalls, Zenon DEF DoNothing, DoesQuietly
  <1>7. CASE PlayForward(b) /\ disc = "PLAYING"
    <2>1. Quiet(<<Call("change_speed", 4)>>)
      BY QuietCalls DEF Callbacks
    <2>2. Do(<<Call("change_speed", 4)>>) /\ UNCHANGED muting
      BY <1>7 DEF PlayForward, muting
    <2>3. QED
      BY <2>1, <2>2, Zenon DEF DoesQuietly
  <1>8. QED
    BY <1>1, <1>2, <1>3, <1>4, <1>5, <1>6, <1>7, Zenon DEF Write, Command

LEMMA ReadQuiet == Read => DoesQuietly /\ UNCHANGED muting
  <1>1. Read => Do(<<>>) \/ Do(<<Error>>) \/ Do(<<Call("pause", 0)>>)
    BY Zenon
       DEF Read, ReadData, ReadStatus, SearchDelays, SearchEnds, SearchGoesOn, SwitchEnds,
           SwitchUnexpected, SwitchGoesOn, StopNow, NothingPending
  <1>2. Quiet(<<Call("pause", 0)>>)
    BY QuietCalls DEF Callbacks
  <1>3. Read => UNCHANGED muting
    BY DEF Read, ReadData, ReadStatus
  <1>4. QED
    BY <1>1, <1>2, <1>3, QuietCalls, Zenon DEF DoesQuietly

(* What the player was told to play follows from what the host enabled:    *)
(* while FORWARD 1X mutes it, it may be less and is never more.            *)
SoundInv ==
  \A ch \in {0, 1} :
    IF tempMute THEN sound[ch] => audio[ch] ELSE sound[ch] = audio[ch]

LEMMA SoundStep ==
  ASSUME ~Resets, TypeOK, SoundInv, [Next]_vars
  PROVE  SoundInv'
  <1> audio \in [{0, 1} -> BOOLEAN] /\ sound \in [{0, 1} -> BOOLEAN] /\ tempMute \in BOOLEAN
    BY DEF TypeOK
  <1>1. CASE sound' = sound /\ UNCHANGED muting
    BY <1>1 DEF SoundInv, muting
  <1>2. ASSUME NEW b \in Bytes, SwitchAudio(b) PROVE SoundInv'
    <2>1. PICK ch \in {0, 1}, on \in BOOLEAN :
            audio' = [audio EXCEPT ![ch] = on] /\ Do(<<SetAudio(ch, on)>>)
      BY <1>2, Zenon DEF SwitchAudio
    <2>2. tempMute' = tempMute
      BY <1>2 DEF SwitchAudio
    <2>3. \A c \in {0, 1} : sound'[c] = IF c = ch THEN on ELSE sound[c]
      <3> SUFFICES ASSUME NEW c \in {0, 1} PROVE sound'[c] = IF c = ch THEN on ELSE sound[c]
        OBVIOUS
      <3>1. Made(<<SetAudio(ch, on)>>) = {SetAudio(ch, on)}
        BY MadeIs
      <3>2. on = TRUE \/ on = FALSE
        OBVIOUS
      <3>3. /\ (SetAudio(ch, on) = SetAudio(c, TRUE)) <=> (c = ch /\ on = TRUE)
            /\ (SetAudio(ch, on) = SetAudio(c, FALSE)) <=> (c = ch /\ on = FALSE)
        BY <3>2, SetAudioIs
      <3>4. QED
        BY <2>1, <3>1, <3>2, <3>3, HeardIs
    <2>4. \A c \in {0, 1} : audio'[c] = IF c = ch THEN on ELSE audio[c]
      BY <2>1
    <2>5. QED
      BY <2>2, <2>3, <2>4 DEF SoundInv
  <1>3. ASSUME NEW b \in Bytes, PlayForward(b), disc # "PLAYING" PROVE SoundInv'
    <2>1. /\ tempMute' = TRUE /\ audio' = audio
          /\ Do(<<Call("play", 0), SetAudio(0, FALSE), SetAudio(1, FALSE),
                  Call("change_speed", 4)>>)
      BY <1>3 DEF PlayForward
    <2>2. \A ch \in {0, 1} : sound'[ch] = FALSE
      <3> SUFFICES ASSUME NEW ch \in {0, 1} PROVE sound'[ch] = FALSE
        OBVIOUS
      <3> DEFINE all == {Call("play", 0), SetAudio(0, FALSE), SetAudio(1, FALSE),
                         Call("change_speed", 4)}
      <3>1. Made(<<Call("play", 0), SetAudio(0, FALSE), SetAudio(1, FALSE),
                   Call("change_speed", 4)>>) = all
        <4>1. PICK p, q, r, t : /\ p = Call("play", 0) /\ q = SetAudio(0, FALSE)
                               /\ r = SetAudio(1, FALSE) /\ t = Call("change_speed", 4)
          OBVIOUS
        <4>2. Made(<<p, q, r, t>>) = {p, q, r, t}
          BY MadeIs
        <4>3. QED
          BY <4>1, <4>2, Zenon
      <3>2. SetAudio(ch, FALSE) \in all
        BY Zenon
      <3>3. \A c \in all : c.cb # "enable_audio"
        BY SetAudioIs
      <3>4. SetAudio(ch, TRUE) \notin all
        BY <3>3, SetAudioIs, Zenon
      <3>5. QED
        BY <2>1, <3>1, <3>2, <3>4, HeardIs, Zenon
    <2>3. QED
      BY <2>1, <2>2 DEF SoundInv
  <1>4. ASSUME NEW b \in Bytes, PlayDisc(b) PROVE SoundInv'
    <2>1. tempMute' = FALSE /\ audio' = audio /\ Do(<<Call("play", 0)>> \o Unmute)
      BY <1>4 DEF PlayDisc
    <2>2. \A ch \in {0, 1} : sound'[ch] = IF tempMute /\ audio[ch] THEN TRUE ELSE sound[ch]
      <3> SUFFICES ASSUME NEW ch \in {0, 1}
                   PROVE  sound'[ch] = IF tempMute /\ audio[ch] THEN TRUE ELSE sound[ch]
        OBVIOUS
      <3> DEFINE on == {c \in {0, 1} : tempMute /\ audio[c]}
                 all == {Call("play", 0)} \cup {SetAudio(c, TRUE) : c \in on}
      <3>1. \A c \in all : c.cb # "disable_audio"
        BY SetAudioIs
      <3>2. SetAudio(ch, FALSE) \notin all
        BY <3>1, SetAudioIs, Zenon
      <3>3. SetAudio(ch, TRUE) \in all => ch \in on
        BY SetAudioIs
      <3>4. ch \in on => SetAudio(ch, TRUE) \in all
        BY Zenon
      <3>5. ch \in on <=> tempMute /\ audio[ch]
        OBVIOUS
      <3>6. QED
        BY <2>1, <3>2, <3>3, <3>4, <3>5, UnmuteMakes, HeardIs, Zenon
    <2>3. QED
      BY <2>1, <2>2 DEF SoundInv
  <1>5. CASE Read
    BY <1>1, <1>5, ReadQuiet, QuietKeepsSound
  <1>6. CASE PlayerMoves
    BY <1>1, <1>6 DEF PlayerMoves, interpreter
  <1>7. CASE UNCHANGED vars
    BY <1>1, <1>7 DEF vars, player
  <1>8. ASSUME NEW b \in Bytes, Write(b) PROVE SoundInv'
    BY <1>1, <1>2, <1>3, <1>4, <1>8, WriteQuiet, QuietKeepsSound, Zenon
  <1>9. QED
    BY <1>5, <1>6, <1>7, <1>8 DEF Next, Reset

(* Unless the implementor resets the interpreter while it runs, the player *)
(* plays the channels the host enabled, except while FORWARD 1X mutes it,  *)
(* whatever is written, read, searched or switched in between.             *)
THEOREM SoundFollows == ~Resets => (HostSpec => []SoundIsAsSet)
  <1> SUFFICES ASSUME ~Resets PROVE HostSpec => []SoundIsAsSet
    OBVIOUS
  <1>1. Init => SoundInv
    BY DEF Init, SoundInv
  <1>2. TypeOK /\ SoundInv /\ [Next]_vars => SoundInv'
    BY SoundStep
  <1>3. TypeOK /\ SoundInv => SoundIsAsSet
    BY DEF TypeOK, SoundInv, SoundIsAsSet
  <1>4. QED
    BY <1>1, <1>2, <1>3, HostIsAHost, TypeCorrect, PTL DEF Spec
-----------------------------------------------------------------------------
(* The reply queue.  A query puts five bytes, one, or the list of the      *)
(* discs in it.                                                            *)
LEMMA WriteQueues ==
  ASSUME NEW b \in Bytes, Write(b)
  PROVE  \/ UNCHANGED queue
         \/ b \in Queries /\ \E n \in {5, 1, Cardinality(Discs) + 1} : PushBytes(n)
  <1>1. CASE WriteBusy(b) \/ DropDiscId(b) \/ TakeDiscId(b)
    BY <1>1, Zenon DEF WriteBusy, DropDiscId, TakeDiscId
  <1>2. CASE Query(b)
    BY <1>2, Zenon DEF Query, Queries
  <1>3. CASE Command(b) /\ ~Query(b)
    BY <1>3, Zenon
       DEF Command, Digit, ClearDigits, SwitchAudio, CallPlayer, PlayForward, RejectDisc,
           PlayUntil, PlayDisc, Still, BeginSearch, ExpectDiscId, ChangeDelay, DoNothing
  <1>4. QED
    BY <1>1, <1>2, <1>3 DEF Write

(* A host that reads each reply before it asks for another never makes the *)
(* queue fail, whatever else it writes, as long as the list of the discs   *)
(* fits in it.                                                             *)
THEOREM QueueHolds ==
  ReadsReplies /\ Cardinality(Discs) + 1 < QueueSize => (HostSpec => []QueueAssertions)
  <1> SUFFICES ASSUME ReadsReplies, Cardinality(Discs) + 1 < QueueSize
               PROVE  HostSpec => []QueueAssertions
    OBVIOUS
  <1>1. HostInit => QueueAssertions
    BY DEF HostInit, Init, QueueAssertions
  <1>2. QueueAssertions /\ [HostNext]_hostVars => QueueAssertions'
    <2> SUFFICES ASSUME ~aborted, [HostNext]_hostVars PROVE ~aborted'
      BY DEF QueueAssertions
    <2>1. ASSUME NEW b \in Bytes, HostWrite(b) PROVE ~aborted'
      <3>1. \/ UNCHANGED queue
            \/ b \in Queries /\ \E n \in {5, 1, Cardinality(Discs) + 1} : PushBytes(n)
        BY <2>1, WriteQueues DEF HostWrite
      <3>2. CASE UNCHANGED queue
        BY <3>2 DEF queue
      <3>3. CASE b \in Queries /\ \E n \in {5, 1, Cardinality(Discs) + 1} : PushBytes(n)
        <4>1. waiting = 0
          BY <2>1, <3>3 DEF HostWrite, Sends
        <4>2. PICK n \in {5, 1, Cardinality(Discs) + 1} : PushBytes(n)
          BY <3>3
        <4>3. n \in Nat /\ n < QueueSize
          BY ListTyped DEF QueueSize
        <4>4. ~(waiting + n >= QueueSize)
          BY <4>1, <4>3 DEF QueueSize
        <4>5. QED
          BY <4>2, <4>4 DEF PushBytes
      <3>4. QED
        BY <3>1, <3>2, <3>3
    <2>2. CASE HostRead \/ Reset \/ PlayerMoves \/ UNCHANGED hostVars
      BY <2>2, Zenon
         DEF HostRead, Read, ReadData, ReadStatus, Reset, PlayerMoves, interpreter,
             hostVars, vars, queue
    <2>3. QED
      BY <2>1, <2>2, Zenon DEF HostNext
  <1>3. QED
    BY <1>1, <1>2, PTL DEF HostSpec
-----------------------------------------------------------------------------
(* The busy reads of a search.  Only BeginSearch begins one.               *)
BeginsNone(cs) == cs = <<>> \/ cs[1].cb # "begin_search"

LEMMA FirstCall ==
  /\ \A c : <<c>> # <<>> /\ <<c>>[1] = c
  /\ \A c, d : <<c, d>>[1] = c
  /\ \A c, d, e, f : <<c, d, e, f>>[1] = c
  /\ \A cb, arg : Call(cb, arg).cb = cb
  BY DEF Call

LEMMA OneCallBeginsNone == \A b \in OneCall : BeginsNone(<<CallOf(b)>>)
  <1> SUFFICES ASSUME NEW b \in OneCall PROVE BeginsNone(<<CallOf(b)>>)
    OBVIOUS
  <1>1. CallOf(b).cb \in {"pause", "change_speed", "skip_forward", "skip_backward",
                         "change_super_mode"}
    BY DEF CallOf, OneCall, Call
  <1>2. QED
    BY <1>1 DEF BeginsNone

LEMMA PlayBeginsNone == BeginsNone(<<Call("play", 0)>> \o Unmute)
  <1>1. <<Call("play", 0)>> \in Seq(CallRecord) /\ Unmute \in Seq(CallRecord)
    BY UnmuteTyped
  <1>2. (<<Call("play", 0)>> \o Unmute)[1] = Call("play", 0)
    BY <1>1
  <1>3. QED
    BY <1>2, FirstCall DEF BeginsNone

LEMMA WriteSearches ==
  ASSUME NEW b \in Bytes, Write(b)
  PROVE  \/ BeginSearch(b) /\ calls' # <<>> /\ calls'[1].cb = "begin_search"
         \/ UNCHANGED searching /\ BeginsNone(calls')
  <1> BeginsNone(<<>>)
    BY DEF BeginsNone
  <1>0. \A cs : Do(cs) => calls' = cs
    BY DEF Do
  <1>1. CASE WriteBusy(b) \/ DropDiscId(b)
    BY <1>0, <1>1, Zenon DEF WriteBusy, DropDiscId
  <1>2. CASE TakeDiscId(b)
    <2>1. BeginsNone(<<Call("begin_changing_to_disc", b)>>)
      BY FirstCall DEF BeginsNone
    <2>2. QED
      BY <1>0, <1>2, <2>1, Zenon DEF TakeDiscId
  <1>3. CASE \/ Digit(b) \/ ClearDigits(b) \/ RejectDisc(b) \/ Query(b) \/ ExpectDiscId(b)
    BY <1>0, <1>3, Zenon DEF Digit, ClearDigits, RejectDisc, Query, ExpectDiscId
  <1>4. CASE CallPlayer(b)
    BY <1>0, <1>4, OneCallBeginsNone, Zenon DEF CallPlayer
  <1>5. CASE PlayUntil(b) \/ Still(b) \/ ChangeDelay(b)
    <2>1. \A cb \in {"play", "pause", "step_reverse", "change_spinup_delay",
                     "change_seek_delay"} : \A arg : BeginsNone(<<Call(cb, arg)>>)
      BY FirstCall DEF BeginsNone
    <2>2. QED
      BY <1>0, <1>5, <2>1, Zenon DEF PlayUntil, Still, ChangeDelay
  <1>6. CASE DoNothing(b)
    <2>1. BeginsNone(<<Error, Error>>)
      BY FirstCall DEF BeginsNone, Error
    <2>2. QED
      BY <1>0, <1>6, <2>1, Zenon DEF DoNothing
  <1>7. CASE SwitchAudio(b)
    <2>1. \A ch \in {0, 1}, on \in BOOLEAN : BeginsNone(<<SetAudio(ch, on)>>)
      BY FirstCall DEF BeginsNone, SetAudio
    <2>2. \E ch \in {0, 1}, on \in BOOLEAN : Do(<<SetAudio(ch, on)>>)
      BY <1>7, Zenon DEF SwitchAudio
    <2>3. UNCHANGED searching
      BY <1>7, Zenon DEF SwitchAudio
    <2>4. QED
      BY <1>0, <2>1, <2>2, <2>3, Zenon
  <1>8. CASE PlayForward(b)
    <2>1. /\ BeginsNone(<<Call("play", 0), SetAudio(0, FALSE), SetAudio(1, FALSE),
                          Call("change_speed", 4)>>)
          /\ BeginsNone(<<Call("change_speed", 4)>>)
      BY FirstCall DEF BeginsNone
    <2>2. QED
      BY <1>0, <1>8, <2>1, Zenon DEF PlayForward
  <1>9. CASE PlayDisc(b)
    BY <1>0, <1>9, PlayBeginsNone, Zenon DEF PlayDisc
  <1>10. CASE BeginSearch(b)
    <2>1. calls' = <<Call("begin_search", frame)>>
      BY <1>0, <1>10 DEF BeginSearch
    <2>2. QED
      BY <1>10, <2>1, FirstCall, Zenon
  <1>11. QED
    BY <1>1, <1>2, <1>3, <1>4, <1>5, <1>6, <1>7, <1>8, <1>9, <1>10, Zenon DEF Write, Command

(* The delay left and the busy reads there have been add up to the delay a *)
(* search began with, or to more.                                          *)
DelayInv ==
  /\ busyReads \in 0..4
  /\ searchPending => delay + busyReads >= MinDelay

LEMMA DelayStep ==
  ASSUME TypeOK, DelayInv, [HostNext]_hostVars
  PROVE  DelayInv'
  <1> USE DEF MinDelay
  <1> searchPending \in BOOLEAN /\ delay \in Nat /\ busyReads \in 0..4
    BY DEF TypeOK, DelayInv
  <1>1. ASSUME NEW b \in Bytes, HostWrite(b) PROVE DelayInv'
    <2>1. CASE BeginSearch(b) /\ calls' # <<>> /\ calls'[1].cb = "begin_search"
      <3>1. busyReads' = 0 /\ delay' = 4
        BY <1>1, <2>1 DEF HostWrite, BeginSearch, StartDelay
      <3>2. QED
        BY <3>1 DEF DelayInv
    <2>2. CASE UNCHANGED searching /\ BeginsNone(calls')
      <3>1. busyReads' = busyReads
        BY <1>1, <2>2, Zenon DEF HostWrite, BeginsNone
      <3>2. QED
        BY <2>2, <3>1 DEF DelayInv, searching
    <2>3. QED
      BY <1>1, <2>1, <2>2, WriteSearches DEF HostWrite
  <1>2. CASE HostRead
    <2>1. CASE SearchDelays /\ waiting = 0
      <3>1. result' = Searched /\ searchPending
        BY <1>2, <2>1 DEF HostRead, Read, ReadData, ReadStatus, SearchDelays, StatusByte
      <3>2. busyReads' = IF busyReads < 4 THEN busyReads + 1 ELSE busyReads
        BY <1>2, <3>1 DEF HostRead
      <3>3. delay' = delay - 1 /\ delay > 0
        BY <2>1 DEF SearchDelays, CountDown, Delayed
      <3>4. QED
        BY <3>1, <3>2, <3>3 DEF DelayInv
    <2>2. CASE searchPending' = FALSE \/ UNCHANGED searching
      <3>1. busyReads' = busyReads \/ (busyReads < 4 /\ busyReads' = busyReads + 1)
        BY <1>2 DEF HostRead
      <3>2. QED
        BY <2>2, <3>1 DEF DelayInv, searching
    <2>3. QED
      BY <1>2, <2>1, <2>2, Zenon
         DEF HostRead, Read, ReadData, ReadStatus, SearchEnds, SearchGoesOn, SwitchEnds,
             SwitchUnexpected, SwitchGoesOn, StopNow, NothingPending
  <1>3. CASE Reset /\ busyReads' = 0 /\ entered' = TRUE
    BY <1>3 DEF Reset, DelayInv
  <1>4. CASE \/ PlayerMoves /\ UNCHANGED ghosts
             \/ UNCHANGED hostVars
    BY <1>4 DEF PlayerMoves, interpreter, searching, hostVars, vars, ghosts, DelayInv
  <1>5. QED
    BY <1>1, <1>2, <1>3, <1>4, Zenon DEF HostNext

(* A search reads as busy for at least four fields, for every host and for *)
(* a disc of any size, however the player is and whatever is written.      *)
THEOREM SearchesLast == HostSpec => SearchLastsFourReads
  <1>1. HostInit => DelayInv
    BY DEF HostInit, Init, DelayInv
  <1>2. TypeOK /\ DelayInv /\ [HostNext]_hostVars => DelayInv'
    BY DelayStep
  <1>3. TypeOK /\ DelayInv => [HostRead /\ searchPending /\ ~searchPending' => busyReads >= 4]_hostVars
    <2> SUFFICES ASSUME TypeOK, DelayInv, HostRead, searchPending, ~searchPending'
                 PROVE  busyReads >= 4
      OBVIOUS
    <2>1. ~Delayed
      BY Zenon
         DEF HostRead, Read, ReadData, ReadStatus, SearchDelays, SearchEnds, SearchGoesOn,
             SwitchEnds, SwitchUnexpected, SwitchGoesOn, StopNow, NothingPending, searching
    <2>2. QED
      BY <2>1 DEF Delayed, TypeOK, DelayInv, MinDelay
  <1>4. QED
    BY <1>1, <1>2, <1>3, HostTypeCorrect, PTL DEF HostSpec, SearchLastsFourReads
-----------------------------------------------------------------------------
(* A patient host.  Nothing else is due while a search or a disc change is *)
(* pending, one of the two at most is, the player is at it or has ended    *)
(* it, and the status says that it is.                                     *)
PatientInv ==
  /\ ~(expectsId /\ (searchPending \/ switchPending))
  /\ ~(searchPending /\ switchPending)
  /\ searchPending => disc \in {"SEARCHING", "PAUSED", "ERROR"}
  /\ switchPending => disc \in {"DISC_SWITCHING", "STOPPED", "ERROR"}
  /\ searchPending \/ switchPending => code = Searched

(* A command that does not begin a search or expect a disc id.             *)
LEMMA CommandPends ==
  ASSUME NEW b \in Bytes, Command(b), ~BeginSearch(b), ~ExpectDiscId(b)
  PROVE  UNCHANGED <<searchPending, switching>>
  BY Zenon
     DEF Command, Digit, ClearDigits, SwitchAudio, CallPlayer, PlayForward, RejectDisc,
         PlayUntil, PlayDisc, Still, Query, ChangeDelay, DoNothing, searching

LEMMA SilentDisc == Do(<<>>) => disc' = disc
  BY DEF Do

LEMMA PatientWrite ==
  ASSUME Patient, TypeOK, PatientInv, NEW b \in Bytes, HostWrite(b)
  PROVE  PatientInv'
  <1> USE DEF searching, switching
  <1>1. CASE searchPending \/ switchPending
    <2>1. b = NoEntry /\ ~expectsId
      BY <1>1 DEF HostWrite, Sends, PatientInv
    <2>2. WriteBusy(b) \/ DoNothing(b)
      <3>1. /\ b \notin DigitBytes /\ b \notin OneCall
            /\ b \notin {Clear, Audio1, Audio2, Forward1X, Reject, AutoStop, PlayCmd,
                        StepReverse, Search, Stop, SwitchDisc, SpinupDelay, SeekDelay,
                        FrameQuery, Hello, ListDiscs, WhichDisc}
        BY <2>1
           DEF NoEntry, DigitBytes, OneCall, Clear, Audio1, Audio2, Forward1X, Reject,
               AutoStop, PlayCmd, StepReverse, Search, Stop, SwitchDisc, SpinupDelay,
               SeekDelay, FrameQuery, Hello, ListDiscs, WhichDisc
      <3>2. \A ch \in {0, 1} : b # (IF ch = 0 THEN Audio1 ELSE Audio2)
        BY <3>1, Zenon
      <3>3. QED
        BY <2>1, <3>1, <3>2, Zenon
           DEF HostWrite, Write, DropDiscId, TakeDiscId, Command, Digit, ClearDigits,
               SwitchAudio, CallPlayer, PlayForward, RejectDisc, PlayUntil, PlayDisc, Still,
               BeginSearch, Query, ExpectDiscId, ChangeDelay
    <2>3. NoEntry \in Known
      BY DEF Known
    <2>4. Do(<<>>) /\ UNCHANGED <<code, searchPending, switching>>
      <3>1. NoEntry \notin Ignored
        BY DEF NoEntry, Ignored
      <3>2. QED
        BY <2>1, <2>2, <2>3, <3>1, Zenon DEF WriteBusy, DoNothing
    <2>5. QED
      BY <2>4, SilentDisc DEF PatientInv
  <1>2. CASE ~searchPending /\ ~switchPending
    <2>1. CASE WriteBusy(b) \/ DropDiscId(b)
      BY <1>2, <2>1 DEF WriteBusy, DropDiscId, PatientInv
    <2>2. CASE TakeDiscId(b)
      <3>1. /\ expectsId' = FALSE /\ searchPending' = searchPending /\ code' = Searched
            /\ switchPending' = (active # b)
        BY <2>2 DEF TakeDiscId
      <3>2. active # b => disc' = "DISC_SWITCHING"
        BY <2>2, FirstCall DEF TakeDiscId, Do, Moves
      <3>3. QED
        BY <1>2, <3>1, <3>2 DEF PatientInv
    <2>3. CASE Command(b) /\ BeginSearch(b)
      <3>1. searchPending' = TRUE /\ UNCHANGED switching /\ code' = Searched
        BY <2>3, Zenon DEF BeginSearch
      <3>2. disc' = "SEARCHING"
        BY <2>3, FirstCall DEF BeginSearch, Do, Moves
      <3>3. ~expectsId
        BY <2>3 DEF Command
      <3>4. QED
        BY <1>2, <3>1, <3>2, <3>3 DEF PatientInv
    <2>4. CASE ExpectDiscId(b)
      BY <1>2, <2>4 DEF ExpectDiscId, PatientInv
    <2>5. CASE Command(b) /\ ~BeginSearch(b) /\ ~ExpectDiscId(b)
      BY <1>2, <2>5, CommandPends DEF PatientInv
    <2>6. QED
      BY <2>1, <2>2, <2>3, <2>4, <2>5, Zenon DEF HostWrite, Write
  <1>3. QED
    BY <1>1, <1>2

(* What a read leaves of what is pending.                                  *)
LEMMA PatientRead ==
  ASSUME TypeOK, PatientInv, Read
  PROVE  PatientInv'
  <1> USE DEF output, searching, switching
  <1>1. CASE ReadData
    BY <1>1, SilentDisc DEF ReadData, PatientInv
  <1>2. CASE waiting = 0 /\ searchPending
    <2>1. ~expectsId /\ ~switchPending /\ disc \in {"SEARCHING", "PAUSED", "ERROR"} /\ code = Searched
      BY <1>2 DEF PatientInv
    <2> ~ReadData
      BY <1>2 DEF ReadData
    <2>2. /\ SearchDelays \/ SearchEnds \/ SearchGoesOn
          /\ UNCHANGED switching
      BY <1>2, Zenon
         DEF Read, ReadStatus, SearchDelays, SearchEnds, SearchGoesOn, SwitchEnds,
             SwitchUnexpected, SwitchGoesOn, StopNow, NothingPending
    <2>3. disc' = disc
      <3>1. Do(<<>>) \/ Do(<<Error>>)
        BY <2>2, Zenon DEF SearchDelays, SearchEnds, SearchGoesOn
      <3>2. Do(<<Error>>) => disc' = disc
        BY FirstCall DEF Do, Moves, Error
      <3>3. QED
        BY <3>1, <3>2, SilentDisc
    <2>4. searchPending' = FALSE \/ (searchPending' = searchPending /\ code' = code)
      BY <2>2, Zenon DEF SearchDelays, SearchEnds, SearchGoesOn
    <2>5. QED
      BY <1>2, <2>1, <2>2, <2>3, <2>4 DEF PatientInv
  <1>3. CASE waiting = 0 /\ ~searchPending /\ switchPending
    <2>1. ~expectsId /\ disc \in {"DISC_SWITCHING", "STOPPED", "ERROR"} /\ code = Searched
      BY <1>3 DEF PatientInv
    <2> ~ReadData
      BY <1>3 DEF ReadData
    <2>2. SwitchEnds \/ SwitchGoesOn
      BY <1>3, <2>1, Zenon
         DEF Read, ReadStatus, SearchDelays, SearchEnds, SearchGoesOn,
             SwitchUnexpected, StopNow, NothingPending
    <2>3. /\ disc' = disc /\ searchPending' = searchPending /\ expectsId' = expectsId
          /\ switchPending' = FALSE \/ (switchPending' = switchPending /\ code' = code)
      BY <2>2, SilentDisc DEF SwitchEnds, SwitchGoesOn, SwitchOff
    <2>4. QED
      BY <1>3, <2>1, <2>3 DEF PatientInv
  <1>4. CASE ~ReadData /\ ~searchPending /\ ~switchPending
    <2>1. StopNow \/ NothingPending
      BY <1>4, Zenon
         DEF Read, ReadStatus, SearchDelays, SearchEnds, SearchGoesOn, SwitchEnds,
             SwitchUnexpected, SwitchGoesOn
    <2>2. UNCHANGED <<searching, switching>>
      BY <2>1 DEF StopNow, NothingPending
    <2>3. QED
      BY <1>4, <2>2 DEF PatientInv
  <1>5. QED
    BY <1>1, <1>2, <1>3, <1>4, Zenon DEF Read, ReadStatus, TypeOK

LEMMA PatientStep ==
  ASSUME Patient, TypeOK, PatientInv, [HostNext]_hostVars
  PROVE  PatientInv'
  <1>1. CASE PlayerMoves
    BY <1>1
       DEF PlayerMoves, SeekEnds, ChangeEnds, SpinsUp, Rolls, interpreter, output, searching,
           switching, PatientInv
  <1>2. CASE Reset
    BY <1>2 DEF Reset, PatientInv
  <1>3. CASE UNCHANGED hostVars
    BY <1>3 DEF hostVars, vars, output, searching, switching, player, PatientInv
  <1>4. QED
    BY <1>1, <1>2, <1>3, PatientWrite, PatientRead, Zenon DEF HostNext, HostRead

(* A host that waits for what it began is told by the byte it reads when a *)
(* search or a disc change failed, and is not shown the busy status then.  *)
THEOREM FailureReported == Patient => (HostSpec => FailureIsReported)
  <1> SUFFICES ASSUME Patient PROVE HostSpec => FailureIsReported
    OBVIOUS
  <1>1. HostInit => PatientInv
    BY DEF HostInit, Init, PatientInv
  <1>2. TypeOK /\ PatientInv /\ [HostNext]_hostVars => PatientInv'
    BY PatientStep
  <1>3. PatientInv =>
          [HostRead /\ code # Failed /\ code' = Failed => result' = Failed + 128]_hostVars
    <2> SUFFICES ASSUME PatientInv, HostRead, code # Failed, code' = Failed
                 PROVE  result' = Failed + 128
      OBVIOUS
    <2>1. Failed # Searched /\ Failed # Stopped
      BY DEF Failed, Searched, Stopped
    <2>2. /\ ready' = TRUE /\ result' = StatusByte /\ disc = "ERROR"
          /\ searchPending' = FALSE /\ switchPending' = FALSE
      <3>1. ~ReadData /\ code' # code
        BY DEF ReadData, output
      <3>2. /\ waiting = 0 /\ result' = StatusByte
            /\ SearchEnds \/ SwitchEnds \/ SwitchUnexpected
        BY <2>1, <3>1, Zenon
           DEF HostRead, Read, ReadStatus, SearchDelays, SearchGoesOn, SwitchGoesOn, StopNow,
               NothingPending, output
      <3>3. CASE SearchEnds
        BY <2>1, <3>2, <3>3 DEF SearchEnds, switching, PatientInv
      <3>4. CASE SwitchEnds \/ SwitchUnexpected
        BY <2>1, <3>2, <3>4
           DEF SwitchEnds, SwitchUnexpected, SwitchOff, searching, PatientInv
      <3>5. QED
        BY <3>2, <3>3, <3>4
    <2>3. QED
      BY <2>2, Zenon DEF StatusByte
  <1>4. QED
    BY <1>1, <1>2, <1>3, HostTypeCorrect, PTL DEF HostSpec, FailureIsReported

(* The standard player is ready only for a host that wrote NO ENTRY, or    *)
(* after a failure.                                                        *)
EntryInv == ready => entered \/ code = Failed

LEMMA EntryStep ==
  ASSUME Patient, Type = "STANDARD", TypeOK, PatientInv, EntryInv, [HostNext]_hostVars
  PROVE  EntryInv'
  <1> USE DEF output
  <1>0. Accepting <=> ready
    BY DEF Accepting
  <1>1. ASSUME NEW b \in Bytes, HostWrite(b) PROVE EntryInv'
    <2>1. CASE WriteBusy(b)
      <3>1. ~Accepting /\ ready' = (b = NoEntry)
        BY <2>1, Zenon DEF WriteBusy
      <3>2. entered' = (entered \/ b = NoEntry)
        BY <1>1, <3>1, Zenon DEF HostWrite
      <3>3. QED
        BY <3>1, <3>2, Zenon DEF EntryInv
    <2>2. ~DropDiscId(b)
      BY Zenon DEF DropDiscId, PatientInv
    <2>3. CASE TakeDiscId(b)
      BY <2>3 DEF TakeDiscId, EntryInv
    <2>4. CASE Command(b)
      <3>1. ready' = FALSE \/ b = NoEntry
        <4>1. Digit(b) => ready' = FALSE
          BY DEF Digit
        <4>2. QED
          BY <2>4, <4>1, Zenon
             DEF Command, ClearDigits, SwitchAudio, CallPlayer, PlayForward, RejectDisc,
                 PlayUntil, PlayDisc, Still, BeginSearch, Query, ExpectDiscId, ChangeDelay,
                 DoNothing, NotReady
      <3>2. b = NoEntry => entered'
        BY <1>1, <2>4, Zenon DEF HostWrite, Command
      <3>3. QED
        BY <3>1, <3>2 DEF EntryInv
    <2>5. QED
      BY <1>1, <2>1, <2>2, <2>3, <2>4 DEF HostWrite, Write
  <1>2. CASE HostRead
    <2>1. Searched # Failed /\ Stopping # Failed
      BY DEF Searched, Stopping, Failed
    <2>2. \/ UNCHANGED output \/ code' = Failed
          \/ ready' = ready /\ (searchPending \/ switchPending \/ code = Stopping)
      BY <1>2, Zenon
         DEF HostRead, Read, ReadData, ReadStatus, SearchDelays, SearchEnds, SearchGoesOn,
             SwitchEnds, SwitchUnexpected, SwitchGoesOn, StopNow, NothingPending
    <2>3. entered' = entered
      BY <1>2 DEF HostRead
    <2>4. QED
      BY <2>1, <2>2, <2>3 DEF EntryInv, PatientInv
  <1>3. CASE Reset /\ busyReads' = 0 /\ entered' = TRUE
    BY <1>3 DEF EntryInv
  <1>4. CASE PlayerMoves /\ UNCHANGED ghosts
    BY <1>4 DEF PlayerMoves, interpreter, ghosts, EntryInv
  <1>5. CASE UNCHANGED hostVars
    BY <1>5 DEF hostVars, vars, ghosts, EntryInv
  <1>6. QED
    BY <1>1, <1>2, <1>3, <1>4, <1>5, Zenon DEF HostNext

(* The standard player obeys one command for each NO ENTRY of a host that  *)
(* waits, or one more after a failure.                                     *)
THEOREM OneCommandEach ==
  Patient /\ Type = "STANDARD" => (HostSpec => OneCommandPerNoEntry)
  <1> SUFFICES ASSUME Patient, Type = "STANDARD" PROVE HostSpec => OneCommandPerNoEntry
    OBVIOUS
  <1>1. HostInit => PatientInv /\ EntryInv
    BY DEF HostInit, Init, PatientInv, EntryInv
  <1>2. TypeOK /\ PatientInv /\ EntryInv /\ [HostNext]_hostVars => PatientInv' /\ EntryInv'
    BY PatientStep, EntryStep
  <1>3. EntryInv =>
          [(\E b \in Bytes \ {NoEntry} : HostWrite(b) /\ Accepting)
             => entered \/ code = Failed]_hostVars
    BY Zenon DEF EntryInv, Accepting
  <1>4. QED
    BY <1>1, <1>2, <1>3, HostTypeCorrect, PTL DEF HostSpec, OneCommandPerNoEntry
=============================================================================
