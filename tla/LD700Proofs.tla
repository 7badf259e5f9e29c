---------------------------- MODULE LD700Proofs ----------------------------
(***************************************************************************)
(* Proofs that the invariants of LD700 hold for every set of bytes the     *)
(* host may write and every set of statuses the player may report, and     *)
(* that the action properties of LD700Host, which speak of what was on the *)
(* wire, hold for every host that sends whole frames.                      *)
(***************************************************************************)
EXTENDS LD700Host, TLAPS

(* Calls made one after the other are a sequence of calls again.           *)
LEMMA CallsConcatenate ==
  ASSUME NEW S, NEW s \in Seq(S), NEW t \in Seq(S)
  PROVE  s \o t \in Seq(S)
  OBVIOUS

(* A step may make no call at all.                                         *)
LEMMA NoCallsTyped == <<>> \in Seq(CallRecord)
  OBVIOUS

(* The callbacks a handler makes are callbacks of the interface.           *)
LEMMA CallsTyped ==
  ASSUME NEW b
  PROVE  /\ ErrorsOf(b) \in Seq(CallRecord)
         /\ RejectCalls \in Seq(CallRecord)
         /\ <<>> \in Seq(CallRecord)
         /\ <<UnknownByte>> \in Seq(CallRecord)
         /\ <<TooManyDigits>> \in Seq(CallRecord)
         /\ \A c \in OneCall : <<CallOf(c)>> \in Seq(CallRecord)
         /\ \A n \in Nat : <<Call("begin_search", n)>> \in Seq(CallRecord)
  <1>1. \A x \in CallRecord : <<x>> \in Seq(CallRecord)
    OBVIOUS
  <1>2. /\ UnknownByte \in CallRecord /\ TooManyDigits \in CallRecord
        /\ Unhandled \in CallRecord
    BY DEF UnknownByte, TooManyDigits, Unhandled, Error, Call, CallRecord, Callbacks
  <1>3. Call("stop", 0) \in CallRecord /\ Call("eject", 0) \in CallRecord
    BY DEF Call, CallRecord, Callbacks
  <1>4. \A c \in OneCall : CallOf(c) \in CallRecord
    BY DEF OneCall, CallOf, Call, CallRecord, Callbacks, CmdPlay, CmdPause, CmdRight,
           CmdStereo, CmdLeft, CmdStepReverse, CmdStepForward
  <1>5. \A n \in Nat : Call("begin_search", n) \in CallRecord
    BY DEF Call, CallRecord, Callbacks
  <1>6. <<>> \in Seq(CallRecord)
    OBVIOUS
  <1>7. ErrorsOf(b) \in Seq(CallRecord)
    BY <1>1, <1>2, <1>6 DEF ErrorsOf
  <1>8. RejectCalls \in Seq(CallRecord)
    BY <1>1, <1>2, <1>3, <1>6 DEF RejectCalls
  <1>9. QED
    BY <1>1, <1>2, <1>4, <1>5, <1>6, <1>7, <1>8

-----------------------------------------------------------------------------
(* The type invariant is inductive.  What an executed command does around  *)
(* its own effect (flag, last command, window, calls) keeps the types.     *)
LEMMA AcceptTyped ==
  ASSUME TypeOK, NEW b, NEW made \in Seq(CallRecord), NEW rearm \in BOOLEAN,
         Accept(b, made, rearm)
  PROVE  /\ cmdState' \in CmdStates /\ timeout' \in 0..Window
         /\ newCmd' \in BOOLEAN /\ extAck' \in BOOLEAN /\ line' \in BOOLEAN
         /\ queued' \in 0..255 /\ last' \in 0..255 /\ disc' \in AllStatuses
         /\ calls' \in Seq(CallRecord)
  <1>1. calls' \in Seq(CallRecord)
    BY CallsTyped, CallsConcatenate DEF Accept
  <1>2. QED
    BY <1>1 DEF Accept, TypeOK, OpenWindow, Window, CmdStates

(* Every command keeps the types, one step per command.                    *)
LEMMA ExecuteTyped ==
  ASSUME TypeOK, NEW b, Execute(b)
  PROVE  TypeOK'
  <1>1. ASSUME Digit(b) PROVE TypeOK'
    <2>1. frame' \in Nat /\ frameIdx' \in 0..MaxDigits /\ state' = state
      <3>1. CASE frameIdx < MaxDigits
        <4>1. frame' = frame * 10 + queued /\ frameIdx' = frameIdx + 1 /\ state' = state
          BY <1>1, <3>1 DEF Digit
        <4>2. QED
          BY <3>1, <4>1 DEF TypeOK, MaxDigits
      <3>2. CASE ~(frameIdx < MaxDigits)
        BY <1>1, <3>2 DEF Digit, digits, TypeOK
      <3>3. QED
        BY <3>1, <3>2
    <2>2. PICK made \in Seq(CallRecord) : Accept(b, made, TRUE)
      BY <1>1, CallsTyped DEF Digit
    <2>3. QED
      BY <2>1, <2>2, AcceptTyped DEF TypeOK
  <1>2. ASSUME RejectDisc(b) PROVE TypeOK'
    BY <1>2, CallsTyped, AcceptTyped DEF RejectDisc, TypeOK, digits
  <1>3. ASSUME CallPlayer(b) PROVE TypeOK'
    BY <1>3, CallsTyped, AcceptTyped DEF CallPlayer, TypeOK, digits
  <1>4. ASSUME EnterFrame(b) PROVE TypeOK'
    BY <1>4, CallsTyped, AcceptTyped DEF EnterFrame, TypeOK, digits
  <1>5. ASSUME BeginSearch(b) PROVE TypeOK'
    <2>1. <<Call("begin_search", frame)>> \in Seq(CallRecord)
      BY CallsTyped DEF TypeOK
    <2>2. PICK made \in Seq(CallRecord) : Accept(b, made, TRUE)
      BY <1>5, <2>1 DEF BeginSearch
    <2>3. frame' \in Nat /\ frameIdx' \in 0..MaxDigits /\ state' = "NORMAL"
      BY <1>5 DEF BeginSearch, ResetFrame, MaxDigits
    <2>4. QED
      BY <2>2, <2>3, AcceptTyped DEF TypeOK
  <1>6. ASSUME Escape(b) PROVE TypeOK'
    BY <1>6, CallsTyped, AcceptTyped DEF Escape, TypeOK, digits
  <1>7. ASSUME UnknownCommand(b) PROVE TypeOK'
    BY <1>7, CallsTyped, AcceptTyped DEF UnknownCommand, TypeOK, digits
  <1>8. ASSUME EscapedCommand(b) PROVE TypeOK'
    <2>1. PICK made \in Seq(CallRecord) : Accept(b, made, queued # EscShowCharacters)
      BY <1>8, CallsTyped DEF EscapedCommand
    <2>2. (queued # EscShowCharacters) \in BOOLEAN
      OBVIOUS
    <2>3. UNCHANGED <<frame, frameIdx>> /\ state' = "NORMAL"
      BY <1>8 DEF EscapedCommand, digits
    <2>4. QED
      BY <2>1, <2>2, <2>3, AcceptTyped DEF TypeOK
  <1>9. QED
    BY <1>1, <1>2, <1>3, <1>4, <1>5, <1>6, <1>7, <1>8 DEF Execute

(* A reset leaves every variable in its type.                              *)
THEOREM InitTyped == Init => TypeOK
  <1> SUFFICES ASSUME Init PROVE TypeOK
    OBVIOUS
  <1>1. newCmd \in BOOLEAN /\ extAck \in BOOLEAN /\ line \in BOOLEAN
    BY Zenon DEF Init
  <1>2. /\ frame \in Nat /\ frameIdx \in 0..MaxDigits /\ timeout \in 0..Window
        /\ queued \in 0..255 /\ last \in 0..255
    BY DEF Init, MaxDigits, Window, NoCommand
  <1>3. calls \in Seq(CallRecord) /\ disc \in AllStatuses
    BY ConstantsAssumption, NoCallsTyped, Zenon DEF Init
  <1>4. QED
    BY <1>1, <1>2, <1>3 DEF Init, TypeOK, CmdStates

(* Every byte the host writes keeps the types, one step per alternative of *)
(* the decoder.                                                            *)
LEMMA WriteTyped ==
  ASSUME TypeOK, NEW b \in Bytes, Write(b)
  PROVE  TypeOK'
  <1>1. CASE AcceptPrefix(b)
    BY <1>1, NoCallsTyped DEF AcceptPrefix, TypeOK, KeepWindowOpen, Window, CmdStates, digits, ack
  <1>2. CASE QueueCommand(b)
    BY <1>2, NoCallsTyped, ConstantsAssumption
       DEF QueueCommand, TypeOK, KeepWindowOpen, Window, CmdStates, digits, ack
  <1>3. CASE RejectFrame(b)
    BY <1>3, CallsTyped DEF RejectFrame, TypeOK, CmdStates, digits, ack
  <1>4. CASE DropDuplicate(b)
    BY <1>4, CallsTyped DEF DropDuplicate, TypeOK, CmdStates, Window, digits, ack
  <1>5. CASE Execute(b)
    BY <1>5, ExecuteTyped
  <1>6. QED
    BY <1>1, <1>2, <1>3, <1>4, <1>5 DEF Write

(* Every step keeps the types.                                             *)
LEMMA NextTyped == TypeOK /\ [Next]_vars => TypeOK'
  <1> SUFFICES ASSUME TypeOK, [Next]_vars PROVE TypeOK'
    OBVIOUS
  <1>1. CASE Reset
    <2>1. newCmd' \in BOOLEAN /\ extAck' \in BOOLEAN /\ line' \in BOOLEAN
      BY <1>1, Zenon DEF Reset
    <2>2. /\ frame' \in Nat /\ frameIdx' \in 0..MaxDigits /\ timeout' \in 0..Window
          /\ queued' \in 0..255 /\ last' \in 0..255 /\ disc' = disc
      BY <1>1 DEF Reset, ResetFrame, ForgetCommand, MaxDigits, Window, NoCommand
    <2>3. calls' \in Seq(CallRecord)
      BY <1>1, NoCallsTyped, Zenon DEF Reset
    <2>4. QED
      BY <1>1, <2>1, <2>2, <2>3 DEF Reset, ForgetCommand, TypeOK, CmdStates
  <1>2. ASSUME NEW b \in Bytes, Write(b) PROVE TypeOK'
    BY <1>2, WriteTyped
  <1>3. CASE VBlank
    <2>1. timeout' \in 0..Window
      BY <1>3 DEF VBlank, CountDown, TypeOK, Window
    <2>2. extAck' \in BOOLEAN /\ line' \in BOOLEAN
      BY <1>3, Zenon DEF VBlank, ChangeExtAck, TypeOK
    <2>3. QED
      BY <1>3, <2>1, <2>2, NoCallsTyped DEF VBlank, TypeOK, digits
  <1>4. CASE DiscMoves
    BY <1>4, ConstantsAssumption, NoCallsTyped DEF DiscMoves, TypeOK, decoder, digits, ack
  <1>5. CASE UNCHANGED vars
    BY <1>5 DEF vars, TypeOK
  <1>6. QED
    BY <1>1, <1>2, <1>3, <1>4, <1>5 DEF Next

(* The decoder, the window, the digits and the line keep their types: in   *)
(* particular the window counter of ld700i_on_vblank never wraps below     *)
(* zero and no sixth digit is counted.                                     *)
THEOREM TypeCorrect == Spec => []TypeOK
  BY InitTyped, NextTyped, PTL DEF Spec
-----------------------------------------------------------------------------
(* The cached EXT_ACK' value is what the implementor was last told, in     *)
(* every reachable state: only a reset and the vblank touch either, and    *)
(* each moves both.                                                        *)
THEOREM LineIsBelieved == Spec => []LineIsWhatWeBelieve
  <1>1. Init => LineIsWhatWeBelieve
    BY DEF Init, LineIsWhatWeBelieve
  <1>2. LineIsWhatWeBelieve /\ [Next]_vars => LineIsWhatWeBelieve'
    <2> SUFFICES ASSUME LineIsWhatWeBelieve, [Next]_vars PROVE LineIsWhatWeBelieve'
      OBVIOUS
    <2>1. CASE Reset
      BY <2>1 DEF Reset, LineIsWhatWeBelieve
    <2>2. ASSUME NEW b \in Bytes, Write(b) PROVE LineIsWhatWeBelieve'
      <3>1. extAck' = extAck /\ line' = line
        BY <2>2 DEF Write, AcceptPrefix, QueueCommand, RejectFrame, DropDuplicate, Execute,
                    Digit, RejectDisc, CallPlayer, EnterFrame, BeginSearch, Escape,
                    UnknownCommand, EscapedCommand, Accept, ack
      <3>2. QED
        BY <3>1 DEF LineIsWhatWeBelieve
    <2>3. CASE VBlank
      BY <2>3 DEF VBlank, ChangeExtAck, LineIsWhatWeBelieve
    <2>4. CASE DiscMoves
      BY <2>4 DEF DiscMoves, ack, LineIsWhatWeBelieve
    <2>5. CASE UNCHANGED vars
      BY <2>5 DEF vars, LineIsWhatWeBelieve
    <2>6. QED
      BY <2>1, <2>2, <2>3, <2>4, <2>5 DEF Next
  <1>3. QED
    BY <1>1, <1>2, PTL DEF Spec

(* While the argument of an escape is awaited the last command is the      *)
(* escape: every command but the escape leaves the escaped state, or finds *)
(* the decoder outside it.                                                 *)
THEOREM EscapeStaysLast == Spec => []EscapeIsLast
  <1>1. Init => EscapeIsLast
    BY DEF Init, EscapeIsLast
  <1>2. EscapeIsLast /\ [Next]_vars => EscapeIsLast'
    <2> SUFFICES ASSUME EscapeIsLast, [Next]_vars PROVE EscapeIsLast'
      OBVIOUS
    <2>1. CASE Reset
      BY <2>1 DEF Reset, ForgetCommand, EscapeIsLast
    <2>2. ASSUME NEW b \in Bytes, Write(b) PROVE EscapeIsLast'
      <3>1. CASE Execute(b)
        <4>1. CASE Escape(b)
          BY <4>1 DEF Escape, Accept, EscapeIsLast
        <4>2. CASE ~Escape(b)
          <5>1. state' # "ESCAPED"
            BY <3>1, <4>2 DEF Execute, Digit, RejectDisc, CallPlayer, EnterFrame,
                              BeginSearch, UnknownCommand, EscapedCommand
          <5>2. QED
            BY <5>1 DEF EscapeIsLast
        <4>3. QED
          BY <4>1, <4>2
      <3>2. CASE ~Execute(b)
        BY <2>2, <3>2 DEF Write, AcceptPrefix, QueueCommand, RejectFrame, DropDuplicate,
                          EscapeIsLast
      <3>3. QED
        BY <3>1, <3>2
    <2>3. CASE VBlank
      BY <2>3 DEF VBlank, EscapeIsLast
    <2>4. CASE DiscMoves
      BY <2>4 DEF DiscMoves, EscapeIsLast
    <2>5. CASE UNCHANGED vars
      BY <2>5 DEF vars, EscapeIsLast
    <2>6. QED
      BY <2>1, <2>2, <2>3, <2>4, <2>5 DEF Next
  <1>3. QED
    BY <1>1, <1>2, PTL DEF Spec

(* A command that acknowledges has its whole window until the vblank that  *)
(* pulses the line, whatever bytes follow it.                              *)
THEOREM FreshCommandKeepsWindow == Spec => []FreshCommandHasWholeWindow
  <1>1. Init => FreshCommandHasWholeWindow
    BY DEF Init, FreshCommandHasWholeWindow
  <1>2. FreshCommandHasWholeWindow /\ [Next]_vars => FreshCommandHasWholeWindow'
    <2> SUFFICES ASSUME FreshCommandHasWholeWindow, [Next]_vars
                 PROVE  FreshCommandHasWholeWindow'
      OBVIOUS
    <2>1. CASE Reset
      BY <2>1 DEF Reset, FreshCommandHasWholeWindow
    <2>2. ASSUME NEW b \in Bytes, Write(b) PROVE FreshCommandHasWholeWindow'
      <3>1. ASSUME Execute(b) PROVE last' \notin Unacknowledged => timeout' = Window
        <4>1. ASSUME NEW made, Accept(b, made, TRUE)
              PROVE  timeout' = Window
          BY <4>1 DEF Accept, OpenWindow
        <4>2. ASSUME NEW made, NEW rearm, Accept(b, made, rearm),
                     queued \in Unacknowledged
              PROVE  last' \in Unacknowledged
          BY <4>2 DEF Accept
        <4>3. CallPlayer(b) => (last' \notin Unacknowledged => timeout' = Window)
          BY DEF CallPlayer, Accept, OpenWindow, Unacknowledged
        <4>4. EscapedCommand(b) => (last' \notin Unacknowledged => timeout' = Window)
          BY DEF EscapedCommand, Accept, OpenWindow, Unacknowledged
        <4>5. RejectDisc(b) \/ Escape(b) => last' \in Unacknowledged
          BY <4>2 DEF RejectDisc, Escape, Unacknowledged
        <4>6. Digit(b) \/ EnterFrame(b) \/ BeginSearch(b) \/ UnknownCommand(b)
                => timeout' = Window
          BY <4>1 DEF Digit, EnterFrame, BeginSearch, UnknownCommand
        <4>7. QED
          BY <3>1, <4>3, <4>4, <4>5, <4>6 DEF Execute
      <3>2. CASE ~Execute(b)
        <4>1. newCmd' = newCmd /\ last' = last
          BY <2>2, <3>2 DEF Write, AcceptPrefix, QueueCommand, RejectFrame, DropDuplicate, ack
        <4>2. timeout' = timeout \/ timeout' = Window
          BY <2>2, <3>2 DEF Write, AcceptPrefix, QueueCommand, RejectFrame, DropDuplicate,
                            KeepWindowOpen
        <4>3. QED
          BY <4>1, <4>2 DEF FreshCommandHasWholeWindow
      <3>3. QED
        BY <3>1, <3>2 DEF FreshCommandHasWholeWindow
    <2>3. CASE VBlank
      BY <2>3 DEF VBlank, FreshCommandHasWholeWindow
    <2>4. CASE DiscMoves
      BY <2>4 DEF DiscMoves, ack, FreshCommandHasWholeWindow
    <2>5. CASE UNCHANGED vars
      BY <2>5 DEF vars, FreshCommandHasWholeWindow
    <2>6. QED
      BY <2>1, <2>2, <2>3, <2>4, <2>5 DEF Next
  <1>3. QED
    BY <1>1, <1>2, PTL DEF Spec
-----------------------------------------------------------------------------
(* The table of the powers of ten is one.                                  *)
LEMMA Pow10Values ==
  /\ Pow10[0] = 1
  /\ \A i \in 0..MaxDigits - 1 : Pow10[i + 1] = 10 * Pow10[i]
  /\ \A i \in 0..MaxDigits : Pow10[i] \in Nat
  <1>1. /\ Pow10[0] = 1 /\ Pow10[1] = 10 /\ Pow10[2] = 100
        /\ Pow10[3] = 1000 /\ Pow10[4] = 10000 /\ Pow10[5] = 100000
    BY DEF Pow10, MaxDigits
  <1>2. \A i \in 0..4 : i = 0 \/ i = 1 \/ i = 2 \/ i = 3 \/ i = 4
    OBVIOUS
  <1>3. \A i \in 0..5 : i = 0 \/ i = 1 \/ i = 2 \/ i = 3 \/ i = 4 \/ i = 5
    OBVIOUS
  <1>4. \A i \in 0..4 : Pow10[i + 1] = 10 * Pow10[i]
    BY <1>1, <1>2
  <1>5. \A i \in 0..5 : Pow10[i] \in Nat
    BY <1>1, <1>3
  <1>6. QED
    BY <1>1, <1>4, <1>5 DEF MaxDigits

(* The number entered has no more digits than are counted, so the 32-bit   *)
(* frame number a search gets is below 100000 whatever was sent before.    *)
THEOREM DigitsAreCounted == Spec => []DigitsCounted
  <1>1. Init => DigitsCounted
    BY Pow10Values DEF Init, DigitsCounted
  <1>2. TypeOK /\ DigitsCounted /\ [Next]_vars => DigitsCounted'
    <2> SUFFICES ASSUME TypeOK, DigitsCounted, [Next]_vars PROVE DigitsCounted'
      OBVIOUS
    <2>1. ASSUME frame' = 0, frameIdx' = 0 PROVE DigitsCounted'
      BY <2>1, Pow10Values DEF DigitsCounted
    <2>2. ASSUME frame' = frame, frameIdx' = frameIdx PROVE DigitsCounted'
      BY <2>2 DEF DigitsCounted
    <2>3. ASSUME NEW b \in Bytes, Digit(b) PROVE DigitsCounted'
      <3>1. CASE frameIdx < MaxDigits
        <4>1. /\ queued \in 0..9 /\ frame \in Nat /\ frameIdx \in 0..MaxDigits - 1
              /\ frame < Pow10[frameIdx]
          BY <2>3, <3>1 DEF Digit, Digits, TypeOK, MaxDigits, DigitsCounted
        <4>2. Pow10[frameIdx] \in Nat /\ Pow10[frameIdx + 1] = 10 * Pow10[frameIdx]
          BY <4>1, Pow10Values DEF MaxDigits
        <4>3. frame * 10 + queued < Pow10[frameIdx + 1]
          BY <4>1, <4>2
        <4>4. frame' = frame * 10 + queued /\ frameIdx' = frameIdx + 1
          BY <2>3, <3>1 DEF Digit
        <4>5. QED
          BY <4>3, <4>4 DEF DigitsCounted
      <3>2. CASE ~(frameIdx < MaxDigits)
        BY <2>2, <2>3, <3>2 DEF Digit, digits
      <3>3. QED
        BY <3>1, <3>2
    <2>4. ASSUME NEW b \in Bytes, Write(b) PROVE DigitsCounted'
      <3>1. CASE Digit(b)
        BY <2>3, <3>1
      <3>2. CASE BeginSearch(b)
        BY <2>1, <3>2 DEF BeginSearch, ResetFrame
      <3>3. CASE ~Digit(b) /\ ~BeginSearch(b)
        <4>1. frame' = frame /\ frameIdx' = frameIdx
          BY <2>4, <3>3 DEF Write, AcceptPrefix, QueueCommand, RejectFrame, DropDuplicate,
                            Execute, RejectDisc, CallPlayer, EnterFrame, Escape,
                            UnknownCommand, EscapedCommand, digits
        <4>2. QED
          BY <2>2, <4>1
      <3>4. QED
        BY <3>1, <3>2, <3>3
    <2>5. CASE Reset
      BY <2>1, <2>5 DEF Reset, ResetFrame
    <2>6. CASE VBlank \/ DiscMoves \/ UNCHANGED vars
      BY <2>2, <2>6 DEF VBlank, DiscMoves, vars, digits
    <2>7. QED
      BY <2>4, <2>5, <2>6 DEF Next
  <1>3. QED
    BY <1>1, <1>2, TypeCorrect, PTL DEF Spec
-----------------------------------------------------------------------------
(* The host and the link only take steps the interpreter allows, so what   *)
(* is proved of every caller holds with this host.                         *)
THEOREM HostIsAHost == HostSpec => Spec
  <1>1. HostInit => Init
    BY DEF HostInit
  <1>2. [HostNext]_hostVars => [Next]_vars
    <2> SUFFICES ASSUME [HostNext]_hostVars PROVE [Next]_vars
      OBVIOUS
    <2>1. ASSUME NEW b \in Bytes, HostWrite(b) PROVE Next
      BY <2>1 DEF HostWrite, Next
    <2>2. HostVBlank \/ HostReset \/ DiscMoves => Next
      BY DEF HostVBlank, HostReset, Next
    <2>3. CASE UNCHANGED hostVars
      BY <2>3 DEF hostVars
    <2>4. QED
      BY <2>1, <2>2, <2>3 DEF HostNext
  <1>3. QED
    BY <1>1, <1>2, PTL DEF HostSpec, Spec
-----------------------------------------------------------------------------
(* Frames.  While the prefix arrives intact the decoder is in step with    *)
(* the wire: what it waits for is the next byte's place in its frame, and  *)
(* the command it keeps is the one that was heard.                         *)
InStep ==
  /\ Len(heard) \in {0, 4} <=> cmdState = "PREFIX"
  /\ Len(heard) = 1 <=> cmdState = "PREFIX_XOR"
  /\ Len(heard) = 2 <=> cmdState = "CMD"
  /\ Len(heard) = 3 <=> cmdState = "CMD_XOR"

Remembered ==
  /\ Len(heard) >= 1 => heard[1] = Prefix
  /\ Len(heard) >= 2 => heard[2] = PrefixCheck
  /\ Len(heard) >= 3 => heard[3] = queued

HeardInv == heard \in Seq(0..255) /\ Len(heard) \in 0..4 /\ InStep /\ Remembered

(* What a byte does to the decoder, whichever alternative takes it.        *)
LEMMA WriteAdvances ==
  ASSUME NEW b, Write(b)
  PROVE  \/ cmdState = "PREFIX" /\ b = Prefix /\ cmdState' = "PREFIX_XOR" /\ queued' = queued
         \/ cmdState = "PREFIX_XOR" /\ b = PrefixCheck /\ cmdState' = "CMD" /\ queued' = queued
         \/ cmdState = "CMD" /\ cmdState' = "CMD_XOR" /\ queued' = b
         \/ cmdState = "CMD_XOR" /\ cmdState' = "PREFIX" /\ queued' = queued
         \/ BadPrefix(b) /\ cmdState' = "PREFIX" /\ queued' = queued
  <1>1. AcceptPrefix(b) \/ QueueCommand(b) \/ RejectFrame(b) \/ DropDuplicate(b) \/ Execute(b)
    BY DEF Write
  <1>2. ASSUME Execute(b) PROVE Completes(b) /\ cmdState' = "PREFIX" /\ queued' = queued
    BY <1>2, Zenon DEF Execute, Digit, RejectDisc, CallPlayer, EnterFrame, BeginSearch,
                       Escape, UnknownCommand, EscapedCommand, Accept
  <1>3. ASSUME DropDuplicate(b) PROVE Completes(b) /\ cmdState' = "PREFIX" /\ queued' = queued
    BY <1>3, Zenon DEF DropDuplicate
  <1>4. Completes(b) => cmdState = "CMD_XOR" \/ BadPrefix(b)
    BY Zenon DEF Completes
  <1>5. AcceptPrefix(b) => \/ cmdState = "PREFIX" /\ b = Prefix /\ cmdState' = "PREFIX_XOR"
                           \/ cmdState = "PREFIX_XOR" /\ b = PrefixCheck /\ cmdState' = "CMD"
    BY Zenon DEF AcceptPrefix
  <1>6. AcceptPrefix(b) => queued' = queued
    BY Zenon DEF AcceptPrefix
  <1>7. RejectFrame(b) => cmdState = "CMD_XOR" /\ cmdState' = "PREFIX" /\ queued' = queued
    BY Zenon DEF RejectFrame
  <1>8. QueueCommand(b) => cmdState = "CMD" /\ cmdState' = "CMD_XOR" /\ queued' = b
    BY Zenon DEF QueueCommand
  <1>9. QED
    BY <1>1, <1>2, <1>3, <1>4, <1>5, <1>6, <1>7, <1>8, Zenon

(* A byte whose prefix is delivered intact is never a bad prefix.          *)
LEMMA PrefixDelivered ==
  ASSUME ~Noisy, HeardInv, NEW b, Delivers(b)
  PROVE  ~BadPrefix(b)
  <1>1. \/ Place = 1 /\ b = Prefix
        \/ Place = 2 /\ b = PrefixCheck
        \/ Place \in {3, 4}
    BY Zenon DEF Delivers
  <1>2. cmdState = "PREFIX" => Place = 1
    BY DEF HeardInv, InStep, Place
  <1>3. ASSUME cmdState = "PREFIX_XOR" PROVE Place = 2
    <2>1. Len(heard) = 1
      BY <1>3, Zenon DEF HeardInv, InStep
    <2>2. 1 # 4 /\ 1 + 1 = 2
      OBVIOUS
    <2>3. QED
      BY <2>1, <2>2, Zenon DEF Place
  <1>4. QED
    BY <1>1, <1>2, <1>3 DEF BadPrefix

(* What a byte appended to the bytes heard leaves of them.                 *)
LEMMA Appended ==
  ASSUME NEW S, NEW s \in Seq(S), NEW x \in S, NEW w, w = Append(s, x)
  PROVE  /\ w \in Seq(S) /\ Len(w) = Len(s) + 1
         /\ w[Len(s) + 1] = x
         /\ \A i \in 1..Len(s) : w[i] = s[i]
  OBVIOUS

(* The fourth byte completes a frame and leaves the first three.           *)
LEMMA FourthByte ==
  ASSUME NEW S, NEW s \in Seq(S), Len(s) = 3, NEW x \in S, NEW w, w = Append(s, x)
  PROVE  Len(w) = 4 /\ w[4] = x /\ w[1] = s[1] /\ w[2] = s[2] /\ w[3] = s[3]
  <1>1. PICK n \in Nat : n = Len(s) /\ n = 3
    OBVIOUS
  <1>2. Len(w) = n + 1 /\ w[n + 1] = x /\ \A i \in 1..n : w[i] = s[i]
    BY <1>1, Appended
  <1>3. QED
    BY <1>1, <1>2

(* Every delivered byte keeps the decoder in step.                         *)
LEMMA HeardWritten ==
  ASSUME ~Noisy, HeardInv, NEW b \in Bytes, HostWrite(b)
  PROVE  HeardInv'
  <1>1. b \in 0..255
    BY ConstantsAssumption
  <1>2. ~BadPrefix(b)
    BY PrefixDelivered DEF HostWrite
  <1>3. \/ cmdState = "PREFIX" /\ b = Prefix /\ cmdState' = "PREFIX_XOR" /\ queued' = queued
        \/ cmdState = "PREFIX_XOR" /\ b = PrefixCheck /\ cmdState' = "CMD" /\ queued' = queued
        \/ cmdState = "CMD" /\ cmdState' = "CMD_XOR" /\ queued' = b
        \/ cmdState = "CMD_XOR" /\ cmdState' = "PREFIX" /\ queued' = queued
    BY <1>2, WriteAdvances DEF HostWrite
  <1>4. heard' = IF Len(heard) \in {0, 4} THEN <<b>> ELSE Append(heard, b)
    <2>1. heard' = IF Place = 1 THEN <<b>> ELSE Append(heard, b)
      BY DEF HostWrite
    <2>2. Place = 1 <=> Len(heard) \in {0, 4}
      BY DEF Place, HeardInv
    <2>3. QED
      BY <2>1, <2>2
  <1>5. CASE cmdState = "PREFIX"
    <2>1. heard' = <<b>> /\ b = Prefix /\ cmdState' = "PREFIX_XOR"
      BY <1>3, <1>4, <1>5 DEF HeardInv, InStep
    <2>2. heard' \in Seq(0..255) /\ Len(heard') = 1 /\ heard'[1] = Prefix
      BY <1>1, <2>1
    <2>3. QED
      BY <2>1, <2>2 DEF HeardInv, InStep, Remembered
  <1>6. CASE cmdState # "PREFIX"
    <2>1. heard' = Append(heard, b) /\ Len(heard) \in 1..3 /\ heard \in Seq(0..255)
      BY <1>3, <1>4, <1>6 DEF HeardInv, InStep
    <2>2. /\ heard' \in Seq(0..255) /\ Len(heard') = Len(heard) + 1
          /\ heard'[Len(heard) + 1] = b
          /\ \A i \in 1..Len(heard) : heard'[i] = heard[i]
      BY <1>1, <2>1, Appended
    <2>3. CASE Len(heard) = 1
      BY <1>3, <2>1, <2>2, <2>3 DEF HeardInv, InStep, Remembered
    <2>4. CASE Len(heard) = 2
      BY <1>3, <2>1, <2>2, <2>4 DEF HeardInv, InStep, Remembered
    <2>5. CASE Len(heard) = 3
      BY <1>3, <2>1, <2>2, <2>5 DEF HeardInv, InStep, Remembered
    <2>6. QED
      BY <2>1, <2>3, <2>4, <2>5
  <1>7. QED
    BY <1>5, <1>6

(* The decoder stays in step, whatever comes between the bytes.            *)
THEOREM FramesAreHeard == ~Noisy => (HostSpec => []HeardInv)
  <1> SUFFICES ASSUME ~Noisy PROVE HostSpec => []HeardInv
    OBVIOUS
  <1>1. HostInit => HeardInv
    BY DEF HostInit, Init, HeardInv, InStep, Remembered
  <1>2. HeardInv /\ [HostNext]_hostVars => HeardInv'
    <2> SUFFICES ASSUME HeardInv, [HostNext]_hostVars PROVE HeardInv'
      OBVIOUS
    <2>1. ASSUME NEW b \in Bytes, HostWrite(b) PROVE HeardInv'
      BY <2>1, HeardWritten
    <2>2. CASE HostReset
      BY <2>2 DEF HostReset, Reset, HeardInv, InStep, Remembered
    <2>3. ASSUME cmdState' = cmdState, queued' = queued, heard' = heard PROVE HeardInv'
      BY <2>3 DEF HeardInv, InStep, Remembered
    <2>4. CASE HostVBlank
      BY <2>3, <2>4, Zenon DEF HostVBlank, VBlank
    <2>5. CASE DiscMoves /\ UNCHANGED <<heard, quiet, gap>>
      <3>1. UNCHANGED decoder /\ heard' = heard
        BY <2>5, Zenon DEF DiscMoves
      <3>2. QED
        BY <2>3, <3>1 DEF decoder
    <2>6. CASE UNCHANGED hostVars
      BY <2>3, <2>6 DEF hostVars, vars
    <2>7. QED
      BY <2>1, <2>2, <2>4, <2>5, <2>6 DEF HostNext
  <1>3. QED
    BY <1>1, <1>2, PTL DEF HostSpec

(* An executed command is remembered as the last.                          *)
LEMMA ExecuteRemembers ==
  ASSUME NEW b, Execute(b)
  PROVE  Completes(b) /\ last' = queued
  BY Zenon DEF Execute, Digit, RejectDisc, CallPlayer, EnterFrame, BeginSearch,
               Escape, UnknownCommand, EscapedCommand, Accept

(* A byte that executes no command raises no flag and drives no player:    *)
(* all it can report is an error.                                          *)
LEMMA OthersOnlyReport ==
  ASSUME NEW b, Write(b), ~Execute(b)
  PROVE  /\ newCmd' = newCmd
         /\ \A i \in DOMAIN calls' : calls'[i].cb = "error"
  <1>1. AcceptPrefix(b) \/ QueueCommand(b) \/ RejectFrame(b) \/ DropDuplicate(b)
    BY Zenon DEF Write
  <1>2. UNCHANGED ack
    BY <1>1, Zenon DEF AcceptPrefix, QueueCommand, RejectFrame, DropDuplicate
  <1>3. calls' = <<>> \/ calls' = <<UnknownByte>>
    BY <1>1 DEF AcceptPrefix, QueueCommand, RejectFrame, DropDuplicate, ErrorsOf
  <1>4. UnknownByte.cb = "error"
    BY DEF UnknownByte, Error, Call
  <1>5. QED
    BY <1>2, <1>3, <1>4 DEF ack

(* On a link that leaves the prefix of a frame alone, only the last byte   *)
(* of a whole frame drives the player, and it is that frame's command that *)
(* is executed.                                                            *)
THEOREM FramesOnly == ~Noisy => (HostSpec => CommandsComeInFrames)
  <1> SUFFICES ASSUME ~Noisy PROVE HostSpec => CommandsComeInFrames
    OBVIOUS
  <1> DEFINE Drives == (newCmd' /\ ~newCmd) \/ (\E i \in DOMAIN calls' : calls'[i].cb # "error")
             Framed == WholeFrame(heard') /\ last' = heard'[3]
  <1>1. HeardInv /\ [HostNext]_hostVars => [Drives => Framed]_hostVars
    <2> SUFFICES ASSUME HeardInv, HostNext, Drives PROVE Framed
      OBVIOUS
    <2>1. ASSUME NEW b \in Bytes, HostWrite(b) PROVE Framed
      <3>1. Write(b) /\ Delivers(b)
        BY <2>1 DEF HostWrite
      <3>2. Execute(b)
        BY <3>1, OthersOnlyReport, Zenon
      <3>3. cmdState = "CMD_XOR" /\ b = Complement(queued) /\ last' = queued
        BY <3>1, <3>2, ExecuteRemembers, PrefixDelivered, Zenon DEF Completes
      <3>4. /\ Len(heard) = 3 /\ heard \in Seq(0..255)
            /\ heard[1] = Prefix /\ heard[2] = PrefixCheck /\ heard[3] = queued
        <4>1. Len(heard) = 3 /\ heard \in Seq(0..255)
          BY <3>3, Zenon DEF HeardInv, InStep
        <4>2. Remembered
          BY Zenon DEF HeardInv
        <4>3. QED
          BY <4>1, <4>2 DEF Remembered
      <3>5. heard' = Append(heard, b)
        BY <2>1, <3>4 DEF HostWrite, Place
      <3>6. b \in 0..255
        BY ConstantsAssumption
      <3>7. /\ Len(heard') = 4 /\ heard'[4] = b
            /\ heard'[1] = heard[1] /\ heard'[2] = heard[2] /\ heard'[3] = heard[3]
        <4>1. PICK S : S = 0..255
          OBVIOUS
        <4>2. PICK w : w = heard'
          OBVIOUS
        <4>3. heard \in Seq(S) /\ Len(heard) = 3 /\ b \in S /\ w = Append(heard, b)
          BY <3>4, <3>5, <3>6, <4>1, <4>2, Zenon
        <4>4. Len(w) = 4 /\ w[4] = b /\ w[1] = heard[1] /\ w[2] = heard[2] /\ w[3] = heard[3]
          BY <4>3, FourthByte
        <4>5. QED
          BY <4>2, <4>4, Zenon
      <3>8. QED
        BY <3>3, <3>4, <3>7 DEF WholeFrame
    <2>2. ASSUME calls' = <<>>, newCmd' => newCmd PROVE Framed
      <3>1. ~\E i \in DOMAIN calls' : calls'[i].cb # "error"
        BY <2>2
      <3>2. QED
        BY <2>2, <3>1, Zenon
    <2>3. HostReset \/ HostVBlank => calls' = <<>> /\ ~newCmd'
      BY Zenon DEF HostReset, Reset, HostVBlank, VBlank
    <2>4. DiscMoves => calls' = <<>> /\ newCmd' = newCmd
      BY DEF DiscMoves, ack
    <2>5. QED
      BY <2>1, <2>2, <2>3, <2>4, Zenon DEF HostNext
  <1>2. QED
    BY <1>1, FramesAreHeard, PTL DEF HostSpec, CommandsComeInFrames
-----------------------------------------------------------------------------
(* The window.  While the last command is one that acknowledges, the       *)
(* window has closed by no more vblanks than the wire was silent for since *)
(* a byte last held it open; and once it is closed, some such silence was  *)
(* four vblanks long.                                                      *)
Acknowledges == last \notin Unacknowledged \cup {NoCommand}

SilenceInv ==
  /\ quiet \in 0..Window /\ gap \in 0..Window
  /\ Acknowledges /\ timeout # 0 => timeout + quiet >= Window
  /\ Acknowledges /\ timeout = 0 => gap = Window

(* An executed command that acknowledges leaves the window whole.          *)
LEMMA ExecuteOpensWindow ==
  ASSUME NEW b, Execute(b), last' \notin Unacknowledged
  PROVE  timeout' = Window
  <1>1. ASSUME NEW made, Accept(b, made, TRUE)
        PROVE  timeout' = Window
    BY <1>1 DEF Accept, OpenWindow
  <1>2. ASSUME NEW made, NEW rearm, Accept(b, made, rearm)
        PROVE  queued \notin Unacknowledged
    BY <1>2 DEF Accept
  <1>3. CallPlayer(b) => timeout' = Window
    BY <1>2 DEF CallPlayer, Accept, OpenWindow, Unacknowledged
  <1>4. EscapedCommand(b) => timeout' = Window
    BY <1>2 DEF EscapedCommand, Accept, OpenWindow, Unacknowledged
  <1>5. ~RejectDisc(b) /\ ~Escape(b)
    BY <1>2 DEF RejectDisc, Escape, Unacknowledged
  <1>6. Digit(b) \/ EnterFrame(b) \/ BeginSearch(b) \/ UnknownCommand(b) => timeout' = Window
    BY <1>1 DEF Digit, EnterFrame, BeginSearch, UnknownCommand
  <1>7. QED
    BY <1>3, <1>4, <1>5, <1>6 DEF Execute

(* A byte that executes nothing leaves the last command, and unless it     *)
(* voids its frame it finds the window closed or leaves it whole.          *)
LEMMA OthersHoldWindow ==
  ASSUME TypeOK, NEW b, Write(b), ~Execute(b)
  PROVE  /\ last' = last
         /\ RejectFrame(b) => timeout' = timeout
         /\ \/ RejectFrame(b)
            \/ timeout' = Window
            \/ timeout' = 0 /\ timeout = 0
  <1>1. AcceptPrefix(b) \/ QueueCommand(b) \/ RejectFrame(b) \/ DropDuplicate(b)
    BY Zenon DEF Write
  <1>2. last' = last
    BY <1>1, Zenon DEF AcceptPrefix, QueueCommand, RejectFrame, DropDuplicate
  <1>3. RejectFrame(b) => timeout' = timeout
    BY Zenon DEF RejectFrame
  <1>4. DropDuplicate(b) => timeout' = Window /\ timeout # 0
    BY Zenon DEF DropDuplicate, IsDuplicate
  <1>5. AcceptPrefix(b) \/ QueueCommand(b) => KeepWindowOpen
    BY Zenon DEF AcceptPrefix, QueueCommand
  <1>6. KeepWindowOpen => \/ timeout' = Window /\ timeout # 0
                          \/ timeout' = 0 /\ timeout = 0
    BY DEF KeepWindowOpen
  <1>7. QED
    BY <1>1, <1>2, <1>3, <1>4, <1>5, <1>6, Zenon

(* Every byte keeps the account of the silence.                            *)
LEMMA SilenceWritten ==
  ASSUME TypeOK, SilenceInv, NEW b \in Bytes, HostWrite(b)
  PROVE  SilenceInv'
  <1>1. Write(b)
    BY DEF HostWrite
  <1>2. CASE Execute(b)
    <2>1. (cmdState = "CMD_XOR" /\ b = Complement(queued)) \/ BadPrefix(b)
      BY <1>2, ExecuteRemembers, Zenon DEF Completes
    <2>2. ~RejectFrame(b)
      BY <2>1 DEF RejectFrame, BadPrefix
    <2>3. quiet' = 0 /\ gap' = 0
      BY <1>2, <2>2, Zenon DEF HostWrite
    <2>4. Acknowledges' => timeout' = Window
      BY <1>2, ExecuteOpensWindow DEF Acknowledges
    <2>5. QED
      BY <2>3, <2>4 DEF SilenceInv, Window
  <1>3. CASE ~Execute(b)
    <2>1. gap' = gap /\ (RejectFrame(b) => quiet' = quiet) /\ (~RejectFrame(b) => quiet' = 0)
      BY <1>3, Zenon DEF HostWrite
    <2>2. last' = last
      BY <1>1, <1>3, OthersHoldWindow
    <2>3. CASE RejectFrame(b)
      <3>1. timeout' = timeout
        BY <1>1, <1>3, <2>3, OthersHoldWindow
      <3>2. QED
        BY <2>1, <2>2, <2>3, <3>1 DEF SilenceInv, Acknowledges
    <2>4. CASE ~RejectFrame(b)
      <3>1. \/ timeout' = Window
            \/ timeout' = 0 /\ timeout = 0
        BY <1>1, <1>3, <2>4, OthersHoldWindow, Zenon
      <3>2. quiet' = 0 /\ gap' = gap /\ (Acknowledges' <=> Acknowledges)
        BY <2>1, <2>2, <2>4 DEF Acknowledges
      <3>3. QED
        BY <3>1, <3>2 DEF SilenceInv, Window
    <2>5. QED
      BY <2>3, <2>4
  <1>4. QED
    BY <1>2, <1>3

(* A vblank closes the window by one and lengthens the silence by one.     *)
LEMMA SilenceLengthens ==
  ASSUME TypeOK, SilenceInv, HostVBlank
  PROVE  SilenceInv'
  <1>1. /\ timeout' = IF timeout # 0 THEN timeout - 1 ELSE 0
        /\ last' = last
    BY DEF HostVBlank, VBlank, CountDown
  <1>2. /\ quiet' = IF quiet + 1 > Window THEN Window ELSE quiet + 1
        /\ gap' = IF quiet' > gap THEN quiet' ELSE gap
    BY DEF HostVBlank, AtMost
  <1>3. timeout \in 0..4 /\ quiet \in 0..4 /\ gap \in 0..4
    BY DEF TypeOK, SilenceInv, Window
  <1>4. quiet' \in 0..4 /\ gap' \in 0..4
    BY <1>2, <1>3 DEF Window
  <1>5. CASE Acknowledges
    <2>1. timeout # 0 => timeout + quiet >= 4
      BY <1>5 DEF SilenceInv, Window
    <2>2. timeout = 0 => gap = 4
      BY <1>5 DEF SilenceInv, Window
    <2>3. timeout' # 0 => timeout' + quiet' >= 4
      BY <1>1, <1>2, <1>3, <2>1 DEF Window
    <2>4. timeout' = 0 => gap' = 4
      BY <1>1, <1>2, <1>3, <2>1, <2>2 DEF Window
    <2>5. QED
      BY <1>4, <2>3, <2>4 DEF SilenceInv, Window
  <1>6. CASE ~Acknowledges
    BY <1>1, <1>4, <1>6 DEF SilenceInv, Acknowledges, Window
  <1>7. QED
    BY <1>5, <1>6

(* The account of the silence is kept in every reachable state.            *)
THEOREM SilenceIsCounted == HostSpec => []SilenceInv
  <1>1. HostInit => SilenceInv
    BY DEF HostInit, Init, SilenceInv, Acknowledges, Window
  <1>2. TypeOK /\ SilenceInv /\ [HostNext]_hostVars => SilenceInv'
    <2> SUFFICES ASSUME TypeOK, SilenceInv, [HostNext]_hostVars PROVE SilenceInv'
      OBVIOUS
    <2>1. ASSUME NEW b \in Bytes, HostWrite(b) PROVE SilenceInv'
      BY <2>1, SilenceWritten
    <2>2. CASE HostVBlank
      BY <2>2, SilenceLengthens
    <2>3. CASE HostReset
      BY <2>3 DEF HostReset, Reset, ForgetCommand, SilenceInv, Acknowledges, Window
    <2>4. CASE DiscMoves /\ UNCHANGED <<heard, quiet, gap>>
      BY <2>4 DEF DiscMoves, SilenceInv, Acknowledges
    <2>5. CASE UNCHANGED hostVars
      BY <2>5 DEF hostVars, vars, SilenceInv, Acknowledges
    <2>6. QED
      BY <2>1, <2>2, <2>3, <2>4, <2>5 DEF HostNext
  <1>3. QED
    BY <1>1, <1>2, HostIsAHost, TypeCorrect, PTL DEF HostSpec

(* A key held down acts once: a command that acknowledges is executed      *)
(* again only if the wire was silent for the whole window since it last    *)
(* was, with a noisy link too.                                             *)
THEOREM HeldKeys == HostSpec => HeldKeyActsOnce
  <1> DEFINE ActsAgain == /\ \E b \in Bytes : HostWrite(b) /\ Execute(b)
                          /\ last' = last /\ last \notin Unacknowledged \cup {NoCommand}
  <1>1. SilenceInv /\ [HostNext]_hostVars => [ActsAgain => gap = Window]_hostVars
    <2> SUFFICES ASSUME SilenceInv, ActsAgain PROVE gap = Window
      OBVIOUS
    <2>1. PICK b \in Bytes : Execute(b)
      BY Zenon
    <2>2. last' = queued /\ ~IsDuplicate
      BY <2>1, ExecuteRemembers, Zenon DEF Execute
    <2>3. timeout = 0 /\ Acknowledges
      BY <2>2, Zenon DEF IsDuplicate, Acknowledges
    <2>4. QED
      BY <2>3, Zenon DEF SilenceInv
  <1>2. QED
    BY <1>1, SilenceIsCounted, PTL DEF HostSpec, HeldKeyActsOnce
=============================================================================
