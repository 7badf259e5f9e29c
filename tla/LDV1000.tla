------------------------------ MODULE LDV1000 ------------------------------
(***************************************************************************)
(* The Pioneer LD-V1000 interpreter (src/src/ldv1000-interpreter.c).  The  *)
(* host writes a byte and reads a byte in every field.  A byte is obeyed   *)
(* only while the player is ready; a command makes it busy until the host  *)
(* sends NO ENTRY.  Reading does the work of the vertical blank: it counts *)
(* a search down, sees the end of a search or of a disc change, and stops  *)
(* at the auto-stop frame, but only when no reply bytes are queued.        *)
(*                                                                         *)
(* The player is external, and modelled from how the interpreter uses it.  *)
(***************************************************************************)
EXTENDS Integers, Sequences, FiniteSets

CONSTANTS
  Bytes,          \* the bytes the host may write
  Type,           \* which player is emulated
  Discs,          \* the discs that can be switched to
  LastFrame,      \* the last frame of every disc
  Faulty,         \* searches and disc changes may fail
  Resets,         \* the implementor may reset the interpreter in operation
  FrameLimit      \* bound: no digit is keyed behind a number this large

ASSUME LDV1000Assumption ==
  /\ Bytes \subseteq 0..255
  /\ Type \in {"STANDARD", "BADLANDS", "SUPER"}
  /\ IsFiniteSet(Discs) /\ Discs \subseteq 1..255 /\ Discs # {}
  /\ LastFrame \in Nat
  /\ Faulty \in BOOLEAN /\ Resets \in BOOLEAN
  /\ FrameLimit \in Nat

VARIABLES
  ready,          \* bit 7 of g_ldv1000_output: the next command is obeyed
  code,           \* its other bits: the status
  frame,          \* the number the last five digits make
  keyed,          \* there is a digit in it
  searchPending,  \* begin_search was called and its end not yet seen
  delay,          \* reads before its end is looked for
  expectsId,      \* the next command is the id of a disc
  switchPending,  \* begin_changing_to_disc was called, its end not yet seen
  autostop,       \* frame to stop at while code is Stopping
  audio,          \* the channels the host has enabled
  tempMute,       \* FORWARD 1X plays without sound until the next PLAY
  waiting,        \* reply bytes in the queue
  aborted,        \* an assertion failed
  disc,           \* the player's status
  pos,            \* the frame it shows
  goal,           \* the frame it searches
  active,         \* the disc in it
  sound,          \* the channels it was told to play
  calls,          \* the callbacks the latest step made
  result          \* what the latest step read

output == <<ready, code>>
number == <<frame, keyed>>
searching == <<searchPending, delay>>
switching == <<expectsId, switchPending>>
muting == <<audio, tempMute>>
queue == <<waiting, aborted>>
player == <<disc, pos, goal, active, sound>>
vars == <<output, number, searching, switching, autostop, muting, queue,
          player, calls, result>>
-----------------------------------------------------------------------------
(* Status codes, without the ready bit.                                    *)
Failed == 16                    \* 0x10, 0x90 when ready
Forward == 46                   \* 0x2E
Searched == 80                  \* 0x50, busy or done
Stopping == 84                  \* 0x54
Playing == 100                  \* 0x64
Stopped == 101                  \* 0x65
Parked == 124                   \* 0x7C

Data == 256                     \* stands for a byte of the queue
QueueOfFive == 5                \* mutant
QueueSize == 12
NumberModulus == 100000         \* a number has five digits
MinDelay == 4

(* Commands.                                                               *)
Clear == 191                    \* 0xBF
Audio1 == 244                   \* 0xF4
Audio2 == 252                   \* 0xFC
Forward1X == 163                \* 0xA3
Reject == 249                   \* 0xF9
AutoStop == 243                 \* 0xF3
PlayCmd == 253                  \* 0xFD
StepReverse == 254              \* 0xFE
Search == 247                   \* 0xF7
FrameQuery == 194               \* 0xC2
Stop == 251                     \* 0xFB
Hello == 144                    \* 0x90
ListDiscs == 145                \* 0x91
WhichDisc == 146                \* 0x92
SwitchDisc == 147               \* 0x93
SpinupDelay == 148              \* 0x94
SeekDelay == 149                \* 0x95
NoEntry == 255                  \* 0xFF
Ignored == {205, 206}           \* 0xCD 0xCE

DigitOf(b) ==
  CASE b = 63 -> 0 [] b = 15 -> 1 [] b = 143 -> 2 [] b = 79 -> 3 [] b = 47 -> 4
    [] b = 175 -> 5 [] b = 111 -> 6 [] b = 31 -> 7 [] b = 159 -> 8 [] b = 95 -> 9
DigitBytes == {63, 15, 143, 79, 47, 175, 111, 31, 159, 95}

Call(cb, arg) == [cb |-> cb, arg |-> arg]
Error == Call("error", 0)
SetAudio(ch, on) == Call(IF on THEN "enable_audio" ELSE "disable_audio", ch)

(* Commands that make one callback and leave the status alone.  A speed is *)
(* quarters of the normal one.                                             *)
OneCall == {160, 161, 162, 164, 165, 166, 167, 32, 157, 158}
           \cup (177..186) \cup (49..57)
CallOf(b) ==
  CASE b \in {160, 32} -> Call("pause", 0)              \* 0xA0 0x20
    [] b = 161 -> Call("change_speed", 1)               \* 0xA1
    [] b = 162 -> Call("change_speed", 2)               \* 0xA2
    [] b \in 164..167 -> Call("change_speed", 4 * (b - 162)) \* 0xA4..0xA7
    [] b \in 177..186 -> Call("skip_forward", 10 * (b - 176))
    [] b \in 49..57 -> Call("skip_backward", 10 * (b - 48))
    [] b = 157 -> Call("change_super_mode", 0)          \* 0x9D
    [] b = 158 -> Call("change_super_mode", 1)          \* 0x9E

Known == DigitBytes \cup OneCall \cup Ignored \cup
         {Clear, Audio1, Audio2, Forward1X, Reject, AutoStop, PlayCmd, StepReverse,
          Search, FrameQuery, Stop, Hello, ListDiscs, WhichDisc, SwitchDisc,
          SpinupDelay, SeekDelay, NoEntry}
-----------------------------------------------------------------------------
(* The player, as a sequence of callbacks leaves it: at most the first one *)
(* moves it, the others set its sound.                                     *)
Clamp(f) == IF f < 0 THEN 0 ELSE IF f > LastFrame THEN LastFrame ELSE f

Moves(c) ==
  /\ disc' = CASE c.cb = "play" -> IF disc = "STOPPED" THEN "SPINNING_UP" ELSE "PLAYING"
               [] c.cb \in {"pause", "step_reverse"} -> "PAUSED"
               [] c.cb = "begin_search" -> "SEARCHING"
               [] c.cb = "begin_changing_to_disc" -> "DISC_SWITCHING"
               [] OTHER -> disc
  /\ pos' = CASE c.cb = "skip_forward" -> Clamp(pos + c.arg)
              [] c.cb = "skip_backward" -> Clamp(pos - c.arg)
              [] c.cb = "step_reverse" -> Clamp(pos - 1)
              [] OTHER -> pos
  /\ goal' = IF c.cb \in {"begin_search", "begin_changing_to_disc"} THEN c.arg ELSE goal

Hears(cs) ==
  sound' = [ch \in {0, 1} |->
              IF \E i \in DOMAIN cs : cs[i] = SetAudio(ch, TRUE) THEN TRUE
              ELSE IF \E i \in DOMAIN cs : cs[i] = SetAudio(ch, FALSE) THEN FALSE
              ELSE sound[ch]]

Do(cs) ==
  /\ calls' = cs
  /\ IF cs = <<>> THEN UNCHANGED <<disc, pos, goal>> ELSE Moves(cs[1])
  /\ Hears(cs)
  /\ UNCHANGED active

ClearNumber == frame' = 0 /\ keyed' = FALSE

(* ldv1000_push_queue, n times; its assertion is live.                     *)
PushBytes(n) ==
  /\ waiting' = waiting + n
  /\ aborted' = (waiting + n >= QueueSize)
-----------------------------------------------------------------------------
Init ==
  /\ ready = TRUE /\ code = Parked
  /\ frame = 0 /\ keyed = FALSE
  /\ searchPending = FALSE /\ delay = 0
  /\ expectsId = FALSE /\ switchPending = FALSE
  /\ autostop = 0
  /\ audio = [ch \in {0, 1} |-> TRUE] /\ tempMute = FALSE
  /\ waiting = 0 /\ aborted = FALSE
  /\ disc = "STOPPED" /\ pos = 0 /\ goal = 0 /\ active \in Discs
  /\ sound = [ch \in {0, 1} |-> TRUE]
  /\ calls = <<>> /\ result = Parked + 128

(* reset_ldv1000i leaves the digits keyed in and says nothing to the player.*)
Reset ==
  /\ Resets /\ ~aborted
  /\ ready' = TRUE /\ code' = Parked
  /\ searchPending' = FALSE /\ delay' = 0
  /\ expectsId' = FALSE /\ switchPending' = FALSE
  /\ autostop' = 0
  /\ audio' = [ch \in {0, 1} |-> TRUE] /\ tempMute' = FALSE
  /\ waiting' = 0
  /\ Do(<<>>)
  /\ UNCHANGED <<number, aborted, result>>
-----------------------------------------------------------------------------
(* write_ldv1000i.  Not ready: only NO ENTRY matters.                      *)
Accepting == ready \/ Type = "SUPER"

WriteBusy(b) ==
  /\ ~Accepting
  /\ ready' = (b = NoEntry)
  /\ Do(<<>>)
  /\ UNCHANGED <<code, number, searching, switching, autostop, muting, queue, result>>

(* The byte after SwitchDisc is the id of a disc, whatever byte it is; it  *)
(* is dropped, and the ready bit stays, if something is pending.           *)
DropDiscId(b) ==
  /\ Accepting /\ expectsId
  /\ searchPending \/ switchPending
  /\ expectsId' = FALSE
  /\ Do(<<>>)
  /\ UNCHANGED <<output, number, searching, switchPending, autostop, muting,
                 queue, result>>

TakeDiscId(b) ==
  /\ Accepting /\ expectsId
  /\ ~searchPending /\ ~switchPending
  /\ expectsId' = FALSE
  /\ switchPending' = (active # b)
  /\ Do(IF active # b THEN <<Call("begin_changing_to_disc", b)>> ELSE <<>>)
  /\ ready' = FALSE /\ code' = Searched
  /\ UNCHANGED <<number, searching, autostop, muting, queue, result>>

(* Every other byte that is accepted, one action per command.              *)
StillReady == UNCHANGED ready                                   \* mutant
NotReady == ready' = FALSE

Digit(b) ==
  /\ b \in DigitBytes
  /\ frame < FrameLimit
  /\ frame' = (frame * 10 + DigitOf(b)) % NumberModulus
  /\ keyed' = TRUE
  /\ ready' = (Type = "BADLANDS")
  /\ Do(<<>>)
  /\ UNCHANGED <<code, searching, switching, autostop, muting, queue>>

ClearDigits(b) ==
  /\ b = Clear
  /\ ClearNumber /\ NotReady
  /\ Do(<<>>)
  /\ UNCHANGED <<code, searching, switching, autostop, muting, queue>>

(* pre_audio1 and pre_audio2: an odd digit enables, an even one disables,  *)
(* no digit toggles.                                                       *)
SwitchAudio(b) ==
  \E ch \in {0, 1} :
    /\ b = (IF ch = 0 THEN Audio1 ELSE Audio2)
    /\ LET on == IF keyed THEN frame % 2 = 1 ELSE ~audio[ch]
       IN /\ audio' = [audio EXCEPT ![ch] = on]
          /\ Do(<<SetAudio(ch, on)>>)
    /\ ClearNumber /\ NotReady
    /\ UNCHANGED <<code, searching, switching, autostop, tempMute, queue>>

CallPlayer(b) ==
  /\ b \in OneCall
  /\ Do(<<CallOf(b)>>) /\ NotReady
  /\ UNCHANGED <<code, number, searching, switching, autostop, muting, queue>>

PlayForward(b) ==
  /\ b = Forward1X
  /\ IF disc # "PLAYING"
       THEN /\ tempMute' = TRUE
            /\ Do(<<Call("play", 0), SetAudio(0, FALSE), SetAudio(1, FALSE),
                    Call("change_speed", 4)>>)
            /\ code' = Forward
       ELSE /\ Do(<<Call("change_speed", 4)>>)
            /\ UNCHANGED <<tempMute, code>>
  /\ NotReady
  /\ UNCHANGED <<number, searching, switching, autostop, audio, queue>>

RejectDisc(b) ==
  /\ b = Reject
  /\ code' = Parked /\ NotReady
  /\ Do(<<>>)
  /\ UNCHANGED <<number, searching, switching, autostop, muting, queue>>

PlayUntil(b) ==
  /\ b = AutoStop
  /\ autostop' = frame
  /\ ClearNumber
  /\ Do(<<Call("play", 0)>>)
  /\ code' = Stopping /\ NotReady
  /\ UNCHANGED <<searching, switching, muting, queue>>

UnmuteLeft == IF tempMute /\ audio[0] THEN <<SetAudio(0, TRUE)>> ELSE <<>> \* mutant
Unmute == IF ~tempMute THEN <<>>
          ELSE (IF audio[0] THEN <<SetAudio(0, TRUE)>> ELSE <<>>) \o
               (IF audio[1] THEN <<SetAudio(1, TRUE)>> ELSE <<>>)

PlayDisc(b) ==
  /\ b = PlayCmd
  /\ Do(<<Call("play", 0)>> \o Unmute)
  /\ tempMute' = FALSE
  /\ code' = Playing /\ NotReady
  /\ UNCHANGED <<number, searching, switching, autostop, audio, queue>>

Still(b) ==
  /\ \/ b = StepReverse /\ Do(<<Call("step_reverse", 0)>>)
     \/ b = Stop /\ Do(<<Call("pause", 0)>>)
  /\ code' = Stopped /\ NotReady
  /\ UNCHANGED <<number, searching, switching, autostop, muting, queue>>

NoDelay == UNCHANGED delay                                      \* mutant
StartDelay == delay' = MinDelay

BeginSearch(b) ==
  /\ b = Search
  /\ StartDelay
  /\ searchPending' = TRUE
  /\ Do(<<Call("begin_search", frame)>>)
  /\ code' = Searched /\ NotReady
  /\ ClearNumber
  /\ UNCHANGED <<switching, autostop, muting, queue>>

Query(b) ==
  /\ \/ b = FrameQuery /\ PushBytes(5)
     \/ b = Hello /\ PushBytes(1)
     \/ b = ListDiscs /\ ~switchPending /\ PushBytes(Cardinality(Discs) + 1)
     \/ b = WhichDisc /\ ~switchPending /\ PushBytes(1)
     \/ b \in {ListDiscs, WhichDisc} /\ switchPending /\ UNCHANGED queue
  /\ Do(<<>>) /\ NotReady
  /\ UNCHANGED <<code, number, searching, switching, autostop, muting>>

ExpectDiscId(b) ==
  /\ b = SwitchDisc
  /\ expectsId' = TRUE
  /\ Do(<<>>) /\ NotReady
  /\ UNCHANGED <<code, number, searching, switchPending, autostop, muting, queue>>

ChangeDelay(b) ==
  /\ \/ b = SpinupDelay /\ Do(<<Call("change_spinup_delay", frame % 2)>>)
     \/ b = SeekDelay /\ Do(<<Call("change_seek_delay", frame % 2)>>)
  /\ ClearNumber /\ NotReady
  /\ UNCHANGED <<code, searching, switching, autostop, muting, queue>>

DoNothing(b) ==
  /\ \/ b = NoEntry /\ ready' = TRUE /\ Do(<<>>)
     \/ b \in Ignored /\ NotReady /\ Do(<<>>)
     \/ b \notin Known /\ NotReady /\ Do(<<Error, Error>>)
  /\ UNCHANGED <<code, number, searching, switching, autostop, muting, queue>>

Command(b) ==
  /\ Accepting /\ ~expectsId
  /\ \/ Digit(b) \/ ClearDigits(b) \/ SwitchAudio(b) \/ CallPlayer(b) \/ PlayForward(b)
     \/ RejectDisc(b) \/ PlayUntil(b) \/ PlayDisc(b) \/ Still(b) \/ BeginSearch(b)
     \/ Query(b) \/ ExpectDiscId(b) \/ ChangeDelay(b) \/ DoNothing(b)
  /\ UNCHANGED result

Write(b) ==
  /\ ~aborted
  /\ WriteBusy(b) \/ DropDiscId(b) \/ TakeDiscId(b) \/ Command(b)
-----------------------------------------------------------------------------
(* read_ldv1000i.                                                          *)
ReadData ==
  /\ waiting > 0
  /\ waiting' = waiting - 1
  /\ result' = Data
  /\ Do(<<>>)
  /\ UNCHANGED <<output, number, searching, switching, autostop, muting, aborted>>

DelayedToTheEnd == delay >= 0                                   \* mutant
Delayed == delay > 0

DelayForEver == UNCHANGED delay                                 \* mutant
CountDown == delay' = delay - 1

SearchDelays ==
  /\ searchPending /\ Delayed
  /\ CountDown
  /\ Do(<<>>)
  /\ UNCHANGED <<output, searchPending, switching, autostop>>

SearchEnds ==
  /\ searchPending /\ ~Delayed
  /\ \/ disc = "PAUSED" /\ code' = Searched /\ ready' = ready
     \/ disc = "ERROR" /\ code' = Failed /\ ready' = TRUE
  /\ searchPending' = FALSE
  /\ Do(<<>>)
  /\ UNCHANGED <<delay, switching, autostop>>

SearchGoesOn ==
  /\ searchPending /\ ~Delayed
  /\ disc \notin {"PAUSED", "ERROR"}
  /\ Do(IF disc = "SEARCHING" THEN <<>> ELSE <<Error>>)
  /\ UNCHANGED <<output, searching, switching, autostop>>

SwitchStaysOn == UNCHANGED switchPending                        \* mutant
SwitchOff == switchPending' = FALSE

SwitchEnds ==
  /\ ~searchPending /\ switchPending
  /\ \/ disc = "STOPPED" /\ code' = Searched /\ ready' = ready
     \/ disc = "ERROR" /\ code' = Failed /\ ready' = TRUE
  /\ SwitchOff
  /\ Do(<<>>)
  /\ UNCHANGED <<expectsId, searching, autostop>>

(* An unknown status sets the output to failed and leaves the switch       *)
(* pending (and expectsId FALSE).                                          *)
SwitchUnexpected ==
  /\ ~searchPending /\ switchPending
  /\ disc \notin {"STOPPED", "ERROR", "DISC_SWITCHING"}
  /\ code' = Failed /\ ready' = TRUE
  /\ expectsId' = FALSE
  /\ Do(<<Error>>)
  /\ UNCHANGED <<searching, switchPending, autostop>>

SwitchGoesOn ==
  /\ ~searchPending /\ switchPending
  /\ disc = "DISC_SWITCHING"
  /\ Do(<<>>)
  /\ UNCHANGED <<output, searching, switching, autostop>>

BeyondAutostop == pos > autostop                                \* mutant
AtAutostop == pos >= autostop

StopNow ==
  /\ ~searchPending /\ ~switchPending
  /\ code = Stopping /\ AtAutostop
  /\ code' = Stopped /\ autostop' = 0
  /\ Do(<<Call("pause", 0)>>)
  /\ UNCHANGED <<ready, searching, switching>>

NothingPending ==
  /\ ~searchPending /\ ~switchPending
  /\ code = Stopping => ~AtAutostop
  /\ Do(<<>>)
  /\ UNCHANGED <<output, searching, switching, autostop>>

(* The byte returned: 0x50 while something is pending, 0x64 while the disc *)
(* spins up, else the output, in super mode always with the ready bit.     *)
StatusByte ==
  IF searchPending' \/ switchPending' THEN Searched
  ELSE IF disc = "SPINNING_UP" THEN Playing
  ELSE IF ready' \/ Type = "SUPER" THEN code' + 128 ELSE code'

ReadStatus ==
  /\ waiting = 0
  /\ SearchDelays \/ SearchEnds \/ SearchGoesOn \/ SwitchEnds
     \/ SwitchUnexpected \/ SwitchGoesOn \/ StopNow \/ NothingPending
  /\ result' = StatusByte
  /\ UNCHANGED <<number, muting, queue>>

Read == ~aborted /\ (ReadData \/ ReadStatus)
-----------------------------------------------------------------------------
(* What the player does by itself.                                         *)
interpreter == <<output, number, searching, switching, autostop, muting, queue>>

SeekEnds ==
  /\ disc = "SEARCHING"
  /\ \/ goal <= LastFrame /\ disc' = "PAUSED" /\ pos' = goal
     \/ (Faulty \/ goal > LastFrame) /\ disc' = "ERROR" /\ pos' = pos
  /\ UNCHANGED active

ChangeEnds ==
  /\ disc = "DISC_SWITCHING"
  /\ \/ goal \in Discs /\ disc' = "STOPPED" /\ active' = goal
     \/ (Faulty \/ goal \notin Discs) /\ disc' = "ERROR" /\ active' = active
  /\ UNCHANGED pos

SpinsUp == disc = "SPINNING_UP" /\ disc' = "PLAYING" /\ UNCHANGED <<pos, active>>

Rolls == /\ disc = "PLAYING" /\ pos < LastFrame
         /\ pos' = pos + 1
         /\ UNCHANGED <<disc, active>>

PlayerMoves ==
  /\ ~aborted
  /\ SeekEnds \/ ChangeEnds \/ SpinsUp \/ Rolls
  /\ calls' = <<>>
  /\ UNCHANGED <<interpreter, goal, sound, result>>

Next == \/ Reset
        \/ \E b \in Bytes : Write(b)
        \/ Read
        \/ PlayerMoves

Spec == Init /\ [][Next]_vars
-----------------------------------------------------------------------------
Codes == {Failed, Forward, Searched, Stopping, Playing, Stopped, Parked}
PlayerStates == {"ERROR", "SEARCHING", "STOPPED", "PLAYING", "PAUSED",
                 "SPINNING_UP", "DISC_SWITCHING"}

Callbacks == {"play", "pause", "begin_search", "step_reverse", "change_speed",
              "skip_forward", "skip_backward", "enable_audio", "disable_audio", "error",
              "begin_changing_to_disc", "change_seek_delay", "change_spinup_delay",
              "change_super_mode"}

(* Every variable has its C type's values that the code can give it.       *)
TypeOK ==
  /\ ready \in BOOLEAN /\ code \in Codes
  /\ frame \in 0..NumberModulus - 1 /\ keyed \in BOOLEAN
  /\ searchPending \in BOOLEAN /\ delay \in 0..MinDelay
  /\ expectsId \in BOOLEAN /\ switchPending \in BOOLEAN
  /\ autostop \in 0..NumberModulus - 1
  /\ audio \in [{0, 1} -> BOOLEAN] /\ tempMute \in BOOLEAN
  /\ waiting \in Nat /\ aborted \in BOOLEAN
  /\ disc \in PlayerStates
  /\ pos \in 0..LastFrame /\ goal \in Nat /\ active \in Discs
  /\ sound \in [{0, 1} -> BOOLEAN]
  /\ calls \in Seq([cb : Callbacks, arg : Nat])
  /\ result \in 0..Data
=============================================================================
