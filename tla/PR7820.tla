------------------------------- MODULE PR7820 -------------------------------
(***************************************************************************)
(* The Pioneer PR-7820 interpreter (src/src/pr7820-interpreter.c): one     *)
(* byte per command, a register that digits are shifted into, and two      *)
(* sound channels that a command toggles or, with a digit before it, sets. *)
(* The host is sent no replies.                                            *)
(***************************************************************************)
EXTENDS Player

CONSTANTS
  PR7820Bytes,        \* the bytes the host may send
  PR7820FrameSize     \* PR7820_FRAMESIZE, 5 in the code

ASSUME PR7820Assumption ==
  PR7820Bytes \subseteq 0..255 /\ PR7820FrameSize \in Nat \ {0}

VARIABLES
  pr7820_frame,       \* the register: digits, oldest first, or NULs
  pr7820_audio,       \* the channels the host has enabled
  pr7820_sound,       \* history: what change_audio last said of each
  pr7820_keyed        \* history: the digits keyed since they were last used

pr7820_vars == <<pr7820_frame, pr7820_audio, pr7820_sound, pr7820_keyed>>
-----------------------------------------------------------------------------
PR7820Nul == -1
PR7820Cells == 1..PR7820FrameSize
PR7820Empty == [i \in PR7820Cells |-> PR7820Nul]
Channels == {1, 2}              \* 0 and 1 in the code

PR7820Digit(b) ==
  CASE b = 63 -> 0 [] b = 15 -> 1 [] b = 143 -> 2 [] b = 79 -> 3 [] b = 47 -> 4
    [] b = 175 -> 5 [] b = 111 -> 6 [] b = 31 -> 7 [] b = 159 -> 8 [] b = 95 -> 9
PR7820DigitBytes == {63, 15, 143, 79, 47, 175, 111, 31, 159, 95}
PR7820SuperMode == 158          \* 0x9E
PR7820SetAudio == 160..163      \* 0xA0..0xA3
PR7820Audio == {244, 252}       \* 0xF4 0xFC
PR7820Search == 247             \* 0xF7
PR7820Stop == 251               \* 0xFB
PR7820Play == 253               \* 0xFD
PR7820Ignored == {225, 249, 255}    \* 0xE1 0xF9 0xFF
PR7820Known == PR7820DigitBytes \cup PR7820SetAudio \cup PR7820Audio \cup PR7820Ignored \cup
               {PR7820SuperMode, PR7820Search, PR7820Stop, PR7820Play}

PR7820Init ==
  /\ pr7820_frame = PR7820Empty
  /\ pr7820_audio = [ch \in Channels |-> TRUE]
  /\ pr7820_sound = [ch \in Channels |-> TRUE]
  /\ pr7820_keyed = <<>>

PR7820KeepDigits == UNCHANGED <<pr7820_frame>> /\ pr7820_keyed' = <<>>     \* mutant
PR7820Clear == pr7820_frame' = PR7820Empty /\ pr7820_keyed' = <<>>

(* The implementor is told nothing: the sound stays as it is.              *)
PR7820Reset ==
  /\ PR7820Clear
  /\ pr7820_audio' = [ch \in Channels |-> TRUE]
  /\ Nothing
  /\ UNCHANGED pr7820_sound

(* pr7820_add_digit.  The first digit makes the NULs before it zeros.      *)
PR7820Filled(i) == IF pr7820_frame[i] = PR7820Nul THEN 0 ELSE pr7820_frame[i]

PR7820AddDigit(b) ==
  /\ b \in PR7820DigitBytes
  /\ pr7820_frame' = [i \in PR7820Cells |->
                        IF i = PR7820FrameSize THEN PR7820Digit(b) ELSE PR7820Filled(i + 1)]
  /\ pr7820_keyed' = LET k == Append(pr7820_keyed, PR7820Digit(b))
                     IN SubSeq(k, Max({1, Len(k) - PR7820FrameSize + 1}), Len(k))
  /\ Nothing
  /\ UNCHANGED <<pr7820_audio, pr7820_sound>>

(* strtoul stops at the first NUL.                                         *)
PR7820Value(digits) == FoldLeft(LAMBDA n, d : 10 * n + d, 0, digits)
PR7820Read == {i \in PR7820Cells : \A j \in 1..i : pr7820_frame[j] # PR7820Nul}
PR7820Number == PR7820Value([i \in PR7820Read |-> pr7820_frame[i]])

PR7820BeginSearch(b) ==
  /\ b = PR7820Search
  /\ Do(<<Call("begin_search", PR7820Number)>>, <<>>)
  /\ PR7820Clear
  /\ UNCHANGED <<pr7820_audio, pr7820_sound>>

(* Channel ch is switched on or off, and the player told.                  *)
PR7820ChangeAudio(ch, on) == Call("change_audio", <<ch - 1, on>>)
PR7820TellsLeft(ch, on) ==                                       \* mutant
  /\ pr7820_audio' = [pr7820_audio EXCEPT ![ch] = on]
  /\ pr7820_sound' = [pr7820_sound EXCEPT ![1] = on]
  /\ Do(<<PR7820ChangeAudio(1, on)>>, <<>>)
PR7820Switch(ch, on) ==
  /\ pr7820_audio' = [pr7820_audio EXCEPT ![ch] = on]
  /\ pr7820_sound' = [pr7820_sound EXCEPT ![ch] = on]
  /\ Do(<<PR7820ChangeAudio(ch, on)>>, <<>>)

(* pr7820_audio1, pr7820_audio2.                                           *)
PR7820SwitchAudio(b) ==
  /\ b \in PR7820Audio
  /\ LET ch == IF b = 244 THEN 1 ELSE 2
         last == pr7820_frame[PR7820FrameSize]
     IN \/ /\ last = PR7820Nul
           /\ PR7820Switch(ch, ~pr7820_audio[ch])
           /\ UNCHANGED <<pr7820_frame, pr7820_keyed>>
        \/ /\ last # PR7820Nul
           /\ PR7820Switch(ch, last % 2 = 1)
           /\ PR7820Clear

PR7820SetBoth(b) ==
  /\ b \in PR7820SetAudio
  /\ LET on == [ch \in Channels |-> IF ch = 1 THEN b \in {161, 163} ELSE b \in {162, 163}]
     IN /\ pr7820_audio' = on
        /\ pr7820_sound' = on
        /\ Do(<<PR7820ChangeAudio(1, on[1]), PR7820ChangeAudio(2, on[2])>>, <<>>)
  /\ UNCHANGED <<pr7820_frame, pr7820_keyed>>

PR7820Other(b) ==
  /\ \/ b = PR7820SuperMode /\ Do(<<Call("enable_super_mode", 0)>>, <<>>)
     \/ b = PR7820Play /\ Do(<<Call("play", 0)>>, <<>>)
     \/ b = PR7820Stop /\ Do(<<Call("pause", 0)>>, <<>>)
     \/ b \in PR7820Ignored /\ Nothing
     \/ b \notin PR7820Known /\ Do(<<Error>>, <<>>)
  /\ UNCHANGED pr7820_vars

(* pr7820i_write.                                                          *)
PR7820Write(b) ==
  \/ PR7820AddDigit(b) \/ PR7820BeginSearch(b) \/ PR7820SwitchAudio(b)
  \/ PR7820SetBoth(b) \/ PR7820Other(b)

PR7820PlayerMoves == PlayerMoves /\ UNCHANGED pr7820_vars

PR7820Next ==
  \/ \E b \in PR7820Bytes : PR7820Write(b)
  \/ PR7820Reset
  \/ PR7820PlayerMoves

PR7820Spec == plugged = "PR7820" /\ PlayerInit /\ PR7820Init /\ [][PR7820Next]_<<playerVars, pr7820_vars>>
-----------------------------------------------------------------------------
PR7820Called == CallsOf("PR7820")

(* The register holds digits in all of its cells or in none, so that       *)
(* strtoul reads all of them and the audio commands see whether there are  *)
(* any by looking at the last.                                             *)
PR7820TypeOK ==
  /\ \/ pr7820_frame = PR7820Empty
     \/ pr7820_frame \in [PR7820Cells -> 0..9]
  /\ pr7820_audio \in [Channels -> BOOLEAN]
  /\ pr7820_sound \in [Channels -> BOOLEAN]

(* A search goes to the number that the last digits make that were keyed   *)
(* since the latest search, explicit audio command or reset.               *)
PR7820SearchesKeyed ==
  [][\A i \in DOMAIN PR7820Called' : PR7820Called'[i].cb = "begin_search"
       => PR7820Called'[i].arg = PR7820Value(pr7820_keyed)]_<<playerVars, pr7820_vars>>

(* Toggled, set by a digit or set by one of the four audio bytes: a        *)
(* channel that a command changes is heard exactly if it is enabled, even  *)
(* if a reset has enabled it without a word.                               *)
PR7820SoundFollows ==
  [][\A ch \in Channels :
       \/ pr7820_sound[ch]' = pr7820_audio[ch]'
       \/ UNCHANGED <<pr7820_audio[ch], pr7820_sound[ch]>>
       \/ PR7820Reset
    ]_<<playerVars, pr7820_vars>>
=============================================================================
