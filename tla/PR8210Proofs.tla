---------------------------- MODULE PR8210Proofs ----------------------------
(***************************************************************************)
(* Proofs about the PR-8210 interpreter, for every set of messages the     *)
(* host may send, every number of digits and every blink period: the       *)
(* types, the stand-by line, the second copy of a message and the two      *)
(* lines of the track jump.                                                *)
(***************************************************************************)
EXTENDS PR8210, TLAPS

(* The smaller of three and a count.                                       *)
LEMMA MinOfThree ==
  ASSUME NEW n \in 1..4
  PROVE  /\ Min({3, n}) \in 1..3
         /\ n <= 3 => Min({3, n}) = n
         /\ n = 4 => Min({3, n}) = 3
  <1>1. PICK m : m = IF n <= 3 THEN n ELSE 3
    OBVIOUS
  <1>2. m \in {3, n} /\ \A y \in {3, n} : m <= y
    BY <1>1
  <1>3. \A x \in {3, n} : (\A y \in {3, n} : x <= y) => x = m
    BY <1>1
  <1>4. Min({3, n}) = m
    BY <1>2, <1>3 DEF Min
  <1>5. QED
    BY <1>1, <1>4

(* A message in one piece carries a command of five bits.                  *)
LEMMA CommandTyped ==
  ASSUME NEW msg \in PR8210Messages
  PROVE  /\ PR8210Cmd(msg) \in 0..255
         /\ PR8210Intact(msg) => PR8210Cmd(msg) \in 0..31
  BY PR8210Assumption DEF PR8210Cmd, PR8210Intact
-----------------------------------------------------------------------------
(* Types, in three parts that different steps disturb.                     *)
MessageTyped ==
  /\ pr8210_u8OldMsg \in 0..255 /\ pr8210_u8CurMsg \in {PR8210None, pr8210_u8OldMsg}
  /\ pr8210_copies \in 0..3
NumberTyped ==
  /\ pr8210_u32Frame \in Nat /\ pr8210_u8FrameIdx \in 0..PR8210MaxDigits
  /\ pr8210_u8Audio \in {0, 1} \X {0, 1}
  /\ pr8210_u8VsyncCounter \in 0..PR8210Blink
LinesTyped ==
  /\ pr8210_bJumpTriggerRaised \in BOOLEAN /\ pr8210_bScanCRaised \in BOOLEAN
  /\ pr8210_bInternalMode \in BOOLEAN
  /\ pr8210_bPlayerBusy \in BOOLEAN /\ pr8210_bStandByRaised \in BOOLEAN
  /\ pr8210_line \in BOOLEAN

LEMMA TypesInParts ==
  /\ PR8210TypeOK <=> (MessageTyped /\ NumberTyped /\ LinesTyped)
  /\ PR8210TypeOK' <=> (MessageTyped' /\ NumberTyped' /\ LinesTyped')
  BY Zenon DEF PR8210TypeOK, MessageTyped, NumberTyped, LinesTyped

(* What an intact message does to the memory of messages.                  *)
LEMMA ReceiveTyped ==
  ASSUME MessageTyped, NEW msg \in PR8210Messages, PR8210Receive(msg)
  PROVE  MessageTyped'
  <1>1. PICK cmd \in 0..255 :
          /\ PR8210FirstCopy(cmd) \/ PR8210SecondCopy(cmd) \/ PR8210FurtherCopy(cmd)
          /\ pr8210_copies' = IF cmd = pr8210_u8OldMsg THEN Min({3, pr8210_copies + 1}) ELSE 1
    BY CommandTyped DEF PR8210Receive
  <1>2. pr8210_copies' \in 0..3
    BY <1>1, MinOfThree DEF MessageTyped
  <1>3. \/ pr8210_u8OldMsg' = cmd /\ pr8210_u8CurMsg' = PR8210None
        \/ pr8210_u8OldMsg' = cmd /\ pr8210_u8CurMsg' = cmd
    BY <1>1, Zenon DEF PR8210FirstCopy, PR8210ForgetCurrent, PR8210SecondCopy, PR8210FurtherCopy
  <1>4. QED
    BY <1>2, <1>3 DEF MessageTyped

(* A channel of the sound is switched on or off.                           *)
LEMMA ToggleTyped ==
  ASSUME NEW a \in {0, 1} \X {0, 1}, NEW ch \in {1, 2}
  PROVE  [a EXCEPT ![ch] = 1 - @] \in {0, 1} \X {0, 1}
  <1>1. PICK l \in {0, 1}, r \in {0, 1} : a = <<l, r>>
    OBVIOUS
  <1>2. CASE ch = 1
    BY <1>1, <1>2
  <1>3. CASE ch = 2
    BY <1>1, <1>3
  <1>4. QED
    BY <1>2, <1>3

(* No sixth digit is counted, and a search starts the blink period.        *)
LEMMA ObeyTyped ==
  ASSUME NumberTyped, NEW cmd \in 0..255, PR8210Obey(cmd)
  PROVE  NumberTyped'
  <1>1. CASE PR8210Call(cmd)
    BY <1>1 DEF PR8210Call, NumberTyped, pr8210_number, pr8210_standby
  <1>2. CASE PR8210Toggle(cmd)
    <2>1. UNCHANGED <<pr8210_number, pr8210_standby>>
      BY <1>2, Zenon DEF PR8210Toggle
    <2>2. PICK ch \in {1, 2} : pr8210_u8Audio' = [pr8210_u8Audio EXCEPT ![ch] = 1 - @]
      BY <1>2 DEF PR8210Toggle
    <2>3. pr8210_u8Audio' \in {0, 1} \X {0, 1}
      BY <2>2, ToggleTyped DEF NumberTyped
    <2>4. QED
      BY <2>1, <2>3 DEF NumberTyped, pr8210_number, pr8210_standby
  <1>3. CASE PR8210Digit(cmd)
    <2>1. UNCHANGED <<pr8210_u8Audio, pr8210_standby>> /\ cmd \in 16..25
      BY <1>3, Zenon DEF PR8210Digit, PR8210Digits
    <2>2. CASE PR8210Room /\ pr8210_u32Frame' = pr8210_u32Frame * 10 + (cmd - 16)
                /\ pr8210_u8FrameIdx' = pr8210_u8FrameIdx + 1
      <3>1. pr8210_u32Frame' \in Nat
        BY <2>1, <2>2 DEF NumberTyped
      <3>2. pr8210_u8FrameIdx' \in 0..PR8210MaxDigits
        BY <2>2, PR8210Assumption DEF NumberTyped, PR8210Room
      <3>3. QED
        BY <2>1, <3>1, <3>2 DEF NumberTyped, pr8210_standby
    <2>3. CASE UNCHANGED pr8210_number
      BY <2>1, <2>3 DEF NumberTyped, pr8210_number, pr8210_standby
    <2>4. QED
      BY <1>3, <2>2, <2>3, Zenon DEF PR8210Digit
  <1>4. CASE PR8210BeginSearch(cmd)
    <2>1. /\ pr8210_u32Frame' = 0 /\ pr8210_u8FrameIdx' = 0
          /\ pr8210_u8Audio' = pr8210_u8Audio
          /\ \/ pr8210_u8VsyncCounter' = 0
             \/ pr8210_u8VsyncCounter' = pr8210_u8VsyncCounter
      BY <1>4 DEF PR8210BeginSearch, pr8210_standby
    <2>2. QED
      BY <2>1, PR8210Assumption DEF NumberTyped
  <1>5. QED
    BY <1>1, <1>2, <1>3, <1>4, Zenon DEF PR8210Obey

(* Obeyed or not, a message leaves the numbers typed.                      *)
LEMMA WriteCounts ==
  ASSUME MessageTyped, NumberTyped, NEW msg \in PR8210Messages, PR8210Write(msg)
  PROVE  MessageTyped' /\ NumberTyped'
  <1>1. CASE PR8210Corrupt(msg)
    BY <1>1 DEF PR8210Corrupt, MessageTyped, NumberTyped, pr8210_message, pr8210_number,
                pr8210_standby
  <1>2. CASE PR8210Receive(msg)
    <2>1. PICK cmd \in 0..255 :
            PR8210FirstCopy(cmd) \/ PR8210SecondCopy(cmd) \/ PR8210FurtherCopy(cmd)
      BY <1>2, CommandTyped DEF PR8210Receive
    <2>2. PR8210Ignored \/ PR8210Obey(cmd)
      BY <2>1, Zenon DEF PR8210FirstCopy, PR8210SecondCopy, PR8210FurtherCopy
    <2>3. CASE PR8210Ignored
      BY <1>2, <2>3, ReceiveTyped DEF PR8210Ignored, NumberTyped, pr8210_number, pr8210_standby
    <2>4. QED
      BY <1>2, <2>2, <2>3, ReceiveTyped, ObeyTyped
  <1>3. QED
    BY <1>1, <1>2, Zenon DEF PR8210Write

(* The lines the interpreter drives are high or low.                       *)
LEMMA WriteTyped ==
  ASSUME LinesTyped, NEW msg, PR8210Write(msg)
  PROVE  LinesTyped'
  <1>1. UNCHANGED pr8210_jump
    BY Zenon DEF PR8210Write
  <1>2. \/ UNCHANGED pr8210_standby
        \/ pr8210_bPlayerBusy' = TRUE /\ pr8210_bStandByRaised' = TRUE /\ pr8210_line' = TRUE
    BY Zenon DEF PR8210Write, PR8210Corrupt, PR8210Receive, PR8210FirstCopy, PR8210Ignored,
       PR8210SecondCopy, PR8210FurtherCopy, PR8210Obey, PR8210Call, PR8210Toggle, PR8210Digit,
       PR8210BeginSearch, PR8210RaiseStandBy
  <1>3. QED
    BY <1>1, <1>2 DEF LinesTyped, pr8210_jump, pr8210_standby

(* In the vertical blank the counter stays in its period.                  *)
LEMMA VBlankTyped ==
  ASSUME PR8210TypeOK, PR8210VBlank
  PROVE  PR8210TypeOK'
  <1>1. /\ UNCHANGED <<pr8210_message, pr8210_number, pr8210_u8Audio, pr8210_jump>>
        /\ PR8210StillBusy \/ PR8210NoLongerBusy \/ PR8210NotBusy
    BY Zenon DEF PR8210VBlank
  <1>2. pr8210_u8VsyncCounter' \in 0..PR8210Blink
    <2>1. pr8210_u8VsyncCounter \in 0..PR8210Blink
      BY TypesInParts DEF NumberTyped
    <2>2. \/ pr8210_u8VsyncCounter' = 0
          \/ pr8210_u8VsyncCounter < PR8210Blink
             /\ pr8210_u8VsyncCounter' = pr8210_u8VsyncCounter + 1
          \/ pr8210_u8VsyncCounter' = pr8210_u8VsyncCounter
      BY <1>1 DEF PR8210StillBusy, PR8210NoLongerBusy, PR8210NotBusy, pr8210_standby
    <2>3. QED
      BY <2>1, <2>2, PR8210Assumption
  <1>3. /\ pr8210_bPlayerBusy' \in BOOLEAN /\ pr8210_bStandByRaised' \in BOOLEAN
        /\ pr8210_line' \in BOOLEAN
    <2>1. /\ pr8210_bPlayerBusy \in BOOLEAN /\ pr8210_bStandByRaised \in BOOLEAN
          /\ pr8210_line \in BOOLEAN
      BY TypesInParts DEF LinesTyped
    <2>2. \/ /\ pr8210_bPlayerBusy' = pr8210_bPlayerBusy
             /\ pr8210_bStandByRaised' = ~pr8210_bStandByRaised
             /\ pr8210_line' = ~pr8210_bStandByRaised
          \/ /\ pr8210_bPlayerBusy' = FALSE
             /\ pr8210_bStandByRaised' = pr8210_bStandByRaised
             /\ pr8210_line' = FALSE \/ pr8210_line' = pr8210_line
          \/ /\ pr8210_bPlayerBusy' = pr8210_bPlayerBusy
             /\ pr8210_bStandByRaised' = pr8210_bStandByRaised
             /\ pr8210_line' = pr8210_line
      BY <1>1 DEF PR8210StillBusy, PR8210NoLongerBusy, PR8210NotBusy, pr8210_standby
    <2>3. QED
      BY <2>1, <2>2, Zenon
  <1>4. QED
    BY <1>1, <1>2, <1>3 DEF PR8210TypeOK, pr8210_message, pr8210_number, pr8210_jump

(* Every step keeps the types.                                             *)
LEMMA NextTyped ==
  ASSUME PR8210TypeOK, [PR8210Next]_<<playerVars, pr8210_vars>>
  PROVE  PR8210TypeOK'
  <1>1. ASSUME NEW msg \in PR8210Messages, PR8210Write(msg) PROVE PR8210TypeOK'
    BY <1>1, TypesInParts, WriteCounts, WriteTyped, Zenon
  <1>2. ASSUME NEW raised \in BOOLEAN, NEW scanC \in BOOLEAN, PR8210Trigger(raised, scanC)
        PROVE  PR8210TypeOK'
    <2>1. /\ pr8210_bJumpTriggerRaised' = raised /\ pr8210_bScanCRaised' = scanC
          /\ UNCHANGED <<pr8210_bInternalMode, pr8210_message, pr8210_number, pr8210_u8Audio,
                         pr8210_standby>>
      BY <1>2, Zenon DEF PR8210Trigger
    <2>2. QED
      BY <2>1 DEF PR8210TypeOK, pr8210_message, pr8210_number, pr8210_standby
  <1>3. ASSUME NEW internal \in BOOLEAN, PR8210Mode(internal) PROVE PR8210TypeOK'
    <2>1. /\ pr8210_bInternalMode' = internal \/ pr8210_bInternalMode' = pr8210_bInternalMode
          /\ UNCHANGED <<pr8210_bJumpTriggerRaised, pr8210_bScanCRaised, pr8210_message,
                         pr8210_number, pr8210_u8Audio, pr8210_standby>>
      BY <1>3, Zenon DEF PR8210Mode
    <2>2. QED
      BY <2>1 DEF PR8210TypeOK, pr8210_message, pr8210_number, pr8210_standby
  <1>4. CASE PR8210Reset
    <2>1. MessageTyped' /\ NumberTyped'
      BY <1>4, PR8210Assumption DEF PR8210Reset, MessageTyped, NumberTyped, PR8210None
    <2>2. LinesTyped'
      BY <1>4, TypesInParts, Zenon DEF PR8210Reset, LinesTyped
    <2>3. QED
      BY <2>1, <2>2, TypesInParts
  <1>5. CASE UNCHANGED pr8210_vars
    BY <1>5 DEF PR8210TypeOK, pr8210_vars, pr8210_message, pr8210_number, pr8210_jump,
                pr8210_standby
  <1>6. PR8210PlayerMoves \/ UNCHANGED <<playerVars, pr8210_vars>> => UNCHANGED pr8210_vars
    BY DEF PR8210PlayerMoves
  <1>7. QED
    BY <1>1, <1>2, <1>3, <1>4, <1>5, <1>6, VBlankTyped, Zenon DEF PR8210Next

LEMMA InitTyped == PR8210Init => PR8210TypeOK
  <1> SUFFICES ASSUME PR8210Init PROVE PR8210TypeOK
    OBVIOUS
  <1>1. MessageTyped /\ NumberTyped
    BY PR8210Assumption DEF PR8210Init, MessageTyped, NumberTyped, PR8210None
  <1>2. LinesTyped
    BY Zenon DEF PR8210Init, LinesTyped
  <1>3. QED
    BY <1>1, <1>2, TypesInParts

(* No digit too many is counted and the blink counter stays in its period, *)
(* whatever the host sends.                                                *)
THEOREM TypeCorrect == PR8210Spec => []PR8210TypeOK
  BY InitTyped, NextTyped, PTL DEF PR8210Spec
-----------------------------------------------------------------------------
(* The stand-by line.  A step that keeps the player busy raises the line   *)
(* and the belief together, blinks both, or touches neither.               *)
LEMMA BeliefKept ==
  ASSUME PR8210LineIsBelieved, [PR8210Next]_<<playerVars, pr8210_vars>>
  PROVE  PR8210LineIsBelieved'
  <1>1. ASSUME UNCHANGED pr8210_standby PROVE PR8210LineIsBelieved'
    BY <1>1 DEF pr8210_standby, PR8210LineIsBelieved
  <1>2. ASSUME NEW msg, PR8210Write(msg) PROVE PR8210LineIsBelieved'
    <2>1. \/ UNCHANGED pr8210_standby
          \/ pr8210_bStandByRaised' = TRUE /\ pr8210_line' = TRUE
      BY <1>2, Zenon DEF PR8210Write, PR8210Corrupt, PR8210Receive, PR8210FirstCopy,
         PR8210Ignored, PR8210SecondCopy, PR8210FurtherCopy, PR8210Obey, PR8210Call,
         PR8210Toggle, PR8210Digit, PR8210BeginSearch, PR8210RaiseStandBy
    <2>2. QED
      BY <1>1, <2>1, Zenon DEF PR8210LineIsBelieved
  <1>3. CASE PR8210VBlank
    <2>1. CASE PR8210StillBusy
      <3>1. \/ /\ pr8210_bStandByRaised' = ~pr8210_bStandByRaised
               /\ pr8210_line' = ~pr8210_bStandByRaised
            \/ UNCHANGED <<pr8210_bStandByRaised, pr8210_line>>
        BY <2>1, Zenon DEF PR8210StillBusy
      <3>2. pr8210_bPlayerBusy
        BY <2>1, Zenon DEF PR8210StillBusy
      <3>3. QED
        BY <3>1, <3>2 DEF PR8210LineIsBelieved
    <2>2. CASE PR8210NoLongerBusy
      BY <2>2, Zenon DEF PR8210NoLongerBusy, PR8210LineIsBelieved
    <2>3. CASE PR8210NotBusy
      BY <1>1, <2>3, Zenon DEF PR8210NotBusy
    <2>4. QED
      BY <1>3, <2>1, <2>2, <2>3, Zenon DEF PR8210VBlank
  <1>4. CASE PR8210Reset
    BY <1>4, Zenon DEF PR8210Reset, PR8210LineIsBelieved
  <1>5. ASSUME NEW raised, NEW scanC, PR8210Trigger(raised, scanC)
        PROVE  UNCHANGED pr8210_standby
    BY <1>5, Zenon DEF PR8210Trigger
  <1>6. ASSUME NEW internal, PR8210Mode(internal) PROVE UNCHANGED pr8210_standby
    BY <1>6, Zenon DEF PR8210Mode
  <1>7. PR8210PlayerMoves \/ UNCHANGED <<playerVars, pr8210_vars>> => UNCHANGED pr8210_standby
    BY DEF PR8210PlayerMoves, pr8210_vars
  <1>8. QED
    BY <1>1, <1>2, <1>3, <1>4, <1>5, <1>6, <1>7, Zenon DEF PR8210Next

(* While a search lasts, the implementor's line is what the interpreter    *)
(* takes it for.                                                           *)
THEOREM LineBelieved == PR8210Spec => []PR8210LineIsBelieved
  <1>1. PR8210Init => PR8210LineIsBelieved
    BY DEF PR8210Init, PR8210LineIsBelieved
  <1>2. QED
    BY <1>1, BeliefKept, PTL DEF PR8210Spec
-----------------------------------------------------------------------------
(* Copies.  How often the latest message came in a row is to be seen from  *)
(* the two messages the interpreter remembers.                             *)
CopiesInv ==
  /\ pr8210_copies = 0 <=> pr8210_u8OldMsg = PR8210None
  /\ pr8210_copies = 1 => pr8210_u8CurMsg = PR8210None
  /\ pr8210_copies \in 2..3 => pr8210_u8CurMsg = pr8210_u8OldMsg

(* An intact message, told apart by how many copies it makes.              *)
LEMMA CopyCounted ==
  ASSUME MessageTyped, CopiesInv, NEW msg \in PR8210Messages, PR8210Receive(msg)
  PROVE  \E cmd \in 0..31 :
           \/ /\ PR8210FirstCopy(cmd) /\ pr8210_copies' = 1
              /\ pr8210_u8OldMsg' = cmd /\ pr8210_u8CurMsg' = PR8210None
           \/ /\ PR8210SecondCopy(cmd) /\ pr8210_copies = 1 /\ pr8210_copies' = 2
              /\ pr8210_u8OldMsg = cmd /\ pr8210_u8OldMsg' = cmd /\ pr8210_u8CurMsg' = cmd
           \/ /\ PR8210FurtherCopy(cmd) /\ pr8210_copies \in 2..3 /\ pr8210_copies' = 3
              /\ pr8210_u8OldMsg' = cmd /\ pr8210_u8CurMsg' = cmd
  <1>1. PICK cmd \in 0..31 :
          /\ PR8210FirstCopy(cmd) \/ PR8210SecondCopy(cmd) \/ PR8210FurtherCopy(cmd)
          /\ pr8210_copies' = IF cmd = pr8210_u8OldMsg THEN Min({3, pr8210_copies + 1}) ELSE 1
    BY CommandTyped DEF PR8210Receive
  <1>2. cmd # PR8210None /\ pr8210_copies \in 0..3
    BY DEF PR8210None, MessageTyped
  <1>3. CASE PR8210FirstCopy(cmd)
    <2>1. cmd # pr8210_u8OldMsg /\ pr8210_u8OldMsg' = cmd /\ pr8210_u8CurMsg' = PR8210None
      BY <1>3, Zenon DEF PR8210FirstCopy, PR8210ForgetCurrent
    <2>2. pr8210_copies' = 1
      BY <1>1, <2>1, Zenon
    <2>3. QED
      BY <1>3, <2>1, <2>2, Zenon
  <1>4. CASE PR8210SecondCopy(cmd)
    <2>1. /\ cmd = pr8210_u8OldMsg /\ cmd # pr8210_u8CurMsg
          /\ pr8210_u8CurMsg' = cmd /\ pr8210_u8OldMsg' = pr8210_u8OldMsg
      BY <1>4, Zenon DEF PR8210SecondCopy
    <2>2. pr8210_copies = 1
      BY <1>2, <2>1 DEF CopiesInv
    <2>3. pr8210_copies' = 2
      BY <1>1, <2>1, <2>2, MinOfThree
    <2>4. QED
      BY <1>4, <2>1, <2>2, <2>3, Zenon
  <1>5. CASE PR8210FurtherCopy(cmd)
    <2>1. /\ cmd = pr8210_u8OldMsg /\ cmd = pr8210_u8CurMsg
          /\ pr8210_u8CurMsg' = pr8210_u8CurMsg /\ pr8210_u8OldMsg' = pr8210_u8OldMsg
      BY <1>5, Zenon DEF PR8210FurtherCopy
    <2>2. pr8210_copies \in 2..3
      BY <1>2, <2>1 DEF CopiesInv
    <2>3. pr8210_copies' = 3
      BY <1>1, <2>1, <2>2, MinOfThree
    <2>4. QED
      BY <1>5, <2>1, <2>2, <2>3, Zenon
  <1>6. QED
    BY <1>1, <1>3, <1>4, <1>5

LEMMA CopiesKept ==
  ASSUME PR8210TypeOK, CopiesInv, [PR8210Next]_<<playerVars, pr8210_vars>>
  PROVE  CopiesInv'
  <1>1. ASSUME UNCHANGED pr8210_message PROVE CopiesInv'
    BY <1>1 DEF CopiesInv, pr8210_message
  <1>2. ASSUME NEW msg \in PR8210Messages, PR8210Receive(msg) PROVE CopiesInv'
    <2>1. PICK cmd \in 0..31 :
            \/ /\ pr8210_copies' = 1
               /\ pr8210_u8OldMsg' = cmd /\ pr8210_u8CurMsg' = PR8210None
            \/ /\ pr8210_copies' = 2
               /\ pr8210_u8OldMsg' = cmd /\ pr8210_u8CurMsg' = cmd
            \/ /\ pr8210_copies' = 3
               /\ pr8210_u8OldMsg' = cmd /\ pr8210_u8CurMsg' = cmd
      BY <1>2, TypesInParts, CopyCounted, Zenon
    <2>2. cmd # PR8210None
      BY DEF PR8210None
    <2>3. QED
      BY <2>1, <2>2 DEF CopiesInv
  <1>3. ASSUME NEW msg \in PR8210Messages, PR8210Write(msg) PROVE CopiesInv'
    BY <1>1, <1>2, <1>3, Zenon DEF PR8210Write, PR8210Corrupt
  <1>4. ASSUME NEW raised, NEW scanC, PR8210Trigger(raised, scanC)
        PROVE  UNCHANGED pr8210_message
    BY <1>4, Zenon DEF PR8210Trigger
  <1>5. ASSUME NEW internal, PR8210Mode(internal) PROVE UNCHANGED pr8210_message
    BY <1>5, Zenon DEF PR8210Mode
  <1>6. PR8210VBlank => UNCHANGED pr8210_message
    BY Zenon DEF PR8210VBlank
  <1>7. CASE PR8210Reset
    BY <1>7 DEF PR8210Reset, CopiesInv
  <1>8. PR8210PlayerMoves \/ UNCHANGED <<playerVars, pr8210_vars>> => UNCHANGED pr8210_message
    BY DEF PR8210PlayerMoves, pr8210_vars
  <1>9. QED
    BY <1>1, <1>3, <1>4, <1>5, <1>6, <1>7, <1>8, Zenon DEF PR8210Next

LEMMA CopiesBegin == PR8210Init => CopiesInv
  BY DEF PR8210Init, CopiesInv
-----------------------------------------------------------------------------
(* Which callbacks a step makes.                                           *)
Drives == \E i \in DOMAIN calls' : calls'[i].cb \in PR8210ByMessage

LEMMA NothingDrives == Nothing => ~Drives
  BY DEF Nothing, Do, Drives

LEMMA OneCallMade ==
  ASSUME NEW c, NEW ws, Do(<<c>>, ws)
  PROVE  Drives <=> c.cb \in PR8210ByMessage
  BY DEF Do, Drives

(* What is in a sequence of calls.                                         *)
LEMMA Concatenated ==
  ASSUME NEW S, NEW s \in Seq(S), NEW t \in Seq(S)
  PROVE  /\ DOMAIN (s \o t) = 1..Len(s) + Len(t)
         /\ \A i \in 1..Len(s) : (s \o t)[i] = s[i]
         /\ \A i \in 1..Len(t) : (s \o t)[Len(s) + i] = t[i]
  OBVIOUS

LEMMA CallsMade ==
  ASSUME NEW c, NEW d
  PROVE  /\ ToSet(<<>>) = {} /\ ToSet(<<c>>) = {c} /\ ToSet(<<c, d>>) = {c, d}
         /\ ToSet(<<c>> \o <<>>) = {c} /\ ToSet(<<c>> \o <<d>>) = {c, d}
  <1>1. /\ ToSet(<<>>) = {} /\ ToSet(<<c>>) = {c} /\ ToSet(<<c, d>>) = {c, d}
    BY DEF ToSet
  <1> DEFINE s == <<c>>
             t == <<d>>
             e == <<>>
  <1>2. s \in Seq({c, d}) /\ Len(s) = 1 /\ s[1] = c
    OBVIOUS
  <1>3. t \in Seq({c, d}) /\ Len(t) = 1 /\ t[1] = d
    OBVIOUS
  <1>4. e \in Seq({c, d}) /\ Len(e) = 0
    OBVIOUS
  <1> HIDE DEF s, t, e
  <1>5. ToSet(s \o t) = {c, d}
    <2>1. /\ DOMAIN (s \o t) = 1..Len(s) + Len(t)
          /\ \A i \in 1..Len(s) : (s \o t)[i] = s[i]
          /\ \A i \in 1..Len(t) : (s \o t)[Len(s) + i] = t[i]
      BY <1>2, <1>3, Concatenated
    <2>2. PICK w : w = s \o t
      OBVIOUS
    <2>3. DOMAIN w = 1..2 /\ w[1] = c /\ w[2] = d
      BY <1>2, <1>3, <2>1, <2>2
    <2>4. ToSet(w) = {c, d}
      BY <2>3 DEF ToSet
    <2>5. QED
      BY <2>2, <2>4
  <1>6. ToSet(s \o e) = {c}
    <2>1. /\ DOMAIN (s \o e) = 1..Len(s) + Len(e)
          /\ \A i \in 1..Len(s) : (s \o e)[i] = s[i]
      BY <1>2, <1>4, Concatenated
    <2>2. PICK w : w = s \o e
      OBVIOUS
    <2>3. DOMAIN w = 1..1 /\ w[1] = c
      BY <1>2, <1>4, <2>1, <2>2
    <2>4. ToSet(w) = {c}
      BY <2>3 DEF ToSet
    <2>5. QED
      BY <2>2, <2>4
  <1>7. QED
    BY <1>1, <1>5, <1>6 DEF s, t, e

(* Without a message nothing drives the player.                            *)
LEMMA OthersDoNotDrive ==
  /\ \A raised, scanC : PR8210Trigger(raised, scanC) => ~Drives
  /\ \A internal : PR8210Mode(internal) => ~Drives
  /\ PR8210VBlank \/ PR8210Reset \/ PR8210PlayerMoves => ~Drives
  <1>1. \A scanC : PR8210SkipBy(scanC).cb \notin PR8210ByMessage
    BY DEF PR8210SkipBy, Call, PR8210ByMessage
  <1>2. \A raised : PR8210Standby(raised).cb \notin PR8210ByMessage
    BY DEF PR8210Standby, Call, PR8210ByMessage
  <1>3. ASSUME NEW raised, NEW scanC, PR8210Trigger(raised, scanC) PROVE ~Drives
    <2>1. Nothing \/ Do(<<PR8210SkipBy(scanC)>>, <<>>)
      BY <1>3, Zenon DEF PR8210Trigger
    <2>2. QED
      BY <1>1, <2>1, NothingDrives, OneCallMade, Zenon
  <1>4. ASSUME NEW internal, PR8210Mode(internal) PROVE ~Drives
    <2>1. CASE Nothing
      BY <2>1, NothingDrives
    <2>2. CASE ~Nothing
      <3>1. calls' = <<Call("change_auto_track_jump", internal)>> \o
                     (IF PR8210Edge(internal) THEN <<PR8210SkipBy(pr8210_bScanCRaised)>> ELSE <<>>)
        BY <1>4, <2>2, Zenon DEF PR8210Mode, Do
      <3>2. PICK c : c = Call("change_auto_track_jump", internal)
        OBVIOUS
      <3>3. PICK d : d = PR8210SkipBy(pr8210_bScanCRaised)
        OBVIOUS
      <3>4. c.cb \notin PR8210ByMessage /\ d.cb \notin PR8210ByMessage
        BY <1>1, <3>2, <3>3 DEF Call, PR8210ByMessage
      <3>5. ToSet(calls') = {c, d} \/ ToSet(calls') = {c}
        BY <3>1, <3>2, <3>3, CallsMade, Zenon
      <3>6. QED
        BY <3>4, <3>5 DEF Drives, ToSet
    <2>3. QED
      BY <2>1, <2>2
  <1>5. ASSUME PR8210VBlank PROVE ~Drives
    <2>1. Nothing \/ \E raised : Do(<<PR8210Standby(raised)>>, <<>>)
      BY <1>5, Zenon DEF PR8210VBlank, PR8210StillBusy, PR8210NoLongerBusy, PR8210NotBusy
    <2>2. QED
      BY <1>2, <2>1, NothingDrives, OneCallMade, Zenon
  <1>6. PR8210Reset => ~Drives
    BY NothingDrives, Zenon DEF PR8210Reset
  <1>7. PR8210PlayerMoves => ~Drives
    <2>1. PR8210PlayerMoves => calls' = <<>>
      BY Zenon DEF PR8210PlayerMoves, PlayerMoves, Found, Fails, SpunUp, Stepped, Rolls, Becomes
    <2>2. QED
      BY <2>1 DEF Drives
  <1>8. QED
    BY <1>3, <1>4, <1>5, <1>6, <1>7, Zenon

(* A message that is ignored or reported drives nothing; obeyed, one of    *)
(* the simple commands does.                                               *)
LEMMA ErrorDoesNotDrive == Error.cb \notin PR8210ByMessage
  BY DEF Error, Call, PR8210ByMessage

LEMMA SimpleCommandDrives ==
  ASSUME NEW cmd \in PR8210OneCall, PR8210Obey(cmd)
  PROVE  Drives
  <1>1. PR8210Call(cmd)
    BY DEF PR8210Obey, PR8210OneCall, PR8210Toggle, PR8210AudioLeft, PR8210AudioRight,
           PR8210Digit, PR8210Digits, PR8210BeginSearch, PR8210Search
  <1>2. Do(<<PR8210CallOf(cmd)>>, <<>>)
    BY <1>1 DEF PR8210Call, PR8210OneCall, PR8210Filler, PR8210Reject
  <1>3. PR8210CallOf(cmd).cb \in PR8210ByMessage
    BY DEF PR8210OneCall, PR8210CallOf, Call, PR8210ByMessage
  <1>4. QED
    BY <1>2, <1>3, OneCallMade

(* Only the second copy of a message in a row drives the player, the sound *)
(* or the stand-by line, and the second copy of a simple command does.     *)
LEMMA SecondCopyDrives ==
  ASSUME PR8210TypeOK, CopiesInv, [PR8210Next]_<<playerVars, pr8210_vars>>
  PROVE  /\ Drives /\ PR8210Next => PR8210Second
         /\ PR8210Second /\ pr8210_u8OldMsg \in PR8210OneCall => Drives
  <1>1. ASSUME NEW msg \in PR8210Messages, PR8210Write(msg)
        PROVE  (Drives => PR8210Second) /\ (PR8210Second /\ pr8210_u8OldMsg \in PR8210OneCall => Drives)
    <2>1. CASE PR8210Corrupt(msg)
      <3>1. ~Drives
        BY <2>1, ErrorDoesNotDrive, OneCallMade, Zenon DEF PR8210Corrupt
      <3>2. pr8210_copies' = pr8210_copies
        BY <2>1 DEF PR8210Corrupt, pr8210_message
      <3>3. QED
        BY <3>1, <3>2 DEF PR8210Second
    <2>2. CASE PR8210Receive(msg)
      <3>1. PICK cmd \in 0..31 :
             \/ PR8210FirstCopy(cmd) /\ pr8210_copies' = 1
             \/ PR8210SecondCopy(cmd) /\ PR8210Second /\ pr8210_u8OldMsg = cmd
             \/ PR8210FurtherCopy(cmd) /\ pr8210_copies' = 3
        BY <2>2, TypesInParts, CopyCounted, Zenon DEF PR8210Second
      <3>2. PR8210FirstCopy(cmd) \/ PR8210FurtherCopy(cmd) => ~Drives
        BY NothingDrives, Zenon DEF PR8210FirstCopy, PR8210FurtherCopy, PR8210Ignored
      <3>3. PR8210SecondCopy(cmd) /\ cmd \in PR8210OneCall => Drives
        BY SimpleCommandDrives, Zenon DEF PR8210SecondCopy
      <3>4. pr8210_copies' = 1 \/ pr8210_copies' = 3 => ~PR8210Second
        BY DEF PR8210Second
      <3>5. QED
        BY <3>1, <3>2, <3>3, <3>4, Zenon
    <2>3. QED
      BY <1>1, <2>1, <2>2, Zenon DEF PR8210Write
  <1>2. ASSUME NEW raised, NEW scanC, PR8210Trigger(raised, scanC)
        PROVE  ~Drives /\ UNCHANGED pr8210_message
    BY <1>2, OthersDoNotDrive, Zenon DEF PR8210Trigger
  <1>3. ASSUME NEW internal, PR8210Mode(internal) PROVE ~Drives /\ UNCHANGED pr8210_message
    BY <1>3, OthersDoNotDrive, Zenon DEF PR8210Mode
  <1>4. PR8210VBlank => ~Drives /\ UNCHANGED pr8210_message
    BY OthersDoNotDrive, Zenon DEF PR8210VBlank
  <1>5. PR8210Reset => ~Drives /\ pr8210_copies' = 0
    BY OthersDoNotDrive, Zenon DEF PR8210Reset
  <1>6. PR8210PlayerMoves => ~Drives /\ UNCHANGED pr8210_message
    BY OthersDoNotDrive DEF PR8210PlayerMoves, pr8210_vars
  <1>7. UNCHANGED <<playerVars, pr8210_vars>> => UNCHANGED pr8210_message
    BY DEF pr8210_vars
  <1>8. UNCHANGED pr8210_message => ~PR8210Second
    BY DEF pr8210_message, PR8210Second
  <1>9. pr8210_copies' = 0 => ~PR8210Second
    BY DEF PR8210Second
  <1>10. QED
    BY <1>1, <1>2, <1>3, <1>4, <1>5, <1>6, <1>7, <1>8, <1>9, Zenon DEF PR8210Next

(* The memory of messages is right in every reachable state.               *)
THEOREM CopiesAreCounted == PR8210Spec => [](PR8210TypeOK /\ CopiesInv)
  <1>1. PR8210Init => CopiesInv
    BY CopiesBegin
  <1>2. QED
    BY <1>1, CopiesKept, InitTyped, NextTyped, PTL DEF PR8210Spec

(* The interpreter stays plugged in.                                       *)
LEMMA StaysPlugged ==
  ASSUME [PR8210Next]_<<playerVars, pr8210_vars>>
  PROVE  plugged' = plugged
  <1>1. \A cs, ws : Do(cs, ws) => plugged' = plugged
    BY Zenon DEF Do
  <1>2. Nothing => plugged' = plugged
    BY <1>1, Zenon DEF Nothing
  <1>3. ASSUME NEW msg, PR8210Write(msg) PROVE plugged' = plugged
    BY <1>1, <1>2, <1>3, Zenon DEF PR8210Write, PR8210Corrupt, PR8210Receive, PR8210FirstCopy,
       PR8210Ignored, PR8210SecondCopy, PR8210FurtherCopy, PR8210Obey, PR8210Call,
       PR8210Toggle, PR8210Digit, PR8210BeginSearch
  <1>4. ASSUME NEW raised, NEW scanC, PR8210Trigger(raised, scanC) PROVE plugged' = plugged
    BY <1>1, <1>2, <1>4, Zenon DEF PR8210Trigger
  <1>5. ASSUME NEW internal, PR8210Mode(internal) PROVE plugged' = plugged
    BY <1>1, <1>2, <1>5, Zenon DEF PR8210Mode
  <1>6. PR8210VBlank \/ PR8210Reset => plugged' = plugged
    BY <1>1, <1>2, Zenon DEF PR8210VBlank, PR8210StillBusy, PR8210NoLongerBusy, PR8210NotBusy,
                             PR8210Reset
  <1>7. PR8210PlayerMoves => plugged' = plugged
    BY Zenon DEF PR8210PlayerMoves, PlayerMoves, Found, Fails, SpunUp, Stepped, Rolls, Becomes
  <1>8. UNCHANGED <<playerVars, pr8210_vars>> => plugged' = plugged
    BY DEF playerVars
  <1>9. QED
    BY <1>3, <1>4, <1>5, <1>6, <1>7, <1>8, Zenon DEF PR8210Next

(* A message acts when it is the second copy in a row, and then only.      *)
THEOREM SecondCopyActs == PR8210Spec => PR8210SecondCopyActs
  <1> DEFINE SecondOnly ==
        /\ PR8210Acts' => PR8210Second
        /\ PR8210Second /\ pr8210_u8OldMsg \in PR8210OneCall => PR8210Acts'
  <1>1. plugged = "PR8210" /\ [PR8210Next]_<<playerVars, pr8210_vars>> 
        => (plugged = "PR8210")'
    BY StaysPlugged
  <1>2. PR8210TypeOK /\ CopiesInv /\ plugged = "PR8210"
          /\ [PR8210Next]_<<playerVars, pr8210_vars>>
        => [SecondOnly]_<<playerVars, pr8210_vars>>
    <2> SUFFICES ASSUME PR8210TypeOK, CopiesInv, plugged = "PR8210", PR8210Next
                 PROVE  SecondOnly
      OBVIOUS
    <2>1. PR8210Called' = calls'
      BY StaysPlugged DEF PR8210Called, CallsOf
    <2>2. PR8210Acts' <=> Drives
      BY <2>1, Zenon DEF PR8210Acts, Drives
    <2>3. QED
      BY <2>2, SecondCopyDrives, Zenon
  <1>3. QED
    BY <1>1, <1>2, CopiesAreCounted, PTL DEF PR8210Spec, PR8210SecondCopyActs
-----------------------------------------------------------------------------
(* The track jump.  The two lines and the mode the interpreter remembers   *)
(* are those last reported to it.                                          *)
PinsInv == pr8210_pins = PR8210Pins(pr8210_bJumpTriggerRaised, pr8210_bScanCRaised,
                                    pr8210_bInternalMode)

LEMMA PinsKept ==
  ASSUME PinsInv, [PR8210Next]_<<playerVars, pr8210_vars>>
  PROVE  PinsInv'
  <1>1. ASSUME UNCHANGED pr8210_jump PROVE PinsInv'
    BY <1>1 DEF pr8210_jump, PinsInv
  <1>2. ASSUME NEW raised, NEW scanC, PR8210Trigger(raised, scanC) PROVE PinsInv'
    <2>1. /\ pr8210_bScanCRaised' = scanC /\ pr8210_bJumpTriggerRaised' = raised
          /\ pr8210_bInternalMode' = pr8210_bInternalMode
          /\ pr8210_pins' = [pr8210_pins EXCEPT !.trigger = raised, !.scanC = scanC]
      BY <1>2, Zenon DEF PR8210Trigger
    <2>2. QED
      BY <2>1 DEF PinsInv, PR8210Pins
  <1>3. ASSUME NEW internal, PR8210Mode(internal) PROVE PinsInv'
    <2>1. /\ pr8210_bScanCRaised' = pr8210_bScanCRaised
          /\ pr8210_bJumpTriggerRaised' = pr8210_bJumpTriggerRaised
          /\ pr8210_bInternalMode' = internal
          /\ pr8210_pins' = [pr8210_pins EXCEPT !.internal = internal]
      BY <1>3, Zenon DEF PR8210Mode
    <2>2. QED
      BY <2>1 DEF PinsInv, PR8210Pins
  <1>4. CASE PR8210Reset
    BY <1>4, Zenon DEF PR8210Reset, PinsInv
  <1>5. ASSUME NEW msg, PR8210Write(msg) PROVE UNCHANGED pr8210_jump
    BY <1>5, Zenon DEF PR8210Write
  <1>6. PR8210VBlank => UNCHANGED pr8210_jump
    BY Zenon DEF PR8210VBlank
  <1>7. PR8210PlayerMoves \/ UNCHANGED <<playerVars, pr8210_vars>> => UNCHANGED pr8210_jump
    BY DEF PR8210PlayerMoves, pr8210_vars
  <1>8. QED
    BY <1>1, <1>2, <1>3, <1>4, <1>5, <1>6, <1>7, Zenon DEF PR8210Next

(* Whether a step makes the player jump, and in which direction.           *)
Skips(dir) == Call("skip", dir) \in ToSet(calls')
IsSkip(c) == \E dir : c = Call("skip", dir)

LEMMA NothingSkips ==
  ASSUME Nothing, NEW dir
  PROVE  ~Skips(dir)
  BY DEF Nothing, Do, Skips, ToSet

LEMMA OneCallSkips ==
  ASSUME NEW c, NEW ws, Do(<<c>>, ws), NEW dir
  PROVE  Skips(dir) <=> c = Call("skip", dir)
  BY DEF Do, Skips, ToSet

(* No message makes the player jump.                                       *)
LEMMA WriteSkipsNot ==
  ASSUME NEW msg, PR8210Write(msg), NEW dir
  PROVE  ~Skips(dir)
  <1>1. Error # Call("skip", dir)
    BY DEF Error, Call
  <1>2. \A cmd \in PR8210OneCall : PR8210CallOf(cmd) # Call("skip", dir)
    BY DEF PR8210OneCall, PR8210CallOf, Call
  <1>3. \A ch, on : PR8210ChangeAudio(ch, on) # Call("skip", dir)
    BY DEF PR8210ChangeAudio, Call
  <1>4. ASSUME Do(<<Call("begin_search", pr8210_u32Frame), PR8210Standby(TRUE)>>, <<>>)
        PROVE  ~Skips(dir)
    <2>1. PICK c, d : c = Call("begin_search", pr8210_u32Frame) /\ d = PR8210Standby(TRUE)
      OBVIOUS
    <2>2. ToSet(calls') = {c, d}
      BY <1>4, <2>1, CallsMade, Zenon DEF Do
    <2>3. c # Call("skip", dir) /\ d # Call("skip", dir)
      BY <2>1 DEF Call, PR8210Standby
    <2>4. QED
      BY <2>2, <2>3 DEF Skips
  <1>5. ASSUME NEW cmd, PR8210Obey(cmd) PROVE ~Skips(dir)
    <2>1. \/ Nothing
          \/ Do(<<Error>>, <<>>)
          \/ cmd \in PR8210OneCall /\ Do(<<PR8210CallOf(cmd)>>, <<>>)
          \/ \E ch, on : Do(<<PR8210ChangeAudio(ch, on)>>, <<>>)
          \/ Do(<<Call("begin_search", pr8210_u32Frame), PR8210Standby(TRUE)>>, <<>>)
      BY <1>5, Zenon DEF PR8210Obey, PR8210Call, PR8210Toggle, PR8210Digit, PR8210BeginSearch
    <2>2. QED
      BY <1>1, <1>2, <1>3, <1>4, <2>1, NothingSkips, OneCallSkips, Zenon
  <1>6. Nothing \/ Do(<<Error>>, <<>>) \/ \E cmd : PR8210Obey(cmd)
    BY Zenon DEF PR8210Write, PR8210Corrupt, PR8210Receive, PR8210FirstCopy, PR8210Ignored,
                 PR8210SecondCopy, PR8210FurtherCopy
  <1>7. QED
    BY <1>1, <1>5, <1>6, NothingSkips, OneCallSkips, Zenon

(* Nor does the vertical blank, a reset or the player by itself.           *)
LEMMA OthersSkipNot ==
  ASSUME PR8210VBlank \/ PR8210Reset \/ PR8210PlayerMoves, NEW dir
  PROVE  ~Skips(dir)
  <1>1. \A raised : PR8210Standby(raised) # Call("skip", dir)
    BY DEF PR8210Standby, Call
  <1>2. ASSUME PR8210VBlank PROVE ~Skips(dir)
    <2>1. Nothing \/ \E raised : Do(<<PR8210Standby(raised)>>, <<>>)
      BY <1>2, Zenon DEF PR8210VBlank, PR8210StillBusy, PR8210NoLongerBusy, PR8210NotBusy
    <2>2. ASSUME NEW raised, Do(<<PR8210Standby(raised)>>, <<>>) PROVE ~Skips(dir)
      <3>1. Skips(dir) <=> PR8210Standby(raised) = Call("skip", dir)
        BY <2>2, OneCallSkips, Zenon
      <3>2. QED
        BY <1>1, <3>1, Zenon
    <2>3. QED
      BY <2>1, <2>2, NothingSkips, Zenon
  <1>3. PR8210Reset => ~Skips(dir)
    BY NothingSkips, Zenon DEF PR8210Reset
  <1>4. PR8210PlayerMoves => ~Skips(dir)
    <2>1. PR8210PlayerMoves => calls' = <<>>
      BY Zenon DEF PR8210PlayerMoves, PlayerMoves, Found, Fails, SpunUp, Stepped, Rolls, Becomes
    <2>2. QED
      BY <2>1 DEF Skips, ToSet
  <1>5. QED
    BY <1>2, <1>3, <1>4

(* "External and trigger low" becomes true.                                *)
BecomesTriggered == ~PR8210Triggered(pr8210_pins) /\ PR8210Triggered(pr8210_pins')

LEMMA SkipDirection ==
  ASSUME NEW scanC, NEW dir \in {-1, 1}
  PROVE  PR8210SkipBy(scanC) = Call("skip", dir) <=> dir = IF scanC THEN 1 ELSE -1
  BY DEF PR8210SkipBy, Call

(* The trigger falls while the mode is external.                           *)
LEMMA TriggerSkips ==
  ASSUME LinesTyped, PinsInv, NEW raised \in BOOLEAN, NEW scanC \in BOOLEAN,
         PR8210Trigger(raised, scanC), NEW dir \in {-1, 1}
  PROVE  Skips(dir) <=> BecomesTriggered /\ dir = IF pr8210_pins'.scanC THEN 1 ELSE -1
  <1>1. pr8210_pins' = [pr8210_pins EXCEPT !.trigger = raised, !.scanC = scanC]
    BY Zenon DEF PR8210Trigger
  <1>2. /\ pr8210_pins'.scanC = scanC /\ pr8210_pins'.trigger = raised
        /\ pr8210_pins'.internal = pr8210_bInternalMode
        /\ pr8210_pins.trigger = pr8210_bJumpTriggerRaised
        /\ pr8210_pins.internal = pr8210_bInternalMode
    BY <1>1 DEF PinsInv, PR8210Pins
  <1>3. BecomesTriggered <=> pr8210_bJumpTriggerRaised /\ ~raised /\ ~pr8210_bInternalMode
    BY <1>2, Zenon DEF BecomesTriggered, PR8210Triggered
  <1>4. IF pr8210_bJumpTriggerRaised /\ ~raised /\ ~pr8210_bInternalMode
          THEN Do(<<PR8210SkipBy(scanC)>>, <<>>) ELSE Nothing
    BY Zenon DEF PR8210Trigger
  <1>5. CASE BecomesTriggered
    <2>1. Skips(dir) <=> PR8210SkipBy(scanC) = Call("skip", dir)
      BY <1>3, <1>4, <1>5, OneCallSkips, Zenon
    <2>2. QED
      BY <1>2, <1>5, <2>1, SkipDirection, Zenon
  <1>6. CASE ~BecomesTriggered
    BY <1>3, <1>4, <1>6, NothingSkips, Zenon
  <1>7. QED
    BY <1>5, <1>6

(* The mode becomes external while the trigger is low.                     *)
LEMMA ModeSkips ==
  ASSUME LinesTyped, PinsInv, NEW internal \in BOOLEAN, PR8210Mode(internal),
         NEW dir \in {-1, 1}
  PROVE  Skips(dir) <=> BecomesTriggered /\ dir = IF pr8210_pins'.scanC THEN 1 ELSE -1
  <1>1. pr8210_pins' = [pr8210_pins EXCEPT !.internal = internal]
    BY Zenon DEF PR8210Mode
  <1>2. /\ pr8210_pins'.scanC = pr8210_bScanCRaised /\ pr8210_pins'.internal = internal
        /\ pr8210_pins'.trigger = pr8210_bJumpTriggerRaised
        /\ pr8210_pins.trigger = pr8210_bJumpTriggerRaised
        /\ pr8210_pins.internal = pr8210_bInternalMode
    BY <1>1 DEF PinsInv, PR8210Pins
  <1>3. BecomesTriggered <=> pr8210_bInternalMode /\ PR8210Edge(internal)
    BY <1>2, Zenon DEF BecomesTriggered, PR8210Triggered, PR8210Edge
  <1>4. CASE internal = pr8210_bInternalMode
    <2>1. Nothing
      BY <1>4, Zenon DEF PR8210Mode
    <2>2. ~BecomesTriggered
      BY <1>3, <1>4, Zenon DEF PR8210Edge
    <2>3. QED
      BY <2>1, <2>2, NothingSkips, Zenon
  <1>5. CASE internal # pr8210_bInternalMode
    <2>1. calls' = <<Call("change_auto_track_jump", internal)>> \o
                   (IF PR8210Edge(internal) THEN <<PR8210SkipBy(pr8210_bScanCRaised)>> ELSE <<>>)
      BY <1>5, Zenon DEF PR8210Mode, Do
    <2>2. PICK c, d : c = Call("change_auto_track_jump", internal)
                      /\ d = PR8210SkipBy(pr8210_bScanCRaised)
      OBVIOUS
    <2>3. c # Call("skip", dir)
      BY <2>2 DEF Call
    <2>4. PR8210Edge(internal) => BecomesTriggered
      BY <1>3, <1>5 DEF PR8210Edge, LinesTyped
    <2>5. CASE PR8210Edge(internal)
      <3>1. ToSet(calls') = {c, d}
        BY <2>1, <2>2, <2>5, CallsMade, Zenon
      <3>2. Skips(dir) <=> d = Call("skip", dir)
        BY <2>3, <3>1 DEF Skips
      <3>3. d = Call("skip", dir) <=> dir = IF pr8210_bScanCRaised THEN 1 ELSE -1
        BY <2>2 DEF PR8210SkipBy, Call
      <3>4. pr8210_pins'.scanC = pr8210_bScanCRaised
        BY <1>2, Zenon
      <3>5. QED
        BY <2>4, <2>5, <3>2, <3>3, <3>4
    <2>6. CASE ~PR8210Edge(internal)
      <3>1. ToSet(calls') = {c}
        BY <2>1, <2>2, <2>6, CallsMade, Zenon
      <3>2. ~Skips(dir)
        BY <2>3, <3>1 DEF Skips
      <3>3. QED
        BY <1>3, <2>6, <3>2, Zenon
    <2>7. QED
      BY <2>5, <2>6
  <1>6. QED
    BY <1>4, <1>5

(* Every step jumps exactly as the lines say.                              *)
LEMMA StepSkips ==
  ASSUME LinesTyped, PinsInv, PR8210Next, NEW dir \in {-1, 1}
  PROVE  Skips(dir) <=> BecomesTriggered /\ dir = IF pr8210_pins'.scanC THEN 1 ELSE -1
  <1>1. ASSUME UNCHANGED pr8210_pins PROVE ~BecomesTriggered
    BY <1>1 DEF BecomesTriggered
  <1>2. ASSUME NEW msg, PR8210Write(msg) PROVE ~Skips(dir) /\ UNCHANGED pr8210_pins
    <2>1. UNCHANGED pr8210_jump
      BY <1>2, Zenon DEF PR8210Write
    <2>2. QED
      BY <1>2, <2>1, WriteSkipsNot DEF pr8210_jump
  <1>3. ASSUME PR8210VBlank \/ PR8210PlayerMoves PROVE ~Skips(dir) /\ UNCHANGED pr8210_pins
    <2>1. UNCHANGED pr8210_jump
      BY <1>3 DEF PR8210VBlank, PR8210PlayerMoves, pr8210_vars
    <2>2. QED
      BY <1>3, <2>1, OthersSkipNot DEF pr8210_jump
  <1>4. ASSUME PR8210Reset PROVE ~Skips(dir) /\ ~BecomesTriggered
    <2>1. pr8210_pins' = PR8210Pins(TRUE, TRUE, TRUE)
      BY <1>4, Zenon DEF PR8210Reset
    <2>2. ~PR8210Triggered(pr8210_pins')
      BY <2>1 DEF PR8210Pins, PR8210Triggered
    <2>3. QED
      BY <1>4, <2>2, OthersSkipNot, Zenon DEF BecomesTriggered
  <1>5. QED
    BY <1>1, <1>2, <1>3, <1>4, TriggerSkips, ModeSkips, Zenon DEF PR8210Next

(* The player jumps a track exactly when "external and trigger low"        *)
(* becomes true, in the direction scan C has then.                         *)
THEOREM JumpsOnEdge == PR8210Spec => PR8210JumpsOnEdge
  <1> DEFINE Jumps ==
        \A dir \in {-1, 1} : Call("skip", dir) \in ToSet(PR8210Called') <=>
          /\ ~PR8210Triggered(pr8210_pins) /\ PR8210Triggered(pr8210_pins')
          /\ dir = IF pr8210_pins'.scanC THEN 1 ELSE -1
  <1>1. plugged = "PR8210" /\ [PR8210Next]_<<playerVars, pr8210_vars>>
        => (plugged = "PR8210")'
    BY StaysPlugged
  <1>2. PR8210Init => PinsInv
    BY Zenon DEF PR8210Init, PinsInv
  <1>3. PinsInv /\ [PR8210Next]_<<playerVars, pr8210_vars>> => PinsInv'
    BY PinsKept
  <1>4. PR8210TypeOK /\ PinsInv /\ plugged = "PR8210"
          /\ [PR8210Next]_<<playerVars, pr8210_vars>>
        => [Jumps]_<<playerVars, pr8210_vars>>
    <2> SUFFICES ASSUME PR8210TypeOK, PinsInv, plugged = "PR8210", PR8210Next
                 PROVE  Jumps
      OBVIOUS
    <2>1. PR8210Called' = calls'
      BY StaysPlugged DEF PR8210Called, CallsOf
    <2>2. \A dir : Call("skip", dir) \in ToSet(PR8210Called') <=> Skips(dir)
      BY <2>1, Zenon DEF Skips
    <2>3. QED
      BY <2>2, StepSkips, TypesInParts, Zenon DEF BecomesTriggered
  <1>5. QED
    BY <1>1, <1>2, <1>3, <1>4, TypeCorrect, PTL DEF PR8210Spec, PR8210JumpsOnEdge
=============================================================================
