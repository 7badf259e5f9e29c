---------------------------- MODULE DexterProofs ----------------------------
(***************************************************************************)
(* Proofs about an implementor with several interpreters: what is proved   *)
(* of the PR-8210 and the VIP9500SG alone holds of them among the others,  *)
(* and what the VP932, the PR-7820 and the VP931 promise.                  *)
(***************************************************************************)
EXTENDS Dexter, PR8210Proofs, VIP9500SGProofs

(* The plug is never changed, and what is not plugged in stays as it is.   *)
LEMMA DoKeepsPlug ==
  ASSUME NEW cs, NEW ws, Do(cs, ws) PROVE UNCHANGED plugged
  BY Zenon DEF Do

LEMMA PlayerKeepsPlug ==
  ASSUME PlayerMoves PROVE UNCHANGED plugged /\ calls' = <<>> /\ replies' = <<>>
  BY Zenon DEF PlayerMoves, Found, Fails, SpunUp, Stepped, Rolls, Becomes

LEMMA PlugStays ==
  ASSUME [Next]_vars
  PROVE  UNCHANGED plugged
  <1> USE DoKeepsPlug, PlayerKeepsPlug DEF Nothing
  <1>1. VP932Next => UNCHANGED plugged
    BY Zenon DEF VP932Next, VP932Write, VP932Clear, VP932Process, VP932Collect, VP932VBlank,
                 VP932Arrived, VP932Waits, VP932Reset, VP932PlayerMoves
  <1>2. PR7820Next => UNCHANGED plugged
    <2>1. ASSUME NEW b, PR7820Write(b) PROVE \E cs, ws : Do(cs, ws)
      <3>1. PR7820AddDigit(b) \/ PR7820BeginSearch(b) => \E cs, ws : Do(cs, ws)
        BY Zenon DEF PR7820AddDigit, PR7820BeginSearch
      <3>2. PR7820SwitchAudio(b) => \E cs, ws : Do(cs, ws)
        <4>1. PR7820SwitchAudio(b) => \E ch, on : PR7820Switch(ch, on)
          <5> DEFINE ch == IF b = 244 THEN 1 ELSE 2
                     last == pr7820_frame[PR7820FrameSize]
          <5>1. PR7820SwitchAudio(b) => \/ PR7820Switch(ch, ~pr7820_audio[ch])
                                        \/ PR7820Switch(ch, last % 2 = 1)
            BY DEF PR7820SwitchAudio
          <5> HIDE DEF ch, last
          <5>2. QED
            BY <5>1, Zenon
        <4>2. QED
          BY <4>1, Zenon DEF PR7820Switch
      <3>3. PR7820SetBoth(b) => \E cs, ws : Do(cs, ws)
        BY Zenon DEF PR7820SetBoth
      <3>4. PR7820Other(b) => \E cs, ws : Do(cs, ws)
        BY Zenon DEF PR7820Other
      <3>5. QED
        BY <2>1, <3>1, <3>2, <3>3, <3>4, Zenon DEF PR7820Write
    <2>2. QED
      BY <2>1, Zenon DEF PR7820Next, PR7820Reset, PR7820PlayerMoves
  <1>3. VP931Next => UNCHANGED plugged
    BY Zenon DEF VP931Next, VP931Vsync, VP931GetStatus, VP931Reset, VP931PlayerMoves
  <1>4. plugged = "VIP9500SG" /\ VIPNext => UNCHANGED plugged
    BY VIPStaysPlugged, Zenon
  <1>5. plugged = "PR8210" /\ PR8210Next => UNCHANGED plugged
    BY StaysPlugged, Zenon
  <1>6. UNCHANGED vars => UNCHANGED plugged
    BY DEF vars, playerVars
  <1>7. QED
    BY <1>1, <1>2, <1>3, <1>4, <1>5, <1>6, Zenon DEF Next

LEMMA StepsOfThePlugged ==
  ASSUME [Next]_vars
  PROVE  /\ plugged = "VP932" => [VP932Next]_<<playerVars, vp932_vars>>
         /\ plugged = "VIP9500SG" => [VIPNext]_<<playerVars, vip_vars>>
         /\ plugged = "PR8210" => [PR8210Next]_<<playerVars, pr8210_vars>>
         /\ plugged = "PR7820" => [PR7820Next]_<<playerVars, pr7820_vars>>
         /\ plugged = "VP931" => [VP931Next]_<<playerVars, vp931_vars>>
  <1>1. UNCHANGED vars =>
          /\ UNCHANGED playerVars /\ UNCHANGED vp932_vars /\ UNCHANGED vip_vars
          /\ UNCHANGED pr8210_vars /\ UNCHANGED pr7820_vars /\ UNCHANGED vp931_vars
    BY DEF vars
  <1>2. CASE UNCHANGED vars
    BY <1>1, <1>2
  <1>3. CASE Next
    <2>1. /\ plugged = "VP932" => VP932Next
          /\ plugged = "VIP9500SG" => VIPNext
          /\ plugged = "PR8210" => PR8210Next
          /\ plugged = "PR7820" => PR7820Next
          /\ plugged = "VP931" => VP931Next
      BY <1>3, Zenon DEF Next
    <2>2. QED
      BY <2>1, Zenon
  <1>4. QED
    BY <1>2, <1>3

LEMMA UnpluggedStays ==
  ASSUME [Next]_vars
  PROVE  /\ plugged # "VP932" => UNCHANGED vp932_vars
         /\ plugged # "VIP9500SG" => UNCHANGED vip_vars
         /\ plugged # "PR8210" => UNCHANGED pr8210_vars
         /\ plugged # "PR7820" => UNCHANGED pr7820_vars
         /\ plugged # "VP931" => UNCHANGED vp931_vars
  BY DEF Next, Unplugged, vars

(* The implementor with one of the interpreters is that interpreter.       *)
THEOREM PluggedIsAlone ==
  Spec => /\ plugged = "VP932" => VP932Spec
          /\ plugged = "VIP9500SG" => VIPSpec
          /\ plugged = "PR8210" => PR8210Spec
          /\ plugged = "PR7820" => PR7820Spec
          /\ plugged = "VP931" => VP931Spec
  <1>1. Init => PlayerInit /\ VP932Init /\ VIPInit /\ PR8210Init /\ PR7820Init /\ VP931Init
    BY DEF Init
  <1>2. [Next]_vars => UNCHANGED plugged
    BY PlugStays
  <1>3. plugged = "VP932" /\ [Next]_vars
        => [VP932Next]_<<playerVars, vp932_vars>> /\ (plugged = "VP932")'
    BY <1>2, StepsOfThePlugged
  <1>4. plugged = "VIP9500SG" /\ [Next]_vars
        => [VIPNext]_<<playerVars, vip_vars>> /\ (plugged = "VIP9500SG")'
    BY <1>2, StepsOfThePlugged
  <1>5. plugged = "PR8210" /\ [Next]_vars
        => [PR8210Next]_<<playerVars, pr8210_vars>> /\ (plugged = "PR8210")'
    BY <1>2, StepsOfThePlugged
  <1>6. plugged = "PR7820" /\ [Next]_vars
        => [PR7820Next]_<<playerVars, pr7820_vars>> /\ (plugged = "PR7820")'
    BY <1>2, StepsOfThePlugged
  <1>7. plugged = "VP931" /\ [Next]_vars
        => [VP931Next]_<<playerVars, vp931_vars>> /\ (plugged = "VP931")'
    BY <1>2, StepsOfThePlugged
  <1>8. QED
    BY <1>1, <1>3, <1>4, <1>5, <1>6, <1>7, PTL
       DEF Spec, VP932Spec, VIPSpec, PR8210Spec, PR7820Spec, VP931Spec

-----------------------------------------------------------------------------
(* The properties of the VIP9500SG and the PR-8210 among the others: while *)
(* another is plugged in, theirs is the state they begin in.               *)
VIPIdle == plugged # "VIP9500SG" /\ VIPInit
PR8210Idle == plugged # "PR8210" /\ PR8210Init

LEMMA IdleStays ==
  ASSUME [Next]_vars
  PROVE  (VIPIdle => VIPIdle') /\ (PR8210Idle => PR8210Idle')
  <1>1. UNCHANGED plugged
    BY PlugStays
  <1>2. VIPIdle => VIPIdle'
    BY <1>1, UnpluggedStays
       DEF VIPIdle, VIPInit, vip_vars, vip_number, vip_exchange
  <1>3. PR8210Idle => UNCHANGED pr8210_vars
    BY UnpluggedStays DEF PR8210Idle
  <1>4. PR8210Idle => PR8210Idle'
    BY <1>1, <1>3, Zenon DEF PR8210Idle, PR8210Init, pr8210_vars, pr8210_message,
                            pr8210_number, pr8210_jump, pr8210_standby
  <1>5. QED
    BY <1>2, <1>4

(* An interpreter not plugged in calls no callback and tells nothing.      *)
LEMMA IdleIsSilent ==
  ASSUME [Next]_vars
  PROVE  /\ VIPIdle => VIPCalled' = <<>> /\ VIPTold = <<>> /\ VIPTold' = <<>>
         /\ PR8210Idle => PR8210Called' = <<>>
  <1>1. UNCHANGED plugged
    BY PlugStays
  <1>2. QED
    BY <1>1, Zenon DEF VIPIdle, PR8210Idle, VIPCalled, PR8210Called, VIPTold, CallsOf, RepliesOf

(* The VIP9500SG's properties.                                             *)
THEOREM DexterVIPTypeCorrect == Spec => []VIPTypeOK
  <1>1. Init => plugged = "VIP9500SG" \/ VIPIdle
    BY Zenon DEF Init, VIPIdle
  <1>2. VIPIdle => VIPTypeOK
    BY VIPInitTyped DEF VIPIdle
  <1>3. QED
    BY <1>1, <1>2, PluggedIsAlone, VIPTypeCorrect, IdleStays, PTL DEF Spec

(* The VIP9500SG keeps the promise of an exchange to a patient host.       *)
THEOREM DexterVIPKeepsItsPromise == Spec => VIPAnswersItsHost
  <1>1. Init => plugged = "VIP9500SG" \/ VIPIdle
    BY Zenon DEF Init, VIPIdle
  <1>2. VIPIdle => VIPAsked = {}
    BY DEF VIPIdle, VIPInit, VIPAsked, VIPWaits
  <1>3. VIPIdle => VIPExchange!ExchangeInit
    <2>1. VIPIdle => RepliesOf("VIP9500SG") = <<>>
      BY DEF VIPIdle, RepliesOf
    <2>2. QED
      BY <1>2, <2>1, Zenon DEF VIPExchange!ExchangeInit
  <1>4. VIPIdle /\ [Next]_vars => [VIPExchange!ExchangeNext]_(VIPExchange!exchangeVars)
    <2> SUFFICES ASSUME VIPIdle, [Next]_vars PROVE UNCHANGED VIPExchange!exchangeVars
      OBVIOUS
    <2>1. VIPAsked = {} /\ VIPAsked' = {}
      <3>1. VIPIdle'
        BY IdleStays
      <3>2. VIPAsked' = {}
        BY <3>1 DEF VIPIdle, VIPInit, VIPAsked, VIPWaits
      <3>3. QED
        BY <1>2, <3>2
    <2>2. RepliesOf("VIP9500SG") = <<>> /\ RepliesOf("VIP9500SG")' = <<>>
      BY IdleIsSilent, Zenon DEF VIPTold
    <2>3. QED
      BY <2>1, <2>2 DEF VIPExchange!exchangeVars
  <1>5. QED
    BY <1>1, <1>3, <1>4, PluggedIsAlone, VIPKeepsItsPromise, IdleStays, PTL
       DEF Spec, VIPAnswersItsHost, VIPExchange!ExchangeSpec

(* A request that a vertical blank drops without an answer is reported.    *)
THEOREM DexterVIPReportsDrops == Spec => VIPDropsAreReported
  <1> DEFINE Reports ==
        vip_field' # vip_field /\ Len(replies') < Cardinality(VIPAsked \ VIPAsked')
          => VIPCalled' = <<Error>>
  <1>1. Init => plugged = "VIP9500SG" \/ VIPIdle
    BY Zenon DEF Init, VIPIdle
  <1>2. VIPIdle /\ [Next]_vars => [Reports]_<<playerVars, vip_vars>>
    <2> SUFFICES ASSUME VIPIdle, [Next]_vars PROVE UNCHANGED vip_field
      OBVIOUS
    <2>1. QED
      BY UnpluggedStays DEF VIPIdle, vip_vars
  <1>3. QED
    BY <1>1, <1>2, PluggedIsAlone, VIPReportsDrops, IdleStays, PTL
       DEF Spec, VIPDropsAreReported

(* A search or a skip of the VIP9500SG goes where the last digits say.     *)
THEOREM DexterVIPEntersDigits == Spec => VIPEntersLastDigits
  <1> DEFINE Enters ==
        \A c \in ToSet(VIPCalled') :
          /\ c.cb = "begin_search" => c.arg = VIPValue(VIPLastDigits)
          /\ c.cb = "skip" =>
               c.arg \in {1 + VIPValue(VIPLastDigits), 1 - VIPValue(VIPLastDigits)}
  <1>1. Init => plugged = "VIP9500SG" \/ VIPIdle
    BY Zenon DEF Init, VIPIdle
  <1>2. VIPIdle /\ [Next]_vars => [Enters]_<<playerVars, vip_vars>>
    <2> SUFFICES ASSUME VIPIdle, [Next]_vars PROVE Enters
      OBVIOUS
    <2>1. VIPCalled' = <<>>
      BY IdleIsSilent
    <2>2. ToSet(VIPCalled') = {}
      BY <2>1 DEF ToSet
    <2>3. QED
      BY <2>2
  <1>3. QED
    BY <1>1, <1>2, PluggedIsAlone, VIPEntersDigits, IdleStays, PTL
       DEF Spec, VIPEntersLastDigits

(* The PR-8210's properties.                                               *)
THEOREM DexterPR8210TypeCorrect == Spec => []PR8210TypeOK
  <1>1. Init => plugged = "PR8210" \/ PR8210Idle
    BY Zenon DEF Init, PR8210Idle
  <1>2. PR8210Idle => PR8210TypeOK
    BY InitTyped DEF PR8210Idle
  <1>3. QED
    BY <1>1, <1>2, PluggedIsAlone, TypeCorrect, IdleStays, PTL DEF Spec

(* While a search of the PR-8210 lasts, the stand-by line is what the      *)
(* interpreter takes it for.                                               *)
THEOREM DexterLineBelieved == Spec => []PR8210LineIsBelieved
  <1>1. Init => plugged = "PR8210" \/ PR8210Idle
    BY Zenon DEF Init, PR8210Idle
  <1>2. PR8210Idle => PR8210LineIsBelieved
    BY Zenon DEF PR8210Idle, PR8210Init, PR8210LineIsBelieved
  <1>3. QED
    BY <1>1, <1>2, PluggedIsAlone, LineBelieved, IdleStays, PTL DEF Spec

(* A message to the PR-8210 acts when it is the second copy in a row, and  *)
(* then only.                                                              *)
THEOREM DexterSecondCopyActs == Spec => PR8210SecondCopyActs
  <1> DEFINE Seconds ==
        /\ PR8210Acts' => PR8210Second
        /\ PR8210Second /\ pr8210_u8OldMsg \in PR8210OneCall => PR8210Acts'
  <1>1. Init => plugged = "PR8210" \/ PR8210Idle
    BY Zenon DEF Init, PR8210Idle
  <1>2. PR8210Idle /\ [Next]_vars => [Seconds]_<<playerVars, pr8210_vars>>
    <2> SUFFICES ASSUME PR8210Idle, [Next]_vars PROVE ~PR8210Acts' /\ ~PR8210Second
      OBVIOUS
    <2>1. PR8210Called' = <<>> /\ PR8210Idle'
      BY IdleIsSilent, IdleStays
    <2>2. ~PR8210Acts'
      BY <2>1 DEF PR8210Acts
    <2>3. pr8210_copies' = 0
      BY <2>1, Zenon DEF PR8210Idle, PR8210Init
    <2>4. QED
      BY <2>2, <2>3 DEF PR8210Second
  <1>3. QED
    BY <1>1, <1>2, PluggedIsAlone, SecondCopyActs, IdleStays, PTL
       DEF Spec, PR8210SecondCopyActs

(* The player of the PR-8210 jumps a track exactly when "external and      *)
(* trigger low" becomes true.                                              *)
THEOREM DexterJumpsOnEdge == Spec => PR8210JumpsOnEdge
  <1> DEFINE Jumps ==
        \A dir \in {-1, 1} : Call("skip", dir) \in ToSet(PR8210Called') <=>
          /\ ~PR8210Triggered(pr8210_pins) /\ PR8210Triggered(pr8210_pins')
          /\ dir = IF pr8210_pins'.scanC THEN 1 ELSE -1
  <1>1. Init => plugged = "PR8210" \/ PR8210Idle
    BY Zenon DEF Init, PR8210Idle
  <1>2. PR8210Idle /\ [Next]_vars => [Jumps]_<<playerVars, pr8210_vars>>
    <2> SUFFICES ASSUME PR8210Idle, [Next]_vars PROVE Jumps
      OBVIOUS
    <2>1. PR8210Called' = <<>> /\ PR8210Idle'
      BY IdleIsSilent, IdleStays
    <2>2. ToSet(PR8210Called') = {}
      BY <2>1 DEF ToSet
    <2>3. pr8210_pins' = PR8210Pins(TRUE, TRUE, TRUE)
      BY <2>1, Zenon DEF PR8210Idle, PR8210Init
    <2>4. ~PR8210Triggered(pr8210_pins')
      BY <2>3 DEF PR8210Triggered, PR8210Pins
    <2>5. QED
      BY <2>2, <2>4, Zenon
  <1>3. QED
    BY <1>1, <1>2, PluggedIsAlone, JumpsOnEdge, IdleStays, PTL DEF Spec, PR8210JumpsOnEdge

-----------------------------------------------------------------------------
(* The VP932: what reading a line keeps, character by character.           *)
VP932CallsMade ==
  {Error, Call("play", 0), Call("pause", 0), Call("step", 1), Call("step", -1)}
    \cup {Call("begin_search", n) : n \in 0..(VP932Words - 1)}
Scans ==
  [number : 0..(VP932Words - 1), active : BOOLEAN, state : {"NORMAL", "SEARCHING"},
   play : BOOLEAN, last : 0..(VP932Words - 1), calls : Seq(VP932CallsMade)]

LEMMA VP932WordsTyped == VP932Words \in Nat \ {0}
  BY DEF VP932Words

LEMMA ScanFields ==
  ASSUME NEW s \in Scans
  PROVE  /\ s.number \in 0..(VP932Words - 1) /\ s.active \in BOOLEAN
         /\ s.state \in {"NORMAL", "SEARCHING"} /\ s.play \in BOOLEAN
         /\ s.last \in 0..(VP932Words - 1) /\ s.calls \in Seq(VP932CallsMade)
  BY DEF Scans

(* A callback more.                                                        *)
LEMMA ScanCalls ==
  ASSUME NEW s \in Scans, NEW c \in VP932CallsMade
  PROVE  /\ VP932Calls(s, c) \in Scans
         /\ VP932Calls(s, c).active = s.active /\ VP932Calls(s, c).state = s.state
         /\ VP932Calls(s, c).play = s.play
  <1>1. \A q \in Seq(VP932CallsMade) : Append(q, c) \in Seq(VP932CallsMade)
    OBVIOUS
  <1>2. VP932Calls(s, c) = [s EXCEPT !.calls = Append(s.calls, c)]
    BY DEF VP932Calls
  <1>3. Append(s.calls, c) \in Seq(VP932CallsMade)
    BY <1>1, ScanFields
  <1>4. QED
    BY <1>2, <1>3 DEF Scans

LEMMA ScanSearches ==
  ASSUME NEW s \in Scans, NEW play \in BOOLEAN
  PROVE  /\ VP932Search(s, play) \in Scans
         /\ ~VP932Search(s, play).active
         /\ VP932Search(s, play).state = "SEARCHING"
         /\ VP932Search(s, play).play = play
  <1>1. s.number \in 0..(VP932Words - 1)
    BY ScanFields
  <1>2. Call("begin_search", s.number) \in VP932CallsMade
    BY <1>1, Zenon DEF VP932CallsMade
  <1>3. VP932SearchNew(s) \in Scans
    BY <1>2, ScanCalls DEF VP932SearchNew
  <1>4. PICK t \in Scans : t = VP932SearchNew(s)
    BY <1>3
  <1>5. VP932Search(s, play) = [t EXCEPT !.last = s.number, !.state = "SEARCHING",
                                         !.play = play, !.active = FALSE]
    BY <1>4, Zenon DEF VP932Search
  <1>6. QED
    BY <1>1, <1>5 DEF Scans

LEMMA VP932DigitsAre ==
  ToSet(VP932Digits) = {"0", "1", "2", "3", "4", "5", "6", "7", "8", "9"}
  BY DEF ToSet, VP932Digits

LEMMA ScanDigit ==
  ASSUME NEW s \in Scans, NEW c \in ToSet(VP932Digits)
  PROVE  /\ VP932Obey(s, c) \in Scans
         /\ VP932Obey(s, c).active = s.active /\ VP932Obey(s, c).state = s.state
         /\ VP932Obey(s, c).play = s.play
  <1>1. VP932Digit(c) \in 0..9
    <2>1. \E i \in 1..10 : VP932Digits[i] = c
      BY DEF ToSet, VP932Digits
    <2>2. PICK i \in 1..10 : VP932Digit(c) = i - 1
      BY <2>1 DEF VP932Digit
    <2>3. QED
      BY <2>2
  <1>2. VP932Obey(s, c) = [s EXCEPT !.number = (s.number * 10 + VP932Digit(c)) % VP932Words]
    <2>1. c \notin {"D", "S", "F", "L", "M", "N", "R", "U", "V", "X", "*"}
      BY VP932DigitsAre
    <2>2. QED
      BY <2>1, Zenon DEF VP932Obey
  <1>3. (s.number * 10 + VP932Digit(c)) % VP932Words \in 0..(VP932Words - 1)
    <2>1. PICK x \in Nat : x = s.number * 10 + VP932Digit(c)
      BY <1>1, ScanFields, VP932WordsTyped
    <2>2. x % VP932Words \in 0..(VP932Words - 1)
      BY VP932WordsTyped
    <2>3. QED
      BY <2>1, <2>2, Zenon
  <1>4. QED
    BY <1>2, <1>3 DEF Scans

(* What one character makes of the scan: F, the searches and X change      *)
(* whether there is an F, and only a search the state and what is to       *)
(* follow it.                                                              *)
Searching(s, c) == c = "R" \/ (c = "N" /\ s.active)

LEMMA ScanStep ==
  ASSUME NEW s \in Scans, NEW c
  PROVE  /\ VP932Obey(s, c) \in Scans
         /\ VP932Obey(s, c).active <=> (c = "F" \/ (c \notin {"N", "R", "X"} /\ s.active))
         /\ VP932Obey(s, c).state = IF Searching(s, c) THEN "SEARCHING" ELSE s.state
         /\ Searching(s, c) => (VP932Obey(s, c).play <=> c = "N")
         /\ ~Searching(s, c) => (VP932Obey(s, c).play <=> s.play)
  <1>1. /\ Error \in VP932CallsMade /\ Call("play", 0) \in VP932CallsMade
        /\ Call("pause", 0) \in VP932CallsMade /\ Call("step", 1) \in VP932CallsMade
        /\ Call("step", -1) \in VP932CallsMade
    BY Zenon DEF VP932CallsMade
  <1>2. s.number \in 0..(VP932Words - 1) /\ s.last \in 0..(VP932Words - 1)
        /\ 0 \in 0..(VP932Words - 1)
    BY ScanFields, VP932WordsTyped
  <1>3. ASSUME c \in ToSet(VP932Digits)
        PROVE  c \notin {"F", "N", "R", "X"}
    BY <1>3, VP932DigitsAre
  <1>4. CASE c \in ToSet(VP932Digits)
    BY <1>3, <1>4, ScanDigit, Zenon DEF Searching
  <1>5. ASSUME c \in {"D", "S", "F", "L", "M", "N", "R", "U", "V", "X", "*"}
        PROVE  c \notin ToSet(VP932Digits)
    BY <1>5, VP932DigitsAre
  <1>6. CASE c \in {"D", "S"}
    <2>1. VP932Obey(s, c) = s
      BY <1>5, <1>6 DEF VP932Obey
    <2>2. QED
      BY <1>6, <2>1 DEF Searching
  <1>7. CASE c = "F"
    <2>1. VP932Obey(s, c) = [s EXCEPT !.number = 0, !.active = TRUE]
      BY <1>5, <1>7 DEF VP932Obey
    <2>2. QED
      BY <1>2, <1>7, <2>1 DEF Searching, Scans
  <1>8. CASE c = "X"
    <2>1. VP932Obey(s, c) = [s EXCEPT !.number = 0, !.active = FALSE]
      BY <1>5, <1>8 DEF VP932Obey
    <2>2. QED
      BY <1>2, <1>8, <2>1 DEF Searching, Scans
  <1>9. ASSUME NEW call \in VP932CallsMade, VP932Obey(s, c) = VP932Calls(s, call),
               c \notin {"F", "N", "R", "X"}
        PROVE  /\ VP932Obey(s, c) \in Scans
               /\ VP932Obey(s, c).active <=> s.active
               /\ VP932Obey(s, c).state = s.state
               /\ VP932Obey(s, c).play <=> s.play
    BY <1>9, ScanCalls
  <1>10. CASE c \in {"L", "M", "*"}
    <2>1. \E call \in VP932CallsMade : VP932Obey(s, c) = VP932Calls(s, call)
      <3>1. c = "L" => VP932Obey(s, c) = VP932Calls(s, Call("step", 1))
        BY <1>5 DEF VP932Obey
      <3>2. c = "M" => VP932Obey(s, c) = VP932Calls(s, Call("step", -1))
        BY <1>5 DEF VP932Obey
      <3>3. c = "*" => VP932Obey(s, c) = VP932Calls(s, Call("pause", 0))
        BY <1>5 DEF VP932Obey
      <3>4. QED
        BY <1>1, <1>10, <3>1, <3>2, <3>3, Zenon
    <2>2. QED
      BY <1>9, <1>10, <2>1 DEF Searching
  <1>11. CASE c \in {"U", "V"}
    <2>1. VP932Obey(s, c) = VP932Multispeed(s)
      BY <1>5, <1>11 DEF VP932Obey
    <2>2. PICK t \in Scans : /\ t = VP932Calls(s, Call("play", 0)) /\ t.active = s.active
                             /\ t.state = s.state /\ t.play = s.play
      BY <1>1, ScanCalls
    <2>3. VP932Obey(s, c) = [t EXCEPT !.last = 0]
      BY <2>1, <2>2, Zenon DEF VP932Multispeed
    <2>4. QED
      BY <1>2, <1>11, <2>2, <2>3 DEF Searching, Scans
  <1>12. CASE c = "R"
    <2>1. VP932Obey(s, c) = VP932Search(s, FALSE)
      BY <1>5, <1>12 DEF VP932Obey
    <2>2. QED
      BY <1>12, <2>1, ScanSearches DEF Searching
  <1>13. CASE c = "N"
    <2>1. VP932Obey(s, c) = IF s.active THEN VP932Search(s, TRUE) ELSE s
      BY <1>5, <1>13 DEF VP932Obey
    <2>2. QED
      BY <1>13, <2>1, ScanSearches DEF Searching
  <1>14. CASE /\ c \notin ToSet(VP932Digits)
              /\ c \notin {"D", "S", "F", "L", "M", "N", "R", "U", "V", "X", "*"}
    <2>1. VP932Obey(s, c) = VP932Calls(s, Error)
      BY <1>14, Zenon DEF VP932Obey
    <2>2. QED
      BY <1>1, <1>9, <1>14, <2>1 DEF Searching
  <1>15. QED
    BY <1>4, <1>6, <1>7, <1>8, <1>10, <1>11, <1>12, <1>13, <1>14, Zenon

(* There is an F that nothing has used up after the first k characters;    *)
(* the searches among them.                                                *)
ActiveAfter(line, k) ==
  \E j \in 1..k : /\ line[j] = "F"
                  /\ \A m \in j..k : line[m] \notin {"N", "R", "X"}
SearchesUpTo(line, k) == {i \in VP932SearchesIn(line) : i <= k}

LEMMA ActiveNext ==
  ASSUME NEW line, NEW k \in Nat
  PROVE  /\ ~ActiveAfter(line, 0)
         /\ ActiveAfter(line, k + 1)
            <=> \/ line[k + 1] = "F"
                \/ line[k + 1] \notin {"N", "R", "X"} /\ ActiveAfter(line, k)
  <1>1. ~ActiveAfter(line, 0)
    BY DEF ActiveAfter
  <1>2. ASSUME line[k + 1] = "F" PROVE ActiveAfter(line, k + 1)
    <2>1. k + 1 \in 1..(k + 1) /\ \A m \in (k + 1)..(k + 1) : line[m] \notin {"N", "R", "X"}
      BY <1>2
    <2>2. QED
      BY <1>2, <2>1, Zenon DEF ActiveAfter
  <1>3. ASSUME line[k + 1] \notin {"N", "R", "X"}, ActiveAfter(line, k)
        PROVE  ActiveAfter(line, k + 1)
    <2>1. PICK j \in 1..k : line[j] = "F" /\ \A m \in j..k : line[m] \notin {"N", "R", "X"}
      BY <1>3, Zenon DEF ActiveAfter
    <2>2. j \in 1..(k + 1) /\ \A m \in j..(k + 1) : line[m] \notin {"N", "R", "X"}
      BY <1>3, <2>1
    <2>3. QED
      BY <2>1, <2>2, Zenon DEF ActiveAfter
  <1>4. ASSUME ActiveAfter(line, k + 1), line[k + 1] # "F"
        PROVE  line[k + 1] \notin {"N", "R", "X"} /\ ActiveAfter(line, k)
    <2>1. PICK j \in 1..(k + 1) :
            line[j] = "F" /\ \A m \in j..(k + 1) : line[m] \notin {"N", "R", "X"}
      BY <1>4, Zenon DEF ActiveAfter
    <2>2. j \in 1..k /\ k + 1 \in j..(k + 1) /\ \A m \in j..k : m \in j..(k + 1)
      <3>1. j # k + 1
        BY <1>4, <2>1, Zenon
      <3>2. QED
        BY <2>1, <3>1
    <2>3. QED
      BY <2>1, <2>2, Zenon DEF ActiveAfter
  <1>5. QED
    BY <1>1, <1>2, <1>3, <1>4, Zenon

LEMMA SearchesNext ==
  ASSUME NEW line, NEW n \in Nat, DOMAIN line = 1..n, NEW k \in 0..(n - 1)
  PROVE  /\ SearchesUpTo(line, 0) = {} /\ SearchesUpTo(line, n) = VP932SearchesIn(line)
         /\ SearchesUpTo(line, k) \in SUBSET (1..k)
         /\ LET next == line[k + 1] = "R" \/ (line[k + 1] = "N" /\ ActiveAfter(line, k))
            IN SearchesUpTo(line, k + 1)
               = SearchesUpTo(line, k) \cup (IF next THEN {k + 1} ELSE {})
  <1>1. VP932SearchesIn(line) \in SUBSET (1..n)
    BY DEF VP932SearchesIn
  <1>2. /\ SearchesUpTo(line, 0) = {} /\ SearchesUpTo(line, n) = VP932SearchesIn(line)
        /\ SearchesUpTo(line, k) \in SUBSET (1..k)
    BY <1>1 DEF SearchesUpTo
  <1>3. k + 1 \in VP932SearchesIn(line)
        <=> line[k + 1] = "R" \/ (line[k + 1] = "N" /\ ActiveAfter(line, k))
    <2>1. k + 1 \in DOMAIN line
      OBVIOUS
    <2>2. k + 1 \in VP932SearchesIn(line)
          <=> \/ line[k + 1] = "R"
              \/ /\ line[k + 1] = "N"
                 /\ \E j \in 1..(k + 1) :
                      /\ line[j] = "F"
                      /\ \A m \in j..((k + 1) - 1) : line[m] \notin {"N", "R", "X"}
      BY <2>1, Zenon DEF VP932SearchesIn
    <2>3. ASSUME line[k + 1] = "N"
          PROVE  ActiveAfter(line, k)
                 <=> \E j \in 1..(k + 1) :
                       /\ line[j] = "F"
                       /\ \A m \in j..((k + 1) - 1) : line[m] \notin {"N", "R", "X"}
      <3>1. (k + 1) - 1 = k /\ 1..(k + 1) = 1..k \cup {k + 1}
        OBVIOUS
      <3>2. line[k + 1] # "F"
        BY <2>3
      <3>3. QED
        BY <3>1, <3>2, Zenon DEF ActiveAfter
    <2>4. QED
      BY <2>2, <2>3, Zenon
  <1>4. \A i \in VP932SearchesIn(line) : i <= k + 1 <=> i <= k \/ i = k + 1
    BY <1>1
  <1>5. QED
    BY <1>2, <1>3, <1>4, Zenon DEF SearchesUpTo

(* The scan after the first k characters says what they ask for.           *)
ScanTells(s, line, k) ==
  LET searches == SearchesUpTo(line, k)
  IN /\ s \in Scans
     /\ s.active <=> ActiveAfter(line, k)
     /\ searches = {} => s.state = vp932_state /\ (s.play <=> vp932_play_after_search)
     /\ searches # {} => /\ s.state = "SEARCHING"
                         /\ s.play <=> line[Max(searches)] = "N"
                         /\ line[Max(searches)] \in {"N", "R"}

LEMMA ScanTellsNext ==
  ASSUME NEW line, NEW n \in Nat, DOMAIN line = 1..n, NEW k \in 0..(n - 1),
         NEW s, ScanTells(s, line, k)
  PROVE  ScanTells(VP932Obey(s, line[k + 1]), line, k + 1)
  <1> DEFINE c == line[k + 1]
             t == VP932Obey(s, c)
             old == SearchesUpTo(line, k)
             new == SearchesUpTo(line, k + 1)
  <1>1. /\ t \in Scans
        /\ t.active <=> (c = "F" \/ (c \notin {"N", "R", "X"} /\ s.active))
        /\ t.state = IF Searching(s, c) THEN "SEARCHING" ELSE s.state
        /\ Searching(s, c) => (t.play <=> c = "N")
        /\ ~Searching(s, c) => (t.play <=> s.play)
    BY ScanStep, Zenon DEF ScanTells
  <1>2. s.active <=> ActiveAfter(line, k)
    BY Zenon DEF ScanTells
  <1>3. k \in Nat /\ n \in Nat
    OBVIOUS
  <1>4. t.active <=> ActiveAfter(line, k + 1)
    BY <1>1, <1>2, <1>3, ActiveNext, Zenon
  <1>5. /\ old \in SUBSET (1..k)
        /\ new = old \cup (IF Searching(s, c) THEN {k + 1} ELSE {})
    BY <1>2, SearchesNext, Zenon DEF Searching
  <1>6. /\ old = {} => s.state = vp932_state /\ (s.play <=> vp932_play_after_search)
        /\ old # {} => /\ s.state = "SEARCHING"
                       /\ s.play <=> line[Max(old)] = "N"
                       /\ line[Max(old)] \in {"N", "R"}
    BY Zenon DEF ScanTells
  <1> HIDE DEF t, old, new
  <1>7. CASE Searching(s, c)
    <2>1. new \in SUBSET (1..(k + 1)) /\ k + 1 \in new
      BY <1>3, <1>5, <1>7
    <2>2. Max(new) = k + 1
      BY <1>3, <2>1, MaxOfFirst
    <2>3. c \in {"N", "R"}
      BY <1>7, Zenon DEF Searching
    <2>4. new # {} /\ line[Max(new)] = c
      BY <2>1, <2>2
    <2>5. t.state = "SEARCHING" /\ (t.play <=> c = "N")
      BY <1>1, <1>7, Zenon
    <2>6. QED
      BY <1>1, <1>4, <2>3, <2>4, <2>5, Zenon DEF ScanTells, t, new
  <1>8. CASE ~Searching(s, c)
    <2>1. new = old
      BY <1>5, <1>8
    <2>2. t.state = s.state /\ (t.play <=> s.play)
      BY <1>1, <1>8, Zenon
    <2>3. QED
      BY <1>1, <1>4, <1>6, <2>1, <2>2, Zenon DEF ScanTells, t, new
  <1>9. QED
    BY <1>7, <1>8

(* So the scan of a whole line, which is a fold over it, tells what the    *)
(* line asks for.                                                          *)
LEMMA LineTells ==
  ASSUME NEW line, NEW n \in Nat, DOMAIN line = 1..n, ScanTells(VP932Start, line, 0)
  PROVE  ScanTells(FoldLeft(VP932Obey, VP932Start, line), line, n)
  <1> DEFINE C == {line[i] : i \in 1..n}
             F == [x \in Scans \X C |-> VP932Obey(x[1], x[2])]
             Run(f) == f = [s \in SUBSET (1..n) |->
                              IF s = {} THEN VP932Start
                              ELSE VP932Obey(f[s \ {Max(s)}], line[Max(s)])]
             iter == CHOOSE f : Run(f)
  <1>1. FoldLeft(VP932Obey, VP932Start, line) = iter[1..n]
    BY DEF FoldLeft, MapThenFoldSet
  <1>2. \A i \in 1..n : line[i] \in C
    OBVIOUS
  <1>3. \A s \in Scans, c \in C : VP932Obey(s, c) \in Scans
    BY ScanStep, Zenon
  <1>4. F \in [Scans \X C -> Scans]
    BY <1>3
  <1>5. \A s \in Scans, c \in C : F[<<s, c>>] = VP932Obey(s, c)
    OBVIOUS
  <1>6. PICK f \in [SUBSET (1..n) -> Scans] : IsFold(f, n, VP932Start, F, line)
    <2> HIDE DEF C, F
    <2>1. VP932Start \in Scans
      BY Zenon DEF ScanTells
    <2>2. QED
      BY <1>2, <1>4, <2>1, FoldBuilt, Zenon
  <1> HIDE DEF C, F
  <1>7. Run(f)
    <2>1. ASSUME NEW s \in SUBSET (1..n), s # {}
          PROVE  f[s] = VP932Obey(f[s \ {Max(s)}], line[Max(s)])
      <3>1. Max(s) \in 1..n
        BY <2>1, MaxOf
      <3>2. f[s \ {Max(s)}] \in Scans /\ line[Max(s)] \in C
        BY <1>2, <3>1
      <3>3. f[s] = F[<<f[s \ {Max(s)}], line[Max(s)]>>]
        BY <1>6, <2>1, Zenon DEF IsFold
      <3>4. QED
        BY <1>5, <3>2, <3>3, Zenon
    <2>2. f[{}] = VP932Start
      BY <1>6 DEF IsFold
    <2>3. QED
      BY <2>1, <2>2
  <1>8. Run(iter)
    BY <1>7
  <1> HIDE DEF iter
  <1>9. \A k \in 0..(n - 1) : iter[1..(k + 1)] = VP932Obey(iter[1..k], line[k + 1])
    <2> SUFFICES ASSUME NEW k \in 0..(n - 1)
                 PROVE  iter[1..(k + 1)] = VP932Obey(iter[1..k], line[k + 1])
      OBVIOUS
    <2>1. 1..(k + 1) \in SUBSET (1..n)
      OBVIOUS
    <2>2. /\ Max(1..(k + 1)) = k + 1 /\ (1..(k + 1)) \ {k + 1} = 1..k
          /\ 1..(k + 1) # {}
      <3>1. k \in Nat
        OBVIOUS
      <3>2. QED
        BY <3>1, FirstCells, Zenon
    <2>3. QED
      BY <1>8, <2>1, <2>2
  <1> DEFINE T == {k \in Nat : k <= n => ScanTells(iter[1..k], line, k)}
  <1>10. 0 \in T
    <2>1. iter[{}] = VP932Start
      BY <1>8
    <2>2. 1..0 = {}
      OBVIOUS
    <2>3. QED
      BY <2>1, <2>2
  <1>11. \A k \in Nat : k \in T => k + 1 \in T
    <2> SUFFICES ASSUME NEW k \in Nat, k \in T, k + 1 <= n PROVE k + 1 \in T
      OBVIOUS
    <2>1. k \in 0..(n - 1) /\ ScanTells(iter[1..k], line, k)
      OBVIOUS
    <2>2. ScanTells(VP932Obey(iter[1..k], line[k + 1]), line, k + 1)
      BY <2>1, ScanTellsNext, Zenon
    <2>3. ScanTells(iter[1..(k + 1)], line, k + 1)
      BY <1>9, <2>1, <2>2, Zenon
    <2>4. QED
      BY <2>3
  <1>12. n \in T
    <2> HIDE DEF T
    <2>1. QED
      BY <1>10, <1>11, ByInduction, Zenon
  <1>13. ScanTells(iter[1..n], line, n)
    BY <1>12
  <1>14. QED
    BY <1>1, <1>13, Zenon

(* What the VP932 keeps: its types, and that the search awaited is the one *)
(* the latest line with a search asked for, which says what to do after.   *)
VP932Awaits ==
  vp932_state = "SEARCHING" =>
    /\ vp932_asked \in {"N", "R"}
    /\ vp932_play_after_search <=> vp932_asked = "N"
VP932Inv == VP932TypeOK /\ VP932Awaits

LEMMA VP932ProcessKeeps ==
  ASSUME VP932Inv, VP932Process
  PROVE  /\ VP932Inv' /\ replies' = <<>>
         /\ UNCHANGED vp932_asked \/ vp932_asked' \in {"N", "R"}
         /\ \E cs \in Seq(VP932CallsMade) : Do(cs, <<>>)
  <1> DEFINE line == vp932_rx_buf
             s == FoldLeft(VP932Obey, VP932Start, line)
             searches == VP932SearchesIn(line)
  <1>1. PICK n \in Nat : n = Len(line) /\ DOMAIN line = 1..n
    BY DEF VP932Inv, VP932TypeOK
  <1>2. VP932Start \in Scans
    <2>1. <<>> \in Seq(VP932CallsMade) /\ 0 \in 0..(VP932Words - 1)
      BY VP932WordsTyped
    <2>2. QED
      BY <2>1 DEF VP932Start, Scans, VP932Inv, VP932TypeOK
  <1>3. ScanTells(VP932Start, line, 0)
    <2>1. SearchesUpTo(line, 0) = {} /\ ~ActiveAfter(line, 0)
      <3>1. SearchesUpTo(line, 0) = {}
        BY <1>1 DEF SearchesUpTo, VP932SearchesIn
      <3>2. QED
        BY <3>1, ActiveNext
    <2>2. /\ VP932Start.state = vp932_state /\ ~VP932Start.active
          /\ VP932Start.play = vp932_play_after_search
      BY DEF VP932Start
    <2>3. QED
      BY <1>2, <2>1, <2>2, Zenon DEF ScanTells
  <1>4. ScanTells(s, line, n)
    BY <1>1, <1>3, LineTells, Zenon
  <1>5. SearchesUpTo(line, n) = searches
    BY <1>1 DEF SearchesUpTo, VP932SearchesIn
  <1>6. /\ vp932_state' = s.state /\ vp932_play_after_search' = s.play
        /\ vp932_last' = s.last /\ vp932_rx_buf' = <<>>
        /\ vp932_asked' = IF searches = {} THEN vp932_asked ELSE line[Max(searches)]
        /\ Do(s.calls, <<>>)
    BY Zenon DEF VP932Process
  <1>7. PICK t, found : t = s /\ found = searches
    OBVIOUS
  <1> HIDE DEF s, searches
  <1>8. /\ t \in Scans
        /\ found = {} => t.state = vp932_state /\ (t.play <=> vp932_play_after_search)
        /\ found # {} => /\ t.state = "SEARCHING" /\ (t.play <=> line[Max(found)] = "N")
                         /\ line[Max(found)] \in {"N", "R"}
    BY <1>4, <1>5, <1>7, Zenon DEF ScanTells
  <1>9. /\ t.state \in {"NORMAL", "SEARCHING"} /\ t.play \in BOOLEAN
        /\ t.last \in 0..(VP932Words - 1) /\ t.calls \in Seq(VP932CallsMade)
    BY <1>8, ScanFields
  <1>10. /\ vp932_state' = t.state /\ vp932_play_after_search' = t.play
         /\ vp932_last' = t.last /\ vp932_rx_buf' = <<>>
         /\ vp932_asked' = (IF found = {} THEN vp932_asked ELSE line[Max(found)])
         /\ Do(t.calls, <<>>)
    BY <1>6, <1>7, Zenon
  <1>11. vp932_asked' \in {"N", "R", vp932_asked} /\ vp932_asked \in {"-", "N", "R"}
    <2>1. vp932_asked \in {"-", "N", "R"}
      BY Zenon DEF VP932Inv, VP932TypeOK
    <2>2. QED
      BY <1>8, <1>10, <2>1
  <1>12. VP932TypeOK'
    <2>1. <<>> \in Seq(VP932Chars) /\ Len(<<>>) <= VP932RxSize
      BY VP932Assumption
    <2>2. QED
      BY <1>9, <1>10, <1>11, <2>1, Zenon DEF VP932TypeOK
  <1>13. VP932Awaits'
    <2>1. CASE found = {}
      BY <1>8, <1>10, <2>1, Zenon DEF VP932Inv, VP932Awaits
    <2>2. CASE found # {}
      BY <1>8, <1>10, <2>2, Zenon DEF VP932Awaits
    <2>3. QED
      BY <2>1, <2>2
  <1>14. QED
    BY <1>9, <1>10, <1>11, <1>12, <1>13, Zenon DEF VP932Inv, Do

(* Clearing the buffer, collecting a character, and all that keeps what is *)
(* searched for as it is.                                                  *)
LEMMA VP932OthersKeep ==
  ASSUME VP932Inv,
         \/ VP932Clear \/ VP932Reset \/ VP932Arrived \/ VP932Waits \/ VP932PlayerMoves
         \/ \E c \in VP932Chars : VP932Collect(c)
  PROVE  VP932Inv'
  <1> USE VP932WordsTyped DEF VP932Inv, VP932TypeOK, VP932Awaits
  <1>1. <<>> \in Seq(VP932Chars) /\ Len(<<>>) <= VP932RxSize /\ 0 \in 0..(VP932Words - 1)
    BY VP932Assumption
  <1>2. VP932Clear => VP932Inv'
    BY <1>1 DEF VP932Clear
  <1>3. VP932Reset => VP932Inv'
    BY <1>1 DEF VP932Reset
  <1>4. VP932Arrived => VP932Inv'
    BY <1>1 DEF VP932Arrived, VP932SearchOver
  <1>5. VP932Waits \/ VP932PlayerMoves => VP932Inv'
    BY DEF VP932Waits, VP932PlayerMoves, vp932_vars
  <1>6. ASSUME NEW c \in VP932Chars, VP932Collect(c) PROVE VP932Inv'
    <2>1. vp932_rx_buf' \in Seq(VP932Chars) /\ Len(vp932_rx_buf') <= VP932RxSize
      <3>1. CASE VP932Room /\ vp932_rx_buf' = Append(vp932_rx_buf, c)
        BY <3>1, VP932Assumption DEF VP932Room
      <3>2. CASE UNCHANGED vp932_rx_buf
        BY <3>2
      <3>3. QED
        BY <1>6, <3>1, <3>2, Zenon DEF VP932Collect
    <2>2. UNCHANGED <<vp932_state, vp932_play_after_search, vp932_last, vp932_asked>>
      BY <1>6, Zenon DEF VP932Collect
    <2>3. QED
      BY <2>1, <2>2, Zenon
  <1>7. QED
    BY <1>2, <1>3, <1>4, <1>5, <1>6, Zenon

LEMMA VP932Kept ==
  ASSUME VP932Inv, [VP932Next]_<<playerVars, vp932_vars>>
  PROVE  VP932Inv'
  <1>1. UNCHANGED <<playerVars, vp932_vars>> => VP932Inv'
    BY DEF VP932Inv, VP932TypeOK, VP932Awaits, vp932_vars
  <1>2. ASSUME NEW c \in VP932Chars \cup {VP932Nul, VP932Return}, VP932Write(c)
        PROVE  VP932Inv'
    BY <1>2, VP932ProcessKeeps, VP932OthersKeep, Zenon DEF VP932Write
  <1>3. QED
    BY <1>1, <1>2, VP932OthersKeep, Zenon DEF VP932Next, VP932VBlank

LEMMA VP932Begins == VP932Init => VP932Inv
  <1>1. <<>> \in Seq(VP932Chars) /\ Len(<<>>) <= VP932RxSize /\ 0 \in 0..(VP932Words - 1)
    BY VP932Assumption, VP932WordsTyped
  <1>2. QED
    BY <1>1 DEF VP932Init, VP932Inv, VP932TypeOK, VP932Awaits

(* The VP932's buffer never outgrows its array, and its frame numbers fit  *)
(* in 16 bits.                                                             *)
THEOREM VP932TypeCorrect == VP932Spec => []VP932TypeOK
  <1>1. VP932Inv => VP932TypeOK
    BY Zenon DEF VP932Inv
  <1>2. QED
    BY <1>1, VP932Begins, VP932Kept, PTL DEF VP932Spec

-----------------------------------------------------------------------------
(* The VP932's exchange with its host.                                     *)
VP932Asked == {vp932_asked} \ {"-"}
VP932Told == RepliesOf("VP932")

LEMMA VP932Settles ==
  ASSUME NEW settled \in SUBSET VP932Asked, VP932Asked' = VP932Asked \ settled,
         NEW n \in Nat, Len(VP932Told') = n, NEW of \in Injection(1..n, settled),
         \A i \in 1..n : VP932Told'[i] \in VP932Answers(of[i])
  PROVE  VP932Exchange!Settle
  <1>1. of \in VP932Exchange!Injection(1..n, settled)
    BY Zenon DEF Injection, IsInjective, VP932Exchange!Injection, VP932Exchange!IsInjective
  <1>2. QED
    BY <1>1, Zenon DEF VP932Exchange!Settle, VP932Told, VP932Asked

LEMMA VP932Silent ==
  ASSUME UNCHANGED vp932_asked \/ vp932_asked' = "-", VP932Told' = <<>>
  PROVE  VP932Exchange!Settle
  <1> DEFINE settled == VP932Asked \ VP932Asked'
  <1>1. settled \in SUBSET VP932Asked /\ VP932Asked' = VP932Asked \ settled
    BY DEF VP932Asked
  <1>2. PICK of : of \in Injection(1..0, settled)
    BY Injections, Zenon
  <1>3. 0 \in Nat /\ Len(VP932Told') = 0
        /\ \A i \in 1..0 : VP932Told'[i] \in VP932Answers(of[i])
    OBVIOUS
  <1> HIDE DEF settled
  <1>4. QED
    BY <1>1, <1>2, <1>3, VP932Settles, Zenon

LEMMA VP932Asks ==
  ASSUME vp932_asked' \in {"N", "R"}, VP932Told' = <<>>
  PROVE  \E r \in {"N", "R"} : VP932Exchange!Ask(r)
  <1>1. {} \in SUBSET VP932Asked /\ VP932Asked' = {} \cup {vp932_asked'}
    BY DEF VP932Asked
  <1>2. QED
    BY <1>1, Zenon DEF VP932Exchange!Ask, VP932Told, VP932Asked

(* The answer the vertical blank gives is to the search awaited.           *)
LEMMA VP932ArrivedAnswers ==
  ASSUME VP932Inv, VP932Arrived, VP932Told' = replies'
  PROVE  VP932Exchange!Settle
  <1>1. /\ vp932_asked \in {"N", "R"} /\ vp932_asked' = "-"
        /\ vp932_play_after_search <=> vp932_asked = "N"
    BY Zenon DEF VP932Arrived, VP932Inv, VP932Awaits
  <1>2. replies' = IF vp932_asked = "N" THEN <<"A1">> ELSE <<"A0">>
    BY <1>1, Zenon DEF VP932Arrived, Do
  <1>3. Len(VP932Told') = 1 /\ VP932Told'[1] \in VP932Answers(vp932_asked)
    BY <1>2 DEF VP932Answers
  <1> DEFINE settled == {vp932_asked}
             of == [i \in 1..1 |-> vp932_asked]
  <1>4. settled \in SUBSET VP932Asked /\ VP932Asked' = VP932Asked \ settled
    BY <1>1 DEF VP932Asked
  <1>5. of \in Injection(1..1, settled)
    <2>1. vp932_asked \in settled
      OBVIOUS
    <2> HIDE DEF settled
    <2>2. QED
      BY <2>1, Injections, Zenon
  <1>6. of[1] = vp932_asked /\ 1 \in Nat /\ \A i \in 1..1 : i = 1
    OBVIOUS
  <1> HIDE DEF settled, of
  <1>7. \A i \in 1..1 : VP932Told'[i] \in VP932Answers(of[i])
    BY <1>3, <1>6, Zenon
  <1>8. QED
    BY <1>3, <1>4, <1>5, <1>6, <1>7, VP932Settles, Zenon

LEMMA VP932StepExchanges ==
  ASSUME VP932Inv, plugged = "VP932", plugged' = "VP932", VP932Next
  PROVE  VP932Exchange!ExchangeNext
  <1> USE DEF VP932Exchange!ExchangeNext
  <1>1. VP932Told' = replies'
    BY DEF VP932Told, RepliesOf
  <1>2. VP932Process => VP932Exchange!ExchangeNext
    BY <1>1, VP932ProcessKeeps, VP932Silent, VP932Asks, Zenon
  <1>3. VP932Arrived => VP932Exchange!ExchangeNext
    BY <1>1, VP932ArrivedAnswers, Zenon
  <1>4. ASSUME VP932Clear \/ VP932Reset \/ VP932Waits \/ \E c \in VP932Chars : VP932Collect(c)
        PROVE  VP932Exchange!ExchangeNext
    <2>1. replies' = <<>> /\ (UNCHANGED vp932_asked \/ vp932_asked' = "-")
      BY <1>4, Zenon DEF VP932Clear, VP932Reset, VP932Waits, VP932Collect, Nothing, Do, vp932_vars
    <2>2. QED
      BY <1>1, <2>1, VP932Silent, Zenon
  <1>5. ASSUME VP932PlayerMoves PROVE VP932Exchange!ExchangeNext
    <2>1. replies' = <<>> /\ UNCHANGED vp932_asked
      BY <1>5, PlayerKeepsPlug, Zenon DEF VP932PlayerMoves, vp932_vars
    <2>2. QED
      BY <1>1, <2>1, VP932Silent, Zenon
  <1>6. QED
    BY <1>2, <1>3, <1>4, <1>5, Zenon DEF VP932Next, VP932Write, VP932VBlank

LEMMA VP932StaysPlugged ==
  ASSUME plugged = "VP932", [VP932Next]_<<playerVars, vp932_vars>>
  PROVE  plugged' = "VP932"
  <1>1. VP932Next => UNCHANGED plugged
    BY DoKeepsPlug, PlayerKeepsPlug, Zenon
       DEF Nothing, VP932Next, VP932Write, VP932Clear, VP932Process, VP932Collect,
           VP932VBlank, VP932Arrived, VP932Waits, VP932Reset, VP932PlayerMoves
  <1>2. QED
    BY <1>1 DEF playerVars

(* The VP932 keeps the promise of an exchange: every answer is to a search *)
(* the host sent, is sent once, and says what that search was.             *)
THEOREM VP932KeepsItsPromise == VP932Spec => VP932AnswersItsHost
  <1> DEFINE I == VP932Inv /\ plugged = "VP932"
  <1>1. plugged = "VP932" /\ PlayerInit /\ VP932Init => I /\ VP932Exchange!ExchangeInit
    <2> SUFFICES ASSUME plugged = "VP932", PlayerInit, VP932Init
                 PROVE  VP932Exchange!ExchangeInit
      BY VP932Begins
    <2>1. {vp932_asked} \ {"-"} = {}
      BY DEF VP932Init
    <2>2. RepliesOf("VP932") = <<>>
      BY Zenon DEF RepliesOf, PlayerInit
    <2>3. QED
      BY <2>1, <2>2, Zenon DEF VP932Exchange!ExchangeInit
  <1>2. I /\ [VP932Next]_<<playerVars, vp932_vars>> => I'
    BY VP932Kept, VP932StaysPlugged
  <1>3. I /\ [VP932Next]_<<playerVars, vp932_vars>>
        => [VP932Exchange!ExchangeNext]_(VP932Exchange!exchangeVars)
    <2>1. I /\ VP932Next => VP932Exchange!ExchangeNext
      BY <1>2, VP932StepExchanges, Zenon
    <2>2. UNCHANGED <<playerVars, vp932_vars>> => UNCHANGED VP932Exchange!exchangeVars
      BY DEF VP932Exchange!exchangeVars, RepliesOf, playerVars, vp932_vars
    <2>3. QED
      BY <2>1, <2>2
  <1>4. QED
    BY <1>1, <1>2, <1>3, PTL DEF VP932Spec, VP932AnswersItsHost, VP932Exchange!ExchangeSpec

-----------------------------------------------------------------------------
(* The PR-7820: the register holds no digits, or the ones keyed since they *)
(* were last used, with zeros before them.                                 *)
Zeros == PR7820FrameSize - Len(pr7820_keyed)
RegisterHolds ==
  \/ pr7820_frame = PR7820Empty /\ pr7820_keyed = <<>>
  \/ /\ Len(pr7820_keyed) \in 1..PR7820FrameSize
     /\ pr7820_frame = [i \in PR7820Cells |->
                          IF i <= Zeros THEN 0 ELSE pr7820_keyed[i - Zeros]]
PR7820Inv ==
  /\ pr7820_keyed \in Seq(0..9) /\ RegisterHolds
  /\ pr7820_audio \in [Channels -> BOOLEAN] /\ pr7820_sound \in [Channels -> BOOLEAN]

LEMMA PR7820DigitTyped ==
  ASSUME NEW b \in PR7820DigitBytes
  PROVE  PR7820Digit(b) \in 0..9
  BY DEF PR7820DigitBytes, PR7820Digit

(* A digit more, in the history: the oldest is forgotten if there are too  *)
(* many for the register.                                                  *)
LEMMA KeyedMore ==
  ASSUME PR7820Inv, NEW d \in 0..9,
         pr7820_keyed' = LET k == Append(pr7820_keyed, d)
                         IN SubSeq(k, Max({1, Len(k) - PR7820FrameSize + 1}), Len(k))
  PROVE  LET l == Len(pr7820_keyed)
             m == IF l < PR7820FrameSize THEN 1 ELSE 2
         IN /\ l \in 0..PR7820FrameSize /\ pr7820_keyed' \in Seq(0..9)
            /\ Len(pr7820_keyed') = l + 2 - m /\ pr7820_keyed'[l + 2 - m] = d
            /\ \A i \in 1..(l + 1 - m) : pr7820_keyed'[i] = pr7820_keyed[m + i - 1]
  <1>1. PR7820FrameSize \in Nat \ {0}
    BY PR7820Assumption
  <1>2. PICK l \in 0..PR7820FrameSize : l = Len(pr7820_keyed)
    BY <1>1 DEF PR7820Inv, RegisterHolds
  <1>3. PICK k : k = Append(pr7820_keyed, d)
    OBVIOUS
  <1>4. /\ k \in Seq(0..9) /\ Len(k) = l + 1 /\ k[l + 1] = d
        /\ \A i \in 1..l : k[i] = pr7820_keyed[i]
    BY <1>2, <1>3 DEF PR7820Inv
  <1>5. PICK m : m = IF l < PR7820FrameSize THEN 1 ELSE 2
    OBVIOUS
  <1>6. Max({1, Len(k) - PR7820FrameSize + 1}) = m
    <2>1. /\ m \in {1, Len(k) - PR7820FrameSize + 1}
          /\ \A x \in {1, Len(k) - PR7820FrameSize + 1} : m >= x
      BY <1>1, <1>2, <1>4, <1>5
    <2>2. \A x \in {1, Len(k) - PR7820FrameSize + 1} :
            (\A y \in {1, Len(k) - PR7820FrameSize + 1} : x >= y) => x = m
      BY <1>1, <1>2, <1>4, <1>5
    <2>3. QED
      BY <2>1, <2>2, Zenon DEF Max
  <1>7. pr7820_keyed' = SubSeq(k, m, l + 1)
    BY <1>3, <1>4, <1>6, Zenon
  <1>8. m \in Int /\ l + 1 \in Int /\ m <= l + 1 /\ m >= 1
    BY <1>1, <1>2, <1>5
  <1> DEFINE D == 0..9
  <1>9. \A i \in m..(l + 1) : k[i] \in D
    BY <1>4, <1>8
  <1> HIDE DEF D
  <1>10. PICK top \in Int : top = l + 1
    BY <1>8
  <1>11. PICK q : q = SubSeq(k, m, top)
    OBVIOUS
  <1>12. /\ q \in Seq(D) /\ Len(q) = IF m <= top THEN top - m + 1 ELSE 0
         /\ \A i \in 1..(top - m + 1) : q[i] = k[m + i - 1]
    <2>1. \A i \in m..top : k[i] \in D
      BY <1>9, <1>10
    <2>2. /\ SubSeq(k, m, top) \in Seq(D)
          /\ Len(SubSeq(k, m, top)) = IF m <= top THEN top - m + 1 ELSE 0
          /\ \A i \in 1..(top - m + 1) : SubSeq(k, m, top)[i] = k[m + i - 1]
      BY <1>8, <2>1, SubSeqProperties
    <2>3. QED
      BY <1>11, <2>2
  <1>13. pr7820_keyed' = q
    BY <1>7, <1>10, <1>11, Zenon
  <1>14. /\ q \in Seq(0..9) /\ Len(q) = l + 2 - m /\ q[l + 2 - m] = d
         /\ \A i \in 1..(l + 1 - m) : q[i] = pr7820_keyed[m + i - 1]
    <2>1. q \in Seq(0..9) /\ Len(q) = l + 2 - m
      BY <1>2, <1>8, <1>10, <1>12 DEF D
    <2>2. q[l + 2 - m] = d
      <3>1. l + 2 - m \in 1..(top - m + 1) /\ m + (l + 2 - m) - 1 = l + 1
        BY <1>2, <1>8, <1>10
      <3>2. QED
        BY <1>4, <1>12, <3>1
    <2>3. ASSUME NEW i \in 1..(l + 1 - m) PROVE q[i] = pr7820_keyed[m + i - 1]
      <3>1. i \in 1..(top - m + 1) /\ m + i - 1 \in 1..l
        BY <1>2, <1>8, <1>10
      <3>2. QED
        BY <1>4, <1>12, <3>1
    <2>4. QED
      BY <2>1, <2>2, <2>3
  <1>15. QED
    BY <1>2, <1>5, <1>13, <1>14

LEMMA DigitKeeps ==
  ASSUME PR7820Inv, NEW b, PR7820AddDigit(b)
  PROVE  PR7820Inv'
  <1>1. PR7820FrameSize \in Nat \ {0}
    BY PR7820Assumption
  <1>2. PICK d \in 0..9 : d = PR7820Digit(b)
    BY PR7820DigitTyped DEF PR7820AddDigit
  <1>3. PICK l, m, q : /\ l = Len(pr7820_keyed) /\ m = (IF l < PR7820FrameSize THEN 1 ELSE 2)
                       /\ q = pr7820_keyed'
    OBVIOUS
  <1>4. /\ l \in 0..PR7820FrameSize /\ q \in Seq(0..9)
        /\ Len(q) = l + 2 - m /\ q[l + 2 - m] = d
        /\ \A i \in 1..(l + 1 - m) : q[i] = pr7820_keyed[m + i - 1]
    <2>1. pr7820_keyed' = LET k == Append(pr7820_keyed, d)
                          IN SubSeq(k, Max({1, Len(k) - PR7820FrameSize + 1}), Len(k))
      BY <1>2, Zenon DEF PR7820AddDigit
    <2>2. QED
      BY <1>3, <2>1, KeyedMore, Zenon
  <1>41. /\ m \in {1, 2} /\ (m = 1 => l < PR7820FrameSize)
         /\ (m = 2 => l = PR7820FrameSize)
    <2>1. m = IF l < PR7820FrameSize THEN 1 ELSE 2
      BY <1>3, Zenon
    <2>2. l \in 0..PR7820FrameSize
      BY <1>4, Zenon
    <2>3. QED
      BY <1>1, <2>1, <2>2
  <1>5. PICK z \in Nat : z = PR7820FrameSize - (l + 2 - m)
    <2>1. PR7820FrameSize - (l + 2 - m) \in Nat
      BY <1>1, <1>4, <1>41
    <2>2. QED
      BY <2>1, Zenon
  <1>6. pr7820_frame' = [i \in PR7820Cells |->
                           IF i = PR7820FrameSize THEN d ELSE PR7820Filled(i + 1)]
    BY <1>2, Zenon DEF PR7820AddDigit
  <1>7. ASSUME NEW i \in PR7820Cells
        PROVE  pr7820_frame'[i] = IF i <= z THEN 0 ELSE q[i - z]
    <2>1. CASE i = PR7820FrameSize
      <3>1. i > z /\ i - z = l + 2 - m
        BY <1>1, <1>4, <1>41, <1>5, <2>1
      <3>2. q[i - z] = d /\ ~(i <= z)
        BY <1>4, <1>5, <3>1, <1>1, <2>1
      <3>3. pr7820_frame'[i] = d
        BY <1>6, <2>1
      <3>4. QED
        BY <3>2, <3>3, Zenon
    <2>2. CASE i # PR7820FrameSize
      <3>1. i + 1 \in PR7820Cells /\ pr7820_frame'[i] = PR7820Filled(i + 1)
        BY <1>1, <1>6, <2>2 DEF PR7820Cells
      <3>2. CASE pr7820_frame = PR7820Empty /\ pr7820_keyed = <<>>
        <4>1. PR7820Filled(i + 1) = 0
          BY <3>1, <3>2 DEF PR7820Filled, PR7820Empty
        <4>2. i <= z
          BY <1>1, <1>3, <1>4, <1>5, <2>2, <3>2 DEF PR7820Cells
        <4>3. QED
          BY <3>1, <4>1, <4>2
      <3>3. CASE /\ Len(pr7820_keyed) \in 1..PR7820FrameSize
                 /\ pr7820_frame = [j \in PR7820Cells |->
                                      IF j <= Zeros THEN 0 ELSE pr7820_keyed[j - Zeros]]
        <4>1. PICK y : y = Zeros
          OBVIOUS
        <4>2. y = PR7820FrameSize - l /\ y \in 0..PR7820FrameSize /\ y + m = z + 2
          BY <1>1, <1>3, <1>4, <1>41, <1>5, <4>1 DEF Zeros
        <4>3. /\ i + 1 <= y => pr7820_frame[i + 1] = 0
              /\ ~(i + 1 <= y) => pr7820_frame[i + 1] = pr7820_keyed[i + 1 - y]
          <5>1. pr7820_frame = [j \in PR7820Cells |->
                                  IF j <= y THEN 0 ELSE pr7820_keyed[j - y]]
            BY <3>3, <4>1, Zenon
          <5>2. \A k \in PR7820Cells :
                  pr7820_frame[k] = IF k <= y THEN 0 ELSE pr7820_keyed[k - y]
            BY <5>1, Zenon
          <5>3. \A k \in PR7820Cells :
                  /\ k <= y => pr7820_frame[k] = 0
                  /\ ~(k <= y) => pr7820_frame[k] = pr7820_keyed[k - y]
            BY <5>2
          <5>4. i \in Int /\ y \in Int
            BY <1>1, <4>2 DEF PR7820Cells
          <5>5. QED
            BY <3>1, <5>3, <5>4
        <4>4. i \in 1..PR7820FrameSize /\ i < PR7820FrameSize /\ m \in {1, 2}
          BY <1>1, <1>3, <2>2 DEF PR7820Cells
        <4>5. CASE i + 1 <= y
          <5>1. i <= z
            BY <1>1, <4>2, <4>4, <4>5
          <5>2. pr7820_frame[i + 1] = 0
            BY <4>3, <4>5
          <5>3. PR7820Filled(i + 1) = 0
            BY <5>2 DEF PR7820Filled
          <5>4. QED
            BY <3>1, <5>1, <5>3
        <4>6. CASE ~(i + 1 <= y)
          <5>1. i + 1 - y \in 1..l
            BY <1>1, <1>4, <4>2, <4>4, <4>6
          <5>2. pr7820_keyed[i + 1 - y] \in 0..9
            BY <1>3, <5>1 DEF PR7820Inv
          <5>3. PR7820Filled(i + 1) = pr7820_keyed[i + 1 - y]
            BY <4>3, <4>6, <5>2 DEF PR7820Filled, PR7820Nul
          <5>4. CASE i <= z
            <6>1. m = 1 => FALSE
              BY <1>1, <4>2, <4>4, <4>6, <5>4
            <6>2. m = 2 => l = PR7820FrameSize
              BY <1>41
            <6>3. QED
              BY <1>1, <4>2, <4>4, <5>4, <6>1, <6>2
          <5>5. CASE ~(i <= z)
            <6>1. i - z \in 1..(l + 1 - m) /\ m + (i - z) - 1 = i + 1 - y
              BY <1>1, <1>3, <1>4, <1>5, <4>2, <4>4, <5>1, <5>5
            <6>2. q[i - z] = pr7820_keyed[i + 1 - y]
              BY <1>4, <6>1
            <6>3. QED
              BY <3>1, <5>3, <5>5, <6>2
          <5>6. QED
            BY <5>4, <5>5
        <4>7. QED
          BY <4>5, <4>6
      <3>4. QED
        BY <3>2, <3>3, Zenon DEF PR7820Inv, RegisterHolds
    <2>3. QED
      BY <2>1, <2>2
  <1>8. Len(q) \in 1..PR7820FrameSize /\ PR7820FrameSize - Len(q) = z
    BY <1>1, <1>3, <1>4, <1>5
  <1>9. pr7820_frame' = [i \in PR7820Cells |-> IF i <= z THEN 0 ELSE q[i - z]]
    BY <1>6, <1>7
  <1>10. RegisterHolds'
    <2>1. Len(pr7820_keyed') \in 1..PR7820FrameSize /\ Zeros' = z
      BY <1>3, <1>8 DEF Zeros
    <2>2. pr7820_frame' = [i \in PR7820Cells |->
                             IF i <= Zeros' THEN 0 ELSE pr7820_keyed'[i - Zeros']]
      BY <1>3, <1>9, <2>1, Zenon
    <2>3. QED
      BY <2>1, <2>2, Zenon DEF RegisterHolds
  <1>11. UNCHANGED <<pr7820_audio, pr7820_sound>>
    BY Zenon DEF PR7820AddDigit
  <1>12. QED
    BY <1>3, <1>4, <1>10, <1>11, Zenon DEF PR7820Inv

(* The sound commands: a channel is switched to what is told, and the      *)
(* other is left alone.                                                    *)
LEMMA SwitchKeeps ==
  ASSUME PR7820Inv, NEW ch \in Channels, NEW on \in BOOLEAN, PR7820Switch(ch, on)
  PROVE  /\ pr7820_audio' \in [Channels -> BOOLEAN] /\ pr7820_sound' \in [Channels -> BOOLEAN]
         /\ \A c \in Channels : \/ pr7820_sound'[c] = pr7820_audio'[c]
                                \/ /\ pr7820_sound'[c] = pr7820_sound[c]
                                   /\ pr7820_audio'[c] = pr7820_audio[c]
         /\ calls' = <<PR7820ChangeAudio(ch, on)>>
  <1>1. /\ pr7820_audio' = [pr7820_audio EXCEPT ![ch] = on]
        /\ pr7820_sound' = [pr7820_sound EXCEPT ![ch] = on]
        /\ calls' = <<PR7820ChangeAudio(ch, on)>>
    BY Zenon DEF PR7820Switch, Do
  <1>2. pr7820_audio \in [Channels -> BOOLEAN] /\ pr7820_sound \in [Channels -> BOOLEAN]
    BY Zenon DEF PR7820Inv
  <1>3. QED
    BY <1>1, <1>2

LEMMA SwitchAudioKeeps ==
  ASSUME PR7820Inv, NEW b, PR7820SwitchAudio(b)
  PROVE  /\ PR7820Clear \/ UNCHANGED <<pr7820_frame, pr7820_keyed>>
         /\ \E ch \in Channels, on \in BOOLEAN : PR7820Switch(ch, on)
  <1> DEFINE ch == IF b = 244 THEN 1 ELSE 2
             last == pr7820_frame[PR7820FrameSize]
  <1>1. \/ PR7820Switch(ch, ~pr7820_audio[ch]) /\ UNCHANGED <<pr7820_frame, pr7820_keyed>>
        \/ PR7820Switch(ch, last % 2 = 1) /\ PR7820Clear
    BY Zenon DEF PR7820SwitchAudio
  <1>2. ch \in Channels /\ (~pr7820_audio[ch]) \in BOOLEAN /\ (last % 2 = 1) \in BOOLEAN
    BY DEF Channels
  <1> HIDE DEF ch, last
  <1>3. QED
    BY <1>1, <1>2, Zenon

LEMMA SetBothKeeps ==
  ASSUME NEW b, PR7820SetBoth(b)
  PROVE  /\ pr7820_audio' \in [Channels -> BOOLEAN] /\ pr7820_sound' = pr7820_audio'
         /\ UNCHANGED <<pr7820_frame, pr7820_keyed>>
         /\ \E on \in [Channels -> BOOLEAN] :
              calls' = <<PR7820ChangeAudio(1, on[1]), PR7820ChangeAudio(2, on[2])>>
  <1> DEFINE on == [ch \in Channels |-> IF ch = 1 THEN b \in {161, 163} ELSE b \in {162, 163}]
  <1>1. /\ pr7820_audio' = on /\ pr7820_sound' = on
        /\ calls' = <<PR7820ChangeAudio(1, on[1]), PR7820ChangeAudio(2, on[2])>>
        /\ UNCHANGED <<pr7820_frame, pr7820_keyed>>
    BY Zenon DEF PR7820SetBoth, Do
  <1>2. on \in [Channels -> BOOLEAN]
    <2>1. ASSUME NEW S PROVE (b \in S) \in BOOLEAN
      OBVIOUS
    <2>11. PICK p \in BOOLEAN : p = (b \in {161, 163})
      BY <2>1, Zenon
    <2>12. PICK q \in BOOLEAN : q = (b \in {162, 163})
      BY <2>1, Zenon
    <2>2. on = [ch \in Channels |-> IF ch = 1 THEN p ELSE q]
      BY <2>11, <2>12, Zenon
    <2>3. QED
      BY <2>2
  <1> HIDE DEF on
  <1>3. QED
    BY <1>1, <1>2, Zenon

LEMMA ClearKeeps ==
  ASSUME PR7820Clear
  PROVE  pr7820_keyed' \in Seq(0..9) /\ RegisterHolds'
  <1>1. pr7820_frame' = PR7820Empty /\ pr7820_keyed' = <<>>
    BY Zenon DEF PR7820Clear
  <1>2. <<>> \in Seq(0..9)
    OBVIOUS
  <1>3. PR7820Empty' = PR7820Empty
    BY DEF PR7820Empty, PR7820Nul, PR7820Cells
  <1>4. QED
    BY <1>1, <1>2, Zenon DEF RegisterHolds

LEMMA RegisterStays ==
  ASSUME PR7820Inv, UNCHANGED <<pr7820_frame, pr7820_keyed>>
  PROVE  pr7820_keyed' \in Seq(0..9) /\ RegisterHolds'
  <1>1. pr7820_frame' = pr7820_frame /\ pr7820_keyed' = pr7820_keyed
    BY Zenon
  <1>2. pr7820_keyed \in Seq(0..9) /\ RegisterHolds
    BY Zenon DEF PR7820Inv
  <1>3. RegisterHolds' = RegisterHolds
    BY <1>1 DEF RegisterHolds, Zeros
  <1>4. QED
    BY <1>1, <1>2, <1>3

LEMMA PR7820Kept ==
  ASSUME PR7820Inv, [PR7820Next]_<<playerVars, pr7820_vars>>
  PROVE  PR7820Inv'
  <1> USE DEF PR7820Inv
  <1>1. ASSUME UNCHANGED pr7820_vars PROVE PR7820Inv'
    <2>1. UNCHANGED <<pr7820_frame, pr7820_keyed>> /\ UNCHANGED <<pr7820_audio, pr7820_sound>>
      BY <1>1 DEF pr7820_vars
    <2>2. QED
      BY <2>1, RegisterStays, Zenon
  <1>2. ASSUME NEW b, PR7820BeginSearch(b) PROVE PR7820Inv'
    BY <1>2, ClearKeeps, Zenon DEF PR7820BeginSearch
  <1>3. ASSUME NEW b, PR7820SwitchAudio(b) PROVE PR7820Inv'
    BY <1>3, SwitchAudioKeeps, SwitchKeeps, ClearKeeps, RegisterStays, Zenon
  <1>4. ASSUME NEW b, PR7820SetBoth(b) PROVE PR7820Inv'
    BY <1>4, SetBothKeeps, RegisterStays, Zenon
  <1>5. PR7820Reset => PR7820Inv'
    <2>1. [ch \in Channels |-> TRUE] \in [Channels -> BOOLEAN]
      OBVIOUS
    <2>2. QED
      BY <2>1, ClearKeeps, Zenon DEF PR7820Reset
  <1>6. QED
    BY <1>1, <1>2, <1>3, <1>4, <1>5, DigitKeeps, Zenon
       DEF PR7820Next, PR7820Write, PR7820Other, PR7820PlayerMoves

LEMMA PR7820Begins == PR7820Init => PR7820Inv
  <1>1. <<>> \in Seq(0..9) /\ [ch \in Channels |-> TRUE] \in [Channels -> BOOLEAN]
    OBVIOUS
  <1>2. QED
    BY <1>1, Zenon DEF PR7820Init, PR7820Inv, RegisterHolds

(* The register of the PR-7820 holds digits in all of its cells or none.   *)
LEMMA PR7820InvTyped == PR7820Inv => PR7820TypeOK
  <1> SUFFICES ASSUME PR7820Inv PROVE PR7820TypeOK
    OBVIOUS
  <1>1. CASE /\ Len(pr7820_keyed) \in 1..PR7820FrameSize
             /\ pr7820_frame = [i \in PR7820Cells |->
                                  IF i <= Zeros THEN 0 ELSE pr7820_keyed[i - Zeros]]
    <2>1. PICK l, z : l = Len(pr7820_keyed) /\ z = Zeros
      OBVIOUS
    <2>2. PR7820FrameSize \in Nat /\ l \in 1..PR7820FrameSize /\ z = PR7820FrameSize - l
      BY <1>1, <2>1, PR7820Assumption, Zenon DEF Zeros
    <2>3. \A i \in 1..l : pr7820_keyed[i] \in 0..9
      BY <2>1 DEF PR7820Inv
    <2>4. \A i \in PR7820Cells : (IF i <= z THEN 0 ELSE pr7820_keyed[i - z]) \in 0..9
      <3> SUFFICES ASSUME NEW i \in PR7820Cells, ~(i <= z) PROVE pr7820_keyed[i - z] \in 0..9
        OBVIOUS
      <3>1. i - z \in 1..l
        BY <2>2 DEF PR7820Cells
      <3>2. QED
        BY <2>3, <3>1
    <2>5. pr7820_frame = [i \in PR7820Cells |-> IF i <= z THEN 0 ELSE pr7820_keyed[i - z]]
      BY <1>1, <2>1, Zenon
    <2>6. pr7820_frame \in [PR7820Cells -> 0..9]
      BY <2>4, <2>5
    <2>7. QED
      BY <2>6, Zenon DEF PR7820Inv, PR7820TypeOK
  <1>2. QED
    BY <1>1, Zenon DEF PR7820Inv, RegisterHolds, PR7820TypeOK

THEOREM PR7820TypeCorrect == PR7820Spec => []PR7820TypeOK
  BY PR7820Begins, PR7820Kept, PR7820InvTyped, PTL DEF PR7820Spec

(* A channel that a command of the PR-7820 changes is heard exactly if it  *)
(* is enabled, whether it was toggled, set by a digit or set by an audio   *)
(* byte, and even after a reset, which enables both without a word.        *)
LEMMA PR7820SoundKept ==
  ASSUME PR7820Inv, PR7820Next, NEW ch \in Channels
  PROVE  \/ pr7820_sound'[ch] = pr7820_audio'[ch]
         \/ UNCHANGED <<pr7820_audio[ch], pr7820_sound[ch]>>
         \/ PR7820Reset
  <1>1. UNCHANGED <<pr7820_audio, pr7820_sound>>
        => UNCHANGED <<pr7820_audio[ch], pr7820_sound[ch]>>
    OBVIOUS
  <1>2. ASSUME NEW b, PR7820SwitchAudio(b)
        PROVE  \/ pr7820_sound'[ch] = pr7820_audio'[ch]
               \/ UNCHANGED <<pr7820_audio[ch], pr7820_sound[ch]>>
    <2>1. \/ pr7820_sound'[ch] = pr7820_audio'[ch]
          \/ pr7820_sound'[ch] = pr7820_sound[ch] /\ pr7820_audio'[ch] = pr7820_audio[ch]
      BY <1>2, SwitchAudioKeeps, SwitchKeeps, Zenon
    <2>2. QED
      BY <2>1
  <1>3. ASSUME NEW b, PR7820SetBoth(b) PROVE pr7820_sound'[ch] = pr7820_audio'[ch]
    BY <1>3, SetBothKeeps, Zenon
  <1>4. UNCHANGED pr7820_vars => UNCHANGED <<pr7820_audio, pr7820_sound>>
    BY DEF pr7820_vars
  <1>5. QED
    BY <1>1, <1>2, <1>3, <1>4, Zenon
       DEF PR7820Next, PR7820Write, PR7820AddDigit, PR7820BeginSearch, PR7820Other,
           PR7820PlayerMoves

THEOREM PR7820SoundFollowed == PR7820Spec => PR7820SoundFollows
  <1> DEFINE Follows ==
        \A ch \in Channels :
          \/ pr7820_sound[ch]' = pr7820_audio[ch]'
          \/ UNCHANGED <<pr7820_audio[ch], pr7820_sound[ch]>>
          \/ PR7820Reset
  <1>1. PR7820Inv /\ [PR7820Next]_<<playerVars, pr7820_vars>>
        => [Follows]_<<playerVars, pr7820_vars>>
    BY PR7820SoundKept
  <1>2. QED
    BY <1>1, PR7820Begins, PR7820Kept, PTL DEF PR7820Spec, PR7820SoundFollows

-----------------------------------------------------------------------------
(* The value of digits, digit by digit.                                    *)
Runs(f, digits, n) ==
  f[{}] = 0 /\ \A k \in 0..(n - 1) : f[1..(k + 1)] = 10 * f[1..k] + digits[k + 1]

LEMMA ValueRuns ==
  ASSUME NEW n \in Nat, NEW digits, DOMAIN digits = 1..n, \A i \in 1..n : digits[i] \in Nat
  PROVE  \E f : VIPValue(digits) = f[1..n] /\ Runs(f, digits, n)
  <1>1. PICK f \in [SUBSET (1..n) -> Nat] :
          IsFold(f, n, 0, AppendDigit, digits) /\ VIPValue(digits) = f[1..n]
    BY ValueIsFold, Zenon
  <1>2. f[{}] = 0
    BY <1>1 DEF IsFold
  <1>3. \A k \in 0..(n - 1) : f[1..(k + 1)] = AppendDigit[<<f[1..k], digits[k + 1]>>]
    BY <1>1, AppendRuns, Zenon
  <1>4. \A x \in Nat, d \in Nat : AppendDigit[<<x, d>>] = 10 * x + d
    BY DEF AppendDigit
  <1>5. \A k \in 0..(n - 1) : k + 1 \in 1..n /\ f[1..k] \in Nat
    BY <1>1
  <1>6. \A k \in 0..(n - 1) : f[1..(k + 1)] = 10 * f[1..k] + digits[k + 1]
    BY <1>3, <1>4, <1>5, Zenon
  <1>7. QED
    BY <1>1, <1>2, <1>6, Zenon DEF Runs

(* Zeros before the digits do not change it.                               *)
LEMMA ZerosDoNotCount ==
  ASSUME NEW z \in Nat, NEW l \in Nat, NEW n \in Nat, n = z + l, NEW keyed, NEW reg,
         \A i \in 1..z : reg[i] = 0, \A i \in 1..l : reg[z + i] = keyed[i],
         NEW f, Runs(f, reg, n), NEW g, Runs(g, keyed, l)
  PROVE  f[1..n] = g[1..l]
  <1>2. f[{}] = 0 /\ \A k \in 0..(n - 1) : f[1..(k + 1)] = 10 * f[1..k] + reg[k + 1]
    BY Zenon DEF Runs
  <1>3. g[{}] = 0 /\ \A k \in 0..(l - 1) : g[1..(k + 1)] = 10 * g[1..k] + keyed[k + 1]
    BY Zenon DEF Runs
  <1> DEFINE T == {k \in Nat : k <= z => f[1..k] = 0}
             U == {k \in Nat : k <= l => f[1..(z + k)] = g[1..k]}
  <1>9. 1..0 = {}
    OBVIOUS
  <1>10. f[1..z] = 0
    <2>1. 0 \in T
      BY <1>2, <1>9
    <2>2. ASSUME NEW k \in Nat, k \in T, k + 1 <= z PROVE k + 1 \in T
      <3>1. k \in 0..(n - 1) /\ f[1..k] = 0 /\ reg[k + 1] = 0
        BY <2>2
      <3>2. f[1..(k + 1)] = 10 * f[1..k] + reg[k + 1]
        BY <1>2, <3>1, Zenon
      <3>3. f[1..(k + 1)] = 0
        BY <3>1, <3>2
      <3>4. QED
        BY <3>3
    <2>3. \A k \in Nat : k \in T => k + 1 \in T
      BY <2>2
    <2>4. z \in T
      <3> HIDE DEF T
      <3>1. QED
        BY <2>1, <2>3, ByInduction, Zenon
    <2>5. QED
      BY <2>4
  <1>11. 0 \in U
    <2>1. z + 0 = z
      OBVIOUS
    <2>2. f[1..(z + 0)] = g[1..0]
      BY <1>3, <1>9, <1>10, <2>1
    <2>3. QED
      BY <2>2
  <1>12. ASSUME NEW k \in Nat, k \in U, k + 1 <= l PROVE k + 1 \in U
    <2>1. PICK m \in Nat : m = z + k
      OBVIOUS
    <2>2. /\ m \in 0..(n - 1) /\ k \in 0..(l - 1) /\ k + 1 \in 1..l
          /\ m + 1 = z + (k + 1)
      BY <1>12, <2>1
    <2>3. f[1..m] = g[1..k]
      BY <1>12, <2>1
    <2>4. reg[m + 1] = keyed[k + 1]
      <3>1. reg[z + (k + 1)] = keyed[k + 1]
        BY <2>2
      <3>2. QED
        BY <2>2, <3>1, Zenon
    <2>5. /\ f[1..(m + 1)] = 10 * f[1..m] + reg[m + 1]
          /\ g[1..(k + 1)] = 10 * g[1..k] + keyed[k + 1]
      BY <1>2, <1>3, <2>2, Zenon
    <2>6. f[1..(z + (k + 1))] = g[1..(k + 1)]
      BY <2>2, <2>3, <2>4, <2>5, Zenon
    <2>7. QED
      BY <2>6
  <1>13. l \in U
    <2>1. ASSUME NEW k \in Nat, k \in U PROVE k + 1 \in U
      <3>1. k + 1 \in Nat
        OBVIOUS
      <3>2. CASE k + 1 <= l
        BY <1>12, <2>1, <3>2, Zenon
      <3>3. CASE ~(k + 1 <= l)
        BY <3>1, <3>3, Zenon
      <3>4. QED
        BY <3>2, <3>3, Zenon
    <2> HIDE DEF U
    <2>2. QED
      BY <1>11, <2>1, ByInduction, Zenon
  <1>14. QED
    BY <1>13

(* So the number in the register is that of the digits keyed.              *)
LEMMA RegisterIsKeyed ==
  ASSUME PR7820Inv
  PROVE  PR7820Number = PR7820Value(pr7820_keyed)
  <1>1. PR7820FrameSize \in Nat \ {0}
    BY PR7820Assumption
  <1>2. CASE pr7820_frame = PR7820Empty /\ pr7820_keyed = <<>>
    <2>1. PR7820Read = {}
      <3> SUFFICES ASSUME NEW i \in PR7820Read PROVE FALSE
        OBVIOUS
      <3>1. 1 \in 1..i /\ 1 \in PR7820Cells
        BY <1>1 DEF PR7820Read, PR7820Cells
      <3>2. pr7820_frame[1] = PR7820Nul
        BY <1>2, <3>1 DEF PR7820Empty
      <3>3. QED
        BY <3>1, <3>2 DEF PR7820Read
    <2>2. [i \in PR7820Read |-> pr7820_frame[i]] = <<>>
      BY <2>1
    <2>3. QED
      BY <1>2, <2>2, Zenon DEF PR7820Number
  <1>3. CASE /\ Len(pr7820_keyed) \in 1..PR7820FrameSize
             /\ pr7820_frame = [i \in PR7820Cells |->
                                  IF i <= Zeros THEN 0 ELSE pr7820_keyed[i - Zeros]]
    <2>1. PICK l, z, n : l = Len(pr7820_keyed) /\ z = Zeros /\ n = PR7820FrameSize
      OBVIOUS
    <2>2. /\ n \in Nat /\ l \in Nat /\ l >= 1 /\ z \in Nat /\ n = z + l
          /\ PR7820Cells = 1..n
      BY <1>1, <1>3, <2>1 DEF Zeros, PR7820Cells
    <2>3. DOMAIN pr7820_keyed = 1..l /\ \A i \in 1..l : pr7820_keyed[i] \in 0..9
      BY <2>1 DEF PR7820Inv
    <2>4. pr7820_frame = [i \in 1..n |-> IF i <= z THEN 0 ELSE pr7820_keyed[i - z]]
      BY <1>3, <2>1, <2>2, Zenon
    <2>31. \A i \in 1..n : (IF i <= z THEN 0 ELSE pr7820_keyed[i - z]) \in Nat
      <3> SUFFICES ASSUME NEW i \in 1..n, ~(i <= z) PROVE pr7820_keyed[i - z] \in Nat
        OBVIOUS
      <3>1. i - z \in 1..l
        BY <2>2
      <3>2. QED
        BY <2>3, <3>1
    <2>5. DOMAIN pr7820_frame = 1..n /\ \A i \in 1..z : pr7820_frame[i] = 0
      BY <2>2, <2>4
    <2>6. \A i \in 1..l : pr7820_frame[z + i] = pr7820_keyed[i]
      <3> SUFFICES ASSUME NEW i \in 1..l PROVE pr7820_frame[z + i] = pr7820_keyed[i]
        OBVIOUS
      <3>1. z + i \in 1..n /\ ~(z + i <= z) /\ (z + i) - z = i
        BY <2>2
      <3>2. QED
        BY <2>4, <3>1
    <2>7. VIPValue(pr7820_frame) = VIPValue(pr7820_keyed)
      <3>1. PICK f : VIPValue(pr7820_frame) = f[1..n] /\ Runs(f, pr7820_frame, n)
        <4>1. PICK reg : reg = pr7820_frame
          OBVIOUS
        <4>2. DOMAIN reg = 1..n /\ \A i \in 1..n : reg[i] \in Nat
          BY <2>31, <2>4, <4>1
        <4>3. \E f : VIPValue(reg) = f[1..n] /\ Runs(f, reg, n)
          BY <2>2, <4>2, ValueRuns, Zenon
        <4>4. QED
          BY <4>1, <4>3, Zenon
      <3>2. PICK g : VIPValue(pr7820_keyed) = g[1..l] /\ Runs(g, pr7820_keyed, l)
        <4>1. \A i \in 1..l : pr7820_keyed[i] \in Nat
          BY <2>3
        <4>2. QED
          BY <2>2, <2>3, <4>1, ValueRuns, Zenon
      <3>3. f[1..n] = g[1..l]
        <4>1. PICK reg, keyed : reg = pr7820_frame /\ keyed = pr7820_keyed
          OBVIOUS
        <4>2. (\A i \in 1..z : reg[i] = 0) /\ \A i \in 1..l : reg[z + i] = keyed[i]
          BY <2>5, <2>6, <4>1, Zenon
        <4>3. Runs(f, reg, n) /\ Runs(g, keyed, l)
          BY <3>1, <3>2, <4>1, Zenon
        <4>4. QED
          BY <2>2, <4>2, <4>3, ZerosDoNotCount
      <3>4. QED
        BY <3>1, <3>2, <3>3, Zenon
    <2>8. PR7820Read = 1..n
      <3>1. PR7820TypeOK /\ pr7820_frame[1] # PR7820Nul
        <4>1. pr7820_frame[1] \in 0..9
          <5>1. 1 \in 1..n /\ (z = 0 => 1 \in 1..l /\ 0 + 1 = 1)
            BY <2>2
          <5>2. CASE z = 0
            BY <2>3, <2>6, <5>1, <5>2
          <5>3. CASE z # 0
            BY <2>2, <2>5, <5>3
          <5>4. QED
            BY <5>2, <5>3
        <4>2. QED
          BY <4>1, PR7820InvTyped DEF PR7820Nul
      <3>2. 1 \in PR7820Cells
        BY <2>2
      <3>3. pr7820_frame # PR7820Empty
        BY <3>1, <3>2 DEF PR7820Empty
      <3>4. \A j \in 1..n : pr7820_frame[j] # PR7820Nul
        BY <2>2, <3>1, <3>3 DEF PR7820TypeOK, PR7820Nul
      <3>5. QED
        BY <2>2, <3>4 DEF PR7820Read
    <2>9. [i \in PR7820Read |-> pr7820_frame[i]] = pr7820_frame
      BY <2>4, <2>8
    <2>10. QED
      BY <2>7, <2>9 DEF PR7820Number, PR7820Value, VIPValue
  <1>4. QED
    BY <1>2, <1>3, Zenon DEF PR7820Inv, RegisterHolds

(* A search of the PR-7820 goes to the number that the last digits make    *)
(* that were keyed since they were last used, however many were keyed.     *)
LEMMA OnlyTheSearchSearches ==
  ASSUME PR7820Inv, PR7820Next, NEW i \in DOMAIN calls', calls'[i].cb = "begin_search"
  PROVE  calls'[i].arg = PR7820Number
  <1> DEFINE Others == {Error, Call("play", 0), Call("pause", 0), Call("enable_super_mode", 0)}
                         \cup {PR7820ChangeAudio(ch, on) : ch \in Channels, on \in BOOLEAN}
  <1>1. \A c \in Others : c.cb # "begin_search"
    BY DEF Error, Call, PR7820ChangeAudio
  <1>14. /\ Error \in Others /\ Call("play", 0) \in Others /\ Call("pause", 0) \in Others
         /\ Call("enable_super_mode", 0) \in Others
         /\ \A ch \in Channels, on \in BOOLEAN : PR7820ChangeAudio(ch, on) \in Others
    OBVIOUS
  <1> HIDE DEF Others
  <1>2. ASSUME NEW c \in Others, calls' = <<c>> PROVE FALSE
    BY <1>1, <1>2
  <1>3. ASSUME NEW c \in Others, NEW d \in Others, calls' = <<c, d>> PROVE FALSE
    BY <1>1, <1>3
  <1>4. calls' # <<>>
    OBVIOUS
  <1>5. \A b : PR7820AddDigit(b) => FALSE
    BY <1>4, Zenon DEF PR7820AddDigit, Nothing, Do
  <1>6. \A b : PR7820SwitchAudio(b) => FALSE
    BY <1>2, <1>14, SwitchAudioKeeps, SwitchKeeps, Zenon
  <1>7. ASSUME NEW b, PR7820SetBoth(b) PROVE FALSE
    <2>1. PICK on \in [Channels -> BOOLEAN] :
            calls' = <<PR7820ChangeAudio(1, on[1]), PR7820ChangeAudio(2, on[2])>>
      BY <1>7, SetBothKeeps, Zenon
    <2>2. 1 \in Channels /\ 2 \in Channels /\ on[1] \in BOOLEAN /\ on[2] \in BOOLEAN
      BY DEF Channels
    <2>3. QED
      BY <1>3, <1>14, <2>1, <2>2, Zenon
  <1>8. \A b : PR7820Other(b) => FALSE
    BY <1>2, <1>4, <1>14, Zenon DEF PR7820Other, Nothing, Do
  <1>9. PR7820Reset \/ PR7820PlayerMoves => FALSE
    BY <1>4, PlayerKeepsPlug, Zenon DEF PR7820Reset, PR7820PlayerMoves, Nothing, Do
  <1>10. PICK b : PR7820BeginSearch(b)
    BY <1>5, <1>6, <1>7, <1>8, <1>9, Zenon DEF PR7820Next, PR7820Write
  <1>11. calls' = <<Call("begin_search", PR7820Number)>>
    BY <1>10, Zenon DEF PR7820BeginSearch, Do
  <1>12. calls'[i] = Call("begin_search", PR7820Number)
    <2>1. \A x : \A j \in DOMAIN <<x>> : <<x>>[j] = x
      OBVIOUS
    <2>2. QED
      BY <1>11, <2>1, Zenon
  <1>13. QED
    BY <1>12 DEF Call

THEOREM PR7820SearchesKeyedDigits == PR7820Spec => PR7820SearchesKeyed
  <1> DEFINE Keyed ==
        \A i \in DOMAIN PR7820Called' : PR7820Called'[i].cb = "begin_search"
          => PR7820Called'[i].arg = PR7820Value(pr7820_keyed)
  <1>1. PR7820Inv /\ [PR7820Next]_<<playerVars, pr7820_vars>>
        => [Keyed]_<<playerVars, pr7820_vars>>
    <2> SUFFICES ASSUME PR7820Inv, PR7820Next PROVE Keyed
      OBVIOUS
    <2>1. PR7820Called' = IF plugged' = "PR7820" THEN calls' ELSE <<>>
      BY Zenon DEF PR7820Called, CallsOf
    <2>2. CASE PR7820Called' = <<>>
      BY <2>2
    <2>3. CASE PR7820Called' = calls'
      BY <2>3, OnlyTheSearchSearches, RegisterIsKeyed, Zenon
    <2>4. QED
      BY <2>1, <2>2, <2>3, Zenon
  <1>2. QED
    BY <1>1, PR7820Begins, PR7820Kept, PTL DEF PR7820Spec, PR7820SearchesKeyed

-----------------------------------------------------------------------------
(* The VP932 and the PR-7820 among the others.                             *)
VP932Idle == plugged # "VP932" /\ VP932Init
PR7820Idle == plugged # "PR7820" /\ PR7820Init

LEMMA IdleStaysToo ==
  ASSUME [Next]_vars
  PROVE  (VP932Idle => VP932Idle') /\ (PR7820Idle => PR7820Idle')
  <1>1. UNCHANGED plugged
    BY PlugStays
  <1>2. VP932Idle => VP932Idle'
    BY <1>1, UnpluggedStays DEF VP932Idle, VP932Init, vp932_vars
  <1>3. ASSUME PR7820Idle PROVE PR7820Idle'
    <2>1. /\ pr7820_frame' = pr7820_frame /\ pr7820_audio' = pr7820_audio
          /\ pr7820_sound' = pr7820_sound /\ pr7820_keyed' = pr7820_keyed
      BY <1>3, UnpluggedStays DEF PR7820Idle, pr7820_vars
    <2>2. QED
      BY <1>1, <1>3, <2>1, Zenon DEF PR7820Idle, PR7820Init, PR7820Empty, PR7820Cells
  <1>4. QED
    BY <1>2, <1>3

(* The VP932 keeps the promise of an exchange.                             *)
THEOREM DexterVP932KeepsItsPromise == Spec => VP932AnswersItsHost
  <1>1. Init => plugged = "VP932" \/ VP932Idle
    BY Zenon DEF Init, VP932Idle
  <1>2. VP932Idle => VP932Asked = {} /\ VP932Told = <<>>
    BY DEF VP932Idle, VP932Init, VP932Asked, VP932Told, RepliesOf
  <1>3. VP932Idle => VP932Exchange!ExchangeInit
    BY <1>2, Zenon DEF VP932Exchange!ExchangeInit, VP932Asked, VP932Told
  <1>4. VP932Idle /\ [Next]_vars => [VP932Exchange!ExchangeNext]_(VP932Exchange!exchangeVars)
    <2> SUFFICES ASSUME VP932Idle, [Next]_vars
                 PROVE  UNCHANGED VP932Exchange!exchangeVars
      OBVIOUS
    <2>1. VP932Idle'
      BY IdleStaysToo
    <2>2. VP932Asked' = {} /\ VP932Told' = <<>>
      BY <2>1 DEF VP932Idle, VP932Init, VP932Asked, VP932Told, RepliesOf
    <2>3. VP932Asked' = VP932Asked /\ VP932Told' = VP932Told
      BY <1>2, <2>2
    <2>4. QED
      BY <2>3, Zenon DEF VP932Exchange!exchangeVars, VP932Asked, VP932Told
  <1>5. QED
    BY <1>1, <1>3, <1>4, PluggedIsAlone, VP932KeepsItsPromise, IdleStaysToo, PTL
       DEF Spec, VP932AnswersItsHost, VP932Exchange!ExchangeSpec

(* A search of the PR-7820 goes to the number of the digits keyed.         *)
THEOREM DexterPR7820SearchesKeyed == Spec => PR7820SearchesKeyed
  <1> DEFINE Keyed ==
        \A i \in DOMAIN PR7820Called' : PR7820Called'[i].cb = "begin_search"
          => PR7820Called'[i].arg = PR7820Value(pr7820_keyed)
  <1>1. Init => plugged = "PR7820" \/ PR7820Idle
    BY Zenon DEF Init, PR7820Idle
  <1>2. PR7820Idle /\ [Next]_vars => [Keyed]_<<playerVars, pr7820_vars>>
    <2> SUFFICES ASSUME PR7820Idle, [Next]_vars PROVE Keyed
      OBVIOUS
    <2>1. PR7820Called' = <<>>
      BY PlugStays, Zenon DEF PR7820Idle, PR7820Called, CallsOf
    <2>2. QED
      BY <2>1
  <1>3. QED
    BY <1>1, <1>2, PluggedIsAlone, PR7820SearchesKeyedDigits, IdleStaysToo, PTL
       DEF Spec, PR7820SearchesKeyed

(* A channel the PR-7820 changes is heard exactly if it is enabled.        *)
THEOREM DexterPR7820SoundFollowed == Spec => PR7820SoundFollows
  <1> DEFINE Follows ==
        \A ch \in Channels :
          \/ pr7820_sound[ch]' = pr7820_audio[ch]'
          \/ UNCHANGED <<pr7820_audio[ch], pr7820_sound[ch]>>
          \/ PR7820Reset
  <1>1. Init => plugged = "PR7820" \/ PR7820Idle
    BY Zenon DEF Init, PR7820Idle
  <1>2. PR7820Idle /\ [Next]_vars => [Follows]_<<playerVars, pr7820_vars>>
    <2> SUFFICES ASSUME PR7820Idle, [Next]_vars PROVE Follows
      OBVIOUS
    <2>1. pr7820_audio' = pr7820_audio /\ pr7820_sound' = pr7820_sound
      BY UnpluggedStays DEF PR7820Idle, pr7820_vars
    <2>2. QED
      BY <2>1
  <1>3. QED
    BY <1>1, <1>2, PluggedIsAlone, PR7820SoundFollowed, IdleStaysToo, PTL
       DEF Spec, PR7820SoundFollows

(* Whatever is sent to the one plugged in, no interpreter's buffer, ring,  *)
(* register or counter leaves its bounds.                                  *)
THEOREM DexterTypeCorrect == Spec => []TypeOK
  <1>1. /\ Init => plugged = "VP932" \/ VP932Idle
        /\ Init => plugged = "PR7820" \/ PR7820Idle
    BY Zenon DEF Init, VP932Idle, PR7820Idle
  <1>2. VP932Idle => VP932TypeOK
    BY VP932Begins, Zenon DEF VP932Idle, VP932Inv
  <1>3. PR7820Idle => PR7820TypeOK
    BY PR7820Begins, PR7820InvTyped, Zenon DEF PR7820Idle
  <1>4. Spec => []VP932TypeOK
    BY <1>1, <1>2, PluggedIsAlone, VP932TypeCorrect, IdleStaysToo, PTL DEF Spec
  <1>5. Spec => []PR7820TypeOK
    BY <1>1, <1>3, PluggedIsAlone, PR7820TypeCorrect, IdleStaysToo, PTL DEF Spec
  <1>6. VP932TypeOK /\ VIPTypeOK /\ PR8210TypeOK /\ PR7820TypeOK => TypeOK
    BY Zenon DEF TypeOK
  <1>7. QED
    BY <1>4, <1>5, <1>6, DexterVIPTypeCorrect, DexterPR8210TypeCorrect, PTL

-----------------------------------------------------------------------------
(* The VP931.  A sequence of sequences, one after the other, has all that  *)
(* any of them has.                                                        *)
LEMMA JoinedHas ==
  ASSUME NEW S, NEW s \in Seq(S), NEW t \in Seq(S)
  PROVE  /\ s \o t \in Seq(S)
         /\ \A x : x \in ToSet(s) \/ x \in ToSet(t) => x \in ToSet(s \o t)
  <1>1. /\ s \o t \in Seq(S) /\ Len(s \o t) = Len(s) + Len(t)
        /\ \A i \in 1..Len(s) : (s \o t)[i] = s[i]
        /\ \A i \in 1..Len(t) : (s \o t)[Len(s) + i] = t[i]
    OBVIOUS
  <1>2. PICK u, k, l : u = s \o t /\ k = Len(s) /\ l = Len(t)
    OBVIOUS
  <1>3. /\ k \in Nat /\ l \in Nat
        /\ DOMAIN s = 1..k /\ DOMAIN t = 1..l /\ DOMAIN u = 1..(k + l)
        /\ \A i \in 1..k : u[i] = s[i]
        /\ \A i \in 1..l : u[k + i] = t[i]
    BY <1>1, <1>2
  <1>4. \A i \in 1..k : i \in 1..(k + l)
    BY <1>3
  <1>5. \A i \in 1..l : k + i \in 1..(k + l)
    BY <1>3
  <1>6. \A x : x \in ToSet(s) \/ x \in ToSet(t) => x \in ToSet(u)
    BY <1>3, <1>4, <1>5, Zenon DEF ToSet
  <1>7. QED
    BY <1>1, <1>2, <1>6, Zenon

LEMMA FlattenedHas ==
  ASSUME NEW S, NEW n \in Nat, NEW seqs, seqs \in Seq(Seq(S)), Len(seqs) = n,
         NEW j \in 1..n, NEW x \in ToSet(seqs[j])
  PROVE  x \in ToSet(FlattenSeq(seqs))
  <1> DEFINE Q == Seq(S)
             Joins(f, k) == \A i \in 1..k : f[i] = IF i = 1 THEN seqs[i] ELSE f[i - 1] \o seqs[i]
             Run(f) == f = [i \in 1..n |-> IF i = 1 THEN seqs[i] ELSE f[i - 1] \o seqs[i]]
             flat == CHOOSE f : Run(f)
             P(k) == \E f \in [1..k -> Q] : Joins(f, k)
             T == {k \in Nat : k <= n => P(k)}
  <1>1. FlattenSeq(seqs) = flat[n]
    BY DEF FlattenSeq
  <1>2. \A i \in 1..n : seqs[i] \in Q
    <2> HIDE DEF Q
    <2>1. seqs \in Seq(Q)
      BY DEF Q
    <2>2. QED
      BY <2>1
  <1>3. \A s \in Q, t \in Q : s \o t \in Q
    OBVIOUS
  <1> HIDE DEF Q
  <1>4. 0 \in T
    <2>1. [i \in 1..0 |-> 0] \in [1..0 -> Q]
      OBVIOUS
    <2>2. Joins([i \in 1..0 |-> 0], 0)
      OBVIOUS
    <2>3. QED
      BY <2>1, <2>2
  <1>5. ASSUME NEW k \in Nat, k \in T, k + 1 <= n PROVE k + 1 \in T
    <2>1. PICK f \in [1..k -> Q] : Joins(f, k)
      <3>1. k <= n
        BY <1>5
      <3>2. P(k)
        <4> HIDE DEF P
        <4>1. QED
          BY <1>5, <3>1
      <3>3. QED
        BY <3>2
    <2> DEFINE g == [i \in 1..(k + 1) |-> IF i \in 1..k THEN f[i]
                                          ELSE IF i = 1 THEN seqs[i] ELSE f[i - 1] \o seqs[i]]
    <2>2. ASSUME NEW i \in 1..(k + 1), i # 1 PROVE i - 1 \in 1..k /\ f[i - 1] \in Q
      BY <2>2
    <2>3. g \in [1..(k + 1) -> Q]
      <3>1. ASSUME NEW i \in 1..(k + 1) PROVE g[i] \in Q
        <4>1. CASE i \in 1..k
          BY <4>1
        <4>2. CASE i \notin 1..k /\ i = 1
          BY <1>2, <1>5, <4>2
        <4>3. CASE i \notin 1..k /\ i # 1
          <5>1. g[i] = f[i - 1] \o seqs[i]
            BY <4>3
          <5>2. seqs[i] \in Q
            BY <1>2, <1>5
          <5>3. QED
            BY <1>3, <2>2, <4>3, <5>1, <5>2
        <4>4. QED
          BY <4>1, <4>2, <4>3
      <3>2. QED
        BY <3>1
    <2>4. Joins(g, k + 1)
      <3> SUFFICES ASSUME NEW i \in 1..(k + 1)
                   PROVE  g[i] = IF i = 1 THEN seqs[i] ELSE g[i - 1] \o seqs[i]
        OBVIOUS
      <3>1. i # 1 => g[i - 1] = f[i - 1]
        BY <2>2
      <3>2. CASE i \in 1..k
        BY <2>1, <3>1, <3>2
      <3>3. CASE i \notin 1..k
        BY <3>1, <3>3
      <3>4. QED
        BY <3>2, <3>3
    <2>5. P(k + 1)
      <3> HIDE DEF g, Joins
      <3>1. QED
        BY <2>3, <2>4
    <2>6. QED
      <3> HIDE DEF P
      <3>1. QED
        BY <2>5
  <1>6. n \in T
    <2>1. \A k \in Nat : k \in T => k + 1 \in T
      <3> SUFFICES ASSUME NEW k \in Nat, k \in T PROVE k + 1 \in T
        OBVIOUS
      <3> HIDE DEF P
      <3>1. CASE k + 1 <= n
        BY <1>5, <3>1
      <3>2. CASE ~(k + 1 <= n)
        BY <3>2
      <3>3. QED
        BY <3>1, <3>2
    <2> HIDE DEF T
    <2>2. QED
      BY <1>4, <2>1, ByInduction, Zenon
  <1>7. PICK f \in [1..n -> Q] : Joins(f, n)
    <2>1. P(n)
      <3> HIDE DEF P
      <3>1. QED
        BY <1>6
    <2>2. QED
      BY <2>1
  <1>8. Run(f)
    BY <1>7
  <1>9. Run(flat)
    BY <1>8
  <1> HIDE DEF flat
  <1>10. \A i \in 1..n : flat[i] = IF i = 1 THEN seqs[i] ELSE flat[i - 1] \o seqs[i]
    BY <1>9
  <1> DEFINE Has(k) == flat[k] \in Q /\ (j <= k => x \in ToSet(flat[k]))
             U == {k \in Nat : k + 1 <= n => Has(k + 1)}
  <1>11. 0 \in U
    <2> SUFFICES ASSUME 0 + 1 <= n PROVE Has(0 + 1)
      OBVIOUS
    <2>1. 1 \in 1..n /\ 0 + 1 = 1 /\ (j <= 1 => j = 1)
      OBVIOUS
    <2>2. flat[1] = seqs[1]
      BY <1>10, <2>1
    <2>3. QED
      BY <1>2, <2>1, <2>2
  <1>12. ASSUME NEW k \in Nat, k \in U, (k + 1) + 1 <= n PROVE k + 1 \in U
    <2>1. PICK m \in Nat : m = k + 1
      OBVIOUS
    <2>2. Has(m) /\ m + 1 \in 1..n /\ m + 1 # 1 /\ (m + 1) - 1 = m
      BY <1>12, <2>1
    <2>3. flat[m + 1] = flat[m] \o seqs[m + 1]
      BY <1>10, <2>2
    <2>4. flat[m] \in Seq(S) /\ seqs[m + 1] \in Seq(S)
      BY <1>2, <2>2 DEF Q
    <2>5. /\ flat[m + 1] \in Seq(S)
          /\ \A y : y \in ToSet(flat[m]) \/ y \in ToSet(seqs[m + 1]) => y \in ToSet(flat[m + 1])
      BY <2>3, <2>4, JoinedHas
    <2>6. j <= m + 1 => j <= m \/ j = m + 1
      BY <2>1
    <2>7. Has(m + 1)
      BY <2>2, <2>5, <2>6, Zenon DEF Q
    <2> HIDE DEF Has
    <2>8. QED
      BY <2>1, <2>7
  <1>13. \A k \in Nat : k \in U
    <2>1. \A k \in Nat : k \in U => k + 1 \in U
      <3> SUFFICES ASSUME NEW k \in Nat, k \in U PROVE k + 1 \in U
        OBVIOUS
      <3> HIDE DEF Has
      <3>1. CASE (k + 1) + 1 <= n
        BY <1>12, <3>1
      <3>2. CASE ~((k + 1) + 1 <= n)
        BY <3>2
      <3>3. QED
        BY <3>1, <3>2
    <2> HIDE DEF U
    <2>2. QED
      BY <1>11, <2>1, ByInduction, Zenon
  <1>14. PICK k \in Nat : n = k + 1
    <2>1. n - 1 \in Nat /\ n = (n - 1) + 1
      OBVIOUS
    <2>2. QED
      BY <2>1
  <1>15. Has(n)
    <2>1. k \in U
      BY <1>13
    <2> HIDE DEF Has
    <2>2. QED
      BY <1>14, <2>1
  <1>16. QED
    BY <1>1, <1>15

(* The digits of the number in a goto of the VP931.                        *)
DigitOf == 0..9
VP931Bytes == 0..255
VP931Numbers == 0..79999
OfDigits(a, b, c, d, e) == 10000 * a + 1000 * b + 100 * c + 10 * d + e

(* The digits of a frame number.                                           *)
LEMMA LastDigit ==
  ASSUME NEW n \in Nat
  PROVE  \E p \in Nat, e \in DigitOf : n = 10 * p + e
  <1>1. n \div 10 \in Nat /\ n % 10 \in DigitOf /\ n = 10 * (n \div 10) + (n % 10)
    BY DEF DigitOf
  <1>2. PICK p, e : p \in Nat /\ e \in DigitOf /\ n = 10 * p + e
    BY <1>1, Zenon
  <1>3. QED
    BY <1>2, Zenon

LEMMA DigitsOf ==
  ASSUME NEW f \in VP931Numbers
  PROVE  \E a \in 0..7, b \in DigitOf, c \in DigitOf, d \in DigitOf, e \in DigitOf :
           f = OfDigits(a, b, c, d, e)
  <1>1. f \in Nat /\ f < 80000
    BY DEF VP931Numbers
  <1>2. PICK p \in Nat, e \in DigitOf : f = 10 * p + e
    BY <1>1, LastDigit
  <1>3. PICK q \in Nat, d \in DigitOf : p = 10 * q + d
    BY LastDigit, <1>2
  <1>4. PICK r \in Nat, c \in DigitOf : q = 10 * r + c
    BY LastDigit, <1>3
  <1>5. PICK a \in Nat, b \in DigitOf : r = 10 * a + b
    BY LastDigit, <1>4
  <1>6. a \in 0..7 /\ f = OfDigits(a, b, c, d, e)
    <2>1. q = 100 * a + 10 * b + c
      BY <1>4, <1>5 DEF DigitOf
    <2>2. p = 1000 * a + 100 * b + 10 * c + d
      BY <1>3, <2>1 DEF DigitOf
    <2>3. f = 10000 * a + 1000 * b + 100 * c + 10 * d + e
      BY <1>2, <2>2 DEF DigitOf
    <2>4. 10000 * a <= f /\ f < 80000
      <3>1. b \in 0..9 /\ c \in 0..9 /\ d \in 0..9 /\ e \in 0..9
        BY <1>2, <1>3, <1>4, <1>5 DEF DigitOf
      <3>2. 10000 * a <= 10000 * a + 1000 * b + 100 * c + 10 * d + e
        BY <3>1
      <3>3. QED
        BY <1>1, <2>3, <3>2
    <2>5. a \in 0..7
      BY <1>1, <2>4
    <2>6. QED
      BY <2>3, <2>5 DEF OfDigits
  <1>7. QED
    BY <1>6

(* Two digits in a byte, and the bytes a host encodes a number as.          *)
LEMMA PackedDigits ==
  ASSUME NEW x \in DigitOf, NEW y \in DigitOf
  PROVE  High(x * 16 + y) = x /\ Low(x * 16 + y) = y
  BY DEF High, Low, DigitOf

LEMMA DigitsTaken ==
  ASSUME NEW a \in 0..7, NEW b \in DigitOf, NEW c \in DigitOf, NEW d \in DigitOf,
         NEW e \in DigitOf, NEW f, f = OfDigits(a, b, c, d, e)
  PROVE  f \div 10000 = a /\ BCD(f) = d * 16 + e /\ BCD(f \div 100) = b * 16 + c
  <1>1. /\ f \div 10000 = a /\ f \div 100 = 100 * a + 10 * b + c
        /\ f \div 10 = 1000 * a + 100 * b + 10 * c + d /\ f % 10 = e
    BY DEF DigitOf, OfDigits
  <1>2. /\ (1000 * a + 100 * b + 10 * c + d) % 10 = d
        /\ (100 * a + 10 * b + c) % 10 = c
        /\ (100 * a + 10 * b + c) \div 10 = 10 * a + b
        /\ (10 * a + b) % 10 = b
    BY DEF DigitOf
  <1>3. BCD(f) = ((f \div 10) % 10) * 16 + (f % 10)
    BY DEF BCD
  <1>4. BCD(f \div 100) = (((f \div 100) \div 10) % 10) * 16 + ((f \div 100) % 10)
    BY DEF BCD
  <1>5. BCD(f) = d * 16 + e
    BY <1>1, <1>2, <1>3
  <1>6. BCD(f \div 100) = b * 16 + c
    BY <1>1, <1>2, <1>4
  <1>7. QED
    BY <1>1, <1>5, <1>6

(* What the interpreter decodes is what the host encoded.                  *)
LEMMA FrameDecoded ==
  ASSUME NEW f \in VP931Numbers, NEW base \in {208, 240}
  PROVE  \A cmd : cmd = <<base + f \div 10000, BCD(f \div 100), BCD(f)>>
           => /\ BCDtoHEX20(cmd) = f /\ cmd[1] # 0
              /\ High(cmd[1]) = IF base = 208 THEN 13 ELSE 15
  <1>1. PICK a \in 0..7, b \in DigitOf, c \in DigitOf, d \in DigitOf, e \in DigitOf :
          f = OfDigits(a, b, c, d, e)
    BY DigitsOf, Zenon
  <1>2. f \div 10000 = a /\ BCD(f) = d * 16 + e /\ BCD(f \div 100) = b * 16 + c
    BY <1>1, DigitsTaken
  <1> SUFFICES ASSUME NEW cmd, cmd = <<base + a, b * 16 + c, d * 16 + e>>
               PROVE  /\ BCDtoHEX20(cmd) = f /\ cmd[1] # 0
                      /\ High(cmd[1]) = IF base = 208 THEN 13 ELSE 15
    BY <1>2
  <1>4. cmd[1] = base + a /\ cmd[2] = b * 16 + c /\ cmd[3] = d * 16 + e
    OBVIOUS
  <1>5. /\ (base + a) % 8 = a /\ base + a # 0
        /\ High(base + a) = IF base = 208 THEN 13 ELSE 15
    <2>1. CASE base = 208
      BY <1>1, <2>1 DEF High
    <2>2. CASE base = 240
      BY <1>1, <2>2 DEF High
    <2>3. QED
      BY <2>1, <2>2
  <1>6. /\ High(b * 16 + c) = b /\ Low(b * 16 + c) = c
        /\ High(d * 16 + e) = d /\ Low(d * 16 + e) = e
    BY <1>1, PackedDigits
  <1>7. BCDtoHEX20(cmd) = a * 10000 + b * 1000 + c * 100 + d * 10 + e
    BY <1>4, <1>5, <1>6 DEF BCDtoHEX20
  <1>8. a * 10000 + b * 1000 + c * 100 + d * 10 + e = f
    BY <1>1 DEF OfDigits, DigitOf
  <1>9. QED
    BY <1>4, <1>5, <1>7, <1>8

(* What a command of three bytes calls.                                    *)
VP931CallsMade ==
  [cb : {"play", "pause", "skip", "begin_search", "skip_to", "error"}, arg : Int]

LEMMA VP931CallsAre ==
  ASSUME NEW n \in Int
  PROVE  /\ Call("play", 0) \in VP931CallsMade /\ Call("pause", 0) \in VP931CallsMade
         /\ Error \in VP931CallsMade /\ Call("skip", n) \in VP931CallsMade
         /\ Call("begin_search", n) \in VP931CallsMade
         /\ Call("skip_to", n) \in VP931CallsMade
  BY DEF VP931CallsMade, Error, Call

(* The bytes of a command, and the numbers made of them.                   *)
LEMMA ThreeOf ==
  ASSUME NEW S, NEW cmd \in Seq(S), Len(cmd) = 3
  PROVE  /\ cmd[1] \in S /\ cmd[2] \in S /\ cmd[3] \in S
         /\ SubSeq(cmd, 2, 3)[1] = cmd[2] /\ SubSeq(cmd, 2, 3)[2] = cmd[3]
  <1>1. 1 \in 1..Len(cmd) /\ 2 \in 1..Len(cmd) /\ 3 \in 1..Len(cmd)
    OBVIOUS
  <1>2. cmd[1] \in S /\ cmd[2] \in S /\ cmd[3] \in S
    BY <1>1, ElementOfSeq
  <1>3. SubSeq(cmd, 2, 3)[1] = cmd[2] /\ SubSeq(cmd, 2, 3)[2] = cmd[3]
    OBVIOUS
  <1>4. QED
    BY <1>2, <1>3

LEMMA BytesDecoded ==
  ASSUME NEW cmd, NEW t, NEW x \in Int, NEW y \in Int, NEW z \in Int,
         cmd[1] = x, cmd[2] = y, cmd[3] = z, t[1] = y, t[2] = z
  PROVE  BCDtoHEX20(cmd) \in Int /\ BCDtoHEX12(t) \in Int
  <1>1. BCDtoHEX20(cmd) \in Int
    BY DEF BCDtoHEX20, High, Low
  <1>2. BCDtoHEX12(t) \in Int
    BY DEF BCDtoHEX12, High, Low
  <1>3. QED
    BY <1>1, <1>2

LEMMA VP931Decodes ==
  ASSUME NEW cmd \in Seq(VP931Bytes), Len(cmd) = 3
  PROVE  BCDtoHEX20(cmd) \in Int /\ BCDtoHEX12(SubSeq(cmd, 2, 3)) \in Int
  <1>1. VP931Bytes \subseteq Int
    BY DEF VP931Bytes
  <1>2. /\ cmd[1] \in VP931Bytes /\ cmd[2] \in VP931Bytes /\ cmd[3] \in VP931Bytes
        /\ SubSeq(cmd, 2, 3)[1] = cmd[2] /\ SubSeq(cmd, 2, 3)[2] = cmd[3]
    BY ThreeOf, Zenon
  <1>3. cmd[1] \in Int /\ cmd[2] \in Int /\ cmd[3] \in Int
    BY <1>1, <1>2, Zenon
  <1>4. QED
    BY <1>2, <1>3, BytesDecoded, Zenon

LEMMA VP931ProcessTyped ==
  ASSUME NEW cmd \in Seq(VP931Bytes), Len(cmd) = 3
  PROVE  VP931Process(cmd) \in Seq(VP931CallsMade)
  <1>1. PICK target \in Int, tracks \in Int :
          target = BCDtoHEX20(cmd) /\ tracks = BCDtoHEX12(SubSeq(cmd, 2, 3))
    BY VP931Decodes
  <1>2. -tracks \in Int
    OBVIOUS
  <1>3. \A S : /\ <<>> \in Seq(S) /\ \A x \in S : <<x>> \in Seq(S)
               /\ \A s \in Seq(S), t \in Seq(S) : s \o t \in Seq(S)
    OBVIOUS
  <1> DEFINE Q == Seq(VP931CallsMade)
  <1>4. /\ <<>> \in Q /\ <<Call("play", 0)>> \in Q /\ <<Call("pause", 0)>> \in Q
        /\ <<Error>> \in Q /\ <<Call("skip", tracks)>> \in Q /\ <<Call("skip", -tracks)>> \in Q
        /\ <<Call("begin_search", target)>> \in Q /\ <<Call("skip_to", target)>> \in Q
        /\ \A s \in Q, t \in Q : s \o t \in Q
    BY <1>1, <1>2, <1>3, VP931CallsAre, Zenon
  <1> HIDE DEF Q
  <1>5. PICK none, play, pause, error, ahead, back, search, skip :
          /\ none = <<>> /\ play = <<Call("play", 0)>> /\ pause = <<Call("pause", 0)>>
          /\ error = <<Error>> /\ ahead = <<Call("skip", tracks)>>
          /\ back = <<Call("skip", -tracks)>> /\ search = <<Call("begin_search", target)>>
          /\ skip = <<Call("skip_to", target)>>
    OBVIOUS
  <1>6. PICK first, kind, code : first = cmd[1] /\ kind = High(cmd[2]) /\ code = High(cmd[1])
    OBVIOUS
  <1>7. VP931Process(cmd) =
          CASE first = 0 /\ kind = 0 -> IF VP931Status \in VP931NotPlaying THEN play ELSE none
            [] first = 0 /\ kind = 2 -> IF VP931Status = "PAUSED" THEN none ELSE pause
            [] first = 0 /\ kind = 14 -> ahead
            [] first = 0 /\ kind = 15 -> back
            [] code = 13 -> search
            [] code = 15 -> (IF VP931Status = "PLAYING" THEN none ELSE play) \o skip
            [] OTHER -> error
    BY <1>1, <1>5, <1>6, Zenon DEF VP931Process
  <1>8. /\ none \in Q /\ play \in Q /\ pause \in Q /\ error \in Q /\ ahead \in Q
        /\ back \in Q /\ search \in Q /\ skip \in Q
        /\ none \o skip \in Q /\ play \o skip \in Q
    BY <1>4, <1>5, Zenon
  <1>9. VP931Process(cmd) \in Q
    <2> DEFINE process == VP931Process(cmd)
    <2>1. CASE first = 0 /\ kind = 0
      BY <1>7, <1>8, <2>1
    <2>2. CASE first = 0 /\ kind = 2
      BY <1>7, <1>8, <2>2
    <2>3. CASE first = 0 /\ kind = 14
      BY <1>7, <1>8, <2>3
    <2>4. CASE first = 0 /\ kind = 15
      BY <1>7, <1>8, <2>4
    <2>5. CASE ~(first = 0 /\ kind \in {0, 2, 14, 15}) /\ code = 13
      BY <1>7, <1>8, <2>5
    <2>6. CASE ~(first = 0 /\ kind \in {0, 2, 14, 15}) /\ code = 15
      BY <1>7, <1>8, <2>6
    <2>7. CASE ~(first = 0 /\ kind \in {0, 2, 14, 15}) /\ code # 13 /\ code # 15
      BY <1>7, <1>8, <2>7
    <2>8. QED
      BY <2>1, <2>2, <2>3, <2>4, <2>5, <2>6, <2>7
  <1>10. QED
    BY <1>9 DEF Q

(* What a goto makes.                                                      *)
LEMMA GotoProcessed ==
  ASSUME NEW cmd, NEW f \in VP931Numbers
  PROVE  /\ cmd = VP931GotoHalt(f) => VP931Process(cmd) = <<Call("begin_search", f)>>
         /\ cmd = VP931GotoPlay(f) =>
              VP931Process(cmd) = (IF VP931Status = "PLAYING" THEN <<>> ELSE <<Call("play", 0)>>)
                                    \o <<Call("skip_to", f)>>
  <1>1. ASSUME cmd = VP931GotoHalt(f)
        PROVE  VP931Process(cmd) = <<Call("begin_search", f)>>
    <2>1. BCDtoHEX20(cmd) = f /\ cmd[1] # 0 /\ High(cmd[1]) = 13
      <3>1. cmd = <<208 + f \div 10000, BCD(f \div 100), BCD(f)>>
        BY <1>1 DEF VP931GotoHalt
      <3>2. 208 \in {208, 240}
        OBVIOUS
      <3>3. QED
        BY <3>1, <3>2, FrameDecoded, SMT
    <2>2. QED
      BY <2>1, SMT DEF VP931Process
  <1>2. ASSUME cmd = VP931GotoPlay(f)
        PROVE  VP931Process(cmd) = (IF VP931Status = "PLAYING" THEN <<>> ELSE <<Call("play", 0)>>)
                                    \o <<Call("skip_to", f)>>
    <2>1. BCDtoHEX20(cmd) = f /\ cmd[1] # 0 /\ High(cmd[1]) = 15
      <3>1. cmd = <<240 + f \div 10000, BCD(f \div 100), BCD(f)>>
        BY <1>2 DEF VP931GotoPlay
      <3>2. 240 \in {208, 240}
        OBVIOUS
      <3>3. QED
        BY <3>1, <3>2, FrameDecoded, SMT
    <2>2. High(cmd[1]) # 13
      BY <2>1
    <2>3. QED
      BY <2>1, <2>2, SMT DEF VP931Process
  <1>3. QED
    BY <1>1, <1>2


(* The commands among the bytes of a vsync.                                *)
LEMMA VP931CommandTyped ==
  ASSUME NEW buffer \in Seq(VP931Bytes)
  PROVE  \A i \in DOMAIN VP931Commands(buffer) :
           /\ VP931Commands(buffer)[i] \in Seq(VP931Bytes)
           /\ Len(VP931Commands(buffer)[i]) = 3
  <1>1. PICK n \in Nat, m \in Nat : n = Len(buffer) /\ m = n \div 3 /\ 3 * m <= n
    <2>1. Len(buffer) \in Nat
      OBVIOUS
    <2>2. \A k \in Nat : k \div 3 \in Nat /\ 3 * (k \div 3) <= k
      OBVIOUS
    <2>3. QED
      BY <2>1, <2>2, Zenon
  <1>2. VP931Commands(buffer) = [i \in 1..m |-> SubSeq(buffer, 3 * i - 2, 3 * i)]
    BY <1>1, Zenon DEF VP931Commands
  <1>3. SUFFICES ASSUME NEW i \in 1..m
                 PROVE  /\ SubSeq(buffer, 3 * i - 2, 3 * i) \in Seq(VP931Bytes)
                        /\ Len(SubSeq(buffer, 3 * i - 2, 3 * i)) = 3
    BY <1>2
  <1>4. PICK l \in 1..n, h \in 1..n : l = 3 * i - 2 /\ h = 3 * i /\ h - l + 1 = 3 /\ l <= h
    BY <1>1
  <1>5. /\ SubSeq(buffer, l, h) \in Seq(VP931Bytes)
        /\ Len(SubSeq(buffer, l, h)) = IF l <= h THEN h - l + 1 ELSE 0
    <2>1. l \in 1..(Len(buffer) + 1) /\ h \in 0..Len(buffer)
      BY <1>1, <1>4
    <2>2. QED
      BY <2>1, SubSeqProperties
  <1>6. QED
    BY <1>4, <1>5

(* The call a goto asks for is among those its command makes.              *)
LEMMA GotoCalls ==
  ASSUME NEW cmd, NEW f \in VP931Numbers
  PROVE  /\ cmd = VP931GotoHalt(f) => Call("begin_search", f) \in ToSet(VP931Process(cmd))
         /\ cmd = VP931GotoPlay(f) => Call("skip_to", f) \in ToSet(VP931Process(cmd))
  <1>1. \A s, x : s = <<x>> => x \in ToSet(s)
    <2> SUFFICES ASSUME NEW x PROVE x \in ToSet(<<x>>)
      OBVIOUS
    <2>1. <<x>>[1] = x /\ 1 \in DOMAIN <<x>>
      OBVIOUS
    <2>2. QED
      BY <2>1, Zenon DEF ToSet
  <1>2. \A x, y : x \in ToSet((IF VP931Status = "PLAYING" THEN <<>> ELSE <<y>>) \o <<x>>)
    <2> SUFFICES ASSUME NEW x, NEW y
                 PROVE  x \in ToSet((IF VP931Status = "PLAYING" THEN <<>> ELSE <<y>>) \o <<x>>)
      OBVIOUS
    <2>1. PICK S : S = {x, y}
      OBVIOUS
    <2>2. x \in S /\ y \in S
      BY <2>1
    <2>3. <<>> \in Seq(S) /\ <<x>> \in Seq(S) /\ <<y>> \in Seq(S)
      BY <2>2
    <2>4. (IF VP931Status = "PLAYING" THEN <<>> ELSE <<y>>) \in Seq(S)
      BY <2>3
    <2>5. QED
      BY <1>1, <2>3, <2>4, JoinedHas
  <1>3. /\ cmd = VP931GotoHalt(f) => VP931Process(cmd) = <<Call("begin_search", f)>>
        /\ cmd = VP931GotoPlay(f) =>
             VP931Process(cmd) = (IF VP931Status = "PLAYING" THEN <<>> ELSE <<Call("play", 0)>>)
                                   \o <<Call("skip_to", f)>>
    BY GotoProcessed
  <1>4. QED
    BY <1>1, <1>2, <1>3, Zenon

(* VP931NumbersArrive of every number a goto can carry.                    *)
EveryNumberArrives ==
  \A f \in VP931Numbers :
    LET commands == ToSet(VP931Commands(vp931_handed))
    IN /\ VP931GotoHalt(f) \in commands => Call("begin_search", f) \in ToSet(calls)
       /\ VP931GotoPlay(f) \in commands => Call("skip_to", f) \in ToSet(calls)

LEMMA VsyncNumbersArrive ==
  ASSUME VP931Assumption, NEW buffer \in VP931Buffers, VP931Vsync(buffer)
  PROVE  EveryNumberArrives'
  <1>1. buffer \in Seq(VP931Bytes)
    BY DEF VP931Assumption, VP931Bytes
  <1> DEFINE commands == VP931Commands(buffer)
             made == [i \in DOMAIN commands |-> VP931Process(commands[i])]
  <1>2. /\ \A i \in DOMAIN commands : VP931Process(commands[i]) \in Seq(VP931CallsMade)
        /\ calls' = FlattenSeq(made) /\ vp931_handed' = buffer
    <2>1. \A i \in DOMAIN commands :
            commands[i] \in Seq(VP931Bytes) /\ Len(commands[i]) = 3
      BY <1>1, VP931CommandTyped
    <2>2. \A i \in DOMAIN commands : VP931Process(commands[i]) \in Seq(VP931CallsMade)
      <3> HIDE DEF commands
      <3>1. QED
        BY <2>1, VP931ProcessTyped
    <2>3. calls' = FlattenSeq(made) /\ vp931_handed' = buffer
      BY Zenon DEF VP931Vsync, Do
    <2>4. QED
      BY <2>2, <2>3, Zenon
  <1>3. PICK n \in Nat : DOMAIN commands = 1..n
    <2>1. Len(buffer) \div 3 \in Nat
      <3>1. Len(buffer) \in Nat
        BY <1>1
      <3>2. QED
        BY <3>1
    <2>2. DOMAIN commands = 1..(Len(buffer) \div 3)
      BY Zenon DEF VP931Commands
    <2>3. QED
      BY <2>1, <2>2, Zenon
  <1> HIDE DEF commands
  <1>4. made \in Seq(Seq(VP931CallsMade)) /\ Len(made) = n
    <2>1. \A T, f : f \in [1..n -> T] => f \in Seq(T) /\ Len(f) = n
      BY <1>3
    <2>2. made \in [1..n -> Seq(VP931CallsMade)]
      BY <1>2, <1>3, Zenon
    <2>3. QED
      BY <2>1, <2>2, Zenon
  <1>5. ASSUME NEW i \in DOMAIN commands, NEW x \in ToSet(VP931Process(commands[i]))
        PROVE  x \in ToSet(calls')
    <2>1. i \in 1..n /\ x \in ToSet(made[i])
      BY <1>3, <1>5, Zenon
    <2>2. x \in ToSet(FlattenSeq(made))
      <3> HIDE DEF made
      <3>1. QED
        BY <1>3, <1>4, <2>1, FlattenedHas, Zenon
    <2>3. QED
      BY <1>2, <2>2, Zenon
  <1>6. ASSUME NEW f \in VP931Numbers
        PROVE  /\ VP931GotoHalt(f) \in ToSet(commands) => Call("begin_search", f) \in ToSet(calls')
               /\ VP931GotoPlay(f) \in ToSet(commands) => Call("skip_to", f) \in ToSet(calls')
    <2>1. \A c \in ToSet(commands) : \E i \in DOMAIN commands : c = commands[i]
      BY Zenon DEF ToSet
    <2>2. QED
      BY <1>5, <2>1, GotoCalls, Zenon
  <1>7. QED
    BY <1>2, <1>6, Zenon DEF EveryNumberArrives, commands

LEMMA NothingHanded ==
  ASSUME vp931_handed = <<>>
  PROVE  EveryNumberArrives
  <1>1. DOMAIN VP931Commands(<<>>) = {}
    <2>1. Len(<<>>) \div 3 = 0 /\ 1..0 = {}
      OBVIOUS
    <2>2. QED
      BY <2>1, Zenon DEF VP931Commands
  <1>2. ToSet(VP931Commands(<<>>)) = {}
    BY <1>1, Zenon DEF ToSet
  <1>3. QED
    BY <1>2, Zenon DEF EveryNumberArrives

(* The player is sent to the frame the host encoded, whatever its number   *)
(* and whatever else the vsync was handed.                                 *)
THEOREM VP931NumbersHeard == VP931Spec => []EveryNumberArrives
  <1>1. VP931Init => EveryNumberArrives
    BY NothingHanded, Zenon DEF VP931Init
  <1>2. EveryNumberArrives /\ [VP931Next]_<<playerVars, vp931_vars>> => EveryNumberArrives'
    <2> SUFFICES ASSUME EveryNumberArrives, [VP931Next]_<<playerVars, vp931_vars>>
                 PROVE  EveryNumberArrives'
      OBVIOUS
    <2>1. \A buffer \in VP931Buffers : VP931Vsync(buffer) => EveryNumberArrives'
      BY VP931Assumption, VsyncNumbersArrive, Zenon
    <2>2. (vp931_handed = <<>>)' => EveryNumberArrives'
      <3>1. ASSUME (vp931_handed = <<>>)' PROVE (EveryNumberArrives)'
        BY <3>1, NothingHanded, PTL
      <3>2. QED
        BY <3>1
    <2>3. CASE \E buffer \in VP931Buffers : VP931Vsync(buffer)
      BY <2>1, <2>3, Zenon
    <2>4. CASE VP931GetStatus \/ VP931Reset \/ VP931PlayerMoves
      BY <2>2, <2>4, Zenon DEF VP931GetStatus, VP931Reset, VP931PlayerMoves
    <2>5. CASE UNCHANGED <<playerVars, vp931_vars>>
      BY <2>5, Zenon DEF playerVars, vp931_vars, EveryNumberArrives
    <2>6. QED
      BY <2>3, <2>4, <2>5, Zenon DEF VP931Next
  <1>3. QED
    BY <1>1, <1>2, PTL DEF VP931Spec

(* The numbers the runs try are among them.                                *)
LEMMA TriedAmongAll == EveryNumberArrives => VP931NumbersArrive
  <1>1. \A f \in VP931Frames : f \in VP931Numbers
    BY DEF VP931Frames, VP931Numbers
  <1>2. QED
    BY <1>1, Zenon DEF EveryNumberArrives, VP931NumbersArrive

(* VP931NumbersArrive, for the VP931 alone and among the others.           *)
THEOREM VP931NumbersAreHeard == VP931Spec => []VP931NumbersArrive
  BY VP931NumbersHeard, TriedAmongAll, PTL

THEOREM DexterVP931NumbersAreHeard == Spec => []VP931NumbersArrive
  <1> DEFINE Idle == plugged # "VP931" /\ VP931Init
  <1>1. Init => plugged = "VP931" \/ Idle
    BY Zenon DEF Init
  <1>2. Idle /\ [Next]_vars => Idle'
    <2> SUFFICES ASSUME Idle, [Next]_vars PROVE Idle'
      OBVIOUS
    <2>1. UNCHANGED plugged
      BY PlugStays
    <2>2. UNCHANGED vp931_vars
      BY UnpluggedStays
    <2>3. QED
      BY <2>1, <2>2 DEF VP931Init, vp931_vars
  <1>3. Idle => VP931NumbersArrive
    BY NothingHanded, TriedAmongAll, Zenon DEF VP931Init
  <1> HIDE DEF Idle
  <1>4. QED
    BY <1>1, <1>2, <1>3, PluggedIsAlone, VP931NumbersAreHeard, PTL DEF Spec
=============================================================================
