------------------------------ MODULE VIP9500SG ------------------------------
(***************************************************************************)
(* The Hitachi VIP-9500SG interpreter (src/src/vip9500sg-interpreter.c).   *)
(* A command that takes time is answered by the first vertical blank that  *)
(* finds the player where the command should lead; the answer is made from *)
(* the last command byte.  Beside it there may be a picture number query,  *)
(* which waits for a field with a picture number in it.                    *)
(***************************************************************************)
EXTENDS Player

CONSTANTS
  VIPBytes,       \* the bytes the host may send
  VIPNumSize,     \* the size of g_vip9500sgi_num_buf, 5 in the code
  VIPKeyedLimit   \* bound: how many digits the host keys in a row

ASSUME VIPAssumption ==
  VIPBytes \subseteq 0..255 /\ VIPNumSize \in Nat \ {0} /\ VIPKeyedLimit \in Nat

VARIABLES
  vip_state,              \* what ENTER or the vertical blank is to do
  vip_waitingForPicNum,   \* there is a picture number query
  vip_num_buf,            \* the cells of the ring of digits,
  vip_start, vip_count,   \* its oldest digit, and how many there are
  vip_u8LastCmdByte,      \* the byte the answer is made from
  vip_field,              \* the next field has a picture number in line 18
  vip_acks,               \* the words the latest write queued at once
  vip_request,            \* history: the command the vertical blank answers
  vip_keyed               \* history: the digits keyed since the last clear

vip_number == <<vip_num_buf, vip_start, vip_count, vip_keyed>>
vip_exchange == <<vip_waitingForPicNum, vip_u8LastCmdByte, vip_request>>
vip_vars == <<vip_state, vip_number, vip_exchange, vip_field, vip_acks>>
-----------------------------------------------------------------------------
VIPPause == 36                  \* 0x24
VIPPlay == {37, 83}             \* 0x25 0x53
VIPStepReverse == 41            \* 0x29
VIPSearch == 43                 \* 0x2B
VIPStop == 47                   \* 0x2F
VIPDigits == 48..57             \* 0x30..0x39
VIPEnterByte == 65              \* 0x41
VIPSkipForward == 70            \* 0x46
VIPSkipBackward == 71           \* 0x47
VIPResetByte == 104             \* 0x68
VIPPicNum == 107                \* 0x6B
VIPStubs == {76, 77, 110, 113, 117}         \* 0x4C 0x4D 0x6E 0x71 0x75
VIPUnsupported == {58, 72, 73, 74, 75}      \* 0x3A 0x48..0x4B
VIPKnown == VIPPlay \cup VIPDigits \cup VIPStubs \cup VIPUnsupported \cup
            {VIPPause, VIPStepReverse, VIPSearch, VIPStop, VIPEnterByte,
             VIPSkipForward, VIPSkipBackward, VIPResetByte, VIPPicNum}

VIPWaits == {"SEARCHING", "WAITING_FOR_PLAYING", "WAITING_FOR_PLAYING_OR_PAUSED"}
VIPFailed == <<29>>             \* 0x1D
VIPFound == <<176>>             \* 0xB0
VIPSuccess(b) == <<IF b < 128 THEN b + 128 ELSE b>>     \* b | 0x80
VIPPicture(f) == <<VIPPicNum, (f \div 256) % 256, f % 256>>

(* Only commands are remembered for the answer.                            *)
VIPNotADigit(b) == b # VIPEnterByte /\ b \notin 48..63           \* mutant
VIPIsCommand(b) == b \notin {VIPEnterByte, VIPPicNum} /\ b \notin 48..63
VIPRemember(b) ==
  vip_u8LastCmdByte' = IF VIPIsCommand(b) THEN b ELSE vip_u8LastCmdByte
-----------------------------------------------------------------------------
(* The ring of digits: a digit too many takes the place of the oldest.     *)
VIPWrap(i) == i % VIPNumSize

VIPRingOverflows ==                                             \* mutant
  /\ vip_count' = IF vip_count < VIPNumSize THEN vip_count + 1 ELSE vip_count
  /\ UNCHANGED vip_start
VIPRingTurns ==
  \/ /\ vip_count < VIPNumSize
     /\ vip_count' = vip_count + 1 /\ UNCHANGED vip_start
  \/ /\ vip_count = VIPNumSize
     /\ vip_start' = VIPWrap(vip_start + 1) /\ UNCHANGED vip_count

VIPAddDigit(d) ==
  /\ vip_num_buf' = [vip_num_buf EXCEPT ![VIPWrap(vip_start + vip_count)] = d]
  /\ VIPRingTurns
  /\ vip_keyed' = Append(vip_keyed, d)

(* VIP9500SGI_RESET_FRAME.                                                 *)
VIPResetFrame ==
  /\ vip_start' = 0 /\ vip_count' = 0 /\ vip_keyed' = <<>>
  /\ UNCHANGED vip_num_buf

(* vip9500sgi_process_number empties the ring into a number.               *)
VIPValue(digits) == FoldLeft(LAMBDA n, d : 10 * n + d, 0, digits)
VIPFrame == VIPValue([i \in 1..vip_count |-> vip_num_buf[VIPWrap(vip_start + i - 1)]])
VIPProcessNumber ==
  /\ vip_start' = VIPWrap(vip_start + vip_count) /\ vip_count' = 0 /\ vip_keyed' = <<>>
  /\ UNCHANGED vip_num_buf
-----------------------------------------------------------------------------
VIPInit ==
  /\ vip_state = "NORMAL"
  /\ vip_waitingForPicNum = FALSE
  /\ vip_num_buf = [i \in 0..(VIPNumSize - 1) |-> 0]
  /\ vip_start = 0 /\ vip_count = 0
  /\ vip_u8LastCmdByte = 0
  /\ vip_field = FALSE
  /\ vip_acks = <<>>
  /\ vip_request = 0 /\ vip_keyed = <<>>

(* vip9500sgi_reset, by the implementor or, with an answer, by the host:   *)
(* the query and the last command byte are not reset.                      *)
VIPResetGlobals == vip_state' = "NORMAL" /\ VIPResetFrame /\ vip_request' = 0
VIPReset ==
  /\ VIPResetGlobals /\ Nothing /\ vip_acks' = <<>>
  /\ UNCHANGED <<vip_waitingForPicNum, vip_u8LastCmdByte, vip_field>>
-----------------------------------------------------------------------------
(* vip9500sgi_write, one action per group of commands.  VIPBy(b, c, acks): *)
(* the callback c is made and acks are queued because of b.                *)
VIPBy(b, cs, acks) ==
  /\ Do(cs, <<>>) /\ vip_acks' = acks
  /\ VIPRemember(b)
  /\ UNCHANGED vip_field

(* A command that makes the vertical blank wait.                           *)
VIPBegin(b) ==
  /\ \/ b = VIPPause /\ VIPBy(b, <<Call("pause", 0)>>, <<>>)
     \/ b \in VIPPlay /\ VIPBy(b, <<Call("play", 0)>>, <<>>)
     \/ b = VIPStepReverse /\ VIPBy(b, <<Call("step", -1)>>, <<>>)
  /\ vip_state' = IF b \in VIPPlay THEN "WAITING_FOR_PLAYING"
                  ELSE "WAITING_FOR_PLAYING_OR_PAUSED"
  /\ vip_request' = b
  /\ UNCHANGED <<vip_number, vip_waitingForPicNum>>

VIPPrepare(b) ==
  /\ \/ b = VIPSearch /\ vip_state' = "WAIT_SEARCH"
     \/ b = VIPSkipForward /\ vip_state' = "WAIT_SKIP_FORWARD"
     \/ b = VIPSkipBackward /\ vip_state' = "WAIT_SKIP_BACKWARD"
  /\ VIPResetFrame
  /\ VIPBy(b, <<>>, <<>>)
  /\ UNCHANGED <<vip_request, vip_waitingForPicNum>>

VIPDigit(b) ==
  /\ b \in VIPDigits /\ Len(vip_keyed) < VIPKeyedLimit
  /\ VIPAddDigit(b - 48)
  /\ VIPBy(b, <<>>, <<>>)
  /\ UNCHANGED <<vip_state, vip_request, vip_waitingForPicNum>>

(* A skip goes one track further forward than the number says.             *)
VIPEnter(b) ==
  /\ b = VIPEnterByte
  /\ \/ /\ vip_state = "WAIT_SEARCH"
        /\ VIPBy(b, <<Call("begin_search", VIPFrame)>>, <<<<VIPEnterByte>>>>)
        /\ vip_state' = "SEARCHING" /\ vip_request' = VIPSearch
     \/ /\ vip_state = "WAIT_SKIP_FORWARD"
        /\ VIPBy(b, <<Call("skip", VIPFrame + 1)>>, <<<<VIPEnterByte>>>>)
        /\ vip_state' = "WAITING_FOR_PLAYING_OR_PAUSED" /\ vip_request' = VIPSkipForward
     \/ /\ vip_state = "WAIT_SKIP_BACKWARD"
        /\ VIPBy(b, <<Call("skip", 1 - VIPFrame)>>, <<<<VIPEnterByte>>>>)
        /\ vip_state' = "WAITING_FOR_PLAYING_OR_PAUSED" /\ vip_request' = VIPSkipBackward
     \/ /\ vip_state \in VIPWaits \cup {"NORMAL"}
        /\ VIPBy(b, <<Error>>, <<>>)
        /\ UNCHANGED <<vip_state, vip_request>>
  /\ VIPProcessNumber
  /\ UNCHANGED vip_waitingForPicNum

VIPResetCommand(b) ==
  /\ b = VIPResetByte
  /\ VIPResetGlobals
  /\ VIPBy(b, <<>>, <<VIPSuccess(b)>>)
  /\ UNCHANGED vip_waitingForPicNum

VIPQuery(b) ==
  /\ b = VIPPicNum
  /\ vip_waitingForPicNum' = TRUE
  /\ VIPBy(b, <<>>, <<>>)
  /\ UNCHANGED <<vip_state, vip_number, vip_request>>

VIPAtOnce(b) ==
  /\ \/ b = VIPStop /\ VIPBy(b, <<Call("stop", 0)>>, <<VIPSuccess(b)>>)
     \/ b \in VIPStubs /\ VIPBy(b, <<>>, <<VIPSuccess(b)>>)
     \/ b \in VIPUnsupported /\ VIPBy(b, <<Error>>, <<VIPSuccess(b)>>)
     \/ b \notin VIPKnown /\ VIPBy(b, <<Error>>, <<>>)
  /\ UNCHANGED <<vip_state, vip_number, vip_request, vip_waitingForPicNum>>

VIPWrite(b) ==
  \/ VIPBegin(b) \/ VIPPrepare(b) \/ VIPDigit(b) \/ VIPEnter(b)
  \/ VIPResetCommand(b) \/ VIPQuery(b) \/ VIPAtOnce(b)
-----------------------------------------------------------------------------
(* vip9500sgi_think_after_vblank.  What a state waits for, and until when. *)
VIPGoal(state) ==
  CASE state = "SEARCHING" -> {"PAUSED"}
    [] state = "WAITING_FOR_PLAYING" -> {"PLAYING"}
    [] state = "WAITING_FOR_PLAYING_OR_PAUSED" -> {"PLAYING", "PAUSED"}
VIPOnTheWay(state) ==
  CASE state = "SEARCHING" -> {"SEARCHING"}
    [] state = "WAITING_FOR_PLAYING" -> {"SPINNING_UP"}
    [] state = "WAITING_FOR_PLAYING_OR_PAUSED" -> {"STEPPING"}

(* The word and the error callback for the command that was waited for.    *)
VIPAnswer ==
  IF vip_state \notin VIPWaits THEN <<>>
  ELSE IF player.disc \in VIPGoal(vip_state)
    THEN IF vip_state = "SEARCHING" THEN <<VIPFound>> ELSE <<VIPSuccess(vip_u8LastCmdByte)>>
  ELSE IF vip_state = "SEARCHING" /\ player.disc \notin VIPOnTheWay(vip_state)
    THEN <<VIPFailed>> ELSE <<>>
VIPHalfUnhandled ==                                             \* mutant
  vip_state = "WAITING_FOR_PLAYING" /\ player.disc \notin {"PLAYING", "SPINNING_UP"}
VIPUnhandled ==
  /\ vip_state \in VIPWaits \ {"SEARCHING"}
  /\ player.disc \notin VIPGoal(vip_state) \cup VIPOnTheWay(vip_state)
VIPOver == vip_state \in VIPWaits /\ player.disc \notin VIPOnTheWay(vip_state)

(* vip9500sgi_think_picnum_query.                                          *)
VIPShowsPicture == player.disc \in {"PAUSED", "PLAYING"}
VIPLooksForPicture ==
  vip_waitingForPicNum /\ vip_state \notin {"SEARCHING", "WAITING_FOR_PLAYING_OR_PAUSED"}
VIPPictureAnswer ==
  IF ~VIPLooksForPicture THEN <<>>
  ELSE IF ~VIPShowsPicture THEN <<VIPFailed>>
  ELSE IF vip_field THEN <<VIPPicture(player.pos)>> ELSE <<>>

VIPQueryStays == UNCHANGED vip_waitingForPicNum                  \* mutant
VIPQueryServed ==
  vip_waitingForPicNum' = (vip_waitingForPicNum /\ VIPPictureAnswer = <<>>)

VIPThink ==
  /\ vip_state' = IF VIPOver THEN "NORMAL" ELSE vip_state
  /\ VIPQueryServed
  /\ Do(IF VIPUnhandled THEN <<Error>> ELSE <<>>, VIPAnswer \o VIPPictureAnswer)
  /\ vip_field' = ~vip_field
  /\ vip_acks' = <<>>
  /\ vip_request' = IF VIPOver THEN 0 ELSE vip_request
  /\ UNCHANGED <<vip_number, vip_u8LastCmdByte>>
-----------------------------------------------------------------------------
(* A patient host sends nothing but digits and queries while a command is  *)
(* not yet answered, and no command that is answered at once between a     *)
(* skip and its ENTER.  (See the README for what others are answered.)     *)
VIPSends(b) ==
  /\ vip_state \in VIPWaits => b \in VIPDigits \cup {VIPPicNum}
  /\ vip_state \in {"WAIT_SKIP_FORWARD", "WAIT_SKIP_BACKWARD"} =>
       b \notin {VIPStop} \cup VIPStubs \cup VIPUnsupported /\ b \in VIPKnown

VIPPlayerMoves ==
  /\ PlayerMoves /\ vip_acks' = <<>>
  /\ UNCHANGED <<vip_state, vip_number, vip_exchange, vip_field>>

VIPNext ==
  \/ \E b \in VIPBytes : VIPSends(b) /\ VIPWrite(b)
  \/ VIPThink
  \/ VIPReset
  \/ VIPPlayerMoves

VIPSpec == plugged = "VIP9500SG" /\ PlayerInit /\ VIPInit /\ [][VIPNext]_<<playerVars, vip_vars>>
-----------------------------------------------------------------------------
VIPCalled == CallsOf("VIP9500SG")

(* The ring's indexes stay within it.                                      *)
VIPTypeOK ==
  /\ vip_state \in VIPWaits \cup {"NORMAL", "WAIT_SEARCH", "WAIT_SKIP_FORWARD",
                                  "WAIT_SKIP_BACKWARD"}
  /\ vip_num_buf \in [0..(VIPNumSize - 1) -> 0..9]
  /\ vip_start \in 0..(VIPNumSize - 1) /\ vip_count \in 0..VIPNumSize
  /\ vip_waitingForPicNum \in BOOLEAN /\ vip_field \in BOOLEAN
  /\ vip_u8LastCmdByte \in 0..255 /\ vip_request \in 0..255
  /\ vip_acks \in Seq(Seq(0..255)) /\ vip_keyed \in Seq(0..9)

(* The interpreter keeps the promise of an exchange with two requests at a *)
(* time, a command and a picture number query: each is answered once, by   *)
(* a success byte of that command, the result of the search or the picture *)
(* number, though queries, digits and resets come in between and both may  *)
(* be answered in one vertical blank.                                      *)
VIPAnswers(r) ==
  CASE r = VIPSearch -> {VIPFound, VIPFailed}
    [] r = VIPPicNum -> {VIPPicture(f) : f \in 0..LastFrame} \cup {VIPFailed}
    [] OTHER -> {VIPSuccess(r)}
VIPRequests == VIPPlay \cup {VIPPause, VIPStepReverse, VIPSearch, VIPSkipForward,
                             VIPSkipBackward, VIPPicNum}
VIPAsked == {r \in {vip_request} : vip_state \in VIPWaits}
            \cup {r \in {VIPPicNum} : vip_waitingForPicNum}
VIPExchange == INSTANCE Exchange WITH
  Requests <- VIPRequests, Answers <- VIPAnswers,
  asked <- VIPAsked, told <- RepliesOf("VIP9500SG")
VIPAnswersItsHost == VIPExchange!ExchangeSpec

(* A request that a vertical blank drops without an answer is reported to  *)
(* the implementor.                                                        *)
VIPDropsAreReported ==
  [][vip_field' # vip_field /\ Len(replies') < Cardinality(VIPAsked \ VIPAsked')
     => VIPCalled' = <<Error>>]_<<playerVars, vip_vars>>

(* A search or a skip goes where the last digits keyed since it was begun  *)
(* say, however many were keyed.                                           *)
VIPLastDigits == SubSeq(vip_keyed, Max({1, Len(vip_keyed) - VIPNumSize + 1}), Len(vip_keyed))
VIPEntersLastDigits ==
  [][\A c \in ToSet(VIPCalled') :
       /\ c.cb = "begin_search" => c.arg = VIPValue(VIPLastDigits)
       /\ c.cb = "skip" => c.arg \in {1 + VIPValue(VIPLastDigits), 1 - VIPValue(VIPLastDigits)}
    ]_<<playerVars, vip_vars>>

(* Every command that waits comes to an end, with an answer or a report;   *)
(* so does every query, unless the host goes on beginning commands that    *)
(* keep it from being looked at.                                           *)
VIPRequestsEnd ==
  /\ vip_state \in VIPWaits ~> vip_state \notin VIPWaits
  /\ <>[](vip_state \notin VIPWaits) => (vip_waitingForPicNum ~> ~vip_waitingForPicNum)
=============================================================================
