-------------------------------- MODULE VP931 --------------------------------
(***************************************************************************)
(* The Philips VP931 interpreter (src/src/vp931-interpreter.c).  It keeps  *)
(* no state: in every vsync it is handed the bytes the host has sent since *)
(* the one before, three to a command, with frame and track numbers in     *)
(* binary coded decimal, and obeys all whole commands among them against   *)
(* the status the player had before the first.                             *)
(***************************************************************************)
EXTENDS Player

CONSTANT VP931Buffers       \* the byte sequences a vsync may hand over

ASSUME VP931Assumption == VP931Buffers \subseteq Seq(0..255)

VARIABLE vp931_handed       \* history: the bytes the latest step handed over
vp931_vars == <<vp931_handed>>
-----------------------------------------------------------------------------
High(b) == b \div 16
Low(b) == b % 16

(* BCDtoHEX12, BCDtoHEX20.  The first byte of a frame number has one digit *)
(* of three bits, beside the command.                                      *)
BCDtoHEX12(bcd) == Low(bcd[1]) * 100 + High(bcd[2]) * 10 + Low(bcd[2])
BCDtoHEX16(bcd) ==                                               \* mutant
  High(bcd[2]) * 1000 + Low(bcd[2]) * 100 + High(bcd[3]) * 10 + Low(bcd[3])
BCDtoHEX20(bcd) ==
  (bcd[1] % 8) * 10000
    + High(bcd[2]) * 1000 + Low(bcd[2]) * 100 + High(bcd[3]) * 10 + Low(bcd[3])

(* The statuses the interpreter knows.                                     *)
VP931Status ==
  IF player.disc \in {"SEARCHING", "PLAYING", "PAUSED", "SPINNING_UP"} THEN player.disc
  ELSE "ERROR"

VP931PlaysFrom == {"PAUSED"}                                     \* mutant
VP931NotPlaying == {"PAUSED", "ERROR"}

(* vp931i_process_cmd: the callbacks command cmd leads to.                 *)
VP931Process(cmd) ==
  LET kind == High(cmd[2])
      target == BCDtoHEX20(cmd)
      tracks == BCDtoHEX12(SubSeq(cmd, 2, 3))
      playing == VP931Status = "PLAYING"
  IN CASE cmd[1] = 0 /\ kind = 0 ->
            IF VP931Status \in VP931NotPlaying THEN <<Call("play", 0)>> ELSE <<>>
       [] cmd[1] = 0 /\ kind = 2 ->
            IF VP931Status = "PAUSED" THEN <<>> ELSE <<Call("pause", 0)>>
       [] cmd[1] = 0 /\ kind = 14 -> <<Call("skip", tracks)>>
       [] cmd[1] = 0 /\ kind = 15 -> <<Call("skip", -tracks)>>
       [] High(cmd[1]) = 13 -> <<Call("begin_search", target)>>
       [] High(cmd[1]) = 15 ->
            (IF playing THEN <<>> ELSE <<Call("play", 0)>>) \o <<Call("skip_to", target)>>
       [] OTHER -> <<Error>>

(* vp931i_on_vsync.  A command not yet whole is dropped.                   *)
VP931Commands(buffer) ==
  [i \in 1..(Len(buffer) \div 3) |-> SubSeq(buffer, 3 * i - 2, 3 * i)]

VP931Vsync(buffer) ==
  /\ LET commands == VP931Commands(buffer)
     IN Do(FlattenSeq([i \in DOMAIN commands |-> VP931Process(commands[i])]), <<>>)
  /\ vp931_handed' = buffer

(* vp931i_get_status_bytes: line 18 of the picture shown, and a code.  The *)
(* picture number is in it, as a word of 24 bits beginning with F.         *)
VP931Line18 == 16252928 + player.pos        \* 0xF80000
VP931StatusBytes ==
  LET line == <<VP931Line18 \div 65536, (VP931Line18 \div 256) % 256, VP931Line18 % 256>>
  IN CASE VP931Status = "SPINNING_UP" -> <<136, 255, 255, 2, 0, 0>>
       [] VP931Status = "SEARCHING" -> <<0, 0, 0, 8, 0, 0>>
       [] VP931Status = "PAUSED" -> line \o <<5, 0, 0>>
       [] VP931Status = "PLAYING" -> line \o <<4, 0, 0>>
       [] VP931Status = "ERROR" -> line \o <<0, 0, 0>>
VP931GetStatus == Do(<<>>, <<VP931StatusBytes>>) /\ vp931_handed' = <<>>

VP931Reset == Nothing /\ vp931_handed' = <<>>

VP931Init == vp931_handed = <<>>
VP931PlayerMoves == PlayerMoves /\ vp931_handed' = <<>>

VP931Next ==
  \/ \E buffer \in VP931Buffers : VP931Vsync(buffer)
  \/ VP931GetStatus
  \/ VP931Reset
  \/ VP931PlayerMoves

VP931Spec == plugged = "VP931" /\ PlayerInit /\ VP931Init /\ [][VP931Next]_<<playerVars, vp931_vars>>
-----------------------------------------------------------------------------
(* What a host sends: commands as it would encode them.                    *)
BCD(n) == ((n \div 10) % 10) * 16 + (n % 10)
VP931Play == <<0, 0, 0>>
VP931Halt == <<0, 32, 0>>
VP931Jump(n) == <<0, (IF n < 0 THEN 240 ELSE 224) + (IF n < 0 THEN -n ELSE n) \div 100,
                  BCD(IF n < 0 THEN -n ELSE n)>>
VP931GotoHalt(f) == <<208 + f \div 10000, BCD(f \div 100), BCD(f)>>
VP931GotoPlay(f) == <<240 + f \div 10000, BCD(f \div 100), BCD(f)>>

(* The player is sent to the frame the host encoded, and across as many    *)
(* tracks, wherever in the bytes of a vsync the command stands.            *)
VP931Frames == {1, 305, 9876, 54000}
VP931NumbersArrive ==
  \A f \in VP931Frames :
    LET commands == ToSet(VP931Commands(vp931_handed))
    IN /\ VP931GotoHalt(f) \in commands => Call("begin_search", f) \in ToSet(calls)
       /\ VP931GotoPlay(f) \in commands => Call("skip_to", f) \in ToSet(calls)

(* A host that does nothing but repeat the play command, as Firefox does,  *)
(* gets the disc to play, whatever state it was in and although play is    *)
(* sent on only in some of them.                                           *)
VP931PlayTakesHold ==
  <>[](vp931_handed \in {<<>>, VP931Play}) /\ []<>(vp931_handed = VP931Play)
    => <>[](player.disc = "PLAYING")
=============================================================================
