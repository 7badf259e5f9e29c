------------------------------- MODULE VP932 -------------------------------
(***************************************************************************)
(* The Philips VP932 interpreter (src/src/vp932-interpreter.c).  The host  *)
(* sends lines: characters that are only collected, and a carriage return  *)
(* at which all of them are obeyed at once.  A search is answered by the   *)
(* vertical blank that finds the player paused.                            *)
(***************************************************************************)
EXTENDS Player

CONSTANTS
  VP932Chars,     \* the characters the host may send
  VP932RxSize     \* the size of g_vp932i_rx_buf, 12 in the code

ASSUME VP932Assumption == VP932Chars \subseteq STRING /\ VP932RxSize \in Nat \ {0}

VARIABLES
  vp932_state,                \* "NORMAL" or "SEARCHING"
  vp932_play_after_search,    \* what to do when the search is done
  vp932_last,                 \* u16LastFrameNumberSearched
  vp932_rx_buf,               \* the line so far
  vp932_asked                 \* history: the search the host awaits, or "-"

vp932_vars == <<vp932_state, vp932_play_after_search, vp932_last, vp932_rx_buf,
                vp932_asked>>

VP932Words == 65536           \* frame numbers are 16 bits wide
VP932Nul == "NUL"             \* 0x00
VP932Return == "CR"           \* 0x0D
VP932Digits == <<"0", "1", "2", "3", "4", "5", "6", "7", "8", "9">>

VP932Init ==
  /\ vp932_state = "NORMAL"
  /\ vp932_play_after_search = FALSE
  /\ vp932_last = 0
  /\ vp932_rx_buf = <<>>
  /\ vp932_asked = "-"

(* The receive buffer is not reset.                                        *)
VP932Reset ==
  /\ vp932_state' = "NORMAL"
  /\ vp932_play_after_search' = FALSE
  /\ vp932_last' = 0
  /\ vp932_asked' = "-"
  /\ Nothing
  /\ UNCHANGED vp932_rx_buf
-----------------------------------------------------------------------------
(* vp932i_process_rx_buf.  The characters of a line change s: the number   *)
(* so far, whether F came before it, the globals, and the callbacks made.  *)
VP932Start ==
  [number |-> 0, active |-> FALSE, state |-> vp932_state,
   play |-> vp932_play_after_search, last |-> vp932_last, calls |-> <<>>]

VP932Calls(s, c) == [s EXCEPT !.calls = Append(@, c)]

(* A frame searched before and not left since is not searched again, but   *)
(* the answer is awaited all the same.                                     *)
VP932AlwaysSearch(s) == VP932Calls(s, Call("begin_search", s.number))    \* mutant
VP932SearchNew(s) ==
  IF s.last = s.number THEN s ELSE VP932Calls(s, Call("begin_search", s.number))

VP932KeepsPlaying(s, play) ==                                   \* mutant
  [VP932SearchNew(s) EXCEPT !.last = s.number, !.state = "SEARCHING",
                            !.play = @ \/ play, !.active = FALSE]
VP932Search(s, play) ==
  [VP932SearchNew(s) EXCEPT !.last = s.number, !.state = "SEARCHING",
                            !.play = play, !.active = FALSE]

VP932KeepsLast(s) == VP932Calls(s, Call("play", 0))                  \* mutant
VP932Multispeed(s) == [VP932Calls(s, Call("play", 0)) EXCEPT !.last = 0]

VP932Digit(c) == (CHOOSE i \in 1..10 : VP932Digits[i] = c) - 1
VP932Obey(s, c) ==
  CASE c \in ToSet(VP932Digits) -> [s EXCEPT !.number = (@ * 10 + VP932Digit(c)) % VP932Words]
    [] c \in {"D", "S"} -> s
    [] c = "F" -> [s EXCEPT !.number = 0, !.active = TRUE]
    [] c = "L" -> VP932Calls(s, Call("step", 1))
    [] c = "M" -> VP932Calls(s, Call("step", -1))
    [] c = "N" -> IF s.active THEN VP932Search(s, TRUE) ELSE s
    [] c = "R" -> VP932Search(s, FALSE)
    [] c \in {"U", "V"} -> VP932Multispeed(s)
    [] c = "X" -> [s EXCEPT !.number = 0, !.active = FALSE]
    [] c = "*" -> VP932Calls(s, Call("pause", 0))
    [] OTHER -> VP932Calls(s, Error)

(* The search a line ends up asking for: the last R, or N with an F before *)
(* it that nothing has used up.                                            *)
VP932SearchesIn(line) ==
  {i \in DOMAIN line :
     \/ line[i] = "R"
     \/ /\ line[i] = "N"
        /\ \E j \in 1..i : /\ line[j] = "F"
                           /\ \A k \in j..(i - 1) : line[k] \notin {"N", "R", "X"}}

VP932Process ==
  LET s == FoldLeft(VP932Obey, VP932Start, vp932_rx_buf)
      searches == VP932SearchesIn(vp932_rx_buf)
  IN /\ vp932_state' = s.state
     /\ vp932_play_after_search' = s.play
     /\ vp932_last' = s.last
     /\ vp932_rx_buf' = <<>>
     /\ vp932_asked' = IF searches = {} THEN vp932_asked ELSE vp932_rx_buf[Max(searches)]
     /\ Do(s.calls, <<>>)
-----------------------------------------------------------------------------
(* vp932i_write.                                                           *)
VP932Clear ==
  /\ vp932_rx_buf' = <<>>
  /\ Nothing
  /\ UNCHANGED <<vp932_state, vp932_play_after_search, vp932_last, vp932_asked>>

VP932RoomForOneMore == Len(vp932_rx_buf) <= VP932RxSize          \* mutant
VP932Room == Len(vp932_rx_buf) < VP932RxSize

VP932Collect(c) ==
  /\ \/ VP932Room /\ vp932_rx_buf' = Append(vp932_rx_buf, c) /\ Nothing
     \/ ~VP932Room /\ UNCHANGED vp932_rx_buf /\ Do(<<Error>>, <<>>)
  /\ UNCHANGED <<vp932_state, vp932_play_after_search, vp932_last, vp932_asked>>

VP932Write(c) ==
  \/ c = VP932Nul /\ VP932Clear
  \/ c = VP932Return /\ VP932Process
  \/ c \notin {VP932Nul, VP932Return} /\ VP932Collect(c)
-----------------------------------------------------------------------------
(* vp932i_think_during_vblank.                                             *)
VP932StaysSearching == UNCHANGED vp932_state                     \* mutant
VP932SearchOver == vp932_state' = "NORMAL"

VP932Arrived ==
  /\ vp932_state = "SEARCHING" /\ player.disc = "PAUSED"
  /\ VP932SearchOver
  /\ \/ /\ vp932_play_after_search
        /\ vp932_last' = 0
        /\ Do(<<Call("play", 0)>>, <<"A1">>)
     \/ /\ ~vp932_play_after_search
        /\ Do(<<>>, <<"A0">>)
        /\ UNCHANGED vp932_last
  /\ vp932_asked' = "-"
  /\ UNCHANGED <<vp932_play_after_search, vp932_rx_buf>>

(* While searching, but also for a status the code does not handle yet.    *)
VP932Waits ==
  /\ vp932_state = "NORMAL" \/ player.disc # "PAUSED"
  /\ Nothing
  /\ UNCHANGED vp932_vars

VP932VBlank == VP932Arrived \/ VP932Waits

VP932PlayerMoves == PlayerMoves /\ UNCHANGED vp932_vars

VP932Next ==
  \/ \E c \in VP932Chars \cup {VP932Nul, VP932Return} : VP932Write(c)
  \/ VP932VBlank
  \/ VP932Reset
  \/ VP932PlayerMoves

VP932Spec == plugged = "VP932" /\ PlayerInit /\ VP932Init /\ [][VP932Next]_<<playerVars, vp932_vars>>
-----------------------------------------------------------------------------
VP932Called == CallsOf("VP932")

(* The receive buffer never outgrows its array, and a frame number is 16   *)
(* bits wide.                                                              *)
VP932TypeOK ==
  /\ vp932_state \in {"NORMAL", "SEARCHING"}
  /\ vp932_play_after_search \in BOOLEAN
  /\ vp932_last \in 0..(VP932Words - 1)
  /\ vp932_rx_buf \in Seq(VP932Chars) /\ Len(vp932_rx_buf) <= VP932RxSize
  /\ vp932_asked \in {"-", "N", "R"}

(* The interpreter keeps the promise of an exchange: every answer is to a  *)
(* search the host sent, is sent once, and says what that search was: A1   *)
(* to the N that plays, A0 to the R that does not, whatever lines, clears, *)
(* buffer overflows and resets came between.                               *)
VP932Answers(r) == IF r = "N" THEN {"A1"} ELSE {"A0"}
VP932Exchange == INSTANCE Exchange WITH
  Requests <- {"N", "R"}, Answers <- VP932Answers,
  asked <- {vp932_asked} \ {"-"}, told <- RepliesOf("VP932")
VP932AnswersItsHost == VP932Exchange!ExchangeSpec

(* A search that the host has sent is answered, unless the player's own    *)
(* search fails, or a line moves the player again.  Excluded is vp932_last *)
(* = 0: a play after the search in its own line, and a search for frame 0, *)
(* see the README.                                                         *)
VP932Disturbed == \E i \in DOMAIN VP932Called : VP932Called[i] # Error
VP932SearchEnds ==
  (vp932_asked # "-" /\ vp932_last # 0)
    ~> (\/ vp932_asked = "-" \/ vp932_last = 0
        \/ player.disc = "ERROR" \/ VP932Disturbed)
=============================================================================
