------------------------------- MODULE Player -------------------------------
(***************************************************************************)
(* The laserdisc player and the implementor behind the callbacks of the    *)
(* VP932, VIP9500SG, PR-8210, PR-7820 and VP931 interpreters.  Neither is  *)
(* part of the repository: what a callback does is modelled from how these *)
(* interpreters use it and from the comments on the callbacks in their     *)
(* headers.  Callbacks return at once, and the player goes on by itself.   *)
(***************************************************************************)
EXTENDS Integers, Sequences, SequencesExt

CONSTANTS
  LastFrame,      \* the last frame of the disc
  Faulty          \* a search may fail even if the frame is there

ASSUME PlayerAssumption == LastFrame \in Nat /\ Faulty \in BOOLEAN

VARIABLES
  player,         \* its status, the frame it shows, the frame it searches
  calls,          \* the callbacks the latest step made, in order
  replies,        \* the words the latest step queued for the host
  plugged         \* the interpreter that makes them, chosen once

playerVars == <<player, calls, replies, plugged>>

(* What interpreter i has called and replied in the latest step.           *)
CallsOf(i) == IF plugged = i THEN calls ELSE <<>>
RepliesOf(i) == IF plugged = i THEN replies ELSE <<>>
-----------------------------------------------------------------------------
Call(cb, arg) == [cb |-> cb, arg |-> arg]
Error == Call("error", 0)

PlayerStates ==
  {"STOPPED", "SPINNING_UP", "PLAYING", "PAUSED", "STEPPING", "SEARCHING", "ERROR"}
At(disc, pos) == [disc |-> disc, pos |-> pos, goal |-> 0]
Clamp(f) == IF f < 0 THEN 0 ELSE IF f > LastFrame THEN LastFrame ELSE f
Turning(p) == p.disc \notin {"STOPPED", "SPINNING_UP"}

(* How a callback leaves player p.  A search spins the disc up if need be. *)
Obey(p, c) ==
  CASE c.cb = "play" -> At(IF Turning(p) THEN "PLAYING" ELSE "SPINNING_UP", p.pos)
    [] c.cb = "pause" /\ Turning(p) -> At("PAUSED", p.pos)
    [] c.cb = "step" /\ Turning(p) -> At("STEPPING", Clamp(p.pos + c.arg))
    [] c.cb = "stop" -> At("STOPPED", 0)
    [] c.cb = "begin_search" -> [disc |-> "SEARCHING", pos |-> p.pos, goal |-> c.arg]
    [] c.cb = "skip" -> [p EXCEPT !.pos = Clamp(@ + c.arg)]
    [] c.cb = "skip_to" /\ p.disc = "PLAYING" -> At("PLAYING", Clamp(c.arg))
    [] OTHER -> p

(* A handler that makes the callbacks cs and queues the words ws.          *)
Do(cs, ws) ==
  /\ calls' = cs
  /\ replies' = ws
  /\ player' = FoldLeft(Obey, player, cs)
  /\ UNCHANGED plugged
Nothing == Do(<<>>, <<>>)
-----------------------------------------------------------------------------
PlayerInit == player = At("STOPPED", 0) /\ calls = <<>> /\ replies = <<>>

(* What the player does by itself.                                         *)
Becomes(p) == player' = p /\ calls' = <<>> /\ replies' = <<>> /\ UNCHANGED plugged

Found ==
  /\ player.disc = "SEARCHING" /\ player.goal <= LastFrame
  /\ Becomes(At("PAUSED", player.goal))

Fails ==
  /\ player.disc = "SEARCHING" /\ (Faulty \/ player.goal > LastFrame)
  /\ Becomes(At("ERROR", player.pos))

SpunUp == player.disc = "SPINNING_UP" /\ Becomes(At("PLAYING", player.pos))
Stepped == player.disc = "STEPPING" /\ Becomes(At("PAUSED", player.pos))

Rolls ==
  /\ player.disc = "PLAYING" /\ player.pos < LastFrame
  /\ Becomes(At("PLAYING", player.pos + 1))

PlayerMoves == Found \/ Fails \/ SpunUp \/ Stepped \/ Rolls
=============================================================================
