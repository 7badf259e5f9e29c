----------------------------- MODULE LD700Host -----------------------------
(***************************************************************************)
(* The LD-700 interpreter together with a host computer and the serial     *)
(* link between them.  The host sends whole frames; the link may corrupt   *)
(* the last two bytes of a frame, and with Noisy any byte of it.  History  *)
(* variables record what was on the wire and how long it was quiet, so     *)
(* that properties can speak of the protocol rather than of the decoder's  *)
(* own variables.                                                          *)
(***************************************************************************)
EXTENDS LD700

CONSTANT Noisy      \* the link may corrupt the prefix of a frame too

ASSUME NoisyAssumption == Noisy \in BOOLEAN

VARIABLES
  heard,      \* the bytes since the last frame ended, at most the last four
  quiet,      \* vblanks since the latest byte that kept the window open
  gap         \* the longest such silence since the last executed command

hostVars == <<vars, heard, quiet, gap>>

AtMost(n, limit) == IF n > limit THEN limit ELSE n

(* The place of the next byte in its frame, counted on the wire.           *)
Place == IF Len(heard) = 4 THEN 1 ELSE Len(heard) + 1

(* What the link delivers in that place.                                   *)
Delivers(b) == \/ Noisy
               \/ Place = 1 /\ b = Prefix
               \/ Place = 2 /\ b = PrefixCheck
               \/ Place \in {3, 4}

WholeFrame(w) == /\ Len(w) = 4
                 /\ w[1] = Prefix /\ w[2] = PrefixCheck
                 /\ w[4] = Complement(w[3])

HostInit == Init /\ heard = <<>> /\ quiet = 0 /\ gap = 0

HostWrite(b) ==
  /\ Delivers(b)
  /\ Write(b)
  /\ heard' = IF Place = 1 THEN <<b>> ELSE Append(heard, b)
  /\ quiet' = IF RejectFrame(b) THEN quiet ELSE 0
  /\ gap' = IF Execute(b) THEN 0 ELSE gap

HostVBlank ==
  /\ VBlank
  /\ quiet' = AtMost(quiet + 1, Window)
  /\ gap' = IF quiet' > gap THEN quiet' ELSE gap
  /\ UNCHANGED heard

(* The host starts a new frame when it resets the player.                  *)
HostReset ==
  /\ Reset
  /\ heard' = <<>> /\ quiet' = 0 /\ gap' = 0

HostNext == \/ \E b \in Bytes : HostWrite(b)
            \/ HostVBlank
            \/ HostReset
            \/ DiscMoves /\ UNCHANGED <<heard, quiet, gap>>

HostSpec == HostInit /\ [][HostNext]_hostVars

(* The implementor calls ld700i_on_vblank on every vertical blank.         *)
FairHostSpec == HostSpec /\ WF_hostVars(HostVBlank)
-----------------------------------------------------------------------------
(* "A new command received (as opposed to a dupe)" is only ever concluded,  *)
(* and the player only ever driven, by the last byte of a frame that       *)
(* arrived whole, and the command acted on is the one in that frame.       *)
CommandsComeInFrames ==
  [][(newCmd' /\ ~newCmd) \/ (\E i \in DOMAIN calls' : calls'[i].cb # "error")
       => WholeFrame(heard') /\ last' = heard'[3]]_hostVars

(* A remote-control key held down repeats its frame; it acts once.  The    *)
(* same acknowledged command acts again only after the wire was silent for *)
(* four vblanks on end at some time since it acted, however bytes and      *)
(* vblanks interleave.                                                     *)
HeldKeyActsOnce ==
  [][(\E b \in Bytes : HostWrite(b) /\ Execute(b))
       /\ last' = last /\ last \notin Unacknowledged \cup {NoCommand}
       => gap = Window]_hostVars

(* Once the host falls silent and the player stays as it is, EXT_ACK'      *)
(* settles: active exactly when the disc searches or spins up.             *)
AckSettles == <>[][VBlank]_vars => <>[](line <=> Busy)
=============================================================================
