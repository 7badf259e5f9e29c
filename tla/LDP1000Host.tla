---------------------------- MODULE LDP1000Host ----------------------------
(***************************************************************************)
(* The LDP-1000 interpreter and a host computer.  History variables record *)
(* what the result code 01 should mean: who asked for the search that is   *)
(* in progress, whether a result is owed to the host, and how often a      *)
(* repeated segment was asked for and played.                              *)
(***************************************************************************)
EXTENDS LDP1000

CONSTANT Patient    \* the host waits for the result of what it entered

ASSUME PatientAssumption == Patient \in BOOLEAN

VARIABLES
  purpose,    \* what the latest begin_search was for
  owed,       \* a search or a repeat was entered, its result not yet sent
  asked,      \* how often the host asked the segment to be played
  laps        \* how often it was played

ghosts == <<purpose, owed, asked, laps>>
hostVars == <<vars, ghosts>>

(* Bytes that a patient host may send while it waits: inquiries.           *)
Inquiries == {FrameInquiry, StatusInquiry}

HostInit == Init /\ purpose = "none" /\ owed = FALSE /\ asked = 0 /\ laps = 0

HostWrite(b) ==
  /\ Patient /\ owed => b \in Inquiries
  /\ Write(b)
  /\ purpose' = IF b = Enter /\ state = "WAIT_SEARCH" THEN "host" ELSE purpose
  /\ owed' = IF b = Enter /\ state \in {"WAIT_SEARCH", "REPEAT1_WAIT_COUNT"}
               THEN TRUE ELSE owed
  /\ IF b = Enter /\ state = "REPEAT1_WAIT_COUNT"
       THEN /\ asked' = IF frameIdx = 0 THEN 1 ELSE frame
            /\ laps' = 1
       ELSE UNCHANGED <<asked, laps>>

HostVBlank ==
  /\ VBlank
  /\ purpose' = IF calls' # <<>> /\ calls'[1].cb = "begin_search" THEN "loop" ELSE purpose
  /\ owed' = IF replies' = <<Result>> THEN FALSE ELSE owed
  /\ laps' = IF calls' = <<RepeatPlay>> /\ laps <= asked THEN laps + 1 ELSE laps
  /\ UNCHANGED asked

HostReset == Reset /\ purpose' = "none" /\ owed' = FALSE /\ asked' = 0 /\ laps' = 0

HostNext == \/ \E b \in Bytes : HostWrite(b)
            \/ HostVBlank
            \/ HostReset
            \/ PlayerMoves /\ UNCHANGED ghosts

HostSpec == HostInit /\ [][HostNext]_hostVars

(* The implementor calls think_during_vblank in every vertical blank, and  *)
(* the player gets on with what it was told to do.                         *)
FairHostSpec == HostSpec /\ WF_hostVars(HostVBlank)
                         /\ WF_hostVars(PlayerMoves /\ UNCHANGED ghosts)
-----------------------------------------------------------------------------
(* The vblank that sees a search end sends the result code only if this    *)
(* was a regular search and not the one that takes a repeat back to its    *)
(* start.                                                                  *)
ResultMeansRegularSearch ==
  [][VBlank /\ searchActive /\ replies' = <<Result>> => purpose = "host"]_hostVars

(* And the other way round: a search the host asked for is never taken for *)
(* the loop of a repeat, which would swallow its result.                   *)
RegularSearchGetsResult ==
  [][VBlank /\ searchActive /\ ~searchActive' /\ purpose = "host"
       => replies' = <<Result>>]_hostVars

(* The vblank never sends a result that nothing the host entered is        *)
(* waiting for, in particular not two for one search.                      *)
ResultIsOwed == [][VBlank /\ replies' = <<Result>> => owed]_hostVars

(* A repeat that ends has played its segment exactly as often as asked.    *)
RepeatPlaysAsAsked ==
  [][VBlank /\ ~searchActive /\ replies' = <<Result>> => laps = asked]_hostVars

(* While a repeat runs, the direction it plays in leads to its end.  The   *)
(* direction is shared with the variable speed commands.                   *)
DirectionLeadsToEnd == repeatActive => (reversed <=> repEnd < repStart)

(* Every search and every repeat is eventually answered, if the host waits *)
(* for the answer, unless a search of the player fails or the repeat was   *)
(* asked for without end.                                                  *)
EntryIsAnswered ==
  owed /\ ~(repeatActive /\ iterations = 0) ~> (~owed \/ disc = "ERROR")
=============================================================================
