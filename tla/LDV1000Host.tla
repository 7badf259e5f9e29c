---------------------------- MODULE LDV1000Host ----------------------------
(***************************************************************************)
(* The LD-V1000 interpreter and a host computer.  A patient host sends     *)
(* nothing but NO ENTRY while the player is busy, and the id of a disc it  *)
(* has when one is due.  A host may also read each reply before it asks    *)
(* for another.                                                            *)
(***************************************************************************)
EXTENDS LDV1000

CONSTANTS
  Patient,        \* the host waits for what it began
  ReadsReplies    \* the host reads a reply before it asks for another

ASSUME HostAssumption == Patient \in BOOLEAN /\ ReadsReplies \in BOOLEAN

VARIABLES
  busyReads,  \* how often the host read that its search goes on
  entered     \* NO ENTRY was written since the last command was obeyed

ghosts == <<busyReads, entered>>
hostVars == <<vars, ghosts>>

Queries == {FrameQuery, Hello, ListDiscs, WhichDisc}
Sends(b) ==
  /\ Patient /\ (searchPending \/ switchPending) => b = NoEntry
  /\ Patient /\ expectsId /\ ready => b \in Discs
  /\ ReadsReplies /\ b \in Queries => waiting = 0

HostInit == Init /\ busyReads = 0 /\ entered = TRUE

HostWrite(b) ==
  /\ Sends(b)
  /\ Write(b)
  /\ busyReads' = IF calls' # <<>> /\ calls'[1].cb = "begin_search" THEN 0 ELSE busyReads
  /\ entered' = IF Accepting /\ (expectsId \/ b # NoEntry) THEN FALSE
                ELSE entered \/ b = NoEntry

HostRead ==
  /\ Read
  /\ busyReads' = IF result' = Searched /\ searchPending /\ busyReads < 4
                    THEN busyReads + 1 ELSE busyReads
  /\ UNCHANGED entered

HostNext == \/ \E b \in Bytes : HostWrite(b)
            \/ HostRead
            \/ Reset /\ busyReads' = 0 /\ entered' = TRUE
            \/ PlayerMoves /\ UNCHANGED ghosts

HostSpec == HostInit /\ [][HostNext]_hostVars

(* The host reads in every field, and the player gets on with what it was  *)
(* told to do.                                                             *)
FairHostSpec == HostSpec /\ WF_hostVars(HostRead)
                         /\ WF_hostVars(PlayerMoves /\ UNCHANGED ghosts)
-----------------------------------------------------------------------------
(* A search is busy for at least four reads, whatever else is read or      *)
(* written in between and however fast the disc is.                        *)
SearchLastsFourReads ==
  [][HostRead /\ searchPending /\ ~searchPending' => busyReads >= 4]_hostVars

(* A command makes the player busy: a second one is obeyed only after the  *)
(* host wrote NO ENTRY, or after a failure, which sets the ready bit.      *)
OneCommandPerNoEntry ==
  [][(\E b \in Bytes \ {NoEntry} : HostWrite(b) /\ Accepting)
     => entered \/ code = Failed]_hostVars

(* The sound the player was told to make is what the host enabled, except  *)
(* while FORWARD 1X mutes it.                                              *)
SoundIsAsSet == ~tempMute => sound = audio

(* The assertions of the reply queue hold.                                 *)
QueueAssertions == ~aborted

(* A host that reads that a search or a disc change failed is told so by   *)
(* the byte it reads.                                                      *)
FailureIsReported ==
  [][HostRead /\ code # Failed /\ code' = Failed => result' = Failed + 128]_hostVars

(* A search and a disc change end, well or not, and with them the busy     *)
(* status: neither stays on the pending list.                              *)
PendingEnds == /\ searchPending ~> ~searchPending
               /\ switchPending ~> ~switchPending

(* A disc that plays up to an auto-stop frame it can reach is stopped.     *)
AutoStopStops == (code = Stopping /\ autostop <= LastFrame) ~> code # Stopping
=============================================================================
