---------------------------- MODULE MCLD700Host ----------------------------
(* The LD-700 and its host: play, which acknowledges, reject and stereo,   *)
(* which may not, and the escape.                                          *)
EXTENDS LD700Host

Commands == {CmdPlay, CmdReject, CmdStereo, CmdEscape}
MCBytes == {Prefix, PrefixCheck} \cup Commands \cup {Complement(c) : c \in Commands}
MCStatuses == {"SEARCHING", "PLAYING", "STOPPED", "TRAY_EJECTED"}

NoisyBytes == {Prefix, PrefixCheck, CmdPlay, Complement(CmdPlay)}
NoisyStatuses == {"PAUSED"}
=============================================================================
