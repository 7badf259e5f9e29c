------------------------------ MODULE MCLD700 ------------------------------
(* LD700 on small sets: a digit, the search commands, an escape and a byte *)
(* that is no command, with the complement each of them needs.             *)
EXTENDS LD700, FiniteSets

Commands == {1, CmdFrame, CmdSearch, CmdEscape}
MCBytes == {Prefix, PrefixCheck} \cup Commands \cup {Complement(c) : c \in Commands}
MCStatuses == {"PLAYING", "SEARCHING"}
=============================================================================
