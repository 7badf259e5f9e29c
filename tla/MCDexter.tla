------------------------------ MODULE MCDexter ------------------------------
(* Dexter with small hosts, and a disc of two frames.                      *)
EXTENDS Dexter

(* Lines of three characters: searches, what is mixed with them, and a     *)
(* character that is unknown.                                              *)
Chars == {"1", "D", "F", "N", "R", "L", "U", "X", "?"}
(* Every kind of command; two digits, so that their order shows.           *)
VIPCommands == {VIPPause, 37, VIPStepReverse, VIPSearch, VIPStop, 49, 50, VIPEnterByte,
                VIPSkipForward, VIPSkipBackward, VIPResetByte, VIPPicNum, 113, 75, 255}
Message(cmd) == cmd * 8 + 4
(* Filler (twice), scan (which is unknown), play, search, left audio, 0;   *)
(* corrupted.                                                              *)
Messages == {0, Message(0), Message(2), Message(5), Message(11), Message(14), Message(16), 7}
PR7820Commands == {63, 15, 143, 158, 161, 244, 252, 247, 251, 253, 255, 240}
(* One command or two, with and without bytes of the next.                 *)
Commands == {VP931Play, VP931Halt, VP931Jump(1), VP931Jump(-120), <<0, 64, 0>>}
            \cup {VP931GotoHalt(f) : f \in VP931Frames} \cup {VP931GotoPlay(f) : f \in VP931Frames}
Buffers == {<<>>, <<0>>} \cup Commands \cup {c \o <<240, 0>> : c \in Commands}
           \cup {VP931Halt \o c : c \in Commands} \cup {c \o VP931Play : c \in Commands}
AllInterpreters == {"VP932", "VIP9500SG", "PR8210", "PR7820", "VP931"}

(* For liveness: what starts a search or a move, and what disturbs it.     *)
LiveChars == {"1", "F", "N", "R", "L", "U"}
LiveVIPCommands == {VIPPause, 37, VIPStepReverse, VIPSearch, VIPStop, 49, VIPEnterByte,
                    VIPSkipForward, VIPResetByte, VIPPicNum}
LiveMessages == {0, Message(5), Message(11), Message(17)}
(* All that answer or signal in the vertical blank.                        *)
LiveInterpreters == AllInterpreters \ {"PR7820"}
=============================================================================
