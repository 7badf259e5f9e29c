---------------------------- MODULE LDP1000UIC ----------------------------
(***************************************************************************)
(* The user index (text overlay) of the LDP-1450 in                        *)
(* src/src/ldp1000-interpreter.c: 0x80 opens an input mode in which bytes  *)
(* are a function code and its arguments rather than commands, 0x81 and    *)
(* 0x82 show and hide the overlay.  The implementor learns of changes by   *)
(* callbacks made when the input mode is left; the variables shown* are    *)
(* what it has learnt.                                                     *)
(***************************************************************************)
EXTENDS Integers, Sequences

CONSTANTS
  Arguments,      \* the bytes the host writes in the input mode
  TextSize,       \* cells of the text buffer, 32 in the code
  IdxModulus      \* 256 in the code: u8Idx is a uint8_t

EndOfText == 26                 \* 0x1A
LastCharacter == 95             \* 0x5F
Unset == 255                    \* 0xFF, the value of the modes after a reset

ASSUME UICAssumption ==
  /\ Arguments \subseteq 0..255
  /\ TextSize \in 1..32
  /\ IdxModulus \in 5..256

VARIABLES
  inputActive,    \* bytes go to the user index
  idx,            \* how many of them did since 0x80, modulo IdxModulus
  function,       \* the function code received
  modes,          \* <<mode, X, Y>>
  window,         \* first cell displayed
  enabled,        \* the overlay is displayed
  startIdx,       \* the cell the next character goes to
  text,           \* the cells
  pending,        \* what to notify on leaving the input mode
  shownModes,     \* the modes the implementor was told
  shownWindow,    \* the window it was told
  shownText,      \* the text when it was last told to look
  shownEnabled,   \* whether it was told to display the overlay
  replies         \* what the latest step pushed

entry == <<idx, function>>
shown == <<shownModes, shownWindow, shownText, shownEnabled>>
vars == <<inputActive, entry, modes, window, enabled, startIdx, text, pending,
          shown, replies>>

Ack == 10
Nak == 11
CellsOfText == 0..TextSize - 1
-----------------------------------------------------------------------------
(* After a reset the implementor's overlay is taken to be reset with it.   *)
Init ==
  /\ inputActive = FALSE
  /\ idx = 0 /\ function = 0
  /\ modes = <<Unset, Unset, Unset>>
  /\ window = Unset
  /\ enabled = FALSE
  /\ startIdx = 0
  /\ text = [c \in CellsOfText |-> 0]
  /\ pending = {}
  /\ shownModes = modes /\ shownWindow = window /\ shownText = text
  /\ shownEnabled = enabled
  /\ replies = <<>>

Reset ==
  /\ inputActive' = FALSE
  /\ idx' = 0 /\ function' = 0
  /\ modes' = <<Unset, Unset, Unset>>
  /\ window' = Unset
  /\ enabled' = FALSE
  /\ startIdx' = 0
  /\ text' = [c \in CellsOfText |-> 0]
  /\ pending' = {}
  /\ shownModes' = modes' /\ shownWindow' = window' /\ shownText' = text'
  /\ shownEnabled' = enabled'
  /\ replies' = <<>>
-----------------------------------------------------------------------------
(* 0x80, 0x81 and 0x82, outside the input mode.                            *)
BeginInput ==
  /\ ~inputActive
  /\ inputActive' = TRUE
  /\ idx' = 0
  /\ pending' = {}
  /\ replies' = <<Ack>>
  /\ UNCHANGED <<function, modes, window, enabled, startIdx, text, shown>>

SetEnabled(on) ==
  /\ ~inputActive
  /\ enabled' = on
  /\ shownEnabled' = IF enabled # on THEN on ELSE shownEnabled
  /\ replies' = <<Ack>>
  /\ UNCHANGED <<inputActive, entry, modes, window, startIdx, text, pending,
                 shownModes, shownWindow, shownText>>
-----------------------------------------------------------------------------
(* The input mode.  Every byte counts, and every byte that ends the mode   *)
(* sends the notifications that are due.                                   *)
StayIn == inputActive' = TRUE /\ UNCHANGED <<shownModes, shownWindow>>
LeaveModesUntold ==                                             \* mutant
  /\ inputActive' = FALSE
  /\ UNCHANGED shownModes
  /\ shownWindow' = IF "window" \in pending' THEN window' ELSE shownWindow
Leave ==
  /\ inputActive' = FALSE
  /\ shownModes' = IF "modes" \in pending' THEN modes' ELSE shownModes
  /\ shownWindow' = IF "window" \in pending' THEN window' ELSE shownWindow
CountByte == idx' = (idx + 1) % IdxModulus

FunctionCode(b) ==
  /\ idx = 0
  /\ UNCHANGED <<modes, window, startIdx, text, pending, shownText>>
  /\ \/ b <= 2 /\ function' = b /\ replies' = <<Ack>> /\ StayIn
     \/ b > 2 /\ function' = function /\ replies' = <<Nak>> /\ Leave

(* Function 0: X, Y and mode, in that order; the mode ends it.             *)
SetMode(b) ==
  /\ idx # 0 /\ function = 0
  /\ LET field == CASE idx = 2 -> 3 [] idx = 3 -> 1 [] OTHER -> 2
     IN /\ modes' = [modes EXCEPT ![field] = b]
        /\ pending' = IF modes[field] # b THEN pending \cup {"modes"} ELSE pending
  /\ replies' = <<Ack>>
  /\ IF idx = 3 THEN Leave ELSE StayIn
  /\ UNCHANGED <<function, window, startIdx, text, shownText>>

(* Function 1: the index of the first cell, then characters up to an end   *)
(* of text, or a byte that is no character.                                *)
CellBeyond(c) == c + 1                                          \* mutant
CellAfter(c) == (c + 1) % TextSize

SetText(b) ==
  /\ idx # 0 /\ function = 1
  /\ UNCHANGED <<function, modes, window, pending>>
  /\ \/ /\ idx = 1
        /\ startIdx' = b % TextSize
        /\ replies' = <<Ack>>
        /\ StayIn
        /\ UNCHANGED <<text, shownText>>
     \/ /\ idx # 1 /\ b = EndOfText
        /\ shownText' = text
        /\ replies' = <<Ack>>
        /\ Leave
        /\ UNCHANGED <<startIdx, text>>
     \/ /\ idx # 1 /\ b # EndOfText /\ b <= LastCharacter
        /\ text' = [text EXCEPT ![startIdx] = b]
        /\ startIdx' = CellAfter(startIdx)
        /\ replies' = <<Ack>>
        /\ StayIn
        /\ UNCHANGED shownText
     \/ /\ idx # 1 /\ b > LastCharacter
        /\ replies' = <<Nak>>
        /\ Leave
        /\ UNCHANGED <<startIdx, text, shownText>>

(* Function 2: the first cell displayed.                                   *)
SetWindow(b) ==
  /\ idx # 0 /\ function = 2
  /\ window' = b
  /\ pending' = IF window # b THEN pending \cup {"window"} ELSE pending
  /\ replies' = <<Ack>>
  /\ Leave
  /\ UNCHANGED <<function, modes, startIdx, text, shownText>>

Input(b) ==
  /\ inputActive
  /\ FunctionCode(b) \/ SetMode(b) \/ SetText(b) \/ SetWindow(b)
  /\ CountByte
  /\ UNCHANGED <<enabled, shownEnabled>>

Next == \/ Reset
        \/ BeginInput
        \/ \E on \in BOOLEAN : SetEnabled(on)
        \/ \E b \in Arguments : Input(b)

Spec == Init /\ [][Next]_vars
-----------------------------------------------------------------------------
TypeOK ==
  /\ inputActive \in BOOLEAN /\ enabled \in BOOLEAN /\ shownEnabled \in BOOLEAN
  /\ idx \in 0..IdxModulus - 1
  /\ function \in 0..2
  /\ modes \in [1..3 -> 0..255] /\ shownModes \in [1..3 -> 0..255]
  /\ window \in 0..255 /\ shownWindow \in 0..255
  /\ startIdx \in CellsOfText
  /\ text \in [CellsOfText -> 0..LastCharacter]
  /\ shownText \in [CellsOfText -> 0..LastCharacter]
  /\ pending \in SUBSET {"modes", "window"}
  /\ replies \in Seq({Ack, Nak})

(* Outside the input mode the implementor's overlay is the interpreter's:  *)
(* however the mode was entered and left, no change of the modes, of the   *)
(* window or of the display is left untold.                                *)
OverlayIsShown ==
  /\ ~inputActive => shownModes = modes /\ shownWindow = window
  /\ shownEnabled = enabled
=============================================================================
