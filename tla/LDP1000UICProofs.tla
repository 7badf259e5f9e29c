-------------------------- MODULE LDP1000UICProofs --------------------------
(***************************************************************************)
(* Proofs that the invariants of the LDP-1450's user index hold for every  *)
(* set of bytes the host may write, every size of the text buffer and      *)
(* every width of the byte index.                                          *)
(***************************************************************************)
EXTENDS LDP1000UIC, TLAPS

(* What the interpreter keeps, and what the implementor was told.          *)
EntryTyped ==
  /\ inputActive \in BOOLEAN /\ enabled \in BOOLEAN
  /\ idx \in 0..IdxModulus - 1
  /\ function \in 0..2
  /\ modes \in [1..3 -> 0..255] /\ window \in 0..255
  /\ startIdx \in CellsOfText
  /\ text \in [CellsOfText -> 0..LastCharacter]
  /\ pending \in SUBSET {"modes", "window"}
ShownTyped ==
  /\ shownEnabled \in BOOLEAN
  /\ shownModes \in [1..3 -> 0..255] /\ shownWindow \in 0..255
  /\ shownText \in [CellsOfText -> 0..LastCharacter]
  /\ replies \in Seq({Ack, Nak})

LEMMA TypedIsBoth ==
  /\ TypeOK <=> EntryTyped /\ ShownTyped
  /\ TypeOK' <=> EntryTyped' /\ ShownTyped'
  BY DEF TypeOK, EntryTyped, ShownTyped

(* One acknowledgment or none.                                             *)
LEMMA RepliesTyped ==
  /\ <<>> \in Seq({Ack, Nak}) /\ <<Ack>> \in Seq({Ack, Nak}) /\ <<Nak>> \in Seq({Ack, Nak})
  OBVIOUS

(* The cell of a character is a cell of the text buffer.                   *)
LEMMA CellTyped == \A n \in Nat : n % TextSize \in CellsOfText
  BY UICAssumption DEF CellsOfText

(* A reset empties the text buffer, and the modes are unset.               *)
LEMMA ResetTyped ==
  /\ [c \in CellsOfText |-> 0] \in [CellsOfText -> 0..LastCharacter]
  /\ <<Unset, Unset, Unset>> \in [1..3 -> 0..255]
  /\ 0 \in CellsOfText /\ 0 \in 0..IdxModulus - 1
  BY UICAssumption DEF LastCharacter, Unset, CellsOfText

(* Leaving the input mode tells the implementor values that are typed.     *)
LEMMA LeaveTyped ==
  ASSUME TypeOK, modes' \in [1..3 -> 0..255], window' \in 0..255, Leave \/ StayIn
  PROVE  /\ inputActive' \in BOOLEAN
         /\ shownModes' \in [1..3 -> 0..255] /\ shownWindow' \in 0..255
  BY DEF Leave, StayIn, TypeOK

(* A byte of the input mode.                                               *)
LEMMA InputTyped ==
  ASSUME TypeOK, NEW b \in Arguments, Input(b)
  PROVE  TypeOK'
  <1>1. b \in 0..255
    BY UICAssumption
  <1>2. idx' \in 0..IdxModulus - 1
    BY UICAssumption DEF Input, CountByte, TypeOK
  <1>3. enabled' \in BOOLEAN /\ shownEnabled' \in BOOLEAN
    BY DEF Input, TypeOK
  <1>4. CASE FunctionCode(b)
    <2>1. /\ modes' \in [1..3 -> 0..255] /\ window' \in 0..255 /\ startIdx' \in CellsOfText
          /\ text' \in [CellsOfText -> 0..LastCharacter]
          /\ shownText' \in [CellsOfText -> 0..LastCharacter]
          /\ pending' \in SUBSET {"modes", "window"}
      BY <1>4 DEF FunctionCode, TypeOK
    <2>2. function' \in 0..2
      <3>1. (b <= 2 /\ function' = b) \/ function' = function
        BY <1>4, Zenon DEF FunctionCode
      <3>2. b <= 2 => b \in 0..2
        BY <1>1
      <3>3. function \in 0..2
        BY DEF TypeOK
      <3>4. QED
        BY <3>1, <3>2, <3>3
    <2>3. replies' \in Seq({Ack, Nak}) /\ (Leave \/ StayIn)
      BY <1>4, RepliesTyped, Zenon DEF FunctionCode
    <2>4. QED
      BY <1>2, <1>3, <2>1, <2>2, <2>3, LeaveTyped DEF TypeOK
  <1>5. CASE SetMode(b)
    <2>1. modes' \in [1..3 -> 0..255]
      BY <1>1, <1>5 DEF SetMode, TypeOK
    <2>2. pending' \in SUBSET {"modes", "window"}
      BY <1>5 DEF SetMode, TypeOK
    <2>3. /\ function' \in 0..2 /\ window' \in 0..255 /\ startIdx' \in CellsOfText
          /\ text' \in [CellsOfText -> 0..LastCharacter]
          /\ shownText' \in [CellsOfText -> 0..LastCharacter]
      BY <1>5 DEF SetMode, TypeOK
    <2>4. replies' \in Seq({Ack, Nak}) /\ (Leave \/ StayIn)
      BY <1>5, RepliesTyped DEF SetMode
    <2>5. QED
      BY <1>2, <1>3, <2>1, <2>2, <2>3, <2>4, LeaveTyped DEF TypeOK
  <1>6. CASE SetText(b)
    <2>1. /\ function' \in 0..2 /\ modes' \in [1..3 -> 0..255] /\ window' \in 0..255
          /\ pending' \in SUBSET {"modes", "window"}
      BY <1>6 DEF SetText, TypeOK
    <2>2. startIdx' \in CellsOfText
      <3>1. b \in Nat /\ startIdx \in CellsOfText /\ startIdx + 1 \in Nat
        BY <1>1, UICAssumption DEF TypeOK, CellsOfText
      <3>2. QED
        BY <1>6, <3>1, CellTyped DEF SetText, CellAfter
    <2>3. text' \in [CellsOfText -> 0..LastCharacter]
      <3>1. b <= LastCharacter => b \in 0..LastCharacter
        BY <1>1 DEF LastCharacter
      <3>2. QED
        BY <1>6, <3>1 DEF SetText, TypeOK
    <2>4. shownText' \in [CellsOfText -> 0..LastCharacter]
      BY <1>6 DEF SetText, TypeOK
    <2>5. replies' \in Seq({Ack, Nak}) /\ (Leave \/ StayIn)
      BY <1>6, RepliesTyped DEF SetText
    <2>6. QED
      BY <1>2, <1>3, <2>1, <2>2, <2>3, <2>4, <2>5, LeaveTyped DEF TypeOK
  <1>7. CASE SetWindow(b)
    <2>1. /\ function' \in 0..2 /\ modes' \in [1..3 -> 0..255] /\ window' \in 0..255
          /\ startIdx' \in CellsOfText
          /\ text' \in [CellsOfText -> 0..LastCharacter]
          /\ shownText' \in [CellsOfText -> 0..LastCharacter]
          /\ pending' \in SUBSET {"modes", "window"}
      BY <1>1, <1>7 DEF SetWindow, TypeOK
    <2>2. replies' \in Seq({Ack, Nak}) /\ (Leave \/ StayIn)
      BY <1>7, RepliesTyped DEF SetWindow
    <2>3. QED
      BY <1>2, <1>3, <2>1, <2>2, LeaveTyped DEF TypeOK
  <1>8. QED
    BY <1>4, <1>5, <1>6, <1>7 DEF Input

(* Whatever bytes come in the input mode, and wherever the byte index      *)
(* wraps, no cell outside the text buffer is written, and the text is      *)
(* characters.                                                             *)
THEOREM TypeCorrect == Spec => []TypeOK
  <1>1. Init => TypeOK
    BY ResetTyped, RepliesTyped DEF Init, TypeOK, Unset
  <1>2. TypeOK /\ [Next]_vars => TypeOK'
    <2> SUFFICES ASSUME TypeOK, [Next]_vars PROVE TypeOK'
      OBVIOUS
    <2>1. CASE Reset
      <3>1. EntryTyped'
        BY <2>1, ResetTyped DEF Reset, EntryTyped, Unset
      <3>2. ShownTyped'
        BY <2>1, ResetTyped, RepliesTyped DEF Reset, ShownTyped, Unset
      <3>3. QED
        BY <3>1, <3>2, TypedIsBoth
    <2>2. CASE BeginInput
      BY <2>2, ResetTyped, RepliesTyped DEF BeginInput, TypeOK, shown
    <2>3. ASSUME NEW on \in BOOLEAN, SetEnabled(on) PROVE TypeOK'
      BY <2>3, RepliesTyped DEF SetEnabled, TypeOK, entry
    <2>4. ASSUME NEW b \in Arguments, Input(b) PROVE TypeOK'
      BY <2>4, InputTyped
    <2>5. CASE UNCHANGED vars
      BY <2>5 DEF vars, entry, shown, TypeOK
    <2>6. QED
      BY <2>1, <2>2, <2>3, <2>4, <2>5 DEF Next
  <1>3. QED
    BY <1>1, <1>2, PTL DEF Spec
-----------------------------------------------------------------------------
(* A change made in the input mode that the implementor does not know of   *)
(* is due to be told when the mode is left.                                *)
ChangesArePending ==
  /\ shownModes = modes \/ "modes" \in pending
  /\ shownWindow = window \/ "window" \in pending

(* The inductive invariant: OverlayIsShown says nothing of the input mode, *)
(* in which the changes are made.                                          *)
OverlayInv == OverlayIsShown /\ (inputActive => ChangesArePending)

(* Leaving the mode, or staying in it, when the changes made are due.      *)
LEMMA LeaveShows ==
  ASSUME \/ modes' = shownModes \/ "modes" \in pending',
         \/ window' = shownWindow \/ "window" \in pending',
         Leave \/ StayIn, shownEnabled' = enabled'
  PROVE  OverlayInv'
  BY DEF Leave, StayIn, OverlayInv, OverlayIsShown, ChangesArePending

(* Whatever the host keys in, twice the same value or a value and back, in *)
(* one function or, after the byte index wrapped, in several: once it is   *)
(* out of the input mode the implementor has been told the modes and the   *)
(* window, and always whether to display the overlay.                      *)
THEOREM OverlayStaysShown == Spec => []OverlayIsShown
  <1>1. Init => OverlayInv
    BY DEF Init, OverlayInv, OverlayIsShown
  <1>2. TypeOK /\ OverlayInv /\ [Next]_vars => OverlayInv'
    <2> SUFFICES ASSUME TypeOK, OverlayInv, [Next]_vars PROVE OverlayInv'
      OBVIOUS
    <2>1. CASE Reset
      BY <2>1 DEF Reset, OverlayInv, OverlayIsShown
    <2>2. CASE BeginInput
      BY <2>2 DEF BeginInput, shown, OverlayInv, OverlayIsShown, ChangesArePending
    <2>3. ASSUME NEW on \in BOOLEAN, SetEnabled(on) PROVE OverlayInv'
      BY <2>3 DEF SetEnabled, OverlayInv, OverlayIsShown, ChangesArePending
    <2>4. ASSUME NEW b \in Arguments, Input(b) PROVE OverlayInv'
      <3>1. ChangesArePending /\ shownEnabled' = enabled'
        BY <2>4 DEF Input, OverlayInv, OverlayIsShown
      <3>2. Leave \/ StayIn
        BY <2>4, Zenon DEF Input, FunctionCode, SetMode, SetText, SetWindow
      <3>3. modes' = shownModes \/ "modes" \in pending'
        <4>1. CASE SetMode(b)
          <5> DEFINE field == CASE idx = 2 -> 3 [] idx = 3 -> 1 [] OTHER -> 2
          <5>1. /\ modes' = [modes EXCEPT ![field] = b]
                /\ pending' = IF modes[field] # b THEN pending \cup {"modes"} ELSE pending
            BY <4>1 DEF SetMode
          <5>2. modes \in [1..3 -> 0..255] /\ field \in 1..3
            BY DEF TypeOK
          <5>3. modes[field] = b => modes' = modes
            BY <5>1, <5>2
          <5>4. QED
            BY <3>1, <5>1, <5>3 DEF ChangesArePending
        <4>2. CASE FunctionCode(b) \/ SetText(b) \/ SetWindow(b)
          BY <3>1, <4>2 DEF FunctionCode, SetText, SetWindow, ChangesArePending
        <4>3. QED
          BY <2>4, <4>1, <4>2 DEF Input
      <3>4. window' = shownWindow \/ "window" \in pending'
        BY <2>4, <3>1
           DEF Input, FunctionCode, SetMode, SetText, SetWindow, ChangesArePending
      <3>5. QED
        BY <3>1, <3>2, <3>3, <3>4, LeaveShows
    <2>5. CASE UNCHANGED vars
      BY <2>5 DEF vars, shown, OverlayInv, OverlayIsShown, ChangesArePending
    <2>6. QED
      BY <2>1, <2>2, <2>3, <2>4, <2>5 DEF Next
  <1>3. OverlayInv => OverlayIsShown
    BY DEF OverlayInv
  <1>4. QED
    BY <1>1, <1>2, <1>3, TypeCorrect, PTL DEF Spec
=============================================================================
