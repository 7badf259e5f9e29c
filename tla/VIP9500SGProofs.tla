-------------------------- MODULE VIP9500SGProofs --------------------------
(***************************************************************************)
(* Proofs about the VIP9500SG interpreter, for every set of bytes the host *)
(* may send, every size of the ring of digits and every disc: the types,   *)
(* the promise to its host (the refinement of Exchange), what it reports,  *)
(* and the number a search goes to.  The first part is about folds over    *)
(* sequences, for which induction is done by hand: a property of all       *)
(* numbers has no least exception.                                         *)
(***************************************************************************)
EXTENDS VIP9500SG, FiniteSetTheorems, SequenceTheorems, WellFoundedInduction,
        TLAPS

(* A set of natural numbers has a least element.                           *)
LEMMA LeastOf ==
  ASSUME NEW T, T \subseteq Nat, T # {}
  PROVE  \E n \in T : \A m \in T : n <= m
  <1>1. PICK n \in T : \A m \in T : ~ (<<m, n>> \in OpToRel(<, Nat))
    BY WFMin, NatLessThanWellFounded, Zenon
  <1>2. ASSUME NEW m \in T PROVE n <= m
    <2>1. ~(<<m, n>> \in OpToRel(<, Nat))
      BY <1>1, Zenon
    <2>2. <<m, n>> \in Nat \X Nat
      OBVIOUS
    <2>3. ~ (m < n)
      BY <2>1, <2>2, Zenon DEF OpToRel
    <2>4. QED
      BY <2>3
  <1>3. QED
    BY <1>2, Zenon

(* So what zero has, and every number has if the one before it does, all   *)
(* have.                                                                   *)
LEMMA ByInduction ==
  ASSUME NEW T, 0 \in T, \A n \in Nat : n \in T => n + 1 \in T
  PROVE  \A n \in Nat : n \in T
  <1> SUFFICES ASSUME ~ \A n \in Nat : n \in T PROVE FALSE
    OBVIOUS
  <1>1. PICK n \in Nat \ T : \A m \in Nat \ T : n <= m
    BY LeastOf
  <1>2. n # 0 /\ n - 1 \in Nat
    BY <1>1
  <1>3. n - 1 \in T
    BY <1>1, <1>2
  <1>4. QED
    BY <1>1, <1>2, <1>3

(* The greatest of some of the first n numbers.                            *)
LEMMA MaxOf ==
  ASSUME NEW n \in Nat, NEW s \in SUBSET (1..n), s # {}
  PROVE  Max(s) \in s /\ \A x \in s : Max(s) >= x
  <1> DEFINE T == {m \in 0..n : n - m \in s}
  <1>1. T \subseteq Nat
    OBVIOUS
  <1>2. T # {}
    <2>1. PICK x \in s : x \in 1..n
      OBVIOUS
    <2>2. n - x \in T
      BY <2>1
    <2>3. QED
      BY <2>2
  <1>3. PICK m \in T : \A k \in T : m <= k
    BY <1>1, <1>2, LeastOf, Zenon
  <1>4. n - m \in s /\ m \in 0..n
    BY <1>3
  <1>5. ASSUME NEW x \in s PROVE n - m >= x
    <2>1. x \in 1..n
      OBVIOUS
    <2>2. n - x \in T
      BY <2>1
    <2>3. m <= n - x
      BY <1>3, <2>2
    <2>4. QED
      BY <1>4, <2>1, <2>3
  <1>6. \E x \in s : \A y \in s : x >= y
    BY <1>4, <1>5
  <1>7. QED
    BY <1>6 DEF Max

LEMMA MaxOfFirst ==
  ASSUME NEW n \in Nat, NEW s \in SUBSET (1..(n + 1)), n + 1 \in s
  PROVE  Max(s) = n + 1 /\ s \ {n + 1} \in SUBSET (1..n)
  <1>1. PICK k \in Nat : k = n + 1
    OBVIOUS
  <1>2. s \in SUBSET (1..k) /\ s # {} /\ k \in s
    BY <1>1
  <1>3. Max(s) \in s /\ Max(s) >= k
    BY <1>2, MaxOf
  <1>4. Max(s) \in 1..k
    BY <1>2, <1>3
  <1>5. Max(s) = k
    BY <1>3, <1>4
  <1>6. \A x \in s \ {k} : x \in 1..n
    BY <1>1, <1>2
  <1>7. QED
    BY <1>1, <1>5, <1>6

(* A fold of a function F over the cells of e: there is a function that    *)
(* has the fold of every subset of the cells, taken in their order.        *)
IsFold(f, n, base, F, e) ==
  \A s \in SUBSET (1..n) :
    f[s] = IF s = {} THEN base ELSE F[<<f[s \ {Max(s)}], e[Max(s)]>>]

LEMMA FoldBuilt ==
  ASSUME NEW A, NEW base \in A, NEW C, NEW F \in [A \X C -> A],
         NEW n \in Nat, NEW e, \A i \in 1..n : e[i] \in C
  PROVE  \E f \in [SUBSET (1..n) -> A] : IsFold(f, n, base, F, e)
  <1> DEFINE P(k) == \E f \in [SUBSET (1..k) -> A] : IsFold(f, k, base, F, e)
             T == {k \in Nat : k <= n => P(k)}
  <1>1. 0 \in T
    <2> DEFINE f == [s \in SUBSET (1..0) |-> base]
    <2>1. \A s \in SUBSET (1..0) : s = {}
      OBVIOUS
    <2>2. f \in [SUBSET (1..0) -> A] /\ IsFold(f, 0, base, F, e)
      BY <2>1 DEF IsFold
    <2>3. QED
      BY <2>2
  <1>2. ASSUME NEW k \in Nat, k \in T, k + 1 <= n PROVE k + 1 \in T
    <2>1. PICK f \in [SUBSET (1..k) -> A] : IsFold(f, k, base, F, e)
      <3>1. k <= n
        BY <1>2
      <3>2. P(k)
        <4> HIDE DEF P
        <4>1. QED
          BY <1>2, <3>1
      <3>3. QED
        BY <3>2
    <2> DEFINE g == [s \in SUBSET (1..(k + 1)) |->
                       IF s \in SUBSET (1..k) THEN f[s] ELSE F[<<f[s \ {k + 1}], e[k + 1]>>]]
    <2>2. ASSUME NEW s \in SUBSET (1..(k + 1)), s \notin SUBSET (1..k)
          PROVE  Max(s) = k + 1 /\ s \ {k + 1} \in SUBSET (1..k) /\ s # {}
      <3>1. k + 1 \in s
        BY <2>2
      <3>2. QED
        BY <3>1, MaxOfFirst
    <2>3. e[k + 1] \in C
      BY <1>2
    <2>4. g \in [SUBSET (1..(k + 1)) -> A]
      <3>1. ASSUME NEW s \in SUBSET (1..(k + 1)) PROVE g[s] \in A
        <4>1. CASE s \in SUBSET (1..k)
          BY <4>1
        <4>2. CASE s \notin SUBSET (1..k)
          <5>1. <<f[s \ {k + 1}], e[k + 1]>> \in A \X C
            BY <2>2, <2>3, <4>2
          <5>2. QED
            BY <4>2, <5>1
        <4>3. QED
          BY <4>1, <4>2
      <3>2. QED
        BY <3>1
    <2>5. IsFold(g, k + 1, base, F, e)
      <3>1. ASSUME NEW s \in SUBSET (1..(k + 1))
            PROVE  g[s] = IF s = {} THEN base ELSE F[<<g[s \ {Max(s)}], e[Max(s)]>>]
        <4>1. CASE s = {}
          <5>1. s \in SUBSET (1..k)
            BY <4>1
          <5>2. QED
            BY <2>1, <4>1, <5>1 DEF IsFold
        <4>2. CASE s # {} /\ s \in SUBSET (1..k)
          <5>1. s \ {Max(s)} \in SUBSET (1..k)
            BY <4>2
          <5>2. g[s] = f[s] /\ g[s \ {Max(s)}] = f[s \ {Max(s)}]
            BY <4>2, <5>1
          <5>3. QED
            BY <2>1, <4>2, <5>2 DEF IsFold
        <4>3. CASE s \notin SUBSET (1..k)
          <5>1. Max(s) = k + 1 /\ s \ {k + 1} \in SUBSET (1..k) /\ s # {}
            BY <2>2, <4>3
          <5>2. g[s \ {k + 1}] = f[s \ {k + 1}]
            BY <5>1
          <5>3. g[s] = F[<<f[s \ {k + 1}], e[k + 1]>>]
            BY <4>3
          <5>4. QED
            BY <5>1, <5>2, <5>3, Zenon
        <4>4. QED
          BY <4>1, <4>2, <4>3
      <3>2. QED
        BY <3>1 DEF IsFold
    <2>6. P(k + 1)
      <3> HIDE DEF g
      <3>1. QED
        BY <2>4, <2>5
    <2>7. QED
      <3> HIDE DEF P
      <3>1. QED
        BY <2>6
  <1>3. \A k \in Nat : k \in T => k + 1 \in T
    <2>1. ASSUME NEW k \in Nat, k \in T, ~(k + 1 <= n) PROVE k + 1 \in T
      BY <2>1
    <2>2. QED
      BY <1>2, <2>1
  <1>4. n \in T
    <2> HIDE DEF T
    <2>1. QED
      BY <1>1, <1>3, ByInduction, Zenon
  <1>5. P(n)
    <2> HIDE DEF P
    <2>1. QED
      BY <1>4
  <1>6. QED
    BY <1>5

(* The first k + 1 cells are the first k and one more.                     *)
LEMMA FirstCells ==
  ASSUME NEW k \in Nat
  PROVE  /\ Max(1..(k + 1)) = k + 1 /\ (1..(k + 1)) \ {k + 1} = 1..k
         /\ 1..(k + 1) # {}
  <1>1. 1..(k + 1) \in SUBSET (1..(k + 1)) /\ k + 1 \in 1..(k + 1)
    OBVIOUS
  <1>2. Max(1..(k + 1)) = k + 1
    BY <1>1, MaxOfFirst
  <1>3. (1..(k + 1)) \ {k + 1} = 1..k
    OBVIOUS
  <1>4. QED
    BY <1>1, <1>2, <1>3

(* The value of digits is such a fold, of the function that appends a      *)
(* digit to a number.                                                      *)
AppendDigit == [x \in Nat \X Nat |-> 10 * x[1] + x[2]]

(* One digit more.                                                         *)
LEMMA AppendRuns ==
  ASSUME NEW n \in Nat, NEW digits, NEW f, IsFold(f, n, 0, AppendDigit, digits)
  PROVE  \A k \in 0..(n - 1) : f[1..(k + 1)] = AppendDigit[<<f[1..k], digits[k + 1]>>]
  <1> SUFFICES ASSUME NEW k \in 0..(n - 1)
               PROVE  f[1..(k + 1)] = AppendDigit[<<f[1..k], digits[k + 1]>>]
    OBVIOUS
  <1>1. /\ Max(1..(k + 1)) = k + 1 /\ (1..(k + 1)) \ {k + 1} = 1..k
        /\ 1..(k + 1) # {}
    <2>1. k \in Nat
      OBVIOUS
    <2>2. QED
      BY <2>1, FirstCells, Zenon
  <1>2. 1..(k + 1) \in SUBSET (1..n)
    OBVIOUS
  <1>3. QED
    BY <1>1, <1>2, Zenon DEF IsFold

LEMMA ValueIsFold ==
  ASSUME NEW n \in Nat, NEW digits, DOMAIN digits = 1..n, \A i \in 1..n : digits[i] \in Nat
  PROVE  \E f \in [SUBSET (1..n) -> Nat] :
           IsFold(f, n, 0, AppendDigit, digits) /\ VIPValue(digits) = f[1..n]
  <1> DEFINE Next10(f, s) == 10 * f[s \ {Max(s)}] + digits[Max(s)]
             Run(f) == f = [s \in SUBSET (1..n) |-> IF s = {} THEN 0 ELSE Next10(f, s)]
             iter == CHOOSE f : Run(f)
  <1>1. VIPValue(digits) = iter[1..n]
    BY DEF VIPValue, FoldLeft, MapThenFoldSet
  <1>2. AppendDigit \in [Nat \X Nat -> Nat]
    BY DEF AppendDigit
  <1>3. PICK f \in [SUBSET (1..n) -> Nat] : IsFold(f, n, 0, AppendDigit, digits)
    <2>1. 0 \in Nat
      OBVIOUS
    <2>2. QED
      BY <1>2, <2>1, FoldBuilt, Zenon
  <1> DEFINE Steps == \A k \in 0..(n - 1) : f[1..(k + 1)] = AppendDigit[<<f[1..k], digits[k + 1]>>]
  <1>31. f[{}] = 0 /\ Steps
    <2>1. f[{}] = 0
      BY <1>3 DEF IsFold
    <2>2. Steps
      BY <1>3, AppendRuns, Zenon
    <2>3. QED
      BY <2>1, <2>2
  <1>4. Run(f)
    <2>1. ASSUME NEW s \in SUBSET (1..n), s # {}
          PROVE  f[s] = Next10(f, s)
      <3>1. Max(s) \in 1..n
        BY <2>1, MaxOf
      <3>2. f[s \ {Max(s)}] \in Nat /\ digits[Max(s)] \in Nat
        BY <3>1
      <3>3. f[s] = AppendDigit[<<f[s \ {Max(s)}], digits[Max(s)]>>]
        BY <1>3, <2>1, Zenon DEF IsFold
      <3>4. QED
        BY <3>2, <3>3 DEF AppendDigit
    <2>2. f[{}] = 0
      BY <1>31
    <2>3. QED
      BY <2>1, <2>2
  <1>5. Run(iter)
    BY <1>4
  <1>6. \A k \in Nat : k <= n => iter[1..k] = f[1..k]
    <2> DEFINE T == {k \in Nat : k <= n => iter[1..k] = f[1..k]}
    <2> HIDE DEF iter
    <2>1. 0 \in T
      <3>1. iter[{}] = 0 /\ f[{}] = 0
        BY <1>31, <1>5
      <3>2. 1..0 = {}
        OBVIOUS
      <3>3. QED
        BY <3>1, <3>2
    <2>2. ASSUME NEW k \in Nat, k \in T PROVE k + 1 \in T
      <3> SUFFICES ASSUME k + 1 <= n PROVE iter[1..(k + 1)] = f[1..(k + 1)]
        OBVIOUS
      <3>1. iter[1..k] = f[1..k]
        BY <2>2
      <3>2. iter[1..(k + 1)] = Next10(iter, 1..(k + 1))
        <4>1. 1..(k + 1) \in SUBSET (1..n)
          OBVIOUS
        <4>2. 1..(k + 1) # {}
          BY FirstCells, Zenon
        <4>3. QED
          BY <1>5, <4>1, <4>2
      <3>3. iter[1..(k + 1)] = 10 * f[1..k] + digits[k + 1]
        BY <3>1, <3>2, FirstCells
      <3>4. f[1..(k + 1)] = AppendDigit[<<f[1..k], digits[k + 1]>>]
        <4>1. k \in 0..(n - 1)
          OBVIOUS
        <4>2. QED
          BY <1>31, <4>1, Zenon
      <3>5. f[1..k] \in Nat /\ digits[k + 1] \in Nat
        <4>1. 1..k \in SUBSET (1..n) /\ k + 1 \in 1..n
          OBVIOUS
        <4>2. QED
          BY <4>1
      <3>6. QED
        BY <3>3, <3>4, <3>5 DEF AppendDigit
    <2>3. QED
      <3>1. \A k \in Nat : k \in T
        <4> HIDE DEF T
        <4>1. QED
          BY <2>1, <2>2, ByInduction, Zenon
      <3>2. QED
        BY <3>1
  <1>7. VIPValue(digits) = f[1..n]
    <2> HIDE DEF iter
    <2>1. n <= n
      OBVIOUS
    <2>2. QED
      BY <1>1, <1>6, <2>1, Zenon
  <1>8. QED
    BY <1>3, <1>7, Zenon

(* The value of digits is a natural number, however many there are.        *)
LEMMA ValueTyped ==
  ASSUME NEW n \in Nat, NEW digits, DOMAIN digits = 1..n, \A i \in 1..n : digits[i] \in Nat
  PROVE  VIPValue(digits) \in Nat
  <1>1. PICK f \in [SUBSET (1..n) -> Nat] : VIPValue(digits) = f[1..n]
    BY ValueIsFold, Zenon
  <1>2. 1..n \in SUBSET (1..n)
    OBVIOUS
  <1>3. QED
    BY <1>1, <1>2

-----------------------------------------------------------------------------
(* A property that the fold of nothing has, and that the fold of one cell  *)
(* more has if the fold before it does, the whole fold has.                *)
LEMMA FoldHas ==
  ASSUME NEW A, NEW n \in Nat, NEW iter, iter[{}] \in A,
         \A k \in 0..(n - 1) : iter[1..k] \in A => iter[1..(k + 1)] \in A
  PROVE  iter[1..n] \in A
  <1> DEFINE T == {k \in Nat : k <= n => iter[1..k] \in A}
  <1>1. 0 \in T
    <2>1. 1..0 = {}
      OBVIOUS
    <2>2. QED
      BY <2>1
  <1>2. \A k \in Nat : k \in T => k + 1 \in T
    <2> SUFFICES ASSUME NEW k \in Nat, k \in T, k + 1 <= n PROVE k + 1 \in T
      OBVIOUS
    <2>1. k \in 0..(n - 1)
      OBVIOUS
    <2>2. QED
      BY <2>1
  <1>3. n \in T
    <2> HIDE DEF T
    <2>1. QED
      BY <1>1, <1>2, ByInduction, Zenon
  <1>4. QED
    BY <1>3

(* The player, and the callbacks that keep it one.                         *)
Players == [disc : PlayerStates, pos : 0..LastFrame, goal : Nat]
IsCall(c) ==
  /\ c.cb = "begin_search" => c.arg \in Nat
  /\ c.cb \in {"step", "skip", "skip_to"} => c.arg \in Int

LEMMA ClampTyped ==
  ASSUME NEW f \in Int
  PROVE  Clamp(f) \in 0..LastFrame
  BY PlayerAssumption DEF Clamp

LEMMA AtTyped ==
  ASSUME NEW disc \in PlayerStates, NEW pos \in 0..LastFrame
  PROVE  At(disc, pos) \in Players
  BY DEF At, Players

LEMMA ObeyedOnce ==
  ASSUME NEW p \in Players, NEW c, IsCall(c)
  PROVE  Obey(p, c) \in Players
  <1>1. /\ p.pos \in 0..LastFrame /\ p.pos \in Int
        /\ p = [disc |-> p.disc, pos |-> p.pos, goal |-> p.goal]
    BY PlayerAssumption DEF Players
  <1>2. CASE c.cb = "play"
    <2>1. Obey(p, c) = At(IF Turning(p) THEN "PLAYING" ELSE "SPINNING_UP", p.pos)
      BY <1>2 DEF Obey
    <2>2. (IF Turning(p) THEN "PLAYING" ELSE "SPINNING_UP") \in PlayerStates
      BY DEF PlayerStates
    <2>3. QED
      BY <1>1, <2>1, <2>2, AtTyped
  <1>3. CASE c.cb = "pause"
    <2>1. Obey(p, c) = IF Turning(p) THEN At("PAUSED", p.pos) ELSE p
      BY <1>3 DEF Obey
    <2>2. QED
      BY <1>1, <2>1, AtTyped DEF PlayerStates
  <1>4. CASE c.cb = "step"
    <2>1. Obey(p, c) = IF Turning(p) THEN At("STEPPING", Clamp(p.pos + c.arg)) ELSE p
      BY <1>4 DEF Obey
    <2>2. Clamp(p.pos + c.arg) \in 0..LastFrame
      BY <1>1, <1>4, ClampTyped DEF IsCall
    <2>3. QED
      BY <2>1, <2>2, AtTyped DEF PlayerStates
  <1>5. CASE c.cb = "stop"
    <2>1. Obey(p, c) = At("STOPPED", 0)
      BY <1>5 DEF Obey
    <2>2. QED
      BY <2>1, PlayerAssumption, AtTyped DEF PlayerStates
  <1>6. CASE c.cb = "begin_search"
    <2>1. Obey(p, c) = [disc |-> "SEARCHING", pos |-> p.pos, goal |-> c.arg]
      BY <1>6 DEF Obey
    <2>2. QED
      BY <1>1, <1>6, <2>1 DEF IsCall, Players, PlayerStates
  <1>7. CASE c.cb = "skip"
    <2>1. Obey(p, c) = [p EXCEPT !.pos = Clamp(@ + c.arg)]
      BY <1>7 DEF Obey
    <2>2. Clamp(p.pos + c.arg) \in 0..LastFrame
      BY <1>1, <1>7, ClampTyped DEF IsCall
    <2>3. QED
      BY <2>1, <2>2 DEF Players
  <1>8. CASE c.cb = "skip_to"
    <2>1. Obey(p, c) = IF p.disc = "PLAYING" THEN At("PLAYING", Clamp(c.arg)) ELSE p
      BY <1>8 DEF Obey
    <2>2. Clamp(c.arg) \in 0..LastFrame
      BY <1>8, ClampTyped DEF IsCall
    <2>3. QED
      BY <2>1, <2>2, AtTyped DEF PlayerStates
  <1>9. CASE c.cb \notin {"play", "pause", "step", "stop", "begin_search", "skip", "skip_to"}
    BY <1>9 DEF Obey
  <1>10. QED
    BY <1>2, <1>3, <1>4, <1>5, <1>6, <1>7, <1>8, <1>9

(* However many callbacks a step makes, the player is left a player.       *)
LEMMA ObeyedAll ==
  ASSUME NEW p \in Players, NEW n \in Nat, NEW cs, DOMAIN cs = 1..n,
         \A i \in 1..n : IsCall(cs[i])
  PROVE  FoldLeft(Obey, p, cs) \in Players
  <1> DEFINE C == {cs[i] : i \in 1..n}
             F == [x \in Players \X C |-> Obey(x[1], x[2])]
             Run(f) == f = [s \in SUBSET (1..n) |->
                              IF s = {} THEN p ELSE Obey(f[s \ {Max(s)}], cs[Max(s)])]
             iter == CHOOSE f : Run(f)
  <1>1. FoldLeft(Obey, p, cs) = iter[1..n]
    BY DEF FoldLeft, MapThenFoldSet
  <1>2. \A i \in 1..n : cs[i] \in C
    OBVIOUS
  <1>3. \A q \in Players, c \in C : Obey(q, c) \in Players
    BY ObeyedOnce
  <1>4. F \in [Players \X C -> Players]
    BY <1>3
  <1>5. \A q \in Players, c \in C : F[<<q, c>>] = Obey(q, c)
    OBVIOUS
  <1>6. PICK f \in [SUBSET (1..n) -> Players] : IsFold(f, n, p, F, cs)
    <2> HIDE DEF C, F
    <2>1. QED
      BY <1>2, <1>4, FoldBuilt, Zenon
  <1> HIDE DEF C, F
  <1>7. Run(f)
    <2>1. ASSUME NEW s \in SUBSET (1..n), s # {}
          PROVE  f[s] = Obey(f[s \ {Max(s)}], cs[Max(s)])
      <3>1. Max(s) \in 1..n
        BY <2>1, MaxOf
      <3>2. f[s \ {Max(s)}] \in Players /\ cs[Max(s)] \in C
        BY <1>2, <3>1
      <3>3. f[s] = F[<<f[s \ {Max(s)}], cs[Max(s)]>>]
        BY <1>6, <2>1, Zenon DEF IsFold
      <3>4. QED
        BY <1>5, <3>2, <3>3, Zenon
    <2>2. f[{}] = p
      BY <1>6 DEF IsFold
    <2>3. QED
      BY <2>1, <2>2
  <1>8. Run(iter)
    BY <1>7
  <1> HIDE DEF iter
  <1>9. iter[{}] \in Players
    BY <1>8
  <1>10. ASSUME NEW k \in 0..(n - 1), iter[1..k] \in Players
         PROVE  iter[1..(k + 1)] \in Players
    <2>1. 1..(k + 1) \in SUBSET (1..n) /\ k + 1 \in 1..n
      OBVIOUS
    <2>2. /\ Max(1..(k + 1)) = k + 1 /\ (1..(k + 1)) \ {k + 1} = 1..k
          /\ 1..(k + 1) # {}
      <3>1. k \in Nat
        OBVIOUS
      <3>2. QED
        BY <3>1, FirstCells, Zenon
    <2>3. iter[1..(k + 1)] = Obey(iter[1..k], cs[k + 1])
      BY <1>8, <2>1, <2>2
    <2>4. cs[k + 1] \in C
      BY <1>2, <2>1
    <2>5. Obey(iter[1..k], cs[k + 1]) \in Players
      BY <1>3, <1>10, <2>4, Zenon
    <2>6. QED
      BY <2>3, <2>5
  <1>11. iter[1..n] \in Players
    BY <1>9, <1>10, FoldHas, Zenon
  <1>12. QED
    BY <1>1, <1>11

LEMMA PlayerObeys ==
  ASSUME player \in Players, NEW n \in Nat, NEW cs, DOMAIN cs = 1..n,
         \A i \in 1..n : IsCall(cs[i]), NEW ws, Do(cs, ws)
  PROVE  player' \in Players
  BY ObeyedAll, Zenon DEF Do

LEMMA PlayerObeysOne ==
  ASSUME player \in Players, NEW c, NEW ws, Do(<<>>, ws) \/ (Do(<<c>>, ws) /\ IsCall(c))
  PROVE  player' \in Players
  <1>1. CASE Do(<<>>, ws)
    <2> DEFINE cs == <<>>
    <2>1. DOMAIN cs = 1..0 /\ 0 \in Nat /\ \A i \in 1..0 : IsCall(cs[i])
      OBVIOUS
    <2>2. QED
      BY <1>1, <2>1, PlayerObeys, Zenon
  <1>2. CASE Do(<<c>>, ws) /\ IsCall(c)
    <2> DEFINE cs == <<c>>
    <2>1. DOMAIN cs = 1..1 /\ 1 \in Nat /\ \A i \in 1..1 : IsCall(cs[i])
      BY <1>2
    <2> HIDE DEF cs
    <2>2. Do(cs, ws) => player' \in Players
      BY <2>1, PlayerObeys, Zenon
    <2>3. QED
      BY <1>2, <2>2 DEF cs
  <1>3. QED
    BY <1>1, <1>2

LEMMA PlayerStays ==
  ASSUME player \in Players, PlayerMoves
  PROVE  player' \in Players /\ calls' = <<>> /\ replies' = <<>> /\ UNCHANGED plugged
  <1>1. \E p : Becomes(p)
    BY DEF PlayerMoves, Found, Fails, SpunUp, Stepped, Rolls
  <1>2. player' \in Players
    <2>1. player.pos \in 0..LastFrame /\ player.goal \in Nat /\ LastFrame \in Nat
      BY PlayerAssumption DEF Players
    <2>2. Found => player' \in Players
      BY <2>1, AtTyped DEF Found, Becomes, PlayerStates
    <2>3. Fails => player' \in Players
      BY <2>1, AtTyped DEF Fails, Becomes, PlayerStates
    <2>4. SpunUp \/ Stepped => player' \in Players
      BY <2>1, AtTyped DEF SpunUp, Stepped, Becomes, PlayerStates
    <2>5. Rolls => player' \in Players
      BY <2>1, AtTyped DEF Rolls, Becomes, PlayerStates
    <2>6. QED
      BY <2>2, <2>3, <2>4, <2>5 DEF PlayerMoves
  <1>3. QED
    BY <1>1, <1>2 DEF Becomes

LEMMA PlayerBegins == PlayerInit => player \in Players
  BY AtTyped, PlayerAssumption DEF PlayerInit, PlayerStates

-----------------------------------------------------------------------------
(* The types, in parts.                                                    *)
VIPStateTyped ==
  vip_state \in VIPWaits \cup {"NORMAL", "WAIT_SEARCH", "WAIT_SKIP_FORWARD",
                               "WAIT_SKIP_BACKWARD"}
VIPRingTyped ==
  /\ vip_num_buf \in [0..(VIPNumSize - 1) -> 0..9]
  /\ vip_start \in 0..(VIPNumSize - 1) /\ vip_count \in 0..VIPNumSize
  /\ vip_keyed \in Seq(0..9)
VIPQueryTyped == vip_waitingForPicNum \in BOOLEAN /\ vip_field \in BOOLEAN
VIPBytesTyped ==
  /\ vip_u8LastCmdByte \in 0..255 /\ vip_request \in 0..255
  /\ vip_acks \in Seq(Seq(0..255))

LEMMA VIPTypesInParts ==
  /\ VIPTypeOK <=> VIPStateTyped /\ VIPRingTyped /\ VIPQueryTyped /\ VIPBytesTyped
  /\ VIPTypeOK' <=> VIPStateTyped' /\ VIPRingTyped' /\ VIPQueryTyped' /\ VIPBytesTyped'
  BY Zenon DEF VIPTypeOK, VIPStateTyped, VIPRingTyped, VIPQueryTyped, VIPBytesTyped

(* Less than two laps from its beginning an index is a cell of the ring.   *)
LEMMA VIPWrapIs ==
  ASSUME NEW i \in 0..(VIPNumSize + VIPNumSize - 1)
  PROVE  VIPWrap(i) = IF i < VIPNumSize THEN i ELSE i - VIPNumSize
  <1>1. VIPNumSize \in Nat \ {0} /\ i \in Nat
    BY VIPAssumption
  <1>2. CASE i < VIPNumSize
    <2>1. i % VIPNumSize = i
      BY <1>1, <1>2
    <2>2. QED
      BY <1>2, <2>1 DEF VIPWrap
  <1>3. CASE ~(i < VIPNumSize)
    <2>1. i = VIPNumSize * 1 + (i - VIPNumSize) /\ i - VIPNumSize \in 0..(VIPNumSize - 1)
      BY <1>1, <1>3
    <2>2. i % VIPNumSize = i - VIPNumSize
      BY <1>1, <2>1
    <2>3. QED
      BY <1>3, <2>2 DEF VIPWrap
  <1>4. QED
    BY <1>2, <1>3

(* Digits, a new command, ENTER and the rest leave the ring a ring.        *)
LEMMA VIPDigitTyped ==
  ASSUME VIPRingTyped, NEW d \in 0..9, VIPAddDigit(d)
  PROVE  VIPRingTyped'
  <1>1. VIPNumSize \in Nat \ {0}
    BY VIPAssumption
  <1>2. vip_num_buf' \in [0..(VIPNumSize - 1) -> 0..9]
    BY DEF VIPAddDigit, VIPRingTyped
  <1>3. vip_start' \in 0..(VIPNumSize - 1) /\ vip_count' \in 0..VIPNumSize
    <2>1. CASE vip_count < VIPNumSize /\ vip_count' = vip_count + 1 /\ UNCHANGED vip_start
      BY <1>1, <2>1 DEF VIPRingTyped
    <2>2. CASE /\ vip_count = VIPNumSize
               /\ vip_start' = VIPWrap(vip_start + 1) /\ UNCHANGED vip_count
      <3>1. vip_start + 1 \in 0..(VIPNumSize + VIPNumSize - 1)
        BY <1>1 DEF VIPRingTyped
      <3>2. VIPWrap(vip_start + 1) \in 0..(VIPNumSize - 1)
        BY <1>1, <3>1, VIPWrapIs
      <3>3. QED
        BY <2>2, <3>2 DEF VIPRingTyped
    <2>3. QED
      BY <2>1, <2>2, Zenon DEF VIPAddDigit, VIPRingTurns
  <1>4. vip_keyed' \in Seq(0..9)
    BY DEF VIPAddDigit, VIPRingTyped
  <1>5. QED
    BY <1>2, <1>3, <1>4, Zenon DEF VIPRingTyped

LEMMA VIPRingKept ==
  ASSUME VIPRingTyped, VIPResetFrame \/ VIPProcessNumber \/ UNCHANGED vip_number
  PROVE  VIPRingTyped'
  <1>1. VIPNumSize \in Nat \ {0}
    BY VIPAssumption
  <1>2. CASE VIPResetFrame
    BY <1>1, <1>2 DEF VIPResetFrame, VIPRingTyped
  <1>3. CASE VIPProcessNumber
    <2>1. vip_start + vip_count \in 0..(VIPNumSize + VIPNumSize - 1)
      BY <1>1 DEF VIPRingTyped
    <2>2. VIPWrap(vip_start + vip_count) \in 0..(VIPNumSize - 1)
      BY <1>1, <2>1, VIPWrapIs
    <2>3. QED
      BY <1>1, <1>3, <2>2 DEF VIPProcessNumber, VIPRingTyped
  <1>4. CASE UNCHANGED vip_number
    BY <1>4 DEF vip_number, VIPRingTyped
  <1>5. QED
    BY <1>2, <1>3, <1>4

(* What a command byte leaves besides the ring and the state.              *)
LEMMA VIPWordTyped ==
  ASSUME NEW b \in 0..255
  PROVE  /\ VIPSuccess(b) \in Seq(0..255)
         /\ <<>> \in Seq(Seq(0..255)) /\ <<VIPSuccess(b)>> \in Seq(Seq(0..255))
         /\ <<<<VIPEnterByte>>>> \in Seq(Seq(0..255))
  <1>1. VIPSuccess(b) \in Seq(0..255)
    BY DEF VIPSuccess
  <1>2. <<VIPEnterByte>> \in Seq(0..255)
    BY DEF VIPEnterByte
  <1>3. \A w \in Seq(0..255) : <<w>> \in Seq(Seq(0..255))
    <2> DEFINE S == Seq(0..255)
    <2> HIDE DEF S
    <2>1. \A w \in S : <<w>> \in Seq(S)
      OBVIOUS
    <2>2. QED
      BY <2>1 DEF S
  <1>4. QED
    BY <1>1, <1>2, <1>3

LEMMA VIPByTyped ==
  ASSUME VIPBytesTyped, VIPQueryTyped, NEW b \in 0..255, NEW cs,
         NEW acks \in {<<>>, <<VIPSuccess(b)>>, <<<<VIPEnterByte>>>>}, VIPBy(b, cs, acks)
  PROVE  /\ vip_u8LastCmdByte' \in 0..255 /\ vip_acks' \in Seq(Seq(0..255))
         /\ vip_field' \in BOOLEAN
  <1>1. vip_acks' = acks /\ vip_field' = vip_field
    BY Zenon DEF VIPBy
  <1>2. acks \in Seq(Seq(0..255))
    BY VIPWordTyped
  <1>3. vip_u8LastCmdByte' \in {b, vip_u8LastCmdByte}
    BY Zenon DEF VIPBy, VIPRemember
  <1>4. QED
    BY <1>1, <1>2, <1>3 DEF VIPBytesTyped, VIPQueryTyped

(* What each group of commands makes of the state, the request, the query  *)
(* and the ring.                                                           *)
LEMMA VIPWriteTyped ==
  ASSUME VIPTypeOK, NEW b \in 0..255, VIPWrite(b)
  PROVE  VIPTypeOK'
  <1> USE VIPTypesInParts
  <1>1. \E cs : \E acks \in {<<>>, <<VIPSuccess(b)>>, <<<<VIPEnterByte>>>>} : VIPBy(b, cs, acks)
    BY Zenon DEF VIPWrite, VIPBegin, VIPPrepare, VIPDigit, VIPEnter, VIPResetCommand,
                 VIPQuery, VIPAtOnce
  <1>2. /\ vip_u8LastCmdByte' \in 0..255 /\ vip_acks' \in Seq(Seq(0..255))
        /\ vip_field' \in BOOLEAN
    BY <1>1, VIPByTyped, Zenon
  <1>3. \/ VIPResetFrame \/ VIPProcessNumber \/ UNCHANGED vip_number
        \/ b \in VIPDigits /\ VIPAddDigit(b - 48)
    BY Zenon DEF VIPWrite, VIPBegin, VIPPrepare, VIPDigit, VIPEnter, VIPResetCommand,
                 VIPResetGlobals, VIPQuery, VIPAtOnce
  <1>4. b \in VIPDigits => b - 48 \in 0..9
    BY DEF VIPDigits
  <1>5. VIPRingTyped'
    BY <1>3, <1>4, VIPDigitTyped, VIPRingKept, Zenon
  <1>6. vip_waitingForPicNum' \in {TRUE, vip_waitingForPicNum}
    BY Zenon DEF VIPWrite, VIPBegin, VIPPrepare, VIPDigit, VIPEnter, VIPResetCommand,
                 VIPQuery, VIPAtOnce
  <1>7. vip_state' \in VIPWaits \cup {"NORMAL", "WAIT_SEARCH", "WAIT_SKIP_FORWARD",
                                      "WAIT_SKIP_BACKWARD", vip_state}
    BY Zenon DEF VIPWrite, VIPBegin, VIPPrepare, VIPDigit, VIPEnter, VIPResetCommand,
                 VIPResetGlobals, VIPQuery, VIPAtOnce, VIPWaits
  <1>8. vip_request' \in {b, VIPSearch, VIPSkipForward, VIPSkipBackward, 0, vip_request}
    BY Zenon DEF VIPWrite, VIPBegin, VIPPrepare, VIPDigit, VIPEnter, VIPResetCommand,
                 VIPResetGlobals, VIPQuery, VIPAtOnce
  <1>9. vip_request' \in 0..255
    <2>1. b \in 0..255 /\ vip_request \in 0..255
      BY Zenon DEF VIPBytesTyped
    <2>2. QED
      BY <1>8, <2>1 DEF VIPSearch, VIPSkipForward, VIPSkipBackward
  <1>10. VIPQueryTyped' /\ VIPBytesTyped'
    BY <1>2, <1>6, <1>9 DEF VIPQueryTyped, VIPBytesTyped
  <1>11. VIPStateTyped'
    BY <1>7, Zenon DEF VIPStateTyped
  <1>12. QED
    BY <1>5, <1>10, <1>11, Zenon

LEMMA VIPOthersTyped ==
  ASSUME VIPTypeOK, VIPThink \/ VIPReset \/ VIPPlayerMoves \/ UNCHANGED <<playerVars, vip_vars>>
  PROVE  VIPTypeOK'
  <1> USE VIPTypesInParts
  <1>1. ASSUME NEW a, a = <<>> PROVE a \in Seq(Seq(0..255))
    BY <1>1
  <1>2. CASE VIPThink
    <2>1. VIPRingTyped'
      BY <1>2, VIPRingKept, Zenon DEF VIPThink
    <2>2. vip_state' \in {"NORMAL", vip_state} /\ vip_request' \in {0, vip_request}
      BY <1>2, Zenon DEF VIPThink
    <2>3. VIPStateTyped'
      BY <2>2, Zenon DEF VIPStateTyped
    <2>4. VIPQueryTyped'
      BY <1>2 DEF VIPThink, VIPQueryServed, VIPQueryTyped
    <2>5. vip_u8LastCmdByte' = vip_u8LastCmdByte /\ vip_acks' = <<>>
      BY <1>2, Zenon DEF VIPThink
    <2>6. VIPBytesTyped'
      <3>1. vip_request' \in 0..255
        <4>1. vip_request \in 0..255
          BY Zenon DEF VIPBytesTyped
        <4>2. QED
          BY <2>2, <4>1
      <3>2. QED
        BY <1>1, <2>5, <3>1, Zenon DEF VIPBytesTyped
    <2>7. QED
      BY <2>1, <2>3, <2>4, <2>6, Zenon
  <1>3. CASE VIPReset
    <2>1. VIPRingTyped'
      BY <1>3, VIPRingKept, Zenon DEF VIPReset, VIPResetGlobals
    <2>2. VIPStateTyped'
      BY <1>3, Zenon DEF VIPReset, VIPResetGlobals, VIPStateTyped
    <2>3. /\ vip_request' = 0 /\ vip_acks' = <<>>
          /\ UNCHANGED <<vip_waitingForPicNum, vip_u8LastCmdByte, vip_field>>
      BY <1>3, Zenon DEF VIPReset, VIPResetGlobals
    <2>4. VIPQueryTyped' /\ VIPBytesTyped'
      BY <1>1, <2>3 DEF VIPQueryTyped, VIPBytesTyped
    <2>5. QED
      BY <2>1, <2>2, <2>4, Zenon
  <1>4. CASE VIPPlayerMoves \/ UNCHANGED <<playerVars, vip_vars>>
    <2>1. /\ UNCHANGED <<vip_state, vip_number, vip_exchange, vip_field>>
          /\ vip_acks' = <<>> \/ UNCHANGED vip_acks
      BY <1>4, Zenon DEF VIPPlayerMoves, vip_vars, vip_exchange
    <2>2. VIPRingTyped'
      BY <2>1, VIPRingKept
    <2>3. VIPStateTyped' /\ VIPQueryTyped' /\ VIPBytesTyped'
      BY <1>1, <2>1 DEF vip_exchange, VIPStateTyped, VIPQueryTyped, VIPBytesTyped
    <2>4. QED
      BY <2>2, <2>3, Zenon
  <1>5. QED
    BY <1>2, <1>3, <1>4

LEMMA VIPNextTyped ==
  ASSUME VIPTypeOK, [VIPNext]_<<playerVars, vip_vars>>
  PROVE  VIPTypeOK'
  <1>1. VIPBytes \subseteq 0..255
    BY VIPAssumption
  <1>2. QED
    BY <1>1, VIPWriteTyped, VIPOthersTyped, Zenon DEF VIPNext

LEMMA VIPInitTyped == VIPInit => VIPTypeOK
  <1> SUFFICES ASSUME VIPInit PROVE VIPTypeOK
    OBVIOUS
  <1>1. VIPRingTyped
    BY VIPAssumption DEF VIPInit, VIPRingTyped
  <1>2. vip_acks \in Seq(Seq(0..255))
    <2>1. <<>> \in Seq(Seq(0..255))
      OBVIOUS
    <2>2. QED
      BY <2>1, Zenon DEF VIPInit
  <1>3. vip_u8LastCmdByte \in 0..255 /\ vip_request \in 0..255
    BY DEF VIPInit
  <1>4. VIPStateTyped /\ VIPQueryTyped
    BY Zenon DEF VIPInit, VIPStateTyped, VIPQueryTyped
  <1>5. QED
    BY <1>1, <1>2, <1>3, <1>4, VIPTypesInParts, Zenon DEF VIPBytesTyped

(* The ring's indexes stay within it, and all else within its type,        *)
(* whatever the host sends.                                                *)
THEOREM VIPTypeCorrect == VIPSpec => []VIPTypeOK
  BY VIPInitTyped, VIPNextTyped, PTL DEF VIPSpec

-----------------------------------------------------------------------------
(* The player stays a player: its picture number is one of the disc's.     *)
VIPCells == [i \in 1..vip_count |-> vip_num_buf[VIPWrap(vip_start + i - 1)]]

LEMMA VIPCellsTyped ==
  ASSUME VIPRingTyped
  PROVE  /\ vip_count \in Nat /\ DOMAIN VIPCells = 1..vip_count
         /\ \A i \in 1..vip_count : VIPCells[i] \in Nat
  <1>1. VIPNumSize \in Nat \ {0}
    BY VIPAssumption
  <1>2. vip_count \in Nat /\ DOMAIN VIPCells = 1..vip_count
    BY <1>1 DEF VIPRingTyped, VIPCells
  <1>3. ASSUME NEW i \in 1..vip_count PROVE VIPCells[i] \in Nat
    <2>1. vip_start + i - 1 \in 0..(VIPNumSize + VIPNumSize - 1)
      BY <1>1 DEF VIPRingTyped
    <2>2. VIPWrap(vip_start + i - 1) \in 0..(VIPNumSize - 1)
      BY <1>1, <2>1, VIPWrapIs
    <2>3. vip_num_buf[VIPWrap(vip_start + i - 1)] \in 0..9
      BY <2>2 DEF VIPRingTyped
    <2>4. QED
      BY <2>3 DEF VIPCells
  <1>4. QED
    BY <1>2, <1>3

LEMMA VIPFrameTyped ==
  ASSUME VIPRingTyped
  PROVE  VIPFrame \in Nat
  <1>1. VIPFrame = VIPValue(VIPCells)
    BY Zenon DEF VIPFrame, VIPCells
  <1>2. QED
    BY <1>1, VIPCellsTyped, ValueTyped, Zenon

(* The callbacks of a step, none or one, with the words queued.            *)
LEMMA VIPWriteCalls ==
  ASSUME NEW b, VIPWrite(b)
  PROVE  \/ Do(<<>>, <<>>)
         \/ \E c \in {Error, Call("pause", 0), Call("play", 0), Call("step", -1),
                      Call("stop", 0)} : Do(<<c>>, <<>>)
         \/ /\ b = VIPEnterByte /\ vip_state = "WAIT_SEARCH"
            /\ Do(<<Call("begin_search", VIPFrame)>>, <<>>)
         \/ /\ b = VIPEnterByte /\ vip_state = "WAIT_SKIP_FORWARD"
            /\ Do(<<Call("skip", VIPFrame + 1)>>, <<>>)
         \/ /\ b = VIPEnterByte /\ vip_state = "WAIT_SKIP_BACKWARD"
            /\ Do(<<Call("skip", 1 - VIPFrame)>>, <<>>)
  <1>1. CASE VIPBegin(b) \/ VIPAtOnce(b)
    BY <1>1, Zenon DEF VIPBegin, VIPAtOnce, VIPBy
  <1>2. CASE VIPPrepare(b) \/ VIPDigit(b) \/ VIPResetCommand(b) \/ VIPQuery(b)
    BY <1>2, Zenon DEF VIPPrepare, VIPDigit, VIPResetCommand, VIPQuery, VIPBy
  <1>3. CASE VIPEnter(b)
    BY <1>3, Zenon DEF VIPEnter, VIPBy
  <1>4. QED
    BY <1>1, <1>2, <1>3, Zenon DEF VIPWrite

LEMMA VIPPlayerKept ==
  ASSUME VIPTypeOK, player \in Players, [VIPNext]_<<playerVars, vip_vars>>
  PROVE  player' \in Players
  <1>1. VIPRingTyped
    BY VIPTypesInParts
  <1>2. /\ \A c \in {Error, Call("pause", 0), Call("play", 0), Call("step", -1),
                     Call("stop", 0)} : IsCall(c)
        /\ IsCall(Call("begin_search", VIPFrame)) /\ IsCall(Call("skip", VIPFrame + 1))
        /\ IsCall(Call("skip", 1 - VIPFrame))
    <2>1. PICK n \in Nat : n = VIPFrame
      BY <1>1, VIPFrameTyped
    <2>2. /\ IsCall(Call("begin_search", n)) /\ IsCall(Call("skip", n + 1))
          /\ IsCall(Call("skip", 1 - n))
      BY DEF IsCall, Call
    <2>3. \A c \in {Error, Call("pause", 0), Call("play", 0), Call("step", -1),
                    Call("stop", 0)} : IsCall(c)
      BY DEF IsCall, Call, Error
    <2>4. QED
      BY <2>1, <2>2, <2>3
  <1>3. ASSUME NEW b, VIPWrite(b) PROVE player' \in Players
    BY <1>2, <1>3, VIPWriteCalls, PlayerObeysOne, Zenon
  <1>4. VIPThink => player' \in Players
    BY <1>2, PlayerObeysOne, Zenon DEF VIPThink
  <1>5. VIPReset => player' \in Players
    BY PlayerObeysOne, Zenon DEF VIPReset, Nothing
  <1>6. VIPPlayerMoves => player' \in Players
    BY PlayerStays DEF VIPPlayerMoves
  <1>7. UNCHANGED <<playerVars, vip_vars>> => player' \in Players
    BY DEF playerVars
  <1>8. QED
    BY <1>3, <1>4, <1>5, <1>6, <1>7, Zenon DEF VIPNext

LEMMA VIPStaysPlugged ==
  ASSUME plugged = "VIP9500SG", [VIPNext]_<<playerVars, vip_vars>>
  PROVE  plugged' = "VIP9500SG"
  <1>1. ASSUME NEW b, VIPWrite(b) PROVE UNCHANGED plugged
    BY <1>1, VIPWriteCalls, Zenon DEF Do
  <1>2. VIPThink \/ VIPReset => UNCHANGED plugged
    BY Zenon DEF VIPThink, VIPReset, Nothing, Do
  <1>3. VIPPlayerMoves => UNCHANGED plugged
    BY Zenon DEF VIPPlayerMoves, PlayerMoves, Found, Fails, SpunUp, Stepped, Rolls, Becomes
  <1>4. UNCHANGED <<playerVars, vip_vars>> => UNCHANGED plugged
    BY DEF playerVars
  <1>5. QED
    BY <1>1, <1>2, <1>3, <1>4, Zenon DEF VIPNext

-----------------------------------------------------------------------------
(* The command the answer is made from is the one that is waited for, from *)
(* the skip that ENTER completes on: a patient host sends no other.        *)
VIPRemembersInv ==
  /\ vip_state \in VIPWaits \ {"SEARCHING"} =>
       /\ vip_u8LastCmdByte = vip_request
       /\ vip_request \in VIPRequests \ {VIPSearch, VIPPicNum}
  /\ vip_state = "SEARCHING" => vip_request = VIPSearch
  /\ vip_state = "WAIT_SKIP_FORWARD" => vip_u8LastCmdByte = VIPSkipForward
  /\ vip_state = "WAIT_SKIP_BACKWARD" => vip_u8LastCmdByte = VIPSkipBackward

LEMMA VIPWhatIsACommand ==
  /\ \A b \in VIPPlay \cup {VIPPause, VIPStepReverse} :
       VIPIsCommand(b) /\ b \in VIPRequests \ {VIPSearch, VIPPicNum}
  /\ \A b \in {VIPSkipForward, VIPSkipBackward} :
       VIPIsCommand(b) /\ b \in VIPRequests \ {VIPSearch, VIPPicNum}
  /\ \A b \in VIPDigits \cup {VIPEnterByte, VIPPicNum} : ~VIPIsCommand(b)
  /\ \A b \in VIPDigits \cup {VIPPicNum} :
       /\ b # VIPStop /\ b \notin VIPStubs /\ b \notin VIPUnsupported /\ b \in VIPKnown
       /\ b # VIPEnterByte
  /\ VIPSearch \in VIPRequests /\ VIPPicNum \in VIPRequests /\ VIPSearch # VIPPicNum
  BY DEF VIPPlay, VIPPause, VIPStepReverse, VIPSkipForward, VIPSkipBackward, VIPDigits,
         VIPEnterByte, VIPPicNum, VIPIsCommand, VIPRequests, VIPSearch, VIPStop, VIPStubs,
         VIPUnsupported, VIPKnown, VIPResetByte

LEMMA VIPRemembersKept ==
  ASSUME VIPStateTyped, VIPRemembersInv, [VIPNext]_<<playerVars, vip_vars>>
  PROVE  VIPRemembersInv'
  <1> USE VIPWhatIsACommand
  <1>1. ASSUME NEW b, VIPBegin(b) PROVE VIPRemembersInv'
    <2>1. b \in VIPPlay \cup {VIPPause, VIPStepReverse} /\ VIPRemember(b)
      BY <1>1, Zenon DEF VIPBegin, VIPBy
    <2>2. vip_request' = b /\ vip_u8LastCmdByte' = b
      BY <1>1, <2>1, Zenon DEF VIPBegin, VIPRemember
    <2>3. vip_state' \in {"WAITING_FOR_PLAYING", "WAITING_FOR_PLAYING_OR_PAUSED"}
      BY <1>1, Zenon DEF VIPBegin
    <2>4. b \in VIPRequests \ {VIPSearch, VIPPicNum}
      BY <2>1, Zenon
    <2>5. /\ vip_state' # "SEARCHING" /\ vip_state' # "WAIT_SKIP_FORWARD"
          /\ vip_state' # "WAIT_SKIP_BACKWARD"
      BY <2>3
    <2>6. QED
      BY <2>2, <2>4, <2>5, Zenon DEF VIPRemembersInv
  <1>2. ASSUME NEW b, VIPPrepare(b) PROVE VIPRemembersInv'
    <2>1. VIPRemember(b)
      BY <1>2, Zenon DEF VIPPrepare, VIPBy
    <2>2. \/ vip_state' = "WAIT_SEARCH"
          \/ vip_state' = "WAIT_SKIP_FORWARD" /\ vip_u8LastCmdByte' = VIPSkipForward
          \/ vip_state' = "WAIT_SKIP_BACKWARD" /\ vip_u8LastCmdByte' = VIPSkipBackward
      BY <1>2, <2>1, Zenon DEF VIPPrepare, VIPRemember
    <2>3. vip_state' \notin VIPWaits
      BY <2>2 DEF VIPWaits
    <2>4. /\ vip_state' = "WAIT_SKIP_FORWARD" => vip_u8LastCmdByte' = VIPSkipForward
          /\ vip_state' = "WAIT_SKIP_BACKWARD" => vip_u8LastCmdByte' = VIPSkipBackward
          /\ vip_state' # "SEARCHING"
      BY <2>2
    <2>5. QED
      BY <2>3, <2>4, Zenon DEF VIPRemembersInv
  <1>3. ASSUME UNCHANGED <<vip_state, vip_request, vip_u8LastCmdByte>>
        PROVE  VIPRemembersInv'
    BY <1>3 DEF VIPRemembersInv
  <1>4. ASSUME NEW b, VIPDigit(b) \/ VIPQuery(b) PROVE VIPRemembersInv'
    <2>1. ~VIPIsCommand(b) /\ VIPRemember(b) /\ UNCHANGED <<vip_state, vip_request>>
      BY <1>4, Zenon DEF VIPDigit, VIPQuery, VIPBy
    <2>2. QED
      BY <1>3, <2>1, Zenon DEF VIPRemember
  <1>5. ASSUME NEW b, VIPEnter(b) PROVE VIPRemembersInv'
    <2>1. vip_u8LastCmdByte' = vip_u8LastCmdByte
      BY <1>5, Zenon DEF VIPEnter, VIPBy, VIPRemember
    <2>2. CASE UNCHANGED <<vip_state, vip_request>>
      BY <1>3, <2>1, <2>2
    <2>3. CASE /\ vip_state \in {"WAIT_SKIP_FORWARD", "WAIT_SKIP_BACKWARD"}
               /\ vip_state' = "WAITING_FOR_PLAYING_OR_PAUSED"
               /\ vip_request' = vip_u8LastCmdByte
      <3>1. vip_request' \in VIPRequests \ {VIPSearch, VIPPicNum}
        BY <2>3, Zenon DEF VIPRemembersInv
      <3>2. /\ vip_state' # "SEARCHING" /\ vip_state' # "WAIT_SKIP_FORWARD"
            /\ vip_state' # "WAIT_SKIP_BACKWARD"
        BY <2>3
      <3>3. QED
        BY <2>1, <2>3, <3>1, <3>2, Zenon DEF VIPRemembersInv
    <2>4. CASE vip_state' = "SEARCHING" /\ vip_request' = VIPSearch
      <3>1. /\ vip_state' \notin VIPWaits \ {"SEARCHING"}
            /\ vip_state' # "WAIT_SKIP_FORWARD" /\ vip_state' # "WAIT_SKIP_BACKWARD"
        BY <2>4
      <3>2. QED
        BY <2>4, <3>1, Zenon DEF VIPRemembersInv
    <2>5. \/ UNCHANGED <<vip_state, vip_request>>
          \/ vip_state' = "SEARCHING" /\ vip_request' = VIPSearch
          \/ /\ vip_state = "WAIT_SKIP_FORWARD" /\ vip_request' = VIPSkipForward
             /\ vip_state' = "WAITING_FOR_PLAYING_OR_PAUSED"
          \/ /\ vip_state = "WAIT_SKIP_BACKWARD" /\ vip_request' = VIPSkipBackward
             /\ vip_state' = "WAITING_FOR_PLAYING_OR_PAUSED"
      BY <1>5, Zenon DEF VIPEnter
    <2>6. QED
      BY <2>2, <2>3, <2>4, <2>5 DEF VIPRemembersInv
  <1>6. ASSUME vip_state' = "NORMAL" PROVE VIPRemembersInv'
    <2>1. /\ vip_state' \notin VIPWaits /\ vip_state' # "SEARCHING"
          /\ vip_state' # "WAIT_SKIP_FORWARD" /\ vip_state' # "WAIT_SKIP_BACKWARD"
      BY <1>6 DEF VIPWaits
    <2>2. QED
      BY <2>1, Zenon DEF VIPRemembersInv
  <1>7. ASSUME NEW b, VIPSends(b), VIPAtOnce(b) PROVE VIPRemembersInv'
    <2>1. vip_state' = vip_state /\ vip_request' = vip_request
      BY <1>7 DEF VIPAtOnce
    <2>2. b = VIPStop \/ b \in VIPStubs \/ b \in VIPUnsupported \/ b \notin VIPKnown
      BY <1>7, Zenon DEF VIPAtOnce
    <2>3. vip_state \notin VIPWaits
      BY <1>7, <2>2, Zenon DEF VIPSends
    <2>4. vip_state # "WAIT_SKIP_FORWARD" /\ vip_state # "WAIT_SKIP_BACKWARD"
      BY <1>7, <2>2, Zenon DEF VIPSends
    <2>5. vip_state # "SEARCHING"
      BY <2>3 DEF VIPWaits
    <2>6. QED
      BY <2>1, <2>3, <2>4, <2>5 DEF VIPRemembersInv
  <1>8. ASSUME NEW b, VIPSends(b), VIPWrite(b) PROVE VIPRemembersInv'
    <2>1. VIPResetCommand(b) => vip_state' = "NORMAL"
      BY Zenon DEF VIPResetCommand, VIPResetGlobals
    <2>2. QED
      BY <1>1, <1>2, <1>4, <1>5, <1>6, <1>7, <1>8, <2>1, Zenon DEF VIPWrite
  <1>9. VIPThink => VIPRemembersInv'
    <2>1. VIPThink => \/ vip_state' = "NORMAL"
                      \/ UNCHANGED <<vip_state, vip_request, vip_u8LastCmdByte>>
      BY Zenon DEF VIPThink
    <2>2. QED
      BY <1>3, <1>6, <2>1
  <1>10. VIPReset => VIPRemembersInv'
    BY <1>6, Zenon DEF VIPReset, VIPResetGlobals
  <1>11. VIPPlayerMoves \/ UNCHANGED <<playerVars, vip_vars>> => VIPRemembersInv'
    BY <1>3 DEF VIPPlayerMoves, vip_vars, vip_exchange
  <1>12. QED
    BY <1>8, <1>9, <1>10, <1>11, Zenon DEF VIPNext

LEMMA VIPRemembersBegins == VIPInit => VIPRemembersInv
  BY DEF VIPInit, VIPRemembersInv, VIPWaits

-----------------------------------------------------------------------------
(* The exchange, step by step.  A step that tells the host nothing and     *)
(* asks nothing new is one that settles the requests it drops.             *)
VIPTold == RepliesOf("VIP9500SG")

LEMMA VIPSettles ==
  ASSUME NEW settled \in SUBSET VIPAsked, VIPAsked' = VIPAsked \ settled, NEW n \in Nat,
         Len(VIPTold') = n, NEW of \in Injection(1..n, settled),
         \A i \in 1..n : VIPTold'[i] \in VIPAnswers(of[i])
  PROVE  VIPExchange!Settle
  <1>1. of \in VIPExchange!Injection(1..n, settled)
    BY Zenon DEF Injection, IsInjective, VIPExchange!Injection, VIPExchange!IsInjective
  <1>2. QED
    BY <1>1, Zenon DEF VIPExchange!Settle, VIPTold

LEMMA Injections ==
  ASSUME NEW S
  PROVE  /\ \E of : of \in Injection(1..0, S)
         /\ \A r \in S : [i \in 1..1 |-> r] \in Injection(1..1, S)
         /\ \A r, q \in S : r # q =>
              [i \in 1..2 |-> IF i = 1 THEN r ELSE q] \in Injection(1..2, S)
  <1>1. [i \in 1..0 |-> 0] \in Injection(1..0, S)
    BY DEF Injection, IsInjective
  <1>2. \A r \in S : [i \in 1..1 |-> r] \in Injection(1..1, S)
    BY DEF Injection, IsInjective
  <1>3. \A r, q \in S : r # q =>
          [i \in 1..2 |-> IF i = 1 THEN r ELSE q] \in Injection(1..2, S)
    BY DEF Injection, IsInjective
  <1>4. QED
    BY <1>1, <1>2, <1>3, Zenon

LEMMA VIPSilent ==
  ASSUME VIPAsked' \subseteq VIPAsked, VIPTold' = <<>>
  PROVE  VIPExchange!Settle
  <1> DEFINE settled == VIPAsked \ VIPAsked'
  <1>1. settled \in SUBSET VIPAsked /\ VIPAsked' = VIPAsked \ settled
    OBVIOUS
  <1>2. PICK of : of \in Injection(1..0, settled)
    BY Injections, Zenon
  <1>3. 0 \in Nat /\ Len(VIPTold') = 0 /\ \A i \in 1..0 : VIPTold'[i] \in VIPAnswers(of[i])
    OBVIOUS
  <1> HIDE DEF settled
  <1>4. QED
    BY <1>1, <1>2, <1>3, VIPSettles, Zenon

LEMMA VIPAsks ==
  ASSUME NEW r \in VIPRequests, NEW kept \in SUBSET VIPAsked, VIPAsked' = kept \cup {r},
         VIPTold' = <<>>
  PROVE  VIPExchange!Ask(r)
  BY Zenon DEF VIPExchange!Ask, VIPTold

(* The requests, by what they are kept in.                                 *)
VIPCommandAsked == {r \in {vip_request} : vip_state \in VIPWaits}
VIPQueryAsked == {r \in {VIPPicNum} : vip_waitingForPicNum}

LEMMA VIPWriteAsks ==
  ASSUME VIPStateTyped, VIPRemembersInv, NEW b, VIPSends(b), VIPWrite(b), VIPTold' = <<>>
  PROVE  (\E r \in VIPRequests : VIPExchange!Ask(r)) \/ VIPExchange!Settle
  <1> USE VIPWhatIsACommand
  <1>1. VIPAsked = VIPCommandAsked \cup VIPQueryAsked
        /\ VIPAsked' = VIPCommandAsked' \cup VIPQueryAsked'
    BY Zenon DEF VIPAsked, VIPCommandAsked, VIPQueryAsked
  <1>2. ASSUME UNCHANGED vip_waitingForPicNum PROVE VIPQueryAsked' = VIPQueryAsked
    BY <1>2 DEF VIPQueryAsked
  <1>3. ASSUME UNCHANGED vip_waitingForPicNum, vip_request' \in VIPRequests,
               vip_state' \in VIPWaits
        PROVE  \E r \in VIPRequests : VIPExchange!Ask(r)
    <2>1. VIPCommandAsked' = {vip_request'}
      BY <1>3 DEF VIPCommandAsked
    <2>2. VIPQueryAsked \in SUBSET VIPAsked
      BY <1>1
    <2>3. VIPAsked' = VIPQueryAsked \cup {vip_request'}
      BY <1>1, <1>2, <1>3, <2>1
    <2>4. QED
      BY <1>3, <2>2, <2>3, VIPAsks, Zenon
  <1>4. ASSUME UNCHANGED vip_waitingForPicNum,
               UNCHANGED <<vip_state, vip_request>> \/ vip_state' \notin VIPWaits
        PROVE  VIPExchange!Settle
    <2>1. VIPCommandAsked' \subseteq VIPCommandAsked
      BY <1>4 DEF VIPCommandAsked
    <2>2. QED
      BY <1>1, <1>2, <1>4, <2>1, VIPSilent
  <1>5. ASSUME VIPBegin(b) PROVE \E r \in VIPRequests : VIPExchange!Ask(r)
    <2>1. /\ UNCHANGED vip_waitingForPicNum /\ vip_request' = b
          /\ b \in VIPPlay \cup {VIPPause, VIPStepReverse}
          /\ vip_state' \in {"WAITING_FOR_PLAYING", "WAITING_FOR_PLAYING_OR_PAUSED"}
      BY <1>5, Zenon DEF VIPBegin
    <2>2. vip_state' \in VIPWaits
      BY <2>1 DEF VIPWaits
    <2>3. QED
      BY <1>3, <2>1, <2>2, Zenon
  <1>6. ASSUME VIPPrepare(b) PROVE VIPExchange!Settle
    <2>1. UNCHANGED vip_waitingForPicNum
          /\ vip_state' \in {"WAIT_SEARCH", "WAIT_SKIP_FORWARD", "WAIT_SKIP_BACKWARD"}
      BY <1>6, Zenon DEF VIPPrepare
    <2>2. vip_state' \notin VIPWaits
      BY <2>1 DEF VIPWaits
    <2>3. QED
      BY <1>4, <2>1, <2>2
  <1>7. ASSUME VIPDigit(b) \/ VIPAtOnce(b) PROVE VIPExchange!Settle
    <2>1. UNCHANGED <<vip_state, vip_request, vip_waitingForPicNum>>
      BY <1>7 DEF VIPDigit, VIPAtOnce
    <2>2. QED
      BY <1>4, <2>1
  <1>8. ASSUME VIPEnter(b)
        PROVE  (\E r \in VIPRequests : VIPExchange!Ask(r)) \/ VIPExchange!Settle
    <2>1. /\ UNCHANGED vip_waitingForPicNum
          /\ \/ UNCHANGED <<vip_state, vip_request>>
             \/ vip_state' = "SEARCHING" /\ vip_request' = VIPSearch
             \/ /\ vip_request' \in {VIPSkipForward, VIPSkipBackward}
                /\ vip_state' = "WAITING_FOR_PLAYING_OR_PAUSED"
      BY <1>8, Zenon DEF VIPEnter
    <2>2. "SEARCHING" \in VIPWaits /\ "WAITING_FOR_PLAYING_OR_PAUSED" \in VIPWaits
      BY DEF VIPWaits
    <2>3. CASE UNCHANGED <<vip_state, vip_request>>
      BY <1>4, <2>1, <2>3
    <2>4. QED
      BY <1>3, <2>1, <2>2, <2>3, Zenon
  <1>9. ASSUME VIPResetCommand(b) PROVE VIPExchange!Settle
    <2>1. UNCHANGED vip_waitingForPicNum /\ vip_state' = "NORMAL"
      BY <1>9, Zenon DEF VIPResetCommand, VIPResetGlobals
    <2>2. vip_state' \notin VIPWaits
      BY <2>1 DEF VIPWaits
    <2>3. QED
      BY <1>4, <2>1, <2>2
  <1>10. ASSUME VIPQuery(b) PROVE \E r \in VIPRequests : VIPExchange!Ask(r)
    <2>1. VIPCommandAsked' = VIPCommandAsked /\ VIPQueryAsked' = {VIPPicNum}
      BY <1>10 DEF VIPQuery, VIPCommandAsked, VIPQueryAsked
    <2>2. VIPCommandAsked \in SUBSET VIPAsked
      BY <1>1
    <2>3. VIPAsked' = VIPCommandAsked \cup {VIPPicNum}
      BY <1>1, <2>1
    <2>4. QED
      BY <2>2, <2>3, VIPAsks, Zenon
  <1>11. QED
    BY <1>5, <1>6, <1>7, <1>8, <1>9, <1>10, Zenon DEF VIPWrite

(* What the vertical blank tells the host: an answer to the command, which *)
(* is then over, and one to the query, which is then served.               *)
LEMMA VIPAnswerFits ==
  ASSUME VIPRemembersInv, VIPAnswer # <<>>
  PROVE  VIPOver /\ \E w \in VIPAnswers(vip_request) : VIPAnswer = <<w>>
  <1>1. vip_state \in VIPWaits
    BY Zenon DEF VIPAnswer
  <1>2. VIPSearch # VIPPicNum
    BY DEF VIPSearch, VIPPicNum
  <1>3. CASE player.disc \in VIPGoal(vip_state)
    <2>1. VIPOver
      BY <1>1, <1>3 DEF VIPOver, VIPGoal, VIPOnTheWay, VIPWaits
    <2>2. CASE vip_state = "SEARCHING"
      <3>1. VIPAnswer = <<VIPFound>> /\ vip_request = VIPSearch
        BY <1>1, <1>3, <2>2, Zenon DEF VIPAnswer, VIPRemembersInv
      <3>2. VIPFound \in VIPAnswers(vip_request)
        BY <1>2, <3>1 DEF VIPAnswers
      <3>3. QED
        BY <2>1, <3>1, <3>2
    <2>3. CASE vip_state # "SEARCHING"
      <3>1. /\ VIPAnswer = <<VIPSuccess(vip_request)>>
            /\ vip_request # VIPSearch /\ vip_request # VIPPicNum
        BY <1>1, <1>3, <2>3, Zenon DEF VIPAnswer, VIPRemembersInv
      <3>2. VIPSuccess(vip_request) \in VIPAnswers(vip_request)
        BY <3>1 DEF VIPAnswers
      <3>3. QED
        BY <2>1, <3>1, <3>2
    <2>4. QED
      BY <2>2, <2>3
  <1>4. CASE player.disc \notin VIPGoal(vip_state)
    <2>1. /\ VIPAnswer = <<VIPFailed>> /\ vip_state = "SEARCHING"
          /\ player.disc \notin VIPOnTheWay(vip_state)
      BY <1>1, <1>4, Zenon DEF VIPAnswer
    <2>2. vip_request = VIPSearch
      BY <2>1, Zenon DEF VIPRemembersInv
    <2>3. VIPFailed \in VIPAnswers(vip_request)
      BY <2>2 DEF VIPAnswers
    <2>4. VIPOver
      BY <1>1, <2>1, Zenon DEF VIPOver
    <2>5. QED
      BY <2>1, <2>3, <2>4
  <1>5. QED
    BY <1>3, <1>4

LEMMA VIPPictureFits ==
  ASSUME player \in Players, VIPPictureAnswer # <<>>
  PROVE  /\ vip_waitingForPicNum
         /\ \E w \in VIPAnswers(VIPPicNum) : VIPPictureAnswer = <<w>>
  <1>1. vip_waitingForPicNum
        /\ VIPPictureAnswer \in {<<VIPFailed>>, <<VIPPicture(player.pos)>>}
    BY Zenon DEF VIPPictureAnswer, VIPLooksForPicture
  <1>2. player.pos \in 0..LastFrame
    BY DEF Players
  <1>3. VIPSearch # VIPPicNum
    BY DEF VIPSearch, VIPPicNum
  <1>4. VIPAnswers(VIPPicNum) = {VIPPicture(f) : f \in 0..LastFrame} \cup {VIPFailed}
    BY <1>3 DEF VIPAnswers
  <1>5. VIPFailed \in VIPAnswers(VIPPicNum) /\ VIPPicture(player.pos) \in VIPAnswers(VIPPicNum)
    <2> HIDE DEF VIPPicture
    <2>1. QED
      BY <1>2, <1>4
  <1>6. QED
    BY <1>1, <1>5, Zenon

(* A sequence of none or one word followed by another.                     *)
LEMMA Joined ==
  ASSUME NEW s, NEW t, NEW w, NEW v, s = <<>> \/ s = <<w>>, t = <<>> \/ t = <<v>>
  PROVE  /\ s = <<>> /\ t = <<>> => Len(s \o t) = 0
         /\ s = <<w>> /\ t = <<>> => Len(s \o t) = 1 /\ (s \o t)[1] = w
         /\ s = <<>> /\ t = <<v>> => Len(s \o t) = 1 /\ (s \o t)[1] = v
         /\ s = <<w>> /\ t = <<v>> => /\ Len(s \o t) = 2 /\ (s \o t)[1] = w
                                      /\ (s \o t)[2] = v
  <1>1. /\ s \in Seq({w, v}) /\ t \in Seq({w, v})
        /\ (s = <<w>> => Len(s) = 1 /\ s[1] = w) /\ (s = <<>> => Len(s) = 0)
        /\ (t = <<v>> => Len(t) = 1 /\ t[1] = v) /\ (t = <<>> => Len(t) = 0)
    <2>1. \A S : <<>> \in Seq(S) /\ \A x \in S : <<x>> \in Seq(S)
      OBVIOUS
    <2>2. w \in {w, v} /\ v \in {w, v}
      OBVIOUS
    <2>3. s \in Seq({w, v}) /\ t \in Seq({w, v})
      BY <2>1, <2>2, Zenon
    <2>4. \A x : Len(<<x>>) = 1 /\ <<x>>[1] = x
      OBVIOUS
    <2>5. QED
      BY <2>3, <2>4
  <1>2. /\ Len(s \o t) = Len(s) + Len(t)
        /\ \A i \in 1..Len(s) : (s \o t)[i] = s[i]
        /\ \A i \in 1..Len(t) : (s \o t)[Len(s) + i] = t[i]
    BY <1>1
  <1>3. QED
    BY <1>1, <1>2

(* What a vertical blank settles is what it ends or serves.                *)
VIPEnded == IF VIPOver THEN VIPCommandAsked ELSE {}
VIPServed == IF VIPPictureAnswer # <<>> THEN VIPQueryAsked ELSE {}

LEMMA VIPThinkSettles ==
  ASSUME VIPRemembersInv, VIPThink
  PROVE  /\ VIPEnded \cup VIPServed \subseteq VIPAsked
         /\ VIPAsked' = VIPAsked \ (VIPEnded \cup VIPServed)
  <1>1. VIPAsked = VIPCommandAsked \cup VIPQueryAsked
        /\ VIPAsked' = VIPCommandAsked' \cup VIPQueryAsked'
    BY Zenon DEF VIPAsked, VIPCommandAsked, VIPQueryAsked
  <1>2. /\ vip_state' = (IF VIPOver THEN "NORMAL" ELSE vip_state)
        /\ vip_request' = (IF VIPOver THEN 0 ELSE vip_request)
        /\ vip_waitingForPicNum' = (vip_waitingForPicNum /\ VIPPictureAnswer = <<>>)
    BY Zenon DEF VIPThink, VIPQueryServed
  <1>3. VIPCommandAsked' = IF VIPOver THEN {} ELSE VIPCommandAsked
    <2>1. "NORMAL" \notin VIPWaits
      BY DEF VIPWaits
    <2>2. QED
      BY <1>2, <2>1 DEF VIPCommandAsked
  <1>4. VIPQueryAsked' = IF VIPPictureAnswer = <<>> THEN VIPQueryAsked ELSE {}
    BY <1>2 DEF VIPQueryAsked
  <1>5. VIPCommandAsked \cap VIPQueryAsked = {}
    <2>1. vip_state \in VIPWaits => vip_request # VIPPicNum
      BY VIPWhatIsACommand, Zenon DEF VIPRemembersInv
    <2>2. QED
      BY <2>1 DEF VIPCommandAsked, VIPQueryAsked
  <1>6. QED
    BY <1>1, <1>3, <1>4, <1>5 DEF VIPEnded, VIPServed

LEMMA VIPThinkAnswers ==
  ASSUME VIPRemembersInv, player \in Players, VIPThink,
         VIPTold' = VIPAnswer \o VIPPictureAnswer
  PROVE  VIPExchange!Settle
  <1> DEFINE settled == VIPEnded \cup VIPServed
             words == VIPAnswer \o VIPPictureAnswer
  <1>1. settled \in SUBSET VIPAsked /\ VIPAsked' = VIPAsked \ settled
    BY VIPThinkSettles
  <1>2. PICK w : VIPAnswer = <<>> \/ (VIPAnswer = <<w>> /\ w \in VIPAnswers(vip_request))
    BY VIPAnswerFits, Zenon
  <1>3. PICK v : \/ VIPPictureAnswer = <<>>
                 \/ VIPPictureAnswer = <<v>> /\ v \in VIPAnswers(VIPPicNum)
    BY VIPPictureFits, Zenon
  <1>4. /\ VIPAnswer = <<>> /\ VIPPictureAnswer = <<>> => Len(words) = 0
        /\ VIPAnswer = <<w>> /\ VIPPictureAnswer = <<>> => Len(words) = 1 /\ words[1] = w
        /\ VIPAnswer = <<>> /\ VIPPictureAnswer = <<v>> => Len(words) = 1 /\ words[1] = v
        /\ VIPAnswer = <<w>> /\ VIPPictureAnswer = <<v>> =>
             Len(words) = 2 /\ words[1] = w /\ words[2] = v
    <2>1. PICK s, t : s = VIPAnswer /\ t = VIPPictureAnswer
      OBVIOUS
    <2>2. (s = <<>> \/ s = <<w>>) /\ (t = <<>> \/ t = <<v>>)
      BY <1>2, <1>3, <2>1
    <2>3. /\ s = <<>> /\ t = <<>> => Len(s \o t) = 0
          /\ s = <<w>> /\ t = <<>> => Len(s \o t) = 1 /\ (s \o t)[1] = w
          /\ s = <<>> /\ t = <<v>> => Len(s \o t) = 1 /\ (s \o t)[1] = v
          /\ s = <<w>> /\ t = <<v>> => /\ Len(s \o t) = 2 /\ (s \o t)[1] = w
                                       /\ (s \o t)[2] = v
      BY <2>2, Joined
    <2>4. QED
      BY <2>1, <2>3, Zenon
  <1>5. VIPAnswer # <<>> => vip_request \in settled /\ vip_request # VIPPicNum
    <2>1. VIPAnswer # <<>> => vip_state \in VIPWaits /\ VIPOver
      BY VIPAnswerFits, Zenon DEF VIPAnswer
    <2>2. vip_state \in VIPWaits => vip_request # VIPPicNum
      BY VIPWhatIsACommand, Zenon DEF VIPRemembersInv
    <2>3. QED
      BY <2>1, <2>2 DEF VIPEnded, VIPCommandAsked
  <1>6. VIPPictureAnswer # <<>> => VIPPicNum \in settled
    BY VIPPictureFits DEF VIPServed, VIPQueryAsked
  <1>7. VIPTold' = words
    OBVIOUS
  <1> HIDE DEF settled, words
  <1>8. CASE VIPAnswer = <<>> /\ VIPPictureAnswer = <<>>
    <2>1. Len(VIPTold') = 0
      BY <1>4, <1>7, <1>8
    <2>2. PICK of : of \in Injection(1..0, settled)
      BY Injections, Zenon
    <2>3. 0 \in Nat /\ \A i \in 1..0 : VIPTold'[i] \in VIPAnswers(of[i])
      OBVIOUS
    <2>4. QED
      BY <1>1, <2>1, <2>2, <2>3, VIPSettles, Zenon
  <1>9. ASSUME NEW r \in settled, NEW x \in VIPAnswers(r), Len(words) = 1, words[1] = x
        PROVE  VIPExchange!Settle
    <2> DEFINE of == [i \in 1..1 |-> r]
    <2>1. of \in Injection(1..1, settled)
      BY Injections, Zenon
    <2>2. of[1] = r
      OBVIOUS
    <2> HIDE DEF of
    <2>3. \A i \in 1..1 : i = 1
      OBVIOUS
    <2>4. \A i \in 1..1 : VIPTold'[i] \in VIPAnswers(of[i])
      BY <1>7, <1>9, <2>2, <2>3, Zenon
    <2>5. 1 \in Nat /\ Len(VIPTold') = 1
      BY <1>7, <1>9
    <2>6. QED
      BY <1>1, <2>1, <2>4, <2>5, VIPSettles, Zenon
  <1>10. CASE VIPAnswer # <<>> /\ VIPPictureAnswer = <<>>
    BY <1>2, <1>4, <1>5, <1>9, <1>10, Zenon
  <1>11. CASE VIPAnswer = <<>> /\ VIPPictureAnswer # <<>>
    BY <1>3, <1>4, <1>6, <1>9, <1>11, Zenon
  <1>12. CASE VIPAnswer # <<>> /\ VIPPictureAnswer # <<>>
    <2> DEFINE of == [i \in 1..2 |-> IF i = 1 THEN vip_request ELSE VIPPicNum]
    <2>1. vip_request \in settled /\ VIPPicNum \in settled /\ vip_request # VIPPicNum
      BY <1>5, <1>6, <1>12
    <2>2. of \in Injection(1..2, settled)
      BY <2>1, Injections, Zenon
    <2>3. of[1] = vip_request /\ of[2] = VIPPicNum
      OBVIOUS
    <2> HIDE DEF of
    <2>4. /\ Len(words) = 2 /\ words[1] = w /\ words[2] = v
          /\ w \in VIPAnswers(vip_request) /\ v \in VIPAnswers(VIPPicNum)
      BY <1>2, <1>3, <1>4, <1>12, Zenon
    <2>5. \A i \in 1..2 : i = 1 \/ i = 2
      OBVIOUS
    <2>6. \A i \in 1..2 : VIPTold'[i] \in VIPAnswers(of[i])
      BY <1>7, <2>3, <2>4, <2>5, Zenon
    <2>7. 2 \in Nat /\ Len(VIPTold') = 2
      BY <1>7, <2>4
    <2>8. QED
      BY <1>1, <2>2, <2>6, <2>7, VIPSettles, Zenon
  <1>13. QED
    BY <1>8, <1>10, <1>11, <1>12, Zenon

(* Every step is one of the exchange.                                      *)
LEMMA VIPStepExchanges ==
  ASSUME VIPStateTyped, VIPRemembersInv, player \in Players, plugged = "VIP9500SG",
         plugged' = "VIP9500SG", VIPNext
  PROVE  VIPExchange!ExchangeNext
  <1>1. VIPTold' = replies'
    BY DEF VIPTold, RepliesOf
  <1>2. ASSUME NEW b, VIPSends(b), VIPWrite(b) PROVE VIPExchange!ExchangeNext
    <2>1. VIPTold' = <<>>
      BY <1>1, <1>2, VIPWriteCalls, Zenon DEF Do
    <2>2. QED
      BY <1>2, <2>1, VIPWriteAsks, Zenon DEF VIPExchange!ExchangeNext
  <1>3. VIPThink => VIPExchange!ExchangeNext
    <2>1. VIPThink => VIPTold' = VIPAnswer \o VIPPictureAnswer
      BY <1>1, Zenon DEF VIPThink, Do
    <2>2. QED
      BY <2>1, VIPThinkAnswers, Zenon DEF VIPExchange!ExchangeNext
  <1>4. VIPReset \/ VIPPlayerMoves => VIPExchange!ExchangeNext
    <2> SUFFICES ASSUME VIPReset \/ VIPPlayerMoves PROVE VIPExchange!ExchangeNext
      OBVIOUS
    <2>1. VIPTold' = <<>>
      BY <1>1, Zenon DEF VIPReset, Nothing, Do, VIPPlayerMoves, PlayerMoves, Found, Fails,
                         SpunUp, Stepped, Rolls, Becomes
    <2>2. UNCHANGED vip_waitingForPicNum
          /\ (vip_state' = "NORMAL" \/ UNCHANGED <<vip_state, vip_request>>)
      BY Zenon DEF VIPReset, VIPResetGlobals, VIPPlayerMoves, vip_exchange
    <2>3. VIPAsked' \subseteq VIPAsked
      <3>1. "NORMAL" \notin VIPWaits
        BY DEF VIPWaits
      <3>2. QED
        BY <2>2, <3>1 DEF VIPAsked
    <2>4. QED
      BY <2>1, <2>3, VIPSilent, Zenon DEF VIPExchange!ExchangeNext
  <1>5. QED
    BY <1>2, <1>3, <1>4, Zenon DEF VIPNext

(* What all the properties rest on.                                        *)
VIPInv ==
  /\ VIPTypeOK /\ player \in Players /\ plugged = "VIP9500SG"
  /\ VIPRemembersInv

LEMMA VIPInvBegins == plugged = "VIP9500SG" /\ PlayerInit /\ VIPInit => VIPInv
  BY VIPInitTyped, PlayerBegins, VIPRemembersBegins, Zenon DEF VIPInv

LEMMA VIPInvKept ==
  ASSUME VIPInv, [VIPNext]_<<playerVars, vip_vars>>
  PROVE  VIPInv'
  <1>1. VIPTypeOK /\ VIPStateTyped
    BY VIPTypesInParts, Zenon DEF VIPInv
  <1>2. VIPTypeOK' /\ player' \in Players /\ plugged' = "VIP9500SG" /\ VIPRemembersInv'
    BY <1>1, VIPNextTyped, VIPPlayerKept, VIPStaysPlugged, VIPRemembersKept, Zenon DEF VIPInv
  <1>3. QED
    BY <1>2, Zenon DEF VIPInv

(* The interpreter keeps the promise of an exchange: every request of a    *)
(* patient host is answered at most once, by an answer to that request.    *)
THEOREM VIPKeepsItsPromise == VIPSpec => VIPAnswersItsHost
  <1>1. plugged = "VIP9500SG" /\ PlayerInit /\ VIPInit => VIPExchange!ExchangeInit
    <2> SUFFICES ASSUME plugged = "VIP9500SG", PlayerInit, VIPInit
                 PROVE  VIPExchange!ExchangeInit
      OBVIOUS
    <2>1. VIPAsked = {}
      BY DEF VIPInit, VIPAsked, VIPWaits
    <2>2. RepliesOf("VIP9500SG") = <<>>
      BY Zenon DEF RepliesOf, PlayerInit
    <2>3. QED
      BY <2>1, <2>2, Zenon DEF VIPExchange!ExchangeInit
  <1>2. VIPInv /\ [VIPNext]_<<playerVars, vip_vars>>
        => [VIPExchange!ExchangeNext]_(VIPExchange!exchangeVars)
    <2>1. VIPInv /\ VIPNext => VIPExchange!ExchangeNext
      BY VIPStepExchanges, VIPStaysPlugged, VIPTypesInParts, Zenon DEF VIPInv
    <2>2. UNCHANGED <<playerVars, vip_vars>> => UNCHANGED VIPExchange!exchangeVars
      BY DEF VIPExchange!exchangeVars, VIPAsked, RepliesOf, playerVars, vip_vars, vip_exchange
    <2>3. QED
      BY <2>1, <2>2
  <1>3. QED
    BY <1>1, <1>2, VIPInvBegins, VIPInvKept, PTL
       DEF VIPSpec, VIPAnswersItsHost, VIPExchange!ExchangeSpec

-----------------------------------------------------------------------------
(* A vertical blank that is not to report anything answers all it settles. *)
LEMMA VIPSettlesFew ==
  /\ Cardinality(VIPEnded \cup VIPServed) \in Nat
  /\ Cardinality(VIPEnded \cup VIPServed) <= 2
  /\ ~VIPOver \/ VIPPictureAnswer = <<>> => Cardinality(VIPEnded \cup VIPServed) <= 1
  /\ ~VIPOver /\ VIPPictureAnswer = <<>> => Cardinality(VIPEnded \cup VIPServed) = 0
  <1> DEFINE S == VIPEnded \cup VIPServed
  <1>1. /\ S \subseteq {vip_request, VIPPicNum}
        /\ ~VIPOver => S \subseteq {VIPPicNum}
        /\ VIPPictureAnswer = <<>> => S \subseteq {vip_request}
        /\ ~VIPOver /\ VIPPictureAnswer = <<>> => S = {}
    BY DEF VIPEnded, VIPServed, VIPCommandAsked, VIPQueryAsked
  <1>2. Cardinality({}) = 0 /\ \A x : Cardinality({x}) = 1 /\ IsFiniteSet({x})
    BY FS_EmptySet, FS_Singleton, Zenon
  <1>3. \A x, y : Cardinality({x, y}) \in {1, 2} /\ IsFiniteSet({x, y})
    <2> SUFFICES ASSUME NEW x, NEW y
                 PROVE  Cardinality({x, y}) \in {1, 2} /\ IsFiniteSet({x, y})
      OBVIOUS
    <2>1. IsFiniteSet({x}) /\ Cardinality({x}) = 1
      BY <1>2, Zenon
    <2>2. /\ IsFiniteSet({x} \cup {y})
          /\ Cardinality({x} \cup {y}) = IF y \in {x} THEN Cardinality({x})
                                         ELSE Cardinality({x}) + 1
      BY <2>1, FS_AddElement, Zenon
    <2>3. {x} \cup {y} = {x, y}
      OBVIOUS
    <2>4. QED
      BY <2>1, <2>2, <2>3
  <1> HIDE DEF S
  <1>4. \A T : IsFiniteSet(T) /\ S \subseteq T =>
          /\ Cardinality(S) \in Nat /\ Cardinality(T) \in Nat
          /\ Cardinality(S) <= Cardinality(T)
    BY FS_Subset, FS_CardinalityType, Zenon
  <1>5. QED
    <2>1. Cardinality(S) \in Nat /\ Cardinality(S) <= 2
      <3>1. PICK T : T = {vip_request, VIPPicNum}
        OBVIOUS
      <3>2. S \subseteq T /\ IsFiniteSet(T) /\ Cardinality(T) \in {1, 2}
        BY <1>1, <1>3, <3>1
      <3>3. QED
        BY <1>4, <3>2
    <2>2. ~VIPOver \/ VIPPictureAnswer = <<>> => Cardinality(S) <= 1
      <3>1. ASSUME NEW x, S \subseteq {x} PROVE Cardinality(S) <= 1
        BY <1>2, <1>4, <3>1
      <3>2. QED
        BY <1>1, <3>1, Zenon
    <2>3. ~VIPOver /\ VIPPictureAnswer = <<>> => Cardinality(S) = 0
      BY <1>1, <1>2
    <2>4. QED
      BY <2>1, <2>2, <2>3 DEF S

LEMMA VIPThinkReports ==
  ASSUME VIPInv, VIPThink, Len(replies') < Cardinality(VIPAsked \ VIPAsked')
  PROVE  calls' = <<Error>>
  <1>1. VIPAsked \ VIPAsked' = VIPEnded \cup VIPServed
    BY VIPThinkSettles DEF VIPInv
  <1>2. replies' = VIPAnswer \o VIPPictureAnswer
        /\ calls' = IF VIPUnhandled THEN <<Error>> ELSE <<>>
    BY Zenon DEF VIPThink, Do
  <1>3. SUFFICES ASSUME ~VIPUnhandled PROVE FALSE
    BY <1>2, Zenon
  <1>4. VIPOver => VIPAnswer # <<>>
    <2> SUFFICES ASSUME VIPOver PROVE VIPAnswer # <<>>
      OBVIOUS
    <2>1. vip_state \in VIPWaits /\ player.disc \notin VIPOnTheWay(vip_state)
      BY Zenon DEF VIPOver
    <2>2. vip_state # "SEARCHING" => player.disc \in VIPGoal(vip_state)
      BY <1>3, <2>1, Zenon DEF VIPUnhandled
    <2>3. VIPAnswer \in {<<VIPFound>>, <<VIPFailed>>, <<VIPSuccess(vip_u8LastCmdByte)>>}
      BY <2>1, <2>2, Zenon DEF VIPAnswer
    <2>4. QED
      BY <2>3
  <1>5. PICK w : VIPAnswer = <<>> \/ VIPAnswer = <<w>>
    BY VIPAnswerFits, Zenon DEF VIPInv
  <1>6. PICK v : VIPPictureAnswer = <<>> \/ VIPPictureAnswer = <<v>>
    BY VIPPictureFits, Zenon DEF VIPInv
  <1>7. PICK s, t : s = VIPAnswer /\ t = VIPPictureAnswer
    OBVIOUS
  <1>8. (s = <<>> \/ s = <<w>>) /\ (t = <<>> \/ t = <<v>>)
    BY <1>5, <1>6, <1>7
  <1>9. Len(s \o t) = (IF s = <<>> THEN 0 ELSE 1) + (IF t = <<>> THEN 0 ELSE 1)
    BY <1>8, Joined
  <1>10. Len(replies') = Len(s \o t)
    BY <1>2, <1>7, Zenon
  <1>11. PICK k : k = Cardinality(VIPEnded \cup VIPServed)
    OBVIOUS
  <1>12. /\ k \in Nat /\ k <= 2 /\ (~VIPOver \/ t = <<>> => k <= 1)
         /\ (~VIPOver /\ t = <<>> => k = 0)
    BY <1>7, <1>11, VIPSettlesFew
  <1>13. Len(replies') < k
    BY <1>1, <1>11, Zenon
  <1>14. VIPOver => s # <<>>
    BY <1>4, <1>7
  <1>15. QED
    BY <1>9, <1>10, <1>12, <1>13, <1>14

(* A request that a vertical blank drops without an answer is reported to  *)
(* the implementor.                                                        *)
THEOREM VIPReportsDrops == VIPSpec => VIPDropsAreReported
  <1> DEFINE Reports ==
        vip_field' # vip_field /\ Len(replies') < Cardinality(VIPAsked \ VIPAsked')
          => VIPCalled' = <<Error>>
  <1>1. VIPInv /\ [VIPNext]_<<playerVars, vip_vars>> => [Reports]_<<playerVars, vip_vars>>
    <2> SUFFICES ASSUME VIPInv, VIPNext PROVE Reports
      OBVIOUS
    <2>1. plugged' = "VIP9500SG"
      BY VIPStaysPlugged, Zenon DEF VIPInv
    <2>2. VIPCalled' = calls'
      BY <2>1 DEF VIPCalled, CallsOf
    <2>3. VIPThink \/ UNCHANGED vip_field
      BY Zenon DEF VIPNext, VIPWrite, VIPBegin, VIPPrepare, VIPDigit, VIPEnter, VIPBy,
                   VIPResetCommand, VIPQuery, VIPAtOnce, VIPReset, VIPPlayerMoves
    <2>4. QED
      BY <2>2, <2>3, VIPThinkReports, Zenon
  <1>2. QED
    BY <1>1, VIPInvBegins, VIPInvKept, PTL DEF VIPSpec, VIPDropsAreReported

-----------------------------------------------------------------------------
(* The ring holds the last of the digits keyed.                            *)
VIPRingInv ==
  /\ vip_count = IF Len(vip_keyed) < VIPNumSize THEN Len(vip_keyed) ELSE VIPNumSize
  /\ \A i \in 1..vip_count :
       VIPCells[i] = vip_keyed[Len(vip_keyed) - vip_count + i]

LEMMA VIPRingInvDigit ==
  ASSUME VIPRingTyped, VIPRingInv, NEW d \in 0..9, VIPAddDigit(d)
  PROVE  VIPRingInv'
  <1>1. VIPNumSize \in Nat \ {0}
    BY VIPAssumption
  <1>2. vip_start \in 0..(VIPNumSize - 1) /\ vip_count \in 0..VIPNumSize
    BY Zenon DEF VIPRingTyped
  <1>3. PICK l \in Nat : l = Len(vip_keyed)
    BY DEF VIPRingTyped
  <1>4. /\ Len(vip_keyed') = l + 1 /\ vip_keyed'[l + 1] = d
        /\ \A i \in 1..l : vip_keyed'[i] = vip_keyed[i]
    BY <1>3 DEF VIPAddDigit, VIPRingTyped
  <1>5. vip_count = IF l < VIPNumSize THEN l ELSE VIPNumSize
    BY <1>3, Zenon DEF VIPRingInv
  <1>6. \A i \in 1..vip_count : VIPCells[i] = vip_keyed[l - vip_count + i]
    BY <1>3 DEF VIPRingInv
  <1>7. \A k \in 0..(VIPNumSize + VIPNumSize - 1) :
          VIPWrap(k) = IF k < VIPNumSize THEN k ELSE k - VIPNumSize
    BY VIPWrapIs
  <1>8. \A i \in 1..vip_count :
          VIPCells[i] = vip_num_buf[IF vip_start + i - 1 < VIPNumSize THEN vip_start + i - 1
                                    ELSE vip_start + i - 1 - VIPNumSize]
    <2>1. ASSUME NEW i \in 1..vip_count
          PROVE  VIPCells[i] = vip_num_buf[VIPWrap(vip_start + i - 1)]
      BY <1>1, <1>2 DEF VIPCells
    <2>2. QED
      BY <1>1, <1>2, <1>7, <2>1
  <1>9. \A i \in 1..vip_count' :
          VIPCells'[i] = vip_num_buf'[VIPWrap(vip_start' + i - 1)]
    BY DEF VIPCells
  <1>10. PICK new \in 0..(VIPNumSize - 1) :
           /\ new = IF vip_start + vip_count < VIPNumSize THEN vip_start + vip_count
                    ELSE vip_start + vip_count - VIPNumSize
           /\ new = VIPWrap(vip_start + vip_count)
    BY <1>1, <1>2, <1>7
  <1>11. /\ vip_num_buf'[new] = d
         /\ \A k \in 0..(VIPNumSize - 1) : k # new => vip_num_buf'[k] = vip_num_buf[k]
    BY <1>10 DEF VIPAddDigit, VIPRingTyped
  <1>12. CASE vip_count < VIPNumSize /\ vip_count' = vip_count + 1 /\ UNCHANGED vip_start
    <2>1. l = vip_count /\ Len(vip_keyed') = vip_count'
      BY <1>1, <1>2, <1>4, <1>5, <1>12
    <2>2. ASSUME NEW i \in 1..vip_count' PROVE VIPCells'[i] = vip_keyed'[i]
      <3>1. CASE i = vip_count + 1
        <4>1. vip_start' + i - 1 = vip_start + vip_count
          BY <1>2, <1>12, <3>1
        <4>2. QED
          BY <1>4, <1>9, <1>10, <1>11, <2>1, <3>1, <4>1
      <3>2. CASE i \in 1..vip_count
        <4>1. PICK k : k = IF vip_start + i - 1 < VIPNumSize THEN vip_start + i - 1
                           ELSE vip_start + i - 1 - VIPNumSize
          OBVIOUS
        <4>2. k \in 0..(VIPNumSize - 1) /\ k # new /\ VIPWrap(vip_start' + i - 1) = k
          BY <1>1, <1>2, <1>7, <1>10, <1>12, <3>2, <4>1
        <4>3. VIPCells'[i] = vip_num_buf[k]
          BY <1>9, <1>11, <4>2
        <4>4. VIPCells[i] = vip_num_buf[k]
          BY <1>8, <3>2, <4>1
        <4>5. VIPCells[i] = vip_keyed[i]
          BY <1>2, <1>6, <2>1, <3>2
        <4>6. QED
          BY <1>4, <2>1, <3>2, <4>3, <4>4, <4>5
      <3>3. QED
        BY <1>2, <1>12, <3>1, <3>2
    <2>3. QED
      <3>1. vip_count' \in Nat /\ vip_count' <= VIPNumSize
        BY <1>1, <1>2, <1>12
      <3>2. \A i \in 1..vip_count' : VIPCells'[i] = vip_keyed'[Len(vip_keyed') - vip_count' + i]
        <4> SUFFICES ASSUME NEW i \in 1..vip_count'
                     PROVE  VIPCells'[i] = vip_keyed'[Len(vip_keyed') - vip_count' + i]
          OBVIOUS
        <4>1. Len(vip_keyed') - vip_count' + i = i
          <5>1. PICK k \in Nat : k = vip_count'
            BY <3>1
          <5>2. k - k + i = i
            <6>1. \A j \in 1..k : k - k + j = j
              OBVIOUS
            <6>2. QED
              BY <5>1, <6>1, Zenon
          <5>3. QED
            BY <2>1, <5>1, <5>2, Zenon
        <4>2. QED
          BY <2>2, <4>1
      <3>3. vip_count' = IF Len(vip_keyed') < VIPNumSize THEN Len(vip_keyed') ELSE VIPNumSize
        BY <1>1, <2>1, <3>1
      <3>4. QED
        BY <3>2, <3>3, Zenon DEF VIPRingInv
  <1>13. CASE /\ vip_count = VIPNumSize
              /\ vip_start' = VIPWrap(vip_start + 1) /\ UNCHANGED vip_count
    <2>1. l >= VIPNumSize /\ new = vip_start
      BY <1>1, <1>2, <1>5, <1>10, <1>13
    <2>2. vip_start' = IF vip_start + 1 < VIPNumSize THEN vip_start + 1 ELSE 0
      BY <1>1, <1>2, <1>7, <1>13
    <2>3. ASSUME NEW i \in 1..VIPNumSize
          PROVE  VIPCells'[i] = vip_keyed'[l + 1 - VIPNumSize + i]
      <3>1. PICK k \in 0..(VIPNumSize - 1) :
              k = IF vip_start + i < VIPNumSize THEN vip_start + i
                  ELSE vip_start + i - VIPNumSize
        <4>1. (IF vip_start + i < VIPNumSize THEN vip_start + i
               ELSE vip_start + i - VIPNumSize) \in 0..(VIPNumSize - 1)
          BY <1>1, <1>2
        <4>2. QED
          BY <4>1, Zenon
      <3>2. VIPWrap(vip_start' + i - 1) = k
        BY <1>1, <1>2, <1>7, <2>2, <3>1
      <3>3. VIPCells'[i] = vip_num_buf'[k]
        BY <1>9, <1>13, <3>2
      <3>4. CASE i = VIPNumSize
        <4>1. k = new /\ l + 1 - VIPNumSize + i = l + 1
          BY <1>1, <1>2, <2>1, <3>1, <3>4
        <4>2. QED
          BY <1>4, <1>11, <3>3, <4>1
      <3>5. CASE i # VIPNumSize
        <4>1. k # new /\ i + 1 \in 1..vip_count
          BY <1>1, <1>2, <1>13, <2>1, <3>1, <3>5
        <4>2. VIPCells[i + 1] = vip_num_buf[k]
          BY <1>1, <1>2, <1>8, <3>1, <4>1
        <4>3. VIPCells[i + 1] = vip_keyed[l - VIPNumSize + (i + 1)]
          BY <1>6, <1>13, <4>1
        <4>4. /\ l - VIPNumSize + (i + 1) = l + 1 - VIPNumSize + i
              /\ l + 1 - VIPNumSize + i \in 1..l
          BY <1>1, <2>1, <3>5
        <4>5. QED
          BY <1>4, <1>11, <3>3, <4>1, <4>2, <4>3, <4>4
      <3>6. QED
        BY <3>4, <3>5
    <2>4. vip_count' = IF Len(vip_keyed') < VIPNumSize THEN Len(vip_keyed') ELSE VIPNumSize
      BY <1>1, <1>4, <1>13, <2>1
    <2>5. \A i \in 1..vip_count' : VIPCells'[i] = vip_keyed'[Len(vip_keyed') - vip_count' + i]
      <3> SUFFICES ASSUME NEW i \in 1..vip_count'
                   PROVE  VIPCells'[i] = vip_keyed'[Len(vip_keyed') - vip_count' + i]
        OBVIOUS
      <3>1. i \in 1..VIPNumSize /\ Len(vip_keyed') - vip_count' + i = l + 1 - VIPNumSize + i
        BY <1>1, <1>4, <1>13
      <3>2. QED
        BY <2>3, <3>1
    <2>6. QED
      BY <2>4, <2>5, Zenon DEF VIPRingInv
  <1>14. QED
    BY <1>12, <1>13, Zenon DEF VIPAddDigit, VIPRingTurns

LEMMA VIPRingInvKept ==
  ASSUME VIPRingTyped, VIPRingInv, [VIPNext]_<<playerVars, vip_vars>>
  PROVE  VIPRingInv'
  <1>1. VIPNumSize \in Nat \ {0} /\ VIPBytes \subseteq 0..255
    BY VIPAssumption
  <1>2. ASSUME vip_count' = 0, vip_keyed' = <<>> PROVE VIPRingInv'
    BY <1>1, <1>2 DEF VIPRingInv
  <1>3. VIPResetFrame \/ VIPProcessNumber => VIPRingInv'
    BY <1>2, Zenon DEF VIPResetFrame, VIPProcessNumber
  <1>4. UNCHANGED vip_number => VIPRingInv'
    BY DEF vip_number, VIPRingInv, VIPCells
  <1>5. \A b \in VIPDigits : b - 48 \in 0..9
    BY DEF VIPDigits
  <1>6. ASSUME NEW b, VIPWrite(b) PROVE VIPRingInv'
    <2>1. \/ VIPResetFrame \/ VIPProcessNumber \/ UNCHANGED vip_number
          \/ b \in VIPDigits /\ VIPAddDigit(b - 48)
      BY <1>6, Zenon DEF VIPWrite, VIPBegin, VIPPrepare, VIPDigit, VIPEnter,
                         VIPResetCommand, VIPResetGlobals, VIPQuery, VIPAtOnce
    <2>2. QED
      BY <1>3, <1>4, <1>5, <2>1, VIPRingInvDigit, Zenon
  <1>7. VIPThink \/ VIPReset \/ VIPPlayerMoves => VIPResetFrame \/ UNCHANGED vip_number
    BY Zenon DEF VIPThink, VIPReset, VIPResetGlobals, VIPPlayerMoves
  <1>8. UNCHANGED <<playerVars, vip_vars>> => UNCHANGED vip_number
    BY DEF vip_vars
  <1>9. QED
    BY <1>3, <1>4, <1>6, <1>7, <1>8, Zenon DEF VIPNext

LEMMA VIPRingInvBegins == VIPInit => VIPRingInv
  BY VIPAssumption DEF VIPInit, VIPRingInv

(* So the number in the ring is that of the last digits.                   *)
LEMMA VIPFrameIsKeyed ==
  ASSUME VIPRingTyped, VIPRingInv
  PROVE  VIPFrame = VIPValue(VIPLastDigits)
  <1>1. VIPNumSize \in Nat \ {0}
    BY VIPAssumption
  <1>2. PICK l \in Nat : l = Len(vip_keyed)
    BY DEF VIPRingTyped
  <1>3. vip_count = IF l < VIPNumSize THEN l ELSE VIPNumSize
    BY <1>2, Zenon DEF VIPRingInv
  <1>4. Max({1, l - VIPNumSize + 1}) = l - vip_count + 1
    <2> DEFINE m == l - vip_count + 1
    <2>1. m \in {1, l - VIPNumSize + 1} /\ \A x \in {1, l - VIPNumSize + 1} : m >= x
      BY <1>1, <1>3
    <2>2. \A x \in {1, l - VIPNumSize + 1} :
            (\A y \in {1, l - VIPNumSize + 1} : x >= y) => x = m
      BY <1>1, <1>3
    <2> HIDE DEF m
    <2>3. Max({1, l - VIPNumSize + 1}) = m
      BY <2>1, <2>2, Zenon DEF Max
    <2>4. QED
      BY <2>3 DEF m
  <1>5. VIPLastDigits = SubSeq(vip_keyed, l - vip_count + 1, l)
    BY <1>2, <1>4, Zenon DEF VIPLastDigits
  <1>6. SubSeq(vip_keyed, l - vip_count + 1, l)
        = [i \in 1..vip_count |-> vip_keyed[l - vip_count + i]]
    <2>1. vip_keyed \in Seq(0..9) /\ vip_count \in 0..l
      BY <1>1, <1>2, <1>3 DEF VIPRingTyped
    <2>2. PICK m \in Int : m = l - vip_count + 1
      BY <2>1
    <2>3. \A i \in m..l : vip_keyed[i] \in 0..9
      BY <1>2, <2>1, <2>2
    <2>4. PICK q : q = SubSeq(vip_keyed, m, l)
      OBVIOUS
    <2> DEFINE D == 0..9
    <2>41. l \in Int /\ \A i \in m..l : vip_keyed[i] \in D
      BY <2>3
    <2> HIDE DEF D
    <2>42. /\ SubSeq(vip_keyed, m, l) \in Seq(D)
           /\ Len(SubSeq(vip_keyed, m, l)) = IF m <= l THEN l - m + 1 ELSE 0
           /\ \A i \in 1..(l - m + 1) : SubSeq(vip_keyed, m, l)[i] = vip_keyed[m + i - 1]
      BY <2>41, SubSeqProperties
    <2>5. /\ q \in Seq(0..9) /\ Len(q) = IF m <= l THEN l - m + 1 ELSE 0
          /\ \A i \in 1..(l - m + 1) : q[i] = vip_keyed[m + i - 1]
      BY <2>4, <2>42 DEF D
    <2>6. Len(q) = vip_count /\ l - m + 1 = vip_count
      BY <2>1, <2>2, <2>5
    <2>7. \A i \in 1..vip_count : q[i] = vip_keyed[l - vip_count + i]
      <3> SUFFICES ASSUME NEW i \in 1..vip_count PROVE q[i] = vip_keyed[l - vip_count + i]
        OBVIOUS
      <3>1. m + i - 1 = l - vip_count + i
        BY <2>1, <2>2
      <3>2. QED
        BY <2>5, <2>6, <3>1
    <2>8. q = [i \in 1..vip_count |-> vip_keyed[l - vip_count + i]]
      BY <2>5, <2>6, <2>7
    <2>9. QED
      BY <2>2, <2>4, <2>8, Zenon
  <1>7. VIPCells = [i \in 1..vip_count |-> vip_keyed[l - vip_count + i]]
    BY <1>2, Zenon DEF VIPRingInv, VIPCells
  <1>8. VIPFrame = VIPValue(VIPCells)
    BY Zenon DEF VIPFrame, VIPCells
  <1>9. QED
    BY <1>5, <1>6, <1>7, <1>8, Zenon

(* A search or a skip goes where the last digits keyed since it was begun  *)
(* say, however many were keyed and however often the ring has turned.     *)
THEOREM VIPEntersDigits == VIPSpec => VIPEntersLastDigits
  <1> DEFINE Enters ==
        \A c \in ToSet(VIPCalled') :
          /\ c.cb = "begin_search" => c.arg = VIPValue(VIPLastDigits)
          /\ c.cb = "skip" =>
               c.arg \in {1 + VIPValue(VIPLastDigits), 1 - VIPValue(VIPLastDigits)}
  <1>1. VIPInv /\ VIPRingInv /\ [VIPNext]_<<playerVars, vip_vars>>
        => [Enters]_<<playerVars, vip_vars>>
    <2> SUFFICES ASSUME VIPInv, VIPRingInv, VIPNext PROVE Enters
      OBVIOUS
    <2>1. VIPCalled' = calls'
      BY VIPStaysPlugged DEF VIPInv, VIPCalled, CallsOf
    <2>2. VIPRingTyped
      BY VIPTypesInParts, Zenon DEF VIPInv
    <2>3. PICK n \in Nat : n = VIPFrame /\ n = VIPValue(VIPLastDigits)
      BY <2>2, VIPFrameTyped, VIPFrameIsKeyed
    <2>4. \/ calls' = <<>>
          \/ \E c \in {Error, Call("pause", 0), Call("play", 0), Call("step", -1),
                       Call("stop", 0), Call("begin_search", n), Call("skip", n + 1),
                       Call("skip", 1 - n)} : calls' = <<c>>
      <3>1. ASSUME NEW b, VIPWrite(b)
            PROVE  \/ calls' = <<>>
                   \/ \E c \in {Error, Call("pause", 0), Call("play", 0), Call("step", -1),
                                Call("stop", 0), Call("begin_search", n), Call("skip", n + 1),
                                Call("skip", 1 - n)} : calls' = <<c>>
        BY <2>3, <3>1, VIPWriteCalls, Zenon DEF Do
      <3>2. VIPThink => calls' \in {<<>>, <<Error>>}
        BY Zenon DEF VIPThink, Do
      <3>3. VIPReset \/ VIPPlayerMoves => calls' = <<>>
        BY Zenon DEF VIPReset, Nothing, Do, VIPPlayerMoves, PlayerMoves, Found, Fails,
                     SpunUp, Stepped, Rolls, Becomes
      <3>4. QED
        BY <3>1, <3>2, <3>3, Zenon DEF VIPNext
    <2>5. ASSUME NEW c \in ToSet(calls')
          PROVE  /\ c.cb = "begin_search" => c.arg = n
                 /\ c.cb = "skip" => c.arg \in {1 + n, 1 - n}
      <3>1. ToSet(<<>>) = {} /\ \A x : ToSet(<<x>>) = {x}
        BY DEF ToSet
      <3>2. c \in {Error, Call("pause", 0), Call("play", 0), Call("step", -1),
                   Call("stop", 0), Call("begin_search", n), Call("skip", n + 1),
                   Call("skip", 1 - n)}
        BY <2>4, <2>5, <3>1, Zenon
      <3>3. QED
        BY <3>2 DEF Error, Call
    <2>6. QED
      BY <2>1, <2>3, <2>5, Zenon
  <1>2. VIPInv => VIPRingTyped
    BY VIPTypesInParts, Zenon DEF VIPInv
  <1>3. QED
    BY <1>1, <1>2, VIPInvBegins, VIPInvKept, VIPRingInvBegins, VIPRingInvKept, PTL
       DEF VIPSpec, VIPEntersLastDigits
=============================================================================
