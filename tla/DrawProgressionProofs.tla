------------------------ MODULE DrawProgressionProofs ------------------------
(***************************************************************************)
(* Theorems of DrawProgression, for any number of rounds, any BYEs and any *)
(* calls.                                                                  *)
(*                                                                         *)
(* Stands is an invariant of every call: whoever stands in a matchUp comes *)
(* from its part of the draw, and only a matchUp of two participants has a *)
(* winner.  What a removal empties therefore lies below its matchUp, where *)
(* nothing was played, and no call changes a result but its own (Steady).  *)
(*                                                                         *)
(* Bracket adds that places follow results.  A WALKOVER that does not say  *)
(* who won blanks the winner of a decided matchUp and leaves them in the   *)
(* next (the run draw_relabel); until such a call is made, Bracket is      *)
(* invariant.  A call that writes one result keeps it when the next        *)
(* matchUp is changed with it (Rewired), and the participants of a         *)
(* corrected matchUp may change places everywhere after it, because they   *)
(* stand on the same side of whoever else comes there (SidesStay).         *)
(***************************************************************************)
EXTENDS DrawProgression, TLAPS, FiniteSetTheorems, WellFoundedInduction

-----------------------------------------------------------------------------
(* Powers of two, division.                                                *)

\* The least element of a set of numbers.
\* There are 2^n sets of n numbers; that is how powers of two enter here.
LEMMA PowerOfTwo == \A n \in Nat : 2^n \in Nat
<1> TAKE n \in Nat
<1>1. IsFiniteSet(1 .. n) /\ Cardinality(1 .. n) = n
  BY FS_Interval
<1>2. IsFiniteSet(SUBSET (1 .. n)) /\ Cardinality(SUBSET (1 .. n)) = 2^n
  BY <1>1, FS_SUBSET
<1> QED
  BY <1>2, FS_CardinalityType

LEMMA Doubles == \A n \in Nat : 2^(n + 1) = 2 * 2^n
<1> TAKE n \in Nat
<1> DEFINE S == SUBSET (1 .. n)
           T == {A \cup {n + 1} : A \in S}
<1>1. IsFiniteSet(1 .. n) /\ Cardinality(1 .. n) = n
  BY FS_Interval
<1>2. IsFiniteSet(1 .. n + 1) /\ Cardinality(1 .. n + 1) = n + 1
  BY FS_Interval
<1>3. IsFiniteSet(S) /\ Cardinality(S) = 2^n
  BY <1>1, FS_SUBSET
<1>4. Cardinality(SUBSET (1 .. n + 1)) = 2^(n + 1)
  BY <1>2, FS_SUBSET
<1>5. SUBSET (1 .. n + 1) = S \cup T
  <2>1. ASSUME NEW B \in SUBSET (1 .. n + 1), n + 1 \in B
        PROVE  B \in T
    <3>1. B \ {n + 1} \in S
      OBVIOUS
    <3>2. B = (B \ {n + 1}) \cup {n + 1}
      BY <2>1
    <3> QED
      BY <3>1, <3>2
  <2>2. ASSUME NEW B \in SUBSET (1 .. n + 1), n + 1 \notin B
        PROVE  B \in S
    BY <2>2
  <2>3. S \subseteq SUBSET (1 .. n + 1)
    <3>1. 1 .. n \subseteq 1 .. n + 1
      OBVIOUS
    <3>2. ASSUME NEW A \in S
          PROVE  A \subseteq 1 .. n + 1
      <4>1. A \subseteq 1 .. n
        OBVIOUS
      <4> HIDE DEF S
      <4> QED
        BY <3>1, <4>1
    <3> HIDE DEF S
    <3> QED
      BY <3>2
  <2>4. T \subseteq SUBSET (1 .. n + 1)
    <3>1. n + 1 \in 1 .. n + 1
      OBVIOUS
    <3>2. ASSUME NEW B \in T
          PROVE  B \subseteq 1 .. n + 1
      <4>1. PICK A \in S : B = A \cup {n + 1}
        OBVIOUS
      <4>2. A \subseteq 1 .. n + 1
        BY <2>3
      <4> HIDE DEF S, T
      <4> QED
        BY <3>1, <4>1, <4>2
    <3> HIDE DEF S, T
    <3> QED
      BY <3>2
  <2> QED
    BY <2>1, <2>2, <2>3, <2>4
<1>6. S \cap T = {}
  OBVIOUS
<1>7. IsFiniteSet(T) /\ Cardinality(T) = Cardinality(S)
  <2> DEFINE f == [A \in S |-> A \cup {n + 1}]
  <2>1. f \in [S -> T]
    OBVIOUS
  <2>2. \A A, B \in S : f[A] = f[B] => A = B
    <3>1. \A A \in S : (A \cup {n + 1}) \ {n + 1} = A
      OBVIOUS
    <3> QED
      BY <3>1
  <2>3. \A B \in T : \E A \in S : f[A] = B
    OBVIOUS
  <2>4. f \in Bijection(S, T)
    BY <2>1, <2>2, <2>3 DEF Bijection, Injection, Surjection, IsInjective
  <2>5. ExistsBijection(S, T)
    BY <2>4 DEF ExistsBijection
  <2> QED
    BY <1>3, <2>5, FS_Bijection
<1> HIDE DEF S, T
<1>8. Cardinality(S \cup T) = Cardinality(S) + Cardinality(T) - 0
  BY <1>3, <1>6, <1>7, FS_Union, FS_EmptySet
<1>9. 2^n \in Nat
  BY PowerOfTwo
<1>10. 2^(n + 1) = Cardinality(S \cup T)
  BY <1>4, <1>5
<1>11. Cardinality(S \cup T) = 2^n + 2^n - 0
  BY <1>3, <1>7, <1>8
<1> QED
  BY <1>9, <1>10, <1>11

\* A set of numbers has a least one: StrictSubset is well founded on its initial segments.
LEMMA LeastNumber ==
  ASSUME NEW S \in SUBSET Nat, S # {}
  PROVE  \E x \in S : \A y \in S : x <= y
<1> DEFINE Initial == {0 .. k : k \in S}
<1>1. Initial # {} /\ Initial \subseteq FiniteSubsetsOf(Nat)
  <2>1. \A k \in S : 0 .. k \in SUBSET Nat /\ IsFiniteSet(0 .. k)
    BY FS_Interval
  <2> QED
    BY <2>1 DEF FiniteSubsetsOf
<1>2. PICK low \in Initial : \A b \in Initial : ~ (<<b, low>> \in StrictSubsetOrdering(Nat))
  <2>1. IsWellFoundedOn(StrictSubsetOrdering(Nat), FiniteSubsetsOf(Nat))
    BY FS_StrictSubsetOrderingWellFounded
  <2> QED
    BY <1>1, <2>1, WFMin
<1>3. PICK x \in S : low = 0 .. x
  BY <1>2
<1>4. ASSUME NEW y \in S
      PROVE  x <= y
  <2>1. 0 .. y \in Initial /\ 0 .. y \subseteq Nat /\ 0 .. x \subseteq Nat
    OBVIOUS
  <2>2. ~ (0 .. y \subseteq 0 .. x /\ 0 .. y # 0 .. x)
    BY <1>2, <1>3, <2>1 DEF StrictSubsetOrdering
  <2>3. CASE y < x
    <3>1. x \in 0 .. x /\ x \notin 0 .. y /\ 0 .. y \subseteq 0 .. x
      BY <2>3
    <3> QED
      BY <2>2, <3>1
  <2> QED
    BY <2>3
<1> QED
  BY <1>4

LEMMA PowerOfZero == \A n \in Nat : n = 0 => 2^n = 1
<1> SUFFICES ASSUME NEW n \in Nat, n = 0
             PROVE  2^n = 1
  OBVIOUS
<1>1. IsFiniteSet(1 .. n) /\ Cardinality(1 .. n) = n
  BY FS_Interval
<1>2. Cardinality(SUBSET (1 .. n)) = 2^n
  BY <1>1, FS_SUBSET
<1>3. SUBSET (1 .. n) = {{}}
  OBVIOUS
<1>4. Cardinality(SUBSET (1 .. n)) = 1
  BY <1>3, FS_Singleton
<1> QED
  BY <1>2, <1>4

\* By the least number of which it would not hold, as PowerOfSum.
LEMMA PowerPositive == \A n \in Nat : 2^n \in Nat \ {0}
<1> DEFINE S == {n \in Nat : 2^n = 0}
<1>1. CASE S = {}
  BY <1>1, PowerOfTwo
<1>2. CASE S # {}
  <2>1. PICK n \in S : \A k \in S : n <= k
    BY <1>2, LeastNumber
  <2>2. n # 0
    BY <2>1, PowerOfZero
  <2>3. n - 1 \in Nat /\ 2^((n - 1) + 1) = 2 * 2^(n - 1) /\ (n - 1) + 1 = n
    BY <2>1, <2>2, Doubles
  <2>4. 2^(n - 1) = 0
    BY <2>1, <2>3, PowerOfTwo
  <2>5. n - 1 \in S /\ ~ (n <= n - 1)
    BY <2>1, <2>3, <2>4
  <2> QED
    BY <2>1, <2>5
<1> QED
  BY <1>1, <1>2

LEMMA PowerOfSum == \A i, j \in Nat : 2^(i + j) = 2^i * 2^j
<1> TAKE i \in Nat
<1> DEFINE S == {j \in Nat : 2^(i + j) # 2^i * 2^j}
<1>1. CASE S = {}
  BY <1>1
<1>2. CASE S # {}
  <2>1. PICK j \in S : \A k \in S : j <= k
    BY <1>2, LeastNumber
  <2>2. j # 0
    <3>1. CASE j = 0
      <4>1. 2^j = 1 /\ i + j = i /\ 2^i \in Nat
        BY <3>1, PowerOfZero, PowerOfTwo
      <4>2. 2^(i + j) = 2^i * 2^j
        BY <4>1
      <4> QED
        BY <2>1, <4>2
    <3> QED
      BY <3>1
  <2> DEFINE k == j - 1
  <2>3. k \in Nat /\ j = k + 1 /\ i + j = (i + k) + 1 /\ i + k \in Nat /\ j \in Nat
    BY <2>1, <2>2
  <2>4. k \notin S
    BY <2>1, <2>3
  <2> HIDE DEF k
  <2>5. 2^(i + k) = 2^i * 2^k
    BY <2>3, <2>4
  <2>6. 2^j = 2 * 2^k /\ 2^(i + j) = 2 * 2^(i + k)
    BY <2>3, Doubles
  <2>7. 2^i \in Nat /\ 2^k \in Nat
    BY <2>3, PowerOfTwo
  <2>8. 2^(i + j) = 2^i * 2^j
    BY <2>5, <2>6, <2>7
  <2> QED
    BY <2>1, <2>8
<1> QED
  BY <1>1, <1>2

\* Integer division by products.
LEMMA DivUnique ==
  ASSUME NEW a \in Nat, NEW z \in Nat \ {0}, NEW q \in Nat, NEW r \in 0 .. z - 1,
         a = q * z + r
  PROVE  a \div z = q
OBVIOUS

LEMMA DivTwice ==
  ASSUME NEW a \in Nat, NEW x \in Nat \ {0}, NEW y \in Nat \ {0}
  PROVE  (a \div x) \div y = a \div (x * y)
<1> DEFINE b == a \div x
<1>1. PICK r \in 0 .. x - 1 : a = b * x + r /\ b \in Nat
  OBVIOUS
<1> HIDE DEF b
<1>2. PICK t \in 0 .. y - 1 : b = (b \div y) * y + t /\ b \div y \in Nat
  BY <1>1
<1> DEFINE q == b \div y
<1>3. b \in Nat /\ q \in Nat /\ b = q * y + t /\ a = b * x + r
  BY <1>1, <1>2
<1> HIDE DEF b, q
<1>4. a = q * (x * y) + (t * x + r)
  BY <1>3
<1>5. t * x + r \in 0 .. x * y - 1 /\ x * y \in Nat \ {0}
  OBVIOUS
<1>6. a \div (x * y) = q
  BY <1>3, <1>4, <1>5, DivUnique
<1> QED
  BY <1>6 DEF b, q

-----------------------------------------------------------------------------
(* Where matchUps lie: InBlock(p, m) says that draw position p is of the   *)
(* part of the draw that m decides.                                        *)

InBlock(p, m) == (p - 1) \div 2^m[1] + 1 = m[2]

LEMMA RoundsNat == Rounds \in Nat /\ Rounds > 1
BY RoundsAssumption

LEMMA MainElements ==
  ASSUME NEW m \in Main
  PROVE  /\ m[1] \in 1 .. Rounds /\ m[2] \in 1 .. 2^(Rounds - m[1]) /\ m = <<m[1], m[2]>>
         /\ 2^(Rounds - m[1]) \in Nat
<1>1. PICK r \in Round : m \in {<<r, i>> : i \in 1 .. 2^(Rounds - r)}
  BY DEF Main
<1>2. PICK i \in 1 .. 2^(Rounds - r) : m = <<r, i>>
  BY <1>1
<1>3. r \in 1 .. Rounds /\ Rounds - r \in Nat
  BY RoundsNat DEF Round
<1> QED
  BY <1>2, <1>3, PowerOfTwo

LEMMA InMain ==
  ASSUME NEW r \in Round, NEW i \in 1 .. 2^(Rounds - r)
  PROVE  <<r, i>> \in Main
BY DEF Main

LEMMA SameRound ==
  ASSUME NEW m \in Main, NEW n \in Main, m[1] = n[1], m[2] = n[2]
  PROVE  m = n
BY MainElements

LEMMA PlayoffApart == Playoff \notin Main /\ Playoff[1] = Rounds /\ ~ HasWinnerMatchUp(Playoff)
                      /\ ~ FeedsPlayoff(Playoff)
<1>1. 2^(Rounds - Rounds) = 1
  BY RoundsNat, PowerOfZero
<1>2. Playoff[1] = Rounds /\ Playoff[2] = 2
  BY DEF Playoff
<1>3. Playoff \notin Main
  BY <1>1, <1>2, MainElements
<1> QED
  BY <1>2, <1>3, RoundsNat DEF HasWinnerMatchUp, FeedsPlayoff

LEMMA PowerOfOne == 2^1 = 2
<1>1. 2^(0 + 1) = 2 * 2^0
  BY Doubles
<1>2. 2^0 = 1
  BY PowerOfZero
<1> QED
  BY <1>1, <1>2

\* The two matchUps of the last round but one feed the play-off, each its own seat.
LEMMA Semifinals ==
  /\ \A m \in Main : FeedsPlayoff(m) => m[2] \in Seat /\ HasWinnerMatchUp(m)
  /\ \A i \in Seat : <<Rounds - 1, i>> \in Main /\ FeedsPlayoff(<<Rounds - 1, i>>)
<1>1. 2^(Rounds - (Rounds - 1)) = 2
  BY RoundsNat, PowerOfOne
<1>2. ASSUME NEW m \in Main, FeedsPlayoff(m)
      PROVE  m[2] \in Seat /\ HasWinnerMatchUp(m)
  BY <1>1, <1>2, MainElements, RoundsNat DEF FeedsPlayoff, HasWinnerMatchUp, Seat
<1>3. ASSUME NEW i \in Seat
      PROVE  <<Rounds - 1, i>> \in Main /\ FeedsPlayoff(<<Rounds - 1, i>>)
  <2>1. Rounds - 1 \in Round /\ i \in 1 .. 2^(Rounds - (Rounds - 1))
    BY <1>1, RoundsNat DEF Round, Seat
  <2> QED
    BY <2>1, InMain DEF FeedsPlayoff
<1> QED
  BY <1>2, <1>3

LEMMA BelowInMain ==
  ASSUME NEW m \in Main, NEW n \in Main
  PROVE  n \in Below(m) <=> n[1] > m[1] /\ n[2] = ((m[2] - 1) \div 2^(n[1] - m[1])) + 1
BY PlayoffApart DEF Below

\* A later matchUp decides over a position of m exactly when the participants of m could come
\* there.
LEMMA Ancestor ==
  ASSUME NEW m \in Main, NEW n \in Main, m[1] < n[1], NEW p \in Position, InBlock(p, m)
  PROVE  InBlock(p, n) <=> n \in Below(m)
<1> DEFINE r == m[1]
           s == n[1] - m[1]
           a == p - 1
<1>1. r \in Nat /\ s \in Nat /\ a \in Nat /\ n[1] = r + s /\ m[2] \in Int /\ n[2] \in Int
  <2>1. m[1] \in Nat /\ n[1] \in Nat /\ m[2] \in Int /\ n[2] \in Int
    BY MainElements, RoundsNat
  <2>2. p \in Nat \ {0}
    BY DEF Position
  <2> QED
    BY <2>1, <2>2
<1>2. 2^r \in Nat \ {0} /\ 2^s \in Nat \ {0} /\ 2^(r + s) = 2^r * 2^s
  BY <1>1, PowerPositive, PowerOfSum
<1>3. (a \div 2^r) \div 2^s = a \div 2^(r + s)
  BY <1>1, <1>2, DivTwice
<1>4. a \div 2^r = m[2] - 1
  <2>1. a \div 2^r + 1 = m[2] /\ a \div 2^r \in Int
    BY <1>1, <1>2 DEF InBlock
  <2> QED
    BY <2>1
<1>5. n \in Below(m) <=> n[2] = (a \div 2^(r + s)) + 1
  BY <1>3, <1>4, BelowInMain
<1> QED
  BY <1>1, <1>5 DEF InBlock

\* The next matchUp lies below, and m feeds it; nothing but its two halves does.
LEMMA NextMatchUp ==
  ASSUME NEW m \in Main, HasWinnerMatchUp(m)
  PROVE  /\ WinnerMatchUp(m) \in Main /\ WinnerMatchUp(m)[1] = m[1] + 1
         /\ WinnerMatchUp(m) \in Below(m) /\ m \in Feeders(WinnerMatchUp(m))
         /\ WinnerMatchUp(m) # m
<1> DEFINE n == WinnerMatchUp(m)
<1>1. /\ m[1] \in 1 .. Rounds - 1 /\ m[2] \in Nat \ {0} /\ m[2] <= 2^(Rounds - m[1])
      /\ Rounds \in Nat
  BY MainElements, RoundsNat DEF HasWinnerMatchUp
<1>2. 2^(Rounds - m[1]) = 2 * 2^(Rounds - (m[1] + 1)) /\ 2^(Rounds - (m[1] + 1)) \in Nat
  <2>1. Rounds - (m[1] + 1) \in Nat /\ Rounds - m[1] = (Rounds - (m[1] + 1)) + 1
    BY <1>1
  <2> QED
    BY <2>1, Doubles, PowerOfTwo
<1>3. n[1] = m[1] + 1 /\ n[2] = (m[2] + 1) \div 2 /\ n = <<n[1], n[2]>>
  BY DEF WinnerMatchUp
<1>4. (m[2] + 1) \div 2 \in 1 .. 2^(Rounds - (m[1] + 1))
  BY <1>1, <1>2
<1>5. n \in Main
  BY <1>1, <1>3, <1>4, InMain DEF Round
<1>6. (m[2] + 1) \div 2 = ((m[2] - 1) \div 2) + 1
  BY <1>1
<1>7. n[1] - m[1] = 1
  BY <1>1, <1>3
<1>8. n \in Below(m)
  <2>1. n[1] > m[1] /\ n[2] = ((m[2] - 1) \div 2^(n[1] - m[1])) + 1
    <3>1. 2^(n[1] - m[1]) = 2
      BY <1>7, PowerOfOne
    <3>2. ((m[2] - 1) \div 2^(n[1] - m[1])) = (m[2] - 1) \div 2
      BY <3>1
    <3> QED
      BY <1>1, <1>3, <1>6, <3>2
  <2> QED
    BY <1>5, <2>1, BelowInMain
<1> QED
  BY <1>1, <1>3, <1>5, <1>8 DEF Feeders

LEMMA FeedersOf ==
  ASSUME NEW n \in Main, NEW f \in Feeders(n)
  PROVE  /\ f \in Main /\ f[1] = n[1] - 1 /\ n[1] > 1 /\ f # n
         /\ HasWinnerMatchUp(f) /\ WinnerMatchUp(f) = n /\ n \in Below(f)
         /\ f = <<n[1] - 1, 2 * n[2] - 1>> \/ f = <<n[1] - 1, 2 * n[2]>>
<1>1. f \in Main /\ HasWinnerMatchUp(f) /\ WinnerMatchUp(f) = n
  BY DEF Feeders
<1>2. n[1] = f[1] + 1 /\ n[2] = (f[2] + 1) \div 2
  BY <1>1 DEF WinnerMatchUp
<1>3. f[1] \in Nat \ {0} /\ f[2] \in Nat \ {0} /\ f = <<f[1], f[2]>> /\ n[1] \in Nat /\ n[2] \in Nat
  BY <1>1, MainElements, RoundsNat
<1>4. f[2] = 2 * n[2] - 1 \/ f[2] = 2 * n[2]
  BY <1>2, <1>3
<1> QED
  BY <1>1, <1>2, <1>3, <1>4, NextMatchUp

\* ParticipantsOf matchUps of one round have no position in common.
LEMMA BlocksApart ==
  ASSUME NEW m \in Main, NEW n \in Main, m[1] = n[1], NEW p, InBlock(p, m), InBlock(p, n)
  PROVE  m = n
BY SameRound DEF InBlock

\* The positions a matchUp decides over are adjacent.
LEMMA BlocksConvex ==
  ASSUME NEW m \in Main, NEW p \in Position, NEW q \in Position, NEW c \in Position,
         InBlock(p, m), InBlock(q, m), p <= c, c <= q
  PROVE  InBlock(c, m)
<1>1. m[1] \in Nat /\ m[2] \in Int
  BY MainElements, RoundsNat
<1> DEFINE z == 2^m[1]
<1>2. z \in Nat \ {0} /\ p - 1 \in Nat /\ q - 1 \in Nat /\ c - 1 \in Nat
  BY <1>1, PowerPositive DEF Position
<1>3. (p - 1) \div z + 1 = m[2] /\ (q - 1) \div z + 1 = m[2]
  BY DEF InBlock
<1> HIDE DEF z
<1>4. ASSUME NEW x \in Nat, NEW y \in Nat, x <= y
      PROVE  x \div z <= y \div z
  <2> DEFINE a == x \div z
             b == y \div z
  <2>1. /\ a \in Nat /\ b \in Nat /\ a * z <= x /\ y < b * z + z
    BY <1>2
  <2> HIDE DEF a, b
  <2>2. a * z < (b + 1) * z
    BY <1>2, <1>4, <2>1
  <2>3. a < b + 1
    <3>1. CASE a >= b + 1
      <4>1. PICK k \in Nat : a = (b + 1) + k
        <5>1. a - (b + 1) \in Nat /\ a = (b + 1) + (a - (b + 1))
          BY <2>1, <3>1
        <5> QED
          BY <5>1
      <4>2. a * z = (b + 1) * z + k * z /\ k * z >= 0
        BY <1>2, <2>1, <4>1
      <4> QED
        BY <1>2, <2>1, <2>2, <4>2
    <3> QED
      BY <2>1, <3>1
  <2> QED
    BY <2>1, <2>3 DEF a, b
<1>5. p - 1 <= c - 1 /\ c - 1 <= q - 1
  BY DEF Position
<1>6. (p - 1) \div z <= (c - 1) \div z /\ (c - 1) \div z <= (q - 1) \div z
  BY <1>2, <1>4, <1>5
<1>7. (p - 1) \div z \in Int /\ (q - 1) \div z \in Int /\ (c - 1) \div z \in Int
  BY <1>2
<1> QED
  BY <1>1, <1>3, <1>6, <1>7 DEF InBlock, z

-----------------------------------------------------------------------------
(* Sides, participants, and the invariant.                                 *)

\* Of two positions on a matchUp, the lower one is on side 1.
LEMMA TwoSides ==
  ASSUME NEW x, NEW a \in Position, NEW b \in Position, a < b, x.at = {a, b}
  PROVE  OnSide(x, 1) = {a} /\ OnSide(x, 2) = {b}
<1>1. a \in Int /\ b \in Int /\ ~ (b < a) /\ ~ (a < a) /\ ~ (b < b)
  BY DEF Position
<1>2. ~ \E q \in x.at : q < a
  BY <1>1
<1>3. \E q \in x.at : q < b
  OBVIOUS
<1>4. \A p \in x.at : p = a \/ p = b
  OBVIOUS
<1> QED
  BY <1>2, <1>3, <1>4 DEF OnSide

\* Whoever is sent on, wins or loses stands there; nobody does without a winner.
LEMMA NoSide ==
  ASSUME NEW x
  PROVE  /\ OnSide(x, NoWinner) = {}
         /\ x.winner = NoWinner => WinnerOf(x) = {} /\ LoserOf(x) = {}
         /\ \A side : OnSide(x, side) \subseteq x.at
         /\ WinnerOf(x) \subseteq x.at /\ LoserOf(x) \subseteq x.at /\ Sent(x) \subseteq x.at
BY DEF OnSide, WinnerOf, LoserOf, NoWinner, Sent

LEMMA SameSides ==
  ASSUME NEW x, NEW y, x.at = y.at, x.winner = y.winner
  PROVE  WinnerOf(x) = WinnerOf(y) /\ LoserOf(x) = LoserOf(y) /\ Sent(x) = Sent(y)
BY DEF WinnerOf, LoserOf, Sent, OnSide

AtMostTwo(S) == \E a, b : S \subseteq {a, b}

LEMMA CountTwo ==
  ASSUME NEW S, AtMostTwo(S)
  PROVE  Cardinality(S) = 2 <=> \E a, b \in S : a # b
<1>1. PICK a, b : S \subseteq {a, b}
  BY DEF AtMostTwo
<1>2. ASSUME NEW x PROVE IsFiniteSet({x}) /\ Cardinality({x}) = 1
  BY FS_Singleton
<1>3. Cardinality({}) = 0
  BY FS_EmptySet
<1>4. CASE S = {}
  BY <1>3, <1>4
<1>5. CASE S = {a}
  BY <1>2, <1>5
<1>6. CASE S = {b}
  BY <1>2, <1>6
<1>7. CASE S = {a, b} /\ a # b
  <2>1. Cardinality({a} \cup {b}) = 1 + 1
    <3>1. Cardinality({a} \cup {b}) = IF b \in {a} THEN Cardinality({a}) ELSE Cardinality({a}) + 1
      BY <1>2, FS_AddElement
    <3> QED
      BY <1>2, <1>7, <3>1
  <2>2. S = {a} \cup {b}
    BY <1>7
  <2> QED
    BY <1>7, <2>1, <2>2
<1> QED
  BY <1>1, <1>4, <1>5, <1>6, <1>7

\* The places of the draw d: PlacesFollowResults.
Places(d) ==
  /\ \A n \in Main : n[1] > 1 => d.matchUps[n].at = UNION {Sent(d.matchUps[m]) : m \in Feeders(n)}
  /\ \A i \in Seat : {d.seats[i]} \ {Nobody} = LoserOf(d.matchUps[<<Rounds - 1, i>>])

\* Who stands on a matchUp is of its part of the draw, and only two participants have a winner.
Stands(d) ==
  /\ d \in Draw
  /\ \A m \in Main : AtMostTwo(d.matchUps[m].at) /\ \A p \in d.matchUps[m].at : InBlock(p, m)
  /\ \A m \in Main : m[1] > 1 => d.matchUps[m].at \cap Bye = {}
  /\ d.matchUps[Playoff].at = Seat
  /\ \A m \in Match : d.matchUps[m].winner # NoWinner => TwoParticipants(d, m)

\* And whoever stands on a later one was sent there.
Bracket(d) == Stands(d) /\ Places(d)

LEMMA DrawTypes ==
  ASSUME NEW d \in Draw, NEW m \in Match
  PROVE  /\ d.matchUps[m] \in MatchUp /\ d.matchUps[m].at \subseteq Position
         /\ d.matchUps[m].winner \in WinningSide
         /\ d.matchUps \in [Match -> MatchUp] /\ d.seats \in [Seat -> Position \cup {Nobody}]
         /\ d = [matchUps |-> d.matchUps, seats |-> d.seats]
BY DEF Draw, MatchUp

\* The play-off has two participants when its seats are held by two.
LEMMA SeatCount ==
  ASSUME NEW d
  PROVE  /\ AtMostTwo(Players(d, Playoff))
         /\ TwoParticipants(d, Playoff) <=>
              d.seats[1] # Nobody /\ d.seats[2] # Nobody /\ d.seats[1] # d.seats[2]
<1>1. Players(d, Playoff) = {d.seats[1], d.seats[2]} \ {Nobody}
  BY DEF Players, Seat
<1>2. AtMostTwo(Players(d, Playoff))
  BY <1>1 DEF AtMostTwo
<1> QED
  BY <1>1, <1>2, CountTwo DEF TwoParticipants

\* A matchUp of the main structure has two participants when two positions without BYE stand
\* there.
LEMMA ParticipantsOf ==
  ASSUME NEW d, Stands(d), NEW m \in Main
  PROVE  /\ Players(d, m) = d.matchUps[m].at \ Bye
         /\ TwoParticipants(d, m) <=>
              \E a, b \in Position \ Bye : a < b /\ d.matchUps[m].at = {a, b}
<1>1. Players(d, m) = d.matchUps[m].at \ Bye
  BY PlayoffApart DEF Players
<1>2. PICK u, v : d.matchUps[m].at \subseteq {u, v}
  BY DEF Stands, AtMostTwo
<1>3. d.matchUps[m].at \subseteq Position
  BY DrawTypes DEF Stands, Match
<1>4. AtMostTwo(Players(d, m))
  BY <1>1, <1>2 DEF AtMostTwo
<1>5. TwoParticipants(d, m) <=> \E a, b \in d.matchUps[m].at \ Bye : a # b
  BY <1>1, <1>4, CountTwo DEF TwoParticipants
<1>6. ASSUME NEW a \in d.matchUps[m].at \ Bye, NEW b \in d.matchUps[m].at \ Bye, a # b
      PROVE  \E e, f \in Position \ Bye : e < f /\ d.matchUps[m].at = {e, f}
  <2>1. d.matchUps[m].at = {a, b} /\ a \in Position \ Bye /\ b \in Position \ Bye
    BY <1>2, <1>3, <1>6
  <2>2. a < b \/ b < a
    BY <1>6, <2>1 DEF Position
  <2> QED
    BY <2>1, <2>2
<1>7. ASSUME NEW a \in Position \ Bye, NEW b \in Position \ Bye, a < b, d.matchUps[m].at = {a, b}
      PROVE  TwoParticipants(d, m)
  <2>1. a # b
    BY <1>7 DEF Position
  <2> QED
    BY <1>5, <1>7, <2>1
<1> QED
  BY <1>1, <1>5, <1>6, <1>7

\* A matchUp with a winner, of the main structure.
LEMMA WonMatchUp ==
  ASSUME NEW d, Stands(d), NEW m \in Main, d.matchUps[m].winner # NoWinner
  PROVE  LET x == d.matchUps[m]
         IN  \E w, l \in Position \ Bye :
               /\ w # l /\ x.at = {w, l} /\ WinnerOf(x) = {w} /\ LoserOf(x) = {l} /\ Sent(x) = {w}
<1> DEFINE x == d.matchUps[m]
<1>1. m \in Match
  BY DEF Match
<1>2. PICK a, b \in Position \ Bye : a < b /\ x.at = {a, b}
  BY <1>1, ParticipantsOf DEF Stands
<1>3. OnSide(x, 1) = {a} /\ OnSide(x, 2) = {b} /\ a # b
  BY <1>2, TwoSides DEF Position
<1>4. x.winner = 1 \/ x.winner = 2
  BY <1>1, DrawTypes DEF Stands, WinningSide, NoWinner
<1>5. x.at \cap Bye = {}
  BY <1>2
<1>6. CASE x.winner = 1
  <2>1. WinnerOf(x) = {a} /\ LoserOf(x) = {b} /\ Sent(x) = {a}
    BY <1>3, <1>5, <1>6 DEF WinnerOf, LoserOf, NoWinner, Sent
  <2> QED
    BY <1>2, <1>3, <2>1
<1>7. CASE x.winner = 2
  <2>1. WinnerOf(x) = {b} /\ LoserOf(x) = {a} /\ Sent(x) = {b}
    BY <1>3, <1>5, <1>7 DEF WinnerOf, LoserOf, NoWinner, Sent
  <2>2. x.at = {b, a}
    BY <1>2
  <2> QED
    BY <1>2, <1>3, <2>1, <2>2
<1> QED
  BY <1>4, <1>6, <1>7

\* A matchUp sends one participant on, and that one is of its part of the draw.
LEMMA SentAlone ==
  ASSUME NEW d, Stands(d), NEW m \in Main
  PROVE  /\ \A p, q \in Sent(d.matchUps[m]) : p = q
         /\ \A p, q \in LoserOf(d.matchUps[m]) : p = q
         /\ Sent(d.matchUps[m]) \cap Bye = {}
         /\ \A p \in Sent(d.matchUps[m]) \cup LoserOf(d.matchUps[m]) : InBlock(p, m) /\ p \in Position
<1> DEFINE x == d.matchUps[m]
<1>1. Sent(x) \subseteq x.at /\ LoserOf(x) \subseteq x.at
  BY NoSide
<1>2. \A p \in x.at : InBlock(p, m) /\ p \in Position
  BY DrawTypes DEF Stands, Match
<1>3. CASE x.winner # NoWinner
  BY <1>1, <1>2, <1>3, WonMatchUp
<1>4. CASE x.winner = NoWinner
  <2>1. LoserOf(x) = {} /\ Sent(x) = IF x.at \cap Bye # {} THEN x.at \ Bye ELSE {}
    BY <1>4, NoSide DEF Sent
  <2>2. PICK u, v : x.at \subseteq {u, v}
    BY DEF Stands, AtMostTwo
  <2> QED
    BY <1>1, <1>2, <2>1, <2>2
<1> QED
  BY <1>3, <1>4

\* Beyond the first round, who is sent on has won.
LEMMA SentHasWon ==
  ASSUME NEW d, Stands(d), NEW m \in Main, m[1] > 1
  PROVE  Sent(d.matchUps[m]) = WinnerOf(d.matchUps[m])
BY DEF Stands, Sent

-----------------------------------------------------------------------------
(* What a call leaves as it is, whatever the places are.                   *)

LEMMA MatchKinds ==
  /\ \A m \in Main : m \in Match /\ m # Playoff
  /\ \A m \in Match : m \in Main \/ m = Playoff
BY PlayoffApart DEF Match

LEMMA SamePlayers ==
  ASSUME NEW d, NEW e, NEW m \in Match,
         IF m = Playoff THEN e.seats = d.seats ELSE e.matchUps[m].at = d.matchUps[m].at
  PROVE  Players(e, m) = Players(d, m) /\ (TwoParticipants(e, m) <=> TwoParticipants(d, m))
BY DEF Players, TwoParticipants

\* No call but that for m changes a played result: OtherResultsStand, of the step from d to e.
Confined(d, e, m) ==
  \A n \in Match \ {m} :
    (Decided(d.matchUps[n]) \/ InPlay(d.matchUps[n])) /\ TwoParticipants(d, n) =>
      /\ [e.matchUps[n] EXCEPT !.at = {}] = [d.matchUps[n] EXCEPT !.at = {}]
      /\ TwoParticipants(e, n)

\* It is enough that what changed elsewhere was not played.
LEMMA ConfinedNear ==
  ASSUME NEW d, NEW e, NEW m \in Match,
         \A k \in Match \ {m} :
           \/ e.matchUps[k] = d.matchUps[k] /\ (k = Playoff => e.seats = d.seats)
           \/ ~ (Decided(d.matchUps[k]) \/ InPlay(d.matchUps[k])) \/ ~ TwoParticipants(d, k)
  PROVE  Confined(d, e, m)
<1> SUFFICES ASSUME NEW n \in Match \ {m}, Decided(d.matchUps[n]) \/ InPlay(d.matchUps[n]),
                    TwoParticipants(d, n)
             PROVE  /\ [e.matchUps[n] EXCEPT !.at = {}] = [d.matchUps[n] EXCEPT !.at = {}]
                    /\ TwoParticipants(e, n)
  BY DEF Confined
<1>1. e.matchUps[n] = d.matchUps[n] /\ (n = Playoff => e.seats = d.seats)
  OBVIOUS
<1> QED
  BY <1>1, SamePlayers

\* The Decided of the code asks for two positions: where two participants are, there are two.
LEMMA PairCount ==
  ASSUME NEW d, Stands(d), NEW n \in Match, TwoParticipants(d, n)
  PROVE  Cardinality(d.matchUps[n].at) = 2
<1>1. CASE n = Playoff
  <2>1. Seat = {1, 2} /\ AtMostTwo(Seat)
    BY DEF Seat, AtMostTwo
  <2>2. Cardinality(Seat) = 2
    BY <2>1, CountTwo
  <2> QED
    BY <1>1, <2>2 DEF Stands
<1>2. CASE n \in Main
  <2>1. PICK a, b \in Position \ Bye : a < b /\ d.matchUps[n].at = {a, b}
    BY <1>2, ParticipantsOf
  <2>2. a # b
    BY <2>1 DEF Position
  <2> QED
    BY <1>2, <2>1, <2>2, CountTwo DEF Stands
<1> QED
  BY <1>1, <1>2 DEF Match

LEMMA BelowInMatch ==
  ASSUME NEW m, NEW n \in Below(m)
  PROVE  n \in Match
BY DEF Below, Match

\* Where nothing is active, nothing is decided, for a matchUp with a winner has two participants.
LEMMA Inactive ==
  ASSUME NEW d, Stands(d), NEW m, ~ ActiveDownstream(d, m), NEW n \in Below(m)
  PROVE  d.matchUps[n].winner = NoWinner /\ ~ Decided(d.matchUps[n]) /\ ~ InPlay(d.matchUps[n])
<1>1. ~ Decided(d.matchUps[n]) /\ ~ InPlay(d.matchUps[n])
  BY DEF ActiveDownstream
<1>2. n \in Match
  BY BelowInMatch
<1>3. d.matchUps[n].winner # NoWinner => Cardinality(d.matchUps[n].at) = 2
  BY <1>2, PairCount DEF Stands
<1> QED
  BY <1>1, <1>3 DEF Decided

\* What modifyMatchUpScore writes.
WrittenWinner(x, o, removeScore, removeWinningSide) ==
  IF removeWinningSide THEN NoWinner
  ELSE IF o.winner # NoWinner THEN o.winner
  ELSE IF o.status = "WALKOVER" \/ removeScore THEN NoWinner ELSE x.winner

LEMMA WrittenType ==
  ASSUME NEW x \in MatchUp, NEW o \in Outcome, NEW removeScore \in BOOLEAN,
         NEW removeWinningSide \in BOOLEAN
  PROVE  LET y == Written(x, o, removeScore, removeWinningSide)
         IN  /\ y \in MatchUp /\ y.at = x.at
             /\ y.winner = WrittenWinner(x, o, removeScore, removeWinningSide)
<1> DEFINE y == Written(x, o, removeScore, removeWinningSide)
<1>1. y.at = x.at /\ y.winner = WrittenWinner(x, o, removeScore, removeWinningSide)
  BY DEF Written, WrittenWinner
<1>2. y.winner \in WinningSide
  BY <1>1 DEF WrittenWinner, MatchUp, Outcome, WinningSide, NoWinner
<1>3. y.score \in Score
  BY DEF Written, MatchUp, Outcome, Score, NoScore
<1>4. y.status \in Status
  <2>1. o.status \in Status \cup {None} /\ x.status \in Status
    BY DEF Outcome, MatchUp
  <2>2. "IN_PROGRESS" \in Status /\ "TO_BE_PLAYED" \in Status
    BY DEF Status, NonDirecting, Live
  <2> QED
    BY <2>1, <2>2 DEF Written
<1>5. y = [at |-> y.at, status |-> y.status, winner |-> y.winner, score |-> y.score]
  BY DEF Written
<1>6. x.at \in SUBSET Position
  BY DEF MatchUp
<1> HIDE DEF y
<1>7. y \in MatchUp
  BY <1>1, <1>2, <1>3, <1>4, <1>5, <1>6 DEF MatchUp
<1> QED
  BY <1>1, <1>7 DEF y

LEMMA ArrivedType ==
  ASSUME NEW x \in MatchUp, NEW p \in Position
  PROVE  LET y == Arrived(x, p)
         IN  y \in MatchUp /\ y.at = x.at \cup {p} /\ y.winner = NoWinner
<1>1. "TO_BE_PLAYED" \in Status
  BY DEF Status, NonDirecting
<1>2. NoWinner \in WinningSide
  BY DEF WinningSide, NoWinner
<1> DEFINE status == IF x.status \in Exit /\ Cardinality(x.at \cup {p}) < 2 THEN x.status ELSE "TO_BE_PLAYED"
<1>3. Arrived(x, p) = [at |-> x.at \cup {p}, status |-> status, winner |-> NoWinner, score |-> x.score]
  <2>1. x = [at |-> x.at, status |-> x.status, winner |-> x.winner, score |-> x.score]
    BY DEF MatchUp
  <2>2. Arrived(x, p) = [x EXCEPT !.at = x.at \cup {p}, !.winner = NoWinner, !.status = status]
    BY DEF Arrived
  <2> HIDE DEF status
  <2> QED
    BY <2>1, <2>2
<1>4. status \in Status /\ x.at \cup {p} \in SUBSET Position /\ x.score \in Score
  BY <1>1 DEF MatchUp
<1> QED
  BY <1>2, <1>3, <1>4 DEF MatchUp

\* What a call may leave of d: who stands anywhere is of that part of the draw, and no played
\* result but that of m is another.
Steady(d, e, m) == Stands(e) /\ Confined(d, e, m)

\* One call, in two steps.
LEMMA SteadyTwice ==
  ASSUME NEW d, Stands(d), NEW e, NEW f, NEW m, Steady(d, e, m), Steady(e, f, m)
  PROVE  Steady(d, f, m)
<1> SUFFICES ASSUME NEW n \in Match \ {m}, Decided(d.matchUps[n]) \/ InPlay(d.matchUps[n]),
                    TwoParticipants(d, n)
             PROVE  /\ [f.matchUps[n] EXCEPT !.at = {}] = [d.matchUps[n] EXCEPT !.at = {}]
                    /\ TwoParticipants(f, n)
  BY DEF Steady, Confined
<1>1. [e.matchUps[n] EXCEPT !.at = {}] = [d.matchUps[n] EXCEPT !.at = {}] /\ TwoParticipants(e, n)
  BY DEF Steady, Confined
<1>2. d.matchUps[n] \in MatchUp /\ e.matchUps[n] \in MatchUp
  BY DrawTypes DEF Stands, Steady
<1>3. /\ e.matchUps[n].winner = d.matchUps[n].winner /\ e.matchUps[n].score = d.matchUps[n].score
      /\ e.matchUps[n].status = d.matchUps[n].status
  <2>1. ASSUME NEW x \in MatchUp
        PROVE  LET y == [x EXCEPT !.at = {}]
               IN  y.winner = x.winner /\ y.score = x.score /\ y.status = x.status
    BY DEF MatchUp
  <2> DEFINE u == [e.matchUps[n] EXCEPT !.at = {}]
             v == [d.matchUps[n] EXCEPT !.at = {}]
  <2>2. /\ u.winner = e.matchUps[n].winner /\ u.score = e.matchUps[n].score
        /\ u.status = e.matchUps[n].status
    BY <1>2, <2>1
  <2>3. /\ v.winner = d.matchUps[n].winner /\ v.score = d.matchUps[n].score
        /\ v.status = d.matchUps[n].status
    BY <1>2, <2>1
  <2>4. u = v
    BY <1>1
  <2> HIDE DEF u, v
  <2> QED
    BY <2>2, <2>3, <2>4
<1>4. Decided(e.matchUps[n]) \/ InPlay(e.matchUps[n])
  <2>1. Cardinality(e.matchUps[n].at) = 2
    BY <1>1, PairCount DEF Steady
  <2> QED
    BY <1>3, <2>1 DEF Decided, InPlay
<1>5. [f.matchUps[n] EXCEPT !.at = {}] = [e.matchUps[n] EXCEPT !.at = {}] /\ TwoParticipants(f, n)
  BY <1>1, <1>4 DEF Steady, Confined
<1> QED
  BY <1>1, <1>5

\* A write to m, and to matchUps that nobody has played, which are left without a winner.
LEMMA SteadyChange ==
  ASSUME NEW d, Stands(d), NEW e \in Draw, NEW m \in Match,
         e.matchUps[m].at = d.matchUps[m].at, m = Playoff => e.seats = d.seats,
         e.matchUps[m].winner # NoWinner => TwoParticipants(d, m),
         \A k \in Match \ {m} :
           \/ e.matchUps[k] = d.matchUps[k] /\ (k = Playoff => e.seats = d.seats)
           \/ /\ ~ (Decided(d.matchUps[k]) \/ InPlay(d.matchUps[k])) \/ ~ TwoParticipants(d, k)
              /\ e.matchUps[k].winner = NoWinner
              /\ k = Playoff => e.matchUps[k].at = Seat
              /\ k \in Main => /\ AtMostTwo(e.matchUps[k].at)
                               /\ \A p \in e.matchUps[k].at : InBlock(p, k)
                               /\ k[1] > 1 => e.matchUps[k].at \cap Bye = {}
  PROVE  Steady(d, e, m) /\ (TwoParticipants(e, m) <=> TwoParticipants(d, m))
<1>1. TwoParticipants(e, m) <=> TwoParticipants(d, m)
  BY SamePlayers
<1>2. Confined(d, e, m)
  BY ConfinedNear
<1>3. ASSUME NEW k \in Match, e.matchUps[k].winner # NoWinner
      PROVE  TwoParticipants(e, k)
  <2>1. CASE k = m
    BY <1>1, <1>3, <2>1
  <2>2. CASE k # m
    <3>1. e.matchUps[k] = d.matchUps[k] /\ (k = Playoff => e.seats = d.seats)
      BY <1>3, <2>2
    <3>2. TwoParticipants(d, k)
      BY <1>3, <3>1 DEF Stands
    <3> QED
      BY <3>1, <3>2, SamePlayers
  <2> QED
    BY <2>1, <2>2
<1>4. ASSUME NEW k \in Main
      PROVE  /\ AtMostTwo(e.matchUps[k].at) /\ \A p \in e.matchUps[k].at : InBlock(p, k)
             /\ k[1] > 1 => e.matchUps[k].at \cap Bye = {}
  <2>1. CASE k = m \/ e.matchUps[k] = d.matchUps[k]
    BY <2>1 DEF Stands
  <2>2. CASE k # m /\ e.matchUps[k] # d.matchUps[k]
    BY <2>2, MatchKinds
  <2> QED
    BY <2>1, <2>2
<1>5. e.matchUps[Playoff].at = Seat
  BY MatchKinds DEF Stands, Match
<1> QED
  BY <1>1, <1>2, <1>3, <1>4, <1>5 DEF Steady, Stands

\* A draw that is left as it was.
LEMMA SteadyStill ==
  ASSUME NEW d, Stands(d), NEW m \in Match
  PROVE  Steady(d, d, m)
BY SteadyChange DEF Stands

\* A write of the matchUp alone.
LEMMA SteadyWrite ==
  ASSUME NEW d, Stands(d), NEW m \in Match, NEW y \in MatchUp, y.at = d.matchUps[m].at,
         y.winner # NoWinner => TwoParticipants(d, m)
  PROVE  LET e == [d EXCEPT !.matchUps[m] = y]
         IN  Steady(d, e, m) /\ (TwoParticipants(e, m) <=> TwoParticipants(d, m))
<1> DEFINE e == [d EXCEPT !.matchUps[m] = y]
<1>1. /\ e \in Draw /\ e.seats = d.seats /\ e.matchUps[m] = y
      /\ \A k \in Match \ {m} : e.matchUps[k] = d.matchUps[k]
  BY DEF Stands, Draw
<1> HIDE DEF e
<1>2. Steady(d, e, m) /\ (TwoParticipants(e, m) <=> TwoParticipants(d, m))
  BY <1>1, SteadyChange
<1> QED
  BY <1>2 DEF e

\* modifyMatchUpScore: a winner is written only where two participants are.
LEMMA SteadyModify ==
  ASSUME NEW d, Stands(d), NEW m \in Match, NEW o \in Outcome, NEW removeScore \in BOOLEAN,
         o.winner # NoWinner => TwoParticipants(d, m)
  PROVE  Steady(d, Modify(d, m, o, removeScore).draw, m)
<1> DEFINE y == Written(d.matchUps[m], o, removeScore, FALSE)
<1>1. d.matchUps[m] \in MatchUp /\ (d.matchUps[m].winner # NoWinner => TwoParticipants(d, m))
  BY DrawTypes DEF Stands
<1>2. y \in MatchUp /\ y.at = d.matchUps[m].at
      /\ y.winner = WrittenWinner(d.matchUps[m], o, removeScore, FALSE)
  BY <1>1, WrittenType
<1>3. y.winner # NoWinner => TwoParticipants(d, m)
  BY <1>1, <1>2 DEF WrittenWinner
<1>4. Modify(d, m, o, removeScore).draw = [d EXCEPT !.matchUps[m] = y]
  BY DEF Modify, Accept
<1> HIDE DEF y
<1>5. Steady(d, [d EXCEPT !.matchUps[m] = y], m)
  BY <1>2, <1>3, SteadyWrite
<1> QED
  BY <1>4, <1>5

\* A result taken back: what is emptied lies below, where nothing is played.
LEMMA SteadyRemoval ==
  ASSUME NEW d, Stands(d), NEW m \in Match, NEW o \in Outcome, NEW removeScore \in BOOLEAN,
         ~ ActiveDownstream(d, m) \/ d.matchUps[m].winner = NoWinner
  PROVE  LET e == RemoveDirected(d, m, o, removeScore)
         IN  /\ Steady(d, e, m) /\ e.matchUps[m].winner = NoWinner
             /\ TwoParticipants(e, m) <=> TwoParticipants(d, m)
<1> DEFINE e == RemoveDirected(d, m, o, removeScore)
           x == d.matchUps
           clear == [o EXCEPT !.status = IF @ = None THEN "TO_BE_PLAYED" ELSE @]
           won == WinnerOf(x[m])
           y == Written(x[m], clear, removeScore, TRUE)
<1>1. x \in [Match -> MatchUp] /\ d.seats \in [Seat -> Position \cup {Nobody}]
  BY DrawTypes DEF Stands
<1>2. clear \in Outcome
  BY DEF Outcome, Status, NonDirecting
<1>3. y \in MatchUp /\ y.at = x[m].at /\ y.winner = NoWinner
  <2> HIDE DEF clear
  <2>1. x[m] \in MatchUp
    BY <1>1
  <2>2. WrittenWinner(x[m], clear, removeScore, TRUE) = NoWinner
    BY DEF WrittenWinner
  <2> HIDE DEF x
  <2> QED
    BY <1>2, <2>1, <2>2, WrittenType
<1> HIDE DEF y, clear
<1>4. e = [matchUps |-> [n \in Match |->
             IF n = m THEN y
             ELSE IF n \in Main /\ n[1] > m[1] /\ x[n].at \cap won # {} THEN Vacated(x[n], won)
             ELSE x[n]],
           seats |-> Unseated(d, m)]
  BY DEF RemoveDirected, y, clear
<1>5. \A n \in Match : Vacated(x[n], won) \in MatchUp
  BY <1>1 DEF Vacated, Generated, MatchUp, Status, Directing, NonDirecting, WinningSide, Score,
              NoWinner, NoScore
<1>6. Unseated(d, m) \in [Seat -> Position \cup {Nobody}]
  BY <1>1 DEF Unseated
<1>7. e \in Draw
  <2>1. e.matchUps \in [Match -> MatchUp] /\ e.seats = Unseated(d, m)
    BY <1>1, <1>3, <1>4, <1>5
  <2> QED
    BY <1>4, <1>6, <2>1 DEF Draw
<1>8. /\ e.matchUps[m] = y /\ e.seats = Unseated(d, m)
      /\ \A n \in Match \ {m} : e.matchUps[n] =
           IF n \in Main /\ n[1] > m[1] /\ x[n].at \cap won # {} THEN Vacated(x[n], won) ELSE x[n]
  BY <1>4
<1> HIDE DEF e
<1>9. \A n \in Below(m) : x[m].winner # NoWinner =>
        x[n].winner = NoWinner /\ ~ Decided(x[n]) /\ ~ InPlay(x[n])
  BY Inactive
<1>10. x[m].winner = NoWinner => won = {} /\ LoserOf(x[m]) = {}
  BY NoSide
<1>11. ASSUME NEW k \in Main \ {m}, e.matchUps[k] # x[k]
       PROVE  /\ ~ (Decided(x[k]) \/ InPlay(x[k]))
              /\ e.matchUps[k].winner = NoWinner /\ e.matchUps[k].at \subseteq x[k].at
  <2>1. k \in Match
    BY MatchKinds
  <2>2. k[1] > m[1] /\ x[k].at \cap won # {} /\ e.matchUps[k] = Vacated(x[k], won)
    BY <1>8, <1>11, <2>1
  <2>3. x[m].winner # NoWinner
    BY <1>10, <2>2
  <2>4. m \in Main
    BY <2>2, MatchKinds, MainElements, PlayoffApart, RoundsNat
  <2>5. PICK p \in x[k].at : p \in won
    BY <2>2
  <2>6. p \in x[m].at /\ p \in Position
    BY <1>1, <2>5, NoSide DEF MatchUp
  <2>7. InBlock(p, m) /\ InBlock(p, k)
    BY <2>4, <2>5, <2>6 DEF Stands
  <2>8. k \in Below(m)
    BY <2>2, <2>4, <2>6, <2>7, MainElements, RoundsNat, Ancestor
  <2>9. e.matchUps[k].winner = NoWinner /\ e.matchUps[k].at = x[k].at \ won
    BY <2>2 DEF Vacated, Generated
  <2> QED
    BY <1>9, <2>3, <2>8, <2>9
<1>12. e.matchUps[Playoff] = x[Playoff] \/ m = Playoff
  BY <1>8, MatchKinds DEF Match
<1>13. e.seats = d.seats \/ (m # Playoff /\ x[Playoff].winner = NoWinner
                               /\ ~ Decided(x[Playoff]) /\ ~ InPlay(x[Playoff]))
  <2>1. CASE FeedsPlayoff(m) /\ x[m].winner # NoWinner
    <3>1. m \in Main
      BY <2>1, MatchKinds, PlayoffApart
    <3>2. Playoff \in Below(m)
      BY <2>1, <3>1, Semifinals DEF Below
    <3> QED
      BY <1>9, <2>1, <3>1, <3>2, MatchKinds
  <2>2. CASE ~ (FeedsPlayoff(m) /\ x[m].winner # NoWinner)
    BY <1>1, <1>8, <1>10, <2>2 DEF Unseated
  <2> QED
    BY <2>1, <2>2
<1>14. ASSUME NEW k \in Match \ {m}
       PROVE  \/ e.matchUps[k] = x[k] /\ (k = Playoff => e.seats = d.seats)
              \/ /\ ~ (Decided(x[k]) \/ InPlay(x[k])) \/ ~ TwoParticipants(d, k)
                 /\ e.matchUps[k].winner = NoWinner
                 /\ k = Playoff => e.matchUps[k].at = Seat
                 /\ k \in Main => /\ AtMostTwo(e.matchUps[k].at)
                                  /\ \A p \in e.matchUps[k].at : InBlock(p, k)
                                  /\ k[1] > 1 => e.matchUps[k].at \cap Bye = {}
  <2>1. CASE k = Playoff
    BY <1>12, <1>13, <2>1, MatchKinds DEF Stands
  <2>2. CASE k \in Main /\ e.matchUps[k] # x[k]
    <3>1. AtMostTwo(e.matchUps[k].at)
      BY <1>11, <2>2 DEF Stands, AtMostTwo
    <3> QED
      BY <1>11, <2>2, <3>1, MatchKinds DEF Stands
  <2>3. CASE k \in Main /\ e.matchUps[k] = x[k]
    BY <2>3, MatchKinds
  <2> QED
    BY <2>1, <2>2, <2>3, MatchKinds
<1>15. e.matchUps[m].winner = NoWinner /\ e.matchUps[m].at = x[m].at /\ (m = Playoff => e.seats = d.seats)
  BY <1>3, <1>8, <1>13
<1>16. Steady(d, e, m) /\ (TwoParticipants(e, m) <=> TwoParticipants(d, m))
  BY <1>7, <1>14, <1>15, SteadyChange
<1> QED
  BY <1>15, <1>16 DEF e

\* directWinner: whoever arrives finds room.
LEMMA SteadyWinner ==
  ASSUME NEW d, Stands(d), NEW m \in Match, d.matchUps[m].winner # NoWinner
  PROVE  LET r == DirectWinner(d, m)
         IN  Steady(d, r.draw, m) /\ r.refused \in BOOLEAN /\ r.draw.matchUps[m] = d.matchUps[m]
<1> DEFINE r == DirectWinner(d, m)
           n == WinnerMatchUp(m)
           p == CHOOSE q \in WinnerOf(d.matchUps[m]) : TRUE
           e == [d EXCEPT !.matchUps[n] = Arrived(d.matchUps[n], p)]
<1>1. r = IF ~ HasWinnerMatchUp(m) \/ p \in d.matchUps[n].at THEN Accept(d)
          ELSE IF Cardinality(d.matchUps[n].at) = 2 THEN Refuse(d)
          ELSE Accept(e)
  BY DEF DirectWinner
<1> SUFFICES Steady(d, r.draw, m) /\ r.refused \in BOOLEAN /\ r.draw.matchUps[m] = d.matchUps[m]
  OBVIOUS
<1> HIDE DEF r, p, e
<1>2. CASE r = Accept(d) \/ r = Refuse(d)
  <2>1. Steady(d, d, m)
    BY SteadyStill
  <2>2. \E refused \in BOOLEAN : r = [draw |-> d, refused |-> refused]
    BY <1>2 DEF Accept, Refuse
  <2> QED
    BY <2>1, <2>2
<1>3. CASE r = Accept(e) /\ HasWinnerMatchUp(m) /\ Cardinality(d.matchUps[n].at) # 2
  <2>1. m \in Main
    BY <1>3, MatchKinds, PlayoffApart
  <2>2. n \in Main /\ n[1] = m[1] + 1 /\ n \in Below(m) /\ n # m /\ n \in Match
    BY <1>3, <2>1, NextMatchUp, MatchKinds
  <2>3. PICK w \in Position \ Bye : w \in d.matchUps[m].at /\ WinnerOf(d.matchUps[m]) = {w}
    BY <2>1, WonMatchUp
  <2>4. p = w
    BY <2>3 DEF p
  <2>5. InBlock(w, n)
    <3>1. InBlock(w, m) /\ m[1] < n[1]
      BY <2>1, <2>2, <2>3, MainElements, RoundsNat DEF Stands
    <3> QED
      BY <2>1, <2>2, <2>3, <3>1, Ancestor
  <2> DEFINE z == Arrived(d.matchUps[n], p)
  <2>6. z \in MatchUp /\ z.at = d.matchUps[n].at \cup {w} /\ z.winner = NoWinner
    <3>1. d.matchUps[n] \in MatchUp
      BY <2>2, DrawTypes DEF Stands
    <3> QED
      BY <2>3, <2>4, <3>1, ArrivedType
  <2> HIDE DEF z
  <2>7. /\ e \in Draw /\ e.seats = d.seats /\ e.matchUps[n] = z
        /\ \A k \in Match \ {n} : e.matchUps[k] = d.matchUps[k]
    BY <2>2, <2>6 DEF Stands, Draw, e, z
  <2>8. AtMostTwo(z.at) /\ (\A q \in z.at : InBlock(q, n)) /\ z.at \cap Bye = {}
    <3>1. \A q1, q2 \in d.matchUps[n].at : q1 = q2
      BY <1>3, <2>2, CountTwo DEF Stands
    <3>2. PICK c : d.matchUps[n].at \subseteq {c}
      BY <3>1
    <3>3. z.at \subseteq {c, w}
      BY <2>6, <3>2
    <3>4. AtMostTwo(z.at)
      BY <3>3 DEF AtMostTwo
    <3>5. n[1] > 1
      BY <2>1, <2>2, MainElements, RoundsNat
    <3> QED
      BY <2>2, <2>3, <2>5, <2>6, <3>4, <3>5 DEF Stands
  <2>9. ~ TwoParticipants(d, n)
    BY <1>3, <2>2, PairCount
  <2>10. d.matchUps[m].winner # NoWinner => TwoParticipants(d, m)
    BY DEF Stands
  <2>11. e.matchUps[m] = d.matchUps[m]
    BY <2>2, <2>7
  <2>12. ASSUME NEW k \in Match \ {m}
         PROVE  \/ e.matchUps[k] = d.matchUps[k] /\ (k = Playoff => e.seats = d.seats)
                \/ /\ ~ TwoParticipants(d, k) /\ e.matchUps[k].winner = NoWinner /\ k # Playoff
                   /\ AtMostTwo(e.matchUps[k].at) /\ \A q \in e.matchUps[k].at : InBlock(q, k)
                   /\ e.matchUps[k].at \cap Bye = {}
    <3>1. CASE k = n
      BY <2>2, <2>6, <2>7, <2>8, <2>9, <3>1, MatchKinds
    <3>2. CASE k # n
      BY <2>7, <3>2
    <3> QED
      BY <3>1, <3>2
  <2>13. Steady(d, e, m)
    BY <2>7, <2>10, <2>11, <2>12, SteadyChange
  <2> QED
    BY <1>3, <2>11, <2>13 DEF Accept
<1> QED
  BY <1>1, <1>2, <1>3

\* directLoser: where a seat is free, nobody has played for it.
LEMMA SteadyLoser ==
  ASSUME NEW d, Stands(d), NEW m \in Match, d.matchUps[m].winner # NoWinner
  PROVE  LET r == DirectLoser(d, m)
         IN  Steady(d, r.draw, m) /\ r.refused \in BOOLEAN
<1> DEFINE r == DirectLoser(d, m)
           p == CHOOSE q \in LoserOf(d.matchUps[m]) : TRUE
           free == {i \in Seat : d.seats[i] = Nobody}
           seat == IF m[2] \in free THEN m[2] ELSE CHOOSE i \in free : TRUE
           e == [d EXCEPT !.seats[seat] = p]
<1>1. r = IF ~ FeedsPlayoff(m) \/ p \in Players(d, Playoff) THEN Accept(d)
          ELSE IF free = {} THEN Refuse(d)
          ELSE Accept(e)
  BY DEF DirectLoser
<1>2. free # {} => seat \in free
  OBVIOUS
<1> SUFFICES Steady(d, r.draw, m) /\ r.refused \in BOOLEAN
  OBVIOUS
<1> HIDE DEF r, p, e, seat
<1>3. CASE r = Accept(d) \/ r = Refuse(d)
  <2>1. Steady(d, d, m)
    BY SteadyStill
  <2>2. \E refused \in BOOLEAN : r = [draw |-> d, refused |-> refused]
    BY <1>3 DEF Accept, Refuse
  <2> QED
    BY <2>1, <2>2
<1>4. CASE r = Accept(e) /\ FeedsPlayoff(m) /\ free # {}
  <2>1. m \in Main /\ m # Playoff
    BY <1>4, MatchKinds, PlayoffApart
  <2>2. PICK l \in Position : LoserOf(d.matchUps[m]) = {l}
    BY <2>1, WonMatchUp
  <2>3. p = l
    BY <2>2 DEF p
  <2>4. seat \in Seat /\ d.seats[seat] = Nobody
    BY <1>2, <1>4
  <2>5. ~ TwoParticipants(d, Playoff)
    BY <2>4, SeatCount DEF Seat
  <2>6. d.matchUps[Playoff].winner = NoWinner /\ d.matchUps[Playoff].at = Seat
    BY <2>5 DEF Stands, Match
  <2>7. e \in Draw /\ e.matchUps = d.matchUps
    BY <2>2, <2>3, <2>4 DEF Stands, Draw, e
  <2>8. d.matchUps[m].winner # NoWinner => TwoParticipants(d, m)
    BY DEF Stands
  <2>9. Steady(d, e, m)
    BY <2>1, <2>5, <2>6, <2>7, <2>8, MatchKinds, SteadyChange
  <2> QED
    BY <1>4, <2>9 DEF Accept
<1> QED
  BY <1>1, <1>3, <1>4

\* directParticipants
LEMMA SteadyDirected ==
  ASSUME NEW d, Stands(d), NEW m \in Match, NEW o \in Outcome, o.winner # NoWinner
  PROVE  LET r == DirectParticipants(d, m, o)
         IN  Steady(d, r.draw, m) /\ r.refused \in BOOLEAN
<1> DEFINE r == DirectParticipants(d, m, o)
           status == IF o.status \in Directing THEN o.status ELSE "COMPLETED"
           given == [o EXCEPT !.status = status]
           y == Written(d.matchUps[m], given, FALSE, FALSE)
           c == [d EXCEPT !.matchUps[m] = y]
           u == DirectWinner(c, m)
<1> SUFFICES Steady(d, r.draw, m) /\ r.refused \in BOOLEAN
  OBVIOUS
<1>1. given \in Outcome /\ given.winner = o.winner
  <2>1. o.status \in Directing => o.status # "BYE"
    BY DEF Outcome, None
  <2>2. status \in (Status \ {"BYE"}) \cup {None}
    BY <2>1 DEF Status, Directing
  <2> HIDE DEF status
  <2> QED
    BY <2>2 DEF Outcome
<1>2. d.matchUps[m] \in MatchUp
  BY DrawTypes DEF Stands
<1>3. y \in MatchUp /\ y.at = d.matchUps[m].at /\ y.winner = o.winner
  <2> HIDE DEF given
  <2> QED
    BY <1>1, <1>2, WrittenType DEF WrittenWinner
<1>4. r = IF ~ TwoParticipants(d, m) THEN Refuse(d)
          ELSE IF u.refused THEN u
          ELSE DirectLoser(u.draw, m)
  BY DEF DirectParticipants
<1>5. c.matchUps[m] = y
  BY DEF Stands, Draw
<1> HIDE DEF r, y, given, u
<1>6. CASE ~ TwoParticipants(d, m)
  <2>1. r = [draw |-> d, refused |-> TRUE]
    BY <1>4, <1>6 DEF Refuse
  <2> QED
    BY <2>1, SteadyStill
<1>7. CASE TwoParticipants(d, m)
  <2>1. Steady(d, c, m)
    BY <1>3, <1>7, SteadyWrite
  <2> HIDE DEF c
  <2>2. c.matchUps[m].winner # NoWinner
    BY <1>3, <1>5
  <2>3. Steady(c, u.draw, m) /\ u.refused \in BOOLEAN /\ u.draw.matchUps[m] = c.matchUps[m]
    BY <2>1, <2>2, SteadyWinner DEF Steady, u
  <2>4. Steady(d, u.draw, m)
    BY <2>1, <2>3, SteadyTwice
  <2>5. CASE u.refused
    BY <1>4, <1>7, <2>3, <2>4, <2>5
  <2>6. CASE ~ u.refused
    <3>1. r = DirectLoser(u.draw, m)
      BY <1>4, <1>7, <2>6
    <3>2. Steady(u.draw, r.draw, m) /\ r.refused \in BOOLEAN
      BY <2>2, <2>3, <2>4, <3>1, SteadyLoser DEF Steady
    <3> QED
      BY <2>4, <3>2, SteadyTwice
  <2> QED
    BY <2>5, <2>6
<1> QED
  BY <1>6, <1>7

\* The other one of two positions.
Other(S, p) == IF p \in S THEN CHOOSE q \in S : q # p ELSE p
Others(S, T) == {Other(S, p) : p \in T}

LEMMA OtherOf ==
  ASSUME NEW a, NEW b, a # b
  PROVE  /\ Other({a, b}, a) = b /\ Other({a, b}, b) = a
         /\ \A p : p \notin {a, b} => Other({a, b}, p) = p
<1>1. (CHOOSE q \in {a, b} : q # a) = b
  OBVIOUS
<1>2. (CHOOSE q \in {a, b} : q # b) = a
  OBVIOUS
<1> QED
  BY <1>1, <1>2 DEF Other

\* exchangePathPositions: two who change places everywhere stay two, of the same part of the draw.
LEMMA SteadyExchange ==
  ASSUME NEW d, Stands(d), NEW m \in Match, d.matchUps[m].winner # NoWinner
  PROVE  LET e == Exchanged(d, m)
         IN  Steady(d, e, m) /\ e.matchUps[m] = d.matchUps[m] /\ TwoParticipants(e, m)
<1> DEFINE e == Exchanged(d, m)
           x == d.matchUps
           at == x[m].at
           o(p) == Other(at, p)
           later(n) == n \in Main /\ n[1] > m[1]
<1> SUFFICES Steady(d, e, m) /\ e.matchUps[m] = x[m] /\ TwoParticipants(e, m)
  OBVIOUS
<1>1. x \in [Match -> MatchUp] /\ d.seats \in [Seat -> Position \cup {Nobody}]
  BY DrawTypes DEF Stands
<1>2. e = [matchUps |-> [n \in Match |->
             IF n \in Main /\ n[1] > m[1] THEN [x[n] EXCEPT !.at = Others(at, x[n].at)] ELSE x[n]],
           seats |-> [i \in Seat |-> IF HasWinnerMatchUp(m) THEN Other(at, d.seats[i]) ELSE d.seats[i]]]
  BY DEF Exchanged, Other, Others
<1>3. ~ later(m)
  BY MainElements
<1>4. TwoParticipants(d, m)
  BY DEF Stands
<1>5. CASE m = Playoff
  <2>1. (\A n \in Main : ~ (n[1] > m[1])) /\ ~ HasWinnerMatchUp(m)
    BY <1>5, MainElements, PlayoffApart, RoundsNat
  <2>2. e = [matchUps |-> [n \in Match |-> x[n]], seats |-> [i \in Seat |-> d.seats[i]]]
    BY <1>2, <2>1
  <2>3. e = d
    BY <1>1, <2>2, DrawTypes DEF Stands
  <2> QED
    BY <1>4, <2>3, SteadyStill
<1>6. CASE m \in Main
  <2>1. PICK a \in Position \ Bye, b \in Position \ Bye : a < b /\ at = {a, b}
    BY <1>4, <1>6, ParticipantsOf
  <2>2. /\ o(a) = b /\ o(b) = a /\ \A p : p \notin {a, b} => o(p) = p
    <3>1. a # b
      BY <2>1 DEF Position
    <3>2. /\ Other({a, b}, a) = b /\ Other({a, b}, b) = a
          /\ \A p : p \notin {a, b} => Other({a, b}, p) = p
      BY <3>1, OtherOf
    <3> QED
      BY <2>1, <3>2
  <2>3. \A T : Others(at, T) = {o(p) : p \in T}
    BY DEF Others
  <2>4. InBlock(a, m) /\ InBlock(b, m)
    BY <1>6, <2>1 DEF Stands
  <2> HIDE DEF e, o, at, later
  <2>5. /\ \A p, q : o(p) = o(q) => p = q
        /\ o(Nobody) = Nobody /\ \A p : o(p) = Nobody => p = Nobody
        /\ \A p : o(p) \in Bye => p \in Bye
        /\ \A p \in Position : o(p) \in Position
    <3>1. Nobody \notin {a, b}
      BY DEF Nobody, Position
    <3> QED
      BY <2>1, <2>2, <3>1
  <2>6. \A n \in Match : IF later(n) THEN e.matchUps[n] = [x[n] EXCEPT !.at = Others(at, x[n].at)]
                         ELSE e.matchUps[n] = x[n]
    BY <1>2 DEF later
  <2>7. \A i \in Seat : e.seats[i] = IF HasWinnerMatchUp(m) THEN o(d.seats[i]) ELSE d.seats[i]
    BY <1>2 DEF o
  <2>8. ASSUME NEW n \in Match
        PROVE  /\ e.matchUps[n] \in MatchUp
               /\ e.matchUps[n].at = IF later(n) THEN Others(at, x[n].at) ELSE x[n].at
               /\ e.matchUps[n].winner = x[n].winner
               /\ [e.matchUps[n] EXCEPT !.at = {}] = [x[n] EXCEPT !.at = {}]
    <3>1. x[n] \in MatchUp
      BY <1>1
    <3>2. Others(at, x[n].at) \in SUBSET Position
      BY <2>3, <2>5, <3>1 DEF MatchUp
    <3>3. CASE later(n)
      <4>1. e.matchUps[n] = [x[n] EXCEPT !.at = Others(at, x[n].at)]
        BY <2>6, <3>3
      <4> QED
        BY <3>1, <3>2, <3>3, <4>1 DEF MatchUp
    <3>4. CASE ~ later(n)
      BY <2>6, <3>1, <3>4
    <3> QED
      BY <3>3, <3>4
  <2>9. e \in Draw
    <3>1. \A i \in Seat : e.seats[i] \in Position \cup {Nobody}
      BY <1>1, <2>5, <2>7
    <3>2. /\ e = [matchUps |-> e.matchUps, seats |-> e.seats]
          /\ e.matchUps = [n \in Match |-> e.matchUps[n]] /\ e.seats = [i \in Seat |-> e.seats[i]]
      BY <1>2
    <3>3. e.matchUps \in [Match -> MatchUp] /\ e.seats \in [Seat -> Position \cup {Nobody}]
      BY <2>8, <3>1, <3>2
    <3> QED
      BY <3>2, <3>3 DEF Draw
  <2>10. ASSUME NEW n \in Main, later(n)
         PROVE  /\ AtMostTwo(e.matchUps[n].at) /\ \A p \in e.matchUps[n].at : InBlock(p, n)
                /\ e.matchUps[n].at \cap Bye = {}
    <3>1. n[1] > 1 /\ n[1] > m[1] /\ n \in Match
      BY <1>6, <2>10, MainElements, RoundsNat, MatchKinds DEF later
    <3>2. e.matchUps[n].at = {o(p) : p \in x[n].at}
      BY <2>3, <2>8, <2>10, <3>1
    <3>3. AtMostTwo(e.matchUps[n].at)
      <4>1. PICK u, v : x[n].at \subseteq {u, v}
        BY DEF Stands, AtMostTwo
      <4>2. e.matchUps[n].at \subseteq {o(u), o(v)}
        BY <3>2, <4>1
      <4> QED
        BY <4>2 DEF AtMostTwo
    <3>4. ASSUME NEW p \in x[n].at
          PROVE  InBlock(o(p), n)
      <4>1. InBlock(p, n)
        BY DEF Stands
      <4>2. InBlock(a, n) <=> InBlock(b, n)
        BY <1>6, <2>4, <3>1, MainElements, RoundsNat, Ancestor
      <4> QED
        BY <2>2, <4>1, <4>2
    <3>5. x[n].at \cap Bye = {}
      BY <3>1 DEF Stands
    <3>6. e.matchUps[n].at \cap Bye = {}
      BY <2>5, <3>2, <3>5
    <3> QED
      BY <3>2, <3>3, <3>4, <3>6
  <2>11. ASSUME NEW n \in Match, TwoParticipants(d, n)
         PROVE  TwoParticipants(e, n)
    <3>1. CASE n = Playoff
      <4>1. 1 \in Seat /\ 2 \in Seat
        BY DEF Seat
      <4>2. \/ e.seats[1] = o(d.seats[1]) /\ e.seats[2] = o(d.seats[2])
            \/ e.seats[1] = d.seats[1] /\ e.seats[2] = d.seats[2]
        BY <2>7, <4>1
      <4> QED
        BY <2>5, <2>11, <3>1, <4>2, SeatCount
    <3>2. CASE later(n)
      <4>1. n \in Main /\ n # Playoff
        BY <3>2, MatchKinds DEF later
      <4>2. PICK u, v \in Position \ Bye : u < v /\ x[n].at = {u, v}
        BY <2>11, <4>1, ParticipantsOf
      <4>3. u # v
        BY <4>2 DEF Position
      <4>4. Players(e, n) = e.matchUps[n].at /\ AtMostTwo(e.matchUps[n].at)
        <5>1. e.matchUps[n].at \cap Bye = {} /\ AtMostTwo(e.matchUps[n].at)
          BY <2>10, <3>2, <4>1
        <5> QED
          BY <4>1, <5>1 DEF Players
      <4>5. e.matchUps[n].at = {o(u), o(v)} /\ o(u) # o(v)
        <5>1. e.matchUps[n].at = {o(p) : p \in {u, v}}
          BY <2>3, <2>8, <3>2, <4>2
        <5>2. {o(p) : p \in {u, v}} = {o(u), o(v)}
          OBVIOUS
        <5> QED
          BY <2>5, <4>3, <5>1, <5>2
      <4> QED
        BY <4>4, <4>5, CountTwo DEF TwoParticipants
    <3>3. CASE n # Playoff /\ ~ later(n)
      BY <2>8, <2>11, <3>3, SamePlayers
    <3> QED
      BY <3>1, <3>2, <3>3
  <2>12. Stands(e)
    <3>1. ASSUME NEW n \in Main
          PROVE  /\ AtMostTwo(e.matchUps[n].at) /\ \A p \in e.matchUps[n].at : InBlock(p, n)
                 /\ n[1] > 1 => e.matchUps[n].at \cap Bye = {}
      <4>1. CASE later(n)
        BY <2>10, <4>1
      <4>2. CASE ~ later(n)
        <5>1. e.matchUps[n].at = x[n].at
          BY <2>8, <4>2, MatchKinds
        <5> QED
          BY <5>1 DEF Stands
      <4> QED
        BY <4>1, <4>2
    <3>2. e.matchUps[Playoff].at = Seat
      BY <2>8, MatchKinds DEF Stands, Match, later
    <3>3. \A n \in Match : e.matchUps[n].winner # NoWinner => TwoParticipants(e, n)
      BY <2>8, <2>11 DEF Stands
    <3> QED
      BY <2>9, <3>1, <3>2, <3>3 DEF Stands
  <2>13. Confined(d, e, m)
    BY <2>8, <2>11 DEF Confined
  <2>14. e.matchUps[m] = x[m]
    BY <1>3, <2>6 DEF later
  <2> QED
    BY <1>4, <2>11, <2>12, <2>13, <2>14 DEF Steady
<1> QED
  BY <1>5, <1>6, MatchKinds

\* swapWinnerLoser
LEMMA SteadySwap ==
  ASSUME NEW d, Stands(d), NEW m \in Match, NEW o \in Outcome, d.matchUps[m].winner # NoWinner
  PROVE  Steady(d, SwapWinnerLoser(d, m, o).draw, m)
<1> DEFINE e == Exchanged(d, m)
<1>1. Steady(d, e, m) /\ TwoParticipants(e, m)
  BY SteadyExchange
<1>2. SwapWinnerLoser(d, m, o) = Modify(e, m, o, FALSE)
  BY DEF SwapWinnerLoser
<1> HIDE DEF e
<1>3. Steady(e, Modify(e, m, o, FALSE).draw, m)
  BY <1>1, SteadyModify DEF Steady
<1> QED
  BY <1>1, <1>2, <1>3, SteadyTwice

\* What a call may return.
SteadyReply(d, r, m) == Steady(d, r.draw, m) /\ r.refused \in BOOLEAN

LEMMA SteadyReplies ==
  ASSUME NEW d, Stands(d), NEW m \in Match
  PROVE  /\ SteadyReply(d, Accept(d), m) /\ SteadyReply(d, Refuse(d), m)
         /\ \A e : Steady(d, e, m) => SteadyReply(d, Accept(e), m)
<1>1. Steady(d, d, m)
  BY SteadyStill
<1> QED
  BY <1>1 DEF SteadyReply, Accept, Refuse

LEMMA SteadyModified ==
  ASSUME NEW d, Stands(d), NEW m \in Match, NEW o \in Outcome, NEW removeScore \in BOOLEAN,
         o.winner # NoWinner => TwoParticipants(d, m)
  PROVE  SteadyReply(d, Modify(d, m, o, removeScore), m)
<1>1. Modify(d, m, o, removeScore).refused = FALSE
  BY DEF Modify, Accept
<1> QED
  BY <1>1, SteadyModify DEF SteadyReply

\* attemptToSetWinningSide
LEMMA SteadyWinningSide ==
  ASSUME NEW d, Stands(d), NEW m \in Match, NEW o \in Outcome, o.winner # NoWinner,
         ~ ActiveDownstream(d, m) \/ d.matchUps[m].winner = NoWinner
  PROVE  SteadyReply(d, AttemptToSetWinningSide(d, m, o), m)
<1>1. CASE d.matchUps[m].winner \in {NoWinner, o.winner}
  BY <1>1, SteadyDirected DEF AttemptToSetWinningSide, SteadyReply
<1>2. CASE d.matchUps[m].winner \notin {NoWinner, o.winner}
  <2> DEFINE e == RemoveDirected(d, m, o, FALSE)
             r == DirectParticipants(e, m, o)
  <2>1. AttemptToSetWinningSide(d, m, o) = r
    BY <1>2 DEF AttemptToSetWinningSide
  <2>2. Steady(d, e, m)
    BY SteadyRemoval
  <2> HIDE DEF e
  <2>3. Steady(e, r.draw, m) /\ r.refused \in BOOLEAN
    BY <2>2, SteadyDirected DEF Steady
  <2> HIDE DEF r
  <2> QED
    BY <2>1, <2>2, <2>3, SteadyTwice DEF SteadyReply
<1> QED
  BY <1>1, <1>2

\* applyOutcome, noDownstreamDependencies and what it leads to.
LEMMA SteadyOutcome ==
  ASSUME NEW d, Stands(d), NEW m \in Match, NEW o \in Outcome
  PROVE  SteadyReply(d, ApplyOutcome(d, m, o), m)
<1> DEFINE x == d.matchUps[m]
           open == ~ ActiveDownstream(d, m) \/ x.winner = NoWinner
           removeScore == o.status \notin {None, "INCOMPLETE", "ABANDONED"}
           u == [o EXCEPT !.status = IF @ = None THEN "COMPLETED" ELSE @]
<1>1. x.winner # NoWinner => TwoParticipants(d, m)
  BY DEF Stands
<1>2. u \in Outcome /\ u.winner = o.winner
  <2>1. "COMPLETED" \in Status \ {"BYE"}
    BY DEF Status, Directing
  <2> QED
    BY <2>1 DEF Outcome
<1>3. ASSUME open, NEW remove \in BOOLEAN
      PROVE  SteadyReply(d, Accept(RemoveDirected(d, m, o, remove)), m)
  BY <1>3, SteadyRemoval, SteadyReplies
<1>4. ASSUME o.winner = NoWinner, NEW remove \in BOOLEAN
      PROVE  SteadyReply(d, Modify(d, m, o, remove), m)
  BY <1>4, SteadyModified
<1>5. ASSUME o.winner \in {NoWinner, x.winner}
      PROVE  SteadyReply(d, ApplyMatchUpValues(d, m, o), m)
  <2>1. ApplyMatchUpValues(d, m, o) = Modify(d, m, u, o.status = "CANCELLED")
    BY DEF ApplyMatchUpValues
  <2> HIDE DEF u
  <2> QED
    BY <1>1, <1>2, <1>5, <2>1, SteadyModified
<1>6. ASSUME open, o.winner = NoWinner
      PROVE  SteadyReply(d, AttemptToSetMatchUpStatus(d, m, o), m)
  <2>1. AttemptToSetMatchUpStatus(d, m, o) \in
          {Modify(d, m, o, FALSE), Refuse(d), Accept(RemoveDirected(d, m, o, FALSE)),
           Modify(d, m, o, o.status = "CANCELLED")}
    BY DEF AttemptToSetMatchUpStatus
  <2> QED
    BY <1>3, <1>4, <1>6, <2>1, SteadyReplies
<1>7. ASSUME open
      PROVE  SteadyReply(d, NoDownstreamDependencies(d, m, o), m)
  <2>1. CASE o.winner # NoWinner
    <3>1. NoDownstreamDependencies(d, m, o) = AttemptToSetWinningSide(d, m, o)
      BY <2>1 DEF NoDownstreamDependencies
    <3> QED
      BY <1>7, <2>1, <3>1, SteadyWinningSide
  <2>2. CASE o.winner = NoWinner
    <3>1. NoDownstreamDependencies(d, m, o) \in
            {Accept(RemoveDirected(d, m, o, removeScore)), AttemptToSetMatchUpStatus(d, m, o),
             Modify(d, m, o, TRUE)}
      BY <2>2 DEF NoDownstreamDependencies
    <3> QED
      BY <1>3, <1>4, <1>6, <1>7, <2>2, <3>1
  <2> QED
    BY <2>1, <2>2
<1> HIDE DEF u, removeScore
<1>8. \/ ApplyOutcome(d, m, o) \in {Accept(d), Refuse(d)}
      \/ open /\ ApplyOutcome(d, m, o) = NoDownstreamDependencies(d, m, o)
      \/ /\ o.winner \in {NoWinner, x.winner}
         /\ ApplyOutcome(d, m, o) = ApplyMatchUpValues(d, m, o)
  BY DEF ApplyOutcome
<1> HIDE DEF open, x
<1> QED
  BY <1>5, <1>7, <1>8, SteadyReplies

\* One call.
LEMMA CallSteady ==
  ASSUME Stands(draw), SomeCall
  PROVE  \E m \in Match : Steady(draw, draw', m) /\ reply' \in {"done", "refused"}
<1>1. PICK call \in Call : SetMatchUpStatus(call[1], call[2]) \/ CorrectWinner(call[1], call[2])
  BY DEF SomeCall
<1> DEFINE m == call[1]
           o == Given(call[2])
<1>2. m \in Match /\ call[2] \in Outcome
  BY CallAssumption
<1>3. o \in Outcome
  BY <1>2 DEF Given, Outcome, Score, NoScore
<1>4. \E r : SteadyReply(draw, r, m) /\ Return(r)
  <2>1. CASE SetMatchUpStatus(call[1], call[2])
    <3>1. \/ Return(Refuse(draw)) \/ Return(ApplyOutcome(draw, m, o))
      BY <2>1 DEF SetMatchUpStatus
    <3> HIDE DEF o
    <3> QED
      BY <1>2, <1>3, <3>1, SteadyReplies, SteadyOutcome
  <2>2. CASE CorrectWinner(call[1], call[2])
    <3>1. \/ Return(Refuse(draw)) \/ Return(SwapWinnerLoser(draw, m, o))
      BY <2>2 DEF CorrectWinner
    <3>2. draw.matchUps[m].winner # NoWinner
      BY <2>2 DEF CorrectWinner
    <3> HIDE DEF o
    <3>3. SwapWinnerLoser(draw, m, o).refused = FALSE
      BY DEF SwapWinnerLoser, Modify, Accept
    <3>4. SteadyReply(draw, SwapWinnerLoser(draw, m, o), m)
      BY <1>2, <1>3, <3>2, <3>3, SteadySwap DEF SteadyReply
    <3> QED
      BY <1>2, <3>1, <3>4, SteadyReplies
  <2> QED
    BY <1>1, <2>1, <2>2
<1> QED
  BY <1>2, <1>4 DEF Return, SteadyReply

-----------------------------------------------------------------------------
(* Writes after which places follow results.                               *)

\* A write that changes no place, and no winner but where nobody is sent on.
LEMMA SameBracket ==
  ASSUME NEW d, Bracket(d), NEW e, Stands(e), e.seats = d.seats,
         \A n \in Main : e.matchUps[n].at = d.matchUps[n].at,
         \A n \in Main : HasWinnerMatchUp(n) => e.matchUps[n].winner = d.matchUps[n].winner
  PROVE  Bracket(e)
<1>1. \A n \in Main : HasWinnerMatchUp(n) =>
        /\ Sent(e.matchUps[n]) = Sent(d.matchUps[n])
        /\ LoserOf(e.matchUps[n]) = LoserOf(d.matchUps[n])
  BY SameSides
<1>2. ASSUME NEW n \in Main, n[1] > 1
      PROVE  e.matchUps[n].at = UNION {Sent(e.matchUps[m]) : m \in Feeders(n)}
  <2>1. \A m \in Feeders(n) : Sent(e.matchUps[m]) = Sent(d.matchUps[m])
    BY <1>1 DEF Feeders
  <2> QED
    BY <1>2, <2>1 DEF Bracket, Places
<1>3. \A i \in Seat : {e.seats[i]} \ {Nobody} = LoserOf(e.matchUps[<<Rounds - 1, i>>])
  BY <1>1, Semifinals DEF Bracket, Places
<1> QED
  BY <1>2, <1>3 DEF Bracket, Places

\* The result of m changes, and what followed from it with it, where nothing was decided.
LEMMA Rewired ==
  ASSUME NEW d, Bracket(d), NEW e, Stands(e), NEW m \in Main, TwoParticipants(d, m),
         e.matchUps[m].at = d.matchUps[m].at,
         HasWinnerMatchUp(m) =>
           LET n == WinnerMatchUp(m)
           IN  /\ d.matchUps[n].winner = NoWinner /\ e.matchUps[n].winner = NoWinner
               /\ e.matchUps[n].at = (d.matchUps[n].at \ WinnerOf(d.matchUps[m]))
                                       \cup WinnerOf(e.matchUps[m]),
         \A k \in Match \ {m} :
           \/ HasWinnerMatchUp(m) /\ k = WinnerMatchUp(m)
           \/ e.matchUps[k].at = d.matchUps[k].at /\ e.matchUps[k].winner = d.matchUps[k].winner,
         IF FeedsPlayoff(m)
         THEN /\ {e.seats[m[2]]} \ {Nobody} = LoserOf(e.matchUps[m])
              /\ \A i \in Seat \ {m[2]} : e.seats[i] = d.seats[i]
         ELSE e.seats = d.seats
  PROVE  Bracket(e)
<1> DEFINE n == WinnerMatchUp(m)
           changed == IF HasWinnerMatchUp(m) THEN {n} ELSE {}
<1>1. \A k \in Main : k \in Match /\ k # Playoff
  BY PlayoffApart DEF Match
<1>2. HasWinnerMatchUp(m) => n \in Main /\ n[1] = m[1] + 1 /\ n[1] > 1 /\ n \in Below(m) /\ n # m
  BY NextMatchUp, MainElements, RoundsNat
<1>3. \A k \in Main \ changed : e.matchUps[k].at = d.matchUps[k].at
  BY <1>1
<1>4. \A k \in Main \ ({m} \cup changed) : e.matchUps[k].winner = d.matchUps[k].winner
  BY <1>1
<1>5. PICK a \in Position \ Bye, b \in Position \ Bye : a < b /\ d.matchUps[m].at = {a, b}
  BY ParticipantsOf DEF Bracket
<1>6. /\ Sent(d.matchUps[m]) = WinnerOf(d.matchUps[m])
      /\ Sent(e.matchUps[m]) = WinnerOf(e.matchUps[m])
      /\ WinnerOf(e.matchUps[m]) \subseteq {a, b}
  BY <1>5, NoSide DEF Sent
<1>7. HasWinnerMatchUp(m) =>
        /\ Sent(e.matchUps[n]) = {} /\ Sent(d.matchUps[n]) = {}
        /\ LoserOf(e.matchUps[n]) = {} /\ LoserOf(d.matchUps[n]) = {}
  <2> SUFFICES ASSUME HasWinnerMatchUp(m)
               PROVE  /\ Sent(e.matchUps[n]) = {} /\ Sent(d.matchUps[n]) = {}
                      /\ LoserOf(e.matchUps[n]) = {} /\ LoserOf(d.matchUps[n]) = {}
    OBVIOUS
  <2>1. d.matchUps[n].at \cap Bye = {} /\ e.matchUps[n].at \cap Bye = {}
    BY <1>2 DEF Bracket, Stands
  <2> QED
    BY <2>1, NoSide DEF Sent
<1>8. \A k \in Main \ {m} : /\ Sent(e.matchUps[k]) = Sent(d.matchUps[k])
                            /\ LoserOf(e.matchUps[k]) = LoserOf(d.matchUps[k])
  <2> TAKE k \in Main \ {m}
  <2>1. CASE k \in changed
    BY <1>7, <2>1
  <2>2. CASE k \notin changed
    BY <1>3, <1>4, <2>2, SameSides
  <2> QED
    BY <2>1, <2>2
<1>9. ASSUME NEW k \in Main, k[1] > 1
       PROVE  e.matchUps[k].at = UNION {Sent(e.matchUps[f]) : f \in Feeders(k)}
  <2> DEFINE others == UNION {Sent(d.matchUps[f]) : f \in Feeders(k) \ {m}}
  <2>1. d.matchUps[k].at = UNION {Sent(d.matchUps[f]) : f \in Feeders(k)}
    BY <1>9 DEF Bracket, Places
  <2>2. \A f \in Feeders(k) \ {m} : Sent(e.matchUps[f]) = Sent(d.matchUps[f])
    BY <1>8 DEF Feeders
  <2>3. CASE m \notin Feeders(k)
    <3>1. k \notin changed
      BY <1>2, <2>3, NextMatchUp
    <3>2. e.matchUps[k].at = d.matchUps[k].at
      BY <1>3, <3>1
    <3> QED
      BY <2>1, <2>2, <2>3, <3>2
  <2>4. CASE m \in Feeders(k)
    <3>1. HasWinnerMatchUp(m) /\ k = n
      BY <2>4, FeedersOf
    <3>2. d.matchUps[k].at = others \cup WinnerOf(d.matchUps[m])
      BY <1>6, <2>1, <2>4
    <3>3. others \cap WinnerOf(d.matchUps[m]) = {}
      <4>1. SUFFICES ASSUME NEW f \in Feeders(k) \ {m}, NEW p \in Sent(d.matchUps[f]),
                            p \in WinnerOf(d.matchUps[m])
                     PROVE  FALSE
        OBVIOUS
      <4>2. f \in Main /\ f[1] = m[1]
        BY <2>4, FeedersOf
      <4>3. InBlock(p, f) /\ InBlock(p, m)
        BY <1>6, <4>1, <4>2, SentAlone DEF Bracket
      <4> QED
        BY <4>2, <4>3, BlocksApart
    <3>4. e.matchUps[k].at = others \cup Sent(e.matchUps[m])
      BY <1>6, <3>1, <3>2, <3>3
    <3>5. UNION {Sent(e.matchUps[f]) : f \in Feeders(k)}
            = (UNION {Sent(e.matchUps[f]) : f \in Feeders(k) \ {m}}) \cup Sent(e.matchUps[m])
      BY <2>4
    <3>6. UNION {Sent(e.matchUps[f]) : f \in Feeders(k) \ {m}} = others
      BY <2>2
    <3> QED
      BY <3>4, <3>5, <3>6
  <2> QED
    BY <2>3, <2>4
<1>10. ASSUME NEW i \in Seat
       PROVE  {e.seats[i]} \ {Nobody} = LoserOf(e.matchUps[<<Rounds - 1, i>>])
  <2> DEFINE s == <<Rounds - 1, i>>
  <2>1. s \in Main /\ FeedsPlayoff(s) /\ s[2] = i
    BY Semifinals
  <2>2. CASE s = m
    BY <2>1, <2>2
  <2>3. CASE s # m
    <3>1. e.seats[i] = d.seats[i]
      <4>1. CASE FeedsPlayoff(m)
        <5>1. m[2] # i
          BY <2>1, <2>3, <4>1, SameRound DEF FeedsPlayoff
        <5> QED
          BY <4>1, <5>1
      <4>2. CASE ~ FeedsPlayoff(m)
        BY <4>2
      <4> QED
        BY <4>1, <4>2
    <3>2. LoserOf(e.matchUps[s]) = LoserOf(d.matchUps[s])
      BY <1>8, <2>1, <2>3
    <3> QED
      BY <3>1, <3>2 DEF Bracket, Places
  <2> QED
    BY <2>2, <2>3
<1>11. Places(e)
  BY <1>9, <1>10 DEF Places
<1> QED
  BY <1>11 DEF Bracket

\* directWinner has placed whoever is sent on.
LEMMA WinnerStandsNext ==
  ASSUME NEW d, Bracket(d), NEW m \in Main, HasWinnerMatchUp(m)
  PROVE  Sent(d.matchUps[m]) \subseteq d.matchUps[WinnerMatchUp(m)].at
<1> DEFINE n == WinnerMatchUp(m)
<1>1. n \in Main /\ n[1] > 1 /\ m \in Feeders(n)
  BY NextMatchUp, MainElements, RoundsNat
<1>2. d.matchUps[n].at = UNION {Sent(d.matchUps[f]) : f \in Feeders(n)}
  BY <1>1 DEF Bracket, Places
<1> QED
  BY <1>1, <1>2

\* Where nothing was decided since, a winner stands in the next matchUp and no later one.
LEMMA WinnerStandsThere ==
  ASSUME NEW d, Bracket(d), NEW m \in Main, d.matchUps[m].winner # NoWinner,
         \A k \in Below(m) : d.matchUps[k].winner = NoWinner,
         NEW n \in Main, n[1] > m[1], d.matchUps[n].at \cap WinnerOf(d.matchUps[m]) # {}
  PROVE  HasWinnerMatchUp(m) /\ n = WinnerMatchUp(m)
<1>1. PICK w \in d.matchUps[n].at : w \in WinnerOf(d.matchUps[m])
  OBVIOUS
<1>2. w \in d.matchUps[m].at /\ InBlock(w, m) /\ w \in Position
  BY <1>1, NoSide, DrawTypes DEF Bracket, Stands, Match
<1>3. m[1] \in Nat \ {0} /\ n[1] \in Nat /\ n[1] > 1
  BY MainElements, RoundsNat
<1>4. PICK f \in Feeders(n) : w \in Sent(d.matchUps[f])
  BY <1>1, <1>3 DEF Bracket, Places
<1>5. f \in Main /\ f[1] = n[1] - 1 /\ HasWinnerMatchUp(f) /\ WinnerMatchUp(f) = n
  BY FeedersOf
<1>6. InBlock(w, f)
  BY <1>4, <1>5, SentAlone DEF Bracket
<1>7. CASE f[1] = m[1]
  BY <1>2, <1>5, <1>6, <1>7, BlocksApart
<1>8. CASE f[1] # m[1]
  <2>1. f[1] > m[1] /\ f[1] > 1
    BY <1>3, <1>5, <1>8
  <2>2. f \in Below(m)
    BY <1>2, <1>5, <1>6, <2>1, Ancestor
  <2>3. Sent(d.matchUps[f]) = WinnerOf(d.matchUps[f]) /\ d.matchUps[f].winner = NoWinner
    BY <1>5, <2>1, <2>2, SentHasWon DEF Bracket
  <2> QED
    BY <1>4, <2>3, NoSide
<1> QED
  BY <1>7, <1>8

-----------------------------------------------------------------------------
(* A result is written again, or taken back.                               *)

\* A write to m that keeps its winner, or any write where nobody is sent on.
LEMMA Relabelled ==
  ASSUME NEW d, Bracket(d), NEW m \in Match, NEW y \in MatchUp,
         y.at = d.matchUps[m].at, y.winner # NoWinner => TwoParticipants(d, m),
         y.winner = d.matchUps[m].winner \/ ~ HasWinnerMatchUp(m)
  PROVE  Bracket([d EXCEPT !.matchUps[m] = y])
<1> DEFINE e == [d EXCEPT !.matchUps[m] = y]
<1>1. /\ e.seats = d.seats /\ e.matchUps[m] = y
      /\ \A k \in Match \ {m} : e.matchUps[k] = d.matchUps[k]
  BY DEF Bracket, Stands, Draw
<1>2. Stands(e)
  BY SteadyWrite DEF Bracket, Steady
<1> HIDE DEF e
<1>3. \A n \in Main : /\ e.matchUps[n].at = d.matchUps[n].at
                      /\ HasWinnerMatchUp(n) => e.matchUps[n].winner = d.matchUps[n].winner
  BY <1>1, MatchKinds
<1>4. Bracket(e)
  BY <1>1, <1>2, <1>3, SameBracket
<1> QED
  BY <1>4 DEF e

\* The loser of another semifinal is not of this one's part of the draw.
LEMMA OtherSeat ==
  ASSUME NEW d, Bracket(d), NEW m \in Main, FeedsPlayoff(m), NEW i \in Seat \ {m[2]}
  PROVE  d.seats[i] \notin d.matchUps[m].at
<1> DEFINE s == <<Rounds - 1, i>>
<1>1. s \in Main /\ FeedsPlayoff(s) /\ s[2] = i
  BY Semifinals
<1>2. s # m /\ s[1] = m[1]
  BY <1>1 DEF FeedsPlayoff
<1>3. SUFFICES ASSUME d.seats[i] \in d.matchUps[m].at
               PROVE  FALSE
  OBVIOUS
<1>4. d.seats[i] \in Position /\ InBlock(d.seats[i], m)
  BY <1>3, DrawTypes, MatchKinds DEF Bracket, Stands
<1>5. d.seats[i] # Nobody
  BY <1>4 DEF Position, Nobody
<1>6. d.seats[i] \in LoserOf(d.matchUps[s])
  BY <1>5 DEF Bracket, Places
<1>7. InBlock(d.seats[i], s)
  BY <1>1, <1>6, SentAlone DEF Bracket
<1> QED
  BY <1>1, <1>2, <1>4, <1>7, BlocksApart

\* The loser of a semifinal has its seat.
LEMMA OwnSeat ==
  ASSUME NEW d, Bracket(d), NEW m \in Main, FeedsPlayoff(m)
  PROVE  m[2] \in Seat /\ {d.seats[m[2]]} \ {Nobody} = LoserOf(d.matchUps[m])
<1>1. m[2] \in Seat /\ m = <<Rounds - 1, m[2]>>
  BY Semifinals, MainElements DEF FeedsPlayoff
<1> QED
  BY <1>1 DEF Bracket, Places

\* A result taken back, with nothing decided or in play where its participants could come.
LEMMA TakenBack ==
  ASSUME NEW d, Bracket(d), NEW m \in Match, NEW o \in Outcome, NEW removeScore \in BOOLEAN,
         ~ ActiveDownstream(d, m) \/ d.matchUps[m].winner = NoWinner
  PROVE  LET e == RemoveDirected(d, m, o, removeScore)
         IN  Bracket(e) /\ e.matchUps[m].winner = NoWinner
<1> DEFINE e == RemoveDirected(d, m, o, removeScore)
           x == d.matchUps
           clear == [o EXCEPT !.status = IF @ = None THEN "TO_BE_PLAYED" ELSE @]
           won == WinnerOf(x[m])
           y == Written(x[m], clear, removeScore, TRUE)
<1>1. x \in [Match -> MatchUp] /\ d.seats \in [Seat -> Position \cup {Nobody}]
  BY DrawTypes DEF Bracket, Stands
<1>2. clear \in Outcome
  BY DEF Outcome, Status, NonDirecting
<1>3. y \in MatchUp /\ y.at = x[m].at /\ y.winner = NoWinner
  <2> HIDE DEF clear
  <2> QED
    <3>1. x[m] \in MatchUp
      BY <1>1
    <3>2. WrittenWinner(x[m], clear, removeScore, TRUE) = NoWinner
      BY DEF WrittenWinner
    <3> HIDE DEF x
    <3> QED
      BY <1>2, <3>1, <3>2, WrittenType
<1> HIDE DEF y, clear
<1>4. e = [matchUps |-> [n \in Match |->
             IF n = m THEN y
             ELSE IF n \in Main /\ n[1] > m[1] /\ x[n].at \cap won # {} THEN Vacated(x[n], won)
             ELSE x[n]],
           seats |-> Unseated(d, m)]
  BY DEF RemoveDirected, y, clear
<1>5. Stands(e)
  BY SteadyRemoval DEF Bracket, Steady
<1>6. /\ e.matchUps[m] = y /\ e.seats = Unseated(d, m)
      /\ \A n \in Match \ {m} : e.matchUps[n] =
           IF n \in Main /\ n[1] > m[1] /\ x[n].at \cap won # {} THEN Vacated(x[n], won) ELSE x[n]
  BY <1>4
<1> HIDE DEF e
<1>7. CASE x[m].winner = NoWinner
  <2>1. won = {} /\ LoserOf(x[m]) = {}
    BY <1>7, NoSide
  <2>2. e.seats = d.seats
    BY <1>1, <1>6, <2>1 DEF Unseated
  <2>3. \A n \in Match \ {m} : e.matchUps[n] = x[n]
    BY <1>6, <2>1
  <2>4. Bracket(e)
    BY <1>3, <1>5, <1>6, <1>7, <2>2, <2>3, MatchKinds, SameBracket
  <2> QED
    BY <1>3, <1>6, <2>4 DEF e
<1>8. CASE x[m].winner # NoWinner /\ m = Playoff
  <2>1. e.seats = d.seats
    BY <1>1, <1>6, <1>8, PlayoffApart DEF Unseated
  <2>2. \A n \in Main : e.matchUps[n] = x[n]
    BY <1>6, <1>8, MatchKinds, MainElements, PlayoffApart, RoundsNat
  <2>3. Bracket(e)
    BY <1>5, <2>1, <2>2, SameBracket
  <2> QED
    BY <1>3, <1>6, <2>3 DEF e
<1>9. CASE x[m].winner # NoWinner /\ m \in Main
  <2> DEFINE n == WinnerMatchUp(m)
  <2>1. ~ ActiveDownstream(d, m)
    BY <1>9
  <2>2. \A k \in Below(m) : x[k].winner = NoWinner /\ ~ Decided(x[k]) /\ ~ InPlay(x[k])
    BY <2>1, Inactive DEF Bracket
  <2>3. HasWinnerMatchUp(m) => /\ n \in Main /\ n[1] = m[1] + 1 /\ n \in Below(m) /\ n # m
                               /\ n \in Match \ {m} /\ n # Playoff /\ n[1] > m[1]
    BY <1>9, NextMatchUp, MatchKinds, MainElements, RoundsNat
  <2>4. PICK w \in Position \ Bye, l \in Position \ Bye :
          w # l /\ x[m].at = {w, l} /\ won = {w} /\ LoserOf(x[m]) = {l} /\ Sent(x[m]) = {w}
    BY <1>9, WonMatchUp DEF Bracket
  <2>5. \A k \in Match \ {m} :
          \/ HasWinnerMatchUp(m) /\ k = n
          \/ e.matchUps[k] = x[k]
    BY <1>6, <1>9, <2>2, WinnerStandsThere
  <2>6. HasWinnerMatchUp(m) => e.matchUps[n] = Vacated(x[n], won)
    BY <1>6, <1>9, <2>3, <2>4, WinnerStandsNext
  <2>7. WinnerOf(e.matchUps[m]) = {} /\ LoserOf(e.matchUps[m]) = {}
    BY <1>3, <1>6, NoSide
  <2>8. TwoParticipants(d, m)
    BY <1>9 DEF Bracket, Stands
  <2>9. IF FeedsPlayoff(m)
        THEN /\ {e.seats[m[2]]} \ {Nobody} = LoserOf(e.matchUps[m])
             /\ \A i \in Seat \ {m[2]} : e.seats[i] = d.seats[i]
        ELSE e.seats = d.seats
    <3>1. CASE FeedsPlayoff(m)
      <4>1. m[2] \in Seat /\ {d.seats[m[2]]} \ {Nobody} = {l}
        BY <1>9, <2>4, <3>1, OwnSeat
      <4>2. d.seats[m[2]] = l
        BY <4>1
      <4>3. e.seats[m[2]] = Nobody
        BY <1>6, <2>4, <3>1, <4>1, <4>2 DEF Unseated
      <4>4. \A i \in Seat \ {m[2]} : e.seats[i] = d.seats[i]
        BY <1>6, <1>9, <2>4, <3>1, OtherSeat DEF Unseated
      <4> QED
        BY <2>7, <3>1, <4>3, <4>4
    <3>2. CASE ~ FeedsPlayoff(m)
      BY <1>1, <1>6, <3>2 DEF Unseated
    <3> QED
      BY <3>1, <3>2
  <2>10. HasWinnerMatchUp(m) =>
           /\ x[n].winner = NoWinner /\ e.matchUps[n].winner = NoWinner
           /\ e.matchUps[n].at = (x[n].at \ won) \cup WinnerOf(e.matchUps[m])
    <3> SUFFICES ASSUME HasWinnerMatchUp(m)
                 PROVE  /\ x[n].winner = NoWinner /\ e.matchUps[n].winner = NoWinner
                        /\ e.matchUps[n].at = (x[n].at \ won) \cup WinnerOf(e.matchUps[m])
      OBVIOUS
    <3>1. e.matchUps[n].winner = NoWinner /\ e.matchUps[n].at = x[n].at \ won
      BY <2>6 DEF Vacated, Generated
    <3> QED
      BY <2>2, <2>3, <2>7, <3>1
  <2>11. Bracket(e)
    BY <1>3, <1>5, <1>6, <1>9, <2>5, <2>8, <2>9, <2>10, Rewired
  <2> QED
    BY <1>3, <1>6, <2>11 DEF e
<1> QED
  BY <1>7, <1>8, <1>9, MatchKinds

\* Where two participants are and nobody has won, nobody was sent on.
LEMMA OpenNext ==
  ASSUME NEW d, Bracket(d), NEW m \in Main, TwoParticipants(d, m), d.matchUps[m].winner = NoWinner,
         HasWinnerMatchUp(m)
  PROVE  LET n == WinnerMatchUp(m)
         IN  /\ d.matchUps[n].winner = NoWinner /\ ~ TwoParticipants(d, n)
             /\ Cardinality(d.matchUps[n].at) # 2
             /\ \A p, q \in d.matchUps[n].at : p = q
             /\ d.matchUps[n].at \cap d.matchUps[m].at = {}
<1> DEFINE n == WinnerMatchUp(m)
<1>1. n \in Main /\ n[1] = m[1] + 1 /\ n[1] > 1 /\ n \in Match
  BY NextMatchUp, MainElements, RoundsNat, MatchKinds
<1>2. d.matchUps[n].at = UNION {Sent(d.matchUps[f]) : f \in Feeders(n)}
  BY <1>1 DEF Bracket, Places
<1>3. Sent(d.matchUps[m]) = {}
  <2>1. d.matchUps[m].at \cap Bye = {}
    BY ParticipantsOf DEF Bracket
  <2> QED
    BY <2>1, NoSide DEF Sent
<1>4. ASSUME NEW p \in d.matchUps[n].at
      PROVE  \E f \in Feeders(n) \ {m} : p \in Sent(d.matchUps[f]) /\ InBlock(p, f)
  <2>1. PICK f \in Feeders(n) : p \in Sent(d.matchUps[f])
    BY <1>2
  <2> QED
    BY <1>1, <1>3, <2>1, FeedersOf, SentAlone DEF Bracket
<1>5. \A f, g \in Feeders(n) \ {m} : f = g
  <2>1. m \in Feeders(n)
    BY NextMatchUp
  <2> QED
    BY <1>1, <2>1, FeedersOf
<1>6. \A p, q \in d.matchUps[n].at : p = q
  BY <1>1, <1>4, <1>5, FeedersOf, SentAlone DEF Bracket
<1>7. d.matchUps[n].at \cap d.matchUps[m].at = {}
  <2> SUFFICES ASSUME NEW p \in d.matchUps[n].at, p \in d.matchUps[m].at
               PROVE  FALSE
    OBVIOUS
  <2>1. PICK f \in Feeders(n) \ {m} : InBlock(p, f)
    BY <1>4
  <2>2. f \in Main /\ f[1] = m[1]
    BY <1>1, <2>1, FeedersOf, MainElements
  <2> QED
    BY <2>1, <2>2, BlocksApart DEF Bracket, Stands
<1>8. AtMostTwo(d.matchUps[n].at)
  BY <1>1 DEF Bracket, Stands
<1>9. Cardinality(d.matchUps[n].at) # 2
  BY <1>6, <1>8, CountTwo
<1>10. ~ TwoParticipants(d, n)
  BY <1>1, <1>9, PairCount DEF Bracket
<1> QED
  BY <1>1, <1>6, <1>7, <1>9, <1>10 DEF Bracket, Stands

\* directLoser finds the seat of an undecided semifinal free.
LEMMA OpenSeat ==
  ASSUME NEW d, Bracket(d), NEW m \in Main, d.matchUps[m].winner = NoWinner, FeedsPlayoff(m)
  PROVE  /\ m[2] \in Seat /\ d.seats[m[2]] = Nobody
         /\ ~ TwoParticipants(d, Playoff) /\ d.matchUps[Playoff].winner = NoWinner
         /\ Players(d, Playoff) \cap d.matchUps[m].at = {}
<1>1. m[2] \in Seat /\ {d.seats[m[2]]} \ {Nobody} = {}
  BY OwnSeat, NoSide
<1>2. d.seats[m[2]] = Nobody
  BY <1>1
<1>3. ~ TwoParticipants(d, Playoff)
  BY <1>1, <1>2, SeatCount DEF Seat
<1>4. Players(d, Playoff) \cap d.matchUps[m].at = {}
  <2> SUFFICES ASSUME NEW p \in Players(d, Playoff), p \in d.matchUps[m].at
               PROVE  FALSE
    OBVIOUS
  <2>1. PICK i \in Seat : p = d.seats[i] /\ p # Nobody
    BY DEF Players
  <2> QED
    BY <1>2, <2>1, OtherSeat
<1> QED
  BY <1>1, <1>2, <1>3, <1>4, MatchKinds DEF Bracket, Stands, Match

-----------------------------------------------------------------------------
(* A result is entered.                                                    *)

\* The result of m is written, with a winner where there was none: its winner
\* moves on and its loser is seated.
LEMMA Decides ==
  ASSUME NEW d, Bracket(d), NEW m \in Main, TwoParticipants(d, m), d.matchUps[m].winner = NoWinner,
         NEW y \in MatchUp, y.at = d.matchUps[m].at, y.winner # NoWinner,
         NEW e, Stands(e), e.matchUps[m] = y,
         IF HasWinnerMatchUp(m)
         THEN /\ e.matchUps[WinnerMatchUp(m)].at = d.matchUps[WinnerMatchUp(m)].at \cup WinnerOf(y)
              /\ e.matchUps[WinnerMatchUp(m)].winner = NoWinner
              /\ \A k \in Match \ {m, WinnerMatchUp(m)} : e.matchUps[k] = d.matchUps[k]
         ELSE \A k \in Match \ {m} : e.matchUps[k] = d.matchUps[k],
         IF FeedsPlayoff(m)
         THEN /\ {e.seats[m[2]]} = LoserOf(y)
              /\ \A i \in Seat \ {m[2]} : e.seats[i] = d.seats[i]
         ELSE e.seats = d.seats
  PROVE  Bracket(e)
<1> DEFINE n == WinnerMatchUp(m)
<1>1. HasWinnerMatchUp(m) => n \in Main /\ n \in Match \ {m} /\ n # Playoff
  BY NextMatchUp, MatchKinds
<1>2. HasWinnerMatchUp(m) => d.matchUps[n].winner = NoWinner
  BY OpenNext
<1>3. PICK a \in Position \ Bye, b \in Position \ Bye : a < b /\ d.matchUps[m].at = {a, b}
  BY ParticipantsOf DEF Bracket
<1>4. OnSide(y, 1) = {a} /\ OnSide(y, 2) = {b} /\ y.winner \in {1, 2}
  BY <1>3, TwoSides DEF MatchUp, WinningSide, NoWinner
<1>5. (WinnerOf(y) = {a} /\ LoserOf(y) = {b}) \/ (WinnerOf(y) = {b} /\ LoserOf(y) = {a})
  BY <1>4 DEF WinnerOf, LoserOf, NoWinner
<1>6. WinnerOf(d.matchUps[m]) = {}
  BY NoSide
<1>7. HasWinnerMatchUp(m) =>
        e.matchUps[n].at = (d.matchUps[n].at \ WinnerOf(d.matchUps[m])) \cup WinnerOf(e.matchUps[m])
  BY <1>6
<1>8. \A k \in Match \ {m} :
        \/ HasWinnerMatchUp(m) /\ k = n
        \/ e.matchUps[k] = d.matchUps[k]
  OBVIOUS
<1>9. FeedsPlayoff(m) => {e.seats[m[2]]} \ {Nobody} = LoserOf(e.matchUps[m])
  <2>1. Nobody \notin LoserOf(y)
    BY <1>3, <1>5 DEF Nobody, Position
  <2> QED
    BY <2>1
<1> QED
  BY <1>1, <1>2, <1>7, <1>8, <1>9, Rewired

\* directParticipants, for a winner that is new or stays.
LEMMA Directed ==
  ASSUME NEW d, Bracket(d), NEW m \in Match, NEW o \in Outcome, o.winner # NoWinner,
         d.matchUps[m].winner \in {NoWinner, o.winner}
  PROVE  LET r == DirectParticipants(d, m, o)
         IN  /\ Bracket(r.draw) /\ r.refused \in BOOLEAN
             /\ r.refused => r.draw = d
             /\ TwoParticipants(d, m) => ~ r.refused
<1> DEFINE r == DirectParticipants(d, m, o)
           status == IF o.status \in Directing THEN o.status ELSE "COMPLETED"
           given == [o EXCEPT !.status = status]
           x == d.matchUps
           y == Written(x[m], given, FALSE, FALSE)
           c == [d EXCEPT !.matchUps[m] = y]
           n == WinnerMatchUp(m)
<1> SUFFICES /\ Bracket(r.draw) /\ r.refused \in BOOLEAN
             /\ r.refused => r.draw = d
             /\ TwoParticipants(d, m) => ~ r.refused
  OBVIOUS
<1>1. x \in [Match -> MatchUp] /\ d.seats \in [Seat -> Position \cup {Nobody}]
  BY DrawTypes DEF Bracket, Stands
<1>2. given \in Outcome /\ given.winner = o.winner
  <2>1. o.status \in Directing => o.status # "BYE"
    BY DEF Outcome, None
  <2>2. status \in (Status \ {"BYE"}) \cup {None}
    BY <2>1 DEF Status, Directing
  <2> HIDE DEF status
  <2> QED
    BY <2>2 DEF Outcome
<1>3. y \in MatchUp /\ y.at = x[m].at /\ y.winner = o.winner
  <2> HIDE DEF given
  <2> QED
    BY <1>1, <1>2, WrittenType DEF WrittenWinner
<1>4. r = IF ~ TwoParticipants(d, m) THEN Refuse(d)
          ELSE IF DirectWinner(c, m).refused THEN DirectWinner(c, m)
          ELSE DirectLoser(DirectWinner(c, m).draw, m)
  BY DEF DirectParticipants
<1> HIDE DEF y, given, status, r
<1>5. Stands(r.draw)
  BY SteadyDirected DEF Bracket, Steady, r
<1>6. /\ c \in Draw /\ c.seats = d.seats /\ c.matchUps = [x EXCEPT ![m] = y]
      /\ c.matchUps[m] = y /\ \A k \in Match \ {m} : c.matchUps[k] = x[k]
  BY <1>1, <1>3 DEF Bracket, Stands, Draw
<1> HIDE DEF c
<1>7. Players(c, Playoff) = Players(d, Playoff)
  BY <1>6 DEF Players
<1>8. CASE ~ TwoParticipants(d, m)
  <2>1. r = [draw |-> d, refused |-> TRUE]
    BY <1>4, <1>8 DEF Refuse
  <2> QED
    BY <1>8, <2>1
<1>9. CASE TwoParticipants(d, m) /\ (m = Playoff \/ x[m].winner = o.winner)
  <2>1. DirectWinner(c, m) = Accept(c)
    <3>1. CASE ~ HasWinnerMatchUp(m)
      BY <3>1 DEF DirectWinner
    <3>2. CASE HasWinnerMatchUp(m)
      <4>1. m \in Main /\ x[m].winner = o.winner
        BY <1>9, <3>2, MatchKinds, PlayoffApart
      <4>2. n \in Match \ {m}
        BY <3>2, <4>1, NextMatchUp, MatchKinds
      <4>3. PICK w \in Position, l \in Position : WinnerOf(x[m]) = {w} /\ LoserOf(x[m]) = {l}
        BY <4>1, WonMatchUp DEF Bracket
      <4>4. WinnerOf(y) = {w}
        BY <1>3, <4>1, <4>3, SameSides
      <4>5. w \in c.matchUps[n].at
        BY <1>6, <3>2, <4>1, <4>2, <4>3, WinnerStandsNext DEF Sent
      <4> QED
        BY <1>6, <4>4, <4>5 DEF DirectWinner
    <3> QED
      BY <3>1, <3>2
  <2>2. DirectLoser(c, m) = Accept(c)
    <3>1. CASE ~ FeedsPlayoff(m)
      BY <3>1 DEF DirectLoser
    <3>2. CASE FeedsPlayoff(m)
      <4>1. m \in Main /\ x[m].winner = o.winner
        BY <1>9, <3>2, MatchKinds, PlayoffApart
      <4>2. PICK l \in Position : LoserOf(x[m]) = {l}
        BY <4>1, WonMatchUp DEF Bracket
      <4>3. LoserOf(y) = {l}
        BY <1>3, <4>1, <4>2, SameSides
      <4>4. m[2] \in Seat /\ {d.seats[m[2]]} \ {Nobody} = {l}
        BY <3>2, <4>1, <4>2, OwnSeat
      <4>5. l \in Players(c, Playoff)
        BY <1>7, <4>4 DEF Players
      <4> QED
        BY <1>6, <4>3, <4>5 DEF DirectLoser
    <3> QED
      BY <3>1, <3>2
  <2>3. r = Accept(c)
    BY <1>4, <1>9, <2>1, <2>2 DEF Accept
  <2>4. Bracket(c)
    BY <1>3, <1>9, PlayoffApart, Relabelled DEF c
  <2> QED
    BY <2>3, <2>4 DEF Accept
<1>10. CASE TwoParticipants(d, m) /\ m \in Main /\ x[m].winner = NoWinner
  <2>1. PICK a \in Position \ Bye, b \in Position \ Bye : a < b /\ x[m].at = {a, b}
    BY <1>10, ParticipantsOf DEF Bracket
  <2>2. OnSide(y, 1) = {a} /\ OnSide(y, 2) = {b} /\ y.winner \in {1, 2}
    BY <1>3, <2>1, TwoSides DEF MatchUp, WinningSide, NoWinner
  <2>3. PICK w \in {a, b}, l \in {a, b} : WinnerOf(y) = {w} /\ LoserOf(y) = {l}
    BY <2>2 DEF WinnerOf, LoserOf, NoWinner
  <2>4. w \in Position /\ l \in Position /\ w \in x[m].at /\ l \in x[m].at
    BY <2>1
  <2> DEFINE e == IF HasWinnerMatchUp(m) THEN [c EXCEPT !.matchUps[n] = Arrived(c.matchUps[n], w)] ELSE c
             f == IF FeedsPlayoff(m) THEN [e EXCEPT !.seats[m[2]] = l] ELSE e
  <2>5. HasWinnerMatchUp(m) =>
          /\ n \in Match \ {m} /\ c.matchUps[n] = x[n] /\ w \notin c.matchUps[n].at
          /\ Cardinality(c.matchUps[n].at) # 2
    BY <1>6, <1>10, <2>4, NextMatchUp, MatchKinds, OpenNext
  <2>6. DirectWinner(c, m) = Accept(e)
    <3> DEFINE p == CHOOSE q \in WinnerOf(c.matchUps[m]) : TRUE
    <3>1. p = w
      BY <1>6, <2>3
    <3>2. DirectWinner(c, m) =
            IF ~ HasWinnerMatchUp(m) \/ p \in c.matchUps[n].at THEN Accept(c)
            ELSE IF Cardinality(c.matchUps[n].at) = 2 THEN Refuse(c)
            ELSE Accept([c EXCEPT !.matchUps[n] = Arrived(c.matchUps[n], p)])
      BY DEF DirectWinner
    <3> HIDE DEF p
    <3> QED
      BY <2>5, <3>1, <3>2
  <2>7. e \in Draw /\ e.seats = d.seats /\ e.matchUps[m] = y
        /\ (IF HasWinnerMatchUp(m)
            THEN /\ e.matchUps[n].at = x[n].at \cup {w} /\ e.matchUps[n].winner = NoWinner
                 /\ \A k \in Match \ {m, n} : e.matchUps[k] = x[k]
            ELSE \A k \in Match \ {m} : e.matchUps[k] = x[k])
    <3>1. CASE HasWinnerMatchUp(m)
      <4> DEFINE z == Arrived(c.matchUps[n], w)
      <4>1. z \in MatchUp /\ z.at = x[n].at \cup {w} /\ z.winner = NoWinner
        <5>1. c.matchUps[n] = x[n] /\ x[n] \in MatchUp
          BY <1>1, <2>5, <3>1
        <5> QED
          BY <2>4, <5>1, ArrivedType
      <4> HIDE DEF z
      <4>2. e = [c EXCEPT !.matchUps[n] = z]
        BY <3>1 DEF z
      <4>3. e \in Draw /\ e.seats = c.seats /\ e.matchUps = [c.matchUps EXCEPT ![n] = z]
        BY <1>6, <4>1, <4>2 DEF Draw
      <4>4. /\ e.matchUps[n] = z /\ e.matchUps[m] = y
            /\ \A k \in Match \ {m, n} : e.matchUps[k] = x[k]
        BY <1>1, <1>6, <2>5, <3>1, <4>3
      <4> HIDE DEF e
      <4> QED
        BY <1>6, <3>1, <4>1, <4>3, <4>4
    <3>2. CASE ~ HasWinnerMatchUp(m)
      BY <1>6, <3>2
    <3> HIDE DEF e
    <3> QED
      BY <3>1, <3>2
  <2> HIDE DEF e
  <2>8. FeedsPlayoff(m) => m[2] \in Seat /\ d.seats[m[2]] = Nobody /\ l \notin Players(d, Playoff)
    BY <1>10, <2>4, OpenSeat
  <2>9. DirectLoser(e, m) = Accept(f)
    <3>1. CASE ~ FeedsPlayoff(m)
      BY <3>1 DEF DirectLoser
    <3>2. CASE FeedsPlayoff(m)
      <4>1. (CHOOSE q \in LoserOf(e.matchUps[m]) : TRUE) = l
        BY <2>3, <2>7
      <4>2. l \notin Players(e, Playoff)
        BY <2>7, <2>8, <3>2 DEF Players
      <4>3. m[2] \in {i \in Seat : e.seats[i] = Nobody}
        BY <2>7, <2>8, <3>2
      <4> QED
        BY <3>2, <4>1, <4>2, <4>3 DEF DirectLoser
    <3> QED
      BY <3>1, <3>2
  <2>10. r = Accept(f)
    BY <1>4, <1>10, <2>6, <2>9 DEF Accept
  <2>11. /\ f \in Draw /\ f.matchUps = e.matchUps
         /\ IF FeedsPlayoff(m)
            THEN {f.seats[m[2]]} = {l} /\ \A i \in Seat \ {m[2]} : f.seats[i] = d.seats[i]
            ELSE f.seats = d.seats
    <3>1. CASE FeedsPlayoff(m)
      <4>1. f = [e EXCEPT !.seats[m[2]] = l]
        BY <3>1
      <4>2. e.seats \in [Seat -> Position \cup {Nobody}]
        BY <1>1, <2>7
      <4>3. f.seats = [e.seats EXCEPT ![m[2]] = l] /\ f.matchUps = e.matchUps /\ f \in Draw
        BY <2>4, <2>7, <4>1, <4>2 DEF Draw
      <4> HIDE DEF f
      <4> QED
        BY <2>7, <2>8, <3>1, <4>2, <4>3
    <3>2. CASE ~ FeedsPlayoff(m)
      BY <2>7, <3>2
    <3> HIDE DEF f
    <3> QED
      BY <3>1, <3>2
  <2> HIDE DEF f
  <2>12. Bracket(f)
    <3>1. Stands(f) /\ f.matchUps[m] = y
      BY <1>5, <2>7, <2>10, <2>11 DEF Accept
    <3>2. IF HasWinnerMatchUp(m)
          THEN /\ f.matchUps[n].at = x[n].at \cup WinnerOf(y) /\ f.matchUps[n].winner = NoWinner
               /\ \A k \in Match \ {m, n} : f.matchUps[k] = x[k]
          ELSE \A k \in Match \ {m} : f.matchUps[k] = x[k]
      BY <2>3, <2>7, <2>11
    <3>3. IF FeedsPlayoff(m)
          THEN {f.seats[m[2]]} = LoserOf(y) /\ \A i \in Seat \ {m[2]} : f.seats[i] = d.seats[i]
          ELSE f.seats = d.seats
      BY <2>3, <2>11
    <3> HIDE DEF x, n
    <3> QED
      BY <1>3, <1>10, <3>1, <3>2, <3>3, Decides DEF x, n
  <2> QED
    BY <2>10, <2>12 DEF Accept
<1> QED
  BY <1>8, <1>9, <1>10, MatchKinds

-----------------------------------------------------------------------------
(* A winner is corrected.                                                  *)

\* At most one participant of a matchUp has come to any later one.
LEMMA AloneThere ==
  ASSUME NEW d, Bracket(d), NEW m \in Main, NEW n \in Main, n[1] > m[1],
         NEW p \in d.matchUps[n].at, NEW q \in d.matchUps[n].at, InBlock(p, m), InBlock(q, m)
  PROVE  p = q
<1>1. m[1] \in Nat \ {0} /\ n[1] \in Nat /\ n[1] > 1
  BY MainElements, RoundsNat
<1>2. d.matchUps[n].at = UNION {Sent(d.matchUps[f]) : f \in Feeders(n)}
  BY <1>1 DEF Bracket, Places
<1>3. PICK f \in Feeders(n), g \in Feeders(n) : p \in Sent(d.matchUps[f]) /\ q \in Sent(d.matchUps[g])
  BY <1>2
<1>4. f \in Main /\ g \in Main /\ f[1] = n[1] - 1 /\ g[1] = n[1] - 1
  BY FeedersOf
<1>5. InBlock(p, f) /\ InBlock(q, g) /\ p \in Position /\ q \in Position
  BY <1>3, <1>4, SentAlone DEF Bracket
<1>6. f = g
  <2>1. CASE f[1] = m[1]
    BY <1>4, <1>5, <2>1, BlocksApart
  <2>2. CASE f[1] # m[1]
    <3>1. m[1] < f[1]
      BY <1>1, <1>4, <2>2
    <3>2. InBlock(q, f)
      BY <1>4, <1>5, <3>1, Ancestor
    <3> QED
      BY <1>4, <1>5, <3>2, BlocksApart
  <2> QED
    BY <2>1, <2>2
<1> QED
  BY <1>3, <1>4, <1>6, SentAlone DEF Bracket

\* The two stand on the same side of whoever else comes to a later matchUp.
LEMMA SidesStay ==
  ASSUME NEW d, Bracket(d), NEW m \in Main, NEW n \in Main, n[1] > m[1],
         NEW a \in Position, NEW b \in Position, a # b, d.matchUps[m].at = {a, b},
         NEW z, z.at = Others({a, b}, d.matchUps[n].at), z.winner = d.matchUps[n].winner
  PROVE  /\ WinnerOf(z) = Others({a, b}, WinnerOf(d.matchUps[n]))
         /\ LoserOf(z) = Others({a, b}, LoserOf(d.matchUps[n]))
<1> DEFINE x == d.matchUps[n]
           o(p) == Other({a, b}, p)
<1>1. /\ o(a) = b /\ o(b) = a
      /\ \A p : p \notin {a, b} => o(p) = p
  BY OtherOf
<1>2. InBlock(a, m) /\ InBlock(b, m)
  BY DEF Bracket, Stands
<1>3. x.at \subseteq Position
  BY DrawTypes, MatchKinds DEF Bracket, Stands
<1>4. ASSUME NEW p \in x.at, NEW q \in x.at
      PROVE  o(q) < o(p) <=> q < p
  <2>1. p \in Int /\ q \in Int /\ a \in Int /\ b \in Int /\ p \in Position /\ q \in Position
    BY <1>3 DEF Position
  <2> HIDE DEF o
  <2>2. CASE p = q
    <3>1. o(p) \in Int
      BY <1>1, <2>1
    <3> QED
      BY <2>1, <2>2, <3>1
  <2>3. CASE p # q /\ p \in {a, b}
    <3>1. ~ InBlock(q, m)
      BY <1>2, <2>3, AloneThere
    <3>2. q \notin {a, b} /\ ~ (a <= q /\ q <= b) /\ ~ (b <= q /\ q <= a)
      BY <1>2, <2>1, <3>1, BlocksConvex
    <3>3. q < a <=> q < b
      BY <2>1, <3>2
    <3> QED
      BY <1>1, <2>3, <3>2, <3>3
  <2>4. CASE p # q /\ q \in {a, b}
    <3>1. ~ InBlock(p, m)
      BY <1>2, <2>4, AloneThere
    <3>2. p \notin {a, b} /\ ~ (a <= p /\ p <= b) /\ ~ (b <= p /\ p <= a)
      BY <1>2, <2>1, <3>1, BlocksConvex
    <3>3. a < p <=> b < p
      BY <2>1, <3>2
    <3> QED
      BY <1>1, <2>4, <3>2, <3>3
  <2>5. CASE p \notin {a, b} /\ q \notin {a, b}
    BY <1>1, <2>5
  <2> QED
    BY <2>2, <2>3, <2>4, <2>5
<1>5. z.at = {o(p) : p \in x.at}
  BY DEF Others
<1> HIDE DEF o
<1>6. ASSUME NEW side
      PROVE  OnSide(z, side) = {o(p) : p \in OnSide(x, side)}
  <2>1. ASSUME NEW p \in x.at
        PROVE  (\E q \in z.at : q < o(p)) <=> (\E q \in x.at : q < p)
    BY <1>4, <1>5
  <2> QED
    BY <1>5, <2>1 DEF OnSide
<1> QED
  BY <1>6 DEF WinnerOf, LoserOf, Others, o

\* From d to e, the two sides of m change places in every later matchUp and on the seats.
Swapped(d, e, m) ==
  /\ \A n \in Match \ {m} : e.matchUps[n] =
       IF n \in Main /\ n[1] > m[1]
       THEN [d.matchUps[n] EXCEPT !.at = Others(d.matchUps[m].at, d.matchUps[n].at)]
       ELSE d.matchUps[n]
  /\ \A i \in Seat : e.seats[i] =
       IF HasWinnerMatchUp(m) THEN Other(d.matchUps[m].at, d.seats[i]) ELSE d.seats[i]

\* A corrected winner and the loser change places, and what they played since stands.
LEMMA Exchange ==
  ASSUME NEW d, Bracket(d), NEW m \in Main, d.matchUps[m].winner # NoWinner,
         NEW e, Stands(e), e.matchUps[m].at = d.matchUps[m].at,
         e.matchUps[m].winner \notin {NoWinner, d.matchUps[m].winner}, Swapped(d, e, m)
  PROVE  Bracket(e)
<1> DEFINE x == d.matchUps
           y == e.matchUps[m]
<1>1. TwoParticipants(d, m) /\ m \in Match /\ m # Playoff
  BY MatchKinds DEF Bracket, Stands
<1>2. /\ y \in MatchUp /\ y.at = x[m].at /\ y.winner \notin {NoWinner, x[m].winner}
      /\ e.matchUps[m] = y
  BY <1>1, DrawTypes DEF Stands
<1>3. /\ \A n \in Match \ {m} : e.matchUps[n] =
            IF n \in Main /\ n[1] > m[1] THEN [x[n] EXCEPT !.at = Others(x[m].at, x[n].at)] ELSE x[n]
      /\ \A i \in Seat : e.seats[i] =
            IF HasWinnerMatchUp(m) THEN Other(x[m].at, d.seats[i]) ELSE d.seats[i]
  BY DEF Swapped
<1> HIDE DEF y
<1>4. PICK a \in Position \ Bye, b \in Position \ Bye : a < b /\ x[m].at = {a, b}
  BY <1>1, ParticipantsOf DEF Bracket
<1> DEFINE o(p) == Other({a, b}, p)
           later(n) == n \in Main /\ n[1] > m[1]
<1>5. a # b
  BY <1>4 DEF Position
<1>6. /\ o(a) = b /\ o(b) = a
      /\ \A p : p \notin {a, b} => o(p) = p
  BY <1>5, OtherOf
<1>7. \A T : Others({a, b}, T) = {o(p) : p \in T}
  BY DEF Others
<1> HIDE DEF o
<1>8. /\ o(Nobody) = Nobody /\ \A p : o(p) = Nobody => p = Nobody
      /\ \A T : T \cap {a, b} = {} => Others({a, b}, T) = T
  <2>1. Nobody \notin {a, b}
    BY DEF Nobody, Position
  <2>2. o(Nobody) = Nobody /\ \A p : o(p) = Nobody => p = Nobody
    BY <1>6, <2>1
  <2>3. ASSUME NEW T, T \cap {a, b} = {}
        PROVE  Others({a, b}, T) = T
    <3>1. \A p \in T : o(p) = p
      BY <1>6, <2>3
    <3>2. {o(p) : p \in T} = T
      BY <3>1
    <3> QED
      BY <1>7, <3>2
  <2> QED
    BY <2>2, <2>3
<1>9. \A p, q : o(p) = o(q) => p = q
  BY <1>6
<1>10. ASSUME NEW n \in Main
       PROVE  /\ later(n) => e.matchUps[n].at = Others({a, b}, x[n].at)
              /\ ~ later(n) => e.matchUps[n].at = x[n].at
              /\ n # m => e.matchUps[n].winner = x[n].winner
  <2>1. n \in Match /\ x[n] \in MatchUp
    BY MatchKinds, DrawTypes DEF Bracket, Stands
  <2>2. CASE n = m
    <3>1. ~ (m[1] > m[1])
      BY MainElements
    <3> QED
      BY <1>2, <2>2, <3>1
  <2>3. CASE n # m
    <3>1. CASE later(n)
      <4>1. e.matchUps[n] = [x[n] EXCEPT !.at = Others({a, b}, x[n].at)]
        BY <1>3, <1>4, <2>1, <2>3, <3>1
      <4> QED
        BY <2>1, <3>1, <4>1 DEF MatchUp
    <3>2. CASE ~ later(n)
      <4>1. e.matchUps[n] = x[n]
        BY <1>3, <2>1, <2>3, <3>2
      <4> QED
        BY <3>2, <4>1
    <3> QED
      BY <3>1, <3>2
  <2> QED
    BY <2>2, <2>3
<1> HIDE DEF later
<1>11. /\ \A n \in Main : later(n) <=> n[1] > m[1]
       /\ \A n : later(n) => n \in Main
  BY DEF later
<1>12. InBlock(a, m) /\ InBlock(b, m)
  BY <1>4 DEF Bracket, Stands
<1>13. ASSUME NEW f \in Main, f[1] >= m[1]
       PROVE  /\ Sent(e.matchUps[f]) = Others({a, b}, Sent(x[f]))
              /\ LoserOf(e.matchUps[f]) = Others({a, b}, LoserOf(x[f]))
  <2>1. CASE f = m
    <3>1. OnSide(x[m], 1) = {a} /\ OnSide(x[m], 2) = {b} /\ OnSide(y, 1) = {a} /\ OnSide(y, 2) = {b}
      BY <1>2, <1>4, TwoSides
    <3>2. x[m].winner \in {1, 2} /\ y.winner \in {1, 2} /\ y.winner # x[m].winner
      BY <1>2, <1>1, DrawTypes DEF Bracket, Stands, MatchUp, WinningSide, NoWinner
    <3>3. Sent(x[m]) = WinnerOf(x[m]) /\ Sent(y) = WinnerOf(y)
      BY <1>2, <1>4 DEF Sent
    <3>4. Others({a, b}, {a}) = {b} /\ Others({a, b}, {b}) = {a}
      <4>1. {o(p) : p \in {a}} = {b} /\ {o(p) : p \in {b}} = {a}
        BY <1>6
      <4> QED
        BY <1>7, <4>1
    <3>5. CASE x[m].winner = 1
      <4>1. y.winner = 2
        BY <3>2, <3>5
      <4>2. WinnerOf(x[m]) = {a} /\ LoserOf(x[m]) = {b}
        BY <3>1, <3>5 DEF WinnerOf, LoserOf, NoWinner
      <4>3. WinnerOf(y) = {b} /\ LoserOf(y) = {a}
        BY <3>1, <4>1 DEF WinnerOf, LoserOf, NoWinner
      <4> QED
        BY <1>2, <2>1, <3>3, <3>4, <4>2, <4>3
    <3>6. CASE x[m].winner = 2
      <4>1. y.winner = 1
        BY <3>2, <3>6
      <4>2. WinnerOf(x[m]) = {b} /\ LoserOf(x[m]) = {a}
        BY <3>1, <3>6 DEF WinnerOf, LoserOf, NoWinner
      <4>3. WinnerOf(y) = {a} /\ LoserOf(y) = {b}
        BY <3>1, <4>1 DEF WinnerOf, LoserOf, NoWinner
      <4> QED
        BY <1>2, <2>1, <3>3, <3>4, <4>2, <4>3
    <3> QED
      BY <3>2, <3>5, <3>6
  <2>2. CASE f # m /\ f[1] = m[1]
    <3>1. ~ later(f)
      BY <1>11, <2>2, MainElements
    <3>2. e.matchUps[f].at = x[f].at /\ e.matchUps[f].winner = x[f].winner
      BY <1>10, <2>2, <3>1
    <3>3. x[f].at \cap {a, b} = {}
      BY <1>12, <2>2, BlocksApart DEF Bracket, Stands
    <3>4. Sent(x[f]) \cap {a, b} = {} /\ LoserOf(x[f]) \cap {a, b} = {}
      BY <3>3, NoSide
    <3>5. /\ Sent(e.matchUps[f]) = Sent(x[f])
          /\ LoserOf(e.matchUps[f]) = LoserOf(x[f])
      BY <3>2, SameSides
    <3>6. /\ Others({a, b}, Sent(x[f])) = Sent(x[f])
          /\ Others({a, b}, LoserOf(x[f])) = LoserOf(x[f])
      BY <1>8, <3>4
    <3> QED
      BY <3>5, <3>6
  <2>3. CASE f[1] # m[1]
    <3>1. later(f) /\ f # m
      BY <1>11, <1>13, <2>3, MainElements
    <3>2. e.matchUps[f].at = Others({a, b}, x[f].at) /\ e.matchUps[f].winner = x[f].winner
      BY <1>10, <3>1
    <3>3. /\ WinnerOf(e.matchUps[f]) = Others({a, b}, WinnerOf(x[f]))
          /\ LoserOf(e.matchUps[f]) = Others({a, b}, LoserOf(x[f]))
      BY <1>4, <1>5, <1>11, <3>1, <3>2, SidesStay
    <3>4. Sent(e.matchUps[f]) = WinnerOf(e.matchUps[f]) /\ Sent(x[f]) = WinnerOf(x[f])
      BY <1>11, <3>1, MainElements, RoundsNat, SentHasWon DEF Bracket
    <3> QED
      BY <3>3, <3>4
  <2> QED
    BY <2>1, <2>2, <2>3
<1>14. ASSUME NEW n \in Main, n[1] > 1
       PROVE  e.matchUps[n].at = UNION {Sent(e.matchUps[f]) : f \in Feeders(n)}
  <2>1. x[n].at = UNION {Sent(x[f]) : f \in Feeders(n)}
    BY <1>14 DEF Bracket, Places
  <2>2. \A f \in Feeders(n) : f \in Main /\ f[1] = n[1] - 1
    BY FeedersOf
  <2>3. n[1] \in Nat /\ m[1] \in Nat
    BY MainElements, RoundsNat
  <2>4. CASE later(n)
    <3>1. \A f \in Feeders(n) : Sent(e.matchUps[f]) = {o(p) : p \in Sent(x[f])}
      <4> TAKE f \in Feeders(n)
      <4>1. f \in Main /\ f[1] >= m[1]
        BY <1>11, <2>2, <2>3, <2>4
      <4> QED
        BY <1>7, <1>13, <4>1
    <3>2. e.matchUps[n].at = {o(p) : p \in x[n].at}
      BY <1>7, <1>10, <2>4
    <3>3. ASSUME NEW q \in e.matchUps[n].at
          PROVE  \E f \in Feeders(n) : q \in Sent(e.matchUps[f])
      <4>1. PICK p \in x[n].at : q = o(p)
        BY <3>2
      <4>2. PICK f \in Feeders(n) : p \in Sent(x[f])
        BY <2>1
      <4> QED
        BY <3>1, <4>1, <4>2
    <3>4. ASSUME NEW f \in Feeders(n), NEW q \in Sent(e.matchUps[f])
          PROVE  q \in e.matchUps[n].at
      <4>1. PICK p \in Sent(x[f]) : q = o(p)
        BY <3>1
      <4>2. p \in x[n].at
        BY <2>1
      <4> QED
        BY <3>2, <4>1, <4>2
    <3> QED
      BY <3>3, <3>4
  <2>5. CASE ~ later(n)
    <3>1. \A f \in Feeders(n) : Sent(e.matchUps[f]) = Sent(x[f])
      <4> TAKE f \in Feeders(n)
      <4>1. f \in Main /\ ~ later(f) /\ f # m
        BY <1>11, <2>2, <2>3, <2>5
      <4>2. e.matchUps[f].at = x[f].at /\ e.matchUps[f].winner = x[f].winner
        BY <1>10, <4>1
      <4> QED
        BY <4>2, SameSides
    <3>2. e.matchUps[n].at = x[n].at
      BY <1>10, <2>5
    <3> QED
      BY <2>1, <3>1, <3>2
  <2> QED
    BY <2>4, <2>5
<1>15. ASSUME NEW i \in Seat
       PROVE  {e.seats[i]} \ {Nobody} = LoserOf(e.matchUps[<<Rounds - 1, i>>])
  <2> DEFINE s == <<Rounds - 1, i>>
  <2>1. s \in Main /\ s[1] = Rounds - 1
    BY Semifinals
  <2>2. {d.seats[i]} \ {Nobody} = LoserOf(x[s])
    BY DEF Bracket, Places
  <2>3. CASE HasWinnerMatchUp(m)
    <3>1. s[1] >= m[1]
      BY <2>1, <2>3, MainElements, RoundsNat DEF HasWinnerMatchUp
    <3>2. LoserOf(e.matchUps[s]) = {o(p) : p \in LoserOf(x[s])}
      BY <1>7, <1>13, <2>1, <3>1
    <3>3. e.seats[i] = o(d.seats[i])
      BY <1>3, <1>4, <2>3 DEF o
    <3> HIDE DEF s, x
    <3> QED
      BY <1>8, <2>2, <3>2, <3>3 DEF s
  <2>4. CASE ~ HasWinnerMatchUp(m)
    <3>1. m[1] = Rounds
      BY <2>4, MainElements, RoundsNat DEF HasWinnerMatchUp
    <3>2. ~ later(s) /\ s # m
      BY <1>11, <2>1, <3>1, RoundsNat
    <3>3. e.matchUps[s].at = x[s].at /\ e.matchUps[s].winner = x[s].winner
      BY <1>10, <2>1, <3>2
    <3>4. LoserOf(e.matchUps[s]) = LoserOf(x[s])
      BY <3>3, SameSides
    <3> QED
      BY <1>3, <2>2, <2>4, <3>4
  <2> QED
    BY <2>3, <2>4
<1> QED
  BY <1>14, <1>15 DEF Bracket, Places

-----------------------------------------------------------------------------
(* The initial draw.                                                       *)

LEMMA FirstRound ==
  ASSUME NEW k \in Main, k[1] = 1
  PROVE  LET x == FirstRoundMatchUp(k[2])
         IN  /\ x \in MatchUp /\ x.winner = NoWinner /\ x.at = {2 * k[2] - 1, 2 * k[2]}
             /\ \A p \in x.at : InBlock(p, k)
             /\ \A p, q \in Sent(x) : p = q
             /\ Sent(x) \cap Bye = {}
<1> DEFINE i == k[2]
           pair == {2 * i - 1, 2 * i}
           x == FirstRoundMatchUp(i)
<1>1. i \in Nat \ {0} /\ i <= 2^(Rounds - 1) /\ 2^(Rounds - 1) \in Nat /\ 2^Rounds = 2 * 2^(Rounds - 1)
  <2>1. i \in 1 .. 2^(Rounds - 1) /\ 2^(Rounds - 1) \in Nat
    BY MainElements
  <2>2. Rounds - 1 \in Nat /\ (Rounds - 1) + 1 = Rounds
    BY RoundsNat
  <2>3. 2^Rounds = 2 * 2^(Rounds - 1)
    BY <2>2, Doubles
  <2> QED
    BY <2>1, <2>3
<1>2. pair \subseteq Position
  BY <1>1 DEF Position
<1>3. x.winner = NoWinner /\ x.at = pair /\ x \in MatchUp
  <2>1. "BYE" \in Status /\ "TO_BE_PLAYED" \in Status /\ NoWinner \in WinningSide /\ NoScore \in Score
    BY DEF Status, Directing, NonDirecting, NoWinner, WinningSide, NoScore, Score
  <2> QED
    BY <1>2, <2>1 DEF FirstRoundMatchUp, Generated, MatchUp
<1> HIDE DEF x
<1>4. \A p \in pair : InBlock(p, k)
  <2>1. 2^k[1] = 2
    BY PowerOfOne
  <2>2. (2 * i - 1 - 1) \div 2 + 1 = i /\ (2 * i - 1) \div 2 + 1 = i
    BY <1>1
  <2> QED
    BY <2>1, <2>2 DEF InBlock
<1>5. Sent(x) = IF pair \cap Bye # {} THEN pair \ Bye ELSE {}
  BY <1>3, NoSide DEF Sent
<1>6. \A p, q \in Sent(x) : p = q
  BY <1>5
<1> QED
  BY <1>3, <1>4, <1>5, <1>6 DEF x

\* Generation advanced who stands opposite a BYE, and nobody else.
LEMMA InitBracket ==
  ASSUME Init
  PROVE  Bracket(draw)
<1> DEFINE first(m) == UNION {Sent(FirstRoundMatchUp(k[2])) : k \in {l \in Feeders(m) : l[1] = 1}}
           x == draw.matchUps
<1>1. draw = [matchUps |-> [m \in Match |->
                IF m = Playoff THEN Generated(Seat, "TO_BE_PLAYED")
                ELSE IF m[1] = 1 THEN FirstRoundMatchUp(m[2])
                ELSE Generated(first(m), "TO_BE_PLAYED")],
              seats |-> [i \in Seat |-> Nobody]]
  BY DEF Init
<1> HIDE DEF first
<1>2. /\ x[Playoff] = Generated(Seat, "TO_BE_PLAYED")
      /\ \A m \in Main : m[1] = 1 => x[m] = FirstRoundMatchUp(m[2])
      /\ \A m \in Main : m[1] # 1 => x[m] = Generated(first(m), "TO_BE_PLAYED")
      /\ \A i \in Seat : draw.seats[i] = Nobody
  BY <1>1, MatchKinds DEF Match
<1>3. /\ "TO_BE_PLAYED" \in Status /\ NoWinner \in WinningSide /\ NoScore \in Score
      /\ Seat \subseteq Position
  <2>1. 2^Rounds >= 2
    <3>1. Rounds - 1 \in Nat /\ (Rounds - 1) + 1 = Rounds
      BY RoundsNat
    <3>2. 2^Rounds = 2 * 2^(Rounds - 1) /\ 2^(Rounds - 1) \in Nat \ {0}
      BY <3>1, Doubles, PowerPositive
    <3> QED
      BY <3>2
  <2>2. 2^Rounds \in Nat
    BY RoundsNat, PowerOfTwo
  <2> QED
    BY <2>1, <2>2 DEF Status, NonDirecting, NoWinner, WinningSide, NoScore, Score, Seat, Position
<1>4. ASSUME NEW m \in Main, m[1] # 1
      PROVE  /\ \A p \in first(m) : p \in Position /\ InBlock(p, m)
             /\ AtMostTwo(first(m)) /\ first(m) \cap Bye = {}
             /\ first(m) = UNION {Sent(x[k]) : k \in {l \in Feeders(m) : l[1] = 1}}
  <2>1. first(m) = UNION {Sent(x[k]) : k \in {l \in Feeders(m) : l[1] = 1}}
    BY <1>2, FeedersOf DEF first
  <2>2. ASSUME NEW k \in Feeders(m), k[1] = 1
        PROVE  /\ \A p \in Sent(x[k]) : p \in Position /\ InBlock(p, m) /\ p \notin Bye
               /\ \A p, q \in Sent(x[k]) : p = q
    <3>1. k \in Main /\ m \in Below(k) /\ x[k] = FirstRoundMatchUp(k[2]) /\ k[1] = m[1] - 1
      BY <1>2, <2>2, FeedersOf
    <3>2. /\ x[k].at \subseteq Position /\ \A p \in x[k].at : InBlock(p, k)
          /\ \A p, q \in Sent(x[k]) : p = q
          /\ Sent(x[k]) \cap Bye = {}
      BY <2>2, <3>1, FirstRound DEF MatchUp
    <3>3. Sent(x[k]) \subseteq x[k].at
      BY NoSide
    <3>4. k[1] < m[1]
      BY <3>1, MainElements
    <3> QED
      BY <3>1, <3>2, <3>3, <3>4, Ancestor
  <2>3. \A p \in first(m) : p \in Position /\ InBlock(p, m) /\ p \notin Bye
    BY <2>1, <2>2
  <2>4. AtMostTwo(first(m))
    <3> DEFINE f == <<m[1] - 1, 2 * m[2] - 1>>
               g == <<m[1] - 1, 2 * m[2]>>
    <3>1. \A k \in Feeders(m) : k = f \/ k = g
      BY FeedersOf
    <3>2. \E a : \A p : f \in Feeders(m) /\ f[1] = 1 /\ p \in Sent(x[f]) => p = a
      BY <2>2
    <3>3. \E b : \A p : g \in Feeders(m) /\ g[1] = 1 /\ p \in Sent(x[g]) => p = b
      BY <2>2
    <3>4. PICK a, b :
            /\ \A p : f \in Feeders(m) /\ f[1] = 1 /\ p \in Sent(x[f]) => p = a
            /\ \A p : g \in Feeders(m) /\ g[1] = 1 /\ p \in Sent(x[g]) => p = b
      BY <3>2, <3>3
    <3> HIDE DEF f, g
    <3>5. first(m) \subseteq {a, b}
      BY <2>1, <3>1, <3>4
    <3> QED
      BY <3>5 DEF AtMostTwo
  <2> QED
    BY <2>1, <2>3, <2>4
<1>5. \A m \in Main : m[1] # 1 => x[m].at = first(m) /\ x[m].winner = NoWinner /\ Sent(x[m]) = {}
  <2> TAKE m \in Main
  <2> HAVE m[1] # 1
  <2>1. x[m].at = first(m) /\ x[m].winner = NoWinner
    <3>1. x[m] = Generated(first(m), "TO_BE_PLAYED")
      BY <1>2
    <3> HIDE DEF x
    <3> QED
      BY <3>1 DEF Generated
  <2>2. x[m].at \cap Bye = {}
    BY <1>4, <2>1
  <2> QED
    BY <2>1, <2>2, NoSide DEF Sent
<1>6. \A m \in Match : x[m] \in MatchUp /\ x[m].winner = NoWinner
  <2> TAKE m \in Match
  <2>1. CASE m = Playoff
    BY <1>2, <1>3, <2>1 DEF Generated, MatchUp
  <2>2. CASE m \in Main /\ m[1] = 1
    BY <1>2, <2>2, FirstRound
  <2>3. CASE m \in Main /\ m[1] # 1
    <3>1. first(m) \in SUBSET Position
      BY <1>4, <2>3
    <3> QED
      <4>1. x[m] = Generated(first(m), "TO_BE_PLAYED")
        BY <1>2, <2>3
      <4> HIDE DEF x
      <4> QED
        BY <1>3, <3>1, <4>1 DEF Generated, MatchUp
  <2> QED
    BY <2>1, <2>2, <2>3, MatchKinds
<1>7. draw \in Draw
  <2>1. draw.seats \in [Seat -> Position \cup {Nobody}] /\ draw.matchUps \in [Match -> MatchUp]
        /\ draw = [matchUps |-> draw.matchUps, seats |-> draw.seats]
    BY <1>1, <1>6
  <2> QED
    BY <2>1 DEF Draw
<1>8. ASSUME NEW m \in Main
      PROVE  /\ AtMostTwo(x[m].at) /\ \A p \in x[m].at : InBlock(p, m)
             /\ m[1] > 1 => x[m].at \cap Bye = {}
  <2>1. CASE m[1] = 1
    <3>1. x[m].at = {2 * m[2] - 1, 2 * m[2]} /\ \A p \in x[m].at : InBlock(p, m)
      BY <1>2, <2>1, FirstRound
    <3> QED
      BY <2>1, <3>1 DEF AtMostTwo
  <2>2. CASE m[1] # 1
    BY <1>4, <1>5, <2>2
  <2> QED
    BY <2>1, <2>2
<1>9. x[Playoff].at = Seat
  BY <1>2 DEF Generated
<1>10. ASSUME NEW n \in Main, n[1] > 1
       PROVE  x[n].at = UNION {Sent(x[k]) : k \in Feeders(n)}
  <2>1. n[1] # 1
    BY <1>10
  <2>2. x[n].at = UNION {Sent(x[k]) : k \in {l \in Feeders(n) : l[1] = 1}}
    BY <1>4, <1>5, <2>1
  <2>3. \A k \in Feeders(n) : k[1] # 1 => Sent(x[k]) = {}
    BY <1>5, FeedersOf
  <2> HIDE DEF x
  <2> QED
    BY <2>2, <2>3
<1>11. \A i \in Seat : {draw.seats[i]} \ {Nobody} = LoserOf(x[<<Rounds - 1, i>>])
  BY <1>2, <1>6, Semifinals, NoSide DEF Match
<1>12. Places(draw)
  BY <1>10, <1>11 DEF Places
<1> QED
  BY <1>6, <1>7, <1>8, <1>9, <1>12 DEF Bracket, Stands

-----------------------------------------------------------------------------
(* What a call comes to.                                                   *)

\* What a call may return.
Kept(d, r) == Bracket(r.draw) /\ (r.refused => r.draw = d)

LEMMA Answered ==
  ASSUME NEW d, Bracket(d)
  PROVE  /\ Kept(d, Accept(d)) /\ Kept(d, Refuse(d))
         /\ \A e : Bracket(e) => Kept(d, Accept(e))
BY DEF Kept, Accept, Refuse

\* A write that keeps the stored winner, or where nobody is sent on.
LEMMA Rewritten ==
  ASSUME NEW d, Bracket(d), NEW m \in Match, NEW o \in Outcome, NEW removeScore \in BOOLEAN,
         o.winner # NoWinner => TwoParticipants(d, m),
         \/ WrittenWinner(d.matchUps[m], o, removeScore, FALSE) = d.matchUps[m].winner
         \/ ~ HasWinnerMatchUp(m)
  PROVE  Kept(d, Modify(d, m, o, removeScore))
<1> DEFINE y == Written(d.matchUps[m], o, removeScore, FALSE)
<1>1. d.matchUps[m] \in MatchUp /\ (d.matchUps[m].winner # NoWinner => TwoParticipants(d, m))
  BY DrawTypes DEF Bracket, Stands
<1>2. y \in MatchUp /\ y.at = d.matchUps[m].at
      /\ y.winner = WrittenWinner(d.matchUps[m], o, removeScore, FALSE)
  BY <1>1, WrittenType
<1>3. y.winner # NoWinner => TwoParticipants(d, m)
  BY <1>1, <1>2 DEF WrittenWinner
<1> HIDE DEF y
<1>4. Bracket([d EXCEPT !.matchUps[m] = y])
  BY <1>2, <1>3, Relabelled
<1>5. Modify(d, m, o, removeScore) = Accept([d EXCEPT !.matchUps[m] = y])
  BY DEF Modify, y
<1> QED
  BY <1>4, <1>5, Answered

\* attemptToSetWinningSide, with nothing played where the participants could come.
LEMMA WinningSideSet ==
  ASSUME NEW d, Bracket(d), NEW m \in Match, NEW o \in Outcome, o.winner # NoWinner,
         ~ ActiveDownstream(d, m) \/ d.matchUps[m].winner = NoWinner
  PROVE  Kept(d, AttemptToSetWinningSide(d, m, o))
<1>1. CASE d.matchUps[m].winner \in {NoWinner, o.winner}
  <2>1. AttemptToSetWinningSide(d, m, o) = DirectParticipants(d, m, o)
    BY <1>1 DEF AttemptToSetWinningSide
  <2> QED
    BY <1>1, <2>1, Directed DEF Kept
<1>2. CASE d.matchUps[m].winner \notin {NoWinner, o.winner}
  <2> DEFINE e == RemoveDirected(d, m, o, FALSE)
             r == DirectParticipants(e, m, o)
  <2>1. AttemptToSetWinningSide(d, m, o) = r
    BY <1>2 DEF AttemptToSetWinningSide
  <2>2. Bracket(e) /\ e.matchUps[m].winner = NoWinner
    BY TakenBack
  <2>3. TwoParticipants(e, m)
    BY <1>2, SteadyRemoval DEF Bracket, Stands
  <2> HIDE DEF e
  <2>4. Bracket(r.draw) /\ r.refused \in BOOLEAN /\ ~ r.refused
    BY <2>2, <2>3, Directed
  <2> QED
    BY <2>1, <2>4 DEF Kept
<1> QED
  BY <1>1, <1>2

\* swapWinnerLoser
LEMMA Corrected ==
  ASSUME NEW d, Bracket(d), NEW m \in Match, NEW o \in Outcome, o.winner # NoWinner,
         d.matchUps[m].winner \notin {NoWinner, o.winner}
  PROVE  Kept(d, SwapWinnerLoser(d, m, o))
<1> DEFINE x == d.matchUps
           at == x[m].at
           c == Exchanged(d, m)
           y == Written(x[m], o, FALSE, FALSE)
           e == [c EXCEPT !.matchUps[m] = y]
<1>1. x[m] \in MatchUp
  BY DrawTypes DEF Bracket, Stands
<1>2. y \in MatchUp /\ y.at = at /\ y.winner = o.winner
  BY <1>1, WrittenType DEF WrittenWinner
<1>3. c = [matchUps |-> [n \in Match |->
             IF n \in Main /\ n[1] > m[1] THEN [x[n] EXCEPT !.at = Others(at, x[n].at)] ELSE x[n]],
           seats |-> [i \in Seat |-> IF HasWinnerMatchUp(m) THEN Other(at, d.seats[i]) ELSE d.seats[i]]]
  BY DEF Exchanged, Other, Others
<1>4. SwapWinnerLoser(d, m, o) = Accept([c EXCEPT !.matchUps[m] = Written(c.matchUps[m], o, FALSE, FALSE)])
  BY DEF SwapWinnerLoser, Modify
<1>5. c.matchUps[m] = x[m]
  <2>1. m \in Main => ~ (m[1] > m[1])
    BY MainElements
  <2> QED
    BY <1>3, <2>1
<1>6. SwapWinnerLoser(d, m, o) = Accept(e)
  BY <1>4, <1>5
<1>7. Stands(e)
  <2>1. Stands(SwapWinnerLoser(d, m, o).draw)
    BY SteadySwap DEF Bracket, Steady
  <2> HIDE DEF e
  <2> QED
    BY <1>6, <2>1 DEF Accept
<1> HIDE DEF y
<1>8. /\ e.matchUps[m] = y
      /\ \A n \in Match \ {m} : e.matchUps[n] =
           IF n \in Main /\ n[1] > m[1] THEN [x[n] EXCEPT !.at = Others(at, x[n].at)] ELSE x[n]
      /\ \A i \in Seat : e.seats[i] =
           IF HasWinnerMatchUp(m) THEN Other(at, d.seats[i]) ELSE d.seats[i]
  BY <1>3
<1> HIDE DEF e, c
<1>9. CASE m = Playoff
  <2>1. (\A n \in Main : ~ (n[1] > m[1])) /\ ~ HasWinnerMatchUp(m)
    BY <1>9, MainElements, PlayoffApart, RoundsNat
  <2>2. \A n \in Main : e.matchUps[n] = x[n]
    BY <1>8, <1>9, <2>1, MatchKinds
  <2>3. e.seats = d.seats
    BY <1>7, <1>8, <2>1 DEF Bracket, Stands, Draw
  <2> QED
    BY <1>6, <1>7, <2>2, <2>3, SameBracket, Answered
<1>10. CASE m \in Main
  <2>1. Swapped(d, e, m)
    BY <1>8 DEF Swapped
  <2>2. /\ e.matchUps[m].at = d.matchUps[m].at /\ d.matchUps[m].winner # NoWinner
        /\ e.matchUps[m].winner \notin {NoWinner, d.matchUps[m].winner}
    BY <1>2, <1>8
  <2> HIDE DEF x, at
  <2>3. Bracket(e)
    BY <1>7, <1>10, <2>1, <2>2, Exchange
  <2> QED
    BY <1>6, <2>3, Answered
<1> QED
  BY <1>9, <1>10, MatchKinds

\* A call with WALKOVER for a decided matchUp, that does not say who won it.
Blanks(d, m, o) ==
  /\ o.status = "WALKOVER" /\ o.winner = NoWinner
  /\ d.matchUps[m].winner # NoWinner /\ HasWinnerMatchUp(m)

\* noDownstreamDependencies and what it leads to.
LEMMA Undecided ==
  ASSUME NEW d, Bracket(d), NEW m \in Match, NEW o \in Outcome, ~ Blanks(d, m, o),
         ~ ActiveDownstream(d, m) \/ d.matchUps[m].winner = NoWinner
  PROVE  Kept(d, NoDownstreamDependencies(d, m, o))
<1> DEFINE x == d.matchUps[m]
           removeScore == o.status \notin {None, "INCOMPLETE", "ABANDONED"}
           scored == o.score # NoScore /\ o.status \notin Live \cup {"CANCELLED", "ABANDONED", "INCOMPLETE"}
           r == NoDownstreamDependencies(d, m, o)
<1> SUFFICES Kept(d, r)
  OBVIOUS
<1>1. r = IF o.winner # NoWinner THEN AttemptToSetWinningSide(d, m, o)
          ELSE IF scored THEN Accept(RemoveDirected(d, m, o, removeScore))
          ELSE IF o.status \notin {None, "TO_BE_PLAYED"} THEN AttemptToSetMatchUpStatus(d, m, o)
          ELSE IF x.winner # NoWinner /\ o.score = NoScore
               THEN Accept(RemoveDirected(d, m, o, removeScore))
          ELSE Modify(d, m, o, TRUE)
  BY DEF NoDownstreamDependencies
<1> HIDE DEF r
<1>2. \A remove \in BOOLEAN : Kept(d, Accept(RemoveDirected(d, m, o, remove)))
  BY TakenBack, Answered
<1>3. ASSUME NEW remove \in BOOLEAN, x.winner = NoWinner, o.winner = NoWinner
      PROVE  Kept(d, Modify(d, m, o, remove))
  BY <1>3, Rewritten DEF WrittenWinner
<1>4. CASE o.winner # NoWinner
  BY <1>1, <1>4, WinningSideSet
<1>5. CASE o.winner = NoWinner /\ scored
  BY <1>1, <1>2, <1>5
<1>6. CASE o.winner = NoWinner /\ ~ scored /\ o.status \notin {None, "TO_BE_PLAYED"}
  <2>1. r = AttemptToSetMatchUpStatus(d, m, o)
    BY <1>1, <1>6
  <2>2. CASE o.status \in Directing /\ x.winner # NoWinner
    <3>1. r = Modify(d, m, o, FALSE)
      BY <2>1, <2>2 DEF AttemptToSetMatchUpStatus
    <3>2. WrittenWinner(x, o, FALSE, FALSE) = x.winner \/ ~ HasWinnerMatchUp(m)
      BY <1>6, <2>2 DEF WrittenWinner, Blanks
    <3> QED
      BY <1>6, <3>1, <3>2, Rewritten
  <2>3. CASE o.status \in Directing /\ x.winner = NoWinner
    <3>1. r = Refuse(d)
      BY <2>1, <2>3 DEF AttemptToSetMatchUpStatus
    <3> QED
      BY <3>1, Answered
  <2>4. CASE o.status \notin Directing /\ x.winner # NoWinner
    <3>1. r = Accept(RemoveDirected(d, m, o, FALSE))
      BY <2>1, <2>4 DEF AttemptToSetMatchUpStatus
    <3> QED
      BY <1>2, <3>1
  <2>5. CASE o.status \notin Directing /\ x.winner = NoWinner
    <3>1. r = Modify(d, m, o, o.status = "CANCELLED")
      BY <2>1, <2>5 DEF AttemptToSetMatchUpStatus
    <3> QED
      BY <1>3, <1>6, <2>5, <3>1
  <2> QED
    BY <2>2, <2>3, <2>4, <2>5
<1>7. CASE o.winner = NoWinner /\ ~ scored /\ o.status \in {None, "TO_BE_PLAYED"}
  <2>1. o.score = NoScore
    BY <1>7 DEF Live, None
  <2>2. CASE x.winner # NoWinner
    BY <1>1, <1>2, <1>7, <2>1, <2>2
  <2>3. CASE x.winner = NoWinner
    BY <1>1, <1>3, <1>7, <2>3
  <2> QED
    BY <2>2, <2>3
<1> QED
  BY <1>4, <1>5, <1>6, <1>7

\* applyOutcome
LEMMA Applied ==
  ASSUME NEW d, Bracket(d), NEW m \in Match, NEW o \in Outcome, ~ Blanks(d, m, o)
  PROVE  Kept(d, ApplyOutcome(d, m, o))
<1> DEFINE x == d.matchUps[m]
           r == ApplyOutcome(d, m, o)
           u == [o EXCEPT !.status = IF @ = None THEN "COMPLETED" ELSE @]
<1> SUFFICES Kept(d, r)
  OBVIOUS
<1>1. r = IF ClearsABye(x, o) THEN Accept(d)
          ELSE IF ~ ActiveDownstream(d, m) \/ x.winner = NoWinner THEN NoDownstreamDependencies(d, m, o)
          ELSE IF o.winner = x.winner \/ (o.winner = NoWinner /\ o.status \in Directing)
               THEN ApplyMatchUpValues(d, m, o)
          ELSE Refuse(d)
  BY DEF ApplyOutcome
<1>2. ApplyMatchUpValues(d, m, o) = Modify(d, m, u, o.status = "CANCELLED")
  BY DEF ApplyMatchUpValues
<1>3. u \in Outcome /\ u.winner = o.winner /\ (u.status = o.status \/ u.status = "COMPLETED")
  <2>1. "COMPLETED" \in Status \ {"BYE"}
    BY DEF Status, Directing
  <2> QED
    BY <2>1 DEF Outcome
<1> HIDE DEF r, u
<1>4. CASE x.winner # NoWinner /\ (o.winner = x.winner \/ (o.winner = NoWinner /\ o.status \in Directing))
  <2>1. WrittenWinner(x, u, o.status = "CANCELLED", FALSE) = x.winner \/ ~ HasWinnerMatchUp(m)
    <3>1. CASE o.winner = x.winner
      BY <1>3, <1>4, <3>1 DEF WrittenWinner
    <3>2. CASE o.winner = NoWinner /\ o.status \in Directing /\ HasWinnerMatchUp(m)
      <4>1. o.status # "CANCELLED" /\ u.status # "WALKOVER"
        BY <1>3, <1>4, <3>2 DEF Blanks, Directing, Exit
      <4> QED
        BY <1>3, <3>2, <4>1 DEF WrittenWinner
    <3> QED
      BY <1>4, <3>1, <3>2
  <2>2. Kept(d, ApplyMatchUpValues(d, m, o))
    <3>1. u.winner # NoWinner => TwoParticipants(d, m)
      BY <1>3, <1>4 DEF Bracket, Stands
    <3> QED
      BY <1>2, <1>3, <2>1, <3>1, Rewritten
  <2> QED
    BY <1>1, <2>2, Answered, Undecided
<1>5. CASE ~ (x.winner # NoWinner /\ (o.winner = x.winner \/ (o.winner = NoWinner /\ o.status \in Directing)))
  BY <1>1, <1>5, Answered, Undecided
<1> QED
  BY <1>4, <1>5

-----------------------------------------------------------------------------
(* The theorems.                                                           *)

\* A call that blanks no winner.
UnblankedCall ==
  \E call \in Call :
    /\ ~ Blanks(draw, call[1], call[2])
    /\ SetMatchUpStatus(call[1], call[2]) \/ CorrectWinner(call[1], call[2])

\* Every call of the instance that says WALKOVER names its winner.
NoBareWalkover == \A call \in Call : call[2].status = "WALKOVER" => call[2].winner # NoWinner

\* The draw, as long as no winner is blanked.
IInv == Bracket(draw)

\* One such call, from a draw in which places follow results.
LEMMA CallKeeps ==
  ASSUME IInv, UnblankedCall
  PROVE  IInv' /\ (reply' = "refused" => draw' = draw)
<1>1. PICK call \in Call : /\ ~ Blanks(draw, call[1], call[2])
                           /\ SetMatchUpStatus(call[1], call[2]) \/ CorrectWinner(call[1], call[2])
  BY DEF UnblankedCall
<1> DEFINE m == call[1]
           o == Given(call[2])
<1>2. m \in Match /\ call[2] \in Outcome
  BY CallAssumption
<1>3. o \in Outcome /\ o.winner = call[2].winner /\ o.status = call[2].status
  BY <1>2 DEF Given, Outcome, Score, NoScore
<1>4. ~ Blanks(draw, m, o)
  BY <1>1, <1>3 DEF Blanks
<1> HIDE DEF o
<1>5. \E r : Kept(draw, r) /\ Return(r)
  <2>1. CASE SetMatchUpStatus(call[1], call[2])
    <3>1. Return(Refuse(draw)) \/ Return(ApplyOutcome(draw, m, o))
      BY <2>1 DEF SetMatchUpStatus, o
    <3> QED
      BY <1>2, <1>3, <1>4, <3>1, Answered, Applied DEF IInv
  <2>2. CASE CorrectWinner(call[1], call[2])
    <3>1. /\ Return(Refuse(draw)) \/ Return(SwapWinnerLoser(draw, m, o))
          /\ call[2].winner # NoWinner /\ draw.matchUps[m].winner \notin {NoWinner, call[2].winner}
      BY <2>2 DEF CorrectWinner, o
    <3> QED
      BY <1>2, <1>3, <3>1, Answered, Corrected DEF IInv
  <2> QED
    BY <1>1, <2>1, <2>2
<1> QED
  BY <1>5 DEF Return, Kept, IInv

\* Whatever the calls, who stands where and which results were played is never confused.
LEMMA StandsHolds == Spec => [](Stands(draw) /\ reply \in {"none", "done", "refused"})
<1> DEFINE I == Stands(draw) /\ reply \in {"none", "done", "refused"}
<1>1. Init => I
  BY InitBracket DEF Init, Bracket
<1>2. I /\ [SomeCall]_vars => I'
  <2> SUFFICES ASSUME I, [SomeCall]_vars
               PROVE  I'
    OBVIOUS
  <2>1. CASE SomeCall
    BY <2>1, CallSteady DEF Steady
  <2>2. CASE UNCHANGED vars
    BY <2>2 DEF vars
  <2> QED
    BY <2>1, <2>2
<1> QED
  BY <1>1, <1>2, PTL DEF Spec

LEMMA IInvHolds == Spec /\ [][UnblankedCall]_vars => []IInv
<1>1. Init => IInv
  BY InitBracket DEF IInv
<1>2. IInv /\ [UnblankedCall]_vars => IInv'
  <2> SUFFICES ASSUME IInv, [UnblankedCall]_vars
               PROVE  IInv'
    OBVIOUS
  <2>1. CASE UnblankedCall
    BY <2>1, CallKeeps
  <2>2. CASE UNCHANGED vars
    BY <2>2 DEF IInv, vars
  <2> QED
    BY <2>1, <2>2
<1> QED
  BY <1>1, <1>2, PTL DEF Spec

\* Where every call with WALKOVER names its winner, no call blanks one.
LEMMA NamedCalls ==
  ASSUME NoBareWalkover
  PROVE  Spec => [][UnblankedCall]_vars
<1>1. [SomeCall]_vars => [UnblankedCall]_vars
  BY DEF SomeCall, UnblankedCall, Blanks, NoBareWalkover
<1> QED
  BY <1>1, PTL DEF Spec

\* Every reachable state of a draw is well typed.
THEOREM TypeCorrect == Spec => []TypeOK
<1>1. Stands(draw) /\ reply \in {"none", "done", "refused"} => TypeOK
  BY DEF Stands, TypeOK
<1> QED
  BY <1>1, StandsHolds, PTL

\* A call changes no played result but that of its own matchUp, not even one that blanks a winner,
\* nor one made after it: what the removals empty lies below the matchUp, where isActiveDownstream
\* found nothing played, and who changes places is of one part of the draw.
THEOREM PlayedResultsStand == Spec => OtherResultsStand
<1> DEFINE Stand ==
      \E m \in Match : \A n \in Match \ {m} :
        (Decided(draw.matchUps[n]) \/ InPlay(draw.matchUps[n])) /\ TwoParticipants(draw, n) =>
          /\ [draw'.matchUps[n] EXCEPT !.at = {}] = [draw.matchUps[n] EXCEPT !.at = {}]
          /\ TwoParticipants(draw, n)'
<1>1. Stands(draw) /\ [SomeCall]_vars => [Stand]_vars
  <2> SUFFICES ASSUME Stands(draw), SomeCall
               PROVE  Stand
    OBVIOUS
  <2>1. PICK m \in Match : Steady(draw, draw', m)
    BY CallSteady
  <2>2. \A n : TwoParticipants(draw, n)' <=> TwoParticipants(draw', n)
    BY DEF TwoParticipants, Players
  <2> QED
    BY <2>1, <2>2 DEF Steady, Confined
<1> QED
  BY <1>1, StandsHolds, PTL DEF Spec, OtherResultsStand

\* Through any sequence of results, corrections and removals that blanks no winner, whoever stands
\* in a later matchUp was sent there, whoever was sent stands there, and the losers of the
\* semifinals hold the seats of the play-off.
THEOREM PlacesFollowUnlessBlanked == Spec /\ [][UnblankedCall]_vars => []PlacesFollowResults
<1>1. IInv => PlacesFollowResults
  BY DEF IInv, Bracket, Places, PlacesFollowResults
<1> QED
  BY <1>1, IInvHolds, PTL

\* So they do when every call with WALKOVER names its winner.
THEOREM PlacesAlwaysFollow ==
  ASSUME NoBareWalkover
  PROVE  Spec => []PlacesFollowResults
BY NamedCalls, PlacesFollowUnlessBlanked, PTL

\* Until a winner is blanked, a refused call leaves the draw as it was: a call refused after the
\* first write would be one that meets a next matchUp with two others in it, or no free seat, and
\* places that follow results leave neither.
THEOREM RefusalsUnlessBlanked == Spec /\ [][UnblankedCall]_vars => RefusedChangesNothing
<1>1. IInv /\ [UnblankedCall]_vars => [reply' = "refused" => draw' = draw]_vars
  BY CallKeeps
<1> QED
  BY <1>1, IInvHolds, PTL DEF RefusedChangesNothing

\* So it does when every call with WALKOVER names its winner.
THEOREM RefusalsChangeNothing ==
  ASSUME NoBareWalkover
  PROVE  Spec => RefusedChangesNothing
BY NamedCalls, RefusalsUnlessBlanked, PTL

-----------------------------------------------------------------------------
(* What follows for the participants.                                      *)

\* Nobody stands in two matchUps of one round.
OnePlaceARound ==
  \A m, n \in Main : m[1] = n[1] /\ draw.matchUps[m].at \cap draw.matchUps[n].at # {} => m = n

\* Whoever stands in a matchUp was sent on by one of every round before it.
EveryRoundWon ==
  \A n \in Main : \A p \in draw.matchUps[n].at : \A r \in 1 .. n[1] - 1 :
    \E m \in Main : m[1] = r /\ p \in Sent(draw.matchUps[m])

\* Who lost a matchUp stands in none after it, and in the play-off only from a semifinal.
LosersAreOut ==
  \A m \in Main : \A p \in LoserOf(draw.matchUps[m]) :
    /\ \A n \in Main : n[1] > m[1] => p \notin draw.matchUps[n].at
    /\ p \in Players(draw, Playoff) => FeedsPlayoff(m)

\* Whatever the calls, directWinner and swapWinnerLoser give nobody a second place in a round.
THEOREM OnePlaceAlways == Spec => []OnePlaceARound
<1>1. Stands(draw) => OnePlaceARound
  BY BlocksApart DEF Stands, OnePlaceARound
<1> QED
  BY <1>1, StandsHolds, PTL

LEMMA RoundsWon ==
  ASSUME IInv
  PROVE  EveryRoundWon
<1> DEFINE x == draw.matchUps
           won(n, p, r) == \E m \in Main : m[1] = r /\ p \in Sent(x[m])
           short == {k \in Nat : \E n \in Main : n[1] = k /\ \E p \in x[n].at : \E r \in 1 .. k - 1 : ~ won(n, p, r)}
<1>1. SUFFICES short = {}
  BY MainElements, RoundsNat DEF EveryRoundWon
<1>2. SUFFICES ASSUME short # {}
               PROVE  FALSE
  OBVIOUS
<1>3. PICK k \in short : \A j \in short : k <= j
  BY <1>2, LeastNumber
<1>4. PICK n \in Main : n[1] = k /\ \E p \in x[n].at : \E r \in 1 .. k - 1 : ~ won(n, p, r)
  BY <1>3
<1>5. PICK p \in x[n].at, r \in 1 .. k - 1 : ~ won(n, p, r)
  BY <1>4
<1>6. k \in Nat /\ k > 1
  BY <1>3, <1>5
<1>7. PICK f \in Feeders(n) : p \in Sent(x[f])
  BY <1>4, <1>6 DEF IInv, Bracket, Places
<1>8. f \in Main /\ f[1] = k - 1
  BY <1>4, <1>7, FeedersOf
<1>9. r # k - 1
  BY <1>5, <1>7, <1>8
<1>10. p \in x[f].at
  BY <1>7, NoSide
<1>11. k - 1 \in short
  BY <1>5, <1>6, <1>8, <1>9, <1>10
<1> QED
  BY <1>3, <1>6, <1>11

\* Until a winner is blanked, nobody stands in a round without having won each one before it, or
\* stood there opposite a BYE.
THEOREM EveryRoundWonUnlessBlanked == Spec /\ [][UnblankedCall]_vars => []EveryRoundWon
BY RoundsWon, IInvHolds, PTL

\* And a loser is out: no removal, correction or second result leaves one in a later round, and
\* nobody plays both for the title and for third place.
THEOREM LosersOutUnlessBlanked == Spec /\ [][UnblankedCall]_vars => []LosersAreOut
<1>1. ASSUME IInv
      PROVE  LosersAreOut
  <2> DEFINE x == draw.matchUps
  <2> SUFFICES ASSUME NEW m \in Main, NEW p \in LoserOf(x[m])
               PROVE  /\ \A n \in Main : n[1] > m[1] => p \notin x[n].at
                      /\ p \in Players(draw, Playoff) => FeedsPlayoff(m)
    BY DEF LosersAreOut
  <2>1. x[m].winner # NoWinner
    BY NoSide
  <2>2. PICK w, l \in Position \ Bye : w # l /\ LoserOf(x[m]) = {l} /\ Sent(x[m]) = {w}
    BY <1>1, <2>1, WonMatchUp DEF IInv, Bracket
  <2>3. InBlock(p, m)
    BY <1>1, SentAlone DEF IInv, Bracket
  <2>4. \A k \in Main : k[1] = m[1] => p \notin Sent(x[k])
    <3> SUFFICES ASSUME NEW k \in Main, k[1] = m[1], p \in Sent(x[k])
                 PROVE  FALSE
      OBVIOUS
    <3>1. InBlock(p, k)
      BY <1>1, SentAlone DEF IInv, Bracket
    <3>2. k = m
      BY <2>3, <3>1, BlocksApart
    <3> QED
      BY <2>2, <3>2
  <2>5. m[1] \in Nat \ {0}
    BY MainElements, RoundsNat
  <2>6. ASSUME NEW n \in Main, n[1] > m[1], p \in x[n].at
        PROVE  FALSE
    <3>1. m[1] \in 1 .. n[1] - 1
      BY <2>5, <2>6, MainElements, RoundsNat
    <3> QED
      BY <1>1, <2>4, <2>6, <3>1, RoundsWon DEF EveryRoundWon
  <2>7. ASSUME p \in Players(draw, Playoff)
        PROVE  FeedsPlayoff(m)
    <3>1. PICK i \in Seat : p = draw.seats[i] /\ p # Nobody
      BY <2>7 DEF Players
    <3> DEFINE s == <<Rounds - 1, i>>
    <3>2. s \in Main /\ s[1] = Rounds - 1
      BY Semifinals
    <3>3. p \in LoserOf(x[s])
      BY <1>1, <3>1 DEF IInv, Bracket, Places
    <3>4. p \in x[s].at /\ p \in x[m].at
      BY <3>3, NoSide
    <3>5. CASE m[1] = s[1]
      BY <3>2, <3>5 DEF FeedsPlayoff
    <3>6. CASE m[1] < s[1]
      BY <2>6, <3>2, <3>4, <3>6
    <3>7. CASE m[1] > s[1]
      <4>1. x[s].winner # NoWinner
        BY <3>3, NoSide
      <4>2. InBlock(p, s)
        BY <1>1, <3>2, <3>3, SentAlone DEF IInv, Bracket
      <4>3. s[1] \in 1 .. m[1] - 1
        BY <3>2, <3>7, MainElements, RoundsNat
      <4>4. PICK k \in Main : k[1] = s[1] /\ p \in Sent(x[k])
        BY <1>1, <3>4, <4>3, RoundsWon DEF EveryRoundWon
      <4>5. k = s
        BY <1>1, <3>2, <4>2, <4>4, SentAlone, BlocksApart DEF IInv, Bracket
      <4>6. PICK v, z \in Position \ Bye : v # z /\ LoserOf(x[s]) = {z} /\ Sent(x[s]) = {v}
        BY <1>1, <3>2, <4>1, WonMatchUp DEF IInv, Bracket
      <4> QED
        BY <3>3, <4>4, <4>5, <4>6
    <3> QED
      BY <2>5, <3>2, <3>5, <3>6, <3>7, RoundsNat
  <2> QED
    BY <2>6, <2>7
<1> QED
  BY <1>1, IInvHolds, PTL
=============================================================================
