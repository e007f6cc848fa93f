------------------------------ MODULE Recursion ------------------------------
(***************************************************************************)
(* Induction and recursion for the loops of the parsers and scanners: what *)
(* holds of every turn of a loop, and that a function defined turn by turn *)
(* exists.  Both are stated about sets and functions, so that a proof can  *)
(* cite them with the set of the turns it is about.                        *)
(***************************************************************************)
EXTENDS Naturals, WellFoundedInduction, TLAPS

Less == {p \in Nat \X Nat : p[1] < p[2]}

LEMMA LessIsWellFounded == IsWellFoundedOn(Less, Nat)
<1>1. IsWellFoundedOn(OpToRel(<, Nat), Nat)
  BY NatLessThanWellFounded
<1>2. OpToRel(<, Nat) = Less
  BY DEF OpToRel, Less
<1> QED
  BY <1>1, <1>2

\* A set of numbers that has 0 and the successor of each of its members has
\* them all: otherwise the least that is missing is the successor of one.
LEMMA EveryNat ==
  ASSUME NEW T, 0 \in T, \A n \in Nat : n \in T => n + 1 \in T
  PROVE  Nat \subseteq T
<1> DEFINE missing == Nat \ T
<1>1. SUFFICES ASSUME missing # {} PROVE FALSE
  OBVIOUS
<1>2. PICK x \in missing : \A y \in missing : ~(<<y, x>> \in Less)
  BY <1>1, LessIsWellFounded, WFMin
<1>3. x \in Nat \ {0}
  OBVIOUS
<1>4. <<x - 1, x>> \in Less
  BY <1>3 DEF Less
<1>5. x - 1 \in T
  BY <1>2, <1>3, <1>4
<1> QED
  BY <1>3, <1>5

\* The same for the turns 0 .. n of a loop.
LEMMA EveryTurn ==
  ASSUME NEW n \in Nat, NEW T, 0 \in T, \A i \in 1 .. n : i - 1 \in T => i \in T
  PROVE  0 .. n \subseteq T
<1> DEFINE U == {i \in Nat : i \in 0 .. n => i \in T}
<1>1. 0 \in U
  OBVIOUS
<1>2. ASSUME NEW i \in Nat, i \in U PROVE i + 1 \in U
  BY <1>2
<1> HIDE DEF U
<1>3. Nat \subseteq U
  BY <1>1, <1>2, EveryNat
<1> QED
  BY <1>3 DEF U

\* What a loop of n turns records: the value after each turn.
Records(g, n, base, step) == g[0] = base /\ \A i \in 1 .. n : g[i] = step[<<g[i - 1], i>>]

\* A loop of n turns that carries a value of S from turn to turn has a record
\* of the value after each.
LEMMA LoopRecord ==
  ASSUME NEW n \in Nat, NEW S, NEW base \in S, NEW step \in [S \X (1 .. n) -> S]
  PROVE  \E g \in [0 .. n -> S] : Records(g, n, base, step)
<1> DEFINE Upto(m, g) == Records(g, m, base, step)
           T == {m \in 0 .. n : \E g \in [0 .. m -> S] : Upto(m, g)}
<1>1. 0 \in T
  <2> DEFINE g == [i \in 0 .. 0 |-> base]
  <2>1. g \in [0 .. 0 -> S] /\ g[0] = base
    OBVIOUS
  <2>2. Upto(0, g)
    BY <2>1 DEF Records
  <2> HIDE DEF g, Upto
  <2>3. \E f \in [0 .. 0 -> S] : Upto(0, f)
    BY <2>1, <2>2
  <2> QED
    BY <2>3
<1>2. ASSUME NEW m \in 1 .. n, m - 1 \in T PROVE m \in T
  <2>1. PICK g \in [0 .. m - 1 -> S] : Upto(m - 1, g)
    BY <1>2
  <2> DEFINE h == [i \in 0 .. m |-> IF i = m THEN step[<<g[m - 1], m>>] ELSE g[i]]
  <2>2. g[m - 1] \in S /\ step[<<g[m - 1], m>>] \in S
    BY <2>1
  <2>3. h \in [0 .. m -> S]
    BY <2>1, <2>2
  <2>4. h[m] = step[<<g[m - 1], m>>] /\ h[m - 1] = g[m - 1]
    OBVIOUS
  <2>5. h[0] = base /\ \A i \in 1 .. m - 1 : h[i] = step[<<h[i - 1], i>>]
    BY <2>1 DEF Records
  <2> HIDE DEF h
  <2>6. Upto(m, h)
    <3>1. \A i \in 1 .. m : i = m \/ i \in 1 .. m - 1
      OBVIOUS
    <3> QED
      BY <2>4, <2>5, <3>1 DEF Records
  <2> HIDE DEF Upto
  <2>7. \E f \in [0 .. m -> S] : Upto(m, f)
    BY <2>3, <2>6
  <2> QED
    BY <2>7
<1> HIDE DEF T
<1>3. n \in T
  BY <1>1, <1>2, EveryTurn
<1> QED
  BY <1>3 DEF T

\* A set of numbers that is not empty has a least.
LEMMA Least ==
  ASSUME NEW S, S \subseteq Nat, S # {}
  PROVE  \E i \in S : \A j \in S : i <= j
<1>1. PICK x \in S : \A y \in S : ~(<<y, x>> \in Less)
  BY LessIsWellFounded, WFMin
<1>2. ASSUME NEW y \in S PROVE x <= y
  <2>1. x \in Nat /\ y \in Nat
    OBVIOUS
  <2>2. ~(y < x)
    BY <1>1, <2>1 DEF Less
  <2> QED
    BY <2>1, <2>2
<1> QED
  BY <1>2
=============================================================================
