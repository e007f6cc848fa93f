---------------------------- MODULE KeyLine_proofs ----------------------------
(* Lines of any tokens and any length are read as the grammar has them.      *)
EXTENDS KeyLine, Recursion, FiniteSetTheorems

USE DEF Blank, Wide, Quote, Backslash, Comma, Hash, Algo, Key, VerifyRequired, Other

(* The records of the two loops. *)

BlockState  == [stop : BOOLEAN, skip : BOOLEAN, quoted : BOOLEAN, len : Nat]
OptionState == [skip : BOOLEAN, quoted : BOOLEAN, found : BOOLEAN, start : Nat]

LEMMA BlockType ==
  ASSUME NEW s \in Seq(Token), NEW acc \in BlockState, NEW i \in 1 .. Len(s)
  PROVE  BlockStep(s, acc, i) \in BlockState
<1>1. [acc EXCEPT !.stop = TRUE] \in BlockState
  BY DEF BlockState
<1>2. \A b, q \in BOOLEAN : InBlock(b, q, i) \in BlockState
  BY DEF InBlock, BlockState
<1>3. acc.quoted \in BOOLEAN /\ Toggled(acc.quoted, s[i]) \in BOOLEAN
  BY DEF Toggled, BlockState
<1>4. EscapesQuote(s, i) \in BOOLEAN
  BY DEF EscapesQuote
<1> QED
  BY <1>1, <1>2, <1>3, <1>4 DEF BlockStep

LEMMA BlockRecord ==
  ASSUME NEW s \in Seq(Token)
  PROVE  /\ BlockScan(s) \in [0 .. Len(s) -> BlockState]
         /\ BlockScan(s)[0] = BlockStart
         /\ \A i \in 1 .. Len(s) : BlockScan(s)[i] = BlockStep(s, BlockScan(s)[i - 1], i)
<1> DEFINE n == Len(s)
           step == [x \in BlockState \X (1 .. n) |-> BlockStep(s, x[1], x[2])]
           Turn(scan) == [i \in 0 .. Len(s) |->
                            IF i = 0 THEN BlockStart ELSE BlockStep(s, scan[i - 1], i)]
<1>1. BlockStart \in BlockState
  BY DEF BlockStart, InBlock, BlockState
<1>2. \A acc \in BlockState, i \in 1 .. n : step[<<acc, i>>] = BlockStep(s, acc, i)
  OBVIOUS
<1>3. step \in [BlockState \X (1 .. n) -> BlockState]
  BY BlockType
<1>4. n \in Nat
  OBVIOUS
<1> HIDE DEF step, n
<1>5. PICK g \in [0 .. n -> BlockState] : Records(g, n, BlockStart, step)
  BY <1>1, <1>3, <1>4, LoopRecord
<1>6. \A i \in 1 .. n : g[i] = BlockStep(s, g[i - 1], i)
  <2> SUFFICES ASSUME NEW i \in 1 .. n PROVE g[i] = BlockStep(s, g[i - 1], i)
    OBVIOUS
  <2>1. g[i - 1] \in BlockState
    BY <1>4
  <2> QED
    BY <1>2, <1>5, <2>1 DEF Records
<1>7. g = Turn(g)
  BY <1>4, <1>5, <1>6 DEF n, Records
<1> HIDE DEF Turn
<1>8. \E scan : scan = Turn(scan)
  BY <1>7
<1>9. BlockScan(s) = Turn(BlockScan(s))
  BY <1>8 DEF BlockScan, Turn
<1>10. BlockScan(s) = [i \in 0 .. n |-> BlockScan(s)[i]]
  BY <1>9 DEF Turn, n
<1>11. BlockScan(s)[0] = BlockStart
  BY <1>4, <1>9 DEF Turn, n
<1>12. \A i \in 1 .. n : BlockScan(s)[i] = BlockStep(s, BlockScan(s)[i - 1], i)
  BY <1>4, <1>9 DEF Turn, n
<1>13. \A i \in 1 .. n : BlockScan(s)[i - 1] \in BlockState => BlockScan(s)[i] \in BlockState
  BY <1>12, BlockType DEF n
<1> DEFINE T == {i \in 0 .. n : BlockScan(s)[i] \in BlockState}
<1>14. 0 \in T /\ \A i \in 1 .. n : i - 1 \in T => i \in T
  BY <1>1, <1>4, <1>11, <1>13
<1> HIDE DEF T
<1>15. 0 .. n \subseteq T
  BY <1>4, <1>14, EveryTurn
<1>16. \A i \in 0 .. n : BlockScan(s)[i] \in BlockState
  BY <1>15 DEF T
<1>17. BlockScan(s) \in [0 .. n -> BlockState]
  BY <1>10, <1>16
<1> QED
  BY <1>11, <1>12, <1>17 DEF n

LEMMA OptionType ==
  ASSUME NEW s \in Seq(Token), NEW acc \in OptionState, NEW i \in 1 .. Len(s)
  PROVE  OptionStep(s, acc, i) \in OptionState
<1>1. [acc EXCEPT !.skip = FALSE] \in OptionState
  BY DEF OptionState
<1>2. (acc.found \/ Segment(s, acc, i) = <<VerifyRequired>>) \in BOOLEAN
  BY DEF OptionState
<1>3. AtComma(s, acc, i) \in OptionState
  BY <1>2 DEF AtComma, OptionState
<1>4. (acc.quoted /\ EscapesQuote(s, i)) \in BOOLEAN /\ Toggled(acc.quoted, s[i]) \in BOOLEAN
  BY DEF Toggled, OptionState
<1>5. acc.found \in BOOLEAN /\ acc.start \in Nat
  BY DEF OptionState
<1>6. [skip |-> acc.quoted /\ EscapesQuote(s, i), quoted |-> Toggled(acc.quoted, s[i]),
       found |-> acc.found, start |-> acc.start] \in OptionState
  BY <1>4, <1>5 DEF OptionState
<1> QED
  BY <1>1, <1>3, <1>6 DEF OptionStep

LEMMA OptionRecord ==
  ASSUME NEW s \in Seq(Token)
  PROVE  /\ OptionScan(s) \in [0 .. Len(s) -> OptionState]
         /\ OptionScan(s)[0] = OptionStart
         /\ \A i \in 1 .. Len(s) : OptionScan(s)[i] = OptionStep(s, OptionScan(s)[i - 1], i)
<1> DEFINE n == Len(s)
           step == [x \in OptionState \X (1 .. n) |-> OptionStep(s, x[1], x[2])]
           Turn(scan) == [i \in 0 .. Len(s) |->
                            IF i = 0 THEN OptionStart ELSE OptionStep(s, scan[i - 1], i)]
<1>1. OptionStart \in OptionState
  BY DEF OptionStart, OptionState
<1>2. \A acc \in OptionState, i \in 1 .. n : step[<<acc, i>>] = OptionStep(s, acc, i)
  OBVIOUS
<1>3. step \in [OptionState \X (1 .. n) -> OptionState]
  BY OptionType
<1>4. n \in Nat
  OBVIOUS
<1> HIDE DEF step, n
<1>5. PICK g \in [0 .. n -> OptionState] : Records(g, n, OptionStart, step)
  BY <1>1, <1>3, <1>4, LoopRecord
<1>6. \A i \in 1 .. n : g[i] = OptionStep(s, g[i - 1], i)
  <2> SUFFICES ASSUME NEW i \in 1 .. n PROVE g[i] = OptionStep(s, g[i - 1], i)
    OBVIOUS
  <2>1. g[i - 1] \in OptionState
    BY <1>4
  <2> QED
    BY <1>2, <1>5, <2>1 DEF Records
<1>7. g = Turn(g)
  BY <1>4, <1>5, <1>6 DEF n, Records
<1> HIDE DEF Turn
<1>8. \E scan : scan = Turn(scan)
  BY <1>7
<1>9. OptionScan(s) = Turn(OptionScan(s))
  BY <1>8 DEF OptionScan, Turn
<1>10. OptionScan(s) = [i \in 0 .. n |-> OptionScan(s)[i]]
  BY <1>9 DEF Turn, n
<1>11. OptionScan(s)[0] = OptionStart
  BY <1>4, <1>9 DEF Turn, n
<1>12. \A i \in 1 .. n : OptionScan(s)[i] = OptionStep(s, OptionScan(s)[i - 1], i)
  BY <1>4, <1>9 DEF Turn, n
<1>13. \A i \in 1 .. n : OptionScan(s)[i - 1] \in OptionState => OptionScan(s)[i] \in OptionState
  BY <1>12, OptionType DEF n
<1> DEFINE T == {i \in 0 .. n : OptionScan(s)[i] \in OptionState}
<1>14. 0 \in T /\ \A i \in 1 .. n : i - 1 \in T => i \in T
  BY <1>1, <1>4, <1>11, <1>13
<1> HIDE DEF T
<1>15. 0 .. n \subseteq T
  BY <1>4, <1>14, EveryTurn
<1>16. \A i \in 0 .. n : OptionScan(s)[i] \in OptionState
  BY <1>15 DEF T
<1>17. OptionScan(s) \in [0 .. n -> OptionState]
  BY <1>10, <1>16
<1> QED
  BY <1>11, <1>12, <1>17 DEF n

(* Quotes: what the next token changes. *)

LEMMA QuotedFirst == ASSUME NEW s PROVE ~Quoted(s, 1)
<1>1. {j \in 1 .. 1 - 1 : s[j] = Quote /\ ~Escaped(s, j)} = {}
  OBVIOUS
<1>2. Cardinality({}) = 0
  BY FS_EmptySet
<1> QED
  BY <1>1, <1>2 DEF Quoted

LEMMA QuotedIsBoolean == ASSUME NEW s, NEW i PROVE Quoted(s, i) \in BOOLEAN
BY DEF Quoted

LEMMA QuotedNext ==
  ASSUME NEW s, NEW i \in Nat \ {0}
  PROVE  Quoted(s, i + 1) <=> IF s[i] = Quote /\ ~Escaped(s, i) THEN ~Quoted(s, i) ELSE Quoted(s, i)
<1> DEFINE Q(n) == {j \in 1 .. n - 1 : s[j] = Quote /\ ~Escaped(s, j)}
<1>1. IsFiniteSet(Q(i))
  <2>1. IsFiniteSet(1 .. i - 1)
    BY FS_Interval
  <2> QED
    BY <2>1, FS_Subset
<1>2. Cardinality(Q(i)) \in Nat
  BY <1>1, FS_CardinalityType
<1>3. CASE s[i] = Quote /\ ~Escaped(s, i)
  <2>1. Q(i + 1) = Q(i) \cup {i}
    BY <1>3
  <2>2. Cardinality(Q(i + 1)) = Cardinality(Q(i)) + 1
    BY <1>1, <2>1, FS_AddElement
  <2> QED
    BY <1>2, <1>3, <2>2 DEF Quoted
<1>4. CASE ~(s[i] = Quote /\ ~Escaped(s, i))
  <2>1. Q(i + 1) = Q(i)
    BY <1>4
  <2> QED
    BY <1>4, <2>1 DEF Quoted
<1> QED
  BY <1>3, <1>4

(* The end of the options block. *)

\* The turn leaves an escape's quote to be skipped.
Skips(s, i) == i \in 1 .. Len(s) /\ EscapesQuote(s, i)

\* Where the scan is, in the grammar's terms.
BlockInv(s, acc, i) ==
  /\ acc.len \in 0 .. i
  /\ ~acc.stop => acc.len = i /\ (acc.skip <=> Skips(s, i))
  /\ acc.stop => acc.len < i /\ s[acc.len + 1] = Blank /\ ~acc.quoted
  /\ (acc.quoted <=> Quoted(s, acc.len + 1))
  /\ \A j \in 1 .. acc.len : s[j] = Blank => Quoted(s, j)

LEMMA BlockInvStart == ASSUME NEW s \in Seq(Token) PROVE BlockInv(s, BlockStart, 0)
<1>1. ~Quoted(s, 1)
  BY QuotedFirst
<1>2. ~Skips(s, 0)
  BY DEF Skips
<1>3. /\ BlockStart.stop = FALSE /\ BlockStart.skip = FALSE /\ BlockStart.quoted = FALSE
      /\ BlockStart.len = 0 /\ BlockStart.len + 1 = 1
  BY DEF BlockStart, InBlock
<1>4. BlockStart.quoted <=> Quoted(s, BlockStart.len + 1)
  BY <1>1, <1>3
<1> QED
  BY <1>2, <1>3, <1>4 DEF BlockInv

LEMMA SkipsEscaped ==
  ASSUME NEW s \in Seq(Token), NEW i \in 1 .. Len(s)
  PROVE  Skips(s, i - 1) <=> Escaped(s, i)
BY DEF Skips, Escaped, EscapesQuote, At

LEMMA BlockInvTurn ==
  ASSUME NEW s \in Seq(Token), NEW acc \in BlockState, NEW i \in 1 .. Len(s),
         BlockInv(s, acc, i - 1)
  PROVE  BlockInv(s, BlockStep(s, acc, i), i)
<1>1. acc.stop \in BOOLEAN /\ acc.skip \in BOOLEAN /\ acc.quoted \in BOOLEAN
      /\ acc.len \in Nat /\ i \in Nat \ {0}
  BY DEF BlockState
<1>2. CASE acc.stop
  <2>1. BlockStep(s, acc, i) = acc
    BY <1>2 DEF BlockStep
  <2>2. acc.len \in 0 .. i /\ acc.len < i
    BY <1>1, <1>2 DEF BlockInv
  <2> QED
    BY <1>1, <1>2, <2>1, <2>2 DEF BlockInv
<1> DEFINE at(b, q) == InBlock(b, q, i)
<1>3. ASSUME ~acc.stop, NEW b \in BOOLEAN, NEW q \in BOOLEAN,
             b <=> Skips(s, i), q <=> Quoted(s, i + 1), s[i] = Blank => Quoted(s, i)
      PROVE  BlockInv(s, at(b, q), i)
  <2>1. acc.len = i - 1 /\ \A j \in 1 .. i - 1 : s[j] = Blank => Quoted(s, j)
    BY <1>3 DEF BlockInv
  <2>2. \A j \in 1 .. i : s[j] = Blank => Quoted(s, j)
    BY <1>3, <2>1
  <2> QED
    BY <1>1, <1>3, <2>2 DEF BlockInv, InBlock
<1>4. CASE ~acc.stop /\ acc.skip
  <2>1. Escaped(s, i) /\ s[i] = Quote
    BY <1>4, SkipsEscaped DEF BlockInv, Escaped
  <2>2. acc.quoted <=> Quoted(s, i + 1)
    <3>1. acc.quoted <=> Quoted(s, i)
      BY <1>1, <1>4 DEF BlockInv
    <3> QED
      BY <1>1, <2>1, <3>1, QuotedNext
  <2>3. ~Skips(s, i)
    BY <2>1 DEF Skips, EscapesQuote
  <2>4. BlockInv(s, at(FALSE, acc.quoted), i)
    BY <1>1, <1>3, <1>4, <2>1, <2>2, <2>3
  <2> QED
    BY <1>4, <2>4 DEF BlockStep
<1>5. CASE ~acc.stop /\ ~acc.skip
  <2>1. ~Escaped(s, i) /\ acc.len = i - 1 /\ (acc.quoted <=> Quoted(s, i))
    BY <1>1, <1>5, SkipsEscaped DEF BlockInv
  <2>2. CASE ~acc.quoted /\ s[i] = Blank
    <3> DEFINE new == [acc EXCEPT !.stop = TRUE]
    <3>1. BlockStep(s, acc, i) = new
      BY <1>5, <2>2 DEF BlockStep
    <3>2. new.stop = TRUE /\ new.skip = acc.skip /\ new.quoted = acc.quoted /\ new.len = acc.len
      BY DEF BlockState
    <3> HIDE DEF new
    <3>3. \A j \in 1 .. new.len : s[j] = Blank => Quoted(s, j)
      BY <3>2 DEF BlockInv
    <3>4. BlockInv(s, new, i)
      BY <1>1, <2>1, <2>2, <3>2, <3>3 DEF BlockInv
    <3> QED
      BY <3>1, <3>4
  <2>3. CASE ~(~acc.quoted /\ s[i] = Blank)
    <3> DEFINE b == EscapesQuote(s, i)
               q == Toggled(acc.quoted, s[i])
    <3>1. q <=> Quoted(s, i + 1)
      BY <1>1, <2>1, QuotedNext DEF Toggled
    <3>2. q \in BOOLEAN /\ b \in BOOLEAN /\ (b <=> Skips(s, i))
      BY <1>1 DEF Toggled, Skips, EscapesQuote
    <3>3. s[i] = Blank => Quoted(s, i)
      BY <2>1, <2>3
    <3>4. BlockStep(s, acc, i) = InBlock(b, q, i)
      BY <1>5, <2>3 DEF BlockStep
    <3> HIDE DEF b, q
    <3>5. BlockInv(s, at(b, q), i)
      BY <1>3, <1>5, <3>1, <3>2, <3>3
    <3> QED
      BY <3>4, <3>5
  <2> QED
    BY <2>2, <2>3
<1> QED
  BY <1>1, <1>2, <1>4, <1>5

LEMMA BlockInvEnd ==
  ASSUME NEW s \in Seq(Token)
  PROVE  AdvancePastOptions(s) \in BlockState /\ BlockInv(s, AdvancePastOptions(s), Len(s))
<1> DEFINE scan == BlockScan(s)
           T == {i \in 0 .. Len(s) : BlockInv(s, scan[i], i)}
<1>1. scan \in [0 .. Len(s) -> BlockState] /\ Len(s) \in Nat
  BY BlockRecord
<1>2. 0 \in T
  BY <1>1, BlockRecord, BlockInvStart
<1>3. ASSUME NEW i \in 1 .. Len(s), i - 1 \in T PROVE i \in T
  <2>1. scan[i - 1] \in BlockState
    BY <1>1
  <2> QED
    BY <1>3, <2>1, BlockRecord, BlockInvTurn
<1> HIDE DEF T
<1>4. 0 .. Len(s) \subseteq T
  BY <1>1, <1>2, <1>3, EveryTurn
<1> QED
  BY <1>1, <1>4 DEF T, AdvancePastOptions

\* A scan that ends outside quotes has stopped at the end of the one block
\* the grammar allows, and one that ends in quotes finds what the grammar has
\* none of.
LEMMA BlockFound ==
  ASSUME NEW s \in Seq(Token), NEW n
  PROVE  n \in BlockEnds(s) <=> ~AdvancePastOptions(s).quoted /\ n = AdvancePastOptions(s).len
<1> DEFINE acc == AdvancePastOptions(s)
<1>1. acc \in BlockState /\ BlockInv(s, acc, Len(s)) /\ Len(s) \in Nat
  BY BlockInvEnd
<1> HIDE DEF acc
<1>2. ASSUME ~acc.quoted, n = acc.len PROVE n \in BlockEnds(s)
  <2>1. CASE acc.stop
    BY <1>1, <1>2, <2>1 DEF BlockInv, BlockEnds, At
  <2>2. CASE ~acc.stop
    BY <1>1, <1>2, <2>2 DEF BlockInv, BlockEnds, At
  <2> QED
    BY <2>1, <2>2
<1>3. ASSUME n \in BlockEnds(s) PROVE ~acc.quoted /\ n = acc.len
  <2>1. n \in 0 .. Len(s) /\ ~Quoted(s, n + 1)
    BY <1>3 DEF BlockEnds
  <2>2. ~(n < acc.len)
    <3>1. SUFFICES ASSUME n < acc.len PROVE FALSE
      OBVIOUS
    <3>2. n + 1 \in 1 .. acc.len /\ n + 1 \in DOMAIN s
      BY <1>1, <2>1, <3>1 DEF BlockInv
    <3>3. s[n + 1] \in Token
      BY <3>2
    <3>4. s[n + 1] = Blank
      BY <1>3, <3>2, <3>3 DEF BlockEnds, At, Token, OptionToken
    <3> QED
      BY <1>1, <2>1, <3>2, <3>4 DEF BlockInv
  <2>3. ~(n > acc.len)
    BY <1>1, <1>3, <2>1 DEF BlockInv, BlockEnds
  <2>4. n = acc.len
    BY <1>1, <2>1, <2>2, <2>3 DEF BlockInv
  <2> QED
    BY <1>1, <2>1, <2>4 DEF BlockInv
<1> QED
  BY <1>2, <1>3 DEF acc

(* What is left of a line from its first word on. *)

LEMMA TrimStartKept ==
  ASSUME NEW s \in Seq(Token)
  PROVE  /\ TrimStart(s) \in Seq(Token)
         /\ TrimStart(s) = <<>> \/ (TrimStart(s) # <<>> /\ TrimStart(s)[1] \notin Space)
<1> DEFINE words == {i \in DOMAIN s : s[i] \notin Space}
           first == CHOOSE i \in words : \A j \in words : i <= j
<1>1. CASE words = {}
  BY <1>1 DEF TrimStart
<1>2. CASE words # {}
  <2>1. words \subseteq Nat
    OBVIOUS
  <2>2. \E i \in words : \A j \in words : i <= j
    BY <1>2, <2>1, Least
  <2>3. first \in words
    BY <2>2
  <2>4. TrimStart(s) = SubSeq(s, first, Len(s))
    BY <1>2 DEF TrimStart, From
  <2> HIDE DEF first
  <2>5. first \in 1 .. Len(s) /\ s[first] \notin Space
    BY <2>3
  <2> QED
    BY <2>4, <2>5
<1> QED
  BY <1>1, <1>2

LEMMA TrimStartOnce ==
  ASSUME NEW s \in Seq(Token), s = <<>> \/ s[1] \notin Space
  PROVE  TrimStart(s) = s
<1> DEFINE words == {i \in DOMAIN s : s[i] \notin Space}
           first == CHOOSE i \in words : \A j \in words : i <= j
<1>1. CASE s = <<>>
  BY <1>1 DEF TrimStart
<1>2. CASE s # <<>>
  <2>1. 1 \in words /\ \A j \in words : 1 <= j
    BY <1>2
  <2>2. \A i \in words : (\A j \in words : i <= j) => i = 1
    BY <2>1
  <2>3. first = 1
    BY <2>1, <2>2
  <2>4. TrimStart(s) = SubSeq(s, 1, Len(s))
    BY <2>1, <2>3 DEF TrimStart, From
  <2> QED
    BY <2>4
<1> QED
  BY <1>1, <1>2

(* Every line that can be typed. *)

Typed == options \in Seq(Token) /\ ending \in Ending

LEMMA AlwaysTyped == Spec => []Typed
<1>1. Init => Typed
  BY DEF Init, Typed
<1>2. Typed /\ [Next]_vars => Typed'
  <2> SUFFICES ASSUME Typed, [Next]_vars PROVE Typed'
    OBVIOUS
  <2>1. CASE Next
    <3>1. PICK t \in OptionToken : Type(t)
      BY <2>1 DEF Next
    <3>2. t \in Token
      BY DEF Token
    <3> QED
      BY <3>1, <3>2 DEF Type, Typed
  <2>2. CASE UNCHANGED vars
    BY <2>2 DEF vars, Typed
  <2> QED
    BY <2>1, <2>2
<1> QED
  BY <1>1, <1>2, PTL DEF Spec

LEMMA LineIsTokens == Typed => line \in Seq(Token)
BY EndingAssumption DEF Typed, line

LEMMA KeysFoundIn ==
  ASSUME NEW raw \in Seq(Token)
  PROVE  LET s == TrimStart(raw)
         IN  ParseLine(raw).kept <=>
               /\ At(s, 1) # Hash
               /\ \/ Named(s)
                  \/ ~LineStartsWithAlgo(s) /\ \E n \in BlockEnds(s) : Named(From(s, n + 1))
<1> DEFINE s == TrimStart(raw)
           end == AdvancePastOptions(s)
           Kept(t) == ParseAuthorizedKeyLine(t).kept
<1>1. s \in Seq(Token) /\ TrimStart(s) = s
  BY TrimStartKept, TrimStartOnce
<1>2. s # <<>> => At(s, 1) # "end"
  <2> SUFFICES ASSUME s # <<>> PROVE At(s, 1) # "end"
    OBVIOUS
  <2>1. 1 \in DOMAIN s /\ s[1] \in Token
    BY <1>1
  <2> QED
    BY <2>1 DEF At, Token, OptionToken
<1>3. s = <<>> => /\ At(s, 1) = "end" /\ ~Named(s)
                  /\ \A n \in BlockEnds(s) : ~Named(From(s, n + 1))
  <2> SUFFICES ASSUME s = <<>>
               PROVE  /\ At(s, 1) = "end" /\ ~Named(s)
                      /\ \A n \in BlockEnds(s) : ~Named(From(s, n + 1))
    OBVIOUS
  <2>1. At(<<>>, 1) = "end"
    BY DEF At
  <2>2. ~Named(<<>>)
    BY <1>1, <2>1 DEF Named, LineStartsWithAlgo
  <2>3. ASSUME NEW n \in BlockEnds(s) PROVE From(s, n + 1) = <<>>
    BY DEF BlockEnds, From
  <2> QED
    BY <2>1, <2>2, <2>3
<1> HIDE DEF s
<1>4. CASE LineStartsWithAlgo(s)
  <2>1. From(s, 0 + 1) = s
    BY <1>1 DEF From
  <2>2. Kept(s) <=> FirstWord(Tail(s)) = <<Key>>
    BY <1>1, <1>4, <2>1 DEF ParseAuthorizedKeyLine, Skipped
  <2>3. Kept(s) <=> Named(s)
    BY <1>1, <1>4, <2>2 DEF Named
  <2>4. At(s, 1) \notin {"end", Hash}
    BY <1>4 DEF LineStartsWithAlgo
  <2> QED
    BY <1>4, <2>3, <2>4 DEF ParseLine, s
<1>5. CASE ~LineStartsWithAlgo(s)
  <2>1. Kept(s) <=> ~end.quoted /\ Named(From(s, end.len + 1))
    BY <1>5 DEF ParseAuthorizedKeyLine, Skipped, Named
  <2>2. Kept(s) <=> \E n \in BlockEnds(s) : Named(From(s, n + 1))
    BY <1>1, <2>1, BlockFound
  <2>3. ~Named(s)
    BY <1>1, <1>5 DEF Named
  <2>4. CASE s = <<>>
    BY <1>3, <2>4 DEF ParseLine, Skipped, s
  <2>5. CASE At(s, 1) = Hash
    BY <2>5 DEF ParseLine, Skipped, s
  <2>6. CASE s # <<>> /\ At(s, 1) # Hash
    BY <1>2, <1>5, <2>2, <2>3, <2>6 DEF ParseLine, s
  <2> QED
    BY <2>4, <2>5, <2>6
<1> QED
  BY <1>4, <1>5

\* Whatever is typed in front of whatever ending, however long: a line is
\* taken exactly when the grammar has a key in it, with any white space around
\* the options, the algorithm and the key (advance_past_options,
\* parse_authorized_key_line).
THEOREM EveryKeyFound == Spec => []KeysFound
<1>1. Typed => KeysFound
  BY LineIsTokens, KeysFoundIn DEF KeysFound
<1> QED
  BY <1>1, AlwaysTyped, PTL

(* verify-required among the options. *)

\* A comma that separates options.
Separates(o, j) == j \in 1 .. Len(o) /\ o[j] = Comma /\ ~Quoted(o, j)

\* The word begins an option that ends before i.
WordBefore(o, i) ==
  i - 1 \in 1 .. Len(o) /\ o[i - 1] = VerifyRequired /\ (i - 1 = 1 \/ Separates(o, i - 2))

\* Where the scan's option began.
StartInv(o, acc, i) ==
  /\ acc.start \in 1 .. i + 1
  /\ acc.start = 1 \/ Separates(o, acc.start - 1)
  /\ \A j \in acc.start .. i : ~Separates(o, j)

OptionInv(o, acc, i) ==
  /\ acc.quoted <=> Quoted(o, i + 1)
  /\ acc.skip <=> Skips(o, i)
  /\ StartInv(o, acc, i)
  /\ acc.found <=> \E j \in 1 .. i : Separates(o, j) /\ WordBefore(o, j)

LEMMA SegmentIsWord ==
  ASSUME NEW o \in Seq(Token), NEW acc \in OptionState, NEW i \in 1 .. Len(o) + 1,
         StartInv(o, acc, i - 1)
  PROVE  Segment(o, acc, i) = <<VerifyRequired>> <=> WordBefore(o, i)
<1> DEFINE seg == Segment(o, acc, i)
<1>1. acc.start \in 1 .. i /\ acc.start \in Nat /\ i \in Nat /\ Len(o) \in Nat
  BY DEF StartInv
<1>2. Len(seg) = i - acc.start /\ \A k \in 1 .. Len(seg) : seg[k] = o[acc.start + k - 1]
  BY <1>1 DEF Segment
<1>3. ASSUME seg = <<VerifyRequired>> PROVE WordBefore(o, i)
  <2>1. acc.start = i - 1 /\ o[i - 1] = VerifyRequired
    BY <1>1, <1>2, <1>3
  <2> QED
    BY <1>1, <2>1 DEF StartInv, WordBefore
<1>4. ASSUME WordBefore(o, i) PROVE seg = <<VerifyRequired>>
  <2>1. acc.start # i
    BY <1>1, <1>4 DEF StartInv, WordBefore, Separates
  <2>2. ~(acc.start < i - 1)
    BY <1>1, <1>4 DEF StartInv, WordBefore
  <2>3. acc.start = i - 1 /\ o[i - 1] = VerifyRequired
    BY <1>1, <1>4, <2>1, <2>2 DEF WordBefore
  <2>4. Len(seg) = 1 /\ seg[1] = VerifyRequired
    BY <1>1, <1>2, <2>3
  <2>5. seg \in Seq(Token)
    BY <1>1 DEF Segment
  <2> HIDE DEF seg
  <2> QED
    BY <2>4, <2>5
<1> QED
  BY <1>3, <1>4

LEMMA OptionInvStart == ASSUME NEW o \in Seq(Token) PROVE OptionInv(o, OptionStart, 0)
<1>1. ~Quoted(o, 1) /\ ~Skips(o, 0)
  BY QuotedFirst DEF Skips
<1>2. /\ OptionStart.quoted = FALSE /\ OptionStart.skip = FALSE /\ OptionStart.found = FALSE
      /\ OptionStart.start = 1
  BY DEF OptionStart
<1>3. StartInv(o, OptionStart, 0)
  BY <1>2 DEF StartInv
<1> QED
  BY <1>1, <1>2, <1>3 DEF OptionInv

LEMMA OptionInvTurn ==
  ASSUME NEW o \in Seq(Token), Regular(o), NEW acc \in OptionState, NEW i \in 1 .. Len(o),
         OptionInv(o, acc, i - 1)
  PROVE  OptionInv(o, OptionStep(o, acc, i), i)
<1> DEFINE new == OptionStep(o, acc, i)
<1>1. acc.skip \in BOOLEAN /\ acc.quoted \in BOOLEAN /\ acc.found \in BOOLEAN
      /\ acc.start \in Nat /\ i \in Nat \ {0} /\ Len(o) \in Nat
  BY DEF OptionState
<1>2. acc.quoted <=> Quoted(o, i)
  BY <1>1 DEF OptionInv
<1>3. acc.skip <=> Escaped(o, i)
  BY SkipsEscaped DEF OptionInv
<1>4. StartInv(o, acc, i - 1) /\ (acc.found <=> \E j \in 1 .. i - 1 : Separates(o, j) /\ WordBefore(o, j))
  BY DEF OptionInv
<1>5. ASSUME ~Separates(o, i), NEW a, a.start = acc.start, a.found = acc.found,
             a.quoted <=> Quoted(o, i + 1), a.skip <=> Skips(o, i)
      PROVE  OptionInv(o, a, i)
  <2>1. StartInv(o, a, i)
    BY <1>1, <1>4, <1>5 DEF StartInv
  <2>2. a.found <=> \E j \in 1 .. i : Separates(o, j) /\ WordBefore(o, j)
    BY <1>1, <1>4, <1>5
  <2> QED
    BY <1>5, <2>1, <2>2 DEF OptionInv
<1>6. CASE acc.skip
  <2> DEFINE a == [acc EXCEPT !.skip = FALSE]
  <2>1. new = a
    BY <1>6 DEF OptionStep
  <2>2. a.start = acc.start /\ a.found = acc.found /\ a.quoted = acc.quoted /\ a.skip = FALSE
    BY DEF OptionState
  <2>3. o[i] = Quote
    BY <1>3, <1>6 DEF Escaped
  <2>4. ~Separates(o, i) /\ ~Skips(o, i)
    BY <2>3 DEF Separates, Skips, EscapesQuote
  <2>5. Quoted(o, i + 1) <=> Quoted(o, i)
    BY <1>1, <1>3, <1>6, QuotedNext
  <2> HIDE DEF a, new
  <2>6. OptionInv(o, a, i)
    BY <1>2, <1>5, <2>2, <2>4, <2>5
  <2> QED
    BY <2>1, <2>6 DEF new
<1>7. CASE ~acc.skip /\ ~acc.quoted /\ o[i] = Comma
  <2> DEFINE a == AtComma(o, acc, i)
  <2>1. new = a
    BY <1>7 DEF OptionStep
  <2>2. a.skip = FALSE /\ a.quoted = FALSE /\ a.start = i + 1
        /\ a.found = (acc.found \/ Segment(o, acc, i) = <<VerifyRequired>>)
    BY DEF AtComma
  <2>3. Separates(o, i) /\ ~Skips(o, i) /\ ~Quoted(o, i + 1)
    BY <1>1, <1>2, <1>7, QuotedNext DEF Separates, Skips, EscapesQuote
  <2> HIDE DEF a, new
  <2>4. a.found <=> acc.found \/ WordBefore(o, i)
    <3>1. i \in 1 .. Len(o) + 1
      BY <1>1
    <3>2. Segment(o, acc, i) = <<VerifyRequired>> <=> WordBefore(o, i)
      BY <1>4, <3>1, SegmentIsWord
    <3> QED
      BY <2>2, <3>2
  <2>5. a.found <=> \E j \in 1 .. i : Separates(o, j) /\ WordBefore(o, j)
    BY <1>1, <1>4, <2>3, <2>4
  <2>6. StartInv(o, a, i)
    BY <1>1, <2>2, <2>3 DEF StartInv
  <2>7. OptionInv(o, a, i)
    BY <2>2, <2>3, <2>5, <2>6 DEF OptionInv
  <2> QED
    BY <2>1, <2>7 DEF new
<1>8. CASE ~acc.skip /\ ~(~acc.quoted /\ o[i] = Comma)
  <2> DEFINE b == acc.quoted /\ EscapesQuote(o, i)
             q == Toggled(acc.quoted, o[i])
             a == [skip |-> b, quoted |-> q, found |-> acc.found, start |-> acc.start]
  <2>1. new = a
    BY <1>8 DEF OptionStep
  <2>2. ~Separates(o, i)
    BY <1>2, <1>8 DEF Separates
  <2>3. q <=> Quoted(o, i + 1)
    BY <1>1, <1>2, <1>3, <1>8, QuotedNext DEF Toggled
  <2>4. b <=> Skips(o, i)
    <3>1. ASSUME EscapesQuote(o, i) PROVE acc.quoted
      <4>1. o[i] = Backslash /\ At(o, i + 1) = Quote
        BY <3>1 DEF EscapesQuote
      <4>2. i + 1 \in 1 .. Len(o) /\ o[i + 1] = Quote
        BY <1>1, <4>1 DEF At
      <4>3. At(o, (i + 1) - 1) = Backslash
        BY <1>1, <4>1 DEF At
      <4>4. Escaped(o, i + 1)
        BY <4>2, <4>3 DEF Escaped
      <4>5. Quoted(o, i + 1)
        BY <4>2, <4>4 DEF Regular
      <4> QED
        BY <1>1, <1>2, <4>1, <4>5, QuotedNext
    <3> QED
      BY <3>1 DEF Skips
  <2>5. a.start = acc.start /\ a.found = acc.found /\ a.quoted = q /\ a.skip = b
    OBVIOUS
  <2> HIDE DEF a, new, b, q
  <2>6. OptionInv(o, a, i)
    BY <1>5, <2>2, <2>3, <2>4, <2>5
  <2> QED
    BY <2>1, <2>6 DEF new
<1> QED
  BY <1>1, <1>6, <1>7, <1>8

LEMMA OptionInvEnd ==
  ASSUME NEW o \in Seq(Token), Regular(o)
  PROVE  OptionScan(o)[Len(o)] \in OptionState /\ OptionInv(o, OptionScan(o)[Len(o)], Len(o))
<1> DEFINE scan == OptionScan(o)
           T == {i \in 0 .. Len(o) : OptionInv(o, scan[i], i)}
<1>1. scan \in [0 .. Len(o) -> OptionState] /\ Len(o) \in Nat
  BY OptionRecord
<1>2. 0 \in T
  BY <1>1, OptionRecord, OptionInvStart
<1>3. ASSUME NEW i \in 1 .. Len(o), i - 1 \in T PROVE i \in T
  <2>1. scan[i - 1] \in OptionState
    BY <1>1
  <2> QED
    BY <1>3, <2>1, OptionRecord, OptionInvTurn
<1> HIDE DEF T
<1>4. 0 .. Len(o) \subseteq T
  BY <1>1, <1>2, <1>3, EveryTurn
<1> QED
  BY <1>1, <1>4 DEF T

LEMMA OptionFound ==
  ASSUME NEW o \in Seq(Token), Regular(o)
  PROVE  OptionsHaveVerifyRequired(o) <=> HasOption(o)
<1> DEFINE end == OptionScan(o)[Len(o)]
           n == Len(o)
<1>1. end \in OptionState /\ OptionInv(o, end, n) /\ n \in Nat
  BY OptionInvEnd
<1> HIDE DEF end
<1>2. end.found <=> \E j \in 1 .. n : Separates(o, j) /\ WordBefore(o, j)
  BY <1>1 DEF OptionInv
<1>3. Segment(o, end, n + 1) = <<VerifyRequired>> <=> WordBefore(o, n + 1)
  <2>1. StartInv(o, end, (n + 1) - 1) /\ n + 1 \in 1 .. Len(o) + 1
    BY <1>1 DEF OptionInv
  <2> QED
    BY <1>1, <2>1, SegmentIsWord
<1>4. OptionsHaveVerifyRequired(o) <=> end.found \/ WordBefore(o, n + 1)
  BY <1>3 DEF OptionsHaveVerifyRequired, end
<1>5. ASSUME NEW i \in 1 .. n + 1, WordBefore(o, i), i = n + 1 \/ Separates(o, i)
      PROVE  HasOption(o)
  <2>1. i - 1 \in DOMAIN o /\ o[i - 1] = VerifyRequired
    BY <1>5 DEF WordBefore
  <2>2. ~Quoted(o, i - 1)
    <3>1. CASE i - 1 = 1
      BY <3>1, QuotedFirst
    <3>2. CASE i - 1 # 1
      <4>1. Separates(o, i - 2)
        BY <1>5, <3>2 DEF WordBefore
      <4>2. i - 2 \in Nat \ {0} /\ (i - 2) + 1 = i - 1
        BY <1>1, <4>1 DEF Separates
      <4> QED
        BY <4>1, <4>2, QuotedNext DEF Separates
    <3> QED
      BY <3>1, <3>2
  <2>3. ASSUME NEW j \in {i - 1 - 1, i - 1 + 1} \cap DOMAIN o PROVE Separates(o, j)
    <3>1. CASE j = i - 1 - 1
      BY <1>1, <1>5, <3>1 DEF WordBefore
    <3>2. CASE j = i - 1 + 1
      BY <1>1, <1>5, <3>2
    <3> QED
      BY <3>1, <3>2
  <2> QED
    BY <2>1, <2>2, <2>3 DEF HasOption, Separates
<1>6. ASSUME HasOption(o) PROVE end.found \/ WordBefore(o, n + 1)
  <2>1. PICK i \in DOMAIN o :
          /\ o[i] = VerifyRequired
          /\ \A j \in {i - 1, i + 1} \cap DOMAIN o : o[j] = Comma /\ ~Quoted(o, j)
    BY <1>6 DEF HasOption
  <2>2. i \in 1 .. n
    OBVIOUS
  <2>3. i = 1 \/ Separates(o, i - 1)
    BY <1>1, <2>1, <2>2 DEF Separates
  <2>4. WordBefore(o, i + 1)
    <3>1. (i + 1) - 1 = i /\ (i + 1) - 2 = i - 1
      BY <2>2
    <3> QED
      BY <2>1, <2>2, <2>3, <3>1 DEF WordBefore
  <2>5. CASE i = n
    BY <2>4, <2>5
  <2>6. CASE i # n
    <3>1. i + 1 \in 1 .. n
      BY <1>1, <2>2, <2>6
    <3>2. Separates(o, i + 1)
      BY <2>1, <3>1 DEF Separates
    <3> QED
      BY <1>2, <2>4, <3>1, <3>2
  <2> QED
    BY <2>5, <2>6
<1>7. ASSUME end.found \/ WordBefore(o, n + 1) PROVE HasOption(o)
  <2>1. CASE end.found
    <3>1. PICK j \in 1 .. n : Separates(o, j) /\ WordBefore(o, j)
      BY <1>2, <2>1
    <3> QED
      BY <1>1, <1>5, <3>1
  <2>2. CASE WordBefore(o, n + 1)
    BY <1>1, <1>5, <2>2
  <2> QED
    BY <1>7, <2>1, <2>2
<1> QED
  BY <1>4, <1>6, <1>7

\* However many options, and whatever they quote: when the escapes of the block
\* are in quotes, the line asks for user verification exactly when
\* verify-required is one of them (options_have_verify_required).
THEOREM EveryOptionRead == Spec => []OptionRead
<1>1. ASSUME Typed PROVE OptionRead
  <2> DEFINE s == TrimStart(line)
  <2>1. s \in Seq(Token)
    BY <1>1, LineIsTokens, TrimStartKept
  <2> HIDE DEF s
  <2>2. ASSUME NEW n \in BlockEnds(s), ParseLine(line).kept, ~LineStartsWithAlgo(s),
               Regular(SubSeq(s, 1, n))
        PROVE  ParseLine(line).verify_required <=> HasOption(SubSeq(s, 1, n))
    <3>1. n = AdvancePastOptions(s).len /\ n \in 0 .. Len(s)
      BY <2>1, BlockFound DEF BlockEnds
    <3>2. SubSeq(s, 1, n) \in Seq(Token)
      BY <2>1, <3>1
    <3>3. ParseLine(line).verify_required <=> OptionsHaveVerifyRequired(SubSeq(s, 1, n))
      BY <2>2, <3>1 DEF ParseLine, ParseAuthorizedKeyLine, Skipped, s
    <3> QED
      BY <2>2, <3>2, <3>3, OptionFound
  <2> QED
    BY <2>2 DEF OptionRead, s
<1> QED
  BY <1>1, AlwaysTyped, PTL
=============================================================================
