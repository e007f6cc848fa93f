-------------------------- MODULE ModuleArgs_proofs --------------------------
(* The theorems of ModuleArgs: the loop over the arguments, for lists of any *)
(* length and for values of any form.                                        *)
EXTENDS ModuleArgs, Recursion, TLAPS

\* The settings are named.
LEMMA Fields ==
  DOMAIN Defaults = {"file", "socket", "strict_modes", "max_attempts", "verify_required"}
BY DEF Defaults

\* The invariant holds before the first argument is read.
LEMMA SettledInit == Init => SettledSoFar
BY Fields, ListsAssumption DEF Init, SettledSoFar, Settled, Named

\* A step that gives the field its argument names one of the meanings of that
\* argument keeps the invariant: the field's last argument is now this one,
\* and no other field's is.
LEMMA SetStep ==
  ASSUME SettledSoFar, NEW field \in DOMAIN Defaults, NEW value,
         Reads(field), value \in Meanings[args[at]], Set(field, value)
  PROVE  SettledSoFar'
<1>. USE DEF SettledSoFar, Set, Reads
<1>1. at \in Nat /\ at \in DOMAIN args /\ Len(args) \in Nat /\ at' = at + 1 /\ args' = args
  OBVIOUS
<1>2. DOMAIN config' = DOMAIN Defaults
  OBVIOUS
<1>3. ASSUME NEW f \in DOMAIN Defaults, NEW n, n = at PROVE Settled(f, n)'
  <2>1. CASE f = field
    <3>1. at \in Named(f, n) /\ \A j \in Named(f, n) : j <= at
      BY <1>1, <1>3, <2>1 DEF Named
    <3>2. config'[f] \in Meanings[args[at]]
      BY <2>1
    <3>. QED BY <3>1, <3>2, <1>1, <1>3 DEF Settled, Named
  <2>2. CASE f # field
    <3>1. Named(f, n) = Named(f, n - 1)
      BY <1>1, <1>3, <2>2 DEF Named
    <3>2. config'[f] = config[f]
      BY <2>2
    <3>3. Settled(f, n - 1)
      BY <1>3
    <3>4. Settled(f, n)
      BY <3>1, <3>3 DEF Settled
    <3>5. Named(f, n)' = Named(f, n)
      BY <1>1 DEF Named
    <3>6. CASE Named(f, n) = {}
      BY <3>2, <3>4, <3>5, <3>6 DEF Settled
    <3>7. CASE Named(f, n) # {}
      <4>1. PICK i \in Named(f, n) : /\ \A j \in Named(f, n) : j <= i
                                     /\ config[f] \in Meanings[args[i]]
        BY <3>4, <3>7 DEF Settled
      <4>. QED BY <4>1, <3>2, <3>5, <3>7, <1>1 DEF Settled
    <3>. QED BY <3>6, <3>7
  <2>. QED BY <2>1, <2>2
<1>4. \A f \in DOMAIN Defaults : Settled(f, at - 1)'
  BY <1>1, <1>3
<1>5. \A i \in 1 .. at : Meanings[args[i]] # {}
  BY <1>1
<1>. QED BY <1>1, <1>2, <1>4, <1>5

\* The argument that is read is one.
LEMMA ReadsArg ==
  ASSUME SettledSoFar, NEW name, Reads(name)
  PROVE  args[at] \in Arg /\ args[at].name = name /\ at <= Len(args) /\ outcome = "pending"
BY DEF SettledSoFar, Reads

\* So does a step that rejects an argument without meaning.
LEMMA RejectStep ==
  ASSUME SettledSoFar, outcome = "pending", at <= Len(args), Meanings[args[at]] = {}, Reject
  PROVE  SettledSoFar'
<1>1. UNCHANGED <<args, at, config>> /\ outcome' = "invalid"
  BY DEF Reject
<1>2. \A f \in DOMAIN Defaults : Settled(f, at - 1)'
  BY <1>1 DEF SettledSoFar, Settled, Named
<1>. QED BY <1>1, <1>2 DEF SettledSoFar

\* Every step keeps the invariant.
LEMMA SettledNext == SettledSoFar /\ [Next]_vars => SettledSoFar'
<1>. SUFFICES ASSUME SettledSoFar, [Next]_vars PROVE SettledSoFar'
  OBVIOUS
<1>1. CASE SetFile
  <2>1. Reads("file") /\ Set("file", args[at].value)
    BY <1>1 DEF SetFile
  <2>2. args[at].value \in Meanings[args[at]]
    BY <2>1, ReadsArg DEF Meanings
  <2>. QED BY <2>1, <2>2, SetStep, Fields
<1>2. CASE SetSocket
  <2>1. Reads("socket") /\ Set("socket", {args[at].value})
    BY <1>2 DEF SetSocket
  <2>2. {args[at].value} \in Meanings[args[at]]
    BY <2>1, ReadsArg DEF Meanings
  <2>. QED BY <2>1, <2>2, SetStep, Fields
<1>3. CASE SetMaxAttempts
  <2>1. PICK n \in ParseUsize(args[at].value) \ {0} :
               Reads("max_attempts") /\ Set("max_attempts", n)
    BY <1>3 DEF SetMaxAttempts
  <2>2. n \in Meanings[args[at]]
    BY <2>1, ReadsArg DEF Meanings
  <2>. QED BY <2>1, <2>2, SetStep, Fields
<1>4. CASE BadMaxAttempts
  BY <1>4, ReadsArg, RejectStep DEF BadMaxAttempts, Meanings
<1>5. CASE Unknown
  BY <1>5, ReadsArg, RejectStep DEF Unknown, Meanings
<1>6. ASSUME NEW name \in {"strict_modes", "verify_required"}, SetFlag(name)
      PROVE  SettledSoFar'
  BY <1>6, SetStep, Fields, ReadsArg DEF SetFlag, Meanings
<1>7. ASSUME NEW name \in {"strict_modes", "verify_required"}, BadFlag(name)
      PROVE  SettledSoFar'
  BY <1>7, ReadsArg, RejectStep DEF BadFlag, Meanings
<1>8. CASE Finish
  <2>1. UNCHANGED <<args, at, config>> /\ outcome' = "ok" /\ at > Len(args)
    BY <1>8 DEF Finish
  <2>2. \A f \in DOMAIN Defaults : Settled(f, at - 1)'
    BY <2>1 DEF SettledSoFar, Settled, Named
  <2>. QED BY <2>1, <2>2 DEF SettledSoFar
<1>9. CASE UNCHANGED vars
  <2>1. args' = args /\ at' = at /\ config' = config /\ outcome' = outcome
    BY <1>9 DEF vars
  <2>2. ASSUME NEW f \in DOMAIN Defaults PROVE Settled(f, at - 1)'
    <3>1. Settled(f, at - 1)
      BY DEF SettledSoFar
    <3> QED
      BY <2>1, <3>1 DEF Settled, Named
  <2>3. args' \in Seq(Arg) /\ at' \in 1 .. Len(args') + 1 /\ DOMAIN config' = DOMAIN Defaults
    BY <2>1 DEF SettledSoFar
  <2>4. /\ \A i \in 1 .. at' - 1 : Meanings[args'[i]] # {}
        /\ outcome' = "ok" => at' = Len(args') + 1
        /\ outcome' = "invalid" => at' <= Len(args') /\ Meanings[args'[at']] = {}
    BY <2>1, Zenon DEF SettledSoFar
  <2>. QED BY <2>2, <2>3, <2>4, Zenon DEF SettledSoFar
<1>. QED BY <1>1, <1>2, <1>3, <1>4, <1>5, <1>6, <1>7, <1>8, <1>9 DEF Next

\* The loop invariant: after each argument, every setting is that of the last
\* argument read for it, and all arguments read mean something.
THEOREM LoopInvariant == Spec => []SettledSoFar
BY SettledInit, SettledNext, PTL DEF Spec

\* The settings the hook runs with are those of the last argument for each.
THEOREM OverlayHolds == Spec => []LastWins
<1>1. SettledSoFar => LastWins
  BY DEF SettledSoFar, LastWins
<1>. QED BY <1>1, LoopInvariant, PTL

\* A list is refused exactly when one of its arguments means nothing.
THEOREM TyposRefused == Spec => []NothingDropped
<1>1. SettledSoFar => NothingDropped
  BY DEF SettledSoFar, NothingDropped
<1>. QED BY <1>1, LoopInvariant, PTL
-----------------------------------------------------------------------------
(* Numbers.  The digits of a number are read from the first to the last, and *)
(* what they say is stated from the last to the first.                       *)

LEMMA CutRecord ==
  ASSUME NEW n \in Nat, NEW m \in Nat
  PROVE  /\ Cut(n, m) \in [0 .. m -> Nat]
         /\ Cut(n, m)[0] = n
         /\ \A j \in 1 .. m : Cut(n, m)[j] = Cut(n, m)[j - 1] \div 10
<1> DEFINE step == [x \in Nat \X (1 .. m) |-> x[1] \div 10]
           Turn(cut) == [j \in 0 .. m |-> IF j = 0 THEN n ELSE cut[j - 1] \div 10]
<1>1. \A v \in Nat : v \div 10 \in Nat
  OBVIOUS
<1>2. step \in [Nat \X (1 .. m) -> Nat]
  BY <1>1
<1>3. \A v \in Nat, j \in 1 .. m : step[<<v, j>>] = v \div 10
  OBVIOUS
<1> HIDE DEF step
<1>4. PICK g \in [0 .. m -> Nat] : Records(g, m, n, step)
  BY <1>2, LoopRecord
<1>5. g[0] = n /\ \A j \in 1 .. m : g[j] = g[j - 1] \div 10
  <2>1. ASSUME NEW j \in 1 .. m PROVE g[j] = g[j - 1] \div 10
    <3>1. g[j - 1] \in Nat
      OBVIOUS
    <3> QED
      BY <1>3, <1>4, <3>1 DEF Records
  <2> QED
    BY <1>4, <2>1 DEF Records
<1>6. g = Turn(g)
  BY <1>5
<1> HIDE DEF Turn
<1>7. \E cut : cut = Turn(cut)
  BY <1>6
<1>8. Cut(n, m) = Turn(Cut(n, m))
  BY <1>7 DEF Cut, Turn
<1>9. Cut(n, m) = [j \in 0 .. m |-> Cut(n, m)[j]]
  BY <1>8 DEF Turn
<1>10. Cut(n, m)[0] = n
  BY <1>8 DEF Turn
<1>11. \A j \in 1 .. m : Cut(n, m)[j] = Cut(n, m)[j - 1] \div 10
  <2> SUFFICES ASSUME NEW j \in 1 .. m PROVE Cut(n, m)[j] = Cut(n, m)[j - 1] \div 10
    OBVIOUS
  <2>1. j # 0 /\ j \in 0 .. m
    OBVIOUS
  <2> QED
    BY <1>8, <2>1 DEF Turn
<1> DEFINE T == {j \in 0 .. m : Cut(n, m)[j] \in Nat}
<1>12. ASSUME NEW j \in 1 .. m, j - 1 \in T PROVE j \in T
  <2>1. Cut(n, m)[j - 1] \in Nat
    BY <1>12
  <2> QED
    BY <1>1, <1>11, <2>1
<1>13. 0 \in T
  BY <1>10
<1> HIDE DEF T
<1>14. 0 .. m \subseteq T
  BY <1>12, <1>13, EveryTurn
<1>15. \A j \in 0 .. m : Cut(n, m)[j] \in Nat
  BY <1>14 DEF T
<1> QED
  BY <1>9, <1>10, <1>11, <1>15

\* Without its last digit, a number is cut to what it was cut to with it.
LEMMA CutShift ==
  ASSUME NEW n \in Nat, NEW m \in Nat \ {0}
  PROVE  \A j \in 1 .. m : Cut(n, m)[j] = Cut(n \div 10, m - 1)[j - 1]
<1> DEFINE T == {j \in 0 .. m - 1 : Cut(n, m)[j + 1] = Cut(n \div 10, m - 1)[j]}
<1>1. n \div 10 \in Nat /\ m - 1 \in Nat
  OBVIOUS
<1>2. Cut(n, m)[0] = n /\ \A j \in 1 .. m : Cut(n, m)[j] = Cut(n, m)[j - 1] \div 10
  BY CutRecord
<1>3. /\ Cut(n \div 10, m - 1)[0] = n \div 10
      /\ \A j \in 1 .. m - 1 : Cut(n \div 10, m - 1)[j] = Cut(n \div 10, m - 1)[j - 1] \div 10
  BY <1>1, CutRecord
<1>4. 0 \in T
  BY <1>1, <1>2, <1>3
<1>5. ASSUME NEW j \in 1 .. m - 1, j - 1 \in T PROVE j \in T
  <2>1. j + 1 \in 1 .. m /\ (j + 1) - 1 = j /\ (j - 1) + 1 = j
    OBVIOUS
  <2>2. Cut(n, m)[j + 1] = Cut(n, m)[j] \div 10
    BY <1>2, <2>1
  <2>3. Cut(n, m)[j] = Cut(n \div 10, m - 1)[j - 1]
    BY <1>5, <2>1
  <2> QED
    BY <1>3, <2>2, <2>3
<1> HIDE DEF T
<1>6. 0 .. m - 1 \subseteq T
  BY <1>1, <1>4, <1>5, EveryTurn
<1> QED
  <2> SUFFICES ASSUME NEW j \in 1 .. m PROVE Cut(n, m)[j] = Cut(n \div 10, m - 1)[j - 1]
    OBVIOUS
  <2>1. j - 1 \in T /\ (j - 1) + 1 = j
    BY <1>6
  <2> QED
    BY <2>1 DEF T

\* The first m digits of a number, read one by one, stand for the numbers
\* within the limit that are cut to them.
Prefix(digits, n, m) ==
  /\ Cut(n, m)[m] = 0
  /\ \A j \in 0 .. m - 1 : Digits[(Cut(n, m)[j] % 10) + 1] = digits[m - j]

LEMMA PrefixNext ==
  ASSUME NEW digits, NEW n \in Nat, NEW m \in Nat \ {0}
  PROVE  Prefix(digits, n, m) <=>
           Prefix(digits, n \div 10, m - 1) /\ Digits[(n % 10) + 1] = digits[m]
<1> DEFINE Is(c, d) == Digits[(c % 10) + 1] = d
           long == Cut(n, m)
           short == Cut(n \div 10, m - 1)
<1>1. long[0] = n
  BY CutRecord
<1>2. \A j \in 1 .. m : long[j] = short[j - 1]
  BY CutShift
<1> HIDE DEF Is, long, short
<1>3. ASSUME \A j \in 0 .. m - 1 : Is(long[j], digits[m - j])
      PROVE  Is(n, digits[m]) /\ \A j \in 0 .. m - 1 - 1 : Is(short[j], digits[m - 1 - j])
  <2>1. 0 \in 0 .. m - 1 /\ m - 0 = m
    OBVIOUS
  <2>2. Is(n, digits[m])
    BY <1>1, <1>3, <2>1
  <2>3. ASSUME NEW j \in 0 .. m - 1 - 1 PROVE Is(short[j], digits[m - 1 - j])
    <3>1. j + 1 \in 0 .. m - 1 /\ j + 1 \in 1 .. m /\ (j + 1) - 1 = j /\ m - (j + 1) = m - 1 - j
      OBVIOUS
    <3> QED
      BY <1>2, <1>3, <3>1
  <2> QED
    BY <2>2, <2>3
<1>4. ASSUME Is(n, digits[m]), \A j \in 0 .. m - 1 - 1 : Is(short[j], digits[m - 1 - j])
      PROVE  \A j \in 0 .. m - 1 : Is(long[j], digits[m - j])
  <2> SUFFICES ASSUME NEW j \in 0 .. m - 1 PROVE Is(long[j], digits[m - j])
    OBVIOUS
  <2>1. CASE j = 0
    <3>1. m - j = m
      BY <2>1
    <3> QED
      BY <1>1, <1>4, <2>1, <3>1
  <2>2. CASE j # 0
    <3>1. j - 1 \in 0 .. m - 1 - 1 /\ j \in 1 .. m /\ m - 1 - (j - 1) = m - j
      BY <2>2
    <3> QED
      BY <1>2, <1>4, <3>1
  <2> QED
    BY <2>1, <2>2
<1>5. long[m] = short[m - 1]
  BY <1>2
<1> QED
  BY <1>3, <1>4, <1>5 DEF Prefix, Is, long, short

LEMMA PrefixStart ==
  ASSUME NEW digits, NEW n \in Nat
  PROVE  Prefix(digits, n, 0) <=> n = 0
<1>1. Cut(n, 0)[0] = n
  BY CutRecord
<1> QED
  BY <1>1 DEF Prefix

\* A number is its last digit and the number without it.
LEMMA LastDigit ==
  /\ \A n \in Nat : n = 10 * (n \div 10) + (n % 10) /\ n % 10 \in 0 .. 9 /\ n \div 10 \in Nat
  /\ \A k \in Nat, d \in 0 .. 9 : (10 * k + d) \div 10 = k /\ (10 * k + d) % 10 = d
OBVIOUS

Fitting == 0 .. MaxUsize

LEMMA DigitRecord ==
  ASSUME NEW digits, Len(digits) \in Nat
  PROVE  /\ DigitScan(digits)[0] = {0}
         /\ \A i \in 1 .. Len(digits) :
              DigitScan(digits)[i] = Push(DigitScan(digits)[i - 1], digits[i])
<1> DEFINE m == Len(digits)
           step == [x \in (SUBSET Fitting) \X (1 .. m) |-> Push(x[1], digits[x[2]])]
           Turn(scan) == [i \in 0 .. Len(digits) |->
                            IF i = 0 THEN {0} ELSE Push(scan[i - 1], digits[i])]
<1>1. {0} \in SUBSET Fitting
  BY DefaultAssumption DEF Fitting
<1>2. \A acc, c : Push(acc, c) \in SUBSET Fitting
  BY DEF Push, Fitting
<1>3. step \in [(SUBSET Fitting) \X (1 .. m) -> SUBSET Fitting]
  BY <1>2
<1>4. \A acc \in SUBSET Fitting, i \in 1 .. m : step[<<acc, i>>] = Push(acc, digits[i])
  OBVIOUS
<1>5. m \in Nat
  OBVIOUS
<1> HIDE DEF step, m
<1>6. PICK g \in [0 .. m -> SUBSET Fitting] : Records(g, m, {0}, step)
  BY <1>1, <1>3, <1>5, LoopRecord
<1>7. ASSUME NEW i \in 1 .. m PROVE g[i] = Push(g[i - 1], digits[i])
  <2>1. g[i - 1] \in SUBSET Fitting
    BY <1>5
  <2> QED
    BY <1>4, <1>6, <2>1 DEF Records
<1>8. g = Turn(g)
  BY <1>5, <1>6, <1>7 DEF m, Records
<1> HIDE DEF Turn
<1>9. \E scan : scan = Turn(scan)
  BY <1>8
<1>10. DigitScan(digits) = Turn(DigitScan(digits))
  BY <1>9 DEF DigitScan, Turn
<1>11. DigitScan(digits)[0] = {0}
  BY <1>5, <1>10 DEF Turn, m
<1>12. ASSUME NEW i \in 1 .. m
       PROVE  DigitScan(digits)[i] = Push(DigitScan(digits)[i - 1], digits[i])
  <2>1. i # 0 /\ i \in 0 .. m
    BY <1>5
  <2> QED
    BY <1>10, <2>1 DEF Turn, m
<1> QED
  BY <1>11, <1>12 DEF m

LEMMA DigitsRead ==
  ASSUME NEW digits, Len(digits) \in Nat
  PROVE  DigitScan(digits)[Len(digits)] = {n \in Fitting : Prefix(digits, n, Len(digits))}
<1> DEFINE m == Len(digits)
           scan == DigitScan(digits)
           T == {i \in 0 .. m : scan[i] = {n \in Fitting : Prefix(digits, n, i)}}
<1>1. m \in Nat /\ scan[0] = {0} /\ \A i \in 1 .. m : scan[i] = Push(scan[i - 1], digits[i])
  BY DigitRecord
<1> HIDE DEF m, scan
<1>2. 0 \in Fitting /\ Fitting \subseteq Nat /\ \A n \in Fitting : \A k \in 0 .. n : k \in Fitting
  BY DefaultAssumption DEF Fitting
<1>3. 0 \in T
  <2>1. \A n \in Fitting : Prefix(digits, n, 0) <=> n = 0
    BY <1>2, PrefixStart
  <2>2. scan[0] = {n \in Fitting : Prefix(digits, n, 0)}
    BY <1>1, <1>2, <2>1
  <2> QED
    BY <1>1, <2>2
<1>4. ASSUME NEW i \in 1 .. m, i - 1 \in T PROVE i \in T
  <2> DEFINE c == digits[i]
  <2>1. \A n \in Nat : Prefix(digits, n, i) <=>
                          Prefix(digits, n \div 10, i - 1) /\ Digits[(n % 10) + 1] = c
    BY PrefixNext
  <2>2. \A n : n \in scan[i - 1] <=> n \in Fitting /\ Prefix(digits, n, i - 1)
    BY <1>4
  <2>3. scan[i] = {10 * k + d : k \in scan[i - 1], d \in DigitValues(c)} \cap Fitting
    BY <1>1 DEF Push, Fitting
  <2>4. \A d : d \in DigitValues(c) <=> d \in 0 .. 9 /\ Digits[d + 1] = c
    BY DEF DigitValues
  <2> HIDE DEF c
  <2>5. ASSUME NEW n \in scan[i] PROVE n \in Fitting /\ Prefix(digits, n, i)
    <3>1. PICK k \in scan[i - 1], d \in DigitValues(c) : n = 10 * k + d
      BY <2>3
    <3>2. k \in Nat /\ Prefix(digits, k, i - 1)
      BY <1>2, <2>2, <3>1
    <3>3. d \in 0 .. 9 /\ Digits[d + 1] = c
      BY <2>4, <3>1
    <3>4. n \in Fitting /\ n \in Nat
      <4>1. scan[i] \subseteq Fitting
        BY <2>3
      <4> QED
        BY <1>2, <4>1
    <3>5. n \div 10 = k /\ n % 10 = d
      BY <3>1, <3>2, <3>3, LastDigit
    <3> QED
      BY <2>1, <3>2, <3>3, <3>4, <3>5
  <2>6. ASSUME NEW n \in Fitting, Prefix(digits, n, i) PROVE n \in scan[i]
    <3> DEFINE k == n \div 10
               d == n % 10
    <3>1. n \in Nat /\ k \in Nat /\ d \in 0 .. 9 /\ n = 10 * k + d
      BY <1>2, LastDigit
    <3>2. Prefix(digits, k, i - 1) /\ Digits[d + 1] = c
      BY <2>1, <2>6, <3>1
    <3> HIDE DEF k, d
    <3>3. k \in 0 .. n
      BY <3>1
    <3>4. k \in scan[i - 1] /\ d \in DigitValues(c)
      BY <1>2, <2>2, <2>4, <3>1, <3>2, <3>3
    <3> QED
      BY <2>3, <3>1, <3>4
  <2> QED
    BY <2>5, <2>6
<1> HIDE DEF T
<1>5. 0 .. m \subseteq T
  BY <1>1, <1>3, <1>4, EveryTurn
<1>6. m \in T
  BY <1>1, <1>5
<1> QED
  BY <1>6 DEF T, m, scan

\* A value stands for the numbers within the limit that it spells.
LEMMA NumberAsWritten ==
  ASSUME NEW value \in Seq(Token)
  PROVE  ParseUsize(value) = {n \in Fitting : WrittenAs(value, n)}
<1>1. CASE value = <<>>
  <2>1. ParseUsize(value) = {}
    BY <1>1 DEF ParseUsize
  <2>2. \A n : ~WrittenAs(value, n)
    BY <1>1 DEF WrittenAs
  <2> QED
    BY <2>1, <2>2
<1>2. CASE value # <<>> /\ value[1] = "+"
  <2> DEFINE rest == Tail(value)
             m == Len(value) - 1
  <2>1. Len(value) \in Nat \ {0} /\ rest \in Seq(Token) /\ Len(rest) = m /\ m \in Nat
    BY <1>2
  <2>2. \A j \in 0 .. m - 1 : rest[m - j] = value[Len(value) - j]
    BY <2>1
  <2>3. rest = <<>> <=> ~(Len(value) > 1)
    <3>1. rest = <<>> <=> Len(rest) = 0
      BY <2>1
    <3> QED
      BY <2>1, <3>1
  <2>4. \A n : Prefix(rest, n, m) <=> Spells(value, n, m)
    BY <2>2 DEF Prefix, Spells
  <2>5. \A n \in Fitting : ~Spells(value, n, Len(value))
    <3> SUFFICES ASSUME NEW n \in Fitting, Spells(value, n, Len(value)) PROVE FALSE
      OBVIOUS
    <3> DEFINE c == Cut(n, Len(value))[m]
    <3>1. n \in Nat
      BY DefaultAssumption DEF Fitting
    <3>2. m \in 0 .. Len(value) - 1 /\ m \in 0 .. Len(value) /\ Len(value) - m = 1
      BY <2>1
    <3>3. c \in Nat
      BY <2>1, <3>1, <3>2, CutRecord
    <3>4. Digits[(c % 10) + 1] = "+"
      BY <1>2, <3>2 DEF Spells
    <3> HIDE DEF c
    <3>5. c % 10 \in 0 .. 9
      BY <3>3, LastDigit
    <3>6. \A d \in 0 .. 9 : Digits[d + 1] # "+"
      BY DEF Digits
    <3> QED
      BY <3>4, <3>5, <3>6
  <2>6. ParseUsize(value) = IF rest = <<>> THEN {} ELSE DigitScan(rest)[Len(rest)]
    BY <1>2 DEF ParseUsize
  <2> HIDE DEF rest, m
  <2>7. DigitScan(rest)[Len(rest)] = {n \in Fitting : Prefix(rest, n, m)}
    BY <2>1, DigitsRead
  <2>8. \A n \in Fitting : WrittenAs(value, n) <=> rest # <<>> /\ Prefix(rest, n, m)
    BY <1>2, <2>3, <2>4, <2>5 DEF WrittenAs, m
  <2> QED
    BY <2>6, <2>7, <2>8
<1>3. CASE value # <<>> /\ value[1] # "+"
  <2> DEFINE m == Len(value)
  <2>1. ParseUsize(value) = DigitScan(value)[m]
    BY <1>3 DEF ParseUsize
  <2>2. m \in Nat
    OBVIOUS
  <2>3. DigitScan(value)[m] = {n \in Fitting : Prefix(value, n, m)}
    BY <2>2, DigitsRead
  <2>4. \A n : WrittenAs(value, n) <=> Prefix(value, n, m)
    BY <1>3 DEF WrittenAs, Prefix, Spells
  <2> HIDE DEF m
  <2> QED
    BY <2>1, <2>3, <2>4
<1> QED
  BY <1>1, <1>2, <1>3

LEMMA CapMeaning ==
  ASSUME NEW a \in Arg, a.name = "max_attempts"
  PROVE  Meanings[a] = {n \in 1 .. MaxUsize : WrittenAs(a.value, n)}
<1>1. a.value \in Seq(Token)
  BY DEF Arg
<1>2. Meanings[a] = ParseUsize(a.value) \ {0}
  BY DEF Meanings
<1>3. ParseUsize(a.value) = {n \in Fitting : WrittenAs(a.value, n)}
  BY <1>1, NumberAsWritten
<1>4. \A n : n \in Fitting /\ n # 0 <=> n \in 1 .. MaxUsize
  BY DefaultAssumption DEF Fitting
<1> QED
  BY <1>2, <1>3, <1>4

LEMMA CapFits ==
  ASSUME SettledSoFar PROVE config["max_attempts"] \in 1 .. MaxUsize
<1>1. Settled("max_attempts", at - 1)
  BY Fields DEF SettledSoFar
<1>2. CASE Named("max_attempts", at - 1) = {}
  BY <1>1, <1>2, DefaultAssumption DEF Settled, Defaults
<1>3. CASE Named("max_attempts", at - 1) # {}
  <2>1. PICK i \in Named("max_attempts", at - 1) :
               config["max_attempts"] \in Meanings[args[i]]
    BY <1>1, <1>3 DEF Settled
  <2>2. args[i] \in Arg /\ args[i].name = "max_attempts"
    BY DEF SettledSoFar, Named
  <2> QED
    BY <2>1, <2>2, CapMeaning
<1> QED
  BY <1>2, <1>3

\* No list gives a cap of 0, which is what Authenticate assumes of it.
THEOREM CapNeverZero == Spec => [](config.max_attempts # 0)
<1>1. SettledSoFar => config.max_attempts # 0
  BY CapFits
<1> QED
  BY <1>1, LoopInvariant, PTL

\* However many digits are written: the cap is the number they spell, and a
\* number beyond usize is refused instead of cut to another (parse_args).
THEOREM CapIsWritten == Spec => []CapAsWritten
<1>1. ASSUME SettledSoFar PROVE CapAsWritten
  <2>1. ASSUME NEW i \in DOMAIN args PROVE args[i] \in Arg
    BY <1>1 DEF SettledSoFar
  <2> QED
    BY <1>1, <2>1, CapMeaning, CapFits DEF CapAsWritten
<1> QED
  BY <1>1, LoopInvariant, PTL
=============================================================================
