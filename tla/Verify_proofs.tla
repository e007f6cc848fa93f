---------------------------- MODULE Verify_proofs ----------------------------
(* For fields of any kind and any length: the readers of a key blob agree, a *)
(* signature that verifies has one encoding, every genuine one verifies, and *)
(* none but a whole one is recognised under the plain algorithm.             *)
EXTENDS Verify, Recursion, SequenceTheorems

\* A string that ReadSshBytes reads, within its limit, is read by the readers
\* without a limit too, and leaves the same rest.
LEMMA SameString ==
  ASSUME NEW buf \in Seq(Nat), ReadSshBytes[buf].err = "none"
  PROVE  /\ ReadBytes(buf) = ReadSshBytes[buf]
         /\ FirstString(buf).err = "none" /\ FirstString(buf).val = ReadSshBytes[buf].val
         /\ ReadSshBytes[buf].rest \in Seq(Nat)
<1> DEFINE n == Head(buf)
           rest == Tail(buf)
<1>1. buf # <<>>
  BY DEF ReadSshBytes, ReadU32, Err
<1>2. ReadU32(buf) = Got(n, rest)
  BY <1>1 DEF ReadU32
<1>3. n \in Nat /\ rest \in Seq(Nat) /\ Len(rest) \in Nat
  BY <1>1
<1> HIDE DEF n, rest
<1>4. /\ ~(Len(rest) < n)
      /\ ReadSshBytes[buf] = Got(SubSeq(rest, 1, n), SubSeq(rest, n + 1, Len(rest)))
  <2>1. ReadU32(buf).err = "none" /\ ReadU32(buf).val = n /\ ReadU32(buf).rest = rest
    BY <1>2 DEF Got
  <2>2. ReadSshBytes[buf] =
          IF n > MaxString THEN Err("InvalidData")
          ELSE IF Len(rest) < n THEN Err("UnexpectedEof")
          ELSE Got(SubSeq(rest, 1, n), SubSeq(rest, n + 1, Len(rest)))
    BY <2>1 DEF ReadSshBytes
  <2>3. Err("InvalidData").err # "none" /\ Err("UnexpectedEof").err # "none"
    BY DEF Err
  <2> QED
    BY <2>2, <2>3
<1>5. ReadBytes(buf) = Got(SubSeq(rest, 1, n), SubSeq(rest, n + 1, Len(rest)))
  BY <1>2, <1>4 DEF ReadBytes, Got
<1>6. FirstString(buf) = Got(SubSeq(rest, 1, n), <<>>)
  BY <1>2, <1>4 DEF FirstString, Got
<1>7. SubSeq(rest, n + 1, Len(rest)) \in Seq(Nat)
  BY <1>3, <1>4
<1>8. /\ ReadSshBytes[buf].val = SubSeq(rest, 1, n)
      /\ ReadSshBytes[buf].rest = SubSeq(rest, n + 1, Len(rest))
      /\ FirstString(buf).err = "none" /\ FirstString(buf).val = SubSeq(rest, 1, n)
  <2> DEFINE x == SubSeq(rest, 1, n)
             y == SubSeq(rest, n + 1, Len(rest))
  <2>1. ReadSshBytes[buf] = Got(x, y) /\ FirstString(buf) = Got(x, <<>>)
    BY <1>4, <1>6
  <2> HIDE DEF x, y
  <2>2. /\ ReadSshBytes[buf].val = x /\ ReadSshBytes[buf].rest = y
        /\ FirstString(buf).err = "none" /\ FirstString(buf).val = x
    BY <2>1 DEF Got
  <2> QED
    BY <2>2 DEF x, y
<1> QED
  BY <1>4, <1>5, <1>7, <1>8

\* A failed read leaves nothing to read.
LEMMA FailedRead ==
  ASSUME NEW buf \in Seq(Nat), ReadSshBytes[buf].err # "none"
  PROVE  ReadSshBytes[ReadSshBytes[buf].rest].err # "none" /\ ReadSshBytes[buf].rest = <<>>
<1>1. ReadSshBytes[buf].rest = <<>>
  BY DEF ReadSshBytes, ReadU32, Got, Err
<1>2. <<>> \in Seq(Nat) /\ ReadSshBytes[<<>>].err # "none"
  BY DEF ReadSshBytes, ReadU32, Err
<1> QED
  BY <1>1, <1>2

LEMMA RecordOf ==
  \A buf \in Seq(Nat) : ReadSshBytes[buf] =
    [err |-> ReadSshBytes[buf].err, val |-> ReadSshBytes[buf].val, rest |-> ReadSshBytes[buf].rest]
  BY DEF ReadSshBytes, ReadU32, Got, Err

\* A key that the file may hold: its strings, one by one, are all there.
LEMMA KeyStrings ==
  ASSUME NEW blob \in Seq(Nat), ParseWebauthnKeyBlob(blob).err = "none"
  PROVE  LET algo        == ReadSshBytes[blob]
             curve       == ReadSshBytes[algo.rest]
             ec_point    == ReadSshBytes[curve.rest]
             application == ReadSshBytes[ec_point.rest]
         IN  /\ algo.err = "none" /\ curve.err = "none"
             /\ ec_point.err = "none" /\ application.err = "none"
             /\ algo.rest \in Seq(Nat) /\ curve.rest \in Seq(Nat) /\ ec_point.rest \in Seq(Nat)
             /\ algo.val = <<Algo>> /\ IsUtf8(application.val)
             /\ ParseWebauthnKeyBlob(blob).val =
                  [ec_point |-> ec_point.val, application |-> application.val]
<1> DEFINE algo        == ReadSshBytes[blob]
           curve       == ReadSshBytes[algo.rest]
           ec_point    == ReadSshBytes[curve.rest]
           application == ReadSshBytes[ec_point.rest]
<1>1. /\ application.err = "none" /\ algo.val = <<Algo>> /\ IsUtf8(application.val)
      /\ ParseWebauthnKeyBlob(blob).val =
           [ec_point |-> ec_point.val, application |-> application.val]
  BY DEF ParseWebauthnKeyBlob, Got, Err
<1>2. \A buf \in Seq(Nat) : ReadSshBytes[buf].rest \in Seq(Nat)
  <2> SUFFICES ASSUME NEW buf \in Seq(Nat) PROVE ReadSshBytes[buf].rest \in Seq(Nat)
    OBVIOUS
  <2>1. CASE ReadSshBytes[buf].err = "none"
    BY <2>1, SameString
  <2>2. CASE ReadSshBytes[buf].err # "none"
    <3>1. ReadSshBytes[buf].rest = <<>>
      BY <2>2, FailedRead
    <3> QED
      BY <3>1
  <2> QED
    BY <2>1, <2>2
<1>3. algo.rest \in Seq(Nat) /\ curve.rest \in Seq(Nat) /\ ec_point.rest \in Seq(Nat)
  BY <1>2
<1>4. ec_point.err = "none"
  BY <1>1, <1>3, FailedRead
<1>5. curve.err = "none"
  BY <1>3, <1>4, FailedRead
<1>6. algo.err = "none"
  BY <1>3, <1>5, FailedRead
<1> QED
  BY <1>1, <1>3, <1>4, <1>5, <1>6

\* A blob in a list is read as it is, if it is not too long for a string.
LEMMA EntryRead ==
  ASSUME NEW blob \in Seq(Nat)
  PROVE  ListTakes(blob) = IF Len(blob) > MaxString THEN "InvalidData"
                           ELSE IF IsWebauthnBlob(blob) THEN "listed" ELSE "dropped"
<1> DEFINE n == Len(blob)
           cells == EncodeString(blob)
           entry == ReadSshBytes[cells]
<1>1. n \in Nat /\ MaxString \in Nat
  BY LimitAssumption
<1>2. cells \in Seq(Nat) /\ cells # <<>> /\ Head(cells) = n /\ Tail(cells) = blob
  <2>1. cells = <<n>> \o blob /\ <<n>> \in Seq(Nat)
    BY <1>1 DEF EncodeString
  <2> HIDE DEF cells
  <2>2. cells \in Seq(Nat) /\ cells # <<>> /\ Head(cells) = n /\ Len(Tail(cells)) = Len(blob)
        /\ Tail(cells) \in Seq(Nat) /\ \A i \in 1 .. Len(blob) : Tail(cells)[i] = blob[i]
    BY <1>1, <2>1
  <2> QED
    BY <2>2, SeqEqual
<1> HIDE DEF n, cells
<1>3. entry = IF n > MaxString THEN Err("InvalidData")
              ELSE IF Len(blob) < n THEN Err("UnexpectedEof")
              ELSE Got(SubSeq(blob, 1, n), SubSeq(blob, n + 1, Len(blob)))
  BY <1>2 DEF ReadSshBytes, ReadU32, Got
<1>4. ~(Len(blob) < n) /\ SubSeq(blob, 1, n) = blob
  BY <1>1 DEF n
<1>5. CASE n > MaxString
  BY <1>3, <1>5 DEF ListTakes, Err, n, cells
<1>6. CASE ~(n > MaxString)
  <2>1. entry.err = "none" /\ entry.val = blob
    BY <1>3, <1>4, <1>6 DEF Got
  <2> QED
    BY <1>6, <2>1 DEF ListTakes, n, cells
<1> QED
  BY <1>5, <1>6

\* Every key the file may hold is shown as it is, and listed if a list has room.
LEMMA OneKeyThreeReaders ==
  ASSUME NEW blob \in Seq(Nat), ParseWebauthnKeyBlob(blob).err = "none"
  PROVE  /\ ListTakes(blob) = IF Len(blob) <= MaxString THEN "listed" ELSE "InvalidData"
         /\ Show(blob).algo.val = <<Algo>>
         /\ \A f \in {"ec_point", "application"} :
              /\ Show(blob)[f].err = "none"
              /\ Show(blob)[f].val = ParseWebauthnKeyBlob(blob).val[f]
<1> DEFINE algo        == ReadSshBytes[blob]
           curve       == ReadSshBytes[algo.rest]
           ec_point    == ReadSshBytes[curve.rest]
           application == ReadSshBytes[ec_point.rest]
<1>1. /\ algo.err = "none" /\ curve.err = "none"
      /\ ec_point.err = "none" /\ application.err = "none"
      /\ algo.rest \in Seq(Nat) /\ curve.rest \in Seq(Nat) /\ ec_point.rest \in Seq(Nat)
      /\ algo.val = <<Algo>> /\ IsUtf8(application.val)
      /\ ParseWebauthnKeyBlob(blob).val =
           [ec_point |-> ec_point.val, application |-> application.val]
  BY KeyStrings
<1>2. /\ ReadBytes(blob) = algo /\ ReadBytes(algo.rest) = curve
      /\ ReadBytes(curve.rest) = ec_point /\ ReadBytes(ec_point.rest) = application
      /\ FirstString(blob).err = "none" /\ FirstString(blob).val = algo.val
  BY <1>1, SameString
<1> HIDE DEF algo, curve, ec_point, application
<1>3. algo = [err |-> "none", val |-> algo.val, rest |-> algo.rest]
      /\ curve = [err |-> "none", val |-> curve.val, rest |-> curve.rest]
  BY <1>1, RecordOf DEF algo, curve
<1>4. ReadString(blob).rest = algo.rest /\ ReadString(blob).val = algo.val
  BY <1>2, <1>3 DEF ReadString
<1>5. ReadString(algo.rest).rest = curve.rest
  BY <1>2, <1>3 DEF ReadString
<1>6. ReadString(ec_point.rest) = application
  BY <1>1, <1>2 DEF ReadString
<1>7. Show(blob) = [algo |-> ReadString(blob), curve |-> ReadString(algo.rest),
                    ec_point |-> ec_point, application |-> application]
  BY <1>2, <1>4, <1>5, <1>6 DEF Show
<1>8. ListTakes(blob) = IF Len(blob) <= MaxString THEN "listed" ELSE "InvalidData"
  <2>1. IsWebauthnBlob(blob)
    BY <1>1, <1>2 DEF IsWebauthnBlob
  <2>2. Len(blob) \in Nat /\ MaxString \in Nat
    BY LimitAssumption
  <2> QED
    BY <2>1, <2>2, EntryRead
<1> QED
  BY <1>1, <1>4, <1>7, <1>8
-----------------------------------------------------------------------------
LEMMA CellsInit == Init => kind \in DOMAIN Field /\ raw \in Seq(Nat) /\ part \in Nat
  BY DEF Init

LEMMA CellsStep ==
  ASSUME kind \in DOMAIN Field, raw \in Seq(Nat), part \in Nat, Next
  PROVE  kind' \in DOMAIN Field /\ raw' \in Seq(Nat) /\ part' \in Nat
<1>1. PICK cells \in Field[kind][part + 1] : Put(cells)
  BY DEF Next
<1>2. Field[kind] \in Seq(SUBSET Seq(Nat)) /\ part + 1 \in 1 .. Len(Field[kind])
  BY FieldAssumption DEF Next
<1>3. cells \in Seq(Nat)
  BY <1>1, <1>2
<1> QED
  BY <1>1, <1>3 DEF Put

\* The readers agree on every key, whatever is put together and however long:
\* one the file takes is shown as it is, and listed unless a list cannot hold it.
THEOREM KeyReadersAgree == Spec => []ReadersAgree
<1> DEFINE Cells == kind \in DOMAIN Field /\ raw \in Seq(Nat) /\ part \in Nat
<1>1. Cells /\ [Next]_vars => Cells'
  BY CellsStep DEF vars
<1>2. Cells => ReadersAgree
  BY OneKeyThreeReaders DEF ReadersAgree
<1> QED
  BY CellsInit, <1>1, <1>2, PTL DEF Spec

\* Whoever asks is_webauthn_signature first loses no signature that verifies.
THEOREM VerifiedIsRecognised ==
  \A blob \in Seq(Nat) : VerifyWebauthnSk(blob) => IsWebauthnSignature(blob)
<1> SUFFICES ASSUME NEW blob \in Seq(Nat), VerifyWebauthnSk(blob)
             PROVE  IsWebauthnSignature(blob)
  OBVIOUS
<1>1. ParseWebauthnSignature(blob).err = "none"
  BY DEF VerifyWebauthnSk
<1>2. ReadSshBytes[blob].val \in {<<Algo>>, <<SkAlgo>>}
  BY <1>1 DEF ParseWebauthnSignature, Err
<1>3. ReadSshBytes[blob].err = "none"
  <2>1. ReadSshBytes[blob].err # "none" => ReadSshBytes[blob].val = <<>>
    BY DEF ReadSshBytes, ReadU32, Got, Err
  <2>2. <<Algo>> # <<>> /\ <<SkAlgo>> # <<>>
    OBVIOUS
  <2> QED
    BY <1>2, <2>1, <2>2, Zenon
<1>4. FirstString(blob).err = "none" /\ FirstString(blob).val = ReadSshBytes[blob].val
  BY <1>3, SameString
<1> QED
  BY <1>1, <1>2, <1>4 DEF IsWebauthnSignature
-----------------------------------------------------------------------------
(* Numbers and their bytes.                                                  *)

Byte == 0 .. 255

LEMMA BytesAreCells ==
  ASSUME NEW b \in Seq(Byte)
  PROVE  b \in Seq(Nat) /\ \A i \in 1 .. Len(b) : b[i] \in Byte /\ b[i] \in Nat
<1>1. Len(b) \in Nat /\ b \in [1 .. Len(b) -> Byte]
  BY LenProperties
<1>2. Byte \subseteq Nat
  BY DEF Byte
<1>3. b \in [1 .. Len(b) -> Nat]
  BY <1>1, <1>2
<1> QED
  BY <1>1, <1>2, <1>3

LEMMA LastByte ==
  ASSUME NEW n \in Nat
  PROVE  n \div 256 \in Nat /\ n % 256 \in Byte /\ 256 * (n \div 256) + (n % 256) = n
<1>1. n \div 256 \in Nat
  OBVIOUS
<1>2. n % 256 \in Byte
  BY DEF Byte
<1>3. 256 * (n \div 256) + (n % 256) = n
  OBVIOUS
<1> QED
  BY <1>1, <1>2, <1>3

Undone(n, b) == (256 * n + b) \div 256 = n /\ (256 * n + b) % 256 = b

LEMMA OneMoreByte ==
  ASSUME NEW n \in Nat, NEW b \in Byte
  PROVE  Undone(n, b)
<1> DEFINE x == 256 * n + b
           q == x \div 256
           r == x % 256
<1>1. x \in Nat /\ b \in Nat /\ b <= 255
  BY DEF Byte
<1> HIDE DEF x
<1>2. q \in Nat /\ r \in Nat /\ r <= 255 /\ 256 * q + r = x
  BY <1>1, LastByte DEF Byte
<1> HIDE DEF q, r
<1>3. 256 * q + r = 256 * n + b
  BY <1>2 DEF x
<1>4. q = n
  BY <1>1, <1>2, <1>3
<1>5. r = b
  BY <1>1, <1>2, <1>3, <1>4
<1> QED
  BY <1>4, <1>5 DEF q, r, x, Undone

FirstRecord(b) ==
  /\ FirstBytes(b) \in [0 .. Len(b) -> Nat]
  /\ FirstBytes(b)[0] = 0
  /\ \A i \in 1 .. Len(b) : FirstBytes(b)[i] = 256 * FirstBytes(b)[i - 1] + b[i]

LEMMA FirstBytesRecord ==
  ASSUME NEW b \in Seq(Nat)
  PROVE  FirstRecord(b)
<1> DEFINE m == Len(b)
           rec == FirstBytes(b)
           step == [x \in Nat \X (1 .. m) |-> 256 * x[1] + b[x[2]]]
           Turn(f) == [i \in 0 .. m |-> IF i = 0 THEN 0 ELSE 256 * f[i - 1] + b[i]]
<1>1. m \in Nat /\ \A i \in 1 .. m : b[i] \in Nat
  OBVIOUS
<1>2. \A x \in Nat, i \in 1 .. m : step[<<x, i>>] = 256 * x + b[i] /\ 256 * x + b[i] \in Nat
  BY <1>1
<1>3. step \in [Nat \X (1 .. m) -> Nat]
  BY <1>1
<1> HIDE DEF step, m
<1>4. PICK g \in [0 .. m -> Nat] : Records(g, m, 0, step)
  BY <1>1, <1>3, LoopRecord
<1>5. g[0] = 0 /\ \A i \in 1 .. m : g[i] = 256 * g[i - 1] + b[i]
  <2>1. ASSUME NEW i \in 1 .. m PROVE g[i] = 256 * g[i - 1] + b[i]
    <3>1. g[i - 1] \in Nat
      BY <1>1
    <3>2. g[i] = step[<<g[i - 1], i>>]
      BY <1>4 DEF Records
    <3> QED
      BY <1>2, <3>1, <3>2
  <2> QED
    BY <1>4, <2>1 DEF Records
<1>6. g = Turn(g)
  BY <1>1, <1>5
<1> HIDE DEF Turn
<1>7. \E f : f = Turn(f)
  BY <1>6
<1>8. rec = Turn(rec)
  BY <1>7 DEF FirstBytes, Turn, m
<1> HIDE DEF rec
<1>9. rec = [i \in 0 .. m |-> rec[i]]
  BY <1>8 DEF Turn
<1>10. rec[0] = 0
  BY <1>1, <1>8 DEF Turn
<1>11. \A i \in 1 .. m : rec[i] = 256 * rec[i - 1] + b[i]
  BY <1>1, <1>8 DEF Turn
<1> DEFINE T == {i \in 0 .. m : rec[i] \in Nat}
<1>12. 0 \in T
  BY <1>1, <1>10
<1>13. ASSUME NEW i \in 1 .. m, i - 1 \in T PROVE i \in T
  <2>1. rec[i - 1] \in Nat /\ i \in 0 .. m /\ b[i] \in Nat
    BY <1>1, <1>13
  <2>2. rec[i] \in Nat
    BY <1>11, <2>1
  <2> QED
    BY <2>1, <2>2
<1> HIDE DEF T
<1>14. 0 .. m \subseteq T
  BY <1>1, <1>12, <1>13, EveryTurn
<1>15. rec \in [0 .. m -> Nat]
  BY <1>9, <1>14 DEF T
<1> QED
  BY <1>10, <1>11, <1>15 DEF rec, m, FirstRecord

LEMMA HighBytesRecord ==
  ASSUME NEW n \in Nat
  PROVE  /\ HighBytes(n) \in [0 .. FieldSize -> Nat]
         /\ HighBytes(n)[0] = n
         /\ \A k \in 1 .. FieldSize : HighBytes(n)[k] = HighBytes(n)[k - 1] \div 256
<1> DEFINE rec == HighBytes(n)
           step == [x \in Nat \X (1 .. FieldSize) |-> x[1] \div 256]
           Turn(f) == [k \in 0 .. FieldSize |-> IF k = 0 THEN n ELSE f[k - 1] \div 256]
<1>1. FieldSize \in Nat
  BY OrderAssumption
<1>2. \A x \in Nat, k \in 1 .. FieldSize : step[<<x, k>>] = x \div 256
  OBVIOUS
<1>3. \A x \in Nat : x \div 256 \in Nat
  OBVIOUS
<1>4. step \in [Nat \X (1 .. FieldSize) -> Nat]
  BY <1>3
<1> HIDE DEF step
<1>5. PICK g \in [0 .. FieldSize -> Nat] : Records(g, FieldSize, n, step)
  BY <1>1, <1>4, LoopRecord
<1>6. g[0] = n /\ \A k \in 1 .. FieldSize : g[k] = g[k - 1] \div 256
  <2>1. ASSUME NEW k \in 1 .. FieldSize PROVE g[k] = g[k - 1] \div 256
    <3>1. g[k - 1] \in Nat
      BY <1>1
    <3>2. g[k] = step[<<g[k - 1], k>>]
      BY <1>5 DEF Records
    <3> QED
      BY <1>2, <3>1, <3>2
  <2> QED
    BY <1>5, <2>1 DEF Records
<1>7. g = Turn(g)
  BY <1>1, <1>6
<1> HIDE DEF Turn
<1>8. \E f : f = Turn(f)
  BY <1>7
<1>9. rec = Turn(rec)
  BY <1>8 DEF HighBytes, Turn
<1> HIDE DEF rec
<1>10. rec = [k \in 0 .. FieldSize |-> rec[k]]
  BY <1>9 DEF Turn
<1>11. rec[0] = n
  BY <1>1, <1>9 DEF Turn
<1>12. \A k \in 1 .. FieldSize : rec[k] = rec[k - 1] \div 256
  BY <1>1, <1>9 DEF Turn
<1> DEFINE T == {k \in 0 .. FieldSize : rec[k] \in Nat}
<1>13. 0 \in T
  BY <1>1, <1>11
<1>14. ASSUME NEW k \in 1 .. FieldSize, k - 1 \in T PROVE k \in T
  <2>1. rec[k - 1] \in Nat /\ k \in 0 .. FieldSize
    BY <1>1, <1>14
  <2>2. rec[k] \in Nat
    <3> DEFINE x == rec[k - 1]
    <3>1. x \in Nat /\ rec[k] = x \div 256
      BY <1>12, <2>1
    <3> HIDE DEF x
    <3> QED
      BY <1>3, <3>1
  <2> QED
    BY <2>1, <2>2
<1> HIDE DEF T
<1>15. 0 .. FieldSize \subseteq T
  BY <1>1, <1>13, <1>14, EveryTurn
<1>16. rec \in [0 .. FieldSize -> Nat]
  BY <1>10, <1>15 DEF T
<1> QED
  BY <1>11, <1>12, <1>16 DEF rec

\* Without its last k bytes, the number of some bytes is that of the bytes
\* before them.
LEMMA HighAreFirst ==
  ASSUME NEW b \in Seq(Byte), Len(b) <= FieldSize
  PROVE  /\ b \in Seq(Nat) /\ Scalar(b) \in Nat
         /\ \A k \in 0 .. Len(b) : HighBytes(Scalar(b))[k] = FirstBytes(b)[Len(b) - k]
<1> DEFINE m == Len(b)
           first == FirstBytes(b)
           high == HighBytes(Scalar(b))
<1>1. b \in Seq(Nat) /\ m \in Nat /\ \A i \in 1 .. m : b[i] \in Byte
  BY BytesAreCells
<1>2. /\ first \in [0 .. m -> Nat] /\ Scalar(b) = first[m]
      /\ \A i \in 1 .. m : first[i] = 256 * first[i - 1] + b[i]
  <2>1. FirstRecord(b)
    BY <1>1, FirstBytesRecord
  <2> QED
    BY <1>1, <2>1 DEF FirstRecord, Scalar
<1>3. FieldSize \in Nat /\ m <= FieldSize
  BY OrderAssumption
<1> HIDE DEF m, first
<1>4. Scalar(b) \in Nat
  BY <1>1, <1>2
<1>5. high[0] = first[m] /\ \A k \in 1 .. FieldSize : high[k] = high[k - 1] \div 256
  BY <1>2, <1>4, HighBytesRecord
<1> HIDE DEF high
<1> DEFINE T == {k \in 0 .. m : high[k] = first[m - k]}
<1>6. 0 \in T
  BY <1>1, <1>5
<1>7. ASSUME NEW k \in 1 .. m, k - 1 \in T PROVE k \in T
  <2> DEFINE i == m - (k - 1)
  <2>1. i \in 1 .. m /\ i - 1 = m - k /\ i - 1 \in 0 .. m /\ k \in 1 .. FieldSize
    BY <1>1, <1>3
  <2>2. high[k] = first[i] \div 256
    BY <1>5, <1>7, <2>1
  <2> HIDE DEF i
  <2>3. first[i] = 256 * first[i - 1] + b[i] /\ first[i - 1] \in Nat /\ b[i] \in Byte
    BY <1>1, <1>2, <2>1
  <2>4. high[k] = first[i - 1]
    <3> DEFINE x == first[i - 1]
               y == b[i]
    <3>1. x \in Nat /\ y \in Byte /\ high[k] = (256 * x + y) \div 256
      BY <2>2, <2>3
    <3> HIDE DEF x, y
    <3>2. high[k] = x
      BY <3>1, OneMoreByte DEF Undone
    <3> QED
      BY <3>2 DEF x
  <2> QED
    BY <1>1, <2>1, <2>4
<1> HIDE DEF T
<1>8. 0 .. m \subseteq T
  BY <1>1, <1>6, <1>7, EveryTurn
<1>9. \A k \in 0 .. m : high[k] = first[m - k]
  BY <1>8 DEF T
<1> QED
  BY <1>1, <1>4, <1>9 DEF m, first, high

\* As many bytes as it takes to leave nothing.
HasLength(n, len) == HighBytes(n)[len] = 0 /\ \A j \in 0 .. len - 1 : HighBytes(n)[j] # 0

LEMMA BytesLength ==
  ASSUME NEW n \in Nat, NEW len \in 0 .. FieldSize, HasLength(n, len)
  PROVE  Bytes(n) = [i \in 1 .. len |-> HighBytes(n)[len - i] % 256]
<1> DEFINE high == HighBytes(n)
           P(k) == high[k] = 0 /\ \A j \in 0 .. k - 1 : high[j] # 0
           c == CHOOSE k \in 0 .. FieldSize : P(k)
<1>1. FieldSize \in Nat /\ P(len)
  BY OrderAssumption DEF HasLength
<1>2. ASSUME NEW k \in 0 .. FieldSize, P(k) PROVE k = len
  <2>1. ~(k < len) /\ ~(len < k)
    BY <1>1, <1>2
  <2> QED
    BY <1>1, <2>1
<1>3. \E k \in 0 .. FieldSize : P(k)
  BY <1>1
<1>4. c \in 0 .. FieldSize /\ P(c)
  <2> HIDE DEF P
  <2> QED
    BY <1>3
<1>5. c = len
  BY <1>2, <1>4
<1>6. Bytes(n) = [i \in 1 .. c |-> high[c - i] % 256]
  BY DEF Bytes
<1> HIDE DEF c, high
<1> QED
  BY <1>5, <1>6 DEF high

\* The bytes of the number of some bytes are those, unless the first is zero.
LEMMA BytesOfScalar ==
  ASSUME NEW b \in Seq(Byte), b # <<>>, b[1] # 0, Len(b) <= FieldSize
  PROVE  Bytes(Scalar(b)) = b
<1> DEFINE m == Len(b)
           first == FirstBytes(b)
           high == HighBytes(Scalar(b))
<1>1. /\ b \in Seq(Nat) /\ m \in Nat \ {0}
      /\ \A i \in 1 .. m : b[i] \in Byte /\ b[i] \in Nat
  BY BytesAreCells
<1>2. /\ first \in [0 .. m -> Nat] /\ first[0] = 0
      /\ \A i \in 1 .. m : first[i] = 256 * first[i - 1] + b[i]
  <2>1. FirstRecord(b)
    BY <1>1, FirstBytesRecord
  <2> QED
    BY <2>1 DEF FirstRecord
<1>3. Scalar(b) \in Nat /\ \A k \in 0 .. m : high[k] = first[m - k]
  BY HighAreFirst
<1>4. FieldSize \in Nat /\ m <= FieldSize
  BY OrderAssumption
<1>5. DOMAIN b = 1 .. m /\ b = [i \in 1 .. m |-> b[i]]
  OBVIOUS
<1> HIDE DEF m, first, high
<1> DEFINE T == {i \in 0 .. m : i = 0 \/ first[i] # 0}
<1>6. 0 \in T
  BY <1>1
<1>7. ASSUME NEW i \in 1 .. m, i - 1 \in T PROVE i \in T
  <2>1. i \in 0 .. m /\ i - 1 \in 0 .. m /\ b[i] \in Nat
    BY <1>1
  <2>2. first[i] = 256 * first[i - 1] + b[i] /\ first[i - 1] \in Nat
    BY <1>2, <2>1
  <2>3. CASE i = 1
    <3>1. first[i] = b[1] /\ b[1] # 0
      BY <1>2, <2>1, <2>2, <2>3
    <3> QED
      BY <2>1, <3>1
  <2>4. CASE i # 1
    <3>1. first[i - 1] # 0
      BY <1>7, <2>4
    <3> QED
      BY <2>1, <2>2, <3>1
  <2> QED
    BY <2>3, <2>4
<1> HIDE DEF T
<1>8. 0 .. m \subseteq T
  BY <1>1, <1>6, <1>7, EveryTurn
<1>9. \A i \in 1 .. m : first[i] # 0
  BY <1>8 DEF T
<1>10. high[m] = 0
  <2>1. m \in 0 .. m /\ m - m = 0
    BY <1>1
  <2> QED
    BY <1>2, <1>3, <2>1
<1>11. \A j \in 0 .. m - 1 : high[j] # 0
  <2>1. ASSUME NEW j \in 0 .. m - 1 PROVE high[j] # 0
    <3>1. j \in 0 .. m /\ m - j \in 1 .. m
      BY <1>1
    <3> QED
      BY <1>3, <1>9, <3>1
  <2> QED
    BY <2>1
<1>12. m \in 0 .. FieldSize
  BY <1>1, <1>4
<1>13. Bytes(Scalar(b)) = [i \in 1 .. m |-> high[m - i] % 256]
  <2>1. Scalar(b) \in Nat
    BY <1>3
  <2>2. HasLength(Scalar(b), m)
    BY <1>10, <1>11 DEF high, HasLength
  <2>3. Bytes(Scalar(b)) = [i \in 1 .. m |-> HighBytes(Scalar(b))[m - i] % 256]
    BY <1>12, <2>1, <2>2, BytesLength
  <2> QED
    BY <2>3 DEF high
<1>14. ASSUME NEW i \in 1 .. m PROVE high[m - i] % 256 = b[i]
  <2> DEFINE x == first[i - 1]
             y == b[i]
  <2>1. high[m - i] = first[i]
    BY <1>1, <1>3
  <2>2. x \in Nat /\ y \in Byte
    <3>1. i - 1 \in 0 .. m
      BY <1>1
    <3>2. first[i - 1] \in Nat
      BY <1>2, <3>1
    <3> QED
      BY <1>1, <3>2
  <2>3. high[m - i] = 256 * x + y
    BY <1>2, <2>1
  <2> HIDE DEF x, y
  <2>4. (256 * x + y) % 256 = y
    <3>1. Undone(x, y)
      BY <2>2, OneMoreByte
    <3> QED
      BY <3>1 DEF Undone
  <2> QED
    BY <2>3, <2>4 DEF y
<1>15. [i \in 1 .. m |-> high[m - i] % 256] = [i \in 1 .. m |-> b[i]]
  BY <1>14, Zenon
<1> QED
  BY <1>5, <1>13, <1>15, Zenon DEF m

\* A number below the order fits the bytes of a scalar.
LEMMA NumberFits ==
  ASSUME NEW n \in 1 .. Order - 1
  PROVE  HighBytes(n)[FieldSize] = 0
<1> DEFINE F == FieldSize
           w == [i \in 1 .. F |-> 255]
           most == FirstBytes(w)
           high == HighBytes(n)
<1>1. F \in Nat /\ n \in Nat /\ Order \in 2 .. Scalar(w) + 1
  BY OrderAssumption
<1>2. w \in Seq(Nat) /\ Len(w) = F /\ \A i \in 1 .. F : w[i] = 255
  BY <1>1
<1> HIDE DEF w
<1>3. /\ most \in [0 .. F -> Nat] /\ most[0] = 0 /\ Scalar(w) = most[F]
      /\ \A i \in 1 .. F : most[i] = 256 * most[i - 1] + 255
  <2> HIDE DEF F
  <2>1. /\ most \in [0 .. Len(w) -> Nat] /\ most[0] = 0
        /\ \A i \in 1 .. Len(w) : most[i] = 256 * most[i - 1] + w[i]
    <3>1. FirstRecord(w)
      BY <1>2, FirstBytesRecord
    <3> QED
      BY <3>1 DEF FirstRecord
  <2>2. Scalar(w) = most[Len(w)]
    BY DEF Scalar
  <2> HIDE DEF most
  <2> QED
    BY <1>2, <2>1, <2>2
<1>4. /\ high \in [0 .. F -> Nat] /\ high[0] = n
      /\ \A k \in 1 .. F : high[k] = high[k - 1] \div 256
  <2> HIDE DEF high
  <2>1. n \in Nat
    BY <1>1
  <2> QED
    BY <2>1, HighBytesRecord DEF high
<1> HIDE DEF F, most, high
<1>5. n <= most[F]
  BY <1>1, <1>3
<1> DEFINE T == {k \in 0 .. F : high[k] <= most[F - k]}
<1>6. 0 \in T
  BY <1>1, <1>4, <1>5
<1>7. ASSUME NEW k \in 1 .. F, k - 1 \in T PROVE k \in T
  <2> DEFINE x == high[k - 1]
             y == most[F - k]
             q == x \div 256
  <2>1. F - k \in 0 .. F /\ F - (k - 1) \in 1 .. F /\ F - (k - 1) - 1 = F - k /\ k - 1 \in 0 .. F
    BY <1>1
  <2>2. x \in Nat /\ y \in Nat /\ x <= 256 * y + 255 /\ high[k] = q
    <3>1. x \in Nat /\ y \in Nat /\ high[k] = q
      <4>1. high[k - 1] \in Nat /\ high[k] = high[k - 1] \div 256
        BY <1>4, <2>1
      <4>2. most[F - k] \in Nat
        BY <1>3, <2>1
      <4> QED
        BY <4>1, <4>2, Zenon
    <3>2. x <= most[F - (k - 1)]
      BY <1>7
    <3>3. most[F - (k - 1)] = 256 * y + 255
      BY <1>3, <2>1
    <3> QED
      BY <3>1, <3>2, <3>3
  <2> HIDE DEF x, y
  <2>3. q \in Nat /\ x % 256 \in Byte /\ 256 * q + (x % 256) = x
    BY <2>2, LastByte
  <2> HIDE DEF q
  <2>4. q <= y
    BY <2>2, <2>3 DEF Byte
  <2> QED
    BY <2>2, <2>4 DEF y
<1> HIDE DEF T
<1>8. 0 .. F \subseteq T
  BY <1>1, <1>6, <1>7, EveryTurn
<1>9. F \in 0 .. F /\ F - F = 0
  BY <1>1
<1>10. high[F] <= 0 /\ high[F] \in Nat
  BY <1>3, <1>4, <1>8, <1>9 DEF T
<1> QED
  BY <1>10 DEF high, F

\* And the bytes of a number are canonical, and stand for it.
LEMMA BytesOfNumber ==
  ASSUME NEW n \in 1 .. Order - 1
  PROVE  /\ Bytes(n) \in Seq(Byte) /\ Bytes(n) # <<>> /\ Len(Bytes(n)) <= FieldSize
         /\ Bytes(n)[1] # 0 /\ Scalar(Bytes(n)) = n
<1> DEFINE F == FieldSize
           b == Bytes(n)
           high == HighBytes(n)
           Z == {k \in 0 .. F : high[k] = 0}
<1>1. F \in Nat /\ n \in Nat \ {0}
  BY OrderAssumption
<1>2. /\ high \in [0 .. F -> Nat] /\ high[0] = n
      /\ \A k \in 1 .. F : high[k] = high[k - 1] \div 256
  BY <1>1, HighBytesRecord
<1>3. F \in Z
  BY <1>1, NumberFits
<1>4. PICK len \in Z : \A j \in Z : len <= j
  <2>1. Z \subseteq Nat /\ Z # {}
    BY <1>1, <1>3
  <2> QED
    BY <2>1, Least
<1> HIDE DEF high, b, F
<1>5. /\ len \in 1 .. F /\ high[len] = 0 /\ len \in Nat
      /\ \A j \in 0 .. len - 1 : high[j] # 0
  <2>1. len \in 0 .. F /\ high[len] = 0 /\ len # 0
    BY <1>1, <1>2, <1>4
  <2>2. ASSUME NEW j \in 0 .. len - 1 PROVE high[j] # 0
    <3>1. j \in 0 .. F /\ ~(len <= j)
      BY <1>1, <2>1
    <3> QED
      BY <1>4, <3>1
  <2> QED
    BY <1>1, <2>1, <2>2
<1> HIDE DEF Z
<1>6. b = [i \in 1 .. len |-> high[len - i] % 256]
  <2>1. len \in 0 .. F
    BY <1>5
  <2> QED
    <3>1. HasLength(n, len)
      BY <1>5 DEF high, HasLength
    <3>2. Bytes(n) = [i \in 1 .. len |-> HighBytes(n)[len - i] % 256]
      BY <1>1, <2>1, <3>1, BytesLength DEF F
    <3> QED
      BY <3>2 DEF b, high
<1>7. \A i \in 0 .. len - 1 :
        /\ high[i] \in Nat /\ high[i + 1] \in Nat /\ high[i] % 256 \in Byte
        /\ 256 * high[i + 1] + (high[i] % 256) = high[i]
  <2> SUFFICES ASSUME NEW i \in 0 .. len - 1
               PROVE  /\ high[i] \in Nat /\ high[i + 1] \in Nat /\ high[i] % 256 \in Byte
                      /\ 256 * high[i + 1] + (high[i] % 256) = high[i]
    OBVIOUS
  <2> DEFINE x == high[i]
             y == high[i + 1]
  <2>1. i \in 0 .. F /\ i + 1 \in 1 .. F /\ (i + 1) - 1 = i
    BY <1>1, <1>5
  <2>2. x \in Nat /\ y \in Nat /\ y = x \div 256
    BY <1>1, <1>2, <2>1
  <2> HIDE DEF x, y
  <2>3. x % 256 \in Byte /\ 256 * (x \div 256) + (x % 256) = x
    BY <2>2, LastByte
  <2>4. x \in Nat /\ y \in Nat /\ x % 256 \in Byte /\ 256 * y + (x % 256) = x
    BY <2>2, <2>3
  <2> QED
    BY <2>4 DEF x, y
<1>8. \A i \in 1 .. len : len - i \in 0 .. len - 1 /\ (len - i) + 1 = len - (i - 1)
  BY <1>5
<1>9. \A i \in 1 .. len : b[i] = high[len - i] % 256 /\ b[i] \in Byte
  BY <1>6, <1>7, <1>8
<1>10. b \in Seq(Byte) /\ Len(b) = len /\ b # <<>>
  <2>1. b \in [1 .. len -> Byte]
    BY <1>6, <1>9
  <2> QED
    BY <1>5, <2>1
<1>11. b[1] # 0
  <2>1. 1 \in 1 .. len /\ len - 1 \in 0 .. len - 1 /\ (len - 1) + 1 = len
    BY <1>5
  <2>2. b[1] = high[len - 1] % 256
    BY <1>9, <2>1
  <2>3. 256 * high[len] + (high[len - 1] % 256) = high[len - 1]
    BY <1>7, <2>1
  <2> DEFINE x == high[len - 1] % 256
  <2>4. x = b[1] /\ 256 * 0 + x = high[len - 1] /\ high[len - 1] # 0 /\ x \in Nat
    <3>1. x \in Byte
      BY <1>9, <2>1, <2>2
    <3>2. high[len - 1] # 0 /\ high[len] = 0
      BY <1>5, <2>1
    <3> HIDE DEF x
    <3> QED
      BY <2>2, <2>3, <3>1, <3>2 DEF x, Byte
  <2> HIDE DEF x
  <2> QED
    BY <2>4
<1>12. Scalar(b) = n
  <2> DEFINE first == FirstBytes(b)
             T == {i \in 0 .. len : first[i] = high[len - i]}
  <2>1. /\ first[0] = 0 /\ Scalar(b) = first[len]
        /\ \A i \in 1 .. len : first[i] = 256 * first[i - 1] + b[i]
    <3>1. b \in Seq(Nat)
      BY <1>10, BytesAreCells
    <3>2. /\ first[0] = 0
          /\ \A i \in 1 .. Len(b) : first[i] = 256 * first[i - 1] + b[i]
      <4>1. FirstRecord(b)
        BY <3>1, FirstBytesRecord
      <4> QED
        BY <4>1 DEF FirstRecord
    <3>3. Scalar(b) = first[Len(b)]
      BY DEF Scalar
    <3> HIDE DEF first
    <3> QED
      BY <1>10, <3>2, <3>3
  <2> HIDE DEF first
  <2>2. 0 \in T
    BY <1>5, <2>1
  <2>3. ASSUME NEW i \in 1 .. len, i - 1 \in T PROVE i \in T
    <3>1. first[i] = 256 * high[len - (i - 1)] + (high[len - i] % 256)
      BY <1>9, <2>1, <2>3
    <3>2. 256 * high[(len - i) + 1] + (high[len - i] % 256) = high[len - i]
      BY <1>7, <1>8
    <3>3. first[i] = high[len - i] /\ i \in 0 .. len
      BY <1>5, <1>8, <3>1, <3>2
    <3> QED
      BY <3>3
  <2> HIDE DEF T
  <2>4. 0 .. len \subseteq T
    BY <1>5, <2>2, <2>3, EveryTurn
  <2>5. len \in 0 .. len /\ len - len = 0
    BY <1>5
  <2>6. first[len] = high[0]
    BY <2>4, <2>5 DEF T
  <2> QED
    BY <1>2, <2>1, <2>6
<1>13. len <= F
  BY <1>1, <1>5
<1> QED
  BY <1>10, <1>11, <1>12, <1>13 DEF b, F
-----------------------------------------------------------------------------
(* Strings and their encodings.                                              *)

LEMMA EncodedString ==
  ASSUME NEW b \in Seq(Nat), NEW r \in Seq(Nat)
  PROVE  /\ EncodeString(b) \in Seq(Nat) /\ EncodeString(b) \o r \in Seq(Nat)
         /\ EncodeString(b) \o r = <<Len(b)>> \o (b \o r)
<1>1. <<Len(b)>> \in Seq(Nat) /\ b \o r \in Seq(Nat)
  OBVIOUS
<1>2. (<<Len(b)>> \o b) \o r = <<Len(b)>> \o (b \o r)
  BY <1>1, ConcatAssociative
<1> QED
  BY <1>1, <1>2 DEF EncodeString

LEMMA Prefixed ==
  ASSUME NEW n \in Nat, NEW r \in Seq(Nat)
  PROVE  LET buf == <<n>> \o r IN
         /\ buf \in Seq(Nat) /\ buf # <<>> /\ Head(buf) = n /\ Tail(buf) = r
         /\ Len(buf) = 1 + Len(r) /\ buf[1] = n /\ \A i \in 1 .. Len(r) : buf[i + 1] = r[i]
<1> DEFINE buf == <<n>> \o r
<1>1. /\ buf \in Seq(Nat) /\ Len(r) \in Nat /\ Len(buf) = 1 + Len(r)
      /\ buf[1] = n /\ \A i \in 1 .. Len(r) : buf[i + 1] = r[i]
  OBVIOUS
<1> HIDE DEF buf
<1>2. buf # <<>> /\ Head(buf) = n
  BY <1>1
<1>3. /\ Tail(buf) \in Seq(Nat) /\ Len(Tail(buf)) = Len(r)
      /\ \A i \in 1 .. Len(r) : Tail(buf)[i] = r[i]
  BY <1>1, <1>2, HeadTailProperties
<1>4. Tail(buf) = r
  BY <1>3, SeqEqual
<1> QED
  BY <1>1, <1>2, <1>4 DEF buf

LEMMA EncodedType == \A b \in Seq(Nat) : EncodeString(b) \in Seq(Nat)
  BY DEF EncodeString

Regroups(r, t, v) == (r \o t) \o v = r \o (t \o v)

LEMMA Regrouped ==
  ASSUME NEW r \in Seq(Nat), NEW t \in Seq(Nat), NEW v \in Seq(Nat)
  PROVE  Regroups(r, t, v)
<1> DEFINE x == (r \o t) \o v
           y == r \o (t \o v)
<1>1. x \in Seq(Nat) /\ y \in Seq(Nat) /\ Len(x) = Len(y)
  OBVIOUS
<1>2. \A i \in 1 .. Len(x) : x[i] = y[i]
  OBVIOUS
<1> QED
  BY <1>1, <1>2, SeqEqual DEF Regroups

LEMMA CancelLeft ==
  ASSUME NEW r \in Seq(Nat), NEW t \in Seq(Nat), NEW v \in Seq(Nat), r \o t = r \o v
  PROVE  t = v
  BY ConcatSimplifications

LEMMA StartOf ==
  ASSUME NEW a \in Seq(Nat), NEW u \in Seq(Nat)
  PROVE  a \o u \in Seq(Nat) /\ \A i \in 1 .. Len(a) : (a \o u)[i] = a[i]
  OBVIOUS

\* A blob starts with one string only.
SameParts(a, u, b, w) ==
  EncodeString(a) \o u = EncodeString(b) \o w => a = b /\ u = w

LEMMA SameStart ==
  ASSUME NEW a \in Seq(Nat), NEW b \in Seq(Nat), NEW u \in Seq(Nat), NEW w \in Seq(Nat)
  PROVE  SameParts(a, u, b, w)
<1> SUFFICES ASSUME EncodeString(a) \o u = EncodeString(b) \o w
             PROVE  a = b /\ u = w
  BY DEF SameParts
<1> DEFINE s == a \o u
           t == b \o w
<1>1. s \in Seq(Nat) /\ t \in Seq(Nat) /\ <<Len(a)>> \o s = <<Len(b)>> \o t
  <2>1. /\ EncodeString(a) \o u = <<Len(a)>> \o s
        /\ EncodeString(b) \o w = <<Len(b)>> \o t
    BY EncodedString
  <2>2. s \in Seq(Nat) /\ t \in Seq(Nat)
    BY StartOf
  <2> HIDE DEF s, t
  <2> QED
    BY <2>1, <2>2
<1>2. Len(a) \in Nat /\ Len(b) \in Nat
  OBVIOUS
<1> HIDE DEF s, t
<1>3. Len(a) = Len(b)
  <2>1. (<<Len(a)>> \o s)[1] = Len(a) /\ (<<Len(b)>> \o t)[1] = Len(b)
    BY <1>1, <1>2
  <2> QED
    BY <1>1, <2>1
<1>4. s = t
  <2>1. <<Len(a)>> \in Seq(Nat)
    BY <1>2
  <2>2. <<Len(a)>> \o s = <<Len(a)>> \o t
    BY <1>1, <1>3, Zenon
  <2> QED
    BY <1>1, <2>1, <2>2, CancelLeft
<1>5. /\ \A i \in 1 .. Len(a) : s[i] = a[i]
      /\ \A i \in 1 .. Len(b) : t[i] = b[i]
  BY StartOf DEF s, t
<1>6. a = b
  BY <1>3, <1>4, <1>5, SeqEqual
<1>7. a \o u = a \o w
  BY <1>4, <1>6 DEF s, t
<1> QED
  BY <1>6, <1>7, CancelLeft

\* What is read is what the cells were put together from.
LEMMA FieldTaken ==
  ASSUME NEW buf \in Seq(Nat), ReadSshBytes[buf].err = "none"
  PROVE  LET field == ReadSshBytes[buf] IN
         /\ field.val \in Seq(Nat) /\ field.rest \in Seq(Nat)
         /\ buf = EncodeString(field.val) \o field.rest
<1> DEFINE field == ReadSshBytes[buf]
           n == Head(buf)
           rest == Tail(buf)
           x == SubSeq(rest, 1, n)
           y == SubSeq(rest, n + 1, Len(rest))
<1>1. buf # <<>>
  BY DEF ReadSshBytes, ReadU32, Err
<1>2. n \in Nat /\ rest \in Seq(Nat) /\ Len(rest) \in Nat /\ buf = <<n>> \o rest
  BY <1>1
<1>3. field = IF n > MaxString THEN Err("InvalidData")
              ELSE IF Len(rest) < n THEN Err("UnexpectedEof") ELSE Got(x, y)
  BY <1>1 DEF ReadSshBytes, ReadU32, Got
<1>4. Err("InvalidData").err # "none" /\ Err("UnexpectedEof").err # "none"
  BY DEF Err
<1> HIDE DEF field, n, rest, x, y
<1>5. ~(Len(rest) < n) /\ field = Got(x, y)
  BY <1>3, <1>4 DEF field
<1>6. x \in Seq(Nat) /\ y \in Seq(Nat) /\ Len(x) = n
  BY <1>2, <1>5 DEF x, y
<1>7. x \o y = rest
  <2>1. CASE n = 0
    <3>1. x = <<>> /\ y = SubSeq(rest, 1, Len(rest))
      BY <1>2, <2>1 DEF x, y
    <3> QED
      BY <1>2, <3>1, SubSeqFull, ConcatEmptySeq
  <2>2. CASE n # 0
    <3>1. 1 \in 1 .. Len(rest) + 1 /\ n \in 1 - 1 .. Len(rest) /\ Len(rest) \in n .. Len(rest)
      BY <1>2, <1>5, <2>2
    <3>2. x \o y = SubSeq(rest, 1, Len(rest))
      BY <1>2, <3>1, ConcatAdjacentSubSeq DEF x, y
    <3> QED
      BY <1>2, <3>2, SubSeqFull
  <2> QED
    BY <2>1, <2>2
<1>8. EncodeString(x) \o y = buf
  BY <1>2, <1>6, <1>7, EncodedString
<1>9. field.val = x /\ field.rest = y
  BY <1>5 DEF Got
<1> QED
  BY <1>6, <1>8, <1>9 DEF field

\* And what they were put together from is read, if it is within the limit.
LEMMA FieldGiven ==
  ASSUME NEW b \in Seq(Nat), NEW r \in Seq(Nat)
  PROVE  LET field == ReadSshBytes[EncodeString(b) \o r] IN
         /\ Len(b) <= MaxString => field.err = "none"
         /\ field.err = "none" => field.val = b /\ field.rest = r
<1> DEFINE buf == EncodeString(b) \o r
           s == b \o r
           field == ReadSshBytes[buf]
<1>1. buf \in Seq(Nat) /\ s \in Seq(Nat) /\ buf = <<Len(b)>> \o s
  <2>1. buf \in Seq(Nat) /\ buf = <<Len(b)>> \o s
    BY EncodedString
  <2> QED
    BY <2>1, StartOf
<1>2. Len(b) \in Nat /\ Len(s) \in Nat /\ ~(Len(s) < Len(b))
  OBVIOUS
<1> HIDE DEF s
<1>3. buf # <<>> /\ Head(buf) = Len(b) /\ Tail(buf) = s
  <2> DEFINE n == Len(b)
             v == <<n>> \o s
  <2>1. n \in Nat /\ buf = v
    BY <1>1, <1>2
  <2> HIDE DEF n, buf
  <2>2. v # <<>> /\ Head(v) = n /\ Tail(v) = s
    BY <1>1, <2>1, Prefixed
  <2> HIDE DEF v
  <2> QED
    BY <2>1, <2>2 DEF n
<1>4. ASSUME Len(b) <= MaxString PROVE field.err = "none"
  <2>1. ~(Len(b) > MaxString)
    BY <1>2, <1>4, LimitAssumption
  <2>2. field = Got(SubSeq(s, 1, Len(b)), SubSeq(s, Len(b) + 1, Len(s)))
    BY <1>1, <1>2, <1>3, <2>1 DEF ReadSshBytes, ReadU32, Got
  <2> QED
    BY <2>2 DEF Got
<1>5. ASSUME field.err = "none" PROVE field.val = b /\ field.rest = r
  <2>1. /\ field.val \in Seq(Nat) /\ field.rest \in Seq(Nat)
        /\ EncodeString(b) \o r = EncodeString(field.val) \o field.rest
    BY <1>1, <1>5, FieldTaken
  <2>2. SameParts(b, r, field.val, field.rest)
    BY <2>1, SameStart
  <2> QED
    BY <2>1, <2>2 DEF SameParts
<1> QED
  BY <1>4, <1>5
-----------------------------------------------------------------------------
(* The parts of a signature blob.                                            *)

LEMMA CellTaken ==
  ASSUME NEW buf \in Seq(Nat)
  PROVE  LET u == ReadU32(buf) IN
         /\ u.rest \in Seq(Nat)
         /\ u.err = "none" => u.val \in Nat /\ buf = <<u.val>> \o u.rest
         /\ u.err # "none" => u.rest = <<>>
<1>1. CASE buf = <<>>
  BY <1>1 DEF ReadU32, Err
<1>2. CASE buf # <<>>
  <2>1. Head(buf) \in Nat /\ Tail(buf) \in Seq(Nat) /\ buf = <<Head(buf)>> \o Tail(buf)
    BY <1>2
  <2> DEFINE h == Head(buf)
             t == Tail(buf)
  <2>2. ReadU32(buf) = Got(h, t)
    BY <1>2 DEF ReadU32
  <2> HIDE DEF h, t
  <2>3. ReadU32(buf).val = h /\ ReadU32(buf).rest = t /\ ReadU32(buf).err = "none"
    BY <2>2 DEF Got
  <2> QED
    BY <2>1, <2>3 DEF h, t
<1> QED
  BY <1>1, <1>2

LEMMA NothingLeft == ReadU32(<<>>).err # "none" /\ ReadSshBytes[<<>>].err # "none"
<1>1. <<>> \in Seq(Nat)
  OBVIOUS
<1> QED
  BY <1>1 DEF ReadSshBytes, ReadU32, Err

LEMMA RestType ==
  ASSUME NEW buf \in Seq(Nat)
  PROVE  /\ ReadSshBytes[buf].rest \in Seq(Nat)
         /\ ReadSshBytes[buf].err # "none" => ReadSshBytes[buf].rest = <<>>
<1>1. CASE ReadSshBytes[buf].err = "none"
  BY <1>1, FieldTaken
<1>2. CASE ReadSshBytes[buf].err # "none"
  <2>1. ReadSshBytes[buf].rest = <<>>
    BY <1>2, FailedRead
  <2> QED
    BY <2>1
<1> QED
  BY <1>1, <1>2

\* What follows the numbers of a signature, and a signature as a whole.
After(flags, counter, origin, json, extensions) ==
  <<flags>> \o (<<counter>> \o
    (EncodeString(origin) \o (EncodeString(json) \o EncodeString(extensions))))
Blob(algo, ecdsa, rest) == EncodeString(algo) \o (EncodeString(ecdsa) \o rest)

LEMMA BlobType ==
  ASSUME NEW algo \in Seq(Nat), NEW ecdsa \in Seq(Nat), NEW rest \in Seq(Nat)
  PROVE  /\ EncodeString(ecdsa) \o rest \in Seq(Nat)
         /\ Blob(algo, ecdsa, rest) \in Seq(Nat)
         /\ Blob(algo, ecdsa, rest) # EncodeString(algo)
<1> DEFINE u == EncodeString(ecdsa) \o rest
           v == ecdsa \o rest
<1>1. u \in Seq(Nat) /\ u = <<Len(ecdsa)>> \o v
  BY EncodedString
<1>2. v \in Seq(Nat) /\ Len(ecdsa) \in Nat
  BY StartOf
<1> HIDE DEF u, v
<1>3. u # <<>>
  BY <1>1, <1>2
<1>4. EncodeString(algo) \in Seq(Nat) /\ EncodeString(algo) \o u \in Seq(Nat)
  BY <1>1, EncodedString
<1>5. EncodeString(algo) \o u # EncodeString(algo)
  <2> DEFINE e == EncodeString(algo)
  <2>1. e \in Seq(Nat)
    BY <1>4
  <2> HIDE DEF e
  <2>2. e \o u # e
    BY <1>1, <1>3, <2>1, ConcatSimplifications
  <2> QED
    BY <2>2 DEF e
<1> QED
  BY <1>1, <1>4, <1>5 DEF Blob, u

LEMMA SameBlob ==
  ASSUME NEW algo \in Seq(Nat), NEW ecdsa \in Seq(Nat), NEW rest \in Seq(Nat),
         NEW algo2 \in Seq(Nat), NEW ecdsa2 \in Seq(Nat), NEW rest2 \in Seq(Nat),
         Blob(algo, ecdsa, rest) = Blob(algo2, ecdsa2, rest2)
  PROVE  algo = algo2 /\ ecdsa = ecdsa2 /\ rest = rest2
<1> DEFINE u == EncodeString(ecdsa) \o rest
           w == EncodeString(ecdsa2) \o rest2
<1>1. u \in Seq(Nat) /\ w \in Seq(Nat)
  BY BlobType
<1>2. EncodeString(algo) \o u = EncodeString(algo2) \o w
  BY DEF Blob
<1> HIDE DEF u, w
<1>3. algo = algo2 /\ u = w
  <2>1. SameParts(algo, u, algo2, w)
    BY <1>1, SameStart
  <2> QED
    BY <1>2, <2>1 DEF SameParts
<1>4. ecdsa = ecdsa2 /\ rest = rest2
  <2>1. EncodeString(ecdsa) \o rest = EncodeString(ecdsa2) \o rest2
    BY <1>3 DEF u, w
  <2>2. SameParts(ecdsa, rest, ecdsa2, rest2)
    BY SameStart
  <2> QED
    BY <2>1, <2>2 DEF SameParts
<1> QED
  BY <1>3, <1>4

\* A signature that is parsed is put together from what the parser returns.
LEMMA SignatureTaken ==
  ASSUME NEW blob \in Seq(Nat), ParseWebauthnSignature(blob).err = "none"
  PROVE  LET sig == ParseWebauthnSignature(blob).val IN
         /\ sig.ecdsa \in Seq(Nat) /\ sig.flags \in Nat /\ sig.counter \in Nat
         /\ sig.origin \in Seq(Nat) /\ sig.json \in Seq(Nat) /\ sig.extensions \in Seq(Nat)
         /\ \E algo \in {Algo, SkAlgo} :
              blob = Blob(<<algo>>, sig.ecdsa,
                          After(sig.flags, sig.counter, sig.origin, sig.json, sig.extensions))
<1> DEFINE algo       == ReadSshBytes[blob]
           ecdsa      == ReadSshBytes[algo.rest]
           flags      == ReadU32(ecdsa.rest)
           counter    == ReadU32(flags.rest)
           origin     == ReadSshBytes[counter.rest]
           json       == ReadSshBytes[origin.rest]
           extensions == ReadSshBytes[json.rest]
           sig        == ParseWebauthnSignature(blob).val
<1>1. /\ extensions.err = "none" /\ extensions.rest = <<>>
      /\ algo.val \in {<<Algo>>, <<SkAlgo>>}
      /\ sig = [ecdsa |-> ecdsa.val, flags |-> flags.val, counter |-> counter.val,
                origin |-> origin.val, json |-> json.val, extensions |-> extensions.val]
  BY DEF ParseWebauthnSignature, Got, Err
<1>2. /\ algo.rest \in Seq(Nat) /\ ecdsa.rest \in Seq(Nat) /\ flags.rest \in Seq(Nat)
      /\ counter.rest \in Seq(Nat) /\ origin.rest \in Seq(Nat) /\ json.rest \in Seq(Nat)
  <2>1. algo.rest \in Seq(Nat)
    BY RestType
  <2>2. ecdsa.rest \in Seq(Nat)
    BY <2>1, RestType
  <2>3. flags.rest \in Seq(Nat)
    BY <2>2, CellTaken
  <2>4. counter.rest \in Seq(Nat)
    BY <2>3, CellTaken
  <2>5. origin.rest \in Seq(Nat)
    BY <2>4, RestType
  <2>6. json.rest \in Seq(Nat)
    BY <2>5, RestType
  <2> QED
    BY <2>1, <2>2, <2>3, <2>4, <2>5, <2>6
<1>3. /\ algo.err = "none" /\ ecdsa.err = "none" /\ flags.err = "none"
      /\ counter.err = "none" /\ origin.err = "none" /\ json.err = "none"
  <2>1. json.err = "none"
    BY <1>1, <1>2, RestType, NothingLeft
  <2>2. origin.err = "none"
    BY <1>2, <2>1, RestType, NothingLeft
  <2>3. counter.err = "none"
    BY <1>2, <2>2, CellTaken, NothingLeft
  <2>4. flags.err = "none"
    BY <1>2, <2>3, CellTaken, NothingLeft
  <2>5. ecdsa.err = "none"
    BY <1>2, <2>4, RestType, NothingLeft
  <2>6. algo.err = "none"
    BY <1>2, <2>5, RestType, NothingLeft
  <2> QED
    BY <2>1, <2>2, <2>3, <2>4, <2>5, <2>6
<1>4. blob = EncodeString(algo.val) \o algo.rest
  BY <1>3, FieldTaken
<1>5. ecdsa.val \in Seq(Nat) /\ algo.rest = EncodeString(ecdsa.val) \o ecdsa.rest
  BY <1>2, <1>3, FieldTaken
<1>6. flags.val \in Nat /\ ecdsa.rest = <<flags.val>> \o flags.rest
  BY <1>2, <1>3, CellTaken
<1>7. counter.val \in Nat /\ flags.rest = <<counter.val>> \o counter.rest
  BY <1>2, <1>3, CellTaken
<1>8. origin.val \in Seq(Nat) /\ counter.rest = EncodeString(origin.val) \o origin.rest
  BY <1>2, <1>3, FieldTaken
<1>9. json.val \in Seq(Nat) /\ origin.rest = EncodeString(json.val) \o json.rest
  BY <1>2, <1>3, FieldTaken
<1>10. extensions.val \in Seq(Nat) /\ json.rest = EncodeString(extensions.val)
  <2>1. extensions.val \in Seq(Nat) /\ json.rest = EncodeString(extensions.val) \o <<>>
    BY <1>1, <1>2, FieldTaken
  <2>2. EncodeString(extensions.val) \in Seq(Nat)
    BY <2>1, EncodedString
  <2> QED
    BY <2>1, <2>2, ConcatEmptySeq
<1> HIDE DEF algo, ecdsa, flags, counter, origin, json, extensions, sig
<1>11. /\ sig.ecdsa = ecdsa.val /\ sig.flags = flags.val /\ sig.counter = counter.val
       /\ sig.origin = origin.val /\ sig.json = json.val /\ sig.extensions = extensions.val
  BY <1>1
<1>12. ecdsa.rest = After(sig.flags, sig.counter, sig.origin, sig.json, sig.extensions)
  BY <1>6, <1>7, <1>8, <1>9, <1>10, <1>11 DEF After
<1>13. blob = Blob(algo.val, sig.ecdsa, ecdsa.rest)
  BY <1>4, <1>5, <1>11 DEF Blob
<1>14. \E name \in {Algo, SkAlgo} : algo.val = <<name>>
  BY <1>1
<1> QED
  BY <1>5, <1>6, <1>7, <1>8, <1>9, <1>10, <1>11, <1>12, <1>13, <1>14 DEF sig

\* What follows the numbers takes more than the flags and the counter.
LEMMA AfterIsLong ==
  ASSUME NEW flags \in Nat, NEW counter \in Nat, NEW origin \in Seq(Nat),
         NEW json \in Seq(Nat), NEW extensions \in Seq(Nat)
  PROVE  LET rest == After(flags, counter, origin, json, extensions) IN
         rest \in Seq(Nat) /\ Len(rest) > 2
<1> DEFINE x == EncodeString(origin)
           y == EncodeString(json) \o EncodeString(extensions)
           z == x \o y
<1>1. EncodeString(extensions) \in Seq(Nat)
  BY EncodedString
<1>2. y \in Seq(Nat)
  BY <1>1, EncodedString
<1>3. z \in Seq(Nat) /\ z = <<Len(origin)>> \o (origin \o y)
  BY <1>2, EncodedString
<1>4. origin \o y \in Seq(Nat) /\ Len(origin) \in Nat
  BY <1>2
<1>5. Len(z) >= 1
  BY <1>3, <1>4
<1> HIDE DEF z
<1>6. <<flags>> \o (<<counter>> \o z) \in Seq(Nat) /\ Len(<<flags>> \o (<<counter>> \o z)) = 2 + Len(z)
  BY <1>3
<1>7. Len(z) \in Nat
  BY <1>3
<1> QED
  BY <1>5, <1>6, <1>7 DEF After, z

LEMMA ParsedIsLong ==
  ASSUME NEW blob \in Seq(Nat), ParseWebauthnSignature(blob).err = "none"
  PROVE  \E algo, ecdsa, rest \in Seq(Nat) : Len(rest) > 2 /\ blob = Blob(algo, ecdsa, rest)
<1> DEFINE sig  == ParseWebauthnSignature(blob).val
           tail == After(sig.flags, sig.counter, sig.origin, sig.json, sig.extensions)
<1>1. /\ sig.ecdsa \in Seq(Nat) /\ sig.flags \in Nat /\ sig.counter \in Nat
      /\ sig.origin \in Seq(Nat) /\ sig.json \in Seq(Nat) /\ sig.extensions \in Seq(Nat)
      /\ \E name \in {Algo, SkAlgo} : blob = Blob(<<name>>, sig.ecdsa, tail)
  BY SignatureTaken
<1> HIDE DEF sig
<1>2. tail \in Seq(Nat) /\ Len(tail) > 2
  BY <1>1, AfterIsLong
<1> HIDE DEF tail
<1>3. \A name \in {Algo, SkAlgo} : <<name>> \in Seq(Nat)
  BY DEF Algo, SkAlgo
<1> QED
  BY <1>1, <1>2, <1>3

\* Two strings, the flags and the counter are not a signature.
LEMMA TooShort ==
  ASSUME NEW algo \in Seq(Nat), NEW ecdsa \in Seq(Nat), NEW rest \in Seq(Nat), Len(rest) <= 2
  PROVE  ParseWebauthnSignature(Blob(algo, ecdsa, rest)).err # "none"
<1> DEFINE blob == Blob(algo, ecdsa, rest)
<1>1. blob \in Seq(Nat)
  BY BlobType
<1>2. SUFFICES ASSUME ParseWebauthnSignature(blob).err = "none" PROVE FALSE
  OBVIOUS
<1>3. PICK algo2, ecdsa2, rest2 \in Seq(Nat) : Len(rest2) > 2 /\ blob = Blob(algo2, ecdsa2, rest2)
  BY <1>1, <1>2, ParsedIsLong
<1>4. rest = rest2
  BY <1>3, SameBlob
<1>5. Len(rest) \in Nat
  OBVIOUS
<1> QED
  BY <1>3, <1>4, <1>5

LEMMA OneStringIsShort ==
  ASSUME NEW blob \in Seq(Nat), NEW algo \in Seq(Nat), blob \in {<<>>, EncodeString(algo)}
  PROVE  ParseWebauthnSignature(blob).err # "none"
<1> SUFFICES ASSUME ParseWebauthnSignature(blob).err = "none" PROVE FALSE
  OBVIOUS
<1>1. PICK algo2, ecdsa, rest \in Seq(Nat) : Len(rest) > 2 /\ blob = Blob(algo2, ecdsa, rest)
  BY ParsedIsLong
<1> DEFINE u == EncodeString(ecdsa) \o rest
<1>2. u \in Seq(Nat) /\ blob = EncodeString(algo2) \o u /\ blob # EncodeString(algo2)
  BY <1>1, BlobType DEF Blob
<1> HIDE DEF u
<1>3. EncodeString(algo2) \o u = <<Len(algo2)>> \o (algo2 \o u)
  BY <1>2, EncodedString
<1>4. blob # <<>>
  <2>1. algo2 \o u \in Seq(Nat) /\ Len(algo2) \in Nat
    BY <1>2, StartOf
  <2> QED
    BY <1>2, <1>3, <2>1
<1>5. blob = EncodeString(algo) \o <<>> /\ <<>> \in Seq(Nat)
  <2>1. EncodeString(algo) \in Seq(Nat) /\ <<>> \in Seq(Nat)
    BY EncodedType
  <2> QED
    BY <1>4, <2>1, ConcatEmptySeq
<1>6. algo = algo2
  <2>1. SameParts(algo, <<>>, algo2, u)
    BY <1>2, <1>5, SameStart
  <2> QED
    BY <1>2, <1>5, <2>1 DEF SameParts
<1> QED
  BY <1>2, <1>4, <1>6
-----------------------------------------------------------------------------
(* What the agent has put together.                                          *)

WellFormed ==
  kind = "signature" =>
    \/ part = 0 /\ raw = <<>>
    \/ part = 1 /\ \E algo \in Seq(Nat) : raw = EncodeString(algo)
    \/ part >= 2 /\ \E algo, ecdsa, rest \in Seq(Nat) :
         /\ raw = Blob(algo, ecdsa, rest) /\ Numbers(ecdsa) \subseteq Seq(Byte)
         /\ part <= 4 => Len(rest) = part - 2

Cells == kind \in DOMAIN Field /\ raw \in Seq(Nat) /\ part \in Nat

LEMMA StringPart ==
  ASSUME NEW n \in DOMAIN Field["signature"], n \in {1, 2},
         NEW cells \in Field["signature"][n], cells \in Seq(Nat)
  PROVE  \E s \in Seq(Nat) :
           cells = EncodeString(s) /\ (n = 2 => Numbers(s) \subseteq Seq(Byte))
<1>1. /\ cells # <<>> /\ cells = EncodeString(Tail(cells))
      /\ n = 2 => Numbers(Tail(cells)) \subseteq Seq(Byte)
  BY FieldAssumption DEF Holds, Byte
<1>2. Tail(cells) \in Seq(Nat)
  BY <1>1
<1> QED
  BY <1>1, <1>2

LEMMA WellFormedStep ==
  ASSUME Cells, WellFormed, Next
  PROVE  WellFormed'
<1> SUFFICES ASSUME kind = "signature" PROVE WellFormed'
  BY DEF WellFormed, Next, Put
<1>1. PICK cells \in Field[kind][part + 1] : Put(cells)
  BY DEF Next
<1>2. /\ part \in Nat /\ raw \in Seq(Nat) /\ cells \in Seq(Nat)
      /\ part + 1 \in DOMAIN Field["signature"] /\ cells \in Field["signature"][part + 1]
  <2>1. Field[kind] \in Seq(SUBSET Seq(Nat)) /\ part + 1 \in 1 .. Len(Field[kind])
    BY FieldAssumption DEF Next, Cells
  <2> QED
    BY <1>1, <2>1 DEF Cells
<1>3. raw' = raw \o cells /\ part' = part + 1
  BY <1>1 DEF Put
<1>4. CASE part = 0
  <2>1. PICK s \in Seq(Nat) : cells = EncodeString(s)
    BY <1>2, <1>4, StringPart
  <2>2. raw' = EncodeString(s)
    BY <1>2, <1>3, <1>4, <2>1, ConcatEmptySeq DEF WellFormed
  <2>3. part' = 1
    BY <1>3, <1>4
  <2> QED
    BY <2>2, <2>3 DEF WellFormed
<1>5. CASE part = 1
  <2>1. PICK algo \in Seq(Nat) : raw = EncodeString(algo)
    BY <1>5 DEF WellFormed
  <2>2. PICK s \in Seq(Nat) : cells = EncodeString(s) /\ Numbers(s) \subseteq Seq(Byte)
    BY <1>2, <1>5, StringPart
  <2> DEFINE none == <<>>
  <2>3. none \in Seq(Nat) /\ cells = cells \o none /\ Len(none) = 0
    BY <1>2, ConcatEmptySeq
  <2> HIDE DEF none
  <2>4. raw' = Blob(algo, s, none)
    BY <1>3, <2>1, <2>2, <2>3 DEF Blob
  <2>5. part' = 2 /\ Len(none) = part' - 2
    BY <1>3, <1>5, <2>3
  <2>6. \E a, b, r \in Seq(Nat) :
          /\ raw' = Blob(a, b, r) /\ Numbers(b) \subseteq Seq(Byte)
          /\ part' <= 4 => Len(r) = part' - 2
    BY <2>2, <2>3, <2>4, <2>5
  <2>7. part' >= 2
    BY <2>5
  <2> QED
    BY <2>6, <2>7 DEF WellFormed
<1>6. CASE part >= 2
  <2>1. PICK algo, ecdsa, rest \in Seq(Nat) :
          /\ raw = Blob(algo, ecdsa, rest) /\ Numbers(ecdsa) \subseteq Seq(Byte)
          /\ part <= 4 => Len(rest) = part - 2
    BY <1>2, <1>6 DEF WellFormed
  <2> DEFINE more == rest \o cells
             e == EncodeString(algo)
             f == EncodeString(ecdsa)
  <2>2. more \in Seq(Nat) /\ Len(more) = Len(rest) + Len(cells)
    BY <1>2
  <2>3. raw' = Blob(algo, ecdsa, more)
    <3>1. e \in Seq(Nat) /\ f \in Seq(Nat)
      BY EncodedType
    <3>2. raw' = (e \o (f \o rest)) \o cells
      BY <1>3, <2>1 DEF Blob
    <3> HIDE DEF e, f
    <3>3. f \o rest \in Seq(Nat)
      BY <3>1
    <3>4. Regroups(e, f \o rest, cells)
      BY <1>2, <3>1, <3>3, Regrouped
    <3>5. Regroups(f, rest, cells)
      BY <1>2, <3>1, Regrouped
    <3> QED
      BY <3>2, <3>4, <3>5 DEF Regroups, Blob, e, f
  <2>4. part' <= 4 => Len(more) = part' - 2
    <3> SUFFICES ASSUME part' <= 4 PROVE Len(more) = part' - 2
      OBVIOUS
    <3>1. part + 1 \in {3, 4}
      BY <1>2, <1>3, <1>6
    <3>2. Len(cells) = 1
      BY <1>2, <3>1, FieldAssumption
    <3>3. Len(rest) = part - 2
      BY <1>2, <2>1, <3>1
    <3> QED
      BY <1>2, <1>3, <2>2, <3>2, <3>3
  <2>5. part' >= 2
    BY <1>2, <1>3, <1>6
  <2> HIDE DEF more
  <2> QED
    BY <2>1, <2>2, <2>3, <2>4, <2>5 DEF WellFormed
<1> QED
  BY <1>2, <1>4, <1>5, <1>6

LEMMA Formed == Spec => [](Cells /\ WellFormed)
<1>1. Init => Cells /\ WellFormed
  BY CellsInit DEF Init, Cells, WellFormed
<1>2. Cells /\ WellFormed /\ [Next]_vars => (Cells /\ WellFormed)'
  <2>1. CASE UNCHANGED vars
    BY <2>1 DEF vars, Cells, WellFormed
  <2>2. CASE Next
    BY <2>2, CellsStep, WellFormedStep DEF Cells
  <2> QED
    BY <2>1, <2>2
<1> QED
  BY <1>1, <1>2, PTL DEF Spec

\* Two strings, the flags and the counter are no signature, so that only the
\* name makes them one: a caller who asks is_webauthn_signature takes no plain
\* sk signature for a WebAuthn one, and loses none that verifies.
THEOREM OnlyWholeIsRecognised == Spec => []Recognised
<1>1. Cells /\ WellFormed => Recognised
  <2> SUFFICES ASSUME Cells, WellFormed PROVE Recognised
    OBVIOUS
  <2>1. raw \in Seq(Nat) /\ part \in Nat
    BY DEF Cells
  <2>2. VerifyWebauthnSk(raw) => IsWebauthnSignature(raw)
    BY <2>1, VerifiedIsRecognised
  <2>3. ASSUME kind = "signature", part <= 4
        PROVE  ParseWebauthnSignature(raw).err # "none"
    <3>1. CASE part < 2
      <4>1. \E algo \in Seq(Nat) : raw \in {<<>>, EncodeString(algo)}
        <5>1. <<>> \in Seq(Nat)
          OBVIOUS
        <5> QED
          BY <2>1, <2>3, <3>1, <5>1 DEF WellFormed
      <4> QED
        BY <2>1, <4>1, OneStringIsShort
    <3>2. CASE part >= 2
      <4>1. PICK algo, ecdsa, rest \in Seq(Nat) : raw = Blob(algo, ecdsa, rest) /\ Len(rest) = part - 2
        BY <2>1, <2>3, <3>2 DEF WellFormed
      <4>2. Len(rest) <= 2
        BY <2>1, <2>3, <4>1
      <4> QED
        BY <4>1, <4>2, TooShort
    <3> QED
      BY <2>1, <3>1, <3>2
  <2>4. kind = "signature" /\ part <= 4 /\ IsWebauthnSignature(raw) =>
          FirstString(raw).val = <<Algo>>
    BY <2>3 DEF IsWebauthnSignature
  <2> QED
    BY <2>2, <2>4 DEF Recognised
<1> QED
  BY <1>1, Formed, PTL
-----------------------------------------------------------------------------
(* The two numbers of a signature.                                           *)

\* A number as it is written, after its length.
Digits(n) == IF Bytes(n)[1] >= 128 THEN <<0>> \o Bytes(n) ELSE Bytes(n)

LEMMA DigitsType ==
  ASSUME NEW n \in 1 .. Order - 1
  PROVE  /\ Digits(n) \in Seq(Nat) /\ Len(Digits(n)) <= FieldSize + 1
         /\ Mpint(n) = EncodeString(Digits(n))
<1>1. Bytes(n) \in Seq(Nat) /\ Len(Bytes(n)) <= FieldSize
  BY BytesOfNumber, BytesAreCells
<1>2. FieldSize \in Nat
  BY OrderAssumption
<1> QED
  BY <1>1, <1>2 DEF Digits, Mpint

\* The reader of numbers takes the digits of a number and nothing else for it.
LEMMA DigitsTaken ==
  ASSUME NEW val \in Seq(Byte), NEW rest \in Seq(Nat), NEW buf \in Seq(Nat),
         ReadSshBytes[buf].err = "none",
         ReadSshBytes[buf].val = val, ReadSshBytes[buf].rest = rest,
         ReadSshMpint(buf).err = "none", IsScalar(ReadSshMpint(buf).val)
  PROVE  /\ ReadSshMpint(buf).rest = rest
         /\ Scalar(ReadSshMpint(buf).val) \in 1 .. Order - 1
         /\ val = Digits(Scalar(ReadSshMpint(buf).val))
<1> DEFINE m == ReadSshMpint(buf)
           t == Tail(val)
<1>1. Len(val) \in Nat /\ \A i \in 1 .. Len(val) : val[i] \in Nat
  BY BytesAreCells
<1>2. /\ Len(m.val) <= FieldSize /\ Scalar(m.val) \in 1 .. Order - 1
  BY DEF IsScalar
<1>3. Err("Parse").err # "none"
  BY DEF Err
<1>4. CASE val = <<>>
  <2>1. m.val = <<>>
    BY <1>4 DEF ReadSshMpint
  <2>2. Scalar(<<>>) = 0
    <3>1. <<>> \in Seq(Nat) /\ Len(<<>>) = 0
      OBVIOUS
    <3>2. FirstBytes(<<>>)[0] = 0
      BY <3>1, FirstBytesRecord DEF FirstRecord
    <3> QED
      BY <3>1, <3>2 DEF Scalar
  <2> QED
    BY <1>2, <2>1, <2>2
<1>5. CASE val # <<>>
  <2> DEFINE bytes == ReadSshBytes[buf]
             h == val[1]
  <2>1. m = IF h >= 128 THEN Err("Parse")
            ELSE IF h # 0 THEN bytes
            ELSE IF Len(val) = 1 THEN Err("Parse")
            ELSE IF val[2] < 128 THEN Err("Parse")
            ELSE Got(t, rest)
    BY <1>5 DEF ReadSshMpint
  <2>2. h \in Nat /\ Len(val) # 0
    BY <1>1, <1>5
  <2>3. bytes.val = val /\ bytes.rest = rest /\ m.err = "none"
    OBVIOUS
  <2>4. val = <<h>> \o t /\ t \in Seq(Byte) /\ Len(t) = Len(val) - 1
        /\ \A i \in 1 .. Len(t) : t[i] = val[i + 1]
    <3>1. val[1] = Head(val) /\ val = <<Head(val)>> \o Tail(val)
      BY <1>5
    <3> QED
      BY <1>5, <3>1, HeadTailProperties
  <2> HIDE DEF m, bytes, h, t
  <2>5. ~(h >= 128)
    BY <1>3, <2>1, <2>3
  <2>6. CASE h # 0
    <3>1. m.val = val /\ m.rest = rest
      BY <2>1, <2>3, <2>5, <2>6
    <3>2. Bytes(Scalar(val)) = val
      BY <1>2, <1>5, <2>6, <3>1, BytesOfScalar DEF m, h
    <3>3. val = Digits(Scalar(val))
      BY <2>5, <3>2 DEF Digits, h
    <3> QED
      BY <1>2, <3>1, <3>3 DEF m
  <2>7. CASE h = 0
    <3>1. Len(val) # 1 /\ ~(val[2] < 128) /\ m = Got(t, rest)
      BY <1>3, <2>1, <2>3, <2>5, <2>7
    <3>2. m.val = t /\ m.rest = rest
      BY <3>1 DEF Got
    <3>3. Len(t) >= 1 /\ 2 \in 1 .. Len(val)
      BY <1>1, <2>2, <2>4, <3>1
    <3>4. t[1] = val[2] /\ val[2] \in Nat
      BY <1>1, <2>4, <3>3
    <3>5. t # <<>> /\ t[1] # 0 /\ t[1] >= 128
      BY <3>1, <3>3, <3>4
    <3>6. Len(t) <= FieldSize
      BY <1>2, <3>2 DEF m
    <3>7. Bytes(Scalar(t)) = t
      BY <2>4, <3>5, <3>6, BytesOfScalar
    <3>8. val = Digits(Scalar(t))
      BY <2>4, <2>7, <3>5, <3>7 DEF Digits
    <3> QED
      BY <1>2, <3>2, <3>8 DEF m
  <2> QED
    BY <2>6, <2>7
<1> QED
  BY <1>4, <1>5

LEMMA NumberTaken ==
  ASSUME NEW buf \in Seq(Nat), ReadSshBytes[buf].val \in Seq(Byte),
         ReadSshMpint(buf).err = "none", IsScalar(ReadSshMpint(buf).val)
  PROVE  LET n == Scalar(ReadSshMpint(buf).val)
             rest == ReadSshMpint(buf).rest
         IN  /\ n \in 1 .. Order - 1 /\ rest \in Seq(Nat)
             /\ rest = ReadSshBytes[buf].rest /\ buf = Mpint(n) \o rest
<1> DEFINE n == Scalar(ReadSshMpint(buf).val)
           rest == ReadSshMpint(buf).rest
           val == ReadSshBytes[buf].val
<1>1. ReadSshBytes[buf].err = "none"
  BY DEF ReadSshMpint
<1>2. ReadSshBytes[buf].rest \in Seq(Nat) /\ buf = EncodeString(val) \o ReadSshBytes[buf].rest
  BY <1>1, FieldTaken
<1>3. /\ rest = ReadSshBytes[buf].rest /\ n \in 1 .. Order - 1 /\ val = Digits(n)
  BY <1>1, <1>2, DigitsTaken
<1> HIDE DEF n, rest, val
<1>4. Mpint(n) = EncodeString(val)
  BY <1>3, DigitsType
<1> QED
  BY <1>2, <1>3, <1>4 DEF n, rest

LEMMA MpintFails ==
  ASSUME NEW buf \in Seq(Nat), ReadSshMpint(buf).err # "none"
  PROVE  ReadSshMpint(buf).rest = <<>>
<1>1. ReadSshBytes[buf].err # "none" => ReadSshBytes[buf].rest = <<>>
  BY FailedRead
<1>2. Err("Parse").rest = <<>>
  BY DEF Err
<1>3. \A x, y : Got(x, y).err = "none"
  BY DEF Got
<1> QED
  BY <1>1, <1>2, <1>3 DEF ReadSshMpint

\* The two numbers that are parsed are written in one way only.
LEMMA EcdsaTaken ==
  ASSUME NEW ecdsa \in Seq(Nat), Numbers(ecdsa) \subseteq Seq(Byte),
         ParseEcdsaP256Signature(ecdsa).err = "none"
  PROVE  LET sig == ParseEcdsaP256Signature(ecdsa).val IN
         /\ sig.r \in 1 .. Order - 1 /\ sig.s \in 1 .. Order - 1
         /\ ecdsa = Mpint(sig.r) \o Mpint(sig.s)
<1> DEFINE r == ReadSshMpint(ecdsa)
           s == ReadSshMpint(r.rest)
           m == Scalar(r.val)
           n == Scalar(s.val)
<1>1. /\ s.err = "none" /\ s.rest = <<>> /\ IsScalar(r.val) /\ IsScalar(s.val)
      /\ ParseEcdsaP256Signature(ecdsa) = Got([r |-> m, s |-> n], <<>>)
  BY DEF ParseEcdsaP256Signature, Err
<1>2. r.err = "none"
  <2>1. r.err # "none" => r.rest = <<>>
    BY MpintFails
  <2>2. ReadSshMpint(<<>>).err # "none"
    BY NothingLeft DEF ReadSshMpint
  <2> QED
    BY <1>1, <2>1, <2>2
<1>3. /\ ReadSshBytes[ecdsa].val \in Seq(Byte)
      /\ ReadSshBytes[ReadSshBytes[ecdsa].rest].val \in Seq(Byte)
  BY DEF Numbers
<1>4. /\ m \in 1 .. Order - 1 /\ r.rest \in Seq(Nat)
      /\ r.rest = ReadSshBytes[ecdsa].rest /\ ecdsa = Mpint(m) \o r.rest
  BY <1>1, <1>2, <1>3, NumberTaken
<1>5. ReadSshBytes[r.rest].val \in Seq(Byte)
  BY <1>3, <1>4
<1> HIDE DEF r
<1>6. n \in 1 .. Order - 1 /\ r.rest = Mpint(n) \o s.rest
  BY <1>1, <1>4, <1>5, NumberTaken
<1> HIDE DEF s, m, n
<1>7. Mpint(n) \in Seq(Nat)
  BY <1>6, DigitsType, EncodedType
<1>8. r.rest = Mpint(n)
  BY <1>1, <1>6, <1>7, ConcatEmptySeq
<1>9. /\ ParseEcdsaP256Signature(ecdsa).val.r = m
      /\ ParseEcdsaP256Signature(ecdsa).val.s = n
  <2>1. ParseEcdsaP256Signature(ecdsa).val = [r |-> m, s |-> n]
    BY <1>1 DEF Got
  <2> QED
    BY <2>1
<1>10. ecdsa = Mpint(m) \o Mpint(n)
  BY <1>4, <1>8
<1> QED
  BY <1>4, <1>6, <1>9, <1>10

LEMMA TwoCells == \A f, c \in Nat : <<f, c>> = <<f>> \o <<c>>
<1> SUFFICES ASSUME NEW f \in Nat, NEW c \in Nat PROVE <<f, c>> = <<f>> \o <<c>>
  OBVIOUS
<1>1. <<f>> \in Seq(Nat)
  OBVIOUS
<1>2. Append(<<f>>, c) = <<f>> \o <<c>>
  BY <1>1, AppendIsConcat
<1>3. Append(<<f>>, c) = <<f, c>>
  <2> DEFINE x == Append(<<f>>, c)
             y == <<f, c>>
  <2>1. x \in Seq(Nat) /\ Len(x) = 2 /\ x[1] = f /\ x[2] = c
    BY <1>1, AppendProperties
  <2>2. y \in Seq(Nat) /\ Len(y) = 2 /\ y[1] = f /\ y[2] = c
    OBVIOUS
  <2> HIDE DEF x, y
  <2>3. \A i \in 1 .. Len(x) : x[i] = y[i]
    <3>1. \A i \in 1 .. 2 : i = 1 \/ i = 2
      OBVIOUS
    <3> QED
      BY <2>1, <2>2, <3>1
  <2>4. x = y
    BY <2>1, <2>2, <2>3, SeqEqual
  <2> QED
    BY <2>4 DEF x, y
<1> QED
  BY <1>2, <1>3

\* An assertion as a blob, from left to right.
Regroups5(x1, x2, f, c, x3, x4, x5) ==
  x1 \o x2 \o <<f, c>> \o x3 \o x4 \o x5 =
    x1 \o (x2 \o (<<f>> \o (<<c>> \o (x3 \o (x4 \o x5)))))

LEMMA Regrouped5 ==
  ASSUME NEW x1 \in Seq(Nat), NEW x2 \in Seq(Nat), NEW f \in Nat, NEW c \in Nat,
         NEW x3 \in Seq(Nat), NEW x4 \in Seq(Nat), NEW x5 \in Seq(Nat)
  PROVE  Regroups5(x1, x2, f, c, x3, x4, x5)
<1> DEFINE p == x1 \o x2
           one == <<f>>
           two == <<c>>
           fc == <<f, c>>
           q == p \o fc
           y == x4 \o x5
           z == x3 \o y
           v == two \o z
           w == one \o v
<1>1. one \in Seq(Nat) /\ two \in Seq(Nat) /\ fc \in Seq(Nat) /\ fc = one \o two
  <2>1. one \in Seq(Nat) /\ two \in Seq(Nat) /\ fc \in Seq(Nat)
    OBVIOUS
  <2> QED
    BY <2>1, TwoCells
<1> HIDE DEF one, two, fc
<1>2. p \in Seq(Nat) /\ y \in Seq(Nat)
  OBVIOUS
<1> HIDE DEF p, y
<1>3. q \in Seq(Nat) /\ z \in Seq(Nat)
  BY <1>1, <1>2
<1> HIDE DEF q, z
<1>4. v \in Seq(Nat) /\ q \o x3 \in Seq(Nat)
  BY <1>1, <1>3
<1> HIDE DEF v
<1>5. w \in Seq(Nat)
  BY <1>1, <1>4
<1> HIDE DEF w
<1>6. ((q \o x3) \o x4) \o x5 = (q \o x3) \o y
  <2>1. Regroups(q \o x3, x4, x5)
    BY <1>4, Regrouped
  <2> QED
    BY <2>1 DEF Regroups, y
<1>7. (q \o x3) \o y = q \o z
  <2>1. Regroups(q, x3, y)
    BY <1>2, <1>3, Regrouped
  <2> QED
    BY <2>1 DEF Regroups, z
<1>8. q \o z = p \o (fc \o z)
  <2>1. Regroups(p, fc, z)
    BY <1>1, <1>2, <1>3, Regrouped
  <2> QED
    BY <2>1 DEF Regroups, q
<1>9. fc \o z = w
  <2>1. Regroups(one, two, z)
    BY <1>1, <1>3, Regrouped
  <2> QED
    BY <1>1, <2>1 DEF Regroups, w, v
<1>10. p \o w = x1 \o (x2 \o w)
  <2>1. Regroups(x1, x2, w)
    BY <1>5, Regrouped
  <2> QED
    BY <2>1 DEF Regroups, p
<1>11. ((q \o x3) \o x4) \o x5 = x1 \o (x2 \o w)
  BY <1>6, <1>7, <1>8, <1>9, <1>10
<1> QED
  BY <1>11 DEF Regroups5, q, p, fc, w, v, one, two, z, y

LEMMA EncodedParts ==
  ASSUME NEW a \in Signed, NEW s \in 1 .. Order - 1, NEW algo \in {Algo, SkAlgo}
  PROVE  LET ecdsa == Mpint(a.r) \o Mpint(s)
             rest == After(a.flags, a.counter, Json[a.json].origin, a.json, a.extensions)
         IN  /\ <<algo>> \in Seq(Nat) /\ ecdsa \in Seq(Nat) /\ rest \in Seq(Nat)
             /\ Encode(algo, a, s) = Blob(<<algo>>, ecdsa, rest)
<1> DEFINE name == <<algo>>
           ecdsa == Mpint(a.r) \o Mpint(s)
           origin == Json[a.json].origin
           rest == After(a.flags, a.counter, origin, a.json, a.extensions)
           x1 == EncodeString(name)
           x2 == EncodeString(ecdsa)
           x3 == EncodeString(origin)
           x4 == EncodeString(a.json)
           x5 == EncodeString(a.extensions)
<1>1. /\ a.r \in 1 .. Order - 1 /\ a.flags \in Nat /\ a.counter \in Nat
      /\ a.json \in Seq(Nat) /\ a.extensions \in Seq(Nat) /\ origin \in Seq(Nat)
  BY SignedAssumption DEF Carried
<1>2. Mpint(a.r) \in Seq(Nat) /\ Mpint(s) \in Seq(Nat)
  BY <1>1, DigitsType, EncodedType
<1>3. name \in Seq(Nat)
  BY DEF Algo, SkAlgo
<1>4. ecdsa \in Seq(Nat)
  BY <1>2
<1>5. rest \in Seq(Nat)
  BY <1>1, AfterIsLong
<1> HIDE DEF name, ecdsa, origin
<1>6. x1 \in Seq(Nat) /\ x2 \in Seq(Nat) /\ x3 \in Seq(Nat) /\ x4 \in Seq(Nat) /\ x5 \in Seq(Nat)
  BY <1>1, <1>3, <1>4, EncodedType
<1> HIDE DEF x1, x2, x3, x4, x5
<1>7. x1 \o x2 \o <<a.flags, a.counter>> \o x3 \o x4 \o x5 =
        x1 \o (x2 \o (<<a.flags>> \o (<<a.counter>> \o (x3 \o (x4 \o x5)))))
  <2>1. Regroups5(x1, x2, a.flags, a.counter, x3, x4, x5)
    BY <1>1, <1>6, Regrouped5
  <2> QED
    BY <2>1 DEF Regroups5
<1>8. Encode(algo, a, s) = x1 \o x2 \o <<a.flags, a.counter>> \o x3 \o x4 \o x5
  BY DEF Encode, x1, x2, x3, x4, x5, name, ecdsa, origin
<1>9. Blob(name, ecdsa, rest) =
        x1 \o (x2 \o (<<a.flags>> \o (<<a.counter>> \o (x3 \o (x4 \o x5)))))
  BY DEF Blob, After, x1, x2, x3, x4, x5
<1> QED
  BY <1>3, <1>4, <1>5, <1>7, <1>8, <1>9 DEF name, ecdsa, origin
-----------------------------------------------------------------------------
(* A signature that verifies is the one encoding of an assertion.            *)

LEMMA VerifiedIsEncoded ==
  ASSUME NEW algo \in Seq(Nat), NEW ecdsa \in Seq(Nat), NEW rest \in Seq(Nat),
         Numbers(ecdsa) \subseteq Seq(Byte), VerifyWebauthnSk(Blob(algo, ecdsa, rest))
  PROVE  \E a \in Signed, name \in {Algo, SkAlgo} :
           /\ Answers(a)
           /\ \E s \in {a.s, Order - a.s} : Blob(algo, ecdsa, rest) = Encode(name, a, s)
<1> DEFINE blob == Blob(algo, ecdsa, rest)
           sig  == ParseWebauthnSignature(blob).val
           tail == After(sig.flags, sig.counter, sig.origin, sig.json, sig.extensions)
           pair == ParseEcdsaP256Signature(sig.ecdsa)
           data == <<Key.application, sig.flags, sig.counter, sig.extensions, sig.json>>
<1>1. blob \in Seq(Nat)
  BY BlobType
<1>2. /\ ParseWebauthnSignature(blob).err = "none"
      /\ ValidFlags(sig.flags, sig.extensions) /\ ValidOrigin(sig.origin)
      /\ ValidClientData(sig.json, sig.origin) /\ VerifyEcdsaP256(sig.ecdsa, data)
  BY DEF VerifyWebauthnSk
<1> HIDE DEF blob
<1>3. /\ sig.ecdsa \in Seq(Nat) /\ sig.flags \in Nat /\ sig.counter \in Nat
      /\ sig.origin \in Seq(Nat) /\ sig.json \in Seq(Nat) /\ sig.extensions \in Seq(Nat)
      /\ \E name \in {Algo, SkAlgo} : blob = Blob(<<name>>, sig.ecdsa, tail)
  BY <1>1, <1>2, SignatureTaken
<1> HIDE DEF sig
<1>4. tail \in Seq(Nat)
  BY <1>3, AfterIsLong
<1>5. PICK name \in {Algo, SkAlgo} : blob = Blob(<<name>>, sig.ecdsa, tail)
  BY <1>3
<1> HIDE DEF tail
<1>6. sig.ecdsa = ecdsa
  <2>1. <<name>> \in Seq(Nat)
    BY DEF Algo, SkAlgo
  <2> DEFINE n == <<name>>
  <2>2. n \in Seq(Nat) /\ Blob(algo, ecdsa, rest) = Blob(n, sig.ecdsa, tail)
    BY <1>5, <2>1 DEF blob
  <2> HIDE DEF n
  <2> QED
    BY <1>3, <1>4, <2>2, SameBlob
<1>7. PICK a \in Signed :
        /\ a.cred = Key.cred
        /\ data = <<a.application, a.flags, a.counter, a.extensions, a.json>>
        /\ pair.val.r = a.r /\ pair.val.s \in {a.s, Order - a.s}
  BY <1>2 DEF VerifyEcdsaP256
<1>8. pair.err = "none"
  BY <1>2 DEF VerifyEcdsaP256
<1>9. /\ Key.application = a.application /\ sig.flags = a.flags /\ sig.counter = a.counter
      /\ sig.extensions = a.extensions /\ sig.json = a.json
  BY <1>7
<1>10. /\ pair.val.r \in 1 .. Order - 1 /\ pair.val.s \in 1 .. Order - 1
       /\ sig.ecdsa = Mpint(pair.val.r) \o Mpint(pair.val.s)
  BY <1>3, <1>6, <1>8, EcdsaTaken
<1> HIDE DEF pair, data
<1>11. sig.origin = Json[a.json].origin
  BY <1>2, <1>9 DEF ValidClientData
<1>12. Answers(a)
  BY <1>2, <1>7, <1>9, <1>11 DEF Answers, ValidFlags, ValidClientData
<1> DEFINE s == pair.val.s
<1>13. Encode(name, a, s) =
         Blob(<<name>>, Mpint(a.r) \o Mpint(s),
              After(a.flags, a.counter, Json[a.json].origin, a.json, a.extensions))
  BY <1>10, EncodedParts
<1>14. blob = Encode(name, a, s)
  BY <1>5, <1>7, <1>9, <1>10, <1>11, <1>13 DEF tail
<1>15. s \in {a.s, Order - a.s}
  BY <1>7
<1> QED
  BY <1>12, <1>14, <1>15 DEF blob

\* Whatever the agent puts together, a signature that verifies is the one
\* encoding of an assertion of the credential that answers the challenge: no
\* field is unsigned, no number has a second form, nothing follows.
THEOREM VerifiedHasOneEncoding == Spec => []OneEncoding
<1>1. Cells /\ WellFormed => OneEncoding
  <2> SUFFICES ASSUME Cells, WellFormed, kind = "signature", VerifyWebauthnSk(raw)
               PROVE  \E a \in Signed, algo \in {Algo, SkAlgo} :
                        Answers(a) /\ \E s \in {a.s, Order - a.s} : raw = Encode(algo, a, s)
    BY DEF OneEncoding
  <2>1. raw \in Seq(Nat) /\ part \in Nat
    BY DEF Cells
  <2>2. part >= 2
    <3> SUFFICES ASSUME part < 2 PROVE FALSE
      BY <2>1
    <3>1. \E algo \in Seq(Nat) : raw \in {<<>>, EncodeString(algo)}
      <4>1. <<>> \in Seq(Nat)
        OBVIOUS
      <4> QED
        BY <2>1, <4>1 DEF WellFormed
    <3>2. ParseWebauthnSignature(raw).err # "none"
      BY <2>1, <3>1, OneStringIsShort
    <3> QED
      BY <3>2 DEF VerifyWebauthnSk
  <2>3. PICK algo, ecdsa, rest \in Seq(Nat) :
          raw = Blob(algo, ecdsa, rest) /\ Numbers(ecdsa) \subseteq Seq(Byte)
    BY <2>1, <2>2, SMTT(30) DEF WellFormed
  <2> QED
    BY <2>3, VerifiedIsEncoded
<1> QED
  BY <1>1, Formed, PTL
-----------------------------------------------------------------------------
(* And that encoding verifies.                                               *)

LEMMA CellGiven ==
  ASSUME NEW n \in Nat, NEW r \in Seq(Nat)
  PROVE  /\ <<n>> \o r \in Seq(Nat) /\ ReadU32(<<n>> \o r).err = "none"
         /\ ReadU32(<<n>> \o r).val = n /\ ReadU32(<<n>> \o r).rest = r
<1> DEFINE buf == <<n>> \o r
<1>1. buf \in Seq(Nat) /\ buf # <<>> /\ Head(buf) = n /\ Tail(buf) = r
  BY Prefixed
<1> HIDE DEF buf
<1>2. ReadU32(buf) = Got(n, r)
  BY <1>1 DEF ReadU32
<1> QED
  BY <1>1, <1>2 DEF Got, buf

LEMMA NumberGiven ==
  ASSUME NEW n \in 1 .. Order - 1, NEW rest \in Seq(Nat)
  PROVE  LET m == ReadSshMpint(Mpint(n) \o rest) IN
         m.err = "none" /\ m.val = Bytes(n) /\ m.rest = rest
<1> DEFINE buf == Mpint(n) \o rest
           b == Bytes(n)
           val == Digits(n)
           bytes == ReadSshBytes[buf]
           m == ReadSshMpint(buf)
<1>1. /\ b \in Seq(Byte) /\ b # <<>> /\ Len(b) <= FieldSize /\ b[1] # 0
      /\ b \in Seq(Nat) /\ Len(b) \in Nat
  BY BytesOfNumber, BytesAreCells
<1>2. b[1] \in Nat
  BY <1>1
<1>3. val \in Seq(Nat) /\ Len(val) <= FieldSize + 1 /\ buf = EncodeString(val) \o rest
  BY DigitsType
<1>4. Len(val) <= MaxString
  <2>1. FieldSize \in Nat /\ MaxString \in Nat /\ 2 * FieldSize + 4 <= MaxString
    BY OrderAssumption, LimitAssumption
  <2>2. Len(val) \in Nat
    BY <1>3
  <2> QED
    BY <1>3, <2>1, <2>2
<1> HIDE DEF b, val, buf
<1>5. bytes.err = "none" /\ bytes.val = val /\ bytes.rest = rest
  BY <1>3, <1>4, FieldGiven
<1>6. m = IF val = <<>> THEN bytes
          ELSE IF val[1] >= 128 THEN Err("Parse")
          ELSE IF val[1] # 0 THEN bytes
          ELSE IF Len(val) = 1 THEN Err("Parse")
          ELSE IF val[2] < 128 THEN Err("Parse")
          ELSE Got(Tail(val), rest)
  BY <1>5 DEF ReadSshMpint
<1>7. CASE b[1] >= 128
  <2>1. val = <<0>> \o b
    BY <1>7 DEF val, Digits, b
  <2>2. val # <<>> /\ val[1] = 0 /\ Len(val) # 1 /\ val[2] = b[1] /\ Tail(val) = b
    <3> DEFINE v == <<0>> \o b
    <3>1. /\ v \in Seq(Nat) /\ v # <<>> /\ Tail(v) = b
          /\ Len(v) = 1 + Len(b) /\ v[1] = 0 /\ \A i \in 1 .. Len(b) : v[i + 1] = b[i]
      BY <1>1, Prefixed
    <3> HIDE DEF v
    <3>2. Len(b) >= 1
      BY <1>1
    <3>3. Len(v) # 1 /\ v[2] = b[1]
      <4>1. Len(b) \in Nat /\ 1 \in 1 .. Len(b) /\ 1 + 1 = 2
        BY <1>1, <3>2
      <4> QED
        BY <3>1, <4>1
    <3> QED
      BY <2>1, <3>1, <3>3 DEF v
  <2>3. ~(val[1] >= 128) /\ ~(val[2] < 128)
    BY <1>2, <1>7, <2>2
  <2>4. m = Got(b, rest)
    BY <1>6, <2>2, <2>3
  <2> QED
    BY <2>4 DEF Got, buf, b
<1>8. CASE ~(b[1] >= 128)
  <2>1. val = b
    BY <1>8 DEF val, Digits, b
  <2>2. m = bytes
    BY <1>1, <1>6, <1>8, <2>1
  <2> QED
    BY <1>5, <2>1, <2>2 DEF buf, b
<1> QED
  BY <1>7, <1>8

GivesPair(ecdsa, r, s) ==
  /\ Carried(ecdsa)
  /\ ParseEcdsaP256Signature(ecdsa).err = "none"
  /\ ParseEcdsaP256Signature(ecdsa).val.r = r
  /\ ParseEcdsaP256Signature(ecdsa).val.s = s

LEMMA EcdsaGiven ==
  ASSUME NEW r \in 1 .. Order - 1, NEW s \in 1 .. Order - 1
  PROVE  GivesPair(Mpint(r) \o Mpint(s), r, s)
<1> DEFINE x == Mpint(r)
           y == Mpint(s)
           ecdsa == x \o y
           m == ReadSshMpint(ecdsa)
           n == ReadSshMpint(m.rest)
<1>1. /\ x \in Seq(Nat) /\ Len(x) <= FieldSize + 2
      /\ y \in Seq(Nat) /\ Len(y) <= FieldSize + 2
  <2>1. FieldSize \in Nat
    BY OrderAssumption
  <2>2. ASSUME NEW d \in Seq(Nat), Len(d) <= FieldSize + 1
        PROVE  EncodeString(d) \in Seq(Nat) /\ Len(EncodeString(d)) <= FieldSize + 2
    BY <2>1, <2>2 DEF EncodeString
  <2> QED
    BY <2>2, DigitsType
<1> HIDE DEF x, y
<1>2. ecdsa \in Seq(Nat) /\ Len(ecdsa) <= MaxString
  <2>1. FieldSize \in Nat /\ MaxString \in Nat /\ 2 * FieldSize + 4 <= MaxString
    BY OrderAssumption, LimitAssumption
  <2>2. ecdsa \in Seq(Nat) /\ Len(ecdsa) = Len(x) + Len(y) /\ Len(x) \in Nat /\ Len(y) \in Nat
    BY <1>1
  <2> QED
    BY <1>1, <2>1, <2>2
<1>3. m.err = "none" /\ m.val = Bytes(r) /\ m.rest = y
  BY <1>1, NumberGiven DEF x
<1>4. n.err = "none" /\ n.val = Bytes(s) /\ n.rest = <<>>
  <2>1. <<>> \in Seq(Nat) /\ y = Mpint(s) \o <<>>
    BY <1>1, ConcatEmptySeq DEF y
  <2> DEFINE none == <<>>
  <2>2. none \in Seq(Nat) /\ m.rest = Mpint(s) \o none
    BY <1>3, <2>1
  <2> HIDE DEF none, m
  <2>3. n.err = "none" /\ n.val = Bytes(s) /\ n.rest = none
    BY <2>2, NumberGiven
  <2> QED
    BY <2>3 DEF none
<1>5. /\ IsScalar(Bytes(r)) /\ Scalar(Bytes(r)) = r
      /\ IsScalar(Bytes(s)) /\ Scalar(Bytes(s)) = s
  BY BytesOfNumber DEF IsScalar
<1>6. ParseEcdsaP256Signature(ecdsa) = Got([r |-> Scalar(m.val), s |-> Scalar(n.val)], <<>>)
  BY <1>3, <1>4, <1>5 DEF ParseEcdsaP256Signature
<1> HIDE DEF ecdsa, m, n
<1>7. ParseEcdsaP256Signature(ecdsa) = Got([r |-> r, s |-> s], <<>>)
  BY <1>3, <1>4, <1>5, <1>6
<1>8. /\ ParseEcdsaP256Signature(ecdsa).err = "none"
      /\ ParseEcdsaP256Signature(ecdsa).val = [r |-> r, s |-> s]
  BY <1>7 DEF Got
<1> QED
  BY <1>2, <1>8 DEF ecdsa, x, y, GivesPair, Carried

Reads(buf, val, rest) ==
  ReadSshBytes[buf].err = "none" /\ ReadSshBytes[buf].val = val /\ ReadSshBytes[buf].rest = rest

LEMMA CarriedGiven ==
  ASSUME NEW bytes, Carried(bytes), NEW r \in Seq(Nat)
  PROVE  EncodeString(bytes) \o r \in Seq(Nat) /\ Reads(EncodeString(bytes) \o r, bytes, r)
<1>1. bytes \in Seq(Nat) /\ Len(bytes) <= MaxString
  BY DEF Carried
<1>2. EncodeString(bytes) \o r \in Seq(Nat)
  BY <1>1, EncodedString
<1> QED
  BY <1>1, <1>2, FieldGiven DEF Reads

LEMMA SignatureGiven ==
  ASSUME NEW name \in {Algo, SkAlgo}, NEW ecdsa, Carried(ecdsa),
         NEW flags \in Nat, NEW counter \in Nat,
         NEW origin, Carried(origin), IsUtf8(origin),
         NEW json, Carried(json), IsUtf8(json),
         NEW extensions, Carried(extensions)
  PROVE  ParseWebauthnSignature(
             Blob(<<name>>, ecdsa, After(flags, counter, origin, json, extensions))) =
           Got([ecdsa |-> ecdsa, flags |-> flags, counter |-> counter,
                origin |-> origin, json |-> json, extensions |-> extensions], <<>>)
<1> DEFINE e == EncodeString(extensions)
           d == EncodeString(json) \o e
           c == EncodeString(origin) \o d
           b == <<counter>> \o c
           a == <<flags>> \o b
           w == EncodeString(ecdsa) \o a
           algo == <<name>>
           blob == EncodeString(algo) \o w
           U(buf, val, rest) == /\ ReadU32(buf).err = "none"
                                /\ ReadU32(buf).val = val /\ ReadU32(buf).rest = rest
<1>1. e \in Seq(Nat) /\ Reads(e, extensions, <<>>)
  <2> DEFINE none == <<>>
  <2>1. e \in Seq(Nat) /\ none \in Seq(Nat) /\ e = e \o none
    BY EncodedType, ConcatEmptySeq DEF Carried
  <2> HIDE DEF none
  <2>2. Reads(EncodeString(extensions) \o none, extensions, none)
    BY <2>1, CarriedGiven
  <2> QED
    BY <2>1, <2>2 DEF none
<1> HIDE DEF e
<1>2. d \in Seq(Nat) /\ Reads(d, json, e)
  BY <1>1, CarriedGiven
<1> HIDE DEF d
<1>3. c \in Seq(Nat) /\ Reads(c, origin, d)
  BY <1>2, CarriedGiven
<1> HIDE DEF c
<1>4. b \in Seq(Nat) /\ U(b, counter, c)
  BY <1>3, CellGiven
<1> HIDE DEF b
<1>5. a \in Seq(Nat) /\ U(a, flags, b)
  BY <1>4, CellGiven
<1> HIDE DEF a
<1>6. w \in Seq(Nat) /\ Reads(w, ecdsa, a)
  BY <1>5, CarriedGiven
<1> HIDE DEF w
<1>7. algo \in Seq(Nat) /\ Len(algo) = 1 /\ algo \in {<<Algo>>, <<SkAlgo>>}
  BY DEF Algo, SkAlgo
<1> HIDE DEF algo
<1>8. Len(algo) <= MaxString
  <2>1. MaxString \in Nat /\ 1 <= MaxString
    BY OrderAssumption, LimitAssumption
  <2> QED
    BY <1>7, <2>1
<1>9. Reads(blob, algo, w)
  BY <1>6, <1>7, <1>8, CarriedGiven DEF Carried
<1> HIDE DEF blob
<1>10. ParseWebauthnSignature(blob) =
         Got([ecdsa |-> ecdsa, flags |-> flags, counter |-> counter,
              origin |-> origin, json |-> json, extensions |-> extensions], <<>>)
  <2> DEFINE A == ReadSshBytes[blob]
             E == ReadSshBytes[A.rest]
             L == ReadU32(E.rest)
             C == ReadU32(L.rest)
             O == ReadSshBytes[C.rest]
             J == ReadSshBytes[O.rest]
             X == ReadSshBytes[J.rest]
  <2>1. A.val = algo /\ A.rest = w
    BY <1>9 DEF Reads
  <2>2. E.val = ecdsa /\ E.rest = a
    BY <1>6, <2>1 DEF Reads
  <2>3. L.val = flags /\ L.rest = b
    BY <1>5, <2>2
  <2>4. C.val = counter /\ C.rest = c
    BY <1>4, <2>3
  <2>5. O.val = origin /\ O.rest = d
    BY <1>3, <2>4 DEF Reads
  <2>6. J.val = json /\ J.rest = e
    BY <1>2, <2>5 DEF Reads
  <2>7. X.err = "none" /\ X.val = extensions /\ X.rest = <<>>
    BY <1>1, <2>6 DEF Reads
  <2>8. ParseWebauthnSignature(blob) =
          IF \/ X.err # "none"
             \/ A.val \notin {<<Algo>>, <<SkAlgo>>}
             \/ ~IsUtf8(O.val) \/ ~IsUtf8(J.val)
             \/ X.rest # <<>>
          THEN Err("Parse")
          ELSE Got([ecdsa |-> E.val, flags |-> L.val, counter |-> C.val,
                    origin |-> O.val, json |-> J.val, extensions |-> X.val], <<>>)
    BY DEF ParseWebauthnSignature
  <2> HIDE DEF A, E, L, C, O, J, X
  <2> QED
    BY <1>7, <2>1, <2>2, <2>3, <2>4, <2>5, <2>6, <2>7, <2>8
<1>11. blob = Blob(<<name>>, ecdsa, After(flags, counter, origin, json, extensions))
  BY DEF Blob, After, blob, algo, w, a, b, c, d, e
<1> QED
  BY <1>10, <1>11

LEMMA EncodedVerifies ==
  ASSUME NEW a \in Signed, NEW algo \in {Algo, SkAlgo}, NEW s \in {a.s, Order - a.s}, Answers(a)
  PROVE  VerifyWebauthnSk(Encode(algo, a, s))
<1> DEFINE ecdsa == Mpint(a.r) \o Mpint(s)
           origin == Json[a.json].origin
           blob == Encode(algo, a, s)
           sig == [ecdsa |-> ecdsa, flags |-> a.flags, counter |-> a.counter,
                   origin |-> origin, json |-> a.json, extensions |-> a.extensions]
           pair == ParseEcdsaP256Signature(ecdsa)
           data == <<Key.application, a.flags, a.counter, a.extensions, a.json>>
<1>1. /\ a.r \in 1 .. Order - 1 /\ s \in 1 .. Order - 1
      /\ a.flags \in Nat /\ a.counter \in Nat /\ Carried(a.extensions)
      /\ a.json \in DOMAIN Json /\ Carried(a.json) /\ IsUtf8(a.json)
      /\ Carried(origin) /\ IsUtf8(origin)
  <2>1. s \in 1 .. Order - 1
    <3>1. a.s \in 1 .. Order - 1 /\ Order \in Nat
      BY SignedAssumption, OrderAssumption
    <3> QED
      BY <3>1
  <2> QED
    BY <2>1, SignedAssumption
<1>2. Carried(ecdsa) /\ pair.err = "none" /\ pair.val.r = a.r /\ pair.val.s = s
  <2>1. GivesPair(ecdsa, a.r, s)
    BY <1>1, EcdsaGiven
  <2> HIDE DEF ecdsa
  <2> QED
    BY <2>1 DEF GivesPair
<1>3. blob = Blob(<<algo>>, ecdsa, After(a.flags, a.counter, origin, a.json, a.extensions))
  BY <1>1, EncodedParts
<1> HIDE DEF ecdsa, origin, blob, pair
<1>4. ParseWebauthnSignature(blob) = Got(sig, <<>>)
  BY <1>1, <1>2, <1>3, SignatureGiven
<1>5. /\ ParseWebauthnSignature(blob).err = "none"
      /\ ParseWebauthnSignature(blob).val.ecdsa = ecdsa
      /\ ParseWebauthnSignature(blob).val.flags = a.flags
      /\ ParseWebauthnSignature(blob).val.counter = a.counter
      /\ ParseWebauthnSignature(blob).val.origin = origin
      /\ ParseWebauthnSignature(blob).val.json = a.json
      /\ ParseWebauthnSignature(blob).val.extensions = a.extensions
  BY <1>4 DEF Got
<1>6. ValidFlags(a.flags, a.extensions) /\ ValidOrigin(origin) /\ ValidClientData(a.json, origin)
  BY <1>1 DEF Answers, ValidFlags, ValidClientData, origin
<1>7. VerifyEcdsaP256(ecdsa, data)
  <2>1. a.cred = Key.cred /\ data = <<a.application, a.flags, a.counter, a.extensions, a.json>>
    BY DEF Answers
  <2> HIDE DEF data
  <2>2. pair.val.s \in {a.s, Order - a.s}
    BY <1>2
  <2> QED
    BY <1>2, <2>1, <2>2 DEF VerifyEcdsaP256, pair
<1> QED
  BY <1>5, <1>6, <1>7 DEF VerifyWebauthnSk, blob

\* A genuine answer is never turned away: every assertion that answers the
\* challenge verifies, however its numbers happen to be written.
THEOREM EveryGenuineVerifies == Spec => []GenuineAccepted
<1>1. GenuineAccepted
  BY EncodedVerifies DEF GenuineAccepted
<1> QED
  BY <1>1, PTL
=============================================================================
