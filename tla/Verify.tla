------------------------------- MODULE Verify -------------------------------
(***************************************************************************)
(* verify_webauthn_sk (src/src/webauthn.rs) on the signature blob of a     *)
(* reply, which the agent puts together from any fields it likes, and the  *)
(* readers of a key blob, put together in the same way.  A blob            *)
(* is a sequence of cells as in AgentWire; bytes of a number are bytes.    *)
(* The hashes and ECDSA are ideal: signed_data is the tuple of what is     *)
(* hashed into it (every part but the extensions has a fixed length, so    *)
(* the bytes determine the parts), and a pair of scalars verifies if an    *)
(* authenticator made it, or made the one with the other sign of s.        *)
(***************************************************************************)
EXTENDS KeyBlob

CONSTANTS
  FieldSize,  \* bytes of a scalar
  Order,      \* order of the group
  Key,        \* the key of the line being tried: [cred, application]
  Challenge,  \* the challenge of the attempt
  Signed,     \* assertions of the authenticators: see Encode
  Json,       \* Json[d]: what serde_json makes of the clientDataJSON d
  Field       \* Field[kind][n]: what may be put for the n-th part of a blob

\* The number that some bytes stand for, byte by byte.
FirstBytes(bytes) ==
  LET upto[i \in 0 .. Len(bytes)] == IF i = 0 THEN 0 ELSE 256 * upto[i - 1] + bytes[i]
  IN  upto
Scalar(bytes) == FirstBytes(bytes)[Len(bytes)]

\* A number below the order fits the bytes of a scalar, and two fit a string.
ASSUME OrderAssumption ==
  /\ FieldSize \in Nat /\ 2 * FieldSize + 4 <= MaxString
  /\ Order \in 2 .. Scalar([i \in 1 .. FieldSize |-> 255]) + 1

\* Client data is text, and what is signed fits the strings of a blob.
Carried(bytes) == bytes \in Seq(Nat) /\ Len(bytes) <= MaxString

ASSUME SignedAssumption ==
  \A a \in Signed :
    /\ a.r \in 1 .. Order - 1 /\ a.s \in 1 .. Order - 1
    /\ a.flags \in Nat /\ a.counter \in Nat /\ Carried(a.extensions)
    /\ a.json \in DOMAIN Json /\ Carried(a.json) /\ IsUtf8(a.json)
    /\ Carried(Json[a.json].origin) /\ IsUtf8(Json[a.json].origin)

\* A signature starts with two strings, the second of which holds two numbers,
\* and goes on with the flags and the counter.
Holds(cells, bytes) == cells = EncodeString(bytes)
Numbers(ecdsa) == LET r == ReadSshBytes[ecdsa] IN {r.val, ReadSshBytes[r.rest].val}

ASSUME FieldAssumption ==
  /\ \A k \in DOMAIN Field : Field[k] \in Seq(SUBSET Seq(Nat))
  /\ \A n \in DOMAIN Field["signature"] : \A cells \in Field["signature"][n] :
       /\ n \in {1, 2} => cells # <<>> /\ Holds(cells, Tail(cells))
       /\ n = 2 => Numbers(Tail(cells)) \subseteq Seq(0 .. 255)
       /\ n \in {3, 4} => Len(cells) = 1

VARIABLES
  kind,         \* of blob: "signature" or "key"
  uv_required,  \* user verification is asked for
  raw,          \* raw_sig_blob, as far as it is put together
  part          \* parts put together
vars == <<kind, uv_required, raw, part>>

SkAlgo == 3    \* sk-ecdsa-sha2-nistp256@openssh.com; Algo is the webauthn- one
QuoteChar == 34

FLAG_UP == 1
FLAG_UV == 4
FLAG_AD == 64
FLAG_ED == 128
Has(flags, flag) == (flags \div flag) % 2 = 1
-----------------------------------------------------------------------------
(* Parsing: a failed read leaves nothing for the next one, which fails too. *)

ParseWebauthnSignature(blob) ==
  LET algo       == ReadSshBytes[blob]
      ecdsa      == ReadSshBytes[algo.rest]
      flags      == ReadU32(ecdsa.rest)
      counter    == ReadU32(flags.rest)
      origin     == ReadSshBytes[counter.rest]
      json       == ReadSshBytes[origin.rest]
      extensions == ReadSshBytes[json.rest]
  IN  IF \/ extensions.err # "none"
         \/ algo.val \notin {<<Algo>>, <<SkAlgo>>}
         \/ ~IsUtf8(origin.val) \/ ~IsUtf8(json.val)
         \/ extensions.rest # <<>>
      THEN Err("Parse")
      ELSE Got([ecdsa |-> ecdsa.val, flags |-> flags.val, counter |-> counter.val,
                origin |-> origin.val, json |-> json.val, extensions |-> extensions.val],
               <<>>)

\* Mutant: leading zeros are dropped, however many.
ReadSshMpintLenient(buf) ==
  LET bytes == ReadSshBytes[buf]
  IN  IF bytes.err = "none" /\ bytes.val # <<>> /\ bytes.val[1] = 0
      THEN Got(Tail(bytes.val), bytes.rest) ELSE bytes

\* Mutant: a zero in front is always one too many.
ReadSshMpintUnsigned(buf) ==
  LET bytes == ReadSshBytes[buf]
  IN  IF bytes.err = "none" /\ bytes.val # <<>> /\ bytes.val[1] \in {0} \cup 128 .. 255
      THEN Err("Parse") ELSE bytes

\* The shortest two's complement form of a number that is not negative.
ReadSshMpint(buf) ==
  LET bytes == ReadSshBytes[buf]
      val   == bytes.val
  IN  IF bytes.err # "none" \/ val = <<>> THEN bytes
      ELSE IF val[1] >= 128 THEN Err("Parse")
      ELSE IF val[1] # 0 THEN bytes
      ELSE IF Len(val) = 1 THEN Err("Parse")
      ELSE IF val[2] < 128 THEN Err("Parse")
      ELSE Got(Tail(val), bytes.rest)

\* pad_to_field_size, and from_scalars of the p256 crate.
IsScalar(bytes) == Len(bytes) <= FieldSize /\ Scalar(bytes) \in 1 .. Order - 1

ParseEcdsaP256Signature(ecdsa) ==
  LET r == ReadSshMpint(ecdsa)
      s == ReadSshMpint(r.rest)
  IN  IF s.err # "none" \/ s.rest # <<>> \/ ~IsScalar(r.val) \/ ~IsScalar(s.val)
      THEN Err("Crypto")
      ELSE Got([r |-> Scalar(r.val), s |-> Scalar(s.val)], <<>>)
-----------------------------------------------------------------------------
(* Validation *)

ValidFlags(flags, extensions) ==
  /\ Has(flags, FLAG_UP)
  /\ uv_required => Has(flags, FLAG_UV)
  /\ ~Has(flags, FLAG_AD)
  /\ Has(flags, FLAG_ED) <=> extensions # <<>>

ValidOrigin(origin) == \A i \in DOMAIN origin : origin[i] # QuoteChar

\* A field that is missing is equal to nothing.
ValidClientData(json, origin) ==
  /\ json \in DOMAIN Json
  /\ Json[json].type = "webauthn.get"
  /\ Json[json].challenge = Challenge
  /\ Json[json].origin = origin

\* The ideal ECDSA of the credential.
VerifyEcdsaP256(ecdsa, signed_data) ==
  LET sig == ParseEcdsaP256Signature(ecdsa)
  IN  /\ sig.err = "none"
      /\ \E a \in Signed :
           /\ a.cred = Key.cred
           /\ signed_data = <<a.application, a.flags, a.counter, a.extensions, a.json>>
           /\ sig.val.r = a.r /\ sig.val.s \in {a.s, Order - a.s}

VerifyWebauthnSk(blob) ==
  LET sig == ParseWebauthnSignature(blob)
  IN  /\ sig.err = "none"
      /\ ValidFlags(sig.val.flags, sig.val.extensions)
      /\ ValidOrigin(sig.val.origin)
      /\ ValidClientData(sig.val.json, sig.val.origin)
      /\ VerifyEcdsaP256(sig.val.ecdsa, <<Key.application, sig.val.flags, sig.val.counter,
                                          sig.val.extensions, sig.val.json>>)

\* Mutant: only the name tells.
IsWebauthnByName(blob) == IsWebauthnBlob(blob)

\* Under the name of the plain sk algorithm, the fields that follow tell.
IsWebauthnSignature(blob) ==
  LET algo == FirstString(blob)
  IN  /\ algo.err = "none"
      /\ \/ algo.val = <<Algo>>
         \/ algo.val = <<SkAlgo>> /\ ParseWebauthnSignature(blob).err = "none"
-----------------------------------------------------------------------------
Init ==
  /\ kind \in DOMAIN Field
  /\ uv_required \in BOOLEAN
  /\ raw = <<>> /\ part = 0

\* The agent adds the next part of the blob.
Put(cells) ==
  /\ raw' = raw \o cells
  /\ part' = part + 1
  /\ UNCHANGED <<kind, uv_required>>

Next == part < Len(Field[kind]) /\ \E cells \in Field[kind][part + 1] : Put(cells)

Spec == Init /\ [][Next]_vars
-----------------------------------------------------------------------------
(* Properties *)

\* The bytes of a number n in 1 .. Order - 1, from what is left of n without
\* its last k bytes, and as an mpint.
HighBytes(n) ==
  LET high[k \in 0 .. FieldSize] == IF k = 0 THEN n ELSE high[k - 1] \div 256
  IN  high
Bytes(n) ==
  LET high == HighBytes(n)
      len  == CHOOSE k \in 0 .. FieldSize : high[k] = 0 /\ \A j \in 0 .. k - 1 : high[j] # 0
  IN  [i \in 1 .. len |-> high[len - i] % 256]
Mpint(n) == EncodeString(IF Bytes(n)[1] >= 128 THEN <<0>> \o Bytes(n) ELSE Bytes(n))

\* An assertion as a blob, under either name of the algorithm.
Encode(algo, a, s) ==
  EncodeString(<<algo>>) \o EncodeString(Mpint(a.r) \o Mpint(s)) \o <<a.flags, a.counter>>
    \o EncodeString(Json[a.json].origin) \o EncodeString(a.json) \o EncodeString(a.extensions)

\* What a relying party asks of an assertion.  No origin has a quote in it.
Answers(a) ==
  /\ a.cred = Key.cred /\ a.application = Key.application
  /\ ValidOrigin(Json[a.json].origin)
  /\ Json[a.json].type = "webauthn.get" /\ Json[a.json].challenge = Challenge
  /\ Has(a.flags, FLAG_UP) /\ ~Has(a.flags, FLAG_AD)
  /\ uv_required => Has(a.flags, FLAG_UV)
  /\ Has(a.flags, FLAG_ED) <=> a.extensions # <<>>

\* Whatever the agent puts together, a blob that verifies is the one encoding
\* of an assertion that answers this challenge: no field is unsigned, no number
\* has a second encoding, and nothing follows (verify_webauthn_sk).
OneEncoding ==
  kind = "signature" /\ VerifyWebauthnSk(raw) =>
    \E a \in Signed, algo \in {Algo, SkAlgo} :
      Answers(a) /\ \E s \in {a.s, Order - a.s} : raw = Encode(algo, a, s)

\* And every such encoding verifies: a genuine answer is never turned away for
\* how its numbers happen to be written.
GenuineAccepted ==
  \A a \in Signed, algo \in {Algo, SkAlgo} : \A s \in {a.s, Order - a.s} :
    raw = Encode(algo, a, s) /\ Answers(a) => VerifyWebauthnSk(raw)

\* A caller that asks is_webauthn_signature first loses no signature that
\* verifies, and does not take a plain sk signature, which ends after the
\* counter, for one.
Recognised ==
  /\ VerifyWebauthnSk(raw) => IsWebauthnSignature(raw)
  /\ kind = "signature" /\ part <= 4 /\ IsWebauthnSignature(raw) =>
       FirstString(raw).val = <<Algo>>

\* The readers of a key blob agree on every key the file may hold, which sets no
\* limit on a blob (parse_webauthn_key_blob).  The agent's list does not drop
\* it: one that fits a string of a reply is listed, so that it can match, and a
\* longer one is an error of the list, which the user hears of
\* (parse_webauthn_identities).  The example shows its point and application.
ReadersAgree ==
  LET key == ParseWebauthnKeyBlob(raw) IN
  key.err = "none" =>
    /\ ListTakes(raw) = IF Len(raw) <= MaxString THEN "listed" ELSE "InvalidData"
    /\ Show(raw).algo.val = <<Algo>>
    /\ \A f \in {"ec_point", "application"} :
         Show(raw)[f].err = "none" /\ Show(raw)[f].val = key.val[f]
=============================================================================
