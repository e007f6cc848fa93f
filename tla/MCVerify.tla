------------------------------ MODULE MCVerify ------------------------------
(* An instance of Verify for TLC: scalars of two bytes. *)
EXTENDS Verify

\* Client data: right, for another challenge, of a registration, from an origin
\* with a quote in it.
Good     == <<20>>
Stale    == <<21>>
Creation == <<22>>
Quoted   == <<23>>
Doc(type, challenge, origin) == [type |-> type, challenge |-> challenge, origin |-> origin]
MCJson == [d \in {Good, Stale, Creation, Quoted} |->
  Doc(IF d = Creation THEN "webauthn.create" ELSE "webauthn.get",
      IF d = Stale THEN 2 ELSE 1,
      IF d = Quoted THEN <<QuoteChar>> ELSE <<Plain>>)]

MCKey == [cred |-> 1, application |-> 1]

A(cred, app, flags, ext, json, r, s) ==
  [cred |-> cred, application |-> app, flags |-> flags, counter |-> 7,
   extensions |-> ext, json |-> json, r |-> r, s |-> s]

\* With and without user verification, with extensions; for another challenge,
\* of another kind, by another credential, for another application.
MCSigned ==
  {A(1, 1, 1, <<>>, Good, 1, 128), A(1, 1, 5, <<>>, Good, 256, 128),
   A(1, 1, 133, <<Plain>>, Good, 1, 128), A(1, 1, 5, <<>>, Stale, 1, 128),
   A(1, 1, 5, <<>>, Creation, 1, 128), A(1, 1, 5, <<>>, Quoted, 1, 128),
   A(1, 1, 65, <<>>, Good, 1, 128), A(1, 1, 129, <<>>, Good, 1, 128),
   A(1, 1, 4, <<>>, Good, 1, 128),
   A(2, 1, 5, <<>>, Good, 1, 1), A(1, 2, 5, <<>>, Good, 1, 1)}

\* Forms in every form: 0, 1, 128, 256, 65393 (the other sign of 128), and
\* with zeros, signs and bytes too many.
Forms == {<<>>, <<0>>, <<1>>, <<0, 1>>, <<128>>, <<0, 128>>, <<0, 0, 128>>, <<1, 0>>,
            <<0, 255, 113>>, <<255, 113>>, <<1, 1, 1>>}

Pair(r, s, more) == EncodeString(EncodeString(r) \o EncodeString(s) \o more)
Ecdsa == {Pair(<<1>>, s, more) : s \in Forms, more \in {<<>>, <<0>>}}
           \cup {Pair(r, <<0, 128>>, <<>>) : r \in {<<>>, <<0, 1>>, <<1, 0>>}}

SignatureField == <<
  {EncodeString(<<algo>>) : algo \in {Algo, SkAlgo, Plain}},
  Ecdsa,
  {<<flags>> : flags \in {1, 4, 5, 65, 129, 133}},
  {<<counter>> : counter \in {0, 7}},
  {EncodeString(origin) : origin \in {<<Plain>>, <<Algo>>, <<QuoteChar>>, <<Invalid>>}},
  {EncodeString(json) : json \in DOMAIN MCJson \cup {<<Plain>>}},
  {EncodeString(ext) : ext \in {<<>>, <<Plain>>}},
  {<<0>>} >>

\* Names of algorithms; strings of every length up to the limit and above, cut
\* short, and not UTF-8; points of the wrong form.
TooLong == [i \in 1 .. MaxString + 1 |-> Plain]
Strings == {EncodeString(s) : s \in {<<>>, <<Plain>>, <<Plain, Plain>>, <<Invalid>>, TooLong}}
             \cup {<<2, Plain>>}
KeyField == <<
  {EncodeString(s) : s \in {<<Algo>>, <<SkAlgo>>, <<>>, <<Algo, Plain>>, TooLong}} \cup {<<2, Algo>>},
  Strings,
  {EncodeString(p) : p \in {<<4, 9, 9>>, <<3, 9, 9>>, <<4, 9>>, <<4, 9, 9, 9>>, <<>>}}
     \cup {<<4, 4, 9, 9>>},
  Strings,
  {<<0>>} >>

MCField == [signature |-> SignatureField, key |-> KeyField]
=============================================================================
