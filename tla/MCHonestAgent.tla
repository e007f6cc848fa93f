---------------------------- MODULE MCHonestAgent ----------------------------
(* An instance of HonestAgent for TLC: three credentials, one of them not at *)
(* hand and one whose authenticator cannot verify the user.                  *)
EXTENDS HonestAgent

CONSTANTS s1, s2, k1, k2, k3, rsa, c1, c2, c3, c4

Plain(k)  == [blob |-> k, uv |-> FALSE]
Strict(k) == [blob |-> k, uv |-> TRUE]
Holds(ls) == [kind |-> "ok", lines |-> ls]

MCSession      == {s1, s2}
MCWebauthnBlob == {k1, k2, k3}
MCBlob         == {k1, k2, k3, rsa}
MCChallenge    == {c1, c2, c3, c4}
MCHeld         == {k1, k2}
MCVerifying    == {k1}

MCConfig == {[socket |-> TRUE, cap |-> 1, uv |-> FALSE],
             [socket |-> TRUE, cap |-> 2, uv |-> TRUE]}

\* An unsafe file, no keys, three keys, and one key with and without the option.
MCFile == {[kind |-> "policy", lines |-> <<>>], Holds(<<>>),
           Holds(<<Strict(k1), Plain(k3), Plain(k2)>>), Holds(<<Strict(k2), Plain(k2)>>)}

\* Of another algorithm, two credentials at hand, and one behind a decoy.
MCListing == {<<rsa>>, <<k2, k1>>, <<k3, rsa, k1>>}
=============================================================================
