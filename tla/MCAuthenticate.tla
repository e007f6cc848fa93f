--------------------------- MODULE MCAuthenticate ---------------------------
(* Instances of Authenticate for TLC. *)
EXTENDS Authenticate, TLC

CONSTANTS s1, s2, k1, k2, rsa, c1, c2, c3, c4

Plain(k)  == [blob |-> k, uv |-> FALSE]
Strict(k) == [blob |-> k, uv |-> TRUE]
Holds(ls) == [kind |-> "ok", lines |-> ls]
Broken(k) == [kind |-> k, lines |-> <<>>]

MCSession      == {s1, s2}
MCWebauthnBlob == {k1, k2}
MCBlob         == {k1, k2, rsa}
MCChallenge    == {c1, c2, c3, c4}

\* Configurations that differ in the cap, in user verification and in whether
\* an agent socket is known.
MCConfig == {[socket |-> TRUE, cap |-> 1, uv |-> TRUE],
             [socket |-> TRUE, cap |-> 2, uv |-> FALSE]}

\* Two keys, one of them listed with verify-required; the same key twice.
MCFile == {Holds(<<Plain(k1), Strict(k2)>>), Holds(<<Strict(k1), Plain(k1)>>)}

\* Identities in both orders, one twice, and one of another algorithm.
MCListing == {<<rsa, k2, k1>>, <<k1, k1>>}

\* The same with everything that can go wrong before the first attempt: every
\* kind of file, no socket, an agent without WebAuthn keys.
FaultConfig  == {[socket |-> TRUE, cap |-> 1, uv |-> FALSE],
                 [socket |-> TRUE, cap |-> 2, uv |-> TRUE],
                 [socket |-> FALSE, cap |-> 1, uv |-> FALSE]}
FaultFile    == {Holds(<<Strict(k1), Strict(k1)>>), Holds(<<>>),
                 Broken("policy"), Broken("InvalidData"), Broken("Other")}
FaultWebauthnBlob == {k1}
FaultChallenge    == {c1, c2, c3}
FaultListing == {<<rsa>>, <<rsa, k1>>}

MCSymmetry == Permutations(MCSession) \cup Permutations(MCChallenge)
=============================================================================
