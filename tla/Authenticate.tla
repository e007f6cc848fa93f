---------------------------- MODULE Authenticate ----------------------------
(***************************************************************************)
(* The authentication hook (src/src/lib.rs).  Every element of Session is  *)
(* one call of sm_authenticate, in a process of its own: the calls share   *)
(* the authorized_keys file, which an administrator edits while they run,  *)
(* and an agent, which is asked over a new connection for every request    *)
(* and is not trusted: it refuses, breaks off, garbles, and answers with   *)
(* any signature it has ever obtained, whoever the challenge was for.      *)
(* A signature only comes out of an authenticator (Sign); it carries the   *)
(* credential it was made with, the challenge, and whether the user was    *)
(* verified.  The origin, the flags other than UV and the signature's wire *)
(* format are abstracted to "this reply does not verify".                  *)
(***************************************************************************)
EXTENDS PamCodes, Naturals, Sequences, FiniteSets

CONSTANTS
  Session,        \* calls of the hook
  Blob,           \* key blobs an agent may list
  WebauthnBlob,   \* those whose algorithm is webauthn-sk-ecdsa-sha2-nistp256
  Challenge,      \* the 32-byte values getrandom may return
  NoChallenge,    \* a session that has not drawn one yet
  Config,         \* what parse_args may return: [socket, cap, uv]
  File,           \* what the file may hold: [kind, lines]
  Listing,        \* the identity lists an agent may answer with
  MaxSigned       \* bound: assertions the authenticators produce in all

Line   == [blob : WebauthnBlob, uv : BOOLEAN]
Pair   == Nat \X Nat

ASSUME BlobAssumption      == WebauthnBlob \subseteq Blob
ASSUME ChallengeAssumption == NoChallenge \notin Challenge
ASSUME ConfigAssumption    ==
  Config \subseteq [socket : BOOLEAN, cap : Nat \ {0}, uv : BOOLEAN]
\* kind "policy" is every OpenError but Io; lines are those the parser keeps.
ASSUME FileAssumption      ==
  File \subseteq [kind : {"ok", "policy"} \cup IoKind, lines : Seq(Line)]
ASSUME ListingAssumption   == Listing \subseteq Seq(Blob)
ASSUME MaxSignedAssumption == MaxSigned \in Nat

VARIABLES
  file,       \* the authorized_keys file as it is on disk now
  signed,     \* every assertion an authenticator has produced
  drawn,      \* every challenge getrandom has returned
  pc,         \* pc[s]: the step of do_authenticate the session is at
  config,     \* config[s]: the parsed module arguments
  lines,      \* lines[s]: authorized_keys as the session read it
  matched,    \* matched[s]: matched_pairs, as positions in the two lists
  untried,    \* untried[s]: what is left of the loop over matched
  tried,      \* tried[s]: the loop's counter
  at,         \* at[s]: the pair of the current attempt
  challenge,  \* challenge[s]: the challenge of the current attempt
  asks,       \* asks[s]: the sign requests that reached the agent (history)
  accepted,   \* accepted[s]: the assertion that verified, as a set (history)
  result      \* result[s]: "Pending" or the PAM return code

world == <<file, signed, drawn>>
inputs == <<config, lines, matched>>
loop  == <<untried, tried, at, challenge>>
vars  == <<world, pc, inputs, loop, asks, accepted, result>>

Assertion == [blob : WebauthnBlob, challenge : Challenge, uv : BOOLEAN]
Ask       == [pair : Pair, challenge : Challenge]
-----------------------------------------------------------------------------
(* The end of a call *)

End(s, code) ==
  /\ pc' = [pc EXCEPT ![s] = "done"]
  /\ result' = [result EXCEPT ![s] = code]

Fail(s, class) ==
  /\ End(s, PamCode[class])
  /\ UNCHANGED <<world, inputs, loop, asks, accepted>>

Goto(s, step) ==
  /\ pc' = [pc EXCEPT ![s] = step]
  /\ UNCHANGED result
-----------------------------------------------------------------------------
Init ==
  /\ file \in File
  /\ signed    = {}
  /\ drawn     = {}
  /\ pc        = [s \in Session |-> "parse_args"]
  /\ config    \in [Session -> Config]
  /\ lines     = [s \in Session |-> <<>>]
  /\ matched   = [s \in Session |-> {}]
  /\ untried   = [s \in Session |-> {}]
  /\ tried     = [s \in Session |-> 0]
  /\ at        = [s \in Session |-> <<0, 0>>]
  /\ challenge = [s \in Session |-> NoChallenge]
  /\ asks      = [s \in Session |-> {}]
  /\ accepted  = [s \in Session |-> {}]
  /\ result    = [s \in Session |-> "Pending"]
-----------------------------------------------------------------------------
(* The session's inputs *)

\* config[s] holds the outcome of well-formed arguments from the start.
ParseArgs(s) ==
  /\ pc[s] = "parse_args"
  /\ \/ Goto(s, "open_secure") /\ UNCHANGED <<world, inputs, loop, asks, accepted>>
     \/ Fail(s, "Service")

OpenFails(s) ==
  /\ pc[s] = "open_secure"
  /\ file.kind # "ok"
  /\ Fail(s, ClassifyOpenErr(file.kind))

NoKeysOrSocket(s) ==
  /\ pc[s] = "open_secure"
  /\ file.kind = "ok"
  /\ file.lines = <<>> \/ ~config[s].socket
  /\ Fail(s, "InfoUnavailable")

LoadKeys(s) ==
  /\ pc[s] = "open_secure"
  /\ file.kind = "ok"
  /\ file.lines # <<>>
  /\ config[s].socket
  /\ lines' = [lines EXCEPT ![s] = file.lines]
  /\ Goto(s, "list_identities")
  /\ UNCHANGED <<world, config, matched, loop, asks, accepted>>

\* The connection for the list, and the request on it: connect may fail, or not
\* return at all.
ConnectFails(s) ==
  /\ pc[s] = "list_identities"
  /\ Fail(s, ClassifyIoErr("Other"))

ConnectToList(s) ==
  /\ pc[s] = "list_identities"
  /\ Goto(s, "read_list")
  /\ UNCHANGED <<world, inputs, loop, asks, accepted>>

\* Mutant: a list that fails is asked for again, however often.
ListRetried(s) ==
  /\ pc[s] = "read_list"
  /\ Goto(s, "list_identities")
  /\ UNCHANGED <<world, inputs, loop, asks, accepted>>

ListFails(s) ==
  /\ pc[s] = "read_list"
  /\ \E kind \in IoKind : Fail(s, ClassifyIoErr(kind))

\* Blobs of other algorithms are dropped from the agent's answer.
HasWebauthn(ids) == \E i \in DOMAIN ids : ids[i] \in WebauthnBlob

MatchedPairs(ids, keys) ==
  {p \in (1 .. Len(ids)) \X (1 .. Len(keys)) : ids[p[1]] = keys[p[2]].blob}

NoIdentities(s) ==
  /\ pc[s] = "read_list"
  /\ \E ids \in Listing : ~HasWebauthn(ids)
  /\ Fail(s, "InfoUnavailable")

ListIdentities(s) ==
  /\ pc[s] = "read_list"
  /\ \E ids \in Listing :
       /\ HasWebauthn(ids)
       /\ matched' = [matched EXCEPT ![s] = MatchedPairs(ids, lines[s])]
       /\ untried' = [untried EXCEPT ![s] = MatchedPairs(ids, lines[s])]
  /\ Goto(s, "next")
  /\ UNCHANGED <<world, config, lines, tried, at, challenge, asks, accepted>>
-----------------------------------------------------------------------------
(* iter_attempts *)

\* Mutants: the cap is off by one either way.
CapOverrun(s)  == tried[s] > config[s].cap
CapTooEarly(s) == tried[s] + 1 >= config[s].cap

CapReached(s) == tried[s] >= config[s].cap

Exhausted(s) ==
  /\ pc[s] = "next"
  /\ untried[s] = {}
  /\ Fail(s, "AuthFail")

CapHit(s) ==
  /\ pc[s] = "next"
  /\ untried[s] # {}
  /\ CapReached(s)
  /\ Fail(s, "AuthFail")

\* Mutant: the product is built key by key.
BeforeByKey(p, q) == p[2] < q[2] \/ (p[2] = q[2] /\ p[1] < q[1])

\* The order of matched_pairs: by agent identity, then by authorized key.
Before(p, q) == p[1] < q[1] \/ (p[1] = q[1] /\ p[2] < q[2])

NextAttempt(s) ==
  /\ pc[s] = "next"
  /\ ~CapReached(s)
  /\ \E p \in untried[s] :
       /\ \A q \in untried[s] \ {p} : Before(p, q)
       /\ at' = [at EXCEPT ![s] = p]
       /\ untried' = [untried EXCEPT ![s] = @ \ {p}]
  /\ tried' = [tried EXCEPT ![s] = @ + 1]
  /\ Goto(s, "try")
  /\ UNCHANGED <<world, inputs, challenge, asks, accepted>>
-----------------------------------------------------------------------------
(* try_authenticate: one request on a connection of its own, one reply *)

\* Mutant: challenges may repeat.
RepeatedChallenges == Challenge

\* getrandom never returns a 32-byte value twice.
FreshChallenges == Challenge \ drawn

Draw(s, c) ==
  /\ c \in FreshChallenges
  /\ challenge' = [challenge EXCEPT ![s] = c]
  /\ drawn' = drawn \cup {c}

NoEntropy(s) ==
  /\ pc[s] = "try"
  /\ Fail(s, "Service")

SendFails(s) ==
  /\ pc[s] = "try"
  /\ \E c \in Challenge : Draw(s, c)
  /\ End(s, PamCode[ClassifyIoErr("Other")])
  /\ UNCHANGED <<file, signed, inputs, untried, tried, at, asks, accepted>>

SendSign(s) ==
  /\ pc[s] = "try"
  /\ \E c \in Challenge :
       /\ Draw(s, c)
       /\ asks' = [asks EXCEPT ![s] = @ \cup {[pair |-> at[s], challenge |-> c]}]
  /\ Goto(s, "reply")
  /\ UNCHANGED <<file, signed, inputs, untried, tried, at, accepted>>

ReplyFails(s) ==
  /\ pc[s] = "reply"
  /\ \E kind \in IoKind : Fail(s, ClassifyIoErr(kind))

\* Mutant: a refusal by the agent ends the call.
RefusalIsFinal(s) ==
  /\ pc[s] = "reply"
  /\ Fail(s, "AuthFail")

ReplyRefused(s) ==
  /\ pc[s] = "reply"
  /\ Goto(s, "next")
  /\ UNCHANGED <<world, inputs, loop, asks, accepted>>

Key(s) == lines[s][at[s][2]]

\* Mutants: the line's option is ignored; user verification is always asked for.
UvModuleOnly(s) == config[s].uv
UvAlways(s)     == TRUE

UvRequired(s) == config[s].uv \/ Key(s).uv

\* Mutant: a signature for any challenge will do.
VerifiesAnyChallenge(s, a) ==
  /\ UvRequired(s) => a.uv
  /\ a.blob = Key(s).blob
  /\ a \in signed

\* validate_flags, validate_client_data and verify_ecdsa_p256.
Verifies(s, a) ==
  /\ UvRequired(s) => a.uv
  /\ a.challenge = challenge[s]
  /\ a.blob = Key(s).blob
  /\ a \in signed

ReplyVerified(s) ==
  /\ pc[s] = "reply"
  /\ \E a \in Assertion :
       /\ Verifies(s, a)
       /\ accepted' = [accepted EXCEPT ![s] = {a}]
  /\ End(s, "PAM_SUCCESS")
  /\ UNCHANGED <<world, inputs, loop, asks>>

ReplyNotVerified(s) ==
  /\ pc[s] = "reply"
  /\ \E a \in Assertion : ~Verifies(s, a)
  /\ Goto(s, "next")
  /\ UNCHANGED <<world, inputs, loop, asks, accepted>>
-----------------------------------------------------------------------------
(* The environment *)

Edit ==
  /\ file' \in File
  /\ UNCHANGED <<signed, drawn, pc, inputs, loop, asks, accepted, result>>

\* An authenticator signs a challenge the agent has been given, at any time
\* after and with any credential, with or without verifying the user.
Sign(a) ==
  /\ \E s \in Session : \E r \in asks[s] : r.challenge = a.challenge
  /\ Cardinality(signed) < MaxSigned
  /\ signed' = signed \cup {a}
  /\ UNCHANGED <<file, drawn, pc, inputs, loop, asks, accepted, result>>
-----------------------------------------------------------------------------
Step(s) ==
  \/ ParseArgs(s) \/ OpenFails(s) \/ NoKeysOrSocket(s) \/ LoadKeys(s)
  \/ ConnectFails(s) \/ ConnectToList(s) \/ ListFails(s) \/ NoIdentities(s) \/ ListIdentities(s)
  \/ Exhausted(s) \/ CapHit(s) \/ NextAttempt(s)
  \/ NoEntropy(s) \/ SendFails(s) \/ SendSign(s)
  \/ ReplyFails(s) \/ ReplyRefused(s) \/ ReplyVerified(s) \/ ReplyNotVerified(s)

Next == (\E s \in Session : Step(s)) \/ Edit \/ \E a \in Assertion : Sign(a)

Spec == Init /\ [][Next]_vars

\* What the session does next is connect, which has no timeout.
AtConnect(s) == pc[s] \in {"list_identities", "try"}

\* A session's own steps are straight-line code, and an exchange with the agent
\* ends with an answer, an error or a timeout once the connection is made
\* (AgentChannel, ConnectedEnds).  That it is made nobody owes the session, and
\* nobody has to edit or to sign.
FairSpec == Spec /\ \A s \in Session : WF_vars(~AtConnect(s) /\ Step(s))
-----------------------------------------------------------------------------
(* Properties *)

\* Every variable has its type.
TypeOK ==
  /\ file \in File
  /\ signed \subseteq Assertion
  /\ drawn \subseteq Challenge
  /\ pc \in [Session -> {"parse_args", "open_secure", "list_identities", "read_list",
                          "next", "try", "reply", "done"}]
  /\ config \in [Session -> Config]
  /\ lines \in [Session -> Seq(Line)]
  /\ matched \in [Session -> SUBSET Pair]
  /\ untried \in [Session -> SUBSET Pair]
  /\ tried \in [Session -> Nat]
  /\ at \in [Session -> Pair]
  /\ challenge \in [Session -> Challenge \cup {NoChallenge}]
  /\ asks \in [Session -> SUBSET Ask]
  /\ accepted \in [Session -> SUBSET Assertion]
  /\ result \in [Session -> {"Pending", "PAM_SUCCESS", "PAM_SERVICE_ERR",
                              "PAM_AUTHINFO_UNAVAIL", "PAM_AUTH_ERR"}]

\* The hook says PAM_SUCCESS only if an authenticator signed the challenge of
\* this session's current attempt, with the credential of the authorized_keys
\* line being tried, and with the user verified if the module or that line
\* asks for it; a signature for another session's or an earlier attempt's
\* challenge, late or replayed, does not do (try_authenticate).
PossessionProved ==
  \A s \in Session : result[s] = "PAM_SUCCESS" =>
    \E a \in accepted[s] \cap signed :
      /\ [pair |-> at[s], challenge |-> a.challenge] \in asks[s]
      /\ at[s] \in matched[s]
      /\ a.blob = lines[s][at[s][2]].blob
      /\ config[s].uv \/ lines[s][at[s][2]].uv => a.uv

\* Two calls of the hook are never granted by the same signature.
NoSharedAssertion ==
  \A s, t \in Session : s # t => accepted[s] \cap accepted[t] = {}

\* The user is prompted at most max_attempts times in a call, whatever the
\* agent lists and answers, and at most once for each match (iter_attempts).
PromptBudget ==
  \A s \in Session :
    /\ Cardinality(asks[s]) <= config[s].cap
    /\ \A q, r \in asks[s] : q.pair = r.pair => q = r

\* The cap cuts the attempts in the agent's order: no match of an identity is
\* tried while a match of an identity listed earlier has not been.
AgentOrder ==
  \A s \in Session : \A r \in asks[s], p \in matched[s] :
    p[1] < r.pair[1] => \E q \in asks[s] : q.pair = p

\* PAM_AUTH_ERR blames the user: it is said only when keys were loaded and
\* every match the cap allows was put to the agent, none being skipped.
BlamedAfterTrying ==
  \A s \in Session : result[s] = "PAM_AUTH_ERR" =>
    /\ lines[s] # <<>>
    /\ \/ Cardinality(asks[s]) = config[s].cap
       \/ {r.pair : r \in asks[s]} = matched[s]

-----------------------------------------------------------------------------
(* The inductive invariant: why the safety properties hold. *)

AskedPairs(s) == {r.pair : r \in asks[s]}

\* A challenge in use was drawn, and by one session only.
ChallengesApart ==
  /\ \A s \in Session : challenge[s] # NoChallenge => challenge[s] \in drawn
  /\ \A s, t \in Session :
       s # t /\ challenge[s] # NoChallenge => challenge[s] # challenge[t]

\* How far a session is: what it has asked, what is left, and the counter.
Bookkeeping(s) ==
  /\ IsFiniteSet(asks[s])
  /\ tried[s] <= config[s].cap
  /\ result[s] = "Pending" <=> pc[s] # "done"
  /\ pc[s] \in {"parse_args", "open_secure"} => lines[s] = <<>>
  /\ pc[s] \in {"list_identities", "read_list", "next", "try", "reply"} => lines[s] # <<>>
  /\ pc[s] \in {"parse_args", "open_secure", "list_identities", "read_list"} =>
       asks[s] = {} /\ tried[s] = 0 /\ untried[s] = {} /\ matched[s] = {}
  /\ \A p \in matched[s] : p[2] \in DOMAIN lines[s]
  /\ Cardinality(asks[s]) + (IF pc[s] = "try" THEN 1 ELSE 0) <= tried[s]
  /\ pc[s] \in {"next", "reply"} =>
       /\ Cardinality(asks[s]) = tried[s]
       /\ matched[s] = AskedPairs(s) \cup untried[s]
  /\ pc[s] = "try" =>
       /\ Cardinality(asks[s]) + 1 = tried[s]
       /\ matched[s] = AskedPairs(s) \cup untried[s] \cup {at[s]}
       /\ at[s] \notin AskedPairs(s) \cup untried[s]
       /\ \A q \in untried[s] : at[s][1] <= q[1]
  /\ AskedPairs(s) \cap untried[s] = {}
  /\ pc[s] = "reply" =>
       [pair |-> at[s], challenge |-> challenge[s]] \in asks[s]

\* A grant was made for the challenge of the current attempt.
GrantIsCurrent(s) ==
  /\ accepted[s] # {} => result[s] = "PAM_SUCCESS"
  /\ \A a \in accepted[s] : a.challenge = challenge[s]

Inv ==
  /\ ChallengesApart
  /\ \A s \in Session : Bookkeeping(s) /\ GrantIsCurrent(s)
  /\ PossessionProved /\ PromptBudget /\ AgentOrder /\ BlamedAfterTrying
-----------------------------------------------------------------------------
(* Progress and refinement *)

\* Every call of the hook returns, or waits for ever for one connection to the
\* agent: nothing the agent answers keeps it going round, and no other call, no
\* edit and no authenticator holds it up.
EverySessionEnds == \A s \in Session : <>(pc[s] = "done") \/ <>[]AtConnect(s)

\* What the module promises: sessions, policies, prompts and verdicts.
PolicyOf(s) == {[blob |-> lines[s][i].blob, uv |-> config[s].uv \/ lines[s][i].uv] :
                i \in DOMAIN lines[s]}

Promise == INSTANCE AuthSpec WITH
  Policy  <- SUBSET Line,
  Budget  <- {c.cap : c \in Config},
  policy  <- [s \in Session |-> PolicyOf(s)],
  budget  <- [s \in Session |-> IF lines[s] = <<>> THEN 0 ELSE config[s].cap],
  prompts <- [s \in Session |-> Cardinality(asks[s])],
  granted <- accepted,
  verdict <- result

\* The hook implements AuthSpec: its inputs are fixed before the first prompt,
\* prompts stay in the budget, a grant uses a new assertion that the policy
\* accepts, and the verdict is given once.
ImplementsAuthSpec == Promise!ASpec
=============================================================================
