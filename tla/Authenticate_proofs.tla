------------------------- MODULE Authenticate_proofs -------------------------
(* Theorems about the hook, for any sessions, files, listings and caps: its  *)
(* safety, that it implements its abstract specification, and who is let in  *)
(* when the agent works.                                                     *)
EXTENDS HonestAgent, FiniteSetTheorems, TLAPS

USE DEF world, inputs, loop

\* Matched positions are positions.
LEMMA MatchedPairsType ==
  ASSUME NEW ids \in Seq(Blob), NEW keys \in Seq(Line)
  PROVE  /\ MatchedPairs(ids, keys) \subseteq Pair
         /\ \A p \in MatchedPairs(ids, keys) :
              p[2] \in DOMAIN keys /\ keys[p[2]] \in Line
  BY DEF MatchedPairs, Pair

\* Error classes map to PAM codes of failure.
LEMMA FailType ==
  \A class \in {"Service", "InfoUnavailable", "AuthFail"} :
    PamCode[class] \in {"PAM_SERVICE_ERR", "PAM_AUTHINFO_UNAVAIL", "PAM_AUTH_ERR"}
  BY DEF PamCode

LEMMA ClassifyType ==
  \A kind \in {"ok", "policy"} \cup IoKind :
    /\ ClassifyIoErr(kind) \in {"Service", "InfoUnavailable"}
    /\ ClassifyOpenErr(kind) \in {"Service", "InfoUnavailable"}
  BY DEF ClassifyIoErr, ClassifyOpenErr, IoKind

LEMMA TypeInit == Init => TypeOK
  BY ChallengeAssumption DEF Init, TypeOK, Pair

LEMMA TypeFail ==
  ASSUME TypeOK, NEW s \in Session, NEW class \in {"Service", "InfoUnavailable", "AuthFail"},
         Fail(s, class)
  PROVE  TypeOK'
  BY FailType DEF TypeOK, Fail, End

\* Every step of a session keeps the types.
LEMMA TypeStep ==
  ASSUME TypeOK, NEW s \in Session, Step(s)
  PROVE  TypeOK'
<1>1. CASE ParseArgs(s)
  BY <1>1, TypeFail DEF TypeOK, ParseArgs, Goto
<1>2. CASE OpenFails(s)
  BY <1>2, TypeFail, ClassifyType, FileAssumption DEF TypeOK, OpenFails
<1>3. CASE NoKeysOrSocket(s)
  BY <1>3, TypeFail DEF NoKeysOrSocket
<1>4. CASE LoadKeys(s)
  BY <1>4, FileAssumption DEF TypeOK, LoadKeys, Goto
<1>5. CASE ListFails(s)
  BY <1>5, TypeFail, ClassifyType DEF ListFails
<1>6. CASE NoIdentities(s)
  BY <1>6, TypeFail DEF NoIdentities
<1>7. CASE ListIdentities(s)
  <2>1. PICK ids \in Listing :
          /\ matched' = [matched EXCEPT ![s] = MatchedPairs(ids, lines[s])]
          /\ untried' = [untried EXCEPT ![s] = MatchedPairs(ids, lines[s])]
    BY <1>7 DEF ListIdentities
  <2>2. MatchedPairs(ids, lines[s]) \subseteq Pair
    BY MatchedPairsType, ListingAssumption DEF TypeOK
  <2> QED
    BY <1>7, <2>1, <2>2 DEF TypeOK, ListIdentities, Goto
<1>8. CASE Exhausted(s)
  BY <1>8, TypeFail DEF Exhausted
<1>9. CASE CapHit(s)
  BY <1>9, TypeFail DEF CapHit
<1>10. CASE NextAttempt(s)
  BY <1>10 DEF TypeOK, NextAttempt, Goto
<1>11. CASE NoEntropy(s)
  BY <1>11, TypeFail DEF NoEntropy
<1>12. CASE SendFails(s)
  BY <1>12, FailType, ClassifyType DEF TypeOK, SendFails, Draw, End, IoKind
<1>13. CASE SendSign(s)
  BY <1>13 DEF TypeOK, SendSign, Draw, Goto, Ask
<1>14. CASE ReplyFails(s)
  BY <1>14, TypeFail, ClassifyType DEF ReplyFails
<1>15. CASE ReplyRefused(s)
  BY <1>15 DEF TypeOK, ReplyRefused, Goto
<1>16. CASE ReplyVerified(s)
  BY <1>16 DEF TypeOK, ReplyVerified, End
<1>17. CASE ReplyNotVerified(s)
  BY <1>17 DEF TypeOK, ReplyNotVerified, Goto
<1>18. CASE ConnectFails(s)
  BY <1>18, TypeFail, ClassifyType DEF ConnectFails, IoKind
<1>19. CASE ConnectToList(s)
  BY <1>19 DEF TypeOK, ConnectToList, Goto
<1> QED
  BY <1>1, <1>2, <1>3, <1>4, <1>5, <1>6, <1>7, <1>8, <1>9, <1>10, <1>11, <1>12,
     <1>13, <1>14, <1>15, <1>16, <1>17, <1>18, <1>19 DEF Step

\* TypeOK holds in every reachable state, whatever the constants.
THEOREM TypeCorrect == Spec => []TypeOK
<1>1. TypeOK /\ [Next]_vars => TypeOK'
  <2> SUFFICES ASSUME TypeOK, [Next]_vars PROVE TypeOK'
    OBVIOUS
  <2>1. ASSUME NEW s \in Session, Step(s) PROVE TypeOK'
    BY <2>1, TypeStep
  <2>2. CASE Edit
    BY <2>2 DEF TypeOK, Edit
  <2>3. ASSUME NEW a \in Assertion, Sign(a) PROVE TypeOK'
    BY <2>3 DEF TypeOK, Sign
  <2>4. CASE UNCHANGED vars
    BY <2>4 DEF TypeOK, vars
  <2> QED
    BY <2>1, <2>2, <2>3, <2>4 DEF Next
<1> QED
  BY TypeInit, <1>1, PTL DEF Spec
-----------------------------------------------------------------------------
(* The inductive invariant, session by session.  A step of one session       *)
(* leaves what the invariant says of the others alone (Others); so a case    *)
(* per action is about the session that takes it.                            *)

Possessed(s) == result[s] = "PAM_SUCCESS" =>
  \E a \in accepted[s] \cap signed :
    /\ [pair |-> at[s], challenge |-> a.challenge] \in asks[s]
    /\ at[s] \in matched[s]
    /\ a.blob = lines[s][at[s][2]].blob
    /\ config[s].uv \/ lines[s][at[s][2]].uv => a.uv

Budgeted(s) ==
  /\ Cardinality(asks[s]) <= config[s].cap
  /\ \A q, r \in asks[s] : q.pair = r.pair => q = r

Ordered(s) == \A r \in asks[s], p \in matched[s] :
  p[1] < r.pair[1] => \E q \in asks[s] : q.pair = p

Blamed(s) == result[s] = "PAM_AUTH_ERR" =>
  /\ lines[s] # <<>>
  /\ Cardinality(asks[s]) = config[s].cap \/ {r.pair : r \in asks[s]} = matched[s]

SessionInv(s) ==
  /\ Bookkeeping(s) /\ GrantIsCurrent(s)
  /\ Possessed(s) /\ Budgeted(s) /\ Ordered(s) /\ Blamed(s)

LEMMA InvBySession == Inv <=> ChallengesApart /\ \A s \in Session : SessionInv(s)
  BY DEF Inv, SessionInv, PossessionProved, PromptBudget, AgentOrder, BlamedAfterTrying,
         Possessed, Budgeted, Ordered, Blamed

LEMMA InvBySessionNext ==
  ASSUME ChallengesApart', \A s \in Session : SessionInv(s)'
  PROVE  Inv'
  BY DEF Inv, SessionInv, PossessionProved, PromptBudget, AgentOrder, BlamedAfterTrying,
         Possessed, Budgeted, Ordered, Blamed

\* The variables of session t keep their values.
Unmoved(t) ==
  /\ pc'[t] = pc[t] /\ config'[t] = config[t] /\ lines'[t] = lines[t]
  /\ matched'[t] = matched[t] /\ untried'[t] = untried[t] /\ tried'[t] = tried[t]
  /\ at'[t] = at[t] /\ challenge'[t] = challenge[t] /\ asks'[t] = asks[t]
  /\ accepted'[t] = accepted[t] /\ result'[t] = result[t]

LEMMA Others ==
  ASSUME NEW t \in Session, SessionInv(t), Unmoved(t), signed \subseteq signed'
  PROVE  SessionInv(t)'
<1>1. Bookkeeping(t)'
  BY DEF SessionInv, Unmoved, Bookkeeping, AskedPairs
<1>2. GrantIsCurrent(t)'
  BY DEF SessionInv, Unmoved, GrantIsCurrent
<1>3. Possessed(t)'
  BY DEF SessionInv, Unmoved, Possessed
<1>4. Budgeted(t)' /\ Ordered(t)' /\ Blamed(t)'
  BY DEF SessionInv, Unmoved, Budgeted, Ordered, Blamed
<1> QED
  BY <1>1, <1>2, <1>3, <1>4 DEF SessionInv

\* A step that draws no challenge leaves the challenges apart.
LEMMA SameChallenges ==
  ASSUME ChallengesApart, challenge' = challenge, drawn' = drawn
  PROVE  ChallengesApart'
  BY DEF ChallengesApart

LEMMA InvInit == Init => Inv
<1> SUFFICES ASSUME Init PROVE Inv
  OBVIOUS
<1>1. ChallengesApart
  BY DEF Init, ChallengesApart
<1>2. ASSUME NEW s \in Session PROVE SessionInv(s)
  <2>1. config[s].cap \in Nat \ {0}
    BY ConfigAssumption DEF Init
  <2>2. Bookkeeping(s)
    BY <2>1, FS_EmptySet DEF Init, Bookkeeping, AskedPairs
  <2>3. GrantIsCurrent(s) /\ Possessed(s) /\ Budgeted(s) /\ Ordered(s) /\ Blamed(s)
    BY <2>1, FS_EmptySet DEF Init, GrantIsCurrent, Possessed, Budgeted, Ordered, Blamed
  <2> QED
    BY <2>2, <2>3 DEF SessionInv
<1> QED
  BY <1>1, <1>2, InvBySession
-----------------------------------------------------------------------------
(* One lemma per kind of step, about the session that takes it. *)

LEMMA TypedCap == TypeOK => \A s \in Session : config[s].cap \in Nat \ {0} /\ tried[s] \in Nat
  BY ConfigAssumption DEF TypeOK

\* A failure that is not the user's keeps the invariant.
LEMMA FaultKeeps ==
  ASSUME TypeOK, NEW s \in Session, SessionInv(s), pc[s] # "done",
         NEW class \in {"Service", "InfoUnavailable"}, End(s, PamCode[class]),
         UNCHANGED <<signed, inputs, asks, accepted, untried, tried, at>>
  PROVE  SessionInv(s)'
<1>1. /\ pc'[s] = "done" /\ accepted[s] = {}
      /\ result'[s] \notin {"Pending", "PAM_SUCCESS", "PAM_AUTH_ERR"}
  BY DEF TypeOK, End, PamCode, SessionInv, Bookkeeping, GrantIsCurrent
<1>2. Cardinality(asks[s]) \in Nat /\ tried[s] \in Nat
  BY FS_CardinalityType, TypedCap DEF SessionInv, Bookkeeping
<1>3. Bookkeeping(s)'
  BY <1>1, <1>2 DEF SessionInv, Bookkeeping, AskedPairs
<1>4. GrantIsCurrent(s)' /\ Possessed(s)' /\ Blamed(s)'
  BY <1>1 DEF GrantIsCurrent, Possessed, Blamed
<1>5. Budgeted(s)' /\ Ordered(s)'
  BY DEF SessionInv, Budgeted, Ordered
<1> QED
  BY <1>3, <1>4, <1>5 DEF SessionInv

\* The two ends that blame the user: no match left, or the cap reached.
LEMMA BlameKeeps ==
  ASSUME TypeOK, NEW s \in Session, SessionInv(s), Exhausted(s) \/ CapHit(s)
  PROVE  SessionInv(s)'
<1>1. /\ pc[s] = "next" /\ pc'[s] = "done" /\ accepted[s] = {}
      /\ result'[s] = "PAM_AUTH_ERR"
      /\ UNCHANGED <<world, inputs, loop, asks, accepted>>
  BY DEF TypeOK, Exhausted, CapHit, Fail, End, PamCode, SessionInv, Bookkeeping, GrantIsCurrent
<1>2. /\ Cardinality(asks[s]) \in Nat /\ tried[s] \in Nat
      /\ config[s].cap \in Nat
  BY FS_CardinalityType, TypedCap DEF SessionInv, Bookkeeping
<1>3. Cardinality(asks[s]) = config[s].cap \/ AskedPairs(s) = matched[s]
  <2>1. /\ Cardinality(asks[s]) = tried[s] /\ tried[s] <= config[s].cap
        /\ matched[s] = AskedPairs(s) \cup untried[s]
    BY <1>1 DEF SessionInv, Bookkeeping
  <2>2. untried[s] = {} \/ tried[s] >= config[s].cap
    BY DEF Exhausted, CapHit, CapReached
  <2> QED
    BY <1>2, <2>1, <2>2
<1>4. Bookkeeping(s)'
  BY <1>1, <1>2 DEF SessionInv, Bookkeeping, AskedPairs
<1>5. GrantIsCurrent(s)' /\ Possessed(s)'
  BY <1>1 DEF GrantIsCurrent, Possessed
<1>6. Blamed(s)'
  <2>1. lines[s] # <<>>
    BY <1>1 DEF SessionInv, Bookkeeping
  <2> QED
    BY <1>1, <1>3, <2>1 DEF Blamed, AskedPairs
<1>7. Budgeted(s)' /\ Ordered(s)'
  BY <1>1 DEF SessionInv, Budgeted, Ordered
<1> QED
  BY <1>4, <1>5, <1>6, <1>7 DEF SessionInv

\* The branch of ParseArgs that goes on.
Parsed(s) ==
  /\ pc[s] = "parse_args"
  /\ Goto(s, "open_secure")
  /\ UNCHANGED <<world, inputs, loop, asks, accepted>>

\* Going on to the next step, with nothing asked and nothing decided.
LEMMA MoveKeeps ==
  ASSUME TypeOK, NEW s \in Session, SessionInv(s),
         \/ Parsed(s) \/ LoadKeys(s) \/ ConnectToList(s) \/ ListIdentities(s)
         \/ NextAttempt(s) \/ ReplyRefused(s) \/ ReplyNotVerified(s)
  PROVE  SessionInv(s)'
<1>1. /\ pc[s] \in {"parse_args", "open_secure", "list_identities", "read_list", "next", "reply"}
      /\ pc'[s] \notin {"done", "reply", "parse_args"}
      /\ result'[s] = "Pending" /\ result[s] = "Pending" /\ accepted[s] = {}
      /\ UNCHANGED <<signed, config, challenge, asks, accepted>>
  <2>1. /\ pc[s] \in {"parse_args", "open_secure", "list_identities", "read_list", "next", "reply"}
        /\ \E step \in {"open_secure", "list_identities", "read_list", "next", "try"} : Goto(s, step)
        /\ UNCHANGED <<signed, config, challenge, asks, accepted>>
    BY DEF Parsed, LoadKeys, ConnectToList, ListIdentities, NextAttempt, ReplyRefused,
           ReplyNotVerified
  <2>2. result[s] = "Pending" /\ accepted[s] = {}
    BY <2>1 DEF SessionInv, Bookkeeping, GrantIsCurrent
  <2> QED
    BY <2>1, <2>2 DEF TypeOK, Goto
<1>2. /\ Cardinality(asks[s]) \in Nat /\ tried[s] \in Nat
      /\ config[s].cap \in Nat \ {0} /\ IsFiniteSet(asks[s])
  BY FS_CardinalityType, TypedCap DEF SessionInv, Bookkeeping
<1>3. GrantIsCurrent(s)' /\ Possessed(s)' /\ Blamed(s)'
  BY <1>1 DEF GrantIsCurrent, Possessed, Blamed
<1>4. Budgeted(s)'
  BY <1>1 DEF SessionInv, Budgeted
<1>5. Bookkeeping(s)' /\ Ordered(s)'
  <2>1. CASE Parsed(s)
    BY <1>1, <1>2, <2>1 DEF Parsed, Goto, TypeOK, SessionInv, Bookkeeping, AskedPairs, Ordered
  <2>7. CASE ConnectToList(s)
    BY <1>1, <1>2, <2>7 DEF ConnectToList, Goto, TypeOK, SessionInv, Bookkeeping, AskedPairs, Ordered
  <2>2. CASE LoadKeys(s)
    BY <1>1, <1>2, <2>2, FS_EmptySet
       DEF LoadKeys, Goto, TypeOK, SessionInv, Bookkeeping, AskedPairs, Ordered
  <2>3. CASE ListIdentities(s)
    <3>1. PICK ids \in Listing :
            /\ matched' = [matched EXCEPT ![s] = MatchedPairs(ids, lines[s])]
            /\ untried' = [untried EXCEPT ![s] = MatchedPairs(ids, lines[s])]
      BY <2>3 DEF ListIdentities
    <3>2. \A p \in MatchedPairs(ids, lines[s]) : p[2] \in DOMAIN lines[s]
      BY MatchedPairsType, ListingAssumption DEF TypeOK
    <3>3. matched'[s] = untried'[s] /\ asks'[s] = {} /\ tried'[s] = 0 /\ pc'[s] = "next"
      BY <1>1, <2>3, <3>1 DEF ListIdentities, Goto, TypeOK, SessionInv, Bookkeeping
    <3> QED
      BY <1>1, <1>2, <2>3, <3>1, <3>2, <3>3, FS_EmptySet
         DEF ListIdentities, TypeOK, SessionInv, Bookkeeping, AskedPairs, Ordered
  <2>4. CASE NextAttempt(s)
    <3>1. PICK p \in untried[s] :
            /\ \A q \in untried[s] \ {p} : Before(p, q)
            /\ at' = [at EXCEPT ![s] = p]
            /\ untried' = [untried EXCEPT ![s] = @ \ {p}]
      BY <2>4 DEF NextAttempt
    <3>2. /\ at'[s] = p /\ untried'[s] = untried[s] \ {p}
          /\ tried'[s] = tried[s] + 1 /\ pc[s] = "next" /\ pc'[s] = "try"
          /\ tried[s] < config[s].cap
      BY <1>2, <2>4, <3>1 DEF NextAttempt, Goto, TypeOK, CapReached
    <3>3. \A q \in untried'[s] : at'[s][1] <= q[1]
      <4>1. p \in Nat \X Nat /\ untried[s] \subseteq Nat \X Nat
        BY DEF TypeOK, Pair
      <4>2. \A q \in untried'[s] : Before(p, q)
        BY <3>1, <3>2
      <4> QED
        BY <3>2, <4>1, <4>2 DEF Before
    <3>4. UNCHANGED <<matched, lines>>
      BY <2>4 DEF NextAttempt
    <3> QED
      BY <1>1, <1>2, <3>2, <3>3, <3>4 DEF SessionInv, Bookkeeping, AskedPairs, Ordered
  <2>5. CASE ReplyRefused(s) \/ ReplyNotVerified(s)
    BY <1>1, <1>2, <2>5
       DEF ReplyRefused, ReplyNotVerified, Goto, TypeOK, SessionInv, Bookkeeping, AskedPairs, Ordered
  <2> QED
    BY <2>1, <2>2, <2>3, <2>4, <2>5, <2>7
<1> QED
  BY <1>3, <1>4, <1>5 DEF SessionInv

\* Drawing a challenge and sending the request.
LEMMA SendKeeps ==
  ASSUME TypeOK, NEW s \in Session, SessionInv(s), SendSign(s)
  PROVE  SessionInv(s)'
<1>1. PICK c \in Challenge :
        /\ Draw(s, c)
        /\ asks' = [asks EXCEPT ![s] = @ \cup {[pair |-> at[s], challenge |-> c]}]
  BY DEF SendSign
<1> DEFINE ask == [pair |-> at[s], challenge |-> c]
<1>2. /\ pc[s] = "try" /\ pc'[s] = "reply" /\ challenge'[s] = c
      /\ asks'[s] = asks[s] \cup {ask}
      /\ result'[s] = "Pending" /\ result[s] = "Pending" /\ accepted[s] = {}
      /\ UNCHANGED <<signed, inputs, untried, tried, at, accepted>>
  BY <1>1 DEF SendSign, Draw, Goto, TypeOK, SessionInv, Bookkeeping, GrantIsCurrent
<1>3. /\ IsFiniteSet(asks[s]) /\ Cardinality(asks[s]) + 1 = tried[s]
      /\ tried[s] <= config[s].cap
      /\ matched[s] = AskedPairs(s) \cup untried[s] \cup {at[s]}
      /\ at[s] \notin AskedPairs(s) \cup untried[s]
      /\ AskedPairs(s) \cap untried[s] = {}
      /\ \A q \in untried[s] : at[s][1] <= q[1]
  BY <1>2 DEF SessionInv, Bookkeeping
<1>4. ask \notin asks[s]
  BY <1>3 DEF AskedPairs
<1>5. IsFiniteSet(asks'[s]) /\ Cardinality(asks'[s]) = Cardinality(asks[s]) + 1
  <2> HIDE DEF ask
  <2>1. /\ IsFiniteSet(asks[s] \cup {ask})
        /\ Cardinality(asks[s] \cup {ask}) = Cardinality(asks[s]) + 1
    BY <1>3, <1>4, FS_AddElement
  <2> QED
    BY <1>2, <2>1
<1>6. AskedPairs(s)' = AskedPairs(s) \cup {at[s]}
  <2>1. \A p : p \in AskedPairs(s)' <=> \E r \in asks'[s] : p = r.pair
    BY DEF AskedPairs
  <2>2. \A p : p \in AskedPairs(s) <=> \E r \in asks[s] : p = r.pair
    BY DEF AskedPairs
  <2>3. ask.pair = at[s]
    OBVIOUS
  <2> HIDE DEF ask
  <2> QED
    BY <1>2, <2>1, <2>2, <2>3
<1>7. config[s].cap \in Nat /\ tried[s] \in Nat /\ Cardinality(asks[s]) \in Nat
  BY <1>3, TypedCap, FS_CardinalityType
<1>8. Bookkeeping(s)'
  BY <1>2, <1>3, <1>5, <1>6, <1>7 DEF SessionInv, Bookkeeping
<1>9. GrantIsCurrent(s)' /\ Possessed(s)' /\ Blamed(s)'
  BY <1>2 DEF GrantIsCurrent, Possessed, Blamed
<1>10. Budgeted(s)'
  BY <1>2, <1>3, <1>5, <1>7 DEF SessionInv, Budgeted, AskedPairs
<1>11. Ordered(s)'
  <2> SUFFICES ASSUME NEW r \in asks'[s], NEW p \in matched[s], p[1] < r.pair[1]
               PROVE  \E q \in asks'[s] : q.pair = p
    BY <1>2 DEF Ordered
  <2>1. CASE r \in asks[s]
    BY <1>2, <2>1 DEF SessionInv, Ordered
  <2>2. CASE r = ask
    <3>1. p[1] < at[s][1]
      BY <2>2
    <3>2. p \in Nat \X Nat /\ at[s] \in Nat \X Nat
      BY DEF TypeOK, Pair
    <3>3. p \notin untried[s] /\ p # at[s]
      BY <1>3, <3>1, <3>2
    <3> QED
      BY <1>2, <1>3, <3>3 DEF AskedPairs
  <2> QED
    BY <1>2, <2>1, <2>2
<1> QED
  BY <1>8, <1>9, <1>10, <1>11 DEF SessionInv

\* The reply that verifies.
LEMMA GrantKeeps ==
  ASSUME TypeOK, NEW s \in Session, SessionInv(s), ReplyVerified(s)
  PROVE  SessionInv(s)'
<1>1. PICK a \in Assertion :
        Verifies(s, a) /\ accepted' = [accepted EXCEPT ![s] = {a}]
  BY DEF ReplyVerified
<1>2. /\ pc[s] = "reply" /\ pc'[s] = "done" /\ result'[s] = "PAM_SUCCESS"
      /\ accepted'[s] = {a}
      /\ UNCHANGED <<world, inputs, loop, asks>>
  BY <1>1 DEF ReplyVerified, End, TypeOK
<1>3. /\ IsFiniteSet(asks[s]) /\ Cardinality(asks[s]) = tried[s]
      /\ matched[s] = AskedPairs(s) \cup untried[s]
      /\ [pair |-> at[s], challenge |-> challenge[s]] \in asks[s]
  BY <1>2 DEF SessionInv, Bookkeeping
<1>4. at[s] \in matched[s]
  <2>1. [pair |-> at[s], challenge |-> challenge[s]].pair \in AskedPairs(s)
    BY <1>3 DEF AskedPairs
  <2> QED
    BY <1>3, <2>1
<1>5. Cardinality(asks[s]) \in Nat /\ tried[s] \in Nat
  <2>1. Cardinality(asks[s]) \in Nat
    BY <1>3, FS_CardinalityType
  <2>2. tried[s] \in Nat
    BY TypedCap
  <2> QED
    BY <2>1, <2>2
<1>6. Bookkeeping(s)'
  BY <1>2, <1>3, <1>5 DEF SessionInv, Bookkeeping, AskedPairs
<1>7. GrantIsCurrent(s)' /\ Blamed(s)'
  BY <1>1, <1>2 DEF GrantIsCurrent, Blamed, Verifies
<1>8. Possessed(s)'
  BY <1>1, <1>2, <1>3, <1>4 DEF Possessed, Verifies, UvRequired, Key
<1>9. Budgeted(s)' /\ Ordered(s)'
  BY <1>2 DEF SessionInv, Budgeted, Ordered
<1> QED
  BY <1>6, <1>7, <1>8, <1>9 DEF SessionInv
-----------------------------------------------------------------------------
(* The invariant and what follows from it. *)

\* A drawn challenge is new, so no two sessions have the same one.
LEMMA DrawKeeps ==
  ASSUME TypeOK, ChallengesApart, NEW s \in Session, NEW c \in Challenge, Draw(s, c)
  PROVE  ChallengesApart'
<1>1. /\ c \notin drawn /\ drawn' = drawn \cup {c} /\ c # NoChallenge
      /\ challenge'[s] = c
      /\ \A t \in Session \ {s} : challenge'[t] = challenge[t]
  BY ChallengeAssumption DEF Draw, FreshChallenges, TypeOK
<1> QED
  BY <1>1 DEF ChallengesApart

LEMMA FailStep ==
  ASSUME TypeOK, NEW s \in Session, SessionInv(s), pc[s] # "done",
         NEW class \in {"Service", "InfoUnavailable"}, Fail(s, class)
  PROVE  SessionInv(s)' /\ UNCHANGED <<challenge, drawn>>
  BY FaultKeeps DEF Fail

LEMMA InvStep ==
  ASSUME TypeOK, Inv, NEW s \in Session, Step(s)
  PROVE  Inv'
<1>0. /\ ChallengesApart /\ SessionInv(s)
      /\ \A t \in Session : SessionInv(t)
  BY InvBySession
<1>1. signed' = signed /\ \A t \in Session \ {s} : Unmoved(t)
  BY DEF TypeOK, Step, ParseArgs, OpenFails, NoKeysOrSocket, LoadKeys, ConnectFails,
         ConnectToList, ListFails, NoIdentities, ListIdentities, Exhausted, CapHit, NextAttempt,
         NoEntropy, SendFails, SendSign, ReplyFails, ReplyRefused, ReplyVerified, ReplyNotVerified, Fail, End, Goto,
         Draw, Unmoved
<1>2. \A t \in Session \ {s} : SessionInv(t)'
  BY <1>0, <1>1, Others
<1>3. SessionInv(s)' /\ ChallengesApart'
  <2>1. CASE ParseArgs(s)
    <3>1. Parsed(s) \/ (pc[s] # "done" /\ Fail(s, "Service"))
      BY <2>1 DEF ParseArgs, Parsed
    <3>2. SessionInv(s)'
      BY <1>0, <3>1, MoveKeeps, FailStep
    <3> QED
      BY <1>0, <3>1, <3>2, SameChallenges DEF Parsed, Fail
  <2>2. CASE OpenFails(s)
    <3>1. ClassifyOpenErr(file.kind) \in {"Service", "InfoUnavailable"}
      BY ClassifyType, FileAssumption DEF TypeOK
    <3> QED
      BY <1>0, <2>2, <3>1, FailStep, SameChallenges DEF OpenFails
  <2>3. CASE NoKeysOrSocket(s) \/ NoIdentities(s)
    BY <1>0, <2>3, FailStep, SameChallenges DEF NoKeysOrSocket, NoIdentities
  <2>4. CASE ListFails(s) \/ ReplyFails(s)
    BY <1>0, <2>4, FailStep, SameChallenges, ClassifyType DEF ListFails, ReplyFails
  <2>11. CASE ConnectFails(s)
    BY <1>0, <2>11, FailStep, SameChallenges, ClassifyType DEF ConnectFails, IoKind
  <2>5. CASE NoEntropy(s)
    BY <1>0, <2>5, FailStep, SameChallenges DEF NoEntropy
  <2>6. CASE \/ LoadKeys(s) \/ ConnectToList(s) \/ ListIdentities(s) \/ NextAttempt(s)
             \/ ReplyRefused(s) \/ ReplyNotVerified(s)
    <3>1. challenge' = challenge /\ drawn' = drawn
      BY <2>6 DEF LoadKeys, ConnectToList, ListIdentities, NextAttempt, ReplyRefused, ReplyNotVerified
    <3> QED
      BY <1>0, <2>6, <3>1, MoveKeeps, SameChallenges
  <2>7. CASE Exhausted(s) \/ CapHit(s)
    <3>1. challenge' = challenge /\ drawn' = drawn
      BY <2>7 DEF Exhausted, CapHit, Fail
    <3> QED
      BY <1>0, <2>7, <3>1, BlameKeeps, SameChallenges
  <2>8. CASE SendFails(s)
    <3>1. SessionInv(s)'
      BY <1>0, <2>8, FaultKeeps, ClassifyType DEF SendFails, Draw, IoKind
    <3> QED
      BY <1>0, <2>8, <3>1, DrawKeeps DEF SendFails
  <2>9. CASE SendSign(s)
    BY <1>0, <2>9, SendKeeps, DrawKeeps DEF SendSign
  <2>10. CASE ReplyVerified(s)
    BY <1>0, <2>10, GrantKeeps, SameChallenges DEF ReplyVerified
  <2> QED
    BY <2>1, <2>2, <2>3, <2>4, <2>5, <2>6, <2>7, <2>8, <2>9, <2>10, <2>11 DEF Step
<1> QED
  BY <1>2, <1>3, InvBySessionNext

\* Inv holds in every reachable state, whatever the constants.
THEOREM Invariant == Spec => []Inv
<1>1. TypeOK /\ Inv /\ [Next]_vars => Inv'
  <2> SUFFICES ASSUME TypeOK, Inv, [Next]_vars PROVE Inv'
    OBVIOUS
  <2>1. ASSUME NEW s \in Session, Step(s) PROVE Inv'
    BY <2>1, InvStep
  <2>2. CASE Edit \/ (\E a \in Assertion : Sign(a)) \/ UNCHANGED vars
    <3>1. /\ signed \subseteq signed' /\ challenge' = challenge /\ drawn' = drawn
          /\ \A t \in Session : Unmoved(t)
      BY <2>2 DEF Edit, Sign, vars, Unmoved
    <3>2. \A t \in Session : SessionInv(t)'
      BY <3>1, Others, InvBySession
    <3>3. ChallengesApart'
      BY <3>1, SameChallenges, InvBySession
    <3> QED
      BY <3>2, <3>3, InvBySessionNext
  <2> QED
    BY <2>1, <2>2 DEF Next
<1> QED
  BY InvInit, <1>1, TypeCorrect, PTL DEF Spec

\* PAM_SUCCESS means possession was proved in this very attempt.
THEOREM Possession == Spec => []PossessionProved
<1>1. Inv => PossessionProved
  BY DEF Inv
<1> QED
  BY <1>1, Invariant, PTL

\* No signature grants two sessions.
THEOREM OneGrantPerAssertion == Spec => []NoSharedAssertion
<1>1. TypeOK /\ Inv => NoSharedAssertion
  <2> SUFFICES ASSUME TypeOK, Inv, NEW s \in Session, NEW t \in Session, s # t,
                      NEW a \in accepted[s] \cap accepted[t]
               PROVE  FALSE
    BY DEF NoSharedAssertion
  <2>1. a.challenge = challenge[s] /\ a.challenge = challenge[t]
    BY DEF Inv, GrantIsCurrent
  <2>2. a.challenge # NoChallenge
    BY ChallengeAssumption DEF TypeOK, Assertion
  <2> QED
    BY <2>1, <2>2 DEF Inv, ChallengesApart
<1> QED
  BY <1>1, Invariant, TypeCorrect, PTL

\* The user is prompted at most max_attempts times, once for a match.
THEOREM PromptsBounded == Spec => []PromptBudget
<1>1. Inv => PromptBudget
  BY DEF Inv
<1> QED
  BY <1>1, Invariant, PTL

\* The attempts follow the agent's order.
THEOREM AttemptsInOrder == Spec => []AgentOrder
<1>1. Inv => AgentOrder
  BY DEF Inv
<1> QED
  BY <1>1, Invariant, PTL

\* PAM_AUTH_ERR comes after every attempt the cap allows.
THEOREM BlameIsEarned == Spec => []BlamedAfterTrying
<1>1. Inv => BlamedAfterTrying
  BY DEF Inv
<1> QED
  BY <1>1, Invariant, PTL
-----------------------------------------------------------------------------
(* The hook implements its abstract specification, AuthSpec: the initial     *)
(* states map to initial states and every step to a step or a stutter.       *)

\* The variables of AuthSpec under the refinement mapping.
MPolicy  == [s \in Session |-> PolicyOf(s)]
MBudget  == [s \in Session |-> IF lines[s] = <<>> THEN 0 ELSE config[s].cap]
MPrompts == [s \in Session |-> Cardinality(asks[s])]

\* Sessions that load and ask nothing keep their policy, budget and prompts.
LEMMA MappedUnchanged ==
  ASSUME UNCHANGED <<lines, config, asks>>
  PROVE  UNCHANGED <<MPolicy, MBudget, MPrompts>>
  BY DEF MPolicy, MBudget, MPrompts, PolicyOf

LEMMA RefineInit == Init => Promise!AInit
<1> SUFFICES ASSUME Init PROVE Promise!AInit
  OBVIOUS
<1>1. \A s \in Session : lines[s] = <<>> /\ asks[s] = {}
  BY DEF Init
<1>2. \A s \in Session : PolicyOf(s) = {}
  BY <1>1 DEF PolicyOf
<1>3. MPolicy = [s \in Session |-> {}]
  BY <1>2 DEF MPolicy
<1>4. MBudget = [s \in Session |-> 0]
  BY <1>1 DEF MBudget
<1>5. MPrompts = [s \in Session |-> 0]
  BY <1>1, FS_EmptySet DEF MPrompts
<1> QED
  BY <1>3, <1>4, <1>5 DEF Init, Promise!AInit, MPolicy, MBudget, MPrompts

\* A failure is a refusal.
LEMMA RefineFail ==
  ASSUME TypeOK, NEW s \in Session, SessionInv(s), pc[s] # "done",
         NEW code \in {"PAM_SERVICE_ERR", "PAM_AUTHINFO_UNAVAIL", "PAM_AUTH_ERR"},
         code = "PAM_AUTH_ERR" => lines[s] # <<>>,
         End(s, code), UNCHANGED <<lines, config, asks, signed, accepted>>
  PROVE  Promise!Refuse(s, code)
<1>1. result[s] = "Pending"
  BY DEF SessionInv, Bookkeeping
<1>2. UNCHANGED <<MPolicy, MBudget, MPrompts>>
  BY MappedUnchanged
<1>3. code = "PAM_AUTH_ERR" => MPolicy[s] # {}
  <2> SUFFICES ASSUME lines[s] # <<>> PROVE PolicyOf(s) # {}
    BY DEF MPolicy
  <2>1. 1 \in DOMAIN lines[s]
    BY DEF TypeOK
  <2> QED
    BY <2>1 DEF PolicyOf
<1> QED
  BY <1>1, <1>2, <1>3 DEF Promise!Refuse, End, MPolicy, MBudget, MPrompts

\* Reading the file fixes policy and budget.
LEMMA RefineLoad ==
  ASSUME TypeOK, NEW s \in Session, SessionInv(s), LoadKeys(s)
  PROVE  Promise!Admit(s)
<1>1. /\ result[s] = "Pending" /\ lines[s] = <<>> /\ lines'[s] = file.lines
      /\ lines'[s] # <<>> /\ lines'[s] \in Seq(Line)
      /\ \A t \in Session \ {s} : lines'[t] = lines[t]
      /\ UNCHANGED <<config, asks, signed, accepted, result>>
  <2>1. pc[s] = "open_secure" /\ lines' = [lines EXCEPT ![s] = file.lines]
        /\ file.lines # <<>> /\ UNCHANGED <<config, asks, signed, accepted, result>>
    BY DEF LoadKeys, Goto
  <2>2. result[s] = "Pending" /\ lines[s] = <<>>
    BY <2>1 DEF SessionInv, Bookkeeping
  <2>3. file.lines \in Seq(Line)
    BY FileAssumption DEF TypeOK
  <2> QED
    BY <2>1, <2>2, <2>3 DEF TypeOK
<1>2. config[s].cap \in {c.cap : c \in Config}
  BY DEF TypeOK
<1>3. config[s].uv \in BOOLEAN
  BY ConfigAssumption DEF TypeOK
<1>4. MPolicy[s] = {}
  BY <1>1 DEF MPolicy, PolicyOf
<1>5. PolicyOf(s)' \in (SUBSET Line) \ {{}}
  <2>1. 1 \in DOMAIN lines'[s]
    BY <1>1
  <2>2. \A i \in DOMAIN lines'[s] : lines'[s][i] \in Line
    BY <1>1
  <2>3. PolicyOf(s)' = {[blob |-> lines'[s][i].blob, uv |-> config[s].uv \/ lines'[s][i].uv] :
                          i \in DOMAIN lines'[s]}
    BY <1>1 DEF PolicyOf
  <2> QED
    <3>1. \A i \in DOMAIN lines'[s] :
            [blob |-> lines'[s][i].blob, uv |-> config[s].uv \/ lines'[s][i].uv] \in Line
      <4> SUFFICES ASSUME NEW i \in DOMAIN lines'[s]
                   PROVE  [blob |-> lines'[s][i].blob,
                           uv |-> config[s].uv \/ lines'[s][i].uv] \in Line
        OBVIOUS
      <4>1. lines'[s][i].blob \in WebauthnBlob
        BY <2>2 DEF Line
      <4>2. (config[s].uv \/ lines'[s][i].uv) \in BOOLEAN
        OBVIOUS
      <4> QED
        BY <4>1, <4>2 DEF Line
    <3> QED
      BY <2>1, <2>3, <3>1
<1>6. MPolicy' = [MPolicy EXCEPT ![s] = PolicyOf(s)']
  BY <1>1 DEF MPolicy, PolicyOf
<1>7. MBudget' = [MBudget EXCEPT ![s] = config[s].cap]
  BY <1>1 DEF MBudget
<1>8. MPrompts' = MPrompts
  BY <1>1 DEF MPrompts
<1>9. \E p \in (SUBSET Line) \ {{}}, n \in {c.cap : c \in Config} :
        MPolicy' = [MPolicy EXCEPT ![s] = p] /\ MBudget' = [MBudget EXCEPT ![s] = n]
  BY <1>2, <1>5, <1>6, <1>7
<1> QED
  BY <1>1, <1>4, <1>8, <1>9 DEF Promise!Admit, MPolicy, MBudget, MPrompts

\* A sign request is a prompt within the budget.
LEMMA RefineSend ==
  ASSUME TypeOK, NEW s \in Session, SessionInv(s), SendSign(s), SessionInv(s)'
  PROVE  Promise!Prompt(s)
<1>1. PICK c \in Challenge :
        asks' = [asks EXCEPT ![s] = @ \cup {[pair |-> at[s], challenge |-> c]}]
  BY DEF SendSign
<1> DEFINE ask == [pair |-> at[s], challenge |-> c]
<1>2. /\ result[s] = "Pending" /\ lines[s] # <<>> /\ IsFiniteSet(asks[s])
      /\ at[s] \notin AskedPairs(s) /\ Cardinality(asks[s]) + 1 = tried[s]
      /\ tried[s] <= config[s].cap
      /\ UNCHANGED <<lines, config, signed, accepted, result>>
  BY DEF SendSign, Goto, SessionInv, Bookkeeping
<1>3. ask \notin asks[s]
  BY <1>2 DEF AskedPairs
<1>4. Cardinality(asks'[s]) = Cardinality(asks[s]) + 1
  <2> HIDE DEF ask
  <2>1. Cardinality(asks[s] \cup {ask}) = Cardinality(asks[s]) + 1
    BY <1>2, <1>3, FS_AddElement
  <2> QED
    BY <1>1, <2>1 DEF TypeOK, ask
<1>5. Cardinality(asks[s]) \in Nat /\ config[s].cap \in Nat /\ tried[s] \in Nat
  <2>1. Cardinality(asks[s]) \in Nat
    BY <1>2, FS_CardinalityType
  <2> QED
    BY <2>1, TypedCap
<1>6. MPrompts[s] < MBudget[s]
  BY <1>2, <1>5 DEF MPrompts, MBudget
<1>7. MPrompts' = [MPrompts EXCEPT ![s] = @ + 1]
  BY <1>1, <1>4 DEF MPrompts, TypeOK
<1>8. UNCHANGED <<MPolicy, MBudget>>
  BY <1>2 DEF MPolicy, MBudget, PolicyOf
<1> QED
  BY <1>2, <1>6, <1>7, <1>8 DEF Promise!Prompt, MPolicy, MBudget, MPrompts

\* The reply that verifies is a grant.
LEMMA RefineGrant ==
  ASSUME TypeOK, NEW s \in Session, \A t \in Session : SessionInv(t), ChallengesApart,
         ReplyVerified(s)
  PROVE  Promise!Grant(s)
<1>1. PICK a \in Assertion :
        Verifies(s, a) /\ accepted' = [accepted EXCEPT ![s] = {a}]
  BY DEF ReplyVerified
<1>2. /\ pc[s] = "reply" /\ result' = [result EXCEPT ![s] = "PAM_SUCCESS"]
      /\ UNCHANGED <<lines, config, asks, signed>>
  BY DEF ReplyVerified, End
<1>3. /\ result[s] = "Pending" /\ IsFiniteSet(asks[s])
      /\ [pair |-> at[s], challenge |-> challenge[s]] \in asks[s]
      /\ matched[s] = AskedPairs(s) \cup untried[s]
      /\ \A p \in matched[s] : p[2] \in DOMAIN lines[s]
  BY <1>2 DEF SessionInv, Bookkeeping
<1>4. MPrompts[s] > 0
  <2>1. Cardinality(asks[s]) \in Nat
    BY <1>3, FS_CardinalityType
  <2>2. Cardinality(asks[s]) # 0
    BY <1>3, FS_EmptySet
  <2> QED
    BY <2>1, <2>2 DEF MPrompts
<1>5. at[s][2] \in DOMAIN lines[s]
  <2>1. [pair |-> at[s], challenge |-> challenge[s]].pair \in AskedPairs(s)
    BY <1>3 DEF AskedPairs
  <2> QED
    BY <1>3, <2>1
<1>6. \E l \in MPolicy[s] : l.blob = a.blob /\ (l.uv => a.uv)
  <2> DEFINE l == [blob |-> lines[s][at[s][2]].blob,
                  uv |-> config[s].uv \/ lines[s][at[s][2]].uv]
  <2>1. l \in MPolicy[s]
    BY <1>5 DEF MPolicy, PolicyOf
  <2>2. l.blob = a.blob /\ (l.uv => a.uv)
    BY <1>1 DEF Verifies, UvRequired, Key
  <2> QED
    BY <2>1, <2>2
<1>7. \A t \in Session : a \notin accepted[t]
  <2> SUFFICES ASSUME NEW t \in Session, a \in accepted[t] PROVE FALSE
    OBVIOUS
  <2>1. a.challenge = challenge[t] /\ a.challenge = challenge[s]
    BY <1>1 DEF SessionInv, GrantIsCurrent, Verifies
  <2>2. a.challenge # NoChallenge
    BY ChallengeAssumption DEF Assertion
  <2>3. t = s
    BY <2>1, <2>2 DEF ChallengesApart
  <2> QED
    BY <1>3, <2>3 DEF SessionInv, GrantIsCurrent
<1>8. UNCHANGED <<MPolicy, MBudget, MPrompts>>
  BY <1>2, MappedUnchanged
<1>9. a \in signed
  BY <1>1 DEF Verifies
<1> QED
  BY <1>1, <1>2, <1>3, <1>4, <1>6, <1>7, <1>8, <1>9
     DEF Promise!Grant, Promise!Accepts, MPolicy, MBudget, MPrompts

\* Every step of a session is a step of AuthSpec or leaves it unchanged.
LEMMA RefineStep ==
  ASSUME TypeOK, Inv, TypeOK', Inv', NEW s \in Session, Step(s)
  PROVE  Promise!ANext \/ UNCHANGED Promise!avars
<1>0. /\ ChallengesApart /\ SessionInv(s) /\ SessionInv(s)'
      /\ \A t \in Session : SessionInv(t)
  <2>1. \A t \in Session : SessionInv(t)
    BY InvBySession
  <2>2. (\A t \in Session : SessionInv(t))'
    BY DEF Inv, SessionInv, PossessionProved, PromptBudget, AgentOrder, BlamedAfterTrying,
           Possessed, Budgeted, Ordered, Blamed
  <2> QED
    BY <2>1, <2>2 DEF Inv
<1>1. CASE \E class \in {"Service", "InfoUnavailable", "AuthFail"} :
             /\ pc[s] # "done"
             /\ class = "AuthFail" => lines[s] # <<>>
             /\ End(s, PamCode[class])
             /\ UNCHANGED <<lines, config, asks, signed, accepted>>
  <2>1. PICK code \in {"PAM_SERVICE_ERR", "PAM_AUTHINFO_UNAVAIL", "PAM_AUTH_ERR"} :
          /\ pc[s] # "done" /\ End(s, code)
          /\ code = "PAM_AUTH_ERR" => lines[s] # <<>>
          /\ UNCHANGED <<lines, config, asks, signed, accepted>>
    BY <1>1 DEF PamCode
  <2> QED
    BY <1>0, <2>1, RefineFail DEF Promise!ANext, Promise!Failure
<1>2. CASE /\ UNCHANGED <<lines, config, asks, signed, accepted, result>>
  <2>1. UNCHANGED <<MPolicy, MBudget, MPrompts>>
    BY <1>2, MappedUnchanged
  <2> QED
    BY <1>2, <2>1 DEF Promise!avars, MPolicy, MBudget, MPrompts
<1>3. CASE ParseArgs(s)
  BY <1>1, <1>2, <1>3 DEF ParseArgs, Fail, Goto
<1>4. CASE OpenFails(s)
  <2>1. ClassifyOpenErr(file.kind) \in {"Service", "InfoUnavailable"}
    BY ClassifyType, FileAssumption DEF TypeOK
  <2> QED
    BY <1>1, <1>4, <2>1 DEF OpenFails, Fail
<1>5. CASE NoKeysOrSocket(s) \/ NoIdentities(s) \/ NoEntropy(s)
  BY <1>1, <1>5 DEF NoKeysOrSocket, NoIdentities, NoEntropy, Fail
<1>6. CASE ListFails(s) \/ ReplyFails(s)
  BY <1>1, <1>6, ClassifyType DEF ListFails, ReplyFails, Fail
<1>7. CASE ConnectFails(s) \/ SendFails(s)
  <2>1. ClassifyIoErr("Other") \in {"Service", "InfoUnavailable"}
    BY ClassifyType DEF IoKind
  <2> QED
    BY <1>1, <1>7, <2>1 DEF ConnectFails, SendFails, Fail
<1>8. CASE Exhausted(s) \/ CapHit(s)
  <2>1. lines[s] # <<>>
    BY <1>0, <1>8 DEF Exhausted, CapHit, SessionInv, Bookkeeping
  <2> QED
    BY <1>1, <1>8, <2>1 DEF Exhausted, CapHit, Fail
<1>9. CASE \/ ConnectToList(s) \/ ListIdentities(s) \/ NextAttempt(s)
           \/ ReplyRefused(s) \/ ReplyNotVerified(s)
  BY <1>2, <1>9 DEF ConnectToList, ListIdentities, NextAttempt, ReplyRefused, ReplyNotVerified, Goto
<1>10. CASE LoadKeys(s)
  BY <1>0, <1>10, RefineLoad DEF Promise!ANext
<1>11. CASE SendSign(s)
  BY <1>0, <1>11, RefineSend DEF Promise!ANext
<1>12. CASE ReplyVerified(s)
  BY <1>0, <1>12, RefineGrant DEF Promise!ANext
<1> QED
  BY <1>3, <1>4, <1>5, <1>6, <1>7, <1>8, <1>9, <1>10, <1>11, <1>12 DEF Step

\* The hook implements AuthSpec, for any constants: a verdict is given once,
\* prompts stay within the budget fixed before the first, and a grant uses an
\* assertion that the policy accepts and no session was granted with.
THEOREM Implements == Spec => ImplementsAuthSpec
<1>1. TypeOK /\ Inv /\ TypeOK' /\ Inv' /\ [Next]_vars => [Promise!ANext]_(Promise!avars)
  <2> SUFFICES ASSUME TypeOK, Inv, TypeOK', Inv', [Next]_vars
               PROVE  Promise!ANext \/ UNCHANGED Promise!avars
    OBVIOUS
  <2>1. ASSUME NEW s \in Session, Step(s)
        PROVE  Promise!ANext \/ UNCHANGED Promise!avars
    BY <2>1, RefineStep
  <2>2. CASE Edit \/ UNCHANGED vars
    <3>1. UNCHANGED <<lines, config, asks, signed, accepted, result>>
      BY <2>2 DEF Edit, vars
    <3>2. UNCHANGED <<MPolicy, MBudget, MPrompts>>
      BY <3>1, MappedUnchanged
    <3> QED
      BY <3>1, <3>2 DEF Promise!avars, MPolicy, MBudget, MPrompts
  <2>3. ASSUME NEW a \in Assertion, Sign(a) PROVE Promise!Produce(a)
    <3>1. /\ signed' = signed \cup {a}
          /\ UNCHANGED <<lines, config, asks, accepted, result>>
      BY <2>3 DEF Sign
    <3>2. UNCHANGED <<MPolicy, MBudget, MPrompts>>
      BY <3>1, MappedUnchanged
    <3> QED
      BY <3>1, <3>2 DEF Promise!Produce, MPolicy, MBudget, MPrompts
  <2> QED
    BY <2>1, <2>2, <2>3 DEF Next, Promise!ANext
<1> QED
  BY <1>1, RefineInit, TypeCorrect, Invariant, PTL DEF Spec, ImplementsAuthSpec, Promise!ASpec
-----------------------------------------------------------------------------
(* With a working agent the verdict is decided by the lines, the listing and *)
(* the cap: for any number of sessions, credentials, files and listings.     *)

(* The inductive invariant.  What has been tried is counted by tried, comes  *)
(* before what has not, and none of it, but for the current attempt, was     *)
(* usable.                                                                   *)

Tried(s) == matched[s] \ untried[s]

Decided(s) == pc[s] = "done" /\ matched[s] # {} =>
  result[s] = IF \E p \in Usable(s) : WithinCap(s, p) THEN "PAM_SUCCESS" ELSE "PAM_AUTH_ERR"

Walked(s) ==
  /\ Cardinality(Tried(s)) = tried[s] /\ tried[s] <= config[s].cap
  /\ \A p \in Tried(s), q \in untried[s] : Before(p, q)

HonestInv(s) ==
  /\ IsFiniteSet(matched[s]) /\ untried[s] \subseteq matched[s]
  /\ pc[s] \in {"parse_args", "open_secure", "list_identities", "read_list"} =>
       matched[s] = {} /\ tried[s] = 0
  /\ pc[s] \in {"next", "try", "reply"} => Walked(s)
  /\ pc[s] = "next" => \A p \in Tried(s) : p \notin Usable(s)
  /\ pc[s] \in {"try", "reply"} =>
       at[s] \in Tried(s) /\ \A p \in Tried(s) \ {at[s]} : p \notin Usable(s)
  /\ pc[s] = "reply" => challenge[s] \in Challenge
  /\ Decided(s)

LEMMA HonestInit == Init => \A s \in Session : HonestInv(s)
  BY FS_EmptySet DEF Init, HonestInv, Decided

LEMMA BeforeAsymmetric ==
  \A p, q \in Pair : ~(Before(p, q) /\ Before(q, p))
  BY DEF Pair, Before

\* A match is within the cap if fewer matches than that come before it.
LEMMA WithinCapIsBefore ==
  ASSUME NEW s \in Session, NEW p
  PROVE  WithinCap(s, p) <=> Cardinality({q \in matched[s] : Before(q, p)}) < config[s].cap
  BY DEF WithinCap, Before

\* The steps of the honest agent are steps of the hook with any agent.
LEMMA HonestStepIsStep ==
  ASSUME NEW s \in Session, HonestStep(s)
  PROVE  Step(s)
  BY DEF HonestStep, HonestReply, Step

LEMMA HonestSignIsSign ==
  ASSUME TypeOK, NEW s \in Session, HonestInv(s), HonestSign(s)
  PROVE  Produces(s) \in Assertion /\ Sign(Produces(s))
<1>1. challenge[s] \in Challenge /\ Key(s).blob \in WebauthnBlob
  BY HeldAssumption DEF HonestSign, HonestInv
<1> QED
  BY <1>1 DEF HonestSign, Produces, Assertion

\* Another session's step leaves a session alone.
LEMMA HonestOthers ==
  ASSUME NEW t \in Session, HonestInv(t), Unmoved(t)
  PROVE  HonestInv(t)'
<1>1. Usable(t)' = Usable(t) /\ Tried(t)' = Tried(t)
  BY DEF Unmoved, Usable, Tried
<1>2. \A p : WithinCap(t, p)' <=> WithinCap(t, p)
  BY DEF Unmoved, WithinCap
<1>3. Decided(t)'
  BY <1>1, <1>2 DEF Unmoved, HonestInv, Decided
<1>4. Walked(t)' <=> Walked(t)
  BY <1>1 DEF Unmoved, Walked
<1> QED
  BY <1>1, <1>3, <1>4 DEF Unmoved, HonestInv

LEMMA StepLeavesOthers ==
  ASSUME TypeOK, NEW s \in Session, Step(s), NEW t \in Session \ {s}
  PROVE  Unmoved(t)
  BY DEF TypeOK, Step, ParseArgs, OpenFails, NoKeysOrSocket, LoadKeys, ConnectFails,
         ConnectToList, ListFails, NoIdentities, ListIdentities, Exhausted, CapHit, NextAttempt,
         NoEntropy, SendFails, SendSign, ReplyFails, ReplyRefused, ReplyVerified, ReplyNotVerified, Fail, End, Goto,
         Draw, Unmoved
-----------------------------------------------------------------------------
(* One lemma per kind of step, about the session that takes it. *)

\* Before there is a match, whatever happens decides nothing.
LEMMA EarlyKeeps ==
  ASSUME TypeOK, NEW s \in Session, HonestInv(s),
         \/ ParseArgs(s) /\ result'[s] = "Pending"
         \/ OpenFails(s) \/ NoKeysOrSocket(s) \/ LoadKeys(s) \/ ConnectToList(s) \/ NoIdentities(s)
  PROVE  HonestInv(s)'
<1>1. /\ matched[s] = {} /\ tried[s] = 0
      /\ matched' = matched /\ untried' = untried /\ tried' = tried
      /\ pc'[s] \in {"open_secure", "list_identities", "read_list", "done"}
  BY DEF TypeOK, HonestInv, ParseArgs, OpenFails, NoKeysOrSocket, LoadKeys, ConnectToList,
         NoIdentities, Fail, End, Goto
<1> QED
  BY <1>1 DEF HonestInv, Decided

LEMMA MatchedPairsFinite ==
  ASSUME NEW ids \in Seq(Blob), NEW keys \in Seq(Line)
  PROVE  IsFiniteSet(MatchedPairs(ids, keys))
<1>1. Len(ids) \in Int /\ Len(keys) \in Int
  OBVIOUS
<1>2. IsFiniteSet(1 .. Len(ids)) /\ IsFiniteSet(1 .. Len(keys))
  BY <1>1, FS_Interval
<1>3. IsFiniteSet((1 .. Len(ids)) \X (1 .. Len(keys)))
  BY <1>2, FS_Product
<1>4. MatchedPairs(ids, keys) \in SUBSET ((1 .. Len(ids)) \X (1 .. Len(keys)))
  BY DEF MatchedPairs
<1> QED
  BY <1>3, <1>4, FS_Subset

LEMMA ListKeeps ==
  ASSUME TypeOK, NEW s \in Session, HonestInv(s), ListIdentities(s)
  PROVE  HonestInv(s)'
<1>1. PICK ids \in Listing :
        /\ matched' = [matched EXCEPT ![s] = MatchedPairs(ids, lines[s])]
        /\ untried' = [untried EXCEPT ![s] = MatchedPairs(ids, lines[s])]
  BY DEF ListIdentities
<1>2. /\ matched'[s] = MatchedPairs(ids, lines[s]) /\ untried'[s] = matched'[s]
      /\ pc'[s] = "next" /\ tried'[s] = 0 /\ config' = config
  BY <1>1 DEF ListIdentities, Goto, TypeOK, HonestInv
<1>3. IsFiniteSet(matched'[s])
  BY <1>2, MatchedPairsFinite, ListingAssumption DEF TypeOK
<1>4. Tried(s)' = {}
  BY <1>2 DEF Tried
<1>5. Walked(s)'
  <2>1. config[s].cap \in Nat
    BY TypedCap
  <2> QED
    BY <1>2, <1>4, <2>1, FS_EmptySet DEF Walked
<1> QED
  BY <1>2, <1>3, <1>4, <1>5 DEF HonestInv, Decided

LEMMA NextKeeps ==
  ASSUME TypeOK, NEW s \in Session, HonestInv(s), NextAttempt(s)
  PROVE  HonestInv(s)'
<1>1. PICK p \in untried[s] :
        /\ \A q \in untried[s] \ {p} : Before(p, q)
        /\ at' = [at EXCEPT ![s] = p]
        /\ untried' = [untried EXCEPT ![s] = @ \ {p}]
  BY DEF NextAttempt
<1>2. /\ pc[s] = "next" /\ pc'[s] = "try" /\ at'[s] = p /\ untried'[s] = untried[s] \ {p}
      /\ tried'[s] = tried[s] + 1 /\ ~(tried[s] >= config[s].cap)
      /\ UNCHANGED <<matched, lines, config>>
  BY <1>1 DEF NextAttempt, CapReached, Goto, TypeOK
<1>3. /\ IsFiniteSet(matched[s]) /\ untried[s] \subseteq matched[s]
      /\ Cardinality(Tried(s)) = tried[s]
      /\ \A r \in Tried(s), q \in untried[s] : Before(r, q)
      /\ \A r \in Tried(s) : r \notin Usable(s)
  BY <1>2 DEF HonestInv, Walked
<1>4. Tried(s)' = Tried(s) \cup {p} /\ p \notin Tried(s)
  BY <1>2, <1>3 DEF Tried
<1>5. Cardinality(Tried(s)') = tried[s] + 1
  <2>1. IsFiniteSet(Tried(s))
    BY <1>3, FS_Subset DEF Tried
  <2>2. Cardinality(Tried(s) \cup {p}) = Cardinality(Tried(s)) + 1
    BY <1>4, <2>1, FS_AddElement
  <2> QED
    BY <1>3, <1>4, <2>2
<1>6. Walked(s)'
  <2>1. tried[s] + 1 <= config[s].cap
    BY <1>2, TypedCap
  <2>2. \A r \in Tried(s)', q \in untried'[s] : Before(r, q)
    BY <1>1, <1>2, <1>3, <1>4
  <2> QED
    BY <1>2, <1>5, <2>1, <2>2 DEF Walked
<1>7. Usable(s)' = Usable(s)
  BY <1>2 DEF Usable
<1> QED
  BY <1>2, <1>3, <1>4, <1>6, <1>7 DEF HonestInv, Decided

LEMMA SendKeepsWalk ==
  ASSUME TypeOK, NEW s \in Session, HonestInv(s), SendSign(s)
  PROVE  HonestInv(s)'
<1>1. /\ pc[s] = "try" /\ pc'[s] = "reply" /\ challenge'[s] \in Challenge
      /\ UNCHANGED <<matched, untried, tried, at, lines, config>>
  BY DEF SendSign, Draw, Goto, TypeOK
<1>2. Usable(s)' = Usable(s) /\ Tried(s)' = Tried(s) /\ (Walked(s)' <=> Walked(s))
  BY <1>1 DEF Usable, Tried, Walked
<1> QED
  BY <1>1, <1>2 DEF HonestInv, Decided

\* The reply of a working agent: it verifies exactly if the attempt's match is
\* usable.
LEMMA ReplyDecides ==
  ASSUME TypeOK, NEW s \in Session, HonestInv(s), HonestReply(s)
  PROVE  \/ at[s] \in Usable(s) /\ ReplyVerified(s)
         \/ at[s] \notin Usable(s) /\ Goto(s, "next")
              /\ UNCHANGED <<world, inputs, loop, asks, accepted>>
<1>1. pc[s] = "reply" /\ at[s] \in matched[s]
  BY DEF HonestReply, HonestInv, Tried
<1>2. CASE Key(s).blob \in Held
  <2>1. Produces(s) \in signed
    BY <1>2 DEF HonestReply
  <2>2. Verifies(s, Produces(s)) <=> (UvRequired(s) => Key(s).blob \in Verifying)
    BY <2>1 DEF Verifies, Produces
  <2>3. at[s] \in Usable(s) <=> (UvRequired(s) => Key(s).blob \in Verifying)
    BY <1>1, <1>2 DEF Usable, UvRequired, Key
  <2> QED
    BY <1>2, <2>2, <2>3 DEF HonestReply, ReplyNotVerified
<1>3. CASE Key(s).blob \notin Held
  BY <1>3 DEF HonestReply, ReplyRefused, Usable, Key
<1> QED
  BY <1>2, <1>3

LEMMA SkipKeeps ==
  ASSUME TypeOK, NEW s \in Session, HonestInv(s), pc[s] = "reply",
         at[s] \notin Usable(s), Goto(s, "next"),
         UNCHANGED <<world, inputs, loop, asks, accepted>>
  PROVE  HonestInv(s)'
<1>1. pc'[s] = "next"
  BY DEF Goto, TypeOK
<1>2. Usable(s)' = Usable(s) /\ Tried(s)' = Tried(s) /\ (Walked(s)' <=> Walked(s))
  BY DEF Usable, Tried, Walked
<1>3. \A p \in Tried(s) : p \notin Usable(s)
  BY DEF HonestInv
<1> QED
  BY <1>1, <1>2, <1>3 DEF HonestInv, Decided

\* A grant goes to a match within the cap: what comes before it was tried.
LEMMA GrantDecided ==
  ASSUME TypeOK, NEW s \in Session, HonestInv(s), at[s] \in Usable(s), ReplyVerified(s)
  PROVE  HonestInv(s)'
<1>1. /\ pc[s] = "reply" /\ pc'[s] = "done" /\ result'[s] = "PAM_SUCCESS"
      /\ UNCHANGED <<matched, untried, tried, at, lines, config>>
  BY DEF ReplyVerified, End, TypeOK
<1>2. /\ IsFiniteSet(matched[s]) /\ untried[s] \subseteq matched[s]
      /\ Cardinality(Tried(s)) = tried[s] /\ tried[s] <= config[s].cap
      /\ \A p \in Tried(s), q \in untried[s] : Before(p, q)
      /\ at[s] \in Tried(s)
  BY <1>1 DEF HonestInv, Walked
<1> DEFINE ahead == {q \in matched[s] : Before(q, at[s])}
<1>3. ahead \subseteq Tried(s) \ {at[s]}
  <2> SUFFICES ASSUME NEW q \in matched[s], Before(q, at[s])
               PROVE  q \in Tried(s) \ {at[s]}
    OBVIOUS
  <2>1. q \in Pair /\ at[s] \in Pair
    BY DEF TypeOK
  <2>2. ~Before(at[s], q)
    BY <2>1, BeforeAsymmetric
  <2>3. q # at[s]
    BY <2>2
  <2>4. q \notin untried[s]
    BY <1>2, <2>2
  <2> QED
    BY <2>3, <2>4 DEF Tried
<1>4. IsFiniteSet(Tried(s))
  BY <1>2, FS_Subset DEF Tried
<1>5. /\ IsFiniteSet(Tried(s) \ {at[s]})
      /\ Cardinality(Tried(s) \ {at[s]}) = tried[s] - 1
  BY <1>2, <1>4, FS_RemoveElement
<1>6. IsFiniteSet(ahead) /\ Cardinality(ahead) <= tried[s] - 1
  BY <1>3, <1>5, FS_Subset
<1>7. Cardinality(ahead) < config[s].cap
  <2>1. Cardinality(ahead) \in Nat
    BY <1>6, FS_CardinalityType
  <2>2. tried[s] \in Nat /\ config[s].cap \in Nat
    BY TypedCap
  <2> HIDE DEF ahead
  <2> QED
    BY <1>2, <1>6, <2>1, <2>2
<1>8. WithinCap(s, at[s])
  BY <1>7, WithinCapIsBefore
<1>9. Decided(s)'
  <2>1. \E p \in Usable(s)' : WithinCap(s, p)'
    BY <1>1, <1>8 DEF Usable, WithinCap
  <2> QED
    BY <1>1, <2>1 DEF Decided
<1> QED
  BY <1>1, <1>2, <1>9 DEF HonestInv

\* The call ends without a grant: what was not tried is beyond the cap.
LEMMA BlameDecided ==
  ASSUME TypeOK, NEW s \in Session, HonestInv(s), Exhausted(s) \/ CapHit(s)
  PROVE  HonestInv(s)'
<1>1. /\ pc[s] = "next" /\ pc'[s] = "done" /\ result'[s] = "PAM_AUTH_ERR"
      /\ UNCHANGED <<matched, untried, tried, at, lines, config>>
      /\ untried[s] = {} \/ tried[s] >= config[s].cap
  BY DEF Exhausted, CapHit, CapReached, Fail, End, PamCode, TypeOK
<1>2. /\ IsFiniteSet(matched[s]) /\ untried[s] \subseteq matched[s]
      /\ Cardinality(Tried(s)) = tried[s]
      /\ \A p \in Tried(s), q \in untried[s] : Before(p, q)
      /\ \A p \in Tried(s) : p \notin Usable(s)
  BY <1>1 DEF HonestInv, Walked
<1>3. ASSUME NEW p \in Usable(s) PROVE ~WithinCap(s, p)
  <2>1. p \in untried[s]
    BY <1>2 DEF Usable, Tried
  <2> DEFINE ahead == {q \in matched[s] : Before(q, p)}
  <2>2. Tried(s) \subseteq ahead /\ ahead \subseteq matched[s]
    BY <1>2, <2>1 DEF Tried
  <2>3. IsFiniteSet(ahead)
    BY <1>2, <2>2, FS_Subset
  <2>4. Cardinality(Tried(s)) <= Cardinality(ahead)
    BY <2>2, <2>3, FS_Subset
  <2>5. Cardinality(ahead) \in Nat /\ tried[s] \in Nat /\ config[s].cap \in Nat
    BY <2>3, FS_CardinalityType, TypedCap
  <2>6. ~(Cardinality(ahead) < config[s].cap)
    <3> HIDE DEF ahead
    <3> QED
      BY <1>1, <1>2, <2>1, <2>4, <2>5
  <2> QED
    BY <2>6, WithinCapIsBefore
<1>4. Usable(s)' = Usable(s) /\ \A p : WithinCap(s, p)' <=> WithinCap(s, p)
  BY <1>1 DEF Usable, WithinCap
<1>5. Decided(s)'
  BY <1>1, <1>3, <1>4 DEF Decided
<1> QED
  BY <1>1, <1>2, <1>5 DEF HonestInv
-----------------------------------------------------------------------------
HonestOK == TypeOK /\ \A s \in Session : HonestInv(s)

LEMMA HonestSessionStep ==
  ASSUME HonestOK, NEW s \in Session, HonestStep(s)
  PROVE  HonestOK'
<1>0. TypeOK /\ HonestInv(s) /\ \A t \in Session : HonestInv(t)
  BY DEF HonestOK
<1>1. Step(s)
  BY HonestStepIsStep
<1>2. TypeOK'
  BY <1>0, <1>1, TypeStep
<1>3. ASSUME NEW t \in Session \ {s} PROVE HonestInv(t)'
  BY <1>0, <1>1, <1>3, StepLeavesOthers, HonestOthers
<1>4. HonestInv(s)'
  <2>1. CASE \/ ParseArgs(s) /\ result'[s] = "Pending"
             \/ OpenFails(s) \/ NoKeysOrSocket(s) \/ LoadKeys(s) \/ ConnectToList(s) \/ NoIdentities(s)
    BY <1>0, <2>1, EarlyKeeps
  <2>2. CASE ListIdentities(s)
    BY <1>0, <2>2, ListKeeps
  <2>3. CASE Exhausted(s) \/ CapHit(s)
    BY <1>0, <2>3, BlameDecided
  <2>4. CASE NextAttempt(s)
    BY <1>0, <2>4, NextKeeps
  <2>5. CASE SendSign(s)
    BY <1>0, <2>5, SendKeepsWalk
  <2>6. CASE HonestReply(s)
    <3>1. pc[s] = "reply"
      BY <2>6 DEF HonestReply
    <3> QED
      BY <1>0, <2>6, <3>1, ReplyDecides, GrantDecided, SkipKeeps
  <2> QED
    BY <2>1, <2>2, <2>3, <2>4, <2>5, <2>6 DEF HonestStep
<1> QED
  BY <1>2, <1>3, <1>4 DEF HonestOK

LEMMA HonestUnmoved ==
  ASSUME HonestOK, Edit \/ (\E s \in Session : HonestSign(s)) \/ UNCHANGED vars
  PROVE  HonestOK'
<1>1. \A t \in Session : Unmoved(t)
  BY DEF Edit, HonestSign, Sign, vars, Unmoved
<1>2. \A t \in Session : HonestInv(t)'
  BY <1>1, HonestOthers DEF HonestOK
<1>3. TypeOK'
  <2>1. CASE Edit \/ UNCHANGED vars
    BY <2>1 DEF HonestOK, TypeOK, Edit, vars
  <2>2. ASSUME NEW s \in Session, HonestSign(s) PROVE TypeOK'
    <3>1. Produces(s) \in Assertion /\ Sign(Produces(s))
      BY <2>2, HonestSignIsSign DEF HonestOK
    <3> QED
      BY <3>1 DEF HonestOK, TypeOK, Sign
  <2> QED
    BY <2>1, <2>2
<1> QED
  BY <1>2, <1>3 DEF HonestOK

LEMMA HonestInvariant == HonestSpec => []HonestOK
<1>1. Init => HonestOK
  BY TypeInit, HonestInit DEF HonestOK
<1>2. HonestOK /\ [HonestNext]_vars => HonestOK'
  BY HonestSessionStep, HonestUnmoved DEF HonestNext
<1> QED
  BY <1>1, <1>2, PTL DEF HonestSpec

\* With a working agent the verdict is decided by the lines, the listing and
\* the cap, whatever else happens (iter_attempts).
THEOREM VerdictIsDecided == HonestSpec => []VerdictDecided
<1>1. HonestOK => VerdictDecided
  BY DEF HonestOK, HonestInv, Decided, VerdictDecided
<1> QED
  BY <1>1, HonestInvariant, PTL

\* A working agent is one of the agents Authenticate allows, so that all that
\* is proved of the hook there holds here too.
THEOREM HonestIsAllowed == HonestSpec => Spec
<1>1. HonestOK /\ [HonestNext]_vars => [Next]_vars
  <2> SUFFICES ASSUME HonestOK, HonestNext PROVE Next
    OBVIOUS
  <2>1. ASSUME NEW s \in Session, HonestSign(s) PROVE Next
    BY <2>1, HonestSignIsSign DEF HonestOK, Next
  <2> QED
    BY <2>1, HonestStepIsStep DEF HonestNext, Next
<1> QED
  BY <1>1, HonestInvariant, PTL DEF HonestSpec, Spec
=============================================================================
