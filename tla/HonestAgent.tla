----------------------------- MODULE HonestAgent -----------------------------
(***************************************************************************)
(* The hook of Authenticate with an agent that works as it should: it      *)
(* passes every request on to the authenticator of the blob it was asked   *)
(* for, returns that authenticator's answer and no other, and no exchange  *)
(* breaks.  The user has the authenticators of Held at hand, and those of  *)
(* Verifying can verify the user.  Safety under any agent is Authenticate; *)
(* here the question is the other half: who has a credential gets in.      *)
(***************************************************************************)
EXTENDS Authenticate

CONSTANTS Held, Verifying

ASSUME HeldAssumption == Verifying \subseteq Held /\ Held \subseteq WebauthnBlob

Produces(s) ==
  [blob |-> Key(s).blob, challenge |-> challenge[s], uv |-> Key(s).blob \in Verifying]

HonestSign(s) ==
  /\ pc[s] = "reply"
  /\ Key(s).blob \in Held
  /\ Produces(s) \notin signed
  /\ Sign(Produces(s))

HonestReply(s) ==
  /\ pc[s] = "reply"
  /\ IF Key(s).blob \in Held
     THEN /\ Produces(s) \in signed
          /\ IF Verifies(s, Produces(s))
             THEN ReplyVerified(s) /\ accepted'[s] = {Produces(s)}
             ELSE ReplyNotVerified(s)
     ELSE ReplyRefused(s)

HonestStep(s) ==
  \/ ParseArgs(s) /\ result'[s] = "Pending"
  \/ OpenFails(s) \/ NoKeysOrSocket(s) \/ LoadKeys(s)
  \/ ConnectToList(s) \/ NoIdentities(s) \/ ListIdentities(s)
  \/ Exhausted(s) \/ CapHit(s) \/ NextAttempt(s)
  \/ SendSign(s) \/ HonestReply(s)

HonestNext == (\E s \in Session : HonestStep(s) \/ HonestSign(s)) \/ Edit

\* The agent takes connections and answers, and the user touches the authenticator in the end.
HonestSpec ==
  /\ Init /\ [][HonestNext]_vars
  /\ \A s \in Session : WF_vars(HonestStep(s)) /\ WF_vars(HonestSign(s))
-----------------------------------------------------------------------------
(* Properties *)

\* The matches an attempt at which the credential at hand satisfies.
Usable(s) ==
  {p \in matched[s] :
     /\ lines[s][p[2]].blob \in Held
     /\ config[s].uv \/ lines[s][p[2]].uv => lines[s][p[2]].blob \in Verifying}

WithinCap(s, p) ==
  Cardinality({q \in matched[s] : q[1] < p[1] \/ (q[1] = p[1] /\ q[2] < p[2])})
    < config[s].cap

\* With a working agent the verdict is decided by the loaded lines, the listed
\* identities and the cap alone: PAM_SUCCESS if one of the first max_attempts
\* matches is usable, PAM_AUTH_ERR if none is; an edit of the file, another
\* session or an earlier refused match changes nothing.
VerdictDecided ==
  \A s \in Session : pc[s] = "done" /\ matched[s] # {} =>
    result[s] = IF \E p \in Usable(s) : WithinCap(s, p)
                THEN "PAM_SUCCESS" ELSE "PAM_AUTH_ERR"

\* Whoever holds a credential that is listed within the cap is let in.
CredentialGrants ==
  \A s \in Session :
    (pc[s] = "next" /\ \E p \in Usable(s) : WithinCap(s, p))
      ~> result[s] = "PAM_SUCCESS"
=============================================================================
