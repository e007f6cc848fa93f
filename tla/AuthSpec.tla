------------------------------ MODULE AuthSpec ------------------------------
(***************************************************************************)
(* What the PAM module promises its caller, with no word on how it does it *)
(* (src/src/lib.rs, sm_authenticate).  A session is one call of the hook.  *)
(* It fixes a policy (which credentials, with user verification or not)    *)
(* and a prompt budget once, may then ask for signatures while the budget  *)
(* lasts, and ends with exactly one verdict.  The verdict is PAM_SUCCESS   *)
(* only against an assertion that the policy accepts and that no session   *)
(* has been granted with before.                                           *)
(***************************************************************************)
EXTENDS Naturals

CONSTANTS Session,    \* calls of sm_authenticate, each in a process of its own
          Assertion,  \* signed assertions: records with fields blob and uv
          Policy,     \* sets of [blob, uv] records: what a session may accept
          Budget      \* the numbers of prompts a configuration may allow

VARIABLES policy,     \* policy[s]: {} until the session has read its inputs
          budget,     \* budget[s]: sign requests the session may still be allowed in all
          prompts,    \* prompts[s]: sign requests the session has made
          signed,     \* the assertions that authenticators have produced
          granted,    \* granted[s]: the assertion the session was granted with, as a set
          verdict     \* verdict[s]: "Pending" or the PAM code returned

avars == <<policy, budget, prompts, signed, granted, verdict>>

Failure == {"PAM_SERVICE_ERR", "PAM_AUTHINFO_UNAVAIL", "PAM_AUTH_ERR"}

AInit ==
  /\ policy  = [s \in Session |-> {}]
  /\ budget  = [s \in Session |-> 0]
  /\ prompts = [s \in Session |-> 0]
  /\ signed  = {}
  /\ granted = [s \in Session |-> {}]
  /\ verdict = [s \in Session |-> "Pending"]

\* The session's inputs are fixed once, before its first prompt.
Admit(s) ==
  /\ verdict[s] = "Pending"
  /\ policy[s] = {}
  /\ \E p \in Policy \ {{}}, n \in Budget :
       /\ policy' = [policy EXCEPT ![s] = p]
       /\ budget' = [budget EXCEPT ![s] = n]
  /\ UNCHANGED <<prompts, signed, granted, verdict>>

Prompt(s) ==
  /\ verdict[s] = "Pending"
  /\ prompts[s] < budget[s]
  /\ prompts' = [prompts EXCEPT ![s] = @ + 1]
  /\ UNCHANGED <<policy, budget, signed, granted, verdict>>

Produce(a) ==
  /\ signed' = signed \cup {a}
  /\ UNCHANGED <<policy, budget, prompts, granted, verdict>>

Accepts(p, a) == \E l \in p : l.blob = a.blob /\ (l.uv => a.uv)

Grant(s) ==
  /\ verdict[s] = "Pending"
  /\ prompts[s] > 0
  /\ \E a \in signed :
       /\ Accepts(policy[s], a)
       /\ \A t \in Session : a \notin granted[t]
       /\ granted' = [granted EXCEPT ![s] = {a}]
  /\ verdict' = [verdict EXCEPT ![s] = "PAM_SUCCESS"]
  /\ UNCHANGED <<policy, budget, prompts, signed>>

\* PAM_AUTH_ERR blames the user, so it is only said to one whose policy was read.
Refuse(s, code) ==
  /\ verdict[s] = "Pending"
  /\ code = "PAM_AUTH_ERR" => policy[s] # {}
  /\ verdict' = [verdict EXCEPT ![s] = code]
  /\ UNCHANGED <<policy, budget, prompts, signed, granted>>

ANext ==
  \/ \E s \in Session : Admit(s) \/ Prompt(s) \/ Grant(s)
  \/ \E s \in Session, code \in Failure : Refuse(s, code)
  \/ \E a \in Assertion : Produce(a)

ASpec == AInit /\ [][ANext]_avars
=============================================================================
