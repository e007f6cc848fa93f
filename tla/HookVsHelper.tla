---------------------------- MODULE HookVsHelper ----------------------------
(***************************************************************************)
(* The two attempt loops of src/src/lib.rs over one and the same world:    *)
(* the hook (sm_authenticate, iter_attempts), and the helper of the tests  *)
(* and examples (authenticate_with_options), which has a loop of its own   *)
(* and reads the key file without open_secure.  Each match of the list     *)
(* that both compute (matched_pairs) has an outcome, what try_authenticate *)
(* would make of it.  The caller gives the helper a socket, so the hook    *)
(* has one as well.  The key file may fail open_secure and yet be read by  *)
(* the helper, which makes no check and follows a link.                    *)
(***************************************************************************)
EXTENDS PamCodes, Naturals, Sequences

CONSTANTS Matches,  \* the sequences of outcomes, one for each match
          Cap       \* the values of max_attempts

Refusal == {"refused", "not_verified"}
Attempt == {"verified", "no_entropy"} \cup Refusal \cup IoKind
Content == {"keys", "no_keys"}
AgentKind == {"ids", "no_ids"} \cup IoKind

\* What the path of the key file leads to: how open_secure ends, "policy" being
\* every OpenError but Io, and what read_to_string finds.  A link in the leaf is
\* an Io error of the former (O_NOFOLLOW) and keys for the latter, as is a file
\* whose path does not resolve again; where the former gives content, the
\* latter gives the same.
Resolved == {f \in [open : {"ok", "policy"} \cup IoKind, holds : Content \cup IoKind] :
               f.open = "ok" => f.holds \in Content}

ASSUME MatchesAssumption == Matches \subseteq Seq(Attempt) /\ Cap \subseteq Nat

VARIABLES
  file, agent, matches, max_attempts,  \* the world, for both
  pc,      \* pc[x]: start, open, list, loop or done
  tried,   \* tried[x]: attempts made
  result   \* result[x]: what the call returned
vars == <<file, agent, matches, max_attempts, pc, tried, result>>
world == <<file, agent, matches, max_attempts>>

Caller == {"hook", "helper"}

Init ==
  /\ file \in Resolved /\ agent \in AgentKind
  /\ matches \in Matches /\ max_attempts \in Cap
  /\ pc = [x \in Caller |-> "start"]
  /\ tried = [x \in Caller |-> 0]
  /\ result = [x \in Caller |-> "pending"]

Goto(x, step) == pc' = [pc EXCEPT ![x] = step] /\ UNCHANGED <<world, tried, result>>

Return(x, how) ==
  /\ pc' = [pc EXCEPT ![x] = "done"]
  /\ result' = [result EXCEPT ![x] = how]
  /\ UNCHANGED <<world, tried>>

Fail(class) == Return("hook", PamCode[class])
-----------------------------------------------------------------------------
(* The hook *)

ParseArgs ==
  /\ pc["hook"] = "start"
  /\ \/ max_attempts = 0 /\ Fail("Service")
     \/ max_attempts # 0 /\ Goto("hook", "open")

OpenSecure ==
  /\ pc["hook"] = "open"
  /\ \/ file.open # "ok" /\ Fail(ClassifyOpenErr(file.open))
     \/ file.open = "ok" /\ file.holds = "no_keys" /\ Fail("InfoUnavailable")
     \/ file.open = "ok" /\ file.holds = "keys" /\ Goto("hook", "list")

HookLists ==
  /\ pc["hook"] = "list"
  /\ \/ agent \in IoKind /\ Fail(ClassifyIoErr(agent))
     \/ agent = "no_ids" /\ Fail("InfoUnavailable")
     \/ agent = "ids" /\ Goto("hook", "loop")

\* The end of the matches, or the cap before it.
HookStops ==
  /\ pc["hook"] = "loop"
  /\ tried["hook"] = Len(matches) \/ tried["hook"] >= max_attempts
  /\ Fail("AuthFail")

Try(x) ==
  /\ pc[x] = "loop"
  /\ tried[x] < Len(matches) /\ tried[x] < max_attempts
  /\ tried' = [tried EXCEPT ![x] = @ + 1]
  /\ UNCHANGED world

\* What the hook makes of an outcome, if it does not go on.
HookCode(outcome) ==
  CASE outcome = "verified"   -> "PAM_SUCCESS"
    [] outcome \in IoKind     -> PamCode[ClassifyIoErr(outcome)]
    [] outcome = "no_entropy" -> PamCode["Service"]

HookTries ==
  /\ Try("hook")
  /\ LET outcome == matches[tried["hook"] + 1] IN
     IF outcome \in Refusal THEN UNCHANGED <<pc, result>>
     ELSE /\ pc' = [pc EXCEPT !["hook"] = "done"]
          /\ result' = [result EXCEPT !["hook"] = HookCode(outcome)]
-----------------------------------------------------------------------------
(* The helper *)

\* Mutant: a cap of 0 means none.
HelperStartsAnyway == pc["helper"] = "start" /\ Goto("helper", "open")

HelperStarts ==
  /\ pc["helper"] = "start"
  /\ \/ max_attempts = 0 /\ Return("helper", "error")
     \/ max_attempts # 0 /\ Goto("helper", "open")

HelperReads ==
  /\ pc["helper"] = "open"
  /\ \/ file.holds \in IoKind /\ Return("helper", "error")
     \/ file.holds = "no_keys" /\ Return("helper", "false")
     \/ file.holds = "keys" /\ Goto("helper", "list")

HelperLists ==
  /\ pc["helper"] = "list"
  /\ \/ agent \in IoKind /\ Return("helper", "error")
     \/ agent = "no_ids" /\ Return("helper", "false")
     \/ agent = "ids" /\ Goto("helper", "loop")

\* take(max_attempts) is over.
HelperStops ==
  /\ pc["helper"] = "loop"
  /\ tried["helper"] = Len(matches) \/ tried["helper"] = max_attempts
  /\ Return("helper", "false")

\* Mutant: a signature that does not verify is final.
HelperVerdictStrict(outcome) ==
  [go_on |-> outcome = "refused", how |-> IF outcome = "verified" THEN "true" ELSE "error"]

HelperVerdict(outcome) ==
  [go_on |-> outcome \in Refusal, how |-> IF outcome = "verified" THEN "true" ELSE "error"]

HelperTries ==
  /\ Try("helper")
  /\ LET verdict == HelperVerdict(matches[tried["helper"] + 1]) IN
     IF verdict.go_on THEN UNCHANGED <<pc, result>>
     ELSE /\ pc' = [pc EXCEPT !["helper"] = "done"]
          /\ result' = [result EXCEPT !["helper"] = verdict.how]
-----------------------------------------------------------------------------
HookNext   == ParseArgs \/ OpenSecure \/ HookLists \/ HookStops \/ HookTries
HelperNext == HelperStarts \/ HelperReads \/ HelperLists \/ HelperStops \/ HelperTries

Next == HookNext \/ HelperNext

Spec == Init /\ [][Next]_vars
-----------------------------------------------------------------------------
(* Properties *)

BothDone == \A x \in Caller : pc[x] = "done"

\* The file is the same for both: safe, or an error of the file system for the
\* helper as well.
Alike == file.open = "ok" \/ {file.open, file.holds} \subseteq IoKind

\* What the tests show of prompts holds for the hook: over a file that is the
\* same for both, the two loops try the same matches, the first so many, under
\* the same cap.
SameAttempts ==
  BothDone /\ Alike => tried["hook"] = tried["helper"]

\* The ways a call can end, and how each caller says so.
Ending == {"granted", "blamed", "missing", "fault"}
Says == [
  hook   |-> [granted |-> {"PAM_SUCCESS"}, blamed |-> {"PAM_AUTH_ERR"},
              missing |-> {"PAM_AUTHINFO_UNAVAIL"},
              fault   |-> {"PAM_SERVICE_ERR", "PAM_AUTHINFO_UNAVAIL"}],
  helper |-> [granted |-> {"true"}, blamed |-> {"false"}, missing |-> {"false"},
              fault   |-> {"error"}]]

\* And what they show of verdicts: Ok(true) is PAM_SUCCESS and nothing else,
\* what blames the user is Ok(false), and a fault of the module is an error.
\* Over a file that only the helper takes, whatever the helper says, the hook
\* neither grants nor blames, and prompts nobody.
SameVerdict ==
  BothDone =>
    IF Alike THEN \E how \in Ending : \A x \in Caller : result[x] \in Says[x][how]
    ELSE result["hook"] \in Says["hook"]["fault"] /\ tried["hook"] = 0
-----------------------------------------------------------------------------
(* Why: where a call stops, and how, is a matter of the world alone. *)

Bound == IF max_attempts <= Len(matches) THEN max_attempts ELSE Len(matches)

Loops   == max_attempts > 0 /\ file.holds = "keys" /\ agent = "ids"
Missing == max_attempts > 0 /\ (file.holds = "no_keys" \/ (file.holds = "keys" /\ agent = "no_ids"))

Refused(n) == \A i \in 1 .. n : matches[i] \in Refusal

StopsAt(n) == IF ~Loops THEN n = 0
              ELSE /\ Refused(n - 1)
                   /\ n = Bound \/ (n > 0 /\ matches[n] \notin Refusal)

EndsAt(n) ==
  CASE Missing                        -> "missing"
    [] ~Missing /\ ~Loops             -> "fault"
    [] Loops /\ Refused(n)            -> "blamed"
    [] Loops /\ ~Refused(n)           -> IF matches[n] = "verified" THEN "granted" ELSE "fault"

Progress(x) ==
  /\ tried[x] \in 0 .. Bound
  /\ pc[x] \in {"start", "open", "list", "loop", "done"}
  /\ pc[x] \in {"open", "list", "loop"} => max_attempts > 0
  /\ pc[x] \in {"start", "open", "list"} => tried[x] = 0
  /\ pc[x] = "list" => file.holds = "keys"
  /\ pc[x] = "loop" => Refused(tried[x]) /\ Loops
  /\ pc[x] = "done" /\ (x = "helper" \/ Alike) =>
       StopsAt(tried[x]) /\ result[x] \in Says[x][EndsAt(tried[x])]

Inv ==
  /\ file \in Resolved /\ agent \in AgentKind
  /\ matches \in Seq(Attempt) /\ max_attempts \in Nat
  /\ DOMAIN pc = Caller /\ DOMAIN tried = Caller /\ DOMAIN result = Caller
  /\ \A x \in Caller : Progress(x)
  /\ file.open # "ok" => /\ pc["hook"] \in {"start", "open", "done"}
                         /\ tried["hook"] = 0
                         /\ pc["hook"] = "done" => result["hook"] \in Says["hook"]["fault"]
=============================================================================
