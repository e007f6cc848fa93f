------------------------- MODULE HookVsHelper_proofs -------------------------
(* The theorems of HookVsHelper: the two loops agree, for any number of      *)
(* matches with any outcomes and for any cap.                                *)
EXTENDS HookVsHelper, TLAPS

\* Nothing has happened at first.
LEMMA InvInit == Init => Inv
BY MatchesAssumption DEF Init, Inv, Progress, Refused, Bound, Caller

\* The world stays as it is.
LEMMA Rigid ==
  ASSUME UNCHANGED world
  PROVE  /\ Bound' = Bound /\ (Loops <=> Loops') /\ (Missing <=> Missing')
         /\ \A n : (Refused(n) <=> Refused(n)') /\ (StopsAt(n) <=> StopsAt(n)')
         /\ \A n : EndsAt(n)' = EndsAt(n)
         /\ Alike <=> Alike'
<1>1. Bound' = Bound /\ (Loops <=> Loops') /\ (Missing <=> Missing')
  BY DEF world, Bound, Loops, Missing
<1>2. \A n : Refused(n) <=> Refused(n)'
  BY DEF world, Refused
<1>3. \A n : StopsAt(n) <=> StopsAt(n)'
  BY <1>1, <1>2 DEF world, StopsAt
<1>4. \A n : EndsAt(n)' = EndsAt(n)
  BY <1>1, <1>2 DEF world, EndsAt
<1>5. Alike <=> Alike'
  BY DEF world, Alike
<1>. QED BY <1>1, <1>2, <1>3, <1>4, <1>5

\* A step of one caller leaves the other where it is.
LEMMA OtherStays ==
  ASSUME NEW y \in Caller, UNCHANGED world, Progress(y),
         pc'[y] = pc[y], tried'[y] = tried[y], result'[y] = result[y]
  PROVE  Progress(y)'
BY Rigid DEF world, Progress

\* A caller that goes one step further without an attempt.
LEMMA GotoStep ==
  ASSUME Inv, NEW x \in Caller, NEW step \in {"open", "list", "loop"}, Goto(x, step),
         max_attempts > 0, tried[x] = 0,
         step = "list" => file.holds = "keys",
         step = "loop" => Loops,
         file.open # "ok" /\ x = "hook" => step = "open"
  PROVE  Inv'
<1>1. UNCHANGED <<world, tried, result>> /\ pc' = [pc EXCEPT ![x] = step]
  BY DEF Goto
<1>2. \A y \in Caller \ {x} : Progress(y)'
  BY <1>1, OtherStays DEF Inv
<1>3. Refused(0)
  BY DEF Refused
<1>4. Progress(x)'
  BY <1>1, <1>3, Rigid DEF Inv, Progress, world
<1>. QED BY <1>1, <1>2, <1>4 DEF Inv, world

\* A caller that returns, where and as it should.
LEMMA ReturnStep ==
  ASSUME Inv, NEW x \in Caller, NEW how, Return(x, how),
         x = "helper" \/ Alike => StopsAt(tried[x]) /\ how \in Says[x][EndsAt(tried[x])],
         file.open # "ok" /\ x = "hook" => how \in Says["hook"]["fault"]
  PROVE  Inv'
<1>1. UNCHANGED <<world, tried>> /\ pc' = [pc EXCEPT ![x] = "done"]
        /\ result' = [result EXCEPT ![x] = how]
  BY DEF Return
<1>2. \A y \in Caller \ {x} : Progress(y)'
  BY <1>1, OtherStays DEF Inv
<1>3. Progress(x)'
  BY <1>1, Rigid DEF Inv, Progress, world
<1>. QED BY <1>1, <1>2, <1>3 DEF Inv, world

\* An attempt: a refusal is passed, anything else is the end.
LEMMA TryStep ==
  ASSUME Inv, NEW x \in Caller, Try(x), NEW how,
         IF matches[tried[x] + 1] \in Refusal THEN UNCHANGED <<pc, result>>
         ELSE /\ pc' = [pc EXCEPT ![x] = "done"]
              /\ result' = [result EXCEPT ![x] = how],
         matches[tried[x] + 1] = "verified" => how \in Says[x]["granted"],
         matches[tried[x] + 1] \in {"no_entropy"} \cup IoKind => how \in Says[x]["fault"]
  PROVE  Inv'
<1>1. /\ UNCHANGED world /\ pc[x] = "loop"
      /\ tried' = [tried EXCEPT ![x] = tried[x] + 1] /\ tried[x] \in Nat
      /\ tried[x] + 1 \in 1 .. Bound /\ tried[x] + 1 \in DOMAIN matches
  BY DEF Inv, Progress, Try, Bound
<1>2. \A y \in Caller \ {x} : Progress(y)'
  BY <1>1, OtherStays DEF Inv
<1>3. Refused(tried[x]) /\ Loops /\ (file.open # "ok" => x # "hook")
  BY <1>1 DEF Inv, Progress
<1>4. CASE matches[tried[x] + 1] \in Refusal
  <2>1. Refused(tried[x] + 1)
    BY <1>1, <1>3, <1>4 DEF Refused
  <2>2. Progress(x)'
    BY <1>1, <1>3, <1>4, <2>1, Rigid DEF Inv, Progress, world
  <2>. QED BY <1>1, <1>2, <1>3, <1>4, <2>2 DEF Inv, world
<1>5. CASE matches[tried[x] + 1] \notin Refusal
  <2>1. StopsAt(tried[x] + 1)
    BY <1>1, <1>3, <1>5 DEF StopsAt
  <2>2. matches[tried[x] + 1] \in {"verified", "no_entropy"} \cup IoKind
    BY <1>1, <1>5 DEF Inv, Attempt
  <2>3. how \in Says[x][EndsAt(tried[x] + 1)]
    <3>1. ~Refused(tried[x] + 1)
      BY <1>1, <1>5 DEF Refused
    <3>2. Loops => ~Missing
      BY DEF Loops, Missing
    <3>3. Loops => EndsAt(tried[x] + 1) =
                     IF matches[tried[x] + 1] = "verified" THEN "granted" ELSE "fault"
      BY <3>1, <3>2 DEF EndsAt
    <3>4. matches[tried[x] + 1] # "verified" => how \in Says[x]["fault"]
      BY <2>2
    <3>. QED BY <1>3, <3>3, <3>4
  <2>4. Progress(x)'
    BY <1>1, <1>3, <1>5, <2>1, <2>3, Rigid DEF Inv, Progress, world
  <2>5. file.open # "ok" => UNCHANGED <<pc["hook"], tried["hook"], result["hook"]>>
    BY <1>1, <1>3, <1>5 DEF Inv, Caller
  <2>6. \A y \in Caller : Progress(y)'
    BY <1>2, <2>4
  <2>7. DOMAIN pc' = Caller /\ DOMAIN tried' = Caller /\ DOMAIN result' = Caller
    BY <1>1, <1>5 DEF Inv
  <2>. QED BY <1>1, <2>5, <2>6, <2>7 DEF Inv, world
<1>. QED BY <1>4, <1>5

\* A call that never loops ends before its first attempt.
LEMMA NoLoop ==
  ASSUME ~Loops
  PROVE  StopsAt(0) /\ EndsAt(0) = IF Missing THEN "missing" ELSE "fault"
BY DEF StopsAt, EndsAt

\* A call that stops at the bound blames the user.
LEMMA AtBound ==
  ASSUME Inv, NEW x \in Caller, pc[x] = "loop", tried[x] = Bound
  PROVE  StopsAt(tried[x]) /\ EndsAt(tried[x]) = "blamed"
<1>1. Loops /\ Refused(tried[x]) /\ tried[x] \in Nat
  BY DEF Inv, Progress, Bound
<1>2. Refused(tried[x] - 1)
  BY <1>1 DEF Refused
<1>3. ~Missing
  BY <1>1 DEF Loops, Missing
<1>. QED BY <1>1, <1>2, <1>3 DEF StopsAt, EndsAt

\* Every step of the hook keeps the invariant.
LEMMA HookKeeps == Inv /\ HookNext => Inv'
<1>. SUFFICES ASSUME Inv, HookNext PROVE Inv'
  OBVIOUS
<1>. DEFINE x == "hook"
<1>0. x \in Caller /\ file \in Resolved /\ agent \in AgentKind /\ max_attempts \in Nat /\ Progress(x)
  BY DEF Inv, Caller
<1>1. CASE ParseArgs
  BY <1>0, <1>1, GotoStep, ReturnStep, NoLoop
     DEF ParseArgs, Fail, PamCode, Progress, Loops, Missing, Says
<1>2. CASE OpenSecure
  BY <1>0, <1>2, GotoStep, ReturnStep, NoLoop
     DEF OpenSecure, Fail, PamCode, ClassifyOpenErr, ClassifyIoErr, IoKind, Resolved, Content,
         Alike, Progress, Loops, Missing, Says
<1>3. CASE HookLists
  BY <1>0, <1>3, GotoStep, ReturnStep, NoLoop
     DEF HookLists, Fail, PamCode, ClassifyIoErr, IoKind, Progress, Loops, Missing, Says, Inv
<1>4. CASE HookStops
  <2>1. tried[x] = Bound /\ file.open = "ok" /\ pc[x] = "loop"
    BY <1>0, <1>4 DEF HookStops, Progress, Bound, Inv
  <2>. QED BY <1>0, <1>4, <2>1, AtBound, ReturnStep DEF HookStops, Fail, PamCode, Says
<1>5. CASE HookTries
  BY <1>0, <1>5, TryStep
     DEF HookTries, HookCode, PamCode, ClassifyIoErr, IoKind, Refusal, Says
<1>. QED BY <1>1, <1>2, <1>3, <1>4, <1>5 DEF HookNext

\* So does every step of the helper.
LEMMA HelperKeeps == Inv /\ HelperNext => Inv'
<1>. SUFFICES ASSUME Inv, HelperNext PROVE Inv'
  OBVIOUS
<1>. DEFINE x == "helper"
<1>0. x \in Caller /\ file \in Resolved /\ agent \in AgentKind /\ max_attempts \in Nat /\ Progress(x)
  BY DEF Inv, Caller
<1>1. CASE HelperStarts
  BY <1>0, <1>1, GotoStep, ReturnStep, NoLoop DEF HelperStarts, Progress, Loops, Missing, Says
<1>2. CASE HelperReads
  BY <1>0, <1>2, GotoStep, ReturnStep, NoLoop
     DEF HelperReads, IoKind, Progress, Loops, Missing, Says
<1>3. CASE HelperLists
  BY <1>0, <1>3, GotoStep, ReturnStep, NoLoop
     DEF HelperLists, IoKind, Progress, Loops, Missing, Says
<1>4. CASE HelperStops
  <2>1. tried[x] = Bound /\ pc[x] = "loop"
    BY <1>0, <1>4 DEF HelperStops, Progress, Bound, Inv
  <2>. QED BY <1>0, <1>4, <2>1, AtBound, ReturnStep DEF HelperStops, Says
<1>5. CASE HelperTries
  BY <1>0, <1>5, TryStep DEF HelperTries, HelperVerdict, IoKind, Refusal, Says
<1>. QED BY <1>1, <1>2, <1>3, <1>4, <1>5 DEF HelperNext

\* Where a call stops and how it ends follow from the world alone.
THEOREM Determined == Spec => []Inv
<1>1. Inv /\ UNCHANGED vars => Inv'
  <2>. SUFFICES ASSUME Inv, UNCHANGED vars PROVE Inv'
    OBVIOUS
  <2>1. \A x \in Caller : Progress(x)'
    BY OtherStays DEF vars, world, Inv
  <2>. QED BY <2>1 DEF Inv, vars
<1>2. Inv /\ [Next]_vars => Inv'
  BY <1>1, HookKeeps, HelperKeeps DEF Next
<1>. QED BY <1>2, InvInit, PTL DEF Spec

\* There is one place to stop.
LEMMA OneStop ==
  ASSUME NEW m \in 0 .. Bound, NEW n \in 0 .. Bound, StopsAt(m), StopsAt(n), Bound \in Nat
  PROVE  m = n
BY DEF StopsAt, Refused

\* So two calls that are done made the same number of attempts.
LEMMA SameNumber ==
  ASSUME Inv, BothDone, Alike
  PROVE  tried["hook"] = tried["helper"]
<1>1. Bound \in Nat
  BY DEF Inv, Bound
<1>2. \A x \in Caller : tried[x] \in 0 .. Bound /\ StopsAt(tried[x])
  BY DEF Inv, Progress, BothDone
<1>. QED BY <1>1, <1>2, OneStop DEF Caller

\* The two loops make the same number of attempts.
THEOREM AttemptsAgree == Spec => []SameAttempts
<1>1. Inv => SameAttempts
  BY SameNumber DEF SameAttempts
<1>. QED BY <1>1, Determined, PTL

\* Their answers mean the same.
THEOREM VerdictsAgree == Spec => []SameVerdict
<1>1. Inv => SameVerdict
  <2>. SUFFICES ASSUME Inv, BothDone PROVE SameVerdict
    BY DEF SameVerdict
  <2>1. CASE ~Alike
    BY <2>1 DEF Inv, Alike, BothDone, SameVerdict, Caller
  <2>2. CASE Alike
    <3>1. tried["hook"] = tried["helper"]
      BY <2>2, SameNumber
    <3>2. \A x \in Caller : result[x] \in Says[x][EndsAt(tried["hook"])]
      BY <2>2, <3>1 DEF Inv, Progress, BothDone, Caller
    <3>3. EndsAt(tried["hook"]) \in Ending
      BY DEF EndsAt, Ending
    <3>. QED BY <2>2, <3>2, <3>3 DEF SameVerdict
  <2>. QED BY <2>1, <2>2
<1>. QED BY <1>1, Determined, PTL
=============================================================================
