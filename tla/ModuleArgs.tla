----------------------------- MODULE ModuleArgs -----------------------------
(***************************************************************************)
(* parse_args (src/src/lib.rs): the arguments of the module's line in a    *)
(* PAM configuration, read from left to right.  An argument is what it     *)
(* names and a value; a value is a sequence of tokens, each a word or a    *)
(* character.                                                              *)
(***************************************************************************)
EXTENDS Naturals, Sequences

CONSTANTS
  Lists,            \* the argument lists an administrator may write
  Token,            \* what values are made of
  DefaultKeyFile,   \* DEFAULT_KEY_FILE
  DefaultAttempts,  \* DEFAULT_MAX_SIGN_ATTEMPTS
  MaxUsize          \* usize::MAX

\* A "non-utf8" argument is one that to_str refuses, "other" any other name.
Arg == [name : {"file", "socket", "strict_modes", "max_attempts", "verify_required",
                "other", "non-utf8"},
        value : Seq(Token)]

ASSUME ListsAssumption   == Lists \subseteq Seq(Arg)
ASSUME DefaultAssumption ==
  /\ DefaultKeyFile \in Seq(Token)
  /\ MaxUsize \in Nat /\ DefaultAttempts \in 1 .. MaxUsize

VARIABLES args,     \* the arguments
          at,       \* the one that is read next
          config,   \* the settings so far; socket is a set, empty for None
          outcome   \* "pending", "ok" or "invalid"
vars == <<args, at, config, outcome>>

Defaults == [file |-> DefaultKeyFile, socket |-> {}, strict_modes |-> TRUE,
             max_attempts |-> DefaultAttempts, verify_required |-> FALSE]
-----------------------------------------------------------------------------
(* Values: the set of what one stands for, empty if it is not valid. *)

Digits == <<"0", "1", "2", "3", "4", "5", "6", "7", "8", "9">>

ParseBool(value) ==
  {b \in BOOLEAN :
     \E w \in IF b THEN {"yes", "true", "1"} ELSE {"no", "false", "0"} : value = <<w>>}

\* The value of a character as a digit, if it is one.
DigitValues(c) == {d \in 0 .. 9 : Digits[d + 1] = c}

\* Mutant: a number that is too large wraps around.
PushWrapping(acc, c) == {(10 * n + d) % (MaxUsize + 1) : n \in acc, d \in DigitValues(c)}

\* One more digit; no step may overflow.
Push(acc, c) == {10 * n + d : n \in acc, d \in DigitValues(c)} \cap 0 .. MaxUsize

DigitScan(digits) ==
  LET scan[i \in 0 .. Len(digits)] == IF i = 0 THEN {0} ELSE Push(scan[i - 1], digits[i])
  IN  scan

\* str::parse::<usize>: one "+" may come first.
ParseUsize(value) ==
  LET digits == IF value # <<>> /\ Head(value) = "+" THEN Tail(value) ELSE value
  IN  IF digits = <<>> THEN {} ELSE DigitScan(digits)[Len(digits)]
-----------------------------------------------------------------------------
Init ==
  /\ args \in Lists
  /\ at = 1
  /\ config = Defaults
  /\ outcome = "pending"

Reads(name) ==
  /\ outcome = "pending"
  /\ at <= Len(args)
  /\ args[at].name = name

Set(field, value) ==
  /\ config' = [config EXCEPT ![field] = value]
  /\ at' = at + 1
  /\ UNCHANGED <<args, outcome>>

Reject ==
  /\ outcome' = "invalid"
  /\ UNCHANGED <<args, at, config>>

SetFile   == Reads("file") /\ Set("file", args[at].value)

\* Mutant: the first of several wins.
SetSocketOnce == Reads("socket")
  /\ Set("socket", IF config.socket = {} THEN {args[at].value} ELSE config.socket)

SetSocket == Reads("socket") /\ Set("socket", {args[at].value})

SetFlag(name) ==
  /\ Reads(name)
  /\ \E b \in ParseBool(args[at].value) : Set(name, b)

BadFlag(name) ==
  /\ Reads(name)
  /\ ParseBool(args[at].value) = {}
  /\ Reject

SetMaxAttempts ==
  /\ Reads("max_attempts")
  /\ \E n \in ParseUsize(args[at].value) \ {0} : Set("max_attempts", n)

BadMaxAttempts ==
  /\ Reads("max_attempts")
  /\ ParseUsize(args[at].value) \subseteq {0}
  /\ Reject

\* Mutant: what is not known is skipped.
SkipUnknown == (Reads("other") \/ Reads("non-utf8")) /\ Set("file", config.file)

Unknown == (Reads("other") \/ Reads("non-utf8")) /\ Reject

Finish ==
  /\ outcome = "pending"
  /\ at > Len(args)
  /\ outcome' = "ok"
  /\ UNCHANGED <<args, at, config>>

Next ==
  \/ SetFile \/ SetSocket \/ SetMaxAttempts \/ BadMaxAttempts \/ Unknown \/ Finish
  \/ \E name \in {"strict_modes", "verify_required"} : SetFlag(name) \/ BadFlag(name)

Spec == Init /\ [][Next]_vars
-----------------------------------------------------------------------------
(* Properties *)

\* What an argument may set its field to.
Meanings == [a \in Arg |->
  CASE a.name = "file"         -> {a.value}
    [] a.name = "socket"       -> {{a.value}}
    [] a.name = "max_attempts" -> ParseUsize(a.value) \ {0}
    [] a.name \in {"strict_modes", "verify_required"} -> ParseBool(a.value)
    [] OTHER                   -> {}]

Named(field, n) == {i \in 1 .. n : args[i].name = field}

\* After n arguments a field has the value of the last of them that names it,
\* or its default.
Settled(field, n) ==
  IF Named(field, n) = {} THEN config[field] = Defaults[field]
  ELSE \E i \in Named(field, n) :
         /\ \A j \in Named(field, n) : j <= i
         /\ config[field] \in Meanings[args[i]]

\* The settings the hook runs with are those of the last argument for each:
\* an argument list laid over another overrides it setting by setting, in
\* whatever order they are mixed (the contract that the test
\* parse_args_repeated_max_attempts_last_wins pins for one setting).
LastWins ==
  outcome = "ok" => \A field \in DOMAIN Defaults : Settled(field, Len(args))

\* A list is refused exactly when one of its arguments means nothing: a typo
\* or a bad value is never dropped, even where a later argument overrides it.
NothingDropped ==
  /\ outcome = "ok"      => \A i \in DOMAIN args : Meanings[args[i]] # {}
  /\ outcome = "invalid" => \E i \in DOMAIN args : Meanings[args[i]] = {}

\* n without its last digit, without its last two, and so on.
Cut(n, m) ==
  LET cut[j \in 0 .. m] == IF j = 0 THEN n ELSE cut[j - 1] \div 10
  IN  cut

\* The last m tokens are the digits of n, from the last to the first.
Spells(value, n, m) ==
  /\ Cut(n, m)[m] = 0
  /\ \A j \in 0 .. m - 1 : Digits[(Cut(n, m)[j] % 10) + 1] = value[Len(value) - j]

WrittenAs(value, n) ==
  /\ value # <<>>
  /\ \/ Spells(value, n, Len(value))
     \/ value[1] = "+" /\ Len(value) > 1 /\ Spells(value, n, Len(value) - 1)

\* The cap on prompts is the number that is written, and a number that does
\* not fit is refused rather than cut to some other cap; it is never 0.
CapAsWritten ==
  /\ outcome = "ok" => config.max_attempts \in 1 .. MaxUsize
  /\ \A i \in DOMAIN args : args[i].name = "max_attempts" =>
       Meanings[args[i]] = {n \in 1 .. MaxUsize : WrittenAs(args[i].value, n)}
-----------------------------------------------------------------------------
(* The loop invariant *)

SettledSoFar ==
  /\ args \in Seq(Arg)
  /\ at \in 1 .. Len(args) + 1
  /\ DOMAIN config = DOMAIN Defaults
  /\ \A field \in DOMAIN Defaults : Settled(field, at - 1)
  /\ \A i \in 1 .. at - 1 : Meanings[args[i]] # {}
  /\ outcome = "ok" => at = Len(args) + 1
  /\ outcome = "invalid" => at <= Len(args) /\ Meanings[args[at]] = {}
=============================================================================
