------------------------------- MODULE KeyLine -------------------------------
(***************************************************************************)
(* How a line of authorized_keys is read (src/src/keys.rs).  Two scanners  *)
(* go over the same options: one finds where the options block ends, the   *)
(* other looks for verify-required in it, each with its own notion of a    *)
(* quote and of an escape.  A line is a sequence of tokens: the words the  *)
(* code compares with, the bytes its scanners stop at, and Other for any   *)
(* byte or word besides.                                                   *)
(***************************************************************************)
EXTENDS Naturals, Sequences, FiniteSets

CONSTANTS
  Ending,      \* what may follow the options of a line
  MaxOptions   \* bound: tokens typed in front of it

ASSUME OptionsAssumption == MaxOptions \in Nat

Blank          == "blank"            \* a space or a tab
Wide           == "wide"             \* white space of Unicode besides: a form feed
Quote          == "quote"
Backslash      == "backslash"
Comma          == "comma"
Hash           == "hash"
Algo           == "algo"             \* the algorithm's name
Key            == "key"              \* base64 of a well-formed key blob
VerifyRequired == "verify-required"  \* in upper or lower case
Other          == "other"

OptionToken == {Blank, Wide, Quote, Backslash, Comma, VerifyRequired, Other}
Token       == OptionToken \cup {Hash, Algo, Key}

ASSUME EndingAssumption == Ending \subseteq Seq(Token)

VARIABLES options,  \* what is typed in front so far
          ending    \* what comes after
vars == <<options, ending>>

line == options \o ending
-----------------------------------------------------------------------------
At(s, i)   == IF i \in DOMAIN s THEN s[i] ELSE "end"
From(s, i) == SubSeq(s, i, Len(s))

\* What the standard library takes for white space; the two scanners, and the
\* look behind the algorithm, only know the blanks.
Space == {Blank, Wide}

\* What trim leaves of s at its front.  What it takes off the end as well could
\* only follow the key, where it is not looked at, or stand where a key misses.
TrimStart(s) ==
  LET words == {i \in DOMAIN s : s[i] \notin Space}
  IN  IF words = {} THEN <<>> ELSE From(s, CHOOSE i \in words : \A j \in words : i <= j)

LineStartsWithAlgo(s) == At(s, 1) = Algo /\ At(s, 2) \in {Blank, "end"}

EscapesQuote(s, i) == s[i] = Backslash /\ At(s, i + 1) = Quote

\* Where the scan of an options block is after i tokens, all of the block.
InBlock(skip, quoted, i) == [stop |-> FALSE, skip |-> skip, quoted |-> quoted, len |-> i]

Toggled(quoted, t) == IF t = Quote THEN ~quoted ELSE quoted

\* Mutant: no escapes.
BlockStepPlain(s, acc, i) ==
  IF acc.stop THEN acc
  ELSE IF ~acc.quoted /\ s[i] = Blank THEN [acc EXCEPT !.stop = TRUE]
  ELSE InBlock(FALSE, Toggled(acc.quoted, s[i]), i)

\* One turn of the loop of advance_past_options.  An escape is skipped with the
\* quote it stands before, in quotes or not.
BlockStep(s, acc, i) ==
  IF acc.stop THEN acc
  ELSE IF acc.skip THEN InBlock(FALSE, acc.quoted, i)
  ELSE IF ~acc.quoted /\ s[i] = Blank THEN [acc EXCEPT !.stop = TRUE]
  ELSE InBlock(EscapesQuote(s, i), Toggled(acc.quoted, s[i]), i)

BlockStart == InBlock(FALSE, FALSE, 0)

BlockScan(s) ==
  LET scan[i \in 0 .. Len(s)] == IF i = 0 THEN BlockStart ELSE BlockStep(s, scan[i - 1], i)
  IN  scan

\* advance_past_options: the block up to the first blank outside quotes.  It is
\* len tokens; there is none if the scan ends in quotes.
AdvancePastOptions(s) == BlockScan(s)[Len(s)]

\* The option from where the scan is to the position before i.
Segment(opts, acc, i) == SubSeq(opts, acc.start, i - 1)

\* What the scan makes of a comma that separates options.
AtComma(opts, acc, i) ==
  [skip   |-> FALSE,
   quoted |-> FALSE,
   found  |-> acc.found \/ Segment(opts, acc, i) = <<VerifyRequired>>,
   start  |-> i + 1]

\* Mutant: a comma separates options in quotes too.
OptionStepAtCommas(opts, acc, i) == IF opts[i] = Comma THEN AtComma(opts, acc, i) ELSE acc

\* One turn of the loop of options_have_verify_required, which looks at the
\* options between commas outside quotes.  Here an escape only counts in quotes.
OptionStep(opts, acc, i) ==
  IF acc.skip THEN [acc EXCEPT !.skip = FALSE]
  ELSE IF ~acc.quoted /\ opts[i] = Comma THEN AtComma(opts, acc, i)
  ELSE [skip   |-> acc.quoted /\ EscapesQuote(opts, i),
        quoted |-> Toggled(acc.quoted, opts[i]),
        found  |-> acc.found,
        start  |-> acc.start]

OptionStart == [skip |-> FALSE, quoted |-> FALSE, found |-> FALSE, start |-> 1]

OptionScan(opts) ==
  LET scan[i \in 0 .. Len(opts)] ==
        IF i = 0 THEN OptionStart ELSE OptionStep(opts, scan[i - 1], i)
  IN  scan

\* options_have_verify_required: one of the options is the word alone.
OptionsHaveVerifyRequired(opts) ==
  LET end == OptionScan(opts)[Len(opts)]
  IN  end.found \/ Segment(opts, end, Len(opts) + 1) = <<VerifyRequired>>

\* The first word of s, as split_whitespace cuts it.
FirstWord(s) ==
  LET t == TrimStart(s)
  IN  SubSeq(t, 1, Cardinality({i \in DOMAIN t : \A j \in 1 .. i : t[j] \notin Space}))

Skipped == [kept |-> FALSE, verify_required |-> FALSE]

\* parse_authorized_key_line
ParseAuthorizedKeyLine(s) ==
  LET block == IF LineStartsWithAlgo(s) THEN [quoted |-> FALSE, len |-> 0]
                                        ELSE AdvancePastOptions(s)
      opts  == SubSeq(s, 1, block.len)
      after == TrimStart(From(s, block.len + 1))
  IN  IF block.quoted THEN Skipped
      ELSE IF ~LineStartsWithAlgo(after) THEN Skipped
      ELSE IF FirstWord(Tail(after)) # <<Key>> THEN Skipped
      ELSE [kept |-> TRUE, verify_required |-> OptionsHaveVerifyRequired(opts)]

\* parse_authorized_keys_str, for one line
ParseLine(raw) ==
  LET s == TrimStart(raw)
  IN  IF At(s, 1) \in {"end", Hash} THEN Skipped ELSE ParseAuthorizedKeyLine(s)
-----------------------------------------------------------------------------
\* The administrator's line: any tokens in front of one of the endings.
Init == options = <<>> /\ ending \in Ending

Type(t) ==
  /\ Len(options) < MaxOptions
  /\ options' = Append(options, t)
  /\ UNCHANGED ending

Next == \E t \in OptionToken : Type(t)

Spec == Init /\ [][Next]_vars
-----------------------------------------------------------------------------
(* Properties *)

\* A quote is escaped by a backslash before it; a position is quoted after an
\* odd number of quotes that are not.
Escaped(s, i) == s[i] = Quote /\ At(s, i - 1) = Backslash
Quoted(s, i)  == Cardinality({j \in 1 .. i - 1 : s[j] = Quote /\ ~Escaped(s, j)}) % 2 = 1

\* The grammar's options block of a line, as a length, if it has one.
BlockEnds(s) ==
  {n \in 0 .. Len(s) :
     /\ ~Quoted(s, n + 1)
     /\ At(s, n + 1) \in {Blank, "end"}
     /\ \A i \in 1 .. n : s[i] = Blank => Quoted(s, i)}

HasOption(s) ==
  \E i \in DOMAIN s :
    /\ s[i] = VerifyRequired /\ ~Quoted(s, i)
    /\ \A j \in {i - 1, i + 1} \cap DOMAIN s : s[j] = Comma /\ ~Quoted(s, j)

\* The escapes of the block are all in quotes.
Regular(s) == \A i \in DOMAIN s : Escaped(s, i) => Quoted(s, i)

Named(s) == LineStartsWithAlgo(TrimStart(s)) /\ FirstWord(Tail(TrimStart(s))) = <<Key>>

\* A line is taken exactly when a key follows the algorithm and the algorithm
\* comes first or straight after one options block as authorized_keys(5) has
\* it: no quoting makes the scanner lose a key, or find one in an option's
\* value or behind a second block (advance_past_options).
KeysFound ==
  LET s == TrimStart(line)
  IN  ParseLine(line).kept <=>
        /\ At(s, 1) # Hash
        /\ \/ Named(s)
           \/ ~LineStartsWithAlgo(s) /\ \E n \in BlockEnds(s) : Named(From(s, n + 1))

\* On a line whose escapes are all in quotes, user verification is required
\* exactly when one option of the block is verify-required: not for the word
\* in a quoted value or as part of a longer one (options_have_verify_required).
OptionRead ==
  LET s == TrimStart(line)
  IN  \A n \in BlockEnds(s) :
        ParseLine(line).kept /\ ~LineStartsWithAlgo(s) /\ Regular(SubSeq(s, 1, n)) =>
          (ParseLine(line).verify_required <=> HasOption(SubSeq(s, 1, n)))

\* What keys.rs:208 says: however malformed the line, verify-required as an
\* option of its block is never lost.
MalformedIsFailSafe ==
  LET s == TrimStart(line)
  IN  \A n \in BlockEnds(s) :
        ParseLine(line).kept /\ ~LineStartsWithAlgo(s) /\ HasOption(SubSeq(s, 1, n)) =>
          ParseLine(line).verify_required
=============================================================================
