# A TLA+ model of pam-ssh-agent-webauthn

The program is a PAM module, written in Rust. It lets a user in who can have a
WebAuthn credential sign a fresh challenge: it reads the credentials that are
allowed from `authorized_keys`, asks the SSH agent behind `SSH_AUTH_SOCK` which
of them it has, sends one sign request after the other, and verifies what comes
back. This directory holds TLA+ modules of it, the TLC configurations that
check them on small instances, and proofs for TLAPS.

## 1. Inventory

| part | source | state it keeps | operations |
|---|---|---|---|
| hook and attempt loop | `src/lib.rs` | the parsed arguments, the keys as read, the matches and how many were tried, the challenge of the attempt; all of it local to one call | `sm_authenticate`, `do_authenticate`, `matched_pairs`, `iter_attempts`, `try_authenticate`, `classify_*`, `sm_setcred` |
| module arguments | `src/lib.rs` | none | `parse_args` |
| agent client | `src/agent.rs` | one socket per request | `connect_with_timeout`, `write_msg`, `read_msg`, the parsing of replies |
| key lines | `src/keys.rs` | none | `parse_authorized_keys_str`, the two option scanners, `parse_webauthn_key_blob` |
| secure open | `src/authfile.rs` | an open descriptor, beside the path | `open_secure` |
| verification | `src/webauthn.rs` | none | `verify_webauthn_sk`, the checks it makes, the parsing of the signature |
| test helper | `src/lib.rs` | as the hook | `authenticate*`, with a loop of its own |
| examples | `examples/` | none | `list_keys` shows the fields of the keys an agent has |
| CI, packaging | `.github/`, `scripts/` | none | not part of the module |

How they interact. The host program (sudo, login, ...) calls `sm_authenticate`
in its own process; nothing is kept from one call to the next. A call opens the
key file once, lists the agent's identities over one connection, and makes a
new connection for each sign request. Calls that run side by side share only
what is outside them: the key file, which an administrator edits, and the agent
with its authenticators. The agent belongs to the user and is not trusted. Its
answers are untrusted bytes on a stream.

What is hard about it, and what makes each part correct:

* *Hook.* The agent decides how many identities match, in which order, and
  whether, when and with what it answers. It may answer with any signature it
  has ever seen. Correct: `PAM_SUCCESS` only against a signature made for this
  attempt; never one signature for two calls; never more prompts than the cap;
  a soft failure moves on and a hard one ends; every end has the return code
  that PAM stacks route on; and who has a usable credential within the cap is
  let in.
* *Agent client.* A stream is cut anywhere. Correct: what is returned is the
  whole answer or an error; a refusal is one the agent expressed; waiting and
  memory are bounded; the exchange ends.
* *Key lines.* Two scanners with different quoting rules read the same text.
  Correct: no line is lost or misread, and `verify-required` is found where the
  grammar has it.
* *Secure open.* The path is resolved more than once while the file system
  changes. Correct: what is read is what was checked.
* *Verification.* Fields of one untrusted blob must agree with each other, and
  a number has one encoding.
* *Module arguments.* They may be repeated, mixed and mistyped. Correct: the last
  one for a setting wins, none is dropped, and the cap is the number written.
* *Key blobs.* Three functions with parsers of their own read them. Correct: none
  drops in silence a key that a line may hold.
* *Test helper.* It has a loop of its own, and reads the key file without the
  checks. Correct: over a file that passes them, what the integration tests see of
  it is what the hook does.

The full list, each at its line, is under `hazards` in `PROJECT.json`.

## 2. Modules

| module | stands for |
|---|---|
| `AuthSpec` | what the hook promises, with no loop, file or agent in it |
| `PamCodes` | how a failure becomes a return code |
| `Authenticate` | the hook: any number of concurrent calls, the file, the agent, the authenticators |
| `HonestAgent` | `Authenticate` with an agent that works |
| `HookVsHelper` | the hook and the test helper, side by side over one world |
| `ModuleArgs` | `parse_args` |
| `AgentWire` | how replies are parsed |
| `Exchange` | what an exchange with the agent promises the hook |
| `AgentChannel` | one exchange with the agent over a stream |
| `KeyLine` | how a line of `authorized_keys` is read |
| `KeyFile` | `open_secure`, in a tree that changes while it runs |
| `KeyBlob` | the readers of a key blob |
| `Verify` | `verify_webauthn_sk` and `is_webauthn_signature`, on blobs an agent puts together, and the readers of `KeyBlob` on key blobs |
| `Recursion` | induction over the turns of a loop, and that what a loop records exists; used by the proofs |
| `Authenticate_proofs` | the safety theorems of `Authenticate`, that it implements `AuthSpec`, and who is let in |
| `HookVsHelper_proofs` | the theorem that hook and helper agree |
| `ModuleArgs_proofs` | the theorems about the arguments and the numbers in them |
| `AgentChannel_proofs` | type correctness, the bound on waiting, that answers and refusals are the agent's, and that `AgentChannel` implements `Exchange` |
| `KeyLine_proofs` | the theorems that lines and options are read as the grammar has them |
| `KeyFile_proofs` | the safety theorems of `KeyFile` |
| `Verify_proofs` | the theorems about the readers of key and signature blobs |
| `MCAuthenticate`, `MCHonestAgent`, `MCHookVsHelper`, `MCModuleArgs`, `MCAgentChannel`, `MCKeyLine`, `MCKeyFile`, `MCVerify` | instances for TLC |

How they compose. `Authenticate` and `AgentChannel` meet at the sign request: an
exchange is one pair of steps of the hook (`SendSign` or `SendFails`, then
`ReplyFails`, `ReplyRefused`, `ReplyVerified` or `ReplyNotVerified`), as it is at
the list (`ConnectToList` or `ConnectFails`, then `ListFails`, `NoIdentities` or
`ListIdentities`). `Exchange`
states what the hook is promised there: the exchange is decided once, by the
answer the agent meant, a refusal it meant, or an error of one of the two classes
that `ClassifyIoErr` makes. `AgentChannel` implements it (`ImplementsExchange`),
and those are the outcomes the actions of `Authenticate` have. Both take
`ClassifyIoErr` from `PamCodes`. `KeyFile` gives `OpenFails` its outcomes: a policy
error or an I/O error by kind. `ModuleArgs` gives `ParseArgs` its own: refused, or
a cap of at least one. `KeyLine` and `Authenticate` meet at the line, which is a
blob and a flag for `Authenticate`; that the agent's list does not drop a blob of
a line, so that it can match, is `ReadersAgree`. `Verify` is what `Verifies` of
`Authenticate` abstracts to a credential, a challenge and a flag.

### Authenticate

`pc[s]` is where call `s` is in `do_authenticate`: `parse_args`, `open_secure`,
`list_identities` (before the connection for the list is made), `read_list`
(waiting for the list), `next` (the head of the loop of `iter_attempts`), `try`
(`try_authenticate` before the request is out), `reply` (waiting in
`sign_raw`), `done`. At `list_identities` and `try` the next thing that may take
its time is `connect`, which has no timeout (`AtConnect`). `config`, `lines`, `matched`, `tried` and `challenge` are
the local variables of the code (`config`, `authorized_keys`, `matched`,
`tried`, `challenge`). `matched` holds pairs of positions, since the code's
matches point at an identity and a line; `untried` is the rest of the `for`
loop, taken in the order `Before`, which is that of the nested iteration in
`matched_pairs`. `asks` and `accepted` are history, read by no guard.

Each step does what the code does up to the next point where something outside
it can happen. A failure is an action of its own and sets the result through
`PamCode`, `ClassifyIoErr` or `ClassifyOpenErr`. The environment is `Edit` (the
file becomes any file) and `Sign` (an authenticator signs a challenge the agent
has been given, with any credential, at any later time). A reply is any
assertion that exists or none: `ReplyVerified` needs one that `Verifies` for
the key and challenge of the attempt, `ReplyNotVerified` stands for all others,
for garbage, and for what fails the checks that are not modelled.

What is abstracted: blobs, challenges and files are model values or members of
small sets; the flags other than UV, the origin and the client data are
"does not verify"; a signature cannot be made without the authenticator; a
32-byte value never comes out of `getrandom` twice.

### AuthSpec

A call fixes a policy and a budget once, may prompt while the budget lasts, and
gives one verdict. `PAM_SUCCESS` needs an assertion that exists, that the policy
accepts and that no call was granted with; `PAM_AUTH_ERR` needs a policy. The
refinement mapping (`Promise` in `Authenticate`) takes the policy from the lines
as read, each with the module's UV setting or-ed in, and the prompts from the
requests that reached the agent.

### HonestAgent

Reuses the actions of `Authenticate`, restricted to an agent that passes every
request on, returns that authenticator's answer and no other, and breaks no
exchange. `Held` are the authenticators at hand; one that is not refuses.

### HookVsHelper

Each match has an outcome, what `try_authenticate` would make of it; both callers
get the same file, agent, matches and cap. `agent` is what listing the identities
leads to. `file` says twice what the path of the key file leads to: how
`open_secure` ends (`open`), "policy" being every error but `Io`, and what
`read_to_string` finds (`holds`). The two may differ in any way but one: content
that `open_secure` returns is what the helper reads as well. So a file that is
not safe, a link in the leaf, which `O_NOFOLLOW` makes an I/O error of, and a path
that does not resolve a second time are all files that only the helper takes.
The loops are those of the code: the hook's stops at the cap before it tries, the
helper's is a `take`. `SameAttempts` and `SameVerdict` compare them when both are
done, over a file that is the same for both (`Alike`); over any other,
`SameVerdict` says that the hook fails, by one of the two codes for a fault, and
prompts nobody. `Says` pairs `Ok(true)` with `PAM_SUCCESS`, `Ok(false)` with the
codes that blame the user or say that there is nothing to ask, and `Err` with a
fault.

### ModuleArgs

One action per branch of the loop over the arguments; `config` holds the mutable
locals. A value is a sequence of tokens, so that the ways a number may be
written matter: `ParseUsize` is the integer parser of the standard library, which
takes one sign, any zeros in front and no overflow. `Meanings` says what an argument
means; `WrittenAs` says which number a text is from the number's side, digit by
digit from the last, where the parser goes from the first.

### AgentWire and AgentChannel

A reply is a sequence of cells: a byte, or the four bytes of a length. The parse
functions are those of the code, on cells; the payload keeps only what the code
looks at (does a blob start with the algorithm, is a comment UTF-8). The channel
has the client (`phase`), the agent's accept queue, the socket (`wire`) and two
clocks. `ReadLen` and `ReadBody` are the two `read_exact` calls of `read_msg`;
`ReadBody` takes any part of what is there. A cell may also come byte by byte,
the length among them: `ReadPart` is a read call that returns a byte that is not
the last of its cell, up to three times for each (`CellBytes`), and the action that
takes the cell then stands for the last of its calls. `idle` is reset by each read call that returns something: that
is what `SO_RCVTIMEO` does. `Result` parses the body when it is complete, and
`Classified` is what `classify_io_err` makes of that. A request fits the socket
buffer, so a write does not block.

What an agent means is stated from its side (`Means` in `AgentWire`): a body of the
type of an identity list or a sign response is the encoding of the identities or
the signature of its frame, whole, cut short or with more after it; a body of any
other type is free. `MeaningAssumption` gives each body its meaning that way, and
says nothing of what the client makes of it.

### KeyLine

Tokens are the bytes the scanners stop at and the words they compare with. An
administrator types any options in front of one of several endings; the two
scanners (`BlockScan`, `OptionScan`) know two blanks, space and tab, while `trim`
and `split_whitespace` know all white space of Unicode; `Wide` is any of the rest.
The scanners are functions on positions, each value made
from the one before it, as the loops of the code do. The reference
definitions (`Quoted`, `BlockEnds`, `HasOption`) say what the grammar means
without a scanner: quoted is after an odd number of quotes that are not escaped.

### KeyFile

`pc` is the next system call of `open_secure`: `open`, `fstat`, `canonicalize`,
`walk` (the loop over the ancestors and then the read). `fd` is the open file
and stays with it; the path is resolved again by each call that takes it,
through one link (`link`) to a directory and through that to a leaf (`leaf`).
The tree changes between any two calls. The administrator installs a file by
rename, sets owner and mode of a file or a directory right after having looked
at what it holds, makes a directory writable, or points the link elsewhere; a
user moves any file, or a link, into place below a writable directory, and
writes to files of his or that others may write to. `author` and `placed` are
history: who wrote a file, and which leaf the administrator last stood for.
`found` records what `canonicalize` saw. An error of a system call for any
other reason is `IoFails`.

What is abstracted: the modes to "only root may write", the forbidden roots to
a set of directories, content to its author. A read that an edit in place falls into
the middle of, and a descriptor that a user opened before the administrator took
the right to write away and still writes through, are not modelled. A file that is not regular may be
a FIFO; only the mutant of `Open` lets it matter.

### KeyBlob

Three readers, each as it is written: `ParseWebauthnKeyBlob` of the key file, with
the limit on the length of each string in the blob and none on the blob;
`ListTakes` of the agent's list, which first reads the blob as a string, with that
limit, and then filters it by its algorithm (`IsWebauthnBlob`), without; and the example's `ReadString` and `ReadBytes`, which step over a
length even when they then fail. `Show` is the example's walk over the fields.

### Verify

The agent puts a blob together part by part, from right and wrong algorithms,
number encodings, flags, counters, origins, client data and extensions, with or
without bytes after the last. `VerifyWebauthnSk` parses and checks it in the order
of the code. A scalar is a byte sequence and is read as the code reads it;
`FieldSize` and `Order` are constants, two bytes in the instance instead of 32 and
a prime below 2^16, and the proofs leave them open. `Bytes` makes the bytes of a
number from the number, by division, where the code goes the other way.
`signed_data` is the tuple of its parts, since each part but the extensions has a
fixed length. ECDSA is ideal, including that `(r, -s)` verifies where `(r, s)`
does. With `kind = "key"` the blob that is put together is a key's.

## 3. Runs

| run | question | bounds | size |
|---|---|---|---|
| `races` | safety of two calls side by side under any agent | two keys, both file forms (a `verify-required` line, the same key twice), an identity twice, caps 1 and 2, four challenges, two assertions | 468,736 states |
| `faults` | do calls with every kind of failure implement `AuthSpec`, and return unless one `connect` never does | two calls, every kind of file, no socket, no WebAuthn key in the agent | 287,450 states |
| `honest` | who is let in when everything works | two calls, a held credential, one that cannot verify the user, one not at hand; decoys before and after | 135,024 states |
| `channel` | does one exchange end, wait and answer as it should, and implement `Exchange` | identity lists of up to two, every cut of every reply, announced with its own length, that of the whole or one less, a length over the limit, each cell in up to four reads, a queue of one, a timeout of one tick | 494,768 states |
| `channel_hung`, `channel_malformed` | what the documents say of the channel | as `channel` | violated |
| `key_line` | are lines and options read as the grammar has them | every sequence of up to six option tokens before twelve endings | 1,647,084 states |
| `key_line_malformed` | what `keys.rs` says of malformed lines | up to five tokens | violated |
| `key_file` | is what is read what was checked, and does the call end | three changes at any time, two files, one directory outside and one inside the forbidden roots, either strictness | 557,074 states |
| `verify` | does a blob verify exactly if it is the encoding of an answer, and do the other readers agree | every combination of three algorithms, 25 signatures, six flag bytes, two counters, four origins, five documents, with and without extensions and trailing bytes; eleven assertions; and of five key fields, each right, empty, too long, cut short or not UTF-8 | 195,760 states |
| `args` | what a list of arguments sets, and which are refused | every list of up to three of 26 arguments, 13 of them numbers around 0 and a `usize::MAX` of 25 | 52,457 states |
| `helper` | do the hook and the test helper try and say the same | up to three matches with any outcomes, caps 0 to 4, every kind of file, as each of them finds it, and of agent | 674,224 states |

Why the bounds are enough. Two calls are what `NoSharedAssertion` relates, and
the proofs cover any number. Cap 1 and cap 2 against two to four matches give
below, at and above the cap. Four challenges are what two calls with two
attempts draw; in `faults`, with three, a call may find none left, which the
model then takes as a failure of the source of entropy. Two assertions are one
to use and one to replay. In the channel, two fields in a row are enough for an
error in the second to follow a success in the first; a reply of ten cells is
below `MaxMsg`, and one length is above it. In `key_line` the shortest line on
which the two scanners differ has two tokens before the ending, and a quoted
value with an escaped quote and a comma in it has six. In `key_file` one
change is enough to break a pin where the walk misses a directory, two to write
to a file after it was checked, and the third may undo or hide one of them; the
proofs have no bound. In `verify` the numbers are those at which a branch of `read_ssh_mpint`
or a limit of the scalars decides: none, a lone zero, a zero too many, a zero
that is needed, the sign bit, both bytes, a byte too many, and the other sign. In `args`
three arguments are two for one setting and a third before, between or after
them; the numbers are those at which the parser decides: nothing, a sign, two, zero, zeros in front,
the limit, one above it, and one that would wrap to something valid. In `helper`
three matches leave room for a cap below, at and above them, with a soft outcome
before any hard one; the proofs have no bound.

Deadlock is checked nowhere a system may stop: a call that is done, an exchange
that is over, and a line that is full do nothing more. In `Authenticate` the
administrator can always edit, so those runs check it for what it is worth.

### What the violated runs show

Each contradicts a sentence of the repository. None of them lets anyone in
without a signature; `key_line_malformed` drops a requirement an administrator
wrote.

1. `channel_hung`: the socket timeouts are set after `connect` returned, and
   `connect` waits while the accept queue of the agent is full. The trace is a
   queue that is full and nothing more: the agent takes no connection from it.
   `agent.rs:34` says a hung agent must not block a login indefinitely.
2. `channel_malformed`: a whole reply that ends inside a field is
   `UnexpectedEof`, therefore `PAM_AUTHINFO_UNAVAIL`. `README.md:171` says
   `PAM_SERVICE_ERR` for a malformed message.
3. `key_line_malformed`: `\",verify-required <algorithm> <key>` is a line with
   the option for the scanner that finds the end of the block, and without it
   for the one that looks for it. `keys.rs:208` says malformed lines are
   fail-safe. `OptionRead` shows that the scanners agree whenever escapes are
   in quotes.

Two more sentences of the README do not fit the code and have no run of their own.
`README.md:272` says that an unresponsive agent is given up after 60 s; the timeout
is per read call (`agent.rs:185`), and `WaitBounded` is what holds: one timeout for
each byte, the four of the length and those announced, of which there are at most
`MAX_MSG_LEN`. A cell of the model is up to four bytes, hence
`Timeout * CellBytes * (1 + need)`. And `README.md:171` gives `PAM_SERVICE_ERR` for
an unreadable or unsafe key file, where `lib.rs:179` gives `PAM_AUTHINFO_UNAVAIL` if
opening it fails with an I/O error: if it may not be read, as the comment at
`lib.rs:166` wants, and also if it is a leaf symlink, which `README.md:134` names
among what file protection refuses (`O_NOFOLLOW`, `authfile.rs:164`). Therefore
`SameVerdict` has the hook end with either of the two codes for faults over a file
that only the helper takes.

### Fairness

`AgentChannel` assumes that the client runs, that time passes, and that the kernel
lets in a client that waits in `connect` if the queue has room again and again
(strong fairness of `Connect`; the kernel serves those who wait in turn); and nothing of the agent, which may
leave the queue full. `Authenticate` assumes weak fairness of each call's steps
wherever the call is not in a `connect` (`AtConnect`): they are straight-line code,
and an exchange ends once its connection is made (`ConnectedEnds`). Of `connect`,
which has no timeout, it assumes nothing, so `EverySessionEnds` says that a call
returns or waits for ever in one `connect`. Nobody has to edit the file, and nobody
has to sign. `HonestAgent` assumes weak fairness of each call's steps, `connect`
included, and that the user touches the authenticator in the end: that is what an
agent and a user are there who do their part. `KeyFile` assumes that the call goes
on, and that no system call blocks, which `O_NONBLOCK` is for.

## 4. Proofs

For every value of the constants, from the assumptions `Authenticate` names
(`BlobAssumption` to `MaxSignedAssumption`):

* `TypeCorrect`: `Spec => []TypeOK`.
* `Invariant`: `Spec => []Inv`. The safety properties are not inductive by
  themselves. `PossessionProved` needs that a grant's challenge is the current
  one and that the current request is recorded (`GrantIsCurrent`,
  `Bookkeeping`); `PromptBudget` and `BlamedAfterTrying` need that the counter
  equals the number of requests at the head of the loop, and that the matches
  are exactly those asked and those untried; `AgentOrder` needs that what is
  untried comes after what was tried; `NoSharedAssertion` needs that no two
  calls hold the same challenge (`ChallengesApart`). `Inv` is that conjunction.
  Each action has a step, each conjunct it may disturb a step below.
* `Possession`, `OneGrantPerAssertion`, `PromptsBounded`, `AttemptsInOrder`,
  `BlameIsEarned`: the safety properties, from `Inv`.
* `Implements`: `Spec => ImplementsAuthSpec`, step by step: `LoadKeys` is
  `Admit`, `SendSign` is `Prompt`, `ReplyVerified` is `Grant`, the failures are
  `Refuse`, `Sign` is `Produce`, everything else a stutter.

And for `HonestAgent`, with `HeldAssumption` beside those:

* `VerdictIsDecided`: `HonestSpec => []VerdictDecided`. `HonestInv` counts: what was
  tried are as many matches as `tried` says, all of them before what is untried,
  and none of them but the current one was usable. When a call blames, the
  matches within the cap are therefore among those tried; when it grants, the
  one it grants for has fewer than `cap` before it.
* `HonestIsAllowed`: `HonestSpec => Spec`, so that the theorems above hold here too.

From the assumptions `HookVsHelper` names:

* `Determined`: `Spec => []Inv`, over any file as either of the two may find it. Neither `SameAttempts` nor `SameVerdict` is
  inductive, since the two loops run at different paces; `Inv` says for each by
  itself that it stops at the first outcome that is not soft or at the bound, and
  what it says there (`StopsAt`, `EndsAt`). There is one such place (`OneStop`), so
  `AttemptsAgree` and `VerdictsAgree` follow. Of the hook it says so only where the
  file is `Alike`; where `open_secure` refuses the file, `Inv` says instead that the
  hook never gets past the opening and ends with a code for faults.

From the assumptions `ModuleArgs` names:

* `LoopInvariant`: `Spec => []SettledSoFar`, for lists of any length; from it
  `OverlayHolds` (`LastWins`), `TyposRefused` (`NothingDropped`) and `CapNeverZero`.

From the assumptions `KeyFile` names:

* `KeyFileType`: `Spec => []TypeOK`, and `KeyFileInvariant`: `Spec => []Inv`.
  `Vouched` and `Pinned` are the two safety properties, from `Inv`.
  `ContentVouched` needs that every file that would pass `fstat` is root's
  (`ContentInv`): no change makes a user's file pass without the administrator
  having looked at it, and none takes an open file that passed away from him,
  since the descriptor stays. `StrictPins` needs that where a leaf is not the
  one stood for some directory above it is unsafe, and that the walk, which only
  passes safe ones, still has that one before it (`PinInv`).

From the assumptions `AgentChannel` and `AgentWire` name:

* `ChannelType`: `Spec => []TypeOK`.
* `Waits`: `Spec => []WaitBounded`. `WaitInv` adds where the client is: what has
  elapsed is at most one timeout for each read call that returned (`Calls`:
  `CellBytes` for a cell that was taken, and one for each byte of the next that was
  read ahead), and the idle time of the one that is running.
* `AnswersAreWhole`, `RefusalsAreMeant`: `AnswerIsWhole` and `RefusalIsSaid`, for lists
  of any number of identities. `StreamInv` says that what was read, what is on the
  wire and what is unsent are, in that order, the reply the agent meant; so a
  complete `buf` is a prefix of the body, of the announced length. What is left is
  about the parser alone: when it has read `i` identities without an error, its
  input was the encoding of the first `i` and the rest, and it kept the WebAuthn
  ones of those. That is by induction over `i`.
* `EveryExchange`: `Spec => ImplementsExchange`. The step that decides `outcome` maps
  to the one step of `Exchange`, with what `Classified` makes of the body, which
  `SettledWell` shows to be one of its outcomes; every other step is a stutter,
  `buf` not changing once it is complete (`Decides`).

From those `KeyLine` names:

* `EveryKeyFound`: `Spec => []KeysFound`, for lines of any tokens and any length,
  white space that is not a blank among them.
  `BlockInv` says of the scan after `i` tokens that it is in quotes exactly if the
  grammar has the position after its block in quotes, that every blank in the block
  is quoted, and that it stopped at one that is not, if it stopped; so it ends at
  the one place where the grammar has the end of the block (`BlockFound`).
* `EveryOptionRead`: `Spec => []OptionRead`. Where the escapes are in quotes,
  `OptionScan` agrees with the grammar on what is quoted, its segment starts after
  the last comma outside quotes, and it has found the option exactly if one that
  such a comma ends is `verify-required` (`OptionInv`).

From those `ModuleArgs` names:

* `CapIsWritten`: `Spec => []CapAsWritten`, for numbers of any length. After
  each character the parser has the numbers within `MaxUsize` that the prefix
  spells (`DigitsRead`): by induction over the prefix, since a number is its last
  digit and the number without it, while `Spells` cuts the digits off the end.

And from those `Verify` and `AgentWire` name:

* `KeyReadersAgree`: `Spec => []ReadersAgree`, and `VerifiedIsRecognised`, for blobs
  of any cells. Both are about what reading one string returns (`SameString`): a
  string that the limited reader takes, the unlimited ones read the same. A blob in
  the agent's list is a string itself, and read back as it is or refused for its
  length (`EntryRead`).
* `VerifiedHasOneEncoding`: `Spec => []OneEncoding`. Field by field, what a successful
  read took off the blob is the encoding of what it returned (`FieldTaken`), so the
  blob is that of its fields (`SignatureTaken`), the numbers in it included
  (`EcdsaTaken`); and bytes with nothing in front that is not needed are the `Bytes`
  of the number they stand for (`BytesOfScalar`). The inductive invariant says
  that the blob is what was put together of parts that `FieldAssumption` allows.
* `EveryGenuineVerifies`: `Spec => []GenuineAccepted`, from the same lemmas the other
  way (`FieldGiven`, `EcdsaGiven`, `SignatureGiven`): a number below the order fits
  `FieldSize` bytes, and reading its encoding returns it, for either scalar.
* `OnlyWholeIsRecognised`: `Spec => []Recognised`; four parts are read as four, so that
  nothing is left for the origin.

What these assume of the constants of `Verify`: numbers below the order fit a
scalar and two of them fit a string (`OrderAssumption`, true of P-256 and
64 KiB); what an authenticator signs is text that fits the strings of a blob
(`SignedAssumption`); and the agent puts strings where a signature has them, with
any bytes in them, and any cell for the flags and the counter (`FieldAssumption`).
The rest of a blob may be any cells. `OneEncoding` and the second half of
`Recognised` are about blobs put together as signatures.

How induction is done. The prover cannot instantiate the induction theorems of
its library, which take an operator. `Recursion` states the two facts that the
loops need about sets instead: a set of turns that has the first and with each
the next has them all (`EveryTurn`), from well-foundedness, and a function that is
defined turn by turn exists (`LoopRecord`). A proof gives them the set of the turns
at which its claim holds.

One caution on the prover. The SMT translation of tlapm 1.4.5 lets `Len` of a
function that is no sequence be a number, so that an obligation that speaks of
`Len` and of a function on another domain could be contradictory in it. Every
SMT obligation of all eight proof modules was therefore tried again with that
axiom weakened to sequences, and holds.

Only model-checked: the liveness properties `EverySessionEnds`, `CredentialGrants`,
`ConnectedEnds` and `OpenEnds`, since fairness is `ENABLED`, which the prover does not
handle. Every other property of a passing run is a theorem. Not proved either is
that the modules fit together where section 2 argues it.

## 5. Not modelled

* `sm_setcred` returns `PAM_SUCCESS` and has no state. Logging and the user's name,
  which is only logged, decide nothing. The examples print what the library
  returns; how `list_keys` takes a key apart is in `KeyBlob`. Packaging and CI are
  not part of the program.
* ECDSA, SHA-256, JSON and base64 are libraries, taken as primitives. So is the
  `native-crypto` build, which parses the same two scalars and hands them to OpenSSL
  instead.
* Signals: a system call that one cuts short. `read_exact` calls again, and the
  timeout of that read begins anew.
* The writing of requests: their length is fixed by the key, and nothing branches
  on it.
* The split of a file into lines: a line is read without regard to the others
  (`KeyLine`), and `Authenticate` has the sequence of what they gave.
* `Verifies` of `Authenticate` is related to `Verify`, and the lines of
  `Authenticate` to `KeyLine`, by the argument of section 2 and not by a refinement:
  the product of their states is out of reach, and the interface is a predicate
  on one blob, which `OneEncoding` and `GenuineAccepted` pin down.
