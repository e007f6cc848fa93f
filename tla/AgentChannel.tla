---------------------------- MODULE AgentChannel ----------------------------
(***************************************************************************)
(* One exchange with the agent (src/src/agent.rs): connect, write the      *)
(* request, read a length, read that many bytes, parse them.  The agent    *)
(* takes connections from a queue of bounded length when it likes, sends   *)
(* its reply in pieces when it likes, and may hang or close at any point.  *)
(* The socket timeout limits a single read call, and is only set once the  *)
(* connection is made.  A cell of the reply, the length among them, is up  *)
(* to CellBytes bytes, each of which may come on its own and take a read   *)
(* call of its own.  A call that a signal cuts short is not modelled.      *)
(***************************************************************************)
EXTENDS AgentWire, PamCodes

CONSTANTS
  Request,   \* kinds of exchange: a subset of {"list", "sign"}
  Frame,     \* what an agent may reply: [ids, sig, len, body], see frame
  Backlog,   \* length of the agent's accept queue
  Timeout    \* SOCKET_TIMEOUT in ticks

\* The bytes of a u32, of which read_exact may need a call each.
CellBytes == 4

ASSUME ChannelAssumption ==
  Request \subseteq {"list", "sign"} /\ Backlog \in Nat \ {0} /\ Timeout \in Nat
ASSUME FrameAssumption == \A f \in Frame :
  /\ f.len \in Nat /\ f.body \in Seq(Nat) /\ f.sig \in Seq(Nat)
  /\ f.ids \in Seq([blob : Seq(Nat), comment : Seq(Nat)])

\* The frame says what the agent means; a body that is cut short, goes on after
\* its end or is of no type at all is still such a body.
ASSUME MeaningAssumption == \A f \in Frame : Means(f.body, f.ids, f.sig)

VARIABLES
  request,   \* what the client asks for
  frame,     \* the reply the agent will give: the length it announces, the
             \* body, and the identities and signature a whole body stands for
  phase,     \* the client: connect, write, read_len, read_body, done
  queue,     \* connections before the client's in the accept queue
  accepted,  \* the agent has taken the client's connection
  unsent,    \* cells the agent has still to send
  part,      \* bytes of the next of them that were read ahead of its end
  wire,      \* cells sent and not yet read
  closed,    \* the agent has closed its end
  need,      \* the length the client read
  buf,       \* the cells the client read of the body
  idle,      \* ticks since the current read call began
  elapsed,   \* ticks since the first read call began
  outcome    \* "pending", what read_msg ended with: "complete", or an io error

client == <<phase, need, buf, outcome>>
agent  == <<accepted, unsent, part, closed>>
clock  == <<idle, elapsed>>
vars   == <<request, frame, queue, wire, client, agent, clock>>

Reading == phase \in {"read_len", "read_body"}

Init ==
  /\ request \in Request
  /\ frame \in Frame
  /\ queue \in 0 .. Backlog
  /\ phase = "connect"
  /\ accepted = FALSE /\ closed = FALSE
  /\ unsent = <<frame.len>> \o frame.body
  /\ part = 0 /\ wire = <<>> /\ buf = <<>> /\ need = 0
  /\ idle = 0 /\ elapsed = 0
  /\ outcome = "pending"

Finish(how) ==
  /\ phase' = "done"
  /\ outcome' = how
-----------------------------------------------------------------------------
(* The client *)

\* Mutant: a failure to connect is taken for a refusal.
ConnectRefused ==
  /\ phase = "connect"
  /\ Finish("Refused")
  /\ UNCHANGED <<request, frame, queue, wire, need, buf, agent, clock>>

\* connect blocks while the queue is full; there is no timeout on it.
Connect ==
  /\ phase = "connect"
  /\ queue < Backlog
  /\ phase' = "write"
  /\ UNCHANGED <<request, frame, queue, wire, need, buf, outcome, agent, clock>>

ConnectFails ==
  /\ phase = "connect"
  /\ Finish("Other")
  /\ UNCHANGED <<request, frame, queue, wire, need, buf, agent, clock>>

\* A request fits the socket buffer: it is written whether or not it is read.
WriteMsg ==
  /\ phase = "write"
  /\ ~closed
  /\ phase' = "read_len"
  /\ UNCHANGED <<request, frame, queue, wire, need, buf, outcome, agent, clock>>

WriteFails ==
  /\ phase = "write"
  /\ closed
  /\ Finish("Other")
  /\ UNCHANGED <<request, frame, queue, wire, need, buf, agent, clock>>

\* Mutant: the announced length is not limited.
ReadLenUnlimited ==
  /\ phase = "read_len"
  /\ wire # <<>>
  /\ wire' = Tail(wire)
  /\ idle' = 0
  /\ need' = Head(wire)
  /\ IF need' = 0 THEN Finish("complete") ELSE phase' = "read_body" /\ UNCHANGED outcome
  /\ UNCHANGED <<request, frame, queue, buf, agent, elapsed>>

\* The length: refused if too long, and an empty body is complete at once.
ReadLen ==
  /\ phase = "read_len"
  /\ wire # <<>>
  /\ wire' = Tail(wire)
  /\ idle' = 0
  /\ IF Head(wire) > MaxMsg
     THEN Finish("InvalidData") /\ UNCHANGED <<need, buf>>
     ELSE /\ need' = Head(wire)
          /\ UNCHANGED buf
          /\ IF need' = 0 THEN Finish("complete")
                          ELSE phase' = "read_body" /\ UNCHANGED outcome
  /\ UNCHANGED <<request, frame, queue, agent, elapsed>>

\* One read call of read_exact: it returns some of what there is, up to what
\* is still wanted; the next call starts its timeout anew.
ReadBody ==
  /\ phase = "read_body"
  /\ wire # <<>>
  /\ \E n \in 1 .. Len(wire) :
       /\ Len(buf) + n <= need
       /\ buf' = buf \o SubSeq(wire, 1, n)
       /\ wire' = SubSeq(wire, n + 1, Len(wire))
  /\ idle' = 0
  /\ IF Len(buf') = need THEN Finish("complete") ELSE UNCHANGED <<phase, outcome>>
  /\ UNCHANGED <<request, frame, queue, need, agent, elapsed>>

\* A read call of read_exact that returns a byte of a cell before the agent
\* sends its last: the next call starts its timeout anew.
ReadPart ==
  /\ Reading
  /\ accepted /\ ~closed
  /\ wire = <<>> /\ unsent # <<>>
  /\ part < CellBytes - 1
  /\ part' = part + 1
  /\ idle' = 0
  /\ UNCHANGED <<request, frame, queue, wire, client, accepted, unsent, closed, elapsed>>

\* What is left in the socket is read before its end, or a reset, is seen.
ReadEof ==
  /\ Reading
  /\ wire = <<>> /\ closed
  /\ \E kind \in {"UnexpectedEof", "Other"} : Finish(kind)
  /\ UNCHANGED <<request, frame, queue, wire, need, buf, agent, clock>>

\* Mutant: the read timeout is not set.
ReadNeverTimesOut == ReadEof /\ ~closed

ReadTimesOut ==
  /\ Reading
  /\ wire = <<>>
  /\ idle >= Timeout
  /\ Finish("TimedOut")
  /\ UNCHANGED <<request, frame, queue, wire, need, buf, agent, clock>>
-----------------------------------------------------------------------------
(* The agent, other clients of it, and time *)

OtherConnects ==
  /\ phase = "connect"
  /\ queue < Backlog
  /\ queue' = queue + 1
  /\ UNCHANGED <<request, frame, wire, client, agent, clock>>

AcceptOther ==
  /\ queue > 0
  /\ queue' = queue - 1
  /\ UNCHANGED <<request, frame, wire, client, agent, clock>>

Accept ==
  /\ phase \notin {"connect", "done"}
  /\ queue = 0 /\ ~accepted
  /\ accepted' = TRUE
  /\ UNCHANGED <<request, frame, queue, wire, client, unsent, part, closed, clock>>

\* The rest of a cell.
Send ==
  /\ accepted /\ ~closed /\ Reading
  /\ unsent # <<>>
  /\ wire' = Append(wire, Head(unsent))
  /\ unsent' = Tail(unsent) /\ part' = 0
  /\ UNCHANGED <<request, frame, queue, client, accepted, closed, clock>>

Close ==
  /\ accepted /\ ~closed
  /\ closed' = TRUE
  /\ UNCHANGED <<request, frame, queue, wire, client, accepted, unsent, part, clock>>

\* Time passes while a read call waits; the call returns when its time is up.
Tick ==
  /\ Reading
  /\ wire = <<>> /\ ~closed
  /\ idle < Timeout
  /\ idle' = idle + 1
  /\ elapsed' = elapsed + 1
  /\ UNCHANGED <<request, frame, queue, wire, client, agent>>
-----------------------------------------------------------------------------
ClientNext ==
  Connect \/ WriteMsg \/ WriteFails \/ ReadLen \/ ReadBody \/ ReadEof \/ ReadTimesOut
AgentNext == OtherConnects \/ AcceptOther \/ Accept \/ Send \/ Close

Next == ClientNext \/ ConnectFails \/ ReadPart \/ AgentNext \/ Tick

Spec == Init /\ [][Next]_vars

\* The client runs and time passes; the agent owes nothing, and no error is
\* owed to a client that waits in connect.  Nor is that client passed over by
\* the kernel for ever: if the queue has room again and again, it gets in.
FairSpec == Spec /\ WF_vars(ClientNext) /\ WF_vars(Tick) /\ SF_vars(Connect)

\* What list_webauthn_identities or sign_raw returns when it is done.
Result ==
  IF outcome # "complete" THEN Err(outcome)
  ELSE IF request = "list" THEN ListReply(buf) ELSE SignReply(buf)
-----------------------------------------------------------------------------
(* Properties *)

\* Every variable has its type.
TypeOK ==
  /\ request \in Request /\ frame \in Frame
  /\ phase \in {"connect", "write", "read_len", "read_body", "done"}
  /\ queue \in 0 .. Backlog
  /\ accepted \in BOOLEAN /\ closed \in BOOLEAN
  /\ part \in 0 .. CellBytes - 1
  /\ unsent \in Seq(Nat) /\ wire \in Seq(Nat) /\ buf \in Seq(Nat)
  /\ need \in Nat /\ idle \in 0 .. Timeout /\ elapsed \in Nat
  /\ outcome \in {"pending", "complete", "InvalidData", "UnexpectedEof", "TimedOut", "Other"}

\* A list or a signature is only ever taken from a reply that arrived whole:
\* however the bytes are cut up, and wherever the agent stops or closes, the
\* client has an error or exactly what the agent meant to say (read_msg,
\* parse_webauthn_identities, sign_raw).
AnswerIsWhole ==
  Result.err = "none" =>
    Result.val = IF request = "list" THEN WebauthnBlobs(frame.ids) ELSE frame.sig

\* A refusal, which lets the hook try its next key, is what the agent said in
\* a reply it was asked for and never the trace of a broken exchange.
RefusalIsSaid ==
  Result.err = "Refused" =>
    request = "sign" /\ buf # <<>> /\ buf = SubSeq(frame.body, 1, frame.len)
      /\ frame.body[1] = SSH_AGENT_FAILURE

\* No reply makes the client hold or wait for more than MAX_MSG_LEN bytes, and
\* no wait is longer than one timeout for each byte: the four of the length, and
\* at most four for each cell of the body it announces (read_msg).
WaitBounded ==
  /\ Len(buf) <= need /\ need <= MaxMsg
  /\ elapsed <= Timeout * CellBytes * (1 + need)

\* An exchange whose connection was made ends, whatever the agent does then.
ConnectedEnds == phase = "write" ~> phase = "done"

\* What the hook is promised of an exchange: classify_io_err makes of every
\* error a class, and the exchange is decided once and by one of its outcomes.
Classified ==
  LET r == Result
  IN  [class |-> CASE r.err = "none"    -> "answered"
                   [] r.err = "pending" -> "pending"
                   [] r.err = "Refused" -> "refused"
                   [] OTHER             -> ClassifyIoErr(r.err),
       val |-> r.val]

Outcome == INSTANCE Exchange WITH
  answer  <- IF request = "list" THEN WebauthnBlobs(frame.ids) ELSE frame.sig,
  refuses <- request = "sign" /\ frame.len > 0 /\ frame.body # <<>>
               /\ frame.body[1] = SSH_AGENT_FAILURE,
  got     <- Classified

\* An exchange over the stream implements it, so that the hook may take each
\* exchange for one step with one of these outcomes (Authenticate).
ImplementsExchange == Outcome!ESpec

\* What agent.rs:34 says of any agent: the exchange ends.
HungAgentEnds == <>(phase = "done")

\* What README.md:171 says: a malformed message is a service error, that is, an
\* error of kind InvalidData, when it is the message and not the transport.
MalformedIsInvalidData ==
  /\ phase = "done" /\ frame.body # <<>> /\ buf = frame.body /\ need = frame.len
  /\ frame.body[1] # SSH_AGENT_FAILURE
  => Result.err \in {"none", "InvalidData"}
=============================================================================
