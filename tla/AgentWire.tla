------------------------------ MODULE AgentWire ------------------------------
(***************************************************************************)
(* How a reply of the agent is read (src/src/agent.rs).  A reply is a      *)
(* sequence of cells.  A cell is a byte, or the four bytes of a u32: a cut *)
(* within a u32 reads as a cut before it.  Payload bytes are abstracted to *)
(* the three kinds the code tells apart: Algo is a blob that starts with   *)
(* the webauthn-sk-ecdsa algorithm, Plain any other byte, Invalid one that *)
(* is not UTF-8.                                                           *)
(***************************************************************************)
EXTENDS Naturals, Sequences

CONSTANTS MaxString,  \* MAX_STRING_LEN
          MaxMsg      \* MAX_MSG_LEN

ASSUME LimitAssumption == MaxString \in Nat /\ MaxMsg \in Nat

SSH_AGENT_FAILURE           == 5
SSH_AGENT_IDENTITIES_ANSWER == 12
SSH_AGENT_SIGN_RESPONSE     == 14

Plain   == 1
Algo    == 2
Invalid == 255

\* What a parser returns: a value and the rest of its input, or an io::ErrorKind.
Got(val, rest) == [err |-> "none", val |-> val, rest |-> rest]
Err(kind)      == [err |-> kind, val |-> <<>>, rest |-> <<>>]
-----------------------------------------------------------------------------
ReadU32(buf) == IF buf = <<>> THEN Err("UnexpectedEof") ELSE Got(Head(buf), Tail(buf))

\* Mutant: a short string is cut instead of refused.
ReadSshBytesLenient == [buf \in Seq(Nat) |->
  LET u == ReadU32(buf) IN
  IF u.err # "none" THEN u
  ELSE IF u.val > MaxString THEN Err("InvalidData")
  ELSE LET n == IF Len(u.rest) < u.val THEN Len(u.rest) ELSE u.val
       IN  Got(SubSeq(u.rest, 1, n), SubSeq(u.rest, n + 1, Len(u.rest)))]

ReadSshBytes == [buf \in Seq(Nat) |->
  LET u == ReadU32(buf) IN
  IF u.err # "none" THEN u
  ELSE IF u.val > MaxString THEN Err("InvalidData")
  ELSE IF Len(u.rest) < u.val THEN Err("UnexpectedEof")
  ELSE Got(SubSeq(u.rest, 1, u.val), SubSeq(u.rest, u.val + 1, Len(u.rest)))]

IsUtf8(bytes) == \A i \in DOMAIN bytes : bytes[i] # Invalid

IsWebauthnKeyBlob(blob) == blob # <<>> /\ blob[1] = Algo

\* One turn of the loop: a blob and a comment; a blob of another algorithm is
\* dropped, and an error ends the loop for good.
KeepWebauthn(ids, blob) == IF IsWebauthnKeyBlob(blob) THEN Append(ids, blob) ELSE ids

ReadIdentity(acc) ==
  LET blob    == ReadSshBytes[acc.rest]
      comment == ReadSshBytes[blob.rest]
  IN  IF acc.err # "none" THEN acc
      ELSE IF blob.err # "none" THEN blob
      ELSE IF comment.err # "none" THEN comment
      ELSE IF ~IsUtf8(comment.val) THEN Err("InvalidData")
      ELSE Got(KeepWebauthn(acc.val, blob.val), comment.rest)

ReadIdentities(nkeys, buf) ==
  LET scan[i \in 0 .. nkeys] == IF i = 0 THEN Got(<<>>, buf) ELSE ReadIdentity(scan[i - 1])
  IN  scan

ParseIdentities(body) ==
  LET nkeys == ReadU32(body)
  IN  IF nkeys.err # "none" THEN nkeys ELSE ReadIdentities(nkeys.val, nkeys.rest)[nkeys.val]

\* list_webauthn_identities and sign_raw on a complete response.
ListReply(response) ==
  IF response = <<>> THEN Err("InvalidData")
  ELSE IF response[1] = SSH_AGENT_FAILURE THEN Err("Other")
  ELSE IF response[1] # SSH_AGENT_IDENTITIES_ANSWER THEN Err("InvalidData")
  ELSE ParseIdentities(Tail(response))

\* Mutant: any reply that is no failure is read as a signature.
SignReplyAnyType(response) ==
  IF response = <<>> THEN Err("InvalidData")
  ELSE IF response[1] = SSH_AGENT_FAILURE THEN Err("Refused")
  ELSE ReadSshBytes[Tail(response)]

SignReply(response) ==
  IF response = <<>> THEN Err("InvalidData")
  ELSE IF response[1] = SSH_AGENT_FAILURE THEN Err("Refused")
  ELSE IF response[1] # SSH_AGENT_SIGN_RESPONSE THEN Err("InvalidData")
  ELSE ReadSshBytes[Tail(response)]
-----------------------------------------------------------------------------
(* The agent's side of the format, to state what should be read back. *)

EncodeString(bytes) == <<Len(bytes)>> \o bytes

ListHead(ids)       == <<SSH_AGENT_IDENTITIES_ANSWER, Len(ids)>>
EncodeIdentity(id)  == EncodeString(id.blob) \o EncodeString(id.comment)
AddIdentity(to, id) == to \o EncodeIdentity(id)

\* The first i of some identities, and the blobs the client keeps of them.
EncodeFirst(ids) ==
  LET upto[i \in 0 .. Len(ids)] ==
        IF i = 0 THEN ListHead(ids) ELSE AddIdentity(upto[i - 1], ids[i])
  IN  upto

KeptOfFirst(ids) ==
  LET upto[i \in 0 .. Len(ids)] ==
        IF i = 0 THEN <<>> ELSE KeepWebauthn(upto[i - 1], ids[i].blob)
  IN  upto

EncodeIdentities(ids) == EncodeFirst(ids)[Len(ids)]
WebauthnBlobs(ids)    == KeptOfFirst(ids)[Len(ids)]

EncodeSignature(sig) == <<SSH_AGENT_SIGN_RESPONSE>> \o EncodeString(sig)

\* One is the other, cut short or with cells after its end.
Agree(s, t) == \A k \in DOMAIN s \cap DOMAIN t : s[k] = t[k]

\* What a reply with this body stands for, if it is of the type the body says.
Means(body, ids, sig) ==
  body # <<>> =>
    /\ body[1] = SSH_AGENT_IDENTITIES_ANSWER => Agree(body, EncodeIdentities(ids))
    /\ body[1] = SSH_AGENT_SIGN_RESPONSE => Agree(body, EncodeSignature(sig))
=============================================================================
