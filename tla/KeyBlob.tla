------------------------------- MODULE KeyBlob -------------------------------
(***************************************************************************)
(* The readers of a key blob: the one of authorized_keys, which keeps the  *)
(* key of a line (src/src/keys.rs), the one of what the agent lists        *)
(* (src/src/agent.rs) and the example that shows a user what to put in the *)
(* file (src/examples/list_keys.rs).  Cells are those of AgentWire.        *)
(***************************************************************************)
EXTENDS AgentWire

CONSTANT PointSize  \* bytes of an uncompressed point, 65 for P-256

PointTag == 4

\* Mutant: the algorithm is taken as given.
ParseAnyKeyBlob(blob) ==
  LET algo        == ReadSshBytes[blob]
      curve       == ReadSshBytes[algo.rest]
      ec_point    == ReadSshBytes[curve.rest]
      application == ReadSshBytes[ec_point.rest]
  IN  IF application.err # "none" \/ Len(ec_point.val) # PointSize THEN Err("None")
      ELSE Got([ec_point |-> ec_point.val, application |-> application.val], <<>>)

\* The curve is read and not looked at, nor is what follows the application.
ParseWebauthnKeyBlob(blob) ==
  LET algo        == ReadSshBytes[blob]
      curve       == ReadSshBytes[algo.rest]
      ec_point    == ReadSshBytes[curve.rest]
      application == ReadSshBytes[ec_point.rest]
  IN  IF \/ application.err # "none"
         \/ algo.val # <<Algo>>
         \/ Len(ec_point.val) # PointSize \/ Head(ec_point.val) # PointTag
         \/ application.val = <<>> \/ ~IsUtf8(application.val)
      THEN Err("None")
      ELSE Got([ec_point |-> ec_point.val, application |-> application.val], <<>>)

\* read_ssh_string of webauthn.rs, and what is_webauthn_key_blob does: the
\* first string of a blob, without a limit on its length.
FirstString(blob) ==
  LET u == ReadU32(blob)
  IN  IF u.err # "none" \/ Len(u.rest) < u.val THEN Err("Parse")
      ELSE Got(SubSeq(u.rest, 1, u.val), <<>>)

IsWebauthnBlob(blob) == FirstString(blob).err = "none" /\ FirstString(blob).val = <<Algo>>

\* What becomes of a blob in the agent's list: it is a string of the reply, and
\* one that is too long fails the whole list before the filter sees it.
ListTakes(blob) ==
  LET entry == ReadSshBytes[EncodeString(blob)]
  IN  IF entry.err # "none" THEN entry.err
      ELSE IF IsWebauthnBlob(entry.val) THEN "listed" ELSE "dropped"

\* read_bytes of the example: a length that does not fit is passed over.
ReadBytes(buf) ==
  LET u == ReadU32(buf)
  IN  IF u.err # "none" THEN [u EXCEPT !.rest = buf]
      ELSE IF Len(u.rest) < u.val THEN [u EXCEPT !.err = "truncated"]
      ELSE Got(SubSeq(u.rest, 1, u.val), SubSeq(u.rest, u.val + 1, Len(u.rest)))

ReadString(buf) ==
  LET bytes == ReadBytes(buf)
  IN  IF bytes.err = "none" /\ ~IsUtf8(bytes.val) THEN [bytes EXCEPT !.err = "utf8"] ELSE bytes

\* What the example prints of a blob, field by field.
Show(blob) ==
  LET algo        == ReadString(blob)
      curve       == ReadString(algo.rest)
      ec_point    == ReadBytes(curve.rest)
      application == ReadString(ec_point.rest)
  IN  [algo |-> algo, curve |-> curve, ec_point |-> ec_point, application |-> application]
=============================================================================
