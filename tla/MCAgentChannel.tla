--------------------------- MODULE MCAgentChannel ---------------------------
(* Instances of AgentChannel for TLC.                                       *)
EXTENDS AgentChannel

Id(blob, comment) == [blob |-> blob, comment |-> comment]

IdLists == {<<>>, <<Id(<<Algo>>, <<>>)>>,
            <<Id(<<Plain>>, <<>>), Id(<<Algo>>, <<Plain>>)>>,
            <<Id(<<Algo>>, <<Invalid>>)>>}
Sigs    == {<<>>, <<Plain, Algo>>}

\* Whole and cut bodies, and a body with bytes after its end; announced with
\* its length, the length of the whole or one less, or a length over the limit.
Cuts(ids, sig, whole) ==
  {[ids |-> ids, sig |-> sig, body |-> body, len |-> len] :
     body \in {SubSeq(whole, 1, n) : n \in 0 .. Len(whole)} \cup {Append(whole, Plain)},
     len \in {Len(whole), Len(whole) - 1}}
  \cup {[ids |-> ids, sig |-> sig, body |-> whole, len |-> MaxMsg + 1]}
  \cup {[ids |-> ids, sig |-> sig, body |-> SubSeq(whole, 1, n), len |-> n] :
          n \in 0 .. Len(whole)}

\* A failure, replies of other types, a string over the limit.
TooLong == [i \in 1 .. MaxString + 1 |-> Plain]
Odd == {[ids |-> <<>>, sig |-> TooLong, body |-> body, len |-> Len(body)] :
          body \in {<<SSH_AGENT_FAILURE>>, <<Plain>>, EncodeSignature(TooLong)}}

MCFrame ==
  UNION {Cuts(ids, <<>>, EncodeIdentities(ids)) : ids \in IdLists}
  \cup UNION {Cuts(<<>>, sig, EncodeSignature(sig)) : sig \in Sigs}
  \cup Odd
MCRequest == {"list", "sign"}
=============================================================================
