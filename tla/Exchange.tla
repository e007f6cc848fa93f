------------------------------ MODULE Exchange ------------------------------
(***************************************************************************)
(* What an exchange with the agent promises the hook, with no stream and   *)
(* no format in it (src/src/agent.rs): it is decided once, by the answer   *)
(* the agent meant, by a refusal the agent meant, or by an error of one of *)
(* the two classes on which the return code of the call depends.           *)
(***************************************************************************)

VARIABLES answer,   \* what a whole reply of this agent stands for
          refuses,  \* it means to refuse, and a refusal was asked for
          got       \* what the hook got
evars == <<answer, refuses, got>>

Got(class, val) == [class |-> class, val |-> val]

EInit == got = Got("pending", <<>>)

Outcomes ==
  {Got("answered", answer), Got("Service", <<>>), Got("InfoUnavailable", <<>>)}
  \cup {g \in {Got("refused", <<>>)} : refuses}

ENext ==
  /\ got.class = "pending"
  /\ got' \in Outcomes
  /\ UNCHANGED <<answer, refuses>>

ESpec == EInit /\ [][ENext]_evars
=============================================================================
