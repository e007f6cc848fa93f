------------------------ MODULE AgentChannel_proofs ------------------------
(* Theorems about AgentChannel, for any replies, limits and timeout.         *)
EXTENDS AgentChannel, Recursion, SequenceTheorems

USE DEF client, agent, clock, Reading

LEMMA TypeInit == Init => TypeOK
<1> SUFFICES ASSUME Init PROVE TypeOK
  OBVIOUS
<1>1. frame.len \in Nat /\ frame.body \in Seq(Nat)
  BY FrameAssumption DEF Init
<1>2. <<frame.len>> \o frame.body \in Seq(Nat)
  BY <1>1
<1>3. <<>> \in Seq(Nat) /\ 0 \in 0 .. Timeout
  BY ChannelAssumption
<1>4. part \in 0 .. CellBytes - 1
  BY DEF Init, CellBytes
<1> QED
  BY <1>2, <1>3, <1>4 DEF Init, TypeOK

LEMMA TypeStep ==
  ASSUME TypeOK, Next
  PROVE  TypeOK'
<1> USE ChannelAssumption
<1>1. CASE Connect \/ ConnectFails \/ WriteMsg \/ WriteFails
  BY <1>1 DEF Connect, ConnectFails, WriteMsg, WriteFails, Finish, TypeOK
<1>2. CASE ReadLen
  <2>1. Head(wire) \in Nat /\ Tail(wire) \in Seq(Nat)
    BY <1>2 DEF ReadLen, TypeOK
  <2> QED
    BY <1>2, <2>1 DEF ReadLen, Finish, TypeOK
<1>3. CASE ReadBody
  <2>1. PICK n \in 1 .. Len(wire) :
          buf' = buf \o SubSeq(wire, 1, n) /\ wire' = SubSeq(wire, n + 1, Len(wire))
    BY <1>3 DEF ReadBody
  <2>2. buf \in Seq(Nat) /\ wire \in Seq(Nat)
    BY DEF TypeOK
  <2>3. SubSeq(wire, 1, n) \in Seq(Nat) /\ SubSeq(wire, n + 1, Len(wire)) \in Seq(Nat)
    BY <2>2
  <2>4. buf' \in Seq(Nat) /\ wire' \in Seq(Nat)
    BY <2>1, <2>2, <2>3
  <2>5. UNCHANGED <<request, frame, queue, need, agent, elapsed>> /\ idle' = 0
    BY <1>3 DEF ReadBody
  <2>6. phase' \in {phase, "done"} /\ outcome' \in {outcome, "complete"}
    BY <1>3 DEF ReadBody, Finish
  <2>7. /\ phase' \in {"connect", "write", "read_len", "read_body", "done"}
        /\ outcome' \in {"pending", "complete", "InvalidData", "UnexpectedEof", "TimedOut", "Other"}
    BY <2>6 DEF TypeOK
  <2>8. /\ request' \in Request /\ frame' \in Frame /\ queue' \in 0 .. Backlog
        /\ accepted' \in BOOLEAN /\ closed' \in BOOLEAN /\ unsent' \in Seq(Nat)
        /\ part' \in 0 .. CellBytes - 1 /\ need' \in Nat /\ elapsed' \in Nat
    BY <2>5 DEF TypeOK, agent
  <2>9. idle' \in 0 .. Timeout
    BY <2>5 DEF ChannelAssumption
  <2> QED
    BY <2>4, <2>7, <2>8, <2>9 DEF TypeOK
<1>4. CASE ReadEof \/ ReadTimesOut
  BY <1>4 DEF ReadEof, ReadTimesOut, Finish, TypeOK
<1>5. CASE OtherConnects \/ AcceptOther \/ Accept \/ Close
  <2>1. CASE OtherConnects \/ AcceptOther
    <3>1. queue' \in 0 .. Backlog
      BY <2>1 DEF OtherConnects, AcceptOther, TypeOK
    <3>2. UNCHANGED <<request, frame, wire, client, agent, clock>>
      BY <2>1 DEF OtherConnects, AcceptOther
    <3> QED
      BY <3>1, <3>2 DEF TypeOK
  <2>2. CASE Accept
    BY <2>2 DEF Accept, TypeOK
  <2>3. CASE Close
    BY <2>3 DEF Close, TypeOK
  <2> QED
    BY <1>5, <2>1, <2>2, <2>3
<1>6. CASE Send \/ ReadPart
  <2>1. part' \in 0 .. CellBytes - 1
    BY <1>6 DEF Send, ReadPart, TypeOK, CellBytes
  <2>2. CASE Send
    BY <2>1, <2>2 DEF Send, TypeOK
  <2>3. CASE ReadPart
    BY <2>1, <2>3 DEF ReadPart, TypeOK
  <2> QED
    BY <1>6, <2>2, <2>3
<1>7. CASE Tick
  BY <1>7 DEF Tick, TypeOK
<1> QED
  BY <1>1, <1>2, <1>3, <1>4, <1>5, <1>6, <1>7 DEF Next, ClientNext, AgentNext

\* TypeOK holds in every reachable state, whatever the constants.
THEOREM ChannelType == Spec => []TypeOK
<1>1. TypeOK /\ [Next]_vars => TypeOK'
  BY TypeStep DEF vars, TypeOK
<1> QED
  BY TypeInit, <1>1, PTL DEF Spec
-----------------------------------------------------------------------------
(* Waiting.  A read call has run for every byte that arrived, at the most:   *)
(* each used up to one timeout, and the current one its idle time.  Calls is *)
(* how many there were by the time so many cells were read.                  *)

Calls(cells) == CellBytes * cells

\* Of the next cell, a byte may still be missing.
Early == IF wire = <<>> THEN part ELSE CellBytes - 1

WaitInv ==
  /\ Len(buf) <= need /\ need <= MaxMsg
  /\ phase \in {"connect", "write", "read_len"} =>
       buf = <<>> /\ need = 0 /\ elapsed <= Timeout * (Calls(0) + Early) + idle
  /\ phase = "read_body" =>
       Len(buf) < need /\ elapsed <= Timeout * (Calls(1 + Len(buf)) + Early) + idle
  /\ phase = "done" => elapsed <= Timeout * Calls(1 + need)

LEMMA Monotone ==
  \A t, a, b \in Nat : a <= b => t * a <= t * b
  OBVIOUS

\* A wait for one byte more that lasts as long as it may.
LEMMA OneMore ==
  ASSUME NEW t \in Nat, NEW k \in Nat, NEW n \in Nat, k < n,
         NEW i \in 0 .. t, NEW e \in Nat, e <= t * k + i
  PROVE  e <= t * n
<1>1. t * (k + 1) <= t * n
  BY Monotone
<1>2. t * (k + 1) = t * k + t
  OBVIOUS
<1>3. t * k \in Nat /\ t * n \in Nat
  OBVIOUS
<1> QED
  BY <1>1, <1>2, <1>3

\* The calls before so many cells are fewer than those after one cell more.
LEMMA CallsGrow ==
  ASSUME NEW k \in Nat, NEW n \in Nat, k < n, NEW e \in 0 .. CellBytes - 1
  PROVE  Calls(k) + e \in Nat /\ Calls(n) \in Nat /\ Calls(k) + e < Calls(n)
BY DEF Calls, CellBytes

LEMMA EarlyType == TypeOK => Early \in 0 .. CellBytes - 1 /\ part \in 0 .. CellBytes - 1
BY DEF TypeOK, Early, CellBytes

\* Whatever the phase, the bound for a reply so far read holds.
LEMMA WaitSoFar ==
  ASSUME TypeOK, WaitInv
  PROVE  /\ phase \in {"connect", "write", "read_len"} =>
              \A n \in Nat : elapsed <= Timeout * Calls(1 + n)
         /\ phase = "read_body" =>
              \A n \in Nat : n > Len(buf) => elapsed <= Timeout * Calls(1 + n)
<1>0. /\ Timeout \in Nat /\ idle \in 0 .. Timeout /\ elapsed \in Nat
      /\ Len(buf) \in Nat /\ Early \in 0 .. CellBytes - 1
  BY ChannelAssumption, EarlyType DEF TypeOK
<1>1. ASSUME phase \in {"connect", "write", "read_len"}, NEW n \in Nat
      PROVE  elapsed <= Timeout * Calls(1 + n)
  <2>1. /\ Calls(0) + Early \in Nat /\ Calls(1 + n) \in Nat
        /\ Calls(0) + Early < Calls(1 + n)
    BY <1>0, CallsGrow
  <2>2. elapsed <= Timeout * (Calls(0) + Early) + idle
    BY <1>1 DEF WaitInv
  <2> QED
    BY <1>0, <2>1, <2>2, OneMore
<1>2. ASSUME phase = "read_body", NEW n \in Nat, n > Len(buf)
      PROVE  elapsed <= Timeout * Calls(1 + n)
  <2>1. /\ Calls(1 + Len(buf)) + Early \in Nat /\ Calls(1 + n) \in Nat
        /\ Calls(1 + Len(buf)) + Early < Calls(1 + n)
    BY <1>0, <1>2, CallsGrow
  <2>2. elapsed <= Timeout * (Calls(1 + Len(buf)) + Early) + idle
    BY <1>2 DEF WaitInv
  <2> QED
    BY <1>0, <2>1, <2>2, OneMore
<1> QED
  BY <1>1, <1>2

\* More cells, or the same and more of the next, and the bound is no less.
LEMMA NoLess ==
  ASSUME NEW t \in Nat, NEW a \in Nat, NEW b \in Nat, a <= b,
         NEW i \in Nat, NEW e \in Nat, e <= t * a + i
  PROVE  e <= t * b + i
<1>1. t * a <= t * b /\ t * a \in Nat /\ t * b \in Nat
  BY Monotone
<1> QED
  BY <1>1

\* Time for some bytes more.
LEMMA MoreTime ==
  ASSUME NEW t \in Nat, NEW k \in Nat, NEW e \in Nat
  PROVE  /\ t * Calls(k) \in Nat /\ t * (Calls(k) + e) \in Nat
         /\ t * Calls(k) <= t * (Calls(k) + e)
<1>1. Calls(k) \in Nat
  BY DEF Calls, CellBytes
<1> QED
  BY <1>1, Monotone

\* The cells read stay as they are, and so does the time, while more arrives.
LEMMA MoreArrives ==
  ASSUME TypeOK, WaitInv, NEW w, Early <= w, w \in 0 .. CellBytes - 1,
         Early' = w, UNCHANGED <<phase, need, buf, elapsed, idle>>
  PROVE  WaitInv'
<1>0. /\ Timeout \in Nat /\ idle \in Nat /\ elapsed \in Nat
      /\ Len(buf) \in Nat /\ Early \in 0 .. CellBytes - 1
  BY ChannelAssumption, EarlyType DEF TypeOK
<1>1. ASSUME phase \in {"connect", "write", "read_len"}
      PROVE  elapsed <= Timeout * (Calls(0) + w) + idle
  <2>1. Calls(0) + Early \in Nat /\ Calls(0) + w \in Nat /\ Calls(0) + Early <= Calls(0) + w
    BY <1>0 DEF Calls, CellBytes
  <2> QED
    BY <1>0, <1>1, <2>1, NoLess DEF WaitInv
<1>2. ASSUME phase = "read_body"
      PROVE  elapsed <= Timeout * (Calls(1 + Len(buf)) + w) + idle
  <2>1. /\ Calls(1 + Len(buf)) + Early \in Nat /\ Calls(1 + Len(buf)) + w \in Nat
        /\ Calls(1 + Len(buf)) + Early <= Calls(1 + Len(buf)) + w
    BY <1>0 DEF Calls, CellBytes
  <2> QED
    BY <1>0, <1>2, <2>1, NoLess DEF WaitInv
<1> QED
  BY <1>1, <1>2 DEF WaitInv

\* A byte that arrives while there is time for it, and the next begins anew.
LEMMA ByteArrives ==
  ASSUME TypeOK, WaitInv, Early' = Early + 1, idle' = 0, Reading,
         UNCHANGED <<phase, need, buf, elapsed>>
  PROVE  WaitInv'
<1>0. /\ Timeout \in Nat /\ idle \in 0 .. Timeout /\ elapsed \in Nat
      /\ Len(buf) \in Nat /\ Early \in 0 .. CellBytes - 1
  BY ChannelAssumption, EarlyType DEF TypeOK
<1>1. ASSUME phase = "read_len"
      PROVE  elapsed <= Timeout * (Calls(0) + (Early + 1)) + 0
  <2>1. /\ Calls(0) + Early \in Nat /\ Calls(0) + (Early + 1) \in Nat
        /\ Calls(0) + Early < Calls(0) + (Early + 1)
    BY <1>0 DEF Calls, CellBytes
  <2>2. elapsed <= Timeout * (Calls(0) + Early) + idle
    BY <1>1 DEF WaitInv
  <2>3. elapsed <= Timeout * (Calls(0) + (Early + 1))
    BY <1>0, <2>1, <2>2, OneMore
  <2>4. Timeout * (Calls(0) + (Early + 1)) \in Nat
    BY <1>0, <2>1
  <2> QED
    BY <2>3, <2>4
<1>2. ASSUME phase = "read_body"
      PROVE  elapsed <= Timeout * (Calls(1 + Len(buf)) + (Early + 1)) + 0
  <2>1. /\ Calls(1 + Len(buf)) + Early \in Nat /\ Calls(1 + Len(buf)) + (Early + 1) \in Nat
        /\ Calls(1 + Len(buf)) + Early < Calls(1 + Len(buf)) + (Early + 1)
    BY <1>0 DEF Calls, CellBytes
  <2>2. elapsed <= Timeout * (Calls(1 + Len(buf)) + Early) + idle
    BY <1>2 DEF WaitInv
  <2>3. elapsed <= Timeout * (Calls(1 + Len(buf)) + (Early + 1))
    BY <1>0, <2>1, <2>2, OneMore
  <2>4. Timeout * (Calls(1 + Len(buf)) + (Early + 1)) \in Nat
    BY <1>0, <2>1
  <2> QED
    BY <2>3, <2>4
<1> QED
  BY <1>1, <1>2 DEF WaitInv

LEMMA WaitStep ==
  ASSUME TypeOK, WaitInv, Next
  PROVE  WaitInv'
<1> USE ChannelAssumption
<1>0. Early \in 0 .. CellBytes - 1 /\ part \in 0 .. CellBytes - 1 /\ need \in Nat
  BY EarlyType DEF TypeOK
<1>a. Early' \in 0 .. CellBytes - 1
  <2>1. TypeOK'
    BY TypeStep
  <2> QED
    BY <2>1 DEF TypeOK, Early, CellBytes
<1>b. Timeout \in Nat /\ Early' \in Nat /\ 1 \in Nat
  BY <1>a DEF CellBytes
<1>1. CASE Connect \/ WriteMsg
  BY <1>1 DEF Connect, WriteMsg, WaitInv, Early
<1>2. CASE ConnectFails \/ WriteFails
  <2>1. elapsed <= Timeout * Calls(1 + need)
    BY <1>0, <1>2, WaitSoFar DEF ConnectFails, WriteFails
  <2> QED
    BY <1>2, <2>1 DEF ConnectFails, WriteFails, Finish, WaitInv
<1>3. CASE ReadLen
  <2>1. buf = <<>> /\ need = 0 /\ \A n \in Nat : elapsed <= Timeout * Calls(1 + n)
    BY <1>3, WaitSoFar DEF ReadLen, WaitInv
  <2>2. CASE Head(wire) > MaxMsg
    <3>1. phase' = "done" /\ UNCHANGED <<buf, need, elapsed>>
      BY <1>3, <2>2 DEF ReadLen, Finish
    <3>2. elapsed <= Timeout * Calls(1 + need)
      BY <1>0, <2>1
    <3> QED
      BY <3>1, <3>2 DEF WaitInv
  <2>3. CASE ~(Head(wire) > MaxMsg)
    <3>1. need' = Head(wire) /\ need' \in Nat /\ need' <= MaxMsg /\ buf' = <<>>
      BY <1>3, <2>1, <2>3, LimitAssumption DEF ReadLen, TypeOK
    <3>2. CASE need' = 0
      BY <1>3, <2>1, <2>3, <3>1, <3>2 DEF ReadLen, Finish, WaitInv
    <3>3. CASE need' # 0
      <4>1. phase' = "read_body" /\ elapsed' = elapsed /\ idle' = 0 /\ elapsed \in Nat
        BY <1>3, <2>3, <3>3 DEF ReadLen, TypeOK
      <4>3. /\ Timeout * Calls(1) \in Nat /\ Timeout * (Calls(1) + Early') \in Nat
            /\ Timeout * Calls(1) <= Timeout * (Calls(1) + Early')
        BY <1>b, MoreTime
      <4>4. elapsed <= Timeout * Calls(1)
        <5>1. elapsed <= Timeout * Calls(1 + 0)
          BY <2>1
        <5> QED
          BY <5>1
      <4>5. Len(buf') = 0 /\ elapsed <= Timeout * (Calls(1 + Len(buf')) + Early') + 0
        <5>1. Len(buf') = 0 /\ 1 + Len(buf') = 1
          BY <3>1
        <5>2. elapsed <= Timeout * (Calls(1) + Early') + 0
          BY <4>1, <4>3, <4>4
        <5> QED
          BY <5>1, <5>2
      <4> QED
        BY <3>1, <3>3, <4>1, <4>5 DEF WaitInv
    <3> QED
      BY <3>2, <3>3
  <2> QED
    BY <2>2, <2>3
<1>4. CASE ReadBody
  <2>1. PICK n \in 1 .. Len(wire) :
          Len(buf) + n <= need /\ buf' = buf \o SubSeq(wire, 1, n)
    BY <1>4 DEF ReadBody
  <2>2. Len(buf') = Len(buf) + n /\ Len(buf') \in Nat /\ Len(buf') > Len(buf)
    BY <2>1 DEF TypeOK
  <2>3. elapsed <= Timeout * Calls(1 + Len(buf'))
    BY <1>4, <2>2, WaitSoFar DEF ReadBody
  <2>4. /\ elapsed' = elapsed /\ need' = need /\ idle' = 0 /\ need <= MaxMsg
        /\ Len(buf') <= need /\ elapsed \in Nat
    BY <1>4, <2>1, <2>2 DEF ReadBody, WaitInv, TypeOK
  <2>5. CASE Len(buf') = need
    <3>1. phase' = "done"
      BY <1>4, <2>5 DEF ReadBody, Finish
    <3> QED
      BY <2>3, <2>4, <2>5, <3>1 DEF WaitInv
  <2>6. CASE Len(buf') # need
    <3>1. phase' = "read_body"
      BY <1>4, <2>6 DEF ReadBody
    <3>2. Len(buf') < need
      BY <1>0, <2>2, <2>4, <2>6
    <3>4. /\ Timeout * Calls(1 + Len(buf')) \in Nat
          /\ Timeout * (Calls(1 + Len(buf')) + Early') \in Nat
          /\ Timeout * Calls(1 + Len(buf')) <= Timeout * (Calls(1 + Len(buf')) + Early')
      <4>1. 1 + Len(buf') \in Nat
        BY <2>2
      <4> QED
        BY <1>b, <4>1, MoreTime
    <3>5. elapsed <= Timeout * (Calls(1 + Len(buf')) + Early') + 0
      BY <2>3, <2>4, <3>4
    <3> QED
      BY <2>4, <3>1, <3>2, <3>5 DEF WaitInv
  <2> QED
    BY <2>5, <2>6
<1>5. CASE ReadEof \/ ReadTimesOut
  <2>1. elapsed <= Timeout * Calls(1 + need)
    <3>1. CASE phase = "read_len"
      BY <1>0, <3>1, WaitSoFar
    <3>2. CASE phase = "read_body"
      <4>1. need > Len(buf)
        BY <1>0, <3>2 DEF WaitInv, TypeOK
      <4> QED
        BY <1>0, <3>2, <4>1, WaitSoFar
    <3> QED
      BY <1>5, <3>1, <3>2 DEF ReadEof, ReadTimesOut
  <2> QED
    BY <1>5, <2>1 DEF ReadEof, ReadTimesOut, Finish, WaitInv
<1>6. CASE OtherConnects \/ AcceptOther \/ Accept \/ Close
  <2>1. Early' = Early /\ UNCHANGED <<phase, need, buf, elapsed, idle>>
    BY <1>6 DEF OtherConnects, AcceptOther, Accept, Close, Early
  <2> QED
    BY <1>0, <2>1, MoreArrives DEF CellBytes
<1>7. CASE Send
  <2>1. Early' = CellBytes - 1 /\ UNCHANGED <<phase, need, buf, elapsed, idle>>
    <3>1. /\ wire' = Append(wire, Head(unsent)) /\ wire \in Seq(Nat) /\ Head(unsent) \in Nat
          /\ UNCHANGED <<phase, need, buf, elapsed, idle>>
      BY <1>7 DEF Send, TypeOK
    <3>2. wire' # <<>>
      BY <3>1
    <3> QED
      BY <3>1, <3>2 DEF Early
  <2> QED
    BY <1>0, <2>1, MoreArrives DEF CellBytes
<1>8. CASE ReadPart
  <2>1. Early' = Early + 1 /\ idle' = 0 /\ Reading /\ UNCHANGED <<phase, need, buf, elapsed>>
    BY <1>8 DEF ReadPart, Early
  <2> QED
    BY <2>1, ByteArrives
<1>9. CASE Tick
  <2>1. /\ Early' = Early /\ UNCHANGED <<phase, need, buf>> /\ Reading
        /\ idle' = idle + 1 /\ elapsed' = elapsed + 1
        /\ idle \in Nat /\ elapsed \in Nat /\ Len(buf) \in Nat
    BY <1>9 DEF Tick, Early, TypeOK
  <2>2. Timeout * (Calls(0) + Early) \in Nat /\ Timeout * (Calls(1 + Len(buf)) + Early) \in Nat
    BY <1>0, <2>1 DEF Calls, CellBytes
  <2> QED
    BY <2>1, <2>2 DEF WaitInv
<1> QED
  BY <1>1, <1>2, <1>3, <1>4, <1>5, <1>6, <1>7, <1>8, <1>9 DEF Next, ClientNext, AgentNext

\* No reply makes the client hold more than MAX_MSG_LEN bytes, or wait longer
\* than a timeout for each byte of the length and of the body (read_msg).
THEOREM Waits == Spec => []WaitBounded
<1>1. Init => WaitInv
  <2> SUFFICES ASSUME Init PROVE WaitInv
    OBVIOUS
  <2>1. /\ phase = "connect" /\ buf = <<>> /\ need = 0 /\ elapsed = 0 /\ idle = 0 /\ Early = 0
        /\ MaxMsg \in Nat /\ Timeout \in Nat
    BY LimitAssumption, ChannelAssumption DEF Init, Early
  <2>2. Timeout * (Calls(0) + Early) = 0
    BY <2>1 DEF Calls, CellBytes
  <2> QED
    BY <2>1, <2>2 DEF WaitInv
<1>2. TypeOK /\ WaitInv /\ [Next]_vars => WaitInv'
  BY WaitStep DEF vars, WaitInv, Early
<1>3. TypeOK /\ WaitInv => WaitBounded
  <2> SUFFICES ASSUME TypeOK, WaitInv PROVE elapsed <= Timeout * Calls(1 + need)
    BY ChannelAssumption DEF WaitInv, WaitBounded, Calls, CellBytes, TypeOK
  <2>1. need \in Nat
    BY DEF TypeOK
  <2>2. CASE phase \in {"connect", "write", "read_len"}
    BY <2>1, <2>2, WaitSoFar
  <2>3. CASE phase = "read_body"
    <3>1. need > Len(buf)
      BY <2>1, <2>3 DEF WaitInv, TypeOK
    <3> QED
      BY <2>1, <2>3, <3>1, WaitSoFar
  <2> QED
    BY <2>2, <2>3 DEF WaitInv, TypeOK
<1> QED
  BY <1>1, <1>2, <1>3, ChannelType, PTL DEF Spec
-----------------------------------------------------------------------------
(* The stream.  What is read, what is under way and what is still to be sent *)
(* are, in this order, always the reply; so a body that is complete is the   *)
(* part of the reply's body that the length announces.                       *)

Left == wire \o unsent

StreamInv ==
  /\ phase \in {"connect", "write", "read_len"} =>
       buf = <<>> /\ Left = <<frame.len>> \o frame.body
  /\ phase = "read_body" => need = frame.len /\ buf \o Left = frame.body
  /\ outcome = "complete" =>
       /\ phase = "done" /\ Len(buf) = frame.len /\ frame.len <= Len(frame.body)
       /\ buf = SubSeq(frame.body, 1, frame.len)

Associates(r, t, v) == (r \o t) \o v = r \o (t \o v)

LEMMA Assoc ==
  ASSUME NEW r \in Seq(Nat), NEW t \in Seq(Nat), NEW v \in Seq(Nat)
  PROVE  Associates(r, t, v)
<1> DEFINE x == (r \o t) \o v
           y == r \o (t \o v)
<1>1. x \in Seq(Nat) /\ y \in Seq(Nat) /\ Len(x) = Len(y)
  <2>1. r \o t \in Seq(Nat) /\ Len(r \o t) = Len(r) + Len(t)
    OBVIOUS
  <2>2. t \o v \in Seq(Nat) /\ Len(t \o v) = Len(t) + Len(v)
    OBVIOUS
  <2>3. x \in Seq(Nat) /\ Len(x) = Len(r \o t) + Len(v)
    BY <2>1
  <2>4. y \in Seq(Nat) /\ Len(y) = Len(r) + Len(t \o v)
    BY <2>2
  <2> HIDE DEF x, y
  <2>5. Len(r) \in Nat /\ Len(t) \in Nat /\ Len(v) \in Nat
    OBVIOUS
  <2> QED
    BY <2>1, <2>2, <2>3, <2>4, <2>5
<1>2. \A i \in 1 .. Len(x) : x[i] = y[i]
  OBVIOUS
<1> HIDE DEF x, y
<1>3. x = y
  BY <1>1, <1>2, SeqEqual
<1> QED
  BY <1>3 DEF x, y, Associates

Regroups(p, c, d, v) == (p \o (c \o d)) \o v = p \o (c \o (d \o v))

LEMMA Regrouped ==
  ASSUME NEW p \in Seq(Nat), NEW c \in Seq(Nat), NEW d \in Seq(Nat), NEW v \in Seq(Nat)
  PROVE  Regroups(p, c, d, v)
<1>1. c \o d \in Seq(Nat)
  OBVIOUS
<1>2. Associates(p, c \o d, v) /\ Associates(c, d, v)
  BY <1>1, Assoc
<1> QED
  BY <1>2 DEF Associates, Regroups

LEMMA Delivered ==
  ASSUME NEW w \in Seq(Nat), NEW u \in Seq(Nat), u # <<>>
  PROVE  Append(w, Head(u)) \o Tail(u) = w \o u
<1>1. Head(u) \in Nat /\ Tail(u) \in Seq(Nat) /\ u = <<Head(u)>> \o Tail(u)
  OBVIOUS
<1>2. Append(w, Head(u)) = w \o <<Head(u)>>
  BY <1>1, AppendIsConcat
<1>3. <<Head(u)>> \in Seq(Nat)
  BY <1>1
<1>4. Associates(w, <<Head(u)>>, Tail(u))
  BY <1>1, <1>3, Assoc
<1> QED
  BY <1>1, <1>2, <1>4 DEF Associates

LEMMA Taken ==
  \A w, u \in Seq(Nat) :
    w # <<>> => Head(w \o u) = Head(w) /\ Tail(w \o u) = Tail(w) \o u
<1> SUFFICES ASSUME NEW w \in Seq(Nat), NEW u \in Seq(Nat), w # <<>>
             PROVE  Head(w \o u) = Head(w) /\ Tail(w \o u) = Tail(w) \o u
  OBVIOUS
<1> DEFINE x == Tail(w \o u)
           y == Tail(w) \o u
<1>1. x \in Seq(Nat) /\ y \in Seq(Nat) /\ Len(x) = Len(y)
  OBVIOUS
<1>2. \A i \in 1 .. Len(x) : x[i] = y[i]
  OBVIOUS
<1>3. x = y
  BY <1>1, <1>2, SeqEqual
<1> QED
  BY <1>3

LEMMA Announced ==
  \A l \in Nat, b \in Seq(Nat) : Head(<<l>> \o b) = l /\ Tail(<<l>> \o b) = b
<1> SUFFICES ASSUME NEW l \in Nat, NEW b \in Seq(Nat)
             PROVE  Head(<<l>> \o b) = l /\ Tail(<<l>> \o b) = b
  OBVIOUS
<1>1. /\ Tail(<<l>> \o b) \in Seq(Nat) /\ Len(Tail(<<l>> \o b)) = Len(b)
      /\ \A i \in 1 .. Len(b) : Tail(<<l>> \o b)[i] = b[i]
  OBVIOUS
<1> QED
  BY <1>1, SeqEqual

LEMMA Moved ==
  ASSUME NEW b \in Seq(Nat), NEW w \in Seq(Nat), NEW u \in Seq(Nat), NEW n \in 1 .. Len(w)
  PROVE  (b \o SubSeq(w, 1, n)) \o (SubSeq(w, n + 1, Len(w)) \o u) = b \o (w \o u)
<1> DEFINE x == SubSeq(w, 1, n)
           y == SubSeq(w, n + 1, Len(w))
<1>1. x \in Seq(Nat) /\ y \in Seq(Nat)
  OBVIOUS
<1>2. x \o y = w
  BY ConcatAdjacentSubSeq, SubSeqFull
<1> HIDE DEF x, y
<1>3. y \o u \in Seq(Nat)
  BY <1>1
<1>4. Associates(b, x, y \o u) /\ Associates(x, y, u)
  BY <1>1, <1>3, Assoc
<1>5. (b \o x) \o (y \o u) = b \o (w \o u)
  BY <1>2, <1>4 DEF Associates
<1> QED
  BY <1>5 DEF x, y

LEMMA Whole ==
  ASSUME NEW b \in Seq(Nat), NEW r \in Seq(Nat)
  PROVE  b = SubSeq(b \o r, 1, Len(b))
<1>1. b \o r \in Seq(Nat) /\ Len(b \o r) >= Len(b)
  OBVIOUS
<1>2. SubSeq(b \o r, 1, Len(b)) \in Seq(Nat) /\ Len(SubSeq(b \o r, 1, Len(b))) = Len(b)
  BY <1>1
<1>3. \A i \in 1 .. Len(b) : SubSeq(b \o r, 1, Len(b))[i] = b[i]
  BY <1>1
<1> QED
  BY <1>2, <1>3, SeqEqual

LEMMA StreamInit == Init => StreamInv
<1> SUFFICES ASSUME Init PROVE StreamInv
  OBVIOUS
<1>1. frame.len \in Nat /\ frame.body \in Seq(Nat)
  BY FrameAssumption DEF Init
<1>2. <<frame.len>> \o frame.body \in Seq(Nat)
  BY <1>1
<1>3. <<>> \o (<<frame.len>> \o frame.body) = <<frame.len>> \o frame.body
  BY <1>2
<1> QED
  BY <1>3 DEF Init, StreamInv, Left

\* A body that is complete is what the length announces of the reply's body.
LEMMA Complete ==
  ASSUME NEW b \in Seq(Nat), NEW r \in Seq(Nat), NEW n \in Nat, Len(b) = n
  PROVE  b = SubSeq(b \o r, 1, n) /\ n <= Len(b \o r)
<1>1. n <= Len(b \o r)
  OBVIOUS
<1> QED
  BY <1>1, Whole

LEMMA StreamStep ==
  ASSUME TypeOK, StreamInv, Next
  PROVE  StreamInv'
<1>0. frame.len \in Nat /\ frame.body \in Seq(Nat) /\ Left \in Seq(Nat)
  BY FrameAssumption DEF TypeOK, Left
<1>1. CASE Connect \/ WriteMsg
  BY <1>1 DEF Connect, WriteMsg, StreamInv, Left
<1>2. CASE ConnectFails \/ WriteFails \/ ReadEof \/ ReadTimesOut
  BY <1>2 DEF ConnectFails, WriteFails, ReadEof, ReadTimesOut, Finish, StreamInv
<1>3. CASE ReadLen
  <2>1. /\ buf = <<>> /\ wire \o unsent = <<frame.len>> \o frame.body
        /\ wire # <<>> /\ wire' = Tail(wire)
        /\ UNCHANGED <<frame, unsent, buf>>
    BY <1>3 DEF ReadLen, StreamInv, Left
  <2>2. Head(wire) = frame.len /\ Left' = frame.body
    <3>1. wire \in Seq(Nat) /\ unsent \in Seq(Nat)
      BY DEF TypeOK
    <3>2. Head(wire) = frame.len /\ Tail(wire) \o unsent = frame.body
      <4>1. wire # <<>> /\ wire \o unsent = <<frame.len>> \o frame.body
        BY <2>1
      <4>2. Head(wire \o unsent) = Head(wire) /\ Tail(wire \o unsent) = Tail(wire) \o unsent
        BY <3>1, <4>1, Taken
      <4>3. /\ Head(<<frame.len>> \o frame.body) = frame.len
            /\ Tail(<<frame.len>> \o frame.body) = frame.body
        BY <1>0, Announced
      <4> QED
        BY <4>1, <4>2, <4>3
    <3> QED
      BY <2>1, <3>2 DEF Left
  <2>3. CASE Head(wire) > MaxMsg
    BY <1>3, <2>3 DEF ReadLen, Finish, StreamInv
  <2>4. CASE ~(Head(wire) > MaxMsg)
    <3>1. need' = frame.len
      BY <1>3, <2>2, <2>4 DEF ReadLen
    <3>2. CASE need' = 0
      <4>1. phase' = "done" /\ buf' = <<>> /\ frame'.len = 0 /\ frame' = frame
        BY <1>3, <2>1, <2>4, <3>1, <3>2 DEF ReadLen, Finish
      <4>2. SubSeq(frame.body, 1, 0) = <<>> /\ 0 <= Len(frame.body)
        BY <1>0
      <4> QED
        BY <4>1, <4>2 DEF StreamInv
    <3>3. CASE need' # 0
      <4>1. phase' = "read_body" /\ outcome' = outcome
        BY <1>3, <2>4, <3>3 DEF ReadLen
      <4>2. outcome # "complete"
        BY <1>3 DEF ReadLen, StreamInv
      <4>3. <<>> \o frame.body = frame.body
        BY <1>0
      <4> QED
        BY <2>1, <2>2, <3>1, <4>1, <4>2, <4>3 DEF StreamInv
    <3> QED
      BY <3>2, <3>3
  <2> QED
    BY <2>3, <2>4
<1>4. CASE ReadBody
  <2>1. PICK n \in 1 .. Len(wire) :
          /\ buf' = buf \o SubSeq(wire, 1, n)
          /\ wire' = SubSeq(wire, n + 1, Len(wire))
    BY <1>4 DEF ReadBody
  <2>2. /\ need = frame.len /\ buf \o Left = frame.body /\ outcome # "complete"
        /\ UNCHANGED <<frame, unsent, need>>
    BY <1>4 DEF ReadBody, StreamInv
  <2>3. buf' \o Left' = frame.body
    BY <2>1, <2>2, Moved DEF TypeOK, Left
  <2>4. buf' \in Seq(Nat) /\ Left' \in Seq(Nat)
    <3>1. buf \in Seq(Nat) /\ wire \in Seq(Nat) /\ unsent \in Seq(Nat)
      BY DEF TypeOK
    <3>2. SubSeq(wire, 1, n) \in Seq(Nat) /\ SubSeq(wire, n + 1, Len(wire)) \in Seq(Nat)
      BY <3>1
    <3> QED
      BY <2>1, <2>2, <3>1, <3>2 DEF Left
  <2>5. CASE Len(buf') = need
    <3>1. phase' = "done"
      BY <1>4, <2>5 DEF ReadBody, Finish
    <3>2. buf' = SubSeq(frame.body, 1, frame.len) /\ frame.len <= Len(frame.body)
      <4>1. Len(buf') = frame.len
        BY <2>2, <2>5
      <4>2. buf' = SubSeq(buf' \o Left', 1, frame.len) /\ frame.len <= Len(buf' \o Left')
        BY <1>0, <2>4, <4>1, Complete
      <4> QED
        BY <2>2, <2>3, <4>2
    <3> QED
      BY <2>2, <2>5, <3>1, <3>2 DEF StreamInv
  <2>6. CASE Len(buf') # need
    <3>1. phase' = "read_body" /\ outcome' = outcome
      BY <1>4, <2>6 DEF ReadBody
    <3> QED
      BY <2>2, <2>3, <3>1 DEF StreamInv
  <2> QED
    BY <2>5, <2>6
<1>5. CASE ReadPart \/ OtherConnects \/ AcceptOther \/ Accept \/ Close \/ Tick
  BY <1>5 DEF ReadPart, OtherConnects, AcceptOther, Accept, Close, Tick, StreamInv, Left
<1>6. CASE Send
  <2>1. Left' = Left
    BY <1>6, Delivered DEF Send, TypeOK, Left
  <2> QED
    BY <1>6, <2>1 DEF Send, StreamInv
<1> QED
  BY <1>1, <1>2, <1>3, <1>4, <1>5, <1>6 DEF Next, ClientNext, AgentNext

-----------------------------------------------------------------------------
(* Fields of a reply.                                                        *)

ReadError == {"UnexpectedEof", "InvalidData"}

LEMMA EncodedString == ASSUME NEW b \in Seq(Nat) PROVE EncodeString(b) \in Seq(Nat)
<1>1. <<Len(b)>> \in Seq(Nat)
  OBVIOUS
<1> QED
  BY <1>1 DEF EncodeString

\* A field is read as it was written, and what is left follows it; a field that
\* is not is an error of one of two kinds, and leaves nothing.
LEMMA FieldRead ==
  ASSUME NEW cells \in Seq(Nat)
  PROVE  LET field == ReadSshBytes[cells] IN
         /\ field.val \in Seq(Nat) /\ field.rest \in Seq(Nat)
         /\ field = [err |-> field.err, val |-> field.val, rest |-> field.rest]
         /\ \/ field.err = "none" /\ cells = EncodeString(field.val) \o field.rest
            \/ field.err \in ReadError /\ field.val = <<>> /\ field.rest = <<>>
<1> DEFINE field == ReadSshBytes[cells]
           n == Head(cells)
           rest == Tail(cells)
           x == SubSeq(rest, 1, n)
           y == SubSeq(rest, n + 1, Len(rest))
<1>1. CASE cells = <<>>
  BY <1>1 DEF ReadSshBytes, ReadU32, Err, ReadError
<1>2. CASE cells # <<>>
  <2>1. n \in Nat /\ rest \in Seq(Nat) /\ cells = <<n>> \o rest
    BY <1>2
  <2>2. field = IF n > MaxString THEN Err("InvalidData")
                ELSE IF Len(rest) < n THEN Err("UnexpectedEof") ELSE Got(x, y)
    BY <1>2 DEF ReadSshBytes, ReadU32, Got
  <2>3. ASSUME NEW e \in ReadError, field = Err(e)
        PROVE  /\ field.val = <<>> /\ field.rest = <<>> /\ field.err \in ReadError
               /\ field = [err |-> field.err, val |-> field.val, rest |-> field.rest]
    <3> HIDE DEF field
    <3> QED
      BY <2>3 DEF Err
  <2>4. CASE ~(Len(rest) < n) /\ field = Got(x, y)
    <3> HIDE DEF n, rest, field
    <3>1. x \in Seq(Nat) /\ y \in Seq(Nat) /\ Len(x) = n /\ Len(rest) \in Nat
      BY <2>1, <2>4
    <3>2. x \o y = rest
      <4>1. CASE n = 0
        <5>1. x = <<>> /\ y = SubSeq(rest, 1, Len(rest))
          BY <2>1, <4>1
        <5>2. y = rest /\ <<>> \o rest = rest
          BY <2>1, <5>1, SubSeqFull
        <5> QED
          BY <5>1, <5>2
      <4>2. CASE n # 0
        <5>1. n \in 1 .. Len(rest)
          BY <2>1, <2>4, <3>1, <4>2
        <5>2. 1 \in 1 .. Len(rest) + 1 /\ n \in 1 - 1 .. Len(rest) /\ Len(rest) \in n .. Len(rest)
          BY <3>1, <5>1
        <5>3. x \o y = SubSeq(rest, 1, Len(rest))
          BY <2>1, <5>2, ConcatAdjacentSubSeq
        <5> QED
          BY <2>1, <5>3, SubSeqFull
      <4> QED
        BY <4>1, <4>2
    <3> HIDE DEF x, y
    <3>3. <<Len(x)>> \in Seq(Nat)
      BY <3>1
    <3>4. Associates(<<Len(x)>>, x, y)
      BY <3>1, <3>3, Assoc
    <3>5. cells = EncodeString(x) \o y
      BY <2>1, <3>1, <3>2, <3>4 DEF EncodeString, Associates
    <3>6. field.err = "none" /\ field.val = x /\ field.rest = y
      BY <2>4 DEF Got
    <3>7. field = [err |-> field.err, val |-> field.val, rest |-> field.rest]
      BY <2>4 DEF Got
    <3> QED
      BY <3>1, <3>5, <3>6, <3>7 DEF field
  <2>5. <<>> \in Seq(Nat) /\ "InvalidData" \in ReadError /\ "UnexpectedEof" \in ReadError
    BY DEF ReadError
  <2>6. CASE field = Err("InvalidData")
    BY <2>3, <2>5, <2>6
  <2>7. CASE field = Err("UnexpectedEof")
    BY <2>3, <2>5, <2>7
  <2> QED
    BY <2>2, <2>4, <2>6, <2>7
<1> QED
  BY <1>1, <1>2

\* After m cells, a body has this field: its length, and then its cells.
HasField(s, m, a) ==
  /\ m + 1 \in DOMAIN s /\ s[m + 1] = Len(a)
  /\ \A i \in 1 .. Len(a) : m + 1 + i \in DOMAIN s /\ s[m + 1 + i] = a[i]

LEMMA FieldAt ==
  ASSUME NEW p \in Seq(Nat), NEW a \in Seq(Nat), NEW r \in Seq(Nat)
  PROVE  HasField(p \o (EncodeString(a) \o r), Len(p), a)
<1> DEFINE m == Len(p)
           k == Len(a)
           e == EncodeString(a)
           u == e \o r
           s == p \o u
           n == Len(r)
<1>1. m \in Nat /\ k \in Nat /\ n \in Nat
  OBVIOUS
<1>2. e \in Seq(Nat) /\ Len(e) = k + 1 /\ e[1] = k /\ \A i \in 1 .. k : e[i + 1] = a[i]
  BY EncodedString DEF EncodeString
<1> HIDE DEF e
<1>3. /\ u \in Seq(Nat) /\ Len(u) = Len(e) + n
      /\ \A i \in 1 .. Len(e) + n : u[i] = IF i <= Len(e) THEN e[i] ELSE r[i - Len(e)]
  <2> HIDE DEF m, k
  <2> QED
    BY <1>2, ConcatProperties
<1> HIDE DEF u, n
<1>4. Len(u) = k + 1 + n /\ \A i \in 1 .. k + 1 : u[i] = e[i]
  <2>1. Len(e) = k + 1 /\ k \in Nat /\ n \in Nat
    BY <1>1, <1>2
  <2> QED
    BY <1>3, <2>1
<1>5. /\ s \in Seq(Nat) /\ Len(s) = Len(p) + Len(u)
      /\ \A i \in 1 .. Len(p) + Len(u) : s[i] = IF i <= Len(p) THEN p[i] ELSE u[i - Len(p)]
  BY <1>3, ConcatProperties
<1> HIDE DEF s, k, m
<1>6. /\ DOMAIN s = 1 .. m + (k + 1 + n)
      /\ \A i \in 1 .. m + (k + 1 + n) : s[i] = IF i <= m THEN p[i] ELSE u[i - m]
  BY <1>4, <1>5, LenProperties DEF m
<1>7. \A j \in 1 .. k + 1 : m + j \in DOMAIN s /\ s[m + j] = u[j]
  <2> SUFFICES ASSUME NEW j \in 1 .. k + 1 PROVE m + j \in DOMAIN s /\ s[m + j] = u[j]
    OBVIOUS
  <2>1. m + j \in 1 .. m + (k + 1 + n) /\ ~(m + j <= m) /\ (m + j) - m = j
    BY <1>1
  <2> QED
    BY <1>6, <2>1
<1>8. \A i \in 1 .. k : i + 1 \in 1 .. k + 1 /\ m + (i + 1) = m + 1 + i
  BY <1>1
<1>9. 1 \in 1 .. k + 1
  BY <1>1
<1> QED
  BY <1>1, <1>2, <1>4, <1>7, <1>8, <1>9 DEF HasField, s, u, e, k, m

\* Two bodies that agree have the same field where both have one.
LEMMA SameField ==
  ASSUME NEW p \in Seq(Nat), NEW a \in Seq(Nat), NEW b \in Seq(Nat),
         NEW r \in Seq(Nat), NEW w \in Seq(Nat),
         Agree(p \o (EncodeString(a) \o r), p \o (EncodeString(b) \o w))
  PROVE  a = b
<1> DEFINE s == p \o (EncodeString(a) \o r)
           t == p \o (EncodeString(b) \o w)
           m == Len(p)
<1>1. Agree(s, t) /\ HasField(s, m, a) /\ HasField(t, m, b)
  BY FieldAt
<1> HIDE DEF s, t, m
<1>2. Len(a) = Len(b)
  BY <1>1 DEF Agree, HasField
<1>3. \A i \in 1 .. Len(a) : a[i] = b[i]
  BY <1>1, <1>2 DEF Agree, HasField
<1> QED
  BY <1>2, <1>3, SeqEqual
-----------------------------------------------------------------------------
(* The loop over the identities of a list.                                   *)

Identity  == [blob : Seq(Nat), comment : Seq(Nat)]
ListState == {acc \in [err : {"none"} \cup ReadError, val : Seq(Seq(Nat)), rest : Seq(Nat)] :
                acc.err # "none" => acc.val = <<>>}

LEMMA KeptType ==
  ASSUME NEW ids \in Seq(Seq(Nat)), NEW blob \in Seq(Nat)
  PROVE  KeepWebauthn(ids, blob) \in Seq(Seq(Nat))
BY DEF KeepWebauthn

LEMMA StartType == ASSUME NEW cells \in Seq(Nat) PROVE Got(<<>>, cells) \in ListState
BY DEF Got, ListState

LEMMA IdentityType ==
  ASSUME NEW acc \in ListState
  PROVE  ReadIdentity(acc) \in ListState
<1> DEFINE blob == ReadSshBytes[acc.rest]
           comment == ReadSshBytes[blob.rest]
<1>1. acc.rest \in Seq(Nat) /\ acc.val \in Seq(Seq(Nat))
  BY DEF ListState
<1>2. /\ blob.val \in Seq(Nat) /\ blob.rest \in Seq(Nat)
      /\ blob = [err |-> blob.err, val |-> blob.val, rest |-> blob.rest]
      /\ blob.err = "none" \/ (blob.err \in ReadError /\ blob.val = <<>> /\ blob.rest = <<>>)
  BY <1>1, FieldRead
<1>3. /\ comment.val \in Seq(Nat) /\ comment.rest \in Seq(Nat)
      /\ comment = [err |-> comment.err, val |-> comment.val, rest |-> comment.rest]
      /\ comment.err = "none" \/ (comment.err \in ReadError /\ comment.val = <<>> /\ comment.rest = <<>>)
  BY <1>2, FieldRead
<1>4. \A e \in ReadError : [err |-> e, val |-> <<>>, rest |-> <<>>] \in ListState
  BY DEF ListState
<1>5. Err("InvalidData") \in ListState
  BY <1>4 DEF Err, ReadError
<1>6. blob.err = "none" \/ blob \in ListState
  <2> HIDE DEF blob
  <2> QED
    BY <1>2, <1>4
<1>7. comment.err = "none" \/ comment \in ListState
  <2> HIDE DEF comment
  <2> QED
    BY <1>3, <1>4
<1>8. Got(KeepWebauthn(acc.val, blob.val), comment.rest) \in ListState
  <2>1. KeepWebauthn(acc.val, blob.val) \in Seq(Seq(Nat))
    BY <1>1, <1>2, KeptType
  <2> HIDE DEF blob, comment
  <2> QED
    BY <1>3, <2>1 DEF Got, ListState
<1> QED
  BY <1>5, <1>6, <1>7, <1>8 DEF ReadIdentity

\* A turn that succeeds on cells that agree with an identity reads this one.
IsNext(p, acc, id, w) == Agree(p \o acc.rest, (p \o EncodeIdentity(id)) \o w)

IsRead(p, acc, id) ==
  /\ ReadIdentity(acc).val = KeepWebauthn(acc.val, id.blob)
  /\ p \o acc.rest = (p \o EncodeIdentity(id)) \o ReadIdentity(acc).rest

LEMMA IdentityRead ==
  ASSUME NEW acc \in ListState, acc.err = "none", NEW id \in Identity,
         NEW p \in Seq(Nat), NEW w \in Seq(Nat), IsNext(p, acc, id, w),
         ReadIdentity(acc).err = "none"
  PROVE  IsRead(p, acc, id)
<1> DEFINE blob == ReadSshBytes[acc.rest]
           comment == ReadSshBytes[blob.rest]
           a == EncodeString(blob.val)
           b == EncodeString(comment.val)
           c == EncodeString(id.blob)
           d == EncodeString(id.comment)
<1>1. blob.err = "none" /\ comment.err = "none"
  BY DEF ReadIdentity
<1>2. ReadIdentity(acc) = Got(KeepWebauthn(acc.val, blob.val), comment.rest)
  BY <1>1 DEF ReadIdentity, Err
<1>3. acc.rest \in Seq(Nat) /\ id.blob \in Seq(Nat) /\ id.comment \in Seq(Nat)
  BY DEF ListState, Identity
<1>4. blob.val \in Seq(Nat) /\ blob.rest \in Seq(Nat) /\ acc.rest = a \o blob.rest
  BY <1>1, <1>3, FieldRead DEF ReadError
<1>5. comment.val \in Seq(Nat) /\ comment.rest \in Seq(Nat) /\ blob.rest = b \o comment.rest
  BY <1>1, <1>4, FieldRead DEF ReadError
<1>6. a \in Seq(Nat) /\ b \in Seq(Nat) /\ c \in Seq(Nat) /\ d \in Seq(Nat)
  BY <1>3, <1>4, <1>5, EncodedString
<1> HIDE DEF a, b, c, d
<1>7. \A v \in Seq(Nat) : (p \o EncodeIdentity(id)) \o v = p \o (c \o (d \o v))
  <2>1. EncodeIdentity(id) = c \o d
    BY DEF EncodeIdentity, c, d
  <2>2. ASSUME NEW v \in Seq(Nat) PROVE (p \o (c \o d)) \o v = p \o (c \o (d \o v))
    <3>1. Regroups(p, c, d, v)
      BY <1>6, Regrouped
    <3> QED
      BY <3>1 DEF Regroups
  <2> QED
    BY <2>1, <2>2
<1>8. blob.val = id.blob
  <2>1. d \o w \in Seq(Nat)
    BY <1>6
  <2>2. Agree(p \o (a \o blob.rest), p \o (c \o (d \o w)))
    BY <1>4, <1>7 DEF IsNext
  <2> QED
    BY <1>3, <1>4, <2>1, <2>2, SameField DEF a, c
<1>9. a = c
  BY <1>8 DEF a, c
<1>10. comment.val = id.comment
  <2>1. p \o c \in Seq(Nat)
    BY <1>6
  <2>2. b \o comment.rest \in Seq(Nat) /\ d \o w \in Seq(Nat)
    BY <1>5, <1>6
  <2>3. Agree((p \o c) \o (b \o comment.rest), (p \o c) \o (d \o w))
    <3>1. p \o acc.rest = (p \o c) \o (b \o comment.rest)
      <4>1. p \o acc.rest = p \o (c \o (b \o comment.rest))
        BY <1>4, <1>5, <1>9
      <4>2. Associates(p, c, b \o comment.rest)
        BY <1>6, <2>2, Assoc
      <4> QED
        BY <4>1, <4>2 DEF Associates
    <3>2. (p \o EncodeIdentity(id)) \o w = (p \o c) \o (d \o w)
      <4>1. Associates(p, c, d \o w)
        BY <1>6, <2>2, Assoc
      <4>2. (p \o EncodeIdentity(id)) \o w = p \o (c \o (d \o w))
        BY <1>7
      <4> QED
        BY <4>1, <4>2 DEF Associates
    <3> QED
      BY <3>1, <3>2 DEF IsNext
  <2> QED
    BY <1>3, <1>5, <2>1, <2>3, SameField DEF b, d
<1>11. b = d
  BY <1>10 DEF b, d
<1>12. p \o acc.rest = (p \o EncodeIdentity(id)) \o comment.rest
  BY <1>4, <1>5, <1>7, <1>9, <1>11
<1>13. ReadIdentity(acc).val = KeepWebauthn(acc.val, blob.val) /\ ReadIdentity(acc).rest = comment.rest
  <2> HIDE DEF blob, comment
  <2> QED
    BY <1>2 DEF Got
<1> QED
  BY <1>8, <1>12, <1>13 DEF IsRead

(* The records of the three loops. *)

LEMMA PairType ==
  ASSUME NEW id \in Identity
  PROVE  EncodeIdentity(id) \in Seq(Nat)
<1>1. EncodeString(id.blob) \in Seq(Nat) /\ EncodeString(id.comment) \in Seq(Nat)
  BY EncodedString DEF Identity
<1> QED
  BY <1>1 DEF EncodeIdentity

LEMMA KeptRecord ==
  ASSUME NEW ids \in Seq(Identity)
  PROVE  /\ KeptOfFirst(ids) \in [0 .. Len(ids) -> Seq(Seq(Nat))]
         /\ KeptOfFirst(ids)[0] = <<>>
         /\ \A i \in 1 .. Len(ids) : KeptOfFirst(ids)[i] = KeepWebauthn(KeptOfFirst(ids)[i - 1], ids[i].blob)
<1> DEFINE m == Len(ids)
           rec == KeptOfFirst(ids)
           step == [x \in Seq(Seq(Nat)) \X (1 .. m) |-> KeepWebauthn(x[1], ids[x[2]].blob)]
           Turn(f) == [i \in 0 .. m |-> IF i = 0 THEN <<>> ELSE KeepWebauthn(f[i - 1], ids[i].blob)]
<1>1. <<>> \in Seq(Seq(Nat))
  OBVIOUS
<1>2. \A x \in Seq(Seq(Nat)), i \in 1 .. m : KeepWebauthn(x, ids[i].blob) \in Seq(Seq(Nat))
  <2>1. \A i \in 1 .. m : ids[i] \in Identity
    OBVIOUS
  <2>2. \A i \in 1 .. m : ids[i].blob \in Seq(Nat)
    BY <2>1 DEF Identity
  <2> QED
    BY <2>2, KeptType
<1>3. \A x \in Seq(Seq(Nat)), i \in 1 .. m : step[<<x, i>>] = KeepWebauthn(x, ids[i].blob)
  OBVIOUS
<1>4. step \in [Seq(Seq(Nat)) \X (1 .. m) -> Seq(Seq(Nat))]
  BY <1>2
<1>5. m \in Nat
  OBVIOUS
<1> HIDE DEF step, m
<1>6. PICK g \in [0 .. m -> Seq(Seq(Nat))] : Records(g, m, <<>>, step)
  BY <1>1, <1>4, <1>5, LoopRecord
<1>7. g[0] = <<>> /\ \A i \in 1 .. m : g[i] = KeepWebauthn(g[i - 1], ids[i].blob)
  <2>1. ASSUME NEW i \in 1 .. m PROVE g[i] = KeepWebauthn(g[i - 1], ids[i].blob)
    <3>1. g[i - 1] \in Seq(Seq(Nat))
      BY <1>5
    <3> QED
      BY <1>3, <1>6, <3>1 DEF Records
  <2> QED
    BY <1>6, <2>1 DEF Records
<1>8. g = Turn(g)
  BY <1>5, <1>7
<1> HIDE DEF Turn
<1>9. \E f : f = Turn(f)
  BY <1>8
<1>10. rec = Turn(rec)
  BY <1>9 DEF KeptOfFirst, Turn, m
<1> HIDE DEF rec
<1>11. rec = [i \in 0 .. m |-> rec[i]]
  BY <1>10 DEF Turn
<1>12. rec[0] = <<>>
  BY <1>5, <1>10 DEF Turn
<1>13. \A i \in 1 .. m : rec[i] = KeepWebauthn(rec[i - 1], ids[i].blob)
  BY <1>5, <1>10 DEF Turn
<1> DEFINE T == {i \in 0 .. m : rec[i] \in Seq(Seq(Nat))}
<1>14. 0 \in T
  <2>1. 0 \in 0 .. m
    BY <1>5
  <2> QED
    BY <1>1, <1>12, <2>1, Zenon
<1>15. ASSUME NEW i \in 1 .. m, i - 1 \in T PROVE i \in T
  BY <1>2, <1>13, <1>15
<1> HIDE DEF T
<1>16. 0 .. m \subseteq T
  BY <1>5, <1>14, <1>15, EveryTurn
<1>17. rec \in [0 .. m -> Seq(Seq(Nat))]
  BY <1>11, <1>16 DEF T
<1> QED
  BY <1>12, <1>13, <1>17 DEF rec, m

LEMMA EncodeRecord ==
  ASSUME NEW ids \in Seq(Identity)
  PROVE  /\ EncodeFirst(ids) \in [0 .. Len(ids) -> Seq(Nat)]
         /\ EncodeFirst(ids)[0] = ListHead(ids)
         /\ \A i \in 1 .. Len(ids) : EncodeFirst(ids)[i] = AddIdentity(EncodeFirst(ids)[i - 1], ids[i])
<1> DEFINE m == Len(ids)
           rec == EncodeFirst(ids)
           step == [x \in Seq(Nat) \X (1 .. m) |-> AddIdentity(x[1], ids[x[2]])]
           Turn(f) == [i \in 0 .. m |-> IF i = 0 THEN ListHead(ids) ELSE AddIdentity(f[i - 1], ids[i])]
<1>1. ListHead(ids) \in Seq(Nat)
  BY DEF ListHead, SSH_AGENT_IDENTITIES_ANSWER
<1>2. \A x \in Seq(Nat), i \in 1 .. m : AddIdentity(x, ids[i]) \in Seq(Nat)
  BY PairType DEF AddIdentity
<1>3. \A x \in Seq(Nat), i \in 1 .. m : step[<<x, i>>] = AddIdentity(x, ids[i])
  OBVIOUS
<1>4. step \in [Seq(Nat) \X (1 .. m) -> Seq(Nat)]
  BY <1>2
<1>5. m \in Nat
  OBVIOUS
<1> HIDE DEF step, m
<1>6. PICK g \in [0 .. m -> Seq(Nat)] : Records(g, m, ListHead(ids), step)
  BY <1>1, <1>4, <1>5, LoopRecord
<1>7. g[0] = ListHead(ids) /\ \A i \in 1 .. m : g[i] = AddIdentity(g[i - 1], ids[i])
  <2>1. ASSUME NEW i \in 1 .. m PROVE g[i] = AddIdentity(g[i - 1], ids[i])
    <3>1. g[i - 1] \in Seq(Nat)
      BY <1>5
    <3> QED
      BY <1>3, <1>6, <3>1 DEF Records
  <2> QED
    BY <1>6, <2>1 DEF Records
<1>8. g = Turn(g)
  BY <1>5, <1>7
<1> HIDE DEF Turn
<1>9. \E f : f = Turn(f)
  BY <1>8
<1>10. rec = Turn(rec)
  BY <1>9 DEF EncodeFirst, Turn, m
<1> HIDE DEF rec
<1>11. rec = [i \in 0 .. m |-> rec[i]]
  BY <1>10 DEF Turn
<1>12. rec[0] = ListHead(ids)
  BY <1>5, <1>10 DEF Turn
<1>13. \A i \in 1 .. m : rec[i] = AddIdentity(rec[i - 1], ids[i])
  BY <1>5, <1>10 DEF Turn
<1> DEFINE T == {i \in 0 .. m : rec[i] \in Seq(Nat)}
<1>14. 0 \in T
  <2>1. 0 \in 0 .. m
    BY <1>5
  <2> QED
    BY <1>1, <1>12, <2>1, Zenon
<1>15. ASSUME NEW i \in 1 .. m, i - 1 \in T PROVE i \in T
  BY <1>2, <1>13, <1>15
<1> HIDE DEF T
<1>16. 0 .. m \subseteq T
  BY <1>5, <1>14, <1>15, EveryTurn
<1>17. rec \in [0 .. m -> Seq(Nat)]
  BY <1>11, <1>16 DEF T
<1> QED
  BY <1>12, <1>13, <1>17 DEF rec, m

LEMMA ReadRecord ==
  ASSUME NEW n \in Nat, NEW cells \in Seq(Nat)
  PROVE  /\ ReadIdentities(n, cells) \in [0 .. n -> ListState]
         /\ ReadIdentities(n, cells)[0] = Got(<<>>, cells)
         /\ \A i \in 1 .. n : ReadIdentities(n, cells)[i] = ReadIdentity(ReadIdentities(n, cells)[i - 1])
<1> DEFINE m == n
           rec == ReadIdentities(n, cells)
           step == [x \in ListState \X (1 .. m) |-> ReadIdentity(x[1])]
           Turn(f) == [i \in 0 .. m |-> IF i = 0 THEN Got(<<>>, cells) ELSE ReadIdentity(f[i - 1])]
<1>1. Got(<<>>, cells) \in ListState
  BY StartType
<1>2. \A x \in ListState, i \in 1 .. m : ReadIdentity(x) \in ListState
  BY IdentityType
<1>3. \A x \in ListState, i \in 1 .. m : step[<<x, i>>] = ReadIdentity(x)
  OBVIOUS
<1>4. step \in [ListState \X (1 .. m) -> ListState]
  BY <1>2
<1>5. m \in Nat
  OBVIOUS
<1> HIDE DEF step, m
<1>6. PICK g \in [0 .. m -> ListState] : Records(g, m, Got(<<>>, cells), step)
  BY <1>1, <1>4, <1>5, LoopRecord
<1>7. g[0] = Got(<<>>, cells) /\ \A i \in 1 .. m : g[i] = ReadIdentity(g[i - 1])
  <2>1. ASSUME NEW i \in 1 .. m PROVE g[i] = ReadIdentity(g[i - 1])
    <3>1. g[i - 1] \in ListState
      BY <1>5
    <3> QED
      BY <1>3, <1>6, <3>1 DEF Records
  <2> QED
    BY <1>6, <2>1 DEF Records
<1>8. g = Turn(g)
  BY <1>5, <1>7
<1> HIDE DEF Turn
<1>9. \E f : f = Turn(f)
  BY <1>8
<1>10. rec = Turn(rec)
  BY <1>9 DEF ReadIdentities, Turn, m
<1> HIDE DEF rec
<1>11. rec = [i \in 0 .. m |-> rec[i]]
  BY <1>10 DEF Turn
<1>12. rec[0] = Got(<<>>, cells)
  BY <1>5, <1>10 DEF Turn
<1>13. \A i \in 1 .. m : rec[i] = ReadIdentity(rec[i - 1])
  BY <1>5, <1>10 DEF Turn
<1> DEFINE T == {i \in 0 .. m : rec[i] \in ListState}
<1>14. 0 \in T
  <2>1. 0 \in 0 .. m
    BY <1>5
  <2> QED
    BY <1>1, <1>12, <2>1, Zenon
<1>15. ASSUME NEW i \in 1 .. m, i - 1 \in T PROVE i \in T
  BY <1>2, <1>13, <1>15
<1> HIDE DEF T
<1>16. 0 .. m \subseteq T
  BY <1>5, <1>14, <1>15, EveryTurn
<1>17. rec \in [0 .. m -> ListState]
  BY <1>11, <1>16 DEF T
<1> QED
  BY <1>12, <1>13, <1>17 DEF rec, m


\* The first i of some identities are the beginning of them all.
LEMMA EncodeBegins ==
  ASSUME NEW ids \in Seq(Identity), NEW i \in 0 .. Len(ids)
  PROVE  \E w \in Seq(Nat) : EncodeIdentities(ids) = EncodeFirst(ids)[i] \o w
<1> DEFINE n == Len(ids)
           upto == EncodeFirst(ids)
           T == {j \in 0 .. n : \E w \in Seq(Nat) : upto[n] = upto[n - j] \o w}
<1>1. /\ upto \in [0 .. n -> Seq(Nat)] /\ n \in Nat
      /\ \A k \in 1 .. n : upto[k] = AddIdentity(upto[k - 1], ids[k])
  BY EncodeRecord
<1>2. \A k \in 1 .. n : EncodeIdentity(ids[k]) \in Seq(Nat)
  BY PairType
<1>3. \A c \in Seq(Nat) : c = c \o <<>> /\ <<>> \in Seq(Nat)
  OBVIOUS
<1> HIDE DEF n, upto
<1>4. 0 \in T
  <2>1. n - 0 = n /\ 0 \in 0 .. n /\ upto[n] \in Seq(Nat)
    BY <1>1
  <2> QED
    BY <1>3, <2>1, Zenon
<1>5. ASSUME NEW j \in 1 .. n, j - 1 \in T PROVE j \in T
  <2> DEFINE k == n - (j - 1)
             id == EncodeIdentity(ids[k])
             rest(w) == id \o w
  <2>1. k \in 1 .. n /\ n - j = k - 1 /\ j \in 0 .. n /\ k - 1 \in 0 .. n
    BY <1>1
  <2>2. PICK w \in Seq(Nat) : upto[n] = upto[k] \o w
    BY <1>5
  <2> HIDE DEF k
  <2>3. id \in Seq(Nat) /\ upto[k - 1] \in Seq(Nat) /\ upto[k] = upto[k - 1] \o id
    BY <1>1, <1>2, <2>1 DEF AddIdentity
  <2> HIDE DEF id
  <2>4. (upto[k - 1] \o id) \o w = upto[k - 1] \o (id \o w) /\ id \o w \in Seq(Nat)
    <3>1. (upto[k - 1] \o id) \o w = upto[k - 1] \o (id \o w)
      <4>1. Associates(upto[k - 1], id, w)
        BY <2>3, Assoc
      <4> QED
        BY <4>1 DEF Associates
    <3>2. id \o w \in Seq(Nat)
      BY <2>3
    <3> QED
      BY <3>1, <3>2
  <2>5. upto[n] = upto[n - j] \o rest(w) /\ rest(w) \in Seq(Nat)
    BY <2>1, <2>2, <2>3, <2>4
  <2> HIDE DEF rest
  <2>6. \E v \in Seq(Nat) : upto[n] = upto[n - j] \o v
    BY <2>5
  <2> QED
    BY <2>1, <2>6
<1> HIDE DEF T
<1>6. 0 .. n \subseteq T
  BY <1>1, <1>4, <1>5, EveryTurn
<1>7. n - i \in 0 .. n /\ n - (n - i) = i
  BY <1>1 DEF n
<1>8. \E w \in Seq(Nat) : upto[n] = upto[i] \o w
  BY <1>6, <1>7 DEF T
<1> QED
  BY <1>8 DEF EncodeIdentities, upto, n

\* A reply whose cells agree with a list of identities is read as this list.
LEMMA ListRead ==
  ASSUME NEW ids \in Seq(Identity), NEW response \in Seq(Nat),
         Agree(response, EncodeIdentities(ids)), ListReply(response).err = "none"
  PROVE  ListReply(response).val = WebauthnBlobs(ids)
<1> DEFINE n == response[2]
           cells == Tail(Tail(response))
           scan == ReadIdentities(n, cells)
           upto == EncodeFirst(ids)
           kept == KeptOfFirst(ids)
<1>1. response # <<>> /\ response[1] = SSH_AGENT_IDENTITIES_ANSWER
      /\ ListReply(response) = ParseIdentities(Tail(response))
  BY DEF ListReply, Err
<1>2. Tail(response) # <<>>
  BY <1>1 DEF ParseIdentities, ReadU32, Err
<1>3. /\ Len(response) >= 2 /\ n \in Nat /\ cells \in Seq(Nat) /\ Head(Tail(response)) = n
      /\ response = <<SSH_AGENT_IDENTITIES_ANSWER, n>> \o cells
  <2>1. Len(response) \in Nat /\ Len(response) >= 2
    BY <1>1, <1>2
  <2>2. n \in Nat /\ Head(Tail(response)) = n
    BY <2>1
  <2>3. /\ cells \in Seq(Nat) /\ Len(cells) = Len(response) - 2
        /\ \A i \in 1 .. Len(cells) : cells[i] = response[i + 2]
    <3> DEFINE body == Tail(response)
    <3>1. /\ body \in Seq(Nat) /\ Len(body) = Len(response) - 1
          /\ \A i \in 1 .. Len(body) : body[i] = response[i + 1]
      BY <2>1
    <3> HIDE DEF body
    <3>2. /\ Tail(body) \in Seq(Nat) /\ Len(Tail(body)) = Len(response) - 2
          /\ \A i \in 1 .. Len(Tail(body)) : Tail(body)[i] = body[i + 1]
      <4>1. body # <<>>
        BY <2>1, <3>1
      <4>2. Tail(body) \in Seq(Nat) /\ Len(Tail(body)) = Len(body) - 1
        BY <3>1, <4>1
      <4>3. \A i \in 1 .. Len(Tail(body)) : Tail(body)[i] = body[i + 1]
        BY <3>1, <4>1
      <4> QED
        BY <2>1, <3>1, <4>2, <4>3
    <3>3. ASSUME NEW i \in 1 .. Len(Tail(body)) PROVE body[i + 1] = response[i + 2]
      <4>1. i + 1 \in 1 .. Len(body) /\ (i + 1) + 1 = i + 2
        BY <2>1, <3>1, <3>2
      <4> QED
        BY <3>1, <4>1
    <3> QED
      BY <3>2, <3>3 DEF body
  <2> HIDE DEF n, cells
  <2> DEFINE whole == <<SSH_AGENT_IDENTITIES_ANSWER, n>> \o cells
  <2>4. /\ whole \in Seq(Nat) /\ Len(whole) = Len(cells) + 2
        /\ whole[1] = SSH_AGENT_IDENTITIES_ANSWER /\ whole[2] = n
        /\ \A i \in 3 .. Len(whole) : whole[i] = cells[i - 2]
    BY <2>2, <2>3 DEF SSH_AGENT_IDENTITIES_ANSWER
  <2> HIDE DEF whole
  <2>5. ASSUME NEW i \in 1 .. Len(response) PROVE whole[i] = response[i]
    <3>1. CASE i = 1
      BY <1>1, <2>4, <3>1
    <3>2. CASE i = 2
      BY <2>4, <3>2 DEF n
    <3>3. CASE i > 2
      <4>1. i \in 3 .. Len(whole) /\ i - 2 \in 1 .. Len(cells) /\ (i - 2) + 2 = i
        BY <2>1, <2>3, <2>4, <3>3
      <4> QED
        BY <2>3, <2>4, <4>1
    <3> QED
      BY <2>1, <3>1, <3>2, <3>3
  <2>6. whole = response
    <3>1. Len(whole) = Len(response)
      BY <2>1, <2>3, <2>4
    <3> QED
      BY <2>4, <2>5, <3>1, SeqEqual
  <2> QED
    BY <2>1, <2>2, <2>3, <2>6 DEF whole
<1>4. ListReply(response) = scan[n]
  BY <1>1, <1>2, <1>3 DEF ParseIdentities, ReadU32, Got
<1>5. n = Len(ids)
  <2>0. 0 \in 0 .. Len(ids)
    OBVIOUS
  <2>1. PICK w \in Seq(Nat) : EncodeIdentities(ids) = upto[0] \o w
    BY <2>0, EncodeBegins
  <2>2. upto[0] = ListHead(ids)
    BY EncodeRecord
  <2> DEFINE s == EncodeIdentities(ids)
  <2>3. 2 \in DOMAIN s /\ s[2] = Len(ids)
    BY <2>1, <2>2 DEF ListHead, SSH_AGENT_IDENTITIES_ANSWER
  <2>4. 2 \in DOMAIN response
    <3>1. Len(response) >= 2
      BY <1>3
    <3> HIDE DEF n, cells, scan, upto, kept
    <3> QED
      BY <3>1
  <2> QED
    BY <2>3, <2>4 DEF Agree
<1>6. /\ scan \in [0 .. n -> ListState]
      /\ scan[0] = Got(<<>>, cells)
      /\ \A i \in 1 .. n : scan[i] = ReadIdentity(scan[i - 1])
  BY <1>3, ReadRecord
<1>7. /\ upto \in [0 .. n -> Seq(Nat)]
      /\ upto[0] = ListHead(ids)
      /\ \A i \in 1 .. n : upto[i] = AddIdentity(upto[i - 1], ids[i])
  BY <1>5, EncodeRecord
<1>8. /\ kept[0] = <<>>
      /\ \A i \in 1 .. n : kept[i] = KeepWebauthn(kept[i - 1], ids[i].blob)
  BY <1>5, KeptRecord
<1>9. \A i \in 0 .. n : \E w \in Seq(Nat) : EncodeIdentities(ids) = upto[i] \o w
  BY <1>5, EncodeBegins
<1>10. \A i \in 1 .. n : ids[i] \in Identity
  BY <1>5
<1>11. ListHead(ids) = <<SSH_AGENT_IDENTITIES_ANSWER, n>>
  BY <1>5 DEF ListHead
<1> DEFINE Right(i) == scan[i].err = "none" =>
                         response = upto[i] \o scan[i].rest /\ scan[i].val = kept[i]
           T == {i \in 0 .. n : Right(i)}
<1> HIDE DEF n, cells, scan, upto, kept
<1>12. 0 \in T
  <2>1. scan[0].rest = cells /\ scan[0].val = <<>>
    BY <1>6 DEF Got
  <2>2. response = upto[0] \o cells
    BY <1>3, <1>7, <1>11
  <2>3. 0 \in 0 .. n
    BY <1>3
  <2> QED
    BY <1>8, <2>1, <2>2, <2>3
<1>13. ASSUME NEW i \in 1 .. n, i - 1 \in T PROVE i \in T
  <2>1. i \in 0 .. n /\ i - 1 \in 0 .. n
    BY <1>3
  <2>2. SUFFICES ASSUME scan[i].err = "none" PROVE Right(i)
    BY <2>1
  <2> DEFINE acc == scan[i - 1]
             p == upto[i - 1]
             id == ids[i]
  <2>3. acc \in ListState /\ p \in Seq(Nat) /\ id \in Identity /\ scan[i] = ReadIdentity(acc)
    BY <1>6, <1>7, <1>10, <2>1
  <2>4. acc.err = "none"
    BY <2>2, <2>3 DEF ReadIdentity
  <2>5. response = p \o acc.rest /\ acc.val = kept[i - 1]
    BY <1>13, <2>4
  <2>6. upto[i] = p \o EncodeIdentity(id) /\ kept[i] = KeepWebauthn(kept[i - 1], id.blob)
    BY <1>7, <1>8 DEF AddIdentity
  <2>7. PICK w \in Seq(Nat) : EncodeIdentities(ids) = upto[i] \o w
    BY <1>9, <2>1
  <2> HIDE DEF acc, p, id
  <2>8. IsNext(p, acc, id, w)
    BY <2>5, <2>6, <2>7 DEF IsNext
  <2>9. IsRead(p, acc, id)
    <3>1. ReadIdentity(acc).err = "none"
      BY <2>2, <2>3
    <3> QED
      BY <2>3, <2>4, <2>7, <2>8, <3>1, IdentityRead
  <2> QED
    BY <2>3, <2>5, <2>6, <2>9, Zenon DEF IsRead
<1> HIDE DEF T, Right
<1>14. n \in T
  <2>1. 0 .. n \subseteq T
    BY <1>3, <1>12, <1>13, EveryTurn
  <2> QED
    BY <1>3, <2>1
<1>15. Right(n)
  BY <1>14 DEF T
<1>16. scan[n].val = kept[n]
  BY <1>4, <1>15 DEF Right
<1> QED
  BY <1>4, <1>5, <1>16 DEF WebauthnBlobs, kept

\* A reply whose cells agree with a signature is read as this signature.
LEMMA SignRead ==
  ASSUME NEW sig \in Seq(Nat), NEW response \in Seq(Nat),
         Agree(response, EncodeSignature(sig)), SignReply(response).err = "none"
  PROVE  SignReply(response).val = sig
<1> DEFINE p == <<SSH_AGENT_SIGN_RESPONSE>>
           field == ReadSshBytes[Tail(response)]
<1>1. response # <<>> /\ response[1] = SSH_AGENT_SIGN_RESPONSE /\ SignReply(response) = field
  BY DEF SignReply, Err
<1>2. Tail(response) \in Seq(Nat) /\ response = p \o Tail(response) /\ p \in Seq(Nat)
  BY <1>1 DEF SSH_AGENT_SIGN_RESPONSE
<1>3. field.val \in Seq(Nat) /\ field.rest \in Seq(Nat)
      /\ Tail(response) = EncodeString(field.val) \o field.rest
  BY <1>1, <1>2, FieldRead DEF ReadError
<1>4. EncodeSignature(sig) = p \o (EncodeString(sig) \o <<>>) /\ <<>> \in Seq(Nat)
  <2>1. EncodeString(sig) \in Seq(Nat)
    BY EncodedString
  <2>2. EncodeString(sig) \o <<>> = EncodeString(sig)
    BY <2>1
  <2> QED
    BY <2>2 DEF EncodeSignature
<1> HIDE DEF p, field
<1>5. Agree(p \o (EncodeString(field.val) \o field.rest), p \o (EncodeString(sig) \o <<>>))
  BY <1>2, <1>3, <1>4
<1>6. field.val = sig
  BY <1>2, <1>3, <1>4, <1>5, SameField
<1> QED
  BY <1>1, <1>6
-----------------------------------------------------------------------------
(* What the client has when the exchange is done.                            *)

ReplyError == {"Other"} \cup ReadError

LEMMA ListErrors ==
  ASSUME NEW response \in Seq(Nat), ListReply(response).err # "none"
  PROVE  ListReply(response).err \in ReplyError /\ ListReply(response).val = <<>>
<1> DEFINE cells == Tail(response)
           n == Head(cells)
<1>1. \A e \in {"Other", "InvalidData", "UnexpectedEof"} :
        Err(e).err \in ReplyError /\ Err(e).val = <<>>
  BY DEF Err, ReplyError, ReadError
<1>2. CASE response = <<>> \/ response[1] # SSH_AGENT_IDENTITIES_ANSWER
  <2>1. ListReply(response) \in {Err("InvalidData"), Err("Other")}
    BY <1>2 DEF ListReply, SSH_AGENT_FAILURE, SSH_AGENT_IDENTITIES_ANSWER
  <2> QED
    BY <1>1, <2>1
<1>3. CASE response # <<>> /\ response[1] = SSH_AGENT_IDENTITIES_ANSWER /\ cells = <<>>
  <2>1. ListReply(response) = Err("UnexpectedEof")
    BY <1>3 DEF ListReply, ParseIdentities, ReadU32, Err, SSH_AGENT_FAILURE, SSH_AGENT_IDENTITIES_ANSWER
  <2> QED
    BY <1>1, <2>1
<1>4. CASE response # <<>> /\ response[1] = SSH_AGENT_IDENTITIES_ANSWER /\ cells # <<>>
  <2>1. n \in Nat /\ Tail(cells) \in Seq(Nat)
    BY <1>4
  <2>2. ListReply(response) = ReadIdentities(n, Tail(cells))[n]
    <3>1. ListReply(response) = ParseIdentities(cells)
      BY <1>4 DEF ListReply, SSH_AGENT_FAILURE, SSH_AGENT_IDENTITIES_ANSWER
    <3>2. ReadU32(cells) = Got(n, Tail(cells))
      BY <1>4 DEF ReadU32
    <3> HIDE DEF n, cells
    <3> QED
      BY <3>1, <3>2 DEF ParseIdentities, Got
  <2> HIDE DEF n, cells
  <2>3. ReadIdentities(n, Tail(cells))[n] \in ListState
    <3> DEFINE rest == Tail(cells)
    <3> HIDE DEF rest
    <3>1. rest \in Seq(Nat)
      BY <2>1 DEF rest
    <3>2. ReadIdentities(n, rest) \in [0 .. n -> ListState]
      BY <2>1, <3>1, ReadRecord
    <3>3. n \in 0 .. n
      BY <2>1
    <3>4. ReadIdentities(n, rest)[n] \in ListState
      BY <3>2, <3>3
    <3> QED
      BY <3>4 DEF rest
  <2> QED
    BY <2>2, <2>3 DEF ListState, ReplyError
<1> QED
  BY <1>2, <1>3, <1>4

LEMMA SignErrors ==
  ASSUME NEW response \in Seq(Nat), SignReply(response).err # "none"
  PROVE  /\ SignReply(response).val = <<>>
         /\ \/ SignReply(response).err \in ReplyError
            \/ SignReply(response).err = "Refused" /\ response # <<>> /\ response[1] = SSH_AGENT_FAILURE
<1> DEFINE cells == Tail(response)
<1>1. \A e \in {"Refused", "InvalidData"} : Err(e).err = e /\ Err(e).val = <<>>
  BY DEF Err
<1>2. CASE response = <<>>
  BY <1>1, <1>2 DEF SignReply, ReplyError, ReadError
<1>3. CASE response # <<>> /\ response[1] = SSH_AGENT_FAILURE
  BY <1>1, <1>3 DEF SignReply
<1>4. CASE response # <<>> /\ response[1] \notin {SSH_AGENT_FAILURE, SSH_AGENT_SIGN_RESPONSE}
  BY <1>1, <1>4 DEF SignReply, ReplyError, ReadError
<1>5. CASE response # <<>> /\ response[1] = SSH_AGENT_SIGN_RESPONSE
  <2>1. cells \in Seq(Nat)
    BY <1>5
  <2>2. SignReply(response) = ReadSshBytes[cells]
    BY <1>5 DEF SignReply, SSH_AGENT_FAILURE, SSH_AGENT_SIGN_RESPONSE
  <2> HIDE DEF cells
  <2> QED
    BY <2>1, <2>2, FieldRead DEF ReplyError
<1> QED
  BY <1>2, <1>3, <1>4, <1>5

\* A body that is complete means what the frame does.
LEMMA BodyMeans ==
  ASSUME TypeOK, StreamInv, outcome = "complete"
  PROVE  /\ buf \in Seq(Nat) /\ Len(buf) = frame.len /\ buf = SubSeq(frame.body, 1, frame.len)
         /\ Means(buf, frame.ids, frame.sig)
         /\ buf # <<>> => frame.len > 0 /\ frame.body # <<>> /\ frame.body[1] = buf[1]
<1> DEFINE body == frame.body
           n == frame.len
<1>1. /\ body \in Seq(Nat) /\ n \in Nat /\ buf \in Seq(Nat)
      /\ Len(buf) = n /\ n <= Len(body) /\ buf = SubSeq(body, 1, n)
      /\ Means(body, frame.ids, frame.sig)
  BY FrameAssumption, MeaningAssumption DEF TypeOK, StreamInv
<1> HIDE DEF body, n
<1>2. \A k \in DOMAIN buf : k \in DOMAIN body /\ buf[k] = body[k]
  BY <1>1
<1>3. \A t : Agree(body, t) => Agree(buf, t)
  BY <1>2 DEF Agree
<1>4. buf # <<>> => n > 0 /\ body # <<>> /\ body[1] = buf[1]
  BY <1>1
<1>5. Means(buf, frame.ids, frame.sig)
  BY <1>1, <1>3, <1>4 DEF Means
<1> QED
  BY <1>1, <1>4, <1>5 DEF body, n

LEMMA WholeAnswer ==
  ASSUME TypeOK, StreamInv
  PROVE  AnswerIsWhole
<1> SUFFICES ASSUME Result.err = "none"
             PROVE  Result.val = IF request = "list" THEN WebauthnBlobs(frame.ids) ELSE frame.sig
  BY DEF AnswerIsWhole
<1>1. outcome = "complete"
  BY DEF Result, Err, TypeOK
<1>2. buf \in Seq(Nat) /\ Means(buf, frame.ids, frame.sig)
  BY <1>1, BodyMeans
<1>3. frame.ids \in Seq(Identity) /\ frame.sig \in Seq(Nat)
  BY FrameAssumption DEF TypeOK, Identity
<1>4. CASE request = "list"
  <2>1. Result = ListReply(buf)
    BY <1>1, <1>4 DEF Result
  <2>2. buf # <<>> /\ buf[1] = SSH_AGENT_IDENTITIES_ANSWER
    BY <2>1 DEF ListReply, Err
  <2>3. Agree(buf, EncodeIdentities(frame.ids))
    BY <1>2, <2>2 DEF Means
  <2> QED
    BY <1>2, <1>3, <1>4, <2>1, <2>3, ListRead
<1>5. CASE request # "list"
  <2>1. Result = SignReply(buf)
    BY <1>1, <1>5 DEF Result
  <2>2. buf # <<>> /\ buf[1] = SSH_AGENT_SIGN_RESPONSE
    BY <2>1 DEF SignReply, Err
  <2>3. Agree(buf, EncodeSignature(frame.sig))
    BY <1>2, <2>2 DEF Means
  <2> QED
    BY <1>2, <1>3, <1>5, <2>1, <2>3, SignRead
<1> QED
  BY <1>4, <1>5

LEMMA Streamed == Spec => [](TypeOK /\ StreamInv)
<1>1. TypeOK /\ StreamInv /\ [Next]_vars => StreamInv'
  BY StreamStep DEF vars, StreamInv, Left
<1> QED
  BY StreamInit, <1>1, ChannelType, PTL DEF Spec

\* However the agent cuts its replies up, wherever it stops, and whatever it
\* adds to them, a list or a signature the client takes is the one the agent
\* meant (read_msg, parse_webauthn_identities, sign_raw).
THEOREM AnswersAreWhole == Spec => []AnswerIsWhole
<1>1. TypeOK /\ StreamInv => AnswerIsWhole
  BY WholeAnswer
<1> QED
  BY <1>1, Streamed, PTL

LEMMA RefusalMeant ==
  ASSUME TypeOK, StreamInv
  PROVE  RefusalIsSaid
<1> SUFFICES ASSUME Result.err = "Refused" PROVE RefusalIsSaid
  BY DEF RefusalIsSaid
<1>1. outcome = "complete"
  BY DEF Result, Err, TypeOK
<1>2. /\ buf \in Seq(Nat) /\ buf = SubSeq(frame.body, 1, frame.len)
      /\ buf # <<>> => frame.body[1] = buf[1]
  BY <1>1, BodyMeans
<1>3. request = "sign"
  <2>1. ListReply(buf).err # "Refused"
    BY <1>2, ListErrors DEF ReplyError, ReadError
  <2> QED
    BY <1>1, <2>1, ChannelAssumption DEF Result, TypeOK
<1>4. buf # <<>> /\ buf[1] = SSH_AGENT_FAILURE
  <2>1. SignReply(buf).err = "Refused"
    BY <1>1, <1>3 DEF Result
  <2> QED
    BY <1>2, <2>1, SignErrors DEF ReplyError, ReadError
<1> QED
  BY <1>2, <1>3, <1>4 DEF RefusalIsSaid

\* A refusal is what the agent said, in a reply to a sign request that arrived
\* as announced; a list that is broken in any way is never one (sign_raw).
THEOREM RefusalsAreMeant == Spec => []RefusalIsSaid
<1>1. TypeOK /\ StreamInv => RefusalIsSaid
  BY RefusalMeant
<1> QED
  BY <1>1, Streamed, PTL
-----------------------------------------------------------------------------
(* The exchange over the stream implements the one step the hook takes it    *)
(* for.                                                                      *)

DoneInv == outcome = "pending" <=> phase # "done"

Answer  == IF request = "list" THEN WebauthnBlobs(frame.ids) ELSE frame.sig
Refuses == request = "sign" /\ frame.len > 0 /\ frame.body # <<>>
             /\ frame.body[1] = SSH_AGENT_FAILURE

\* What the hook may have when the exchange is done.
Settled ==
  outcome # "pending" =>
    Classified \in {Outcome!Got("answered", Answer), Outcome!Got("Service", <<>>),
                    Outcome!Got("InfoUnavailable", <<>>)}
      \cup {g \in {Outcome!Got("refused", <<>>)} : Refuses}

LEMMA ResultErrors ==
  ASSUME TypeOK, StreamInv, outcome # "pending", Result.err # "none"
  PROVE  Result.err \in {"TimedOut", "Refused"} \cup ReplyError /\ Result.val = <<>>
<1>1. CASE outcome # "complete"
  BY <1>1 DEF Result, Err, TypeOK, ReplyError, ReadError
<1>2. CASE outcome = "complete" /\ request = "list"
  <2>1. buf \in Seq(Nat) /\ Result = ListReply(buf)
    BY <1>2 DEF Result, TypeOK
  <2> QED
    BY <2>1, ListErrors
<1>3. CASE outcome = "complete" /\ request # "list"
  <2>1. buf \in Seq(Nat) /\ Result = SignReply(buf)
    BY <1>3 DEF Result, TypeOK
  <2> QED
    BY <2>1, SignErrors
<1> QED
  BY <1>1, <1>2, <1>3

LEMMA SettledWell ==
  ASSUME TypeOK, StreamInv
  PROVE  Settled
<1> SUFFICES ASSUME outcome # "pending"
             PROVE  Classified \in {Outcome!Got("answered", Answer), Outcome!Got("Service", <<>>),
                                    Outcome!Got("InfoUnavailable", <<>>)}
                      \cup {g \in {Outcome!Got("refused", <<>>)} : Refuses}
  BY DEF Settled
<1> DEFINE r == Result
<1>1. CASE r.err = "none"
  <2>1. r.val = Answer
    BY <1>1, WholeAnswer DEF AnswerIsWhole, Answer
  <2>2. Classified = Outcome!Got("answered", r.val)
    BY <1>1 DEF Classified, Outcome!Got
  <2> QED
    BY <2>1, <2>2
<1>2. CASE r.err = "Refused"
  <2>1. r.val = <<>>
    BY <1>2, ResultErrors
  <2>2. Classified = Outcome!Got("refused", <<>>)
    BY <1>2, <2>1 DEF Classified, Outcome!Got
  <2>3. Refuses
    <3>1. request = "sign" /\ buf # <<>> /\ frame.body[1] = SSH_AGENT_FAILURE
      BY <1>2, RefusalMeant DEF RefusalIsSaid
    <3>2. outcome = "complete"
      BY <1>2 DEF Result, Err, TypeOK
    <3>3. frame.len > 0 /\ frame.body # <<>>
      BY <3>1, <3>2, BodyMeans
    <3> QED
      BY <3>1, <3>3 DEF Refuses
  <2> QED
    BY <2>2, <2>3
<1>3. CASE r.err \notin {"none", "Refused"}
  <2>1. r.err \in {"TimedOut"} \cup ReplyError /\ r.val = <<>>
    BY <1>3, ResultErrors
  <2> HIDE DEF r
  <2>2. r.err # "pending" /\ ClassifyIoErr(r.err) \in {"Service", "InfoUnavailable"}
    BY <2>1 DEF ClassifyIoErr, ReplyError, ReadError
  <2>3. Classified = Outcome!Got(ClassifyIoErr(r.err), <<>>)
    BY <1>3, <2>1, <2>2 DEF Classified, Outcome!Got, r
  <2> QED
    BY <2>2, <2>3
<1> QED
  BY <1>1, <1>2, <1>3

\* A step leaves what the client has as it is, or ends the exchange.
LEMMA Decides ==
  ASSUME TypeOK, DoneInv, Next
  PROVE  /\ UNCHANGED <<request, frame>>
         /\ DoneInv'
         /\ \/ outcome = "pending" /\ outcome' # "pending"
            \/ UNCHANGED outcome /\ (outcome = "complete" => UNCHANGED buf)
<1>1. CASE Connect \/ WriteMsg
  BY <1>1 DEF Connect, WriteMsg, DoneInv
<1>2. CASE ConnectFails \/ WriteFails \/ ReadEof \/ ReadTimesOut
  BY <1>2 DEF ConnectFails, WriteFails, ReadEof, ReadTimesOut, Finish, DoneInv
<1>3. CASE ReadLen
  BY <1>3 DEF ReadLen, Finish, DoneInv
<1>4. CASE ReadBody
  BY <1>4 DEF ReadBody, Finish, DoneInv
<1>5. CASE ReadPart \/ OtherConnects \/ AcceptOther \/ Accept \/ Send \/ Close \/ Tick
  BY <1>5 DEF ReadPart, OtherConnects, AcceptOther, Accept, Send, Close, Tick, DoneInv
<1> QED
  BY <1>1, <1>2, <1>3, <1>4, <1>5 DEF Next, ClientNext, AgentNext

\* Every exchange over the stream is, for the hook, one step: it is decided
\* once, by the answer or the refusal the agent meant or by an error of one of
\* two classes (list_webauthn_identities, sign_raw, classify_io_err).
THEOREM EveryExchange == Spec => ImplementsExchange
<1>1. Init => DoneInv /\ Outcome!EInit
  <2> SUFFICES ASSUME Init PROVE DoneInv /\ Outcome!EInit
    OBVIOUS
  <2>1. outcome = "pending" /\ phase = "connect"
    BY DEF Init
  <2>2. Result = Err("pending")
    BY <2>1 DEF Result
  <2>3. Result.err = "pending" /\ Result.val = <<>>
    BY <2>2 DEF Err
  <2>4. Classified = [class |-> "pending", val |-> <<>>]
    BY <2>3 DEF Classified
  <2> QED
    BY <2>1, <2>4 DEF DoneInv, Outcome!EInit, Outcome!Got
<1>2. TypeOK /\ DoneInv /\ [Next]_vars => DoneInv'
  BY Decides DEF vars, DoneInv
<1>3. TypeOK /\ StreamInv => Settled
  BY SettledWell
<1>4. TypeOK /\ DoneInv /\ Settled' /\ [Next]_vars => [Outcome!ENext]_(Outcome!evars)
  <2> SUFFICES ASSUME TypeOK, DoneInv, Settled', [Next]_vars
               PROVE  Outcome!ENext \/ UNCHANGED Outcome!evars
    OBVIOUS
  <2>1. /\ UNCHANGED <<request, frame>>
        /\ \/ outcome = "pending" /\ outcome' # "pending"
           \/ UNCHANGED outcome /\ (outcome = "complete" => UNCHANGED buf)
    BY Decides DEF vars
  <2>2. UNCHANGED <<Answer, Refuses>>
    BY <2>1 DEF Answer, Refuses
  <2>3. CASE outcome = "pending" /\ outcome' # "pending"
    <3>1. Classified.class = "pending"
      BY <2>3 DEF Classified, Result, Err
    <3>2. Classified' \in Outcome!Outcomes
      BY <2>2, <2>3 DEF Settled, Outcome!Outcomes, Outcome!Got, Answer, Refuses
    <3> QED
      BY <2>2, <3>1, <3>2 DEF Outcome!ENext, Answer, Refuses
  <2>4. CASE UNCHANGED outcome /\ (outcome = "complete" => UNCHANGED buf)
    <3>1. Result' = Result
      BY <2>1, <2>4 DEF Result
    <3>2. Classified' = Classified
      BY <3>1 DEF Classified
    <3> QED
      BY <2>2, <3>2 DEF Outcome!evars, Answer, Refuses
  <2> QED
    BY <2>1, <2>3, <2>4
<1> QED
  BY <1>1, <1>2, <1>3, <1>4, Streamed, PTL DEF Spec, ImplementsExchange, Outcome!ESpec
=============================================================================
