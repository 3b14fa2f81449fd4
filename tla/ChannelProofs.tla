--------------------------- MODULE ChannelProofs ---------------------------
(***************************************************************************)
(* Proofs about module Channel, for any threads, channels, buffer lengths  *)
(* and programs whose tables name no channel twice: first the invariant,   *)
(* then that the calls of channel.cpp are operations on bounded FIFOs.     *)
(* Every step of a worker is one operation of ChannelAbstract, at the      *)
(* moment the request is completed, or a stutter.                          *)
(***************************************************************************)
EXTENDS Channel, TLAPS, SequenceTheorems

USE DEF BlockedStates, Parked, AltKinds, MayBeCompleted

(* Facts about queues: what remains of a queue when its front is dropped   *)
(* or one element is erased.                                               *)
LEMMA AfterProperties ==
    ASSUME NEW S, NEW q \in Seq(S), NEW k \in 1 .. Len(q)
    PROVE  /\ After(q, k) \in Seq(S)
           /\ Len(After(q, k)) = Len(q) - k
           /\ \A j \in 1 .. Len(q) - k : After(q, k)[j] = q[j + k]
  BY DEF After

(* A position at or after b that is not b is at or after the next one. *)
LEMMA NextPosition ==
    ASSUME NEW a \in Int, NEW b \in Int, a >= b, a # b
    PROVE  a >= b + 1
  OBVIOUS

(* Erasing one element keeps the others, in order. *)
LEMMA EraseProperties ==
    ASSUME NEW S, NEW q \in Seq(S), NEW k \in 1 .. Len(q)
    PROVE  /\ Erase(q, k) \in Seq(S)
           /\ Len(Erase(q, k)) = Len(q) - 1
           /\ \A j \in 1 .. Len(q) - 1 :
                Erase(q, k)[j] = IF j < k THEN q[j] ELSE q[j + 1]
  <1>1. Len(q) \in Nat /\ Len(q) - 1 \in Nat
    OBVIOUS
  <1>2. \A j \in 1 .. Len(q) - 1 : (IF j < k THEN q[j] ELSE q[j + 1]) \in S
    OBVIOUS
  <1>3. Erase(q, k) \in [1 .. Len(q) - 1 -> S]
    BY <1>1, <1>2 DEF Erase
  <1>4. Erase(q, k) \in Seq(S) /\ Len(Erase(q, k)) = Len(q) - 1
    BY <1>1, <1>3
  <1> QED
    BY <1>4 DEF Erase

(* The ring stays well formed. *)
LEMMA RingSend ==
    ASSUME NEW c \in Channels, NEW b \in RingType(c), NEW m \in Requests,
           b.head < BufferLen[c], b.count < BufferLen[c]
    PROVE  /\ try_send_to_buffer(c, b, m) \in RingType(c)
           /\ try_send_to_buffer(c, b, m).head = b.head
           /\ try_send_to_buffer(c, b, m).count = b.count + 1
  BY BufferLenAssumption DEF try_send_to_buffer, RingType

(* Taking a message keeps the ring well formed. *)
LEMMA RingReceive ==
    ASSUME NEW c \in Channels, NEW b \in RingType(c),
           b.head < BufferLen[c], b.count > 0
    PROVE  /\ try_receive_from_buffer(c, b) \in RingType(c)
           /\ try_receive_from_buffer(c, b).head < BufferLen[c]
           /\ try_receive_from_buffer(c, b).count = b.count - 1
  BY BufferLenAssumption DEF try_receive_from_buffer, RingType

(* The steps of a thread, one disjunct per case the proofs distinguish. *)
InCall(t, i, c) ==
    /\ pc[t] = "try"
    /\ i \in todo[t]
    /\ op[t].channels[i] = c
    /\ c # Nil
    /\ pending[t]

(* The steps of a thread, with the calls of send_data and receive_data taken apart. *)
LEMMA StepCases ==
    ASSUME NEW t \in Threads, Step(t)
    PROVE  \/ \E o \in Instructions : pc[t] = "idle" /\ Begin(t, o)
           \/ pc[t] \in {"idle", "try"} /\ Break(t)
           \/ \E i \in todo[t] : pc[t] = "try" /\ TryNotPending(t, i)
           \/ \E i, c : InCall(t, i, c) /\ i <= op[t].send_count /\ SendMatch(t, i, c)
           \/ \E i, c : InCall(t, i, c) /\ i <= op[t].send_count /\ SendBuffer(t, i, c)
           \/ \E i, c : InCall(t, i, c) /\ i <= op[t].send_count /\ SendQueue(t, i, c)
           \/ \E i, c : InCall(t, i, c) /\ ~(i <= op[t].send_count) /\ ReceiveMatch(t, i, c)
           \/ \E i, c : InCall(t, i, c) /\ ~(i <= op[t].send_count) /\ ReceiveBuffer(t, i, c)
           \/ \E i, c : InCall(t, i, c) /\ ~(i <= op[t].send_count) /\ ReceiveQueue(t, i, c)
           \/ CallbackCancel(t) \/ CallbackEnqueue(t) \/ CallReturns(t)
           \/ CancelOwn(t) \/ Poll(t) \/ Withdraw(t) \/ Park(t) \/ Dispatch(t)
  <1>1. CASE \E o \in Instructions : send(t, o) \/ recv(t, o) \/ alt(t, o) \/ nbalt(t, o)
    BY <1>1 DEF send, recv, alt, nbalt, MayIssue
  <1>2. CASE Try(t)
    <2>1. PICK i \in todo[t] : TryNil(t, i) \/ TryNotPending(t, i) \/ TryChannel(t, i)
      BY <1>2 DEF Try
    <2>2. pc[t] = "try"
      BY <1>2 DEF Try
    <2>3. CASE TryNil(t, i)
      BY <2>2, <2>3 DEF TryNil
    <2>4. CASE TryChannel(t, i)
      <3> DEFINE c == op[t].channels[i]
      <3>1. CASE i <= op[t].send_count /\ send_data(t, i, c)
        <4>1. InCall(t, i, c)
          BY <2>2, <2>4, <3>1 DEF InCall, TryChannel, send_data
        <4> HIDE DEF c
        <4> QED
          BY <3>1, <4>1 DEF send_data
      <3>2. CASE ~(i <= op[t].send_count) /\ receive_data(t, i, c)
        <4>1. InCall(t, i, c)
          BY <2>2, <2>4, <3>2 DEF InCall, TryChannel, receive_data
        <4> HIDE DEF c
        <4> QED
          BY <3>2, <4>1 DEF receive_data
      <3> QED
        BY <2>4, <3>1, <3>2 DEF TryChannel
    <2> QED
      BY <2>1, <2>2, <2>3, <2>4
  <1> QED
    BY <1>1, <1>2 DEF Step

-----------------------------------------------------------------------------
(* Types *)

(* The table of a typed thread is a sequence of channels and nil. *)
LEMMA OpType ==
    ASSUME TypeOK, NEW t \in Threads
    PROVE  /\ op[t].channels \in Seq(Channels \cup {Nil})
           /\ Len(op[t].channels) \in Nat
           /\ op[t].send_count \in Nat
           /\ \A i \in Positions(t) : op[t].channels[i] \in Channels \cup {Nil}
  <1>1. op[t] \in Instructions \cup {NoOp}
    BY DEF TypeOK, ChannelType, RegisterType, ControlType
  <1>2. CASE op[t] \in Instructions
    <2>1. op[t] \in InstructionType
      BY <1>2, InstructionsAssumption
    <2> QED
      BY <2>1 DEF InstructionType, Positions
  <1>3. CASE op[t] = NoOp
    BY <1>3 DEF NoOp, Positions
  <1> QED
    BY <1>1, <1>2, <1>3

(* Types of what one call of send_data or receive_data works on. *)
LEMMA CallType ==
    ASSUME TypeOK, TodoInv, NEW t \in Threads, NEW i, NEW c, InCall(t, i, c)
    PROVE  /\ c \in Channels /\ i \in Positions(t) /\ i \in Nat
           /\ Request(t, i) \in Requests
           /\ senders[c] \in Seq(Requests) /\ receivers[c] \in Seq(Requests)
           /\ ring[c] \in RingType(c)
  <1>1. i \in Positions(t)
    BY DEF InCall, TodoInv
  <1>2. c \in Channels /\ i \in Nat
    BY <1>1, OpType DEF InCall, Positions
  <1>3. Request(t, i) \in Requests
    BY <1>2 DEF TypeOK, ChannelType, RegisterType, ControlType, Request, Requests
  <1> QED
    BY <1>1, <1>2, <1>3 DEF TypeOK, ChannelType, RegisterType, ControlType

(* cancel_request keeps the queues typed. *)
LEMMA CancelType ==
    ASSUME TypeOK, NEW c, NEW p, cancel_request(c, p)
    PROVE  /\ senders'   \in [Channels -> Seq(Requests)]
           /\ receivers' \in [Channels -> Seq(Requests)]
  <1> USE DEF TypeOK, ChannelType, RegisterType, ControlType
  <1>1. CASE c \in Channels
    <2>1. \A q \in Seq(Requests) : \A k \in 1 .. Len(q) : Erase(q, k) \in Seq(Requests)
      BY EraseProperties
    <2>2. senders[c] \in Seq(Requests) /\ receivers[c] \in Seq(Requests)
      BY <1>1
    <2> QED
      BY ZenonT(60), <1>1, <2>1, <2>2 DEF cancel_request
  <1>2. CASE c \notin Channels
    <2>1. \A v : [senders EXCEPT ![c] = v] = senders
      BY <1>2
    <2>2. \A v : [receivers EXCEPT ![c] = v] = receivers
      BY <1>2
    <2> QED
      BY <2>1, <2>2 DEF cancel_request
  <1> QED
    BY <1>1, <1>2

(* Types after the instruction is complete. *)
LEMMA CompleteType ==
    ASSUME TypeOK, NEW t \in Threads, NEW i \in Nat, Complete(t, i)
    PROVE  /\ pc'    \in [Threads -> ControlPoints]
           /\ state' \in [Threads -> {"ready", "running", "broken"} \cup BlockedStates]
           /\ index' \in [Threads -> Nat]
           /\ todo'  \in [Threads -> SUBSET Nat]
           /\ ci'    \in [Threads -> Nat]
  BY DEF TypeOK, RegisterType, ControlType, Complete, ControlPoints

(* Types after a call that returned true. *)
LEMMA HandledType ==
    ASSUME TypeOK, NEW t \in Threads, NEW i \in Nat, Handled(t, i)
    PROVE  /\ pc'    \in [Threads -> ControlPoints]
           /\ state' \in [Threads -> {"ready", "running", "broken"} \cup BlockedStates]
           /\ index' \in [Threads -> Nat]
           /\ todo'  \in [Threads -> SUBSET Nat]
           /\ ci'    \in [Threads -> Nat]
  <1>1. CASE QueuedBefore(t)
    <2>1. /\ pc' = [pc EXCEPT ![t] = "cancel"] /\ ci' = [ci EXCEPT ![t] = 1]
          /\ UNCHANGED <<state, index, todo>>
      BY <1>1 DEF Handled
    <2>2. "cancel" \in ControlPoints
      BY DEF ControlPoints
    <2> QED
      BY <2>1, <2>2 DEF TypeOK, RegisterType, ControlType
  <1>2. CASE ~QueuedBefore(t)
    BY <1>2, CompleteType DEF Handled
  <1> QED
    BY <1>1, <1>2

(* When no table names a channel twice, the callback reports the position  *)
(* of the peer that was completed.                                         *)
LEMMA HandledPosition ==
    ASSUME DistinctTables, TypeOK, NEW t \in Threads, NEW p \in Threads, JobOK(t, p)
    PROVE  HandledIndex(p, job[t].ch) = chosen[p]
  <1>1. chosen[p] \in Positions(p) /\ op[p].channels[chosen[p]] = job[t].ch /\ job[t].ch # Nil
    BY NilAssumption DEF JobOK
  <1>2. op[p] \in Instructions
    BY <1>1 DEF NoOp, Positions, TypeOK, ControlType
  <1>3. \A j \in Positions(p) : op[p].channels[j] = job[t].ch => j = chosen[p]
    BY <1>1, <1>2 DEF DistinctTables, Positions
  <1>4. chosen[p] \in Int
    BY <1>1, OpType DEF Positions
  <1> QED
    BY <1>1, <1>3, <1>4 DEF HandledIndex

(* Every step preserves the type invariant. *)
LEMMA TypeStep ==
    ASSUME DistinctTables, TypeOK, TodoInv, JobInv, NEW t \in Threads, Step(t)
    PROVE  TypeOK'
  <1> USE NilAssumption, BufferLenAssumption
  <1>1. ASSUME NEW o \in Instructions, pc[t] = "idle", Begin(t, o) PROVE TypeOK'
    <2>1. Len(o.channels) \in Nat
      BY InstructionsAssumption DEF InstructionType
    <2> QED
      BY <1>1, <2>1 DEF TypeOK, ChannelType, RegisterType, ControlType, Begin, BlockedStateOf, chanVars, ControlPoints, RingType
  <1>2. ASSUME Break(t) PROVE TypeOK'
    BY <1>2 DEF TypeOK, ChannelType, RegisterType, ControlType, Break, chanVars, ControlPoints, RingType
  <1>3. ASSUME NEW i \in todo[t], TryNotPending(t, i) PROVE TypeOK'
    BY <1>3 DEF TypeOK, ChannelType, RegisterType, ControlType, TryNotPending, NotHandled, chanVars, ControlPoints, RingType
  <1>4. ASSUME NEW i, NEW c, InCall(t, i, c), SendMatch(t, i, c) PROVE TypeOK'
    <2>1. PICK k \in 1 .. Len(receivers[c]) : SendMatch(t, i, c)!1!(k)
      BY <1>4 DEF SendMatch
    <2>2. /\ c \in Channels /\ i \in Nat /\ receivers[c] \in Seq(Requests)
          /\ Request(t, i) \in Requests
      BY <1>4, CallType
    <2> DEFINE r == receivers[c][k]
    <2>3. r \in Requests
      BY <2>2
    <2>4. After(receivers[c], k) \in Seq(Requests)
      BY <2>2, AfterProperties
    <2>5. /\ receivers' \in [Channels -> Seq(Requests)]
          /\ got' \in [Threads -> [slot : Nat, msg : Requests \cup {Nil}] \cup {Nil}]
      BY <2>1, <2>2, <2>3, <2>4 DEF TypeOK, ChannelType, RegisterType, ControlType, Received, Requests
    <2>6. Matched(t, i, c, r) /\ UNCHANGED <<senders, ring>>
      BY <1>4, <2>1 DEF SendMatch
    <2> HIDE DEF r
    <2> QED
      BY <2>2, <2>3, <2>5, <2>6 DEF TypeOK, ChannelType, RegisterType, ControlType, Matched, Requests, ControlPoints
  <1>5. ASSUME NEW i, NEW c, InCall(t, i, c), SendBuffer(t, i, c) PROVE TypeOK'
    <2>1. /\ c \in Channels /\ i \in Nat /\ ring[c] \in RingType(c)
          /\ Request(t, i) \in Requests
      BY <1>5, CallType
    <2>2. ring[c].head < BufferLen[c] /\ ring[c].count < BufferLen[c]
      BY <1>5, <2>1 DEF SendBuffer, HasRoom, TypeOK, ChannelType, RegisterType, ControlType, RingType
    <2> DEFINE new == try_send_to_buffer(c, ring[c], Request(t, i))
    <2>3. new \in RingType(c) /\ new.head = ring[c].head
      BY <2>1, <2>2, RingSend
    <2>4. ring' = [ring EXCEPT ![c] = new]
      BY <1>5 DEF SendBuffer
    <2>5. \A d \in Channels : ring'[d] \in RingType(d) /\ (ring'[d].head < BufferLen[d] \/ ring'[d].head = 0)
      <3> HIDE DEF new
      <3> QED
        BY <2>1, <2>2, <2>3, <2>4 DEF TypeOK, ChannelType, RegisterType, ControlType
    <2>6. ChannelType'
      BY <1>5, <2>1, <2>5 DEF TypeOK, ChannelType, SendBuffer
    <2>7. /\ pending' = [pending EXCEPT ![t] = FALSE] /\ chosen' = [chosen EXCEPT ![t] = i]
          /\ Handled(t, i) /\ UNCHANGED <<got, opno, op, job>>
      BY <1>5 DEF SendBuffer
    <2>8. RegisterType' /\ ControlType'
      BY <2>1, <2>7, HandledType DEF TypeOK, RegisterType, ControlType
    <2> QED
      BY <2>6, <2>8 DEF TypeOK
  <1>6. ASSUME NEW i, NEW c, InCall(t, i, c), SendQueue(t, i, c) PROVE TypeOK'
    <2>1. c \in Channels /\ senders[c] \in Seq(Requests) /\ Request(t, i) \in Requests
      BY <1>6, CallType
    <2> QED
      <3>1. ChannelType'
        BY <1>6, <2>1 DEF TypeOK, ChannelType, SendQueue
      <3>2. RegisterType' /\ ControlType'
        BY <1>6 DEF TypeOK, RegisterType, ControlType, SendQueue, NotHandled, ControlPoints
      <3> QED
        BY <3>1, <3>2 DEF TypeOK
  <1>7. ASSUME NEW i, NEW c, InCall(t, i, c), ReceiveMatch(t, i, c) PROVE TypeOK'
    <2>1. PICK k \in 1 .. Len(senders[c]) : ReceiveMatch(t, i, c)!1!(k)
      BY <1>7 DEF ReceiveMatch
    <2>2. /\ c \in Channels /\ i \in Nat /\ senders[c] \in Seq(Requests)
          /\ ring[c] \in RingType(c)
      BY <1>7, CallType
    <2> DEFINE s == senders[c][k]
    <2>3. s \in Requests
      BY <2>2
    <2>4. After(senders[c], k) \in Seq(Requests)
      BY <2>2, AfterProperties
    <2>5. senders' \in [Channels -> Seq(Requests)]
      BY <2>1, <2>2, <2>4 DEF TypeOK, ChannelType, RegisterType, ControlType
    <2>6. Matched(t, i, c, s) /\ UNCHANGED receivers
      BY <1>7, <2>1 DEF ReceiveMatch
    <2>7. /\ got' \in [Threads -> [slot : Nat, msg : Requests \cup {Nil}] \cup {Nil}]
          /\ \A d \in Channels : ring'[d] \in RingType(d) /\ (ring'[d].head < BufferLen[d] \/ ring'[d].head = 0)
      <3>1. CASE HasData(c)
        <4>1. ring[c].head < BufferLen[c] /\ ring[c].count > 0
          BY <2>2, <3>1 DEF HasData, TypeOK, ChannelType, RegisterType, ControlType, RingType
        <4> DEFINE mid == try_receive_from_buffer(c, ring[c])
                   new == try_send_to_buffer(c, mid, s)
        <4>2. /\ mid \in RingType(c) /\ mid.head < BufferLen[c]
              /\ mid.count = ring[c].count - 1
          BY <2>2, <4>1, RingReceive
        <4>3. mid.count < BufferLen[c]
          BY <2>2, <4>1, <4>2 DEF RingType
        <4>4. new \in RingType(c) /\ new.head < BufferLen[c]
          <5> HIDE DEF mid
          <5> QED
            BY <2>2, <2>3, <4>2, <4>3, RingSend
        <4>5. ring' = [ring EXCEPT ![c] = new]
          BY <2>1, <3>1
        <4>6. got' = [got EXCEPT ![t] = Received(t, i, Oldest(c))]
          BY <2>1, <3>1
        <4>7. Oldest(c) \in Requests \cup {Nil}
          BY <2>2, <4>1 DEF Oldest, RingType
        <4>8. got' \in [Threads -> [slot : Nat, msg : Requests \cup {Nil}] \cup {Nil}]
          BY <2>2, <4>6, <4>7 DEF TypeOK, ChannelType, RegisterType, ControlType, Received
        <4> HIDE DEF new
        <4> QED
          BY <2>2, <4>4, <4>5, <4>8 DEF TypeOK, ChannelType, RegisterType, ControlType
      <3>2. CASE ~HasData(c)
        <4>1. ring' = ring /\ got' = [got EXCEPT ![t] = Received(t, i, s)]
          BY <2>1, <3>2
        <4> QED
          BY <2>2, <2>3, <4>1 DEF TypeOK, ChannelType, RegisterType, ControlType, Received
      <3> QED
        BY <3>1, <3>2
    <2> HIDE DEF s
    <2> QED
      BY <2>2, <2>3, <2>5, <2>6, <2>7 DEF TypeOK, ChannelType, RegisterType, ControlType, Matched, Requests, ControlPoints
  <1>8. ASSUME NEW i, NEW c, InCall(t, i, c), ReceiveBuffer(t, i, c) PROVE TypeOK'
    <2>1. c \in Channels /\ i \in Nat /\ ring[c] \in RingType(c)
      BY <1>8, CallType
    <2>2. ring[c].head < BufferLen[c] /\ ring[c].count > 0
      BY <1>8, <2>1 DEF ReceiveBuffer, HasData, TypeOK, ChannelType, RegisterType, ControlType, RingType
    <2> DEFINE new == try_receive_from_buffer(c, ring[c])
    <2>3. new \in RingType(c) /\ new.head < BufferLen[c]
      BY <2>1, <2>2, RingReceive
    <2>4. ring' = [ring EXCEPT ![c] = new]
      BY <1>8 DEF ReceiveBuffer
    <2>5. \A d \in Channels : ring'[d] \in RingType(d) /\ (ring'[d].head < BufferLen[d] \/ ring'[d].head = 0)
      <3> HIDE DEF new
      <3> QED
        BY <2>1, <2>2, <2>3, <2>4 DEF TypeOK, ChannelType, RegisterType, ControlType
    <2>6. Oldest(c) \in Requests \cup {Nil}
      BY <2>1, <2>2 DEF Oldest, RingType
    <2>7. got' \in [Threads -> [slot : Nat, msg : Requests \cup {Nil}] \cup {Nil}]
      BY <1>8, <2>1, <2>6 DEF ReceiveBuffer, TypeOK, ChannelType, RegisterType, ControlType, Received
    <2>8. ChannelType'
      BY <1>8, <2>1, <2>5 DEF TypeOK, ChannelType, ReceiveBuffer
    <2>9. /\ pending' = [pending EXCEPT ![t] = FALSE] /\ chosen' = [chosen EXCEPT ![t] = i]
          /\ Handled(t, i) /\ UNCHANGED <<opno, op, job>>
      BY <1>8 DEF ReceiveBuffer
    <2>10. RegisterType' /\ ControlType'
      BY <2>1, <2>7, <2>9, HandledType DEF TypeOK, RegisterType, ControlType
    <2> QED
      BY <2>8, <2>10 DEF TypeOK
  <1>9. ASSUME NEW i, NEW c, InCall(t, i, c), ReceiveQueue(t, i, c) PROVE TypeOK'
    <2>1. c \in Channels /\ receivers[c] \in Seq(Requests) /\ Request(t, i) \in Requests
      BY <1>9, CallType
    <2> QED
      BY SMTT(40), <1>9, <2>1 DEF TypeOK, ChannelType, RegisterType, ControlType, ReceiveQueue, NotHandled, ControlPoints
  <1>10. ASSUME CallbackCancel(t) PROVE TypeOK'
    <2>1. /\ senders'   \in [Channels -> Seq(Requests)]
          /\ receivers' \in [Channels -> Seq(Requests)]
      BY <1>10, CancelType DEF CallbackCancel, CancelAt, TypeOK, ChannelType, RegisterType, ControlType
    <2> QED
      <3>1. ChannelType'
        BY <1>10, <2>1 DEF TypeOK, ChannelType, CallbackCancel
      <3>2. RegisterType'
        BY <1>10 DEF TypeOK, RegisterType, CallbackCancel, regVars
      <3>3. ControlType'
        BY SMTT(40), <1>10 DEF TypeOK, ControlType, CallbackCancel, ControlPoints
      <3> QED
        BY <3>1, <3>2, <3>3 DEF TypeOK
  <1>11. ASSUME CallbackEnqueue(t) PROVE TypeOK'
    <2> DEFINE p == job[t].thread
    <2>1. p \in Threads /\ p # t /\ JobOK(t, p)
      BY <1>11 DEF CallbackEnqueue, JobInv, JobOK
    <2>2. HandledIndex(p, job[t].ch) \in Positions(p)
      BY <2>1, HandledPosition DEF JobOK
    <2>3. HandledIndex(p, job[t].ch) \in Nat
      BY <2>2, <2>1, OpType DEF Positions
    <2>4. index' \in [Threads -> Nat]
      <3> HIDE DEF p
      <3> QED
        BY <1>11, <2>3 DEF CallbackEnqueue, TypeOK, ChannelType, RegisterType, ControlType, p
    <2> QED
      BY <1>11, <2>1, <2>4 DEF TypeOK, ChannelType, RegisterType, ControlType, CallbackEnqueue, chanVars, ControlPoints, RingType, NoJob
  <1>12. ASSUME CallReturns(t) PROVE TypeOK'
    <2>1. chosen[t] \in Nat
      BY DEF TypeOK, ControlType
    <2> QED
      BY <1>12, <2>1, HandledType DEF TypeOK, ChannelType, RegisterType, ControlType, CallReturns, chanVars
  <1>13. ASSUME CancelOwn(t) PROVE TypeOK'
    <2>1. /\ senders'   \in [Channels -> Seq(Requests)]
          /\ receivers' \in [Channels -> Seq(Requests)]
      BY <1>13, CancelType DEF CancelOwn, CancelAt, TypeOK, ChannelType, RegisterType, ControlType
    <2> QED
      <3>1. CASE CancelOwn(t)!2!1
        <4>1. ChannelType' /\ RegisterType'
          BY <1>13, <2>1, <3>1 DEF TypeOK, ChannelType, RegisterType, CancelOwn
        <4>2. "crashed" \in ControlPoints
          BY DEF ControlPoints
        <4>3. ControlType'
          <5>1. pc' \in [Threads -> ControlPoints] /\ ci' \in [Threads -> Nat]
            BY SMTT(40), <3>1, <4>2 DEF TypeOK, ControlType
          <5> QED
            BY <1>13, <3>1, <5>1 DEF TypeOK, ControlType, CancelOwn
        <4> QED
          BY <4>1, <4>3 DEF TypeOK
      <3>2. CASE Complete(t, chosen[t])
        <4>1. chosen[t] \in Nat
          BY DEF TypeOK, ControlType
        <4> QED
          BY <1>13, <2>1, <3>2, <4>1, CompleteType DEF TypeOK, ChannelType, RegisterType, ControlType, CancelOwn
      <3> QED
        BY <1>13, <3>1, <3>2 DEF CancelOwn
  <1>14. ASSUME Poll(t) PROVE TypeOK'
    <2>1. Len(op[t].channels) + 1 \in Nat
      BY OpType
    <2>2. UNCHANGED <<chanVars, state, index, got, opno, op, todo, job>>
      BY <1>14 DEF Poll
    <2>3. ChannelType'
      BY <2>2 DEF TypeOK, ChannelType, chanVars
    <2>4. RegisterType'
      BY <1>14, <2>2 DEF TypeOK, RegisterType, Poll
    <2>5. ControlType'
      <3>1. "withdraw" \in ControlPoints /\ "return" \in ControlPoints
        BY DEF ControlPoints
      <3> QED
        <4>1. pc' \in [Threads -> ControlPoints]
          BY <1>14, <3>1 DEF TypeOK, ControlType, Poll
        <4>2. chosen' \in [Threads -> Nat] /\ ci' \in [Threads -> Nat]
          <5> DEFINE n == Len(op[t].channels) + 1
          <5>1. /\ chosen' = chosen \/ chosen' = [chosen EXCEPT ![t] = n]
                /\ ci' = ci \/ ci' = [ci EXCEPT ![t] = 1]
            BY <1>14 DEF Poll
          <5>2. n \in Nat
            BY <2>1
          <5> HIDE DEF n
          <5> QED
            BY <5>1, <5>2 DEF TypeOK, ControlType
        <4> QED
          BY <2>2, <4>1, <4>2 DEF TypeOK, ControlType
    <2> QED
      BY <2>3, <2>4, <2>5 DEF TypeOK
  <1>15. ASSUME Withdraw(t) PROVE TypeOK'
    <2>1. /\ senders'   \in [Channels -> Seq(Requests)]
          /\ receivers' \in [Channels -> Seq(Requests)]
      BY <1>15, CancelType DEF Withdraw, TypeOK, ChannelType, RegisterType, ControlType
    <2> QED
      <3>1. CASE Withdraw(t)!2!1
        BY <1>15, <2>1, <3>1 DEF TypeOK, ChannelType, RegisterType, ControlType, Withdraw, ControlPoints
      <3>2. CASE Complete(t, Len(op[t].channels) + 1)
        <4>1. Len(op[t].channels) + 1 \in Nat
          BY OpType
        <4> QED
          BY <1>15, <2>1, <3>2, <4>1, CompleteType DEF TypeOK, ChannelType, RegisterType, ControlType, Withdraw
      <3> QED
        BY <1>15, <3>1, <3>2 DEF Withdraw
  <1>16. ASSUME Park(t) PROVE TypeOK'
    BY <1>16 DEF TypeOK, ChannelType, RegisterType, ControlType, Park, chanVars, regVars, ControlPoints, RingType
  <1>17. ASSUME Dispatch(t) PROVE TypeOK'
    BY <1>17 DEF TypeOK, ChannelType, RegisterType, ControlType, Dispatch, chanVars, ControlPoints, RingType
  <1> QED
    BY StepCases, <1>1, <1>2, <1>3, <1>4, <1>5, <1>6, <1>7, <1>8, <1>9, <1>10,
       <1>11, <1>12, <1>13, <1>14, <1>15, <1>16, <1>17

-----------------------------------------------------------------------------
(* Requests and the threads that wait *)

(* A channel a thread is about to try holds no request of that thread.     *)
LEMMA NoOwnRequest ==
    ASSUME DistinctTables, TypeOK, TodoInv, NEW t \in Threads, NEW i, NEW c,
           InCall(t, i, c), NEW r, RequestOK(r, c)
    PROVE  r.thread # t
  <1>1. i \in Positions(t) /\ i \in todo[t] /\ op[t].channels[i] = c /\ c # Nil
    BY CallType DEF InCall
  <1>2. SUFFICES ASSUME r.thread = t PROVE FALSE
    OBVIOUS
  <1>3. r.slot \in Positions(t) /\ op[t].channels[r.slot] = c /\ r.slot \notin todo[t]
    BY <1>2 DEF RequestOK
  <1>4. op[t] \in Instructions
    BY <1>1 DEF TypeOK, ControlType, NoOp, Positions
  <1>5. r.slot = i
    BY <1>1, <1>3, <1>4 DEF DistinctTables, Positions
  <1> QED
    BY <1>1, <1>3, <1>5

(* Nobody runs the callback of a thread whose request is pending. *)
LEMMA NoCallback ==
    ASSUME JobInv, NEW t \in Threads, pending[t]
    PROVE  \A u \in Threads : pc[u] = "callback" => job[u].thread # t
  BY DEF JobInv, JobOK

(* The request a call of send_data or receive_data matches. *)
LEMMA ReceiverFound ==
    ASSUME DistinctTables, ChannelInv, NEW t \in Threads, NEW i, NEW c,
           InCall(t, i, c), NEW k \in 1 .. Len(receivers[c]),
           FirstPending(receivers[c], k)
    PROVE  /\ receivers[c][k] \in Requests
           /\ receivers[c][k].thread \in Threads \ {t}
           /\ pending[receivers[c][k].thread]
           /\ pc[receivers[c][k].thread] \in MayBeCompleted
           /\ RequestOK(receivers[c][k], c)
           /\ receivers[c][k].slot > op[receivers[c][k].thread].send_count
           /\ senders[c] = <<>>
  <1> DEFINE r == receivers[c][k]
  <1> USE DEF ChannelInv
  <1>1. c \in Channels /\ receivers[c] \in Seq(Requests) /\ r \in Requests
    BY CallType
  <1>2. r.thread \in Threads
    BY <1>1 DEF Requests
  <1>3. RequestOK(r, c) /\ r.slot > op[r.thread].send_count
    BY <1>1 DEF QueuedInv
  <1>4. r.thread # t
    BY <1>1, <1>3, NoOwnRequest
  <1>5. pending[r.thread] /\ pc[r.thread] \in MayBeCompleted
    BY <1>2 DEF FirstPending, PendingInv
  <1>6. senders[c] = <<>>
    BY <1>1 DEF NoMissedMatch
  <1> QED
    BY <1>1, <1>2, <1>3, <1>4, <1>5, <1>6

(* The same for the senders, as receive_data sees them. *)
LEMMA SenderFound ==
    ASSUME DistinctTables, ChannelInv, NEW t \in Threads, NEW i, NEW c,
           InCall(t, i, c), NEW k \in 1 .. Len(senders[c]),
           FirstPending(senders[c], k)
    PROVE  /\ senders[c][k] \in Requests
           /\ senders[c][k].thread \in Threads \ {t}
           /\ pending[senders[c][k].thread]
           /\ pc[senders[c][k].thread] \in MayBeCompleted
           /\ RequestOK(senders[c][k], c)
           /\ senders[c][k].slot <= op[senders[c][k].thread].send_count
           /\ receivers[c] = <<>> /\ ~HasRoom(c)
  <1> DEFINE r == senders[c][k]
  <1> USE DEF ChannelInv
  <1>1. c \in Channels /\ senders[c] \in Seq(Requests) /\ r \in Requests
    BY CallType
  <1>2. r.thread \in Threads
    BY <1>1 DEF Requests
  <1>3. RequestOK(r, c) /\ r.slot <= op[r.thread].send_count
    BY <1>1 DEF QueuedInv
  <1>4. r.thread # t
    BY <1>1, <1>3, NoOwnRequest
  <1>5. pending[r.thread] /\ pc[r.thread] \in MayBeCompleted
    BY <1>2 DEF FirstPending, PendingInv
  <1>6. receivers[c] = <<>> /\ ~HasRoom(c)
    BY <1>1 DEF NoMissedMatch
  <1> QED
    BY <1>1, <1>2, <1>3, <1>4, <1>5, <1>6

(* Both kinds of match, as far as the thread registers and the control     *)
(* state are concerned.                                                    *)
LEMMA MatchEffect ==
    ASSUME DistinctTables, ChannelInv, NEW t \in Threads, NEW i, NEW c,
           InCall(t, i, c),
           \/ i <= op[t].send_count /\ SendMatch(t, i, c)
           \/ ~(i <= op[t].send_count) /\ ReceiveMatch(t, i, c)
    PROVE  \E r \in Requests :
             /\ Matched(t, i, c, r)
             /\ r.thread \in Threads \ {t}
             /\ pending[r.thread]
             /\ pc[r.thread] \in MayBeCompleted
             /\ RequestOK(r, c)
  <1>1. CASE SendMatch(t, i, c)
    <2>1. PICK k \in 1 .. Len(receivers[c]) : SendMatch(t, i, c)!1!(k)
      BY <1>1 DEF SendMatch
    <2>2. FirstPending(receivers[c], k) /\ Matched(t, i, c, receivers[c][k])
      BY <2>1
    <2> QED
      BY <2>2, ReceiverFound
  <1>2. CASE ReceiveMatch(t, i, c)
    <2>1. PICK k \in 1 .. Len(senders[c]) : ReceiveMatch(t, i, c)!1!(k)
      BY <1>2 DEF ReceiveMatch
    <2>2. FirstPending(senders[c], k) /\ Matched(t, i, c, senders[c][k])
      BY <2>1
    <2> QED
      BY <2>2, SenderFound
  <1> QED
    BY <1>1, <1>2

(* The steps again, reduced to what they do to the threads. *)
MatchStep(t, i, c, r) ==
    /\ Matched(t, i, c, r)
    /\ r.thread \in Threads \ {t}
    /\ pending[r.thread]
    /\ pc[r.thread] \in MayBeCompleted
    /\ RequestOK(r, c)

BufferStep(t, i) ==
    /\ pending' = [pending EXCEPT ![t] = FALSE]
    /\ chosen'  = [chosen EXCEPT ![t] = i]
    /\ Handled(t, i)
    /\ UNCHANGED <<opno, op, job>>

QueueStep(t, i) == NotHandled(t, i) /\ UNCHANGED pending

(* The kinds of step, as they act on the control state. *)
LEMMA ControlCases ==
    ASSUME DistinctTables, ChannelInv, NEW t \in Threads, Step(t)
    PROVE  \/ \E o \in Instructions : pc[t] = "idle" /\ Begin(t, o)
           \/ pc[t] \in {"idle", "try"} /\ Break(t)
           \/ \E i \in todo[t] : pc[t] = "try" /\ QueueStep(t, i)
           \/ \E i, c : InCall(t, i, c) /\ BufferStep(t, i)
           \/ \E i, c : InCall(t, i, c) /\ \E r \in Requests : MatchStep(t, i, c, r)
           \/ CallbackCancel(t) \/ CallbackEnqueue(t) \/ CallReturns(t)
           \/ CancelOwn(t) \/ Poll(t) \/ Withdraw(t) \/ Park(t) \/ Dispatch(t)
  <1>1. ASSUME NEW i \in todo[t], pc[t] = "try", TryNotPending(t, i) PROVE QueueStep(t, i)
    BY <1>1 DEF TryNotPending, QueueStep
  <1>2. ASSUME NEW i, NEW c, InCall(t, i, c),
               \/ i <= op[t].send_count /\ SendMatch(t, i, c)
               \/ ~(i <= op[t].send_count) /\ ReceiveMatch(t, i, c)
        PROVE  \E r \in Requests : MatchStep(t, i, c, r)
    BY <1>2, MatchEffect DEF MatchStep
  <1>3. ASSUME NEW i, NEW c, InCall(t, i, c), SendBuffer(t, i, c) \/ ReceiveBuffer(t, i, c)
        PROVE  BufferStep(t, i)
    BY <1>3 DEF SendBuffer, ReceiveBuffer, BufferStep
  <1>4. ASSUME NEW i, NEW c, InCall(t, i, c), SendQueue(t, i, c) \/ ReceiveQueue(t, i, c)
        PROVE  i \in todo[t] /\ pc[t] = "try" /\ QueueStep(t, i)
    BY <1>4 DEF SendQueue, ReceiveQueue, QueueStep, InCall
  <1> QED
    BY StepCases, <1>1, <1>2, <1>3, <1>4

-----------------------------------------------------------------------------
(* One lemma per conjunct of the invariant *)

(* A request is pending only while it may be completed. *)
LEMMA PendingStep ==
    ASSUME DistinctTables, ChannelInv, NEW t \in Threads, Step(t)
    PROVE  PendingInv'
  <1> USE DEF PendingInv, ChannelInv, TypeOK, RegisterType, ControlType
  <1>1. ASSUME NEW o \in Instructions, Begin(t, o) PROVE PendingInv'
    BY <1>1 DEF Begin
  <1>2. ASSUME Break(t) PROVE PendingInv'
    BY <1>2 DEF Break
  <1>3. ASSUME NEW i \in todo[t], QueueStep(t, i) PROVE PendingInv'
    BY <1>3 DEF QueueStep, NotHandled
  <1>4. ASSUME NEW i, NEW c, BufferStep(t, i) PROVE PendingInv'
    BY <1>4 DEF BufferStep, Handled, Complete
  <1>5. ASSUME NEW i, NEW c, NEW r \in Requests, MatchStep(t, i, c, r) PROVE PendingInv'
    BY <1>5 DEF MatchStep, Matched
  <1>6. ASSUME CallbackCancel(t) PROVE PendingInv'
    BY <1>6 DEF CallbackCancel, regVars
  <1>7. ASSUME CallbackEnqueue(t) PROVE PendingInv'
    BY ZenonT(60), <1>7 DEF CallbackEnqueue, JobInv, JobOK
  <1>8. ASSUME CallReturns(t) PROVE PendingInv'
    BY <1>8 DEF CallReturns, Handled, Complete
  <1>9. ASSUME CancelOwn(t) PROVE PendingInv'
    BY <1>9 DEF CancelOwn, Complete
  <1>10. ASSUME Poll(t) PROVE PendingInv'
    BY <1>10 DEF Poll
  <1>11. ASSUME Withdraw(t) PROVE PendingInv'
    BY <1>11 DEF Withdraw, Complete
  <1>12. ASSUME Park(t) PROVE PendingInv'
    BY <1>12 DEF Park, regVars
  <1>13. ASSUME Dispatch(t) PROVE PendingInv'
    BY <1>13 DEF Dispatch
  <1> QED
    BY ControlCases, <1>1, <1>2, <1>3, <1>4, <1>5, <1>6, <1>7, <1>8, <1>9, <1>10,
       <1>11, <1>12, <1>13

(* The positions not tried yet, and the chosen one, stay in the table. *)
LEMMA TodoStep ==
    ASSUME DistinctTables, ChannelInv, NEW t \in Threads, Step(t)
    PROVE  TodoInv'
  <1> USE DEF TodoInv, Positions, ChannelInv, TypeOK, ControlType
  <1>1. ASSUME NEW o \in Instructions, Begin(t, o) PROVE TodoInv'
    BY <1>1 DEF Begin
  <1>2. ASSUME Break(t) PROVE TodoInv'
    BY <1>2 DEF Break
  <1>3. ASSUME NEW i \in todo[t], QueueStep(t, i) PROVE TodoInv'
    BY <1>3 DEF QueueStep, NotHandled
  <1>4. ASSUME NEW i, NEW c, InCall(t, i, c), BufferStep(t, i) PROVE TodoInv'
    BY <1>4 DEF InCall, BufferStep, Handled, Complete
  <1>5. ASSUME NEW i, NEW c, InCall(t, i, c), NEW r \in Requests, MatchStep(t, i, c, r)
        PROVE  TodoInv'
    BY <1>5 DEF InCall, MatchStep, Matched
  <1>6. ASSUME CallbackCancel(t) PROVE TodoInv'
    BY <1>6 DEF CallbackCancel
  <1>7. ASSUME CallbackEnqueue(t) PROVE TodoInv'
    BY <1>7 DEF CallbackEnqueue, JobInv, JobOK
  <1>8. ASSUME CallReturns(t) PROVE TodoInv'
    BY ZenonT(60), <1>8 DEF CallReturns, Handled, Complete
  <1>9. ASSUME CancelOwn(t) PROVE TodoInv'
    BY <1>9 DEF CancelOwn, Complete
  <1>10. ASSUME Poll(t) PROVE TodoInv'
    BY <1>10 DEF Poll
  <1>11. ASSUME Withdraw(t) PROVE TodoInv'
    BY <1>11 DEF Withdraw, Complete
  <1>12. ASSUME Park(t) PROVE TodoInv'
    BY <1>12 DEF Park
  <1>13. ASSUME Dispatch(t) PROVE TodoInv'
    BY <1>13 DEF Dispatch
  <1> QED
    BY ControlCases, <1>1, <1>2, <1>3, <1>4, <1>5, <1>6, <1>7, <1>8, <1>9, <1>10,
       <1>11, <1>12, <1>13

(* JobInv is kept by a step that starts no callback and does not disturb a *)
(* thread whose callback goes on.                                          *)
JobsGoOn ==
    /\ \A u \in Threads : pc'[u] = "callback" => pc[u] = "callback" /\ job'[u] = job[u]
    /\ \A u \in Threads :
        /\ pc[u] \in MayBeCompleted
        /\ ~pending[u]
        /\ \E v \in Threads : pc[v] = "callback" /\ pc'[v] = "callback" /\ job[v].thread = u
        => pc'[u] \in MayBeCompleted /\ ~pending'[u] /\ chosen'[u] = chosen[u] /\ op'[u] = op[u]

(* A callback in progress is untouched by a step of another thread that leaves the peer alone. *)
LEMMA JobFrame ==
    ASSUME JobInv, JobsGoOn
    PROVE  JobInv'
  <1> SUFFICES ASSUME NEW u \in Threads, pc'[u] = "callback"
               PROVE  JobOK(u, job[u].thread)'
    BY DEF JobInv
  <1> DEFINE q == job[u].thread
  <1>1. pc[u] = "callback" /\ job'[u] = job[u]
    BY DEF JobsGoOn
  <1>2. JobOK(u, q)
    BY <1>1 DEF JobInv
  <1>3. pc'[q] \in MayBeCompleted /\ ~pending'[q] /\ chosen'[q] = chosen[q] /\ op'[q] = op[q]
    BY <1>1, <1>2 DEF JobsGoOn, JobOK
  <1>4. \A v \in Threads \ {u} : pc'[v] = "callback" => job'[v].thread # q
    BY <1>2 DEF JobsGoOn, JobOK
  <1> QED
    BY <1>1, <1>2, <1>3, <1>4 DEF JobOK, Positions

(* What enqueue_blocked_thread does at the end of a callback. *)
LEMMA EnqueueEffect ==
    ASSUME ChannelInv, NEW t \in Threads, CallbackEnqueue(t), NEW p, p = job[t].thread
    PROVE  /\ pc[t] = "callback" /\ JobOK(t, p)
           /\ pc[p] \in {"blocked", "stopped"}
           /\ pc'[t] = "handled"
           /\ pc'[p] = IF pc[p] = "blocked" THEN "runnable" ELSE pc[p]
           /\ \A u \in Threads \ {t, p} : pc'[u] = pc[u]
           /\ \A u \in Threads \ {t} : job'[u] = job[u]
           /\ UNCHANGED <<pending, state, chosen, op>>
  <1>1. pc[t] = "callback" /\ JobOK(t, p)
    BY DEF CallbackEnqueue, ChannelInv, JobInv
  <1>2. p \in Threads /\ p # t /\ pc[p] \in {"blocked", "stopped"}
    BY <1>1 DEF JobOK, CallbackEnqueue, Owned
  <1>3. pc' = [pc EXCEPT ![p] = IF @ = "blocked" THEN "runnable" ELSE @, ![t] = "handled"]
    BY DEF CallbackEnqueue
  <1>4. job' = [job EXCEPT ![t] = NoJob] /\ UNCHANGED <<pending, state, chosen, op>>
    BY DEF CallbackEnqueue
  <1>5. pc \in [Threads -> ControlPoints] /\ job \in [Threads -> [thread : Threads \cup {Nil}, ch : Channels \cup {Nil}]]
    BY DEF ChannelInv, TypeOK, ControlType
  <1> QED
    BY <1>1, <1>2, <1>3, <1>4, <1>5

(* Every step preserves what a callback in progress relies on. *)
LEMMA JobStep ==
    ASSUME DistinctTables, ChannelInv, NEW t \in Threads, Step(t)
    PROVE  JobInv'
  <1> USE DEF ChannelInv, TypeOK, RegisterType, ControlType
  <1>0. SUFFICES JobsGoOn \/ \E i, c : InCall(t, i, c) /\ \E r \in Requests : MatchStep(t, i, c, r)
    <2>1. ASSUME NEW i, NEW c, InCall(t, i, c), NEW r \in Requests, MatchStep(t, i, c, r)
          PROVE  JobInv'
      <3> DEFINE p == r.thread
      <3>1. /\ p \in Threads \ {t} /\ pending[p] /\ pending[t] /\ pc[p] \in MayBeCompleted
            /\ r.slot \in Positions(p) /\ op[p].channels[r.slot] = c
            /\ c \in Channels
        BY <2>1, CallType DEF MatchStep, InCall, RequestOK
      <3>2. /\ pending' = [pending EXCEPT ![t] = FALSE, ![p] = FALSE]
            /\ chosen'  = [chosen EXCEPT ![t] = i, ![p] = r.slot]
            /\ job'     = [job EXCEPT ![t] = [thread |-> p, ch |-> c]]
            /\ pc'      = [pc EXCEPT ![t] = "callback"]
            /\ op' = op
        BY <2>1 DEF MatchStep, Matched
      <3> HIDE DEF p
      <3>3. /\ job'[t].thread = p /\ job'[t].ch = c
            /\ pc'[p] = pc[p] /\ ~pending'[p] /\ chosen'[p] = r.slot
        BY <3>1, <3>2
      <3>4. \A u \in Threads \ {t} : pc'[u] = "callback" =>
              /\ pc[u] = "callback" /\ job'[u] = job[u]
              /\ job[u].thread # p /\ job[u].thread # t
        BY <3>1, <3>2, NoCallback
      <3>5. \A q \in Threads \ {p, t} :
              pc'[q] = pc[q] /\ pending'[q] = pending[q] /\ chosen'[q] = chosen[q]
        BY <3>1, <3>2
      <3> SUFFICES ASSUME NEW u \in Threads, pc'[u] = "callback"
                   PROVE  JobOK(u, job[u].thread)'
        BY DEF JobInv
      <3> QED
        <4>1. CASE u = t
          BY <3>1, <3>2, <3>3, <3>4, <4>1 DEF JobOK, Positions
        <4>2. CASE u # t
          <5> DEFINE q == job[u].thread
          <5>1. pc[u] = "callback" /\ job'[u] = job[u] /\ q # p /\ q # t
            BY <3>4, <4>2
          <5>2. JobOK(u, q)
            BY <5>1 DEF JobInv
          <5>3. /\ pc'[q] = pc[q] /\ pending'[q] = pending[q] /\ chosen'[q] = chosen[q]
                /\ q \in Threads
            BY <3>5, <5>1, <5>2 DEF JobOK
          <5>4. \A v \in Threads \ {u} : pc'[v] = "callback" => job'[v].thread # q
            BY <3>3, <3>4, <5>1, <5>2 DEF JobOK
          <5> HIDE DEF q
          <5>5. job'[u].thread = q /\ job'[u].ch = job[u].ch
            BY <5>1 DEF q
          <5> QED
            BY <3>2, <5>2, <5>3, <5>4, <5>5 DEF JobOK, Positions
        <4> QED
          BY <4>1, <4>2
    <2> QED
      BY <2>1, JobFrame
  <1> USE DEF JobsGoOn
  <1>1. ASSUME NEW o \in Instructions, pc[t] = "idle", Begin(t, o) PROVE JobsGoOn
    BY <1>1 DEF Begin
  <1>2. ASSUME pc[t] \in {"idle", "try"}, Break(t) PROVE JobsGoOn
    BY <1>2 DEF Break
  <1>3. ASSUME NEW i \in todo[t], pc[t] = "try", QueueStep(t, i) PROVE JobsGoOn
    BY <1>3 DEF QueueStep, NotHandled
  <1>4. ASSUME NEW i, NEW c, InCall(t, i, c), BufferStep(t, i) PROVE JobsGoOn
    BY <1>4, NoCallback DEF InCall, BufferStep, Handled, Complete
  <1>6. ASSUME CallbackCancel(t) PROVE JobsGoOn
    BY <1>6 DEF CallbackCancel, regVars
  <1>7. ASSUME CallbackEnqueue(t) PROVE JobsGoOn
    <2> DEFINE p == job[t].thread
    <2>1. /\ pc[t] = "callback" /\ JobOK(t, p) /\ pc'[t] = "handled"
          /\ \A u \in Threads \ {t, p} : pc'[u] = pc[u]
          /\ pc'[p] # "callback"
          /\ \A u \in Threads \ {t} : job'[u] = job[u]
          /\ UNCHANGED <<pending, state, chosen, op>>
      BY <1>7, EnqueueEffect
    <2> HIDE DEF p
    <2> QED
      BY <2>1 DEF JobOK
  <1>8. ASSUME CallReturns(t) PROVE JobsGoOn
    BY <1>8 DEF CallReturns, Handled, Complete
  <1>9. ASSUME CancelOwn(t) PROVE JobsGoOn
    BY <1>9 DEF CancelOwn, Complete
  <1>10. ASSUME Poll(t) PROVE JobsGoOn
    BY SMTT(40), <1>10, NoCallback DEF Poll
  <1>11. ASSUME Withdraw(t) PROVE JobsGoOn
    BY <1>11 DEF Withdraw, Complete
  <1>12. ASSUME Park(t) PROVE JobsGoOn
    BY <1>12 DEF Park, regVars
  <1>13. ASSUME Dispatch(t) PROVE JobsGoOn
    BY <1>13 DEF Dispatch
  <1> QED
    BY ControlCases, <1>1, <1>2, <1>3, <1>4, <1>6, <1>7, <1>8, <1>9, <1>10,
       <1>11, <1>12, <1>13

(* Every step keeps a waker for each completed thread that is blocked. *)
LEMMA WakeStep ==
    ASSUME DistinctTables, ChannelInv, NEW t \in Threads, Step(t)
    PROVE  WakeInv'
  <1> USE DEF WakeInv, ChannelInv, TypeOK, RegisterType, ControlType
  <1>1. ASSUME NEW o \in Instructions, pc[t] = "idle", Begin(t, o)
        PROVE  WakeInv'
    BY ZenonT(60), <1>1 DEF Begin
  <1>2. ASSUME pc[t] \in {"idle", "try"}, Break(t) PROVE WakeInv'
    BY <1>2 DEF Break
  <1>3. ASSUME NEW i \in todo[t], pc[t] = "try", QueueStep(t, i) PROVE WakeInv'
    BY <1>3 DEF QueueStep, NotHandled
  <1>4. ASSUME NEW i, NEW c, InCall(t, i, c), BufferStep(t, i) PROVE WakeInv'
    BY <1>4 DEF InCall, BufferStep, Handled, Complete
  <1>5. ASSUME NEW i, NEW c, InCall(t, i, c), NEW r \in Requests, MatchStep(t, i, c, r)
        PROVE  WakeInv'
    BY SMTT(40), <1>5 DEF InCall, MatchStep, Matched
  <1>6. ASSUME CallbackCancel(t) PROVE WakeInv'
    BY <1>6 DEF CallbackCancel, regVars
  <1>7. ASSUME CallbackEnqueue(t) PROVE WakeInv'
    <2> DEFINE p == job[t].thread
    <2>1. /\ pc[t] = "callback" /\ JobOK(t, p) /\ pc'[t] = "handled"
          /\ pc[p] \in {"blocked", "stopped"}
          /\ pc'[p] = IF pc[p] = "blocked" THEN "runnable" ELSE pc[p]
          /\ \A u \in Threads \ {t, p} : pc'[u] = pc[u]
          /\ \A u \in Threads \ {t} : job'[u] = job[u]
          /\ UNCHANGED <<pending, state, chosen, op>>
      BY <1>7, EnqueueEffect
    <2>2. job[t].thread = p
      OBVIOUS
    <2> HIDE DEF p
    <2>3. p \in Threads /\ p # t
      BY <2>1 DEF JobOK
    <2> SUFFICES ASSUME NEW u \in Threads PROVE WakeInv!(u)'
      BY DEF WakeInv
    <2>4. CASE u = p \/ u = t
      BY <2>1, <2>3, <2>4
    <2>5. CASE u # p /\ u # t
      BY SMTT(40), <2>1, <2>2, <2>3, <2>5
    <2> QED
      BY <2>4, <2>5
  <1>8. ASSUME CallReturns(t) PROVE WakeInv'
    BY <1>8 DEF CallReturns, Handled, Complete
  <1>9. ASSUME CancelOwn(t) PROVE WakeInv'
    BY <1>9 DEF CancelOwn, Complete
  <1>10. ASSUME Poll(t) PROVE WakeInv'
    <2>1. /\ pc[t] = "poll" /\ UNCHANGED <<state, job>>
          /\ \A u \in Threads \ {t} : pc'[u] = pc[u] /\ pending'[u] = pending[u]
          /\ pending[t] => pc'[t] = "withdraw"
          /\ ~pending[t] => pc'[t] = "return" /\ ~pending'[t]
      BY <1>10 DEF Poll
    <2> QED
      BY <2>1
  <1>11. ASSUME Withdraw(t) PROVE WakeInv'
    BY <1>11 DEF Withdraw, Complete
  <1>12. ASSUME Park(t) PROVE WakeInv'
    BY <1>12 DEF Park, regVars
  <1>13. ASSUME Dispatch(t) PROVE WakeInv'
    BY <1>13 DEF Dispatch
  <1> QED
    BY ControlCases, <1>1, <1>2, <1>3, <1>4, <1>5, <1>6, <1>7, <1>8, <1>9, <1>10,
       <1>11, <1>12, <1>13

(* The answer of a thread survives a step that leaves its registers alone. *)
LEMMA AnswerFrame ==
    ASSUME AnswerInv, NEW u \in Threads, pc'[u] = pc[u], op'[u] = op[u],
           index'[u] = index[u], chosen'[u] = chosen[u], got'[u] = got[u]
    PROVE  AnswerOK(u)'
  BY DEF AnswerInv, AnswerOK, Positions

(* Every step preserves the agreement of the answer with the choice. *)
LEMMA AnswerStep ==
    ASSUME DistinctTables, ChannelInv, NEW t \in Threads, Step(t)
    PROVE  AnswerInv'
  <1> USE DEF ChannelInv, TypeOK, RegisterType, ControlType
  <1>1. ASSUME NEW o \in Instructions, pc[t] = "idle", Begin(t, o) PROVE AnswerInv'
    BY <1>1 DEF Begin, AnswerInv, AnswerOK, Positions
  <1>2. ASSUME pc[t] \in {"idle", "try"}, Break(t) PROVE AnswerInv'
    BY <1>2 DEF Break, AnswerInv, AnswerOK, Positions
  <1>3. ASSUME NEW i \in todo[t], TryNotPending(t, i) PROVE AnswerInv'
    BY <1>3 DEF TryNotPending, NotHandled, AnswerInv, AnswerOK, Positions
  <1>4. ASSUME NEW i, NEW c, InCall(t, i, c), i <= op[t].send_count, SendMatch(t, i, c)
        PROVE  AnswerInv'
    <2>1. PICK k \in 1 .. Len(receivers[c]) : SendMatch(t, i, c)!1!(k)
      BY <1>4 DEF SendMatch
    <2>0. PICK r : r = receivers[c][k]
      OBVIOUS
    <2>2. /\ r \in Requests /\ r.thread \in Threads \ {t}
          /\ pc[r.thread] \in MayBeCompleted
      BY <1>4, <2>0, <2>1, ReceiverFound
    <2>3. Matched(t, i, c, r) /\ got' = [got EXCEPT ![r.thread] = Received(r.thread, r.slot, Request(t, i))]
      BY <2>0, <2>1
    <2>4. got'[r.thread].slot = r.slot /\ \A u \in Threads \ {r.thread} : got'[u] = got[u]
      BY <2>2, <2>3 DEF Received
    <2>5. /\ op' = op /\ index' = index
          /\ pc' = [pc EXCEPT ![t] = "callback"]
          /\ chosen' = [chosen EXCEPT ![t] = i, ![r.thread] = r.slot]
      BY <2>3 DEF Matched
    <2>6. /\ pc'[t] = "callback" /\ chosen'[t] = i
          /\ pc'[r.thread] = pc[r.thread] /\ chosen'[r.thread] = r.slot
          /\ \A u \in Threads \ {t, r.thread} : pc'[u] = pc[u] /\ chosen'[u] = chosen[u]
      BY <2>2, <2>5
    <2>7. AnswerOK(t)'
      <3>1. i \in Nat /\ op[t].send_count \in Nat
        BY <1>4, CallType, OpType
      <3>2. ~(chosen'[t] > op'[t].send_count) /\ pc'[t] = "callback"
        BY <1>4, <2>5, <2>6, <3>1
      <3> QED
        BY <3>2 DEF AnswerOK, Positions
    <2>8. AnswerOK(r.thread)'
      BY <2>2, <2>4, <2>6 DEF AnswerOK, Positions
    <2>9. \A u \in Threads \ {t, r.thread} : AnswerOK(u)'
      BY <2>4, <2>5, <2>6, AnswerFrame
    <2> QED
      BY <2>7, <2>8, <2>9 DEF AnswerInv
  <1>5. ASSUME NEW i, NEW c, InCall(t, i, c), i <= op[t].send_count, SendBuffer(t, i, c)
        PROVE  AnswerInv'
    <2>1. /\ UNCHANGED <<got, op>> /\ chosen' = [chosen EXCEPT ![t] = i]
          /\ \/ pc' = [pc EXCEPT ![t] = "cancel"] /\ UNCHANGED index
             \/ /\ pc' = [pc EXCEPT ![t] = "idle"]
                /\ index' = IF op[t].kind \in AltKinds THEN [index EXCEPT ![t] = i] ELSE index
      BY <1>5 DEF SendBuffer, Handled, Complete
    <2>2. /\ chosen'[t] = i /\ pc'[t] \in {"cancel", "idle"}
          /\ pc'[t] = "idle" /\ op[t].kind \in AltKinds => index'[t] = i
          /\ \A u \in Threads \ {t} :
               pc'[u] = pc[u] /\ chosen'[u] = chosen[u] /\ index'[u] = index[u]
      BY <2>1
    <2>3. AnswerOK(t)'
      <3>1. i \in Nat /\ op[t].send_count \in Nat
        BY <1>5, CallType, OpType
      <3>2. ~(chosen'[t] > op'[t].send_count)
        BY <1>5, <2>1, <2>2, <3>1
      <3> QED
        BY <2>1, <2>2, <3>2 DEF AnswerOK, Positions
    <2>4. \A u \in Threads \ {t} : AnswerOK(u)'
      BY <2>1, <2>2, AnswerFrame
    <2> QED
      BY <2>3, <2>4 DEF AnswerInv
  <1>6. ASSUME NEW i, NEW c, SendQueue(t, i, c) PROVE AnswerInv'
    BY <1>6 DEF SendQueue, NotHandled, AnswerInv, AnswerOK, Positions
  <1>7. ASSUME NEW i, NEW c, InCall(t, i, c), ReceiveMatch(t, i, c) PROVE AnswerInv'
    <2>1. PICK k \in 1 .. Len(senders[c]) : ReceiveMatch(t, i, c)!1!(k)
      BY <1>7 DEF ReceiveMatch
    <2>0. PICK s : s = senders[c][k]
      OBVIOUS
    <2>2. /\ s \in Requests /\ s.thread \in Threads \ {t}
          /\ pc[s.thread] \in MayBeCompleted
          /\ s.slot <= op[s.thread].send_count /\ s.slot \in Nat
          /\ op[s.thread].send_count \in Nat
      BY <1>7, <2>0, <2>1, SenderFound, OpType DEF Requests
    <2>3. Matched(t, i, c, s) /\ \E m : got' = [got EXCEPT ![t] = Received(t, i, m)]
      BY <2>0, <2>1
    <2>4. got'[t].slot = i /\ \A u \in Threads \ {t} : got'[u] = got[u]
      BY <2>3 DEF Received
    <2>5. /\ op' = op /\ index' = index
          /\ pc' = [pc EXCEPT ![t] = "callback"]
          /\ chosen' = [chosen EXCEPT ![t] = i, ![s.thread] = s.slot]
      BY <2>3 DEF Matched
    <2>6. /\ pc'[t] = "callback" /\ chosen'[t] = i
          /\ pc'[s.thread] = pc[s.thread] /\ chosen'[s.thread] = s.slot
          /\ \A u \in Threads \ {t, s.thread} : pc'[u] = pc[u] /\ chosen'[u] = chosen[u]
      BY <2>2, <2>5
    <2>7. AnswerOK(t)'
      BY <2>4, <2>6 DEF AnswerOK, Positions
    <2>8. AnswerOK(s.thread)'
      <3>1. ~(chosen'[s.thread] > op'[s.thread].send_count)
        BY SMTT(40), <2>2, <2>5, <2>6
      <3> QED
        BY <2>2, <2>6, <3>1 DEF AnswerOK, Positions
    <2>9. \A u \in Threads \ {t, s.thread} : AnswerOK(u)'
      BY <2>4, <2>5, <2>6, AnswerFrame
    <2> QED
      BY <2>7, <2>8, <2>9 DEF AnswerInv
  <1>8. ASSUME NEW i, NEW c, InCall(t, i, c), ReceiveBuffer(t, i, c) PROVE AnswerInv'
    <2>1. /\ op' = op /\ chosen' = [chosen EXCEPT ![t] = i]
          /\ got' = [got EXCEPT ![t] = Received(t, i, Oldest(c))]
          /\ \/ pc' = [pc EXCEPT ![t] = "cancel"] /\ UNCHANGED index
             \/ /\ pc' = [pc EXCEPT ![t] = "idle"]
                /\ index' = IF op[t].kind \in AltKinds THEN [index EXCEPT ![t] = i] ELSE index
      BY <1>8 DEF ReceiveBuffer, Handled, Complete
    <2>2. got'[t].slot = i /\ \A u \in Threads \ {t} : got'[u] = got[u]
      BY <2>1 DEF Received
    <2>3. /\ chosen'[t] = i /\ pc'[t] \in {"cancel", "idle"}
          /\ pc'[t] = "idle" /\ op[t].kind \in AltKinds => index'[t] = i
          /\ \A u \in Threads \ {t} :
               pc'[u] = pc[u] /\ chosen'[u] = chosen[u] /\ index'[u] = index[u]
      BY <2>1
    <2>4. AnswerOK(t)'
      BY <2>1, <2>2, <2>3 DEF AnswerOK, Positions
    <2>5. \A u \in Threads \ {t} : AnswerOK(u)'
      BY <2>1, <2>2, <2>3, AnswerFrame
    <2> QED
      BY <2>4, <2>5 DEF AnswerInv
  <1>9. ASSUME NEW i, NEW c, ReceiveQueue(t, i, c) PROVE AnswerInv'
    BY <1>9 DEF ReceiveQueue, NotHandled, AnswerInv, AnswerOK, Positions
  <1>10. ASSUME CallbackCancel(t) PROVE AnswerInv'
    BY <1>10 DEF CallbackCancel, regVars, AnswerInv, AnswerOK, Positions
  <1>11. ASSUME CallbackEnqueue(t) PROVE AnswerInv'
    <2>0. PICK p : p = job[t].thread
      OBVIOUS
    <2>1. /\ JobOK(t, p)
          /\ pc'[t] = "handled" /\ \A u \in Threads \ {t, p} : pc'[u] = pc[u]
          /\ pc'[p] \in {"runnable", "stopped"}
          /\ UNCHANGED <<chosen, op>>
      BY <1>11, <2>0, EnqueueEffect
    <2>2. index' = (IF op[p].kind \in AltKinds
                    THEN [index EXCEPT ![p] = HandledIndex(p, job[t].ch)] ELSE index)
          /\ UNCHANGED got
      BY <1>11, <2>0 DEF CallbackEnqueue
    <2>3. HandledIndex(p, job[t].ch) = chosen[p]
      BY <2>1, HandledPosition DEF JobOK
    <2>4. p \in Threads /\ p # t
      BY <2>1 DEF JobOK
    <2>5. AnswerOK(t)' /\ AnswerOK(p)'
      <3>1. index'[t] = index[t] /\ (op[p].kind \in AltKinds => index'[p] = chosen[p])
        BY <2>2, <2>3, <2>4
      <3> QED
        BY <2>1, <2>2, <2>4, <3>1 DEF AnswerInv, AnswerOK, Positions
    <2>6. \A u \in Threads \ {t, p} : AnswerOK(u)'
      BY <2>1, <2>2, <2>4, AnswerFrame
    <2> QED
      BY <2>5, <2>6 DEF AnswerInv
  <1>12. ASSUME CallReturns(t) PROVE AnswerInv'
    BY <1>12 DEF CallReturns, Handled, Complete, AnswerInv, AnswerOK, Positions
  <1>13. ASSUME CancelOwn(t) PROVE AnswerInv'
    BY <1>13 DEF CancelOwn, Complete, AnswerInv, AnswerOK, Positions
  <1>14. ASSUME Poll(t) PROVE AnswerInv'
    <2>1. Len(op[t].channels) \in Nat
      BY OpType
    <2>2. CASE pending[t]
      <3>1. /\ chosen'[t] = Len(op[t].channels) + 1 /\ pc'[t] = "withdraw"
            /\ UNCHANGED <<op, index, got>>
            /\ \A u \in Threads \ {t} : pc'[u] = pc[u] /\ chosen'[u] = chosen[u]
        BY <1>14, <2>2 DEF Poll
      <3>2. AnswerOK(t)'
        BY <2>1, <3>1 DEF AnswerOK, Positions
      <3>3. \A u \in Threads \ {t} : AnswerOK(u)'
        BY <3>1, AnswerFrame
      <3> QED
        BY <3>2, <3>3 DEF AnswerInv
    <2>3. CASE ~pending[t]
      BY <1>14, <2>3 DEF Poll, AnswerInv, AnswerOK, Positions
    <2> QED
      BY <2>2, <2>3
  <1>15. ASSUME Withdraw(t) PROVE AnswerInv'
    BY <1>15 DEF Withdraw, Complete, AnswerInv, AnswerOK, Positions
  <1>16. ASSUME Park(t) PROVE AnswerInv'
    BY <1>16 DEF Park, regVars, AnswerInv, AnswerOK, Positions
  <1>17. ASSUME Dispatch(t) PROVE AnswerInv'
    BY <1>17 DEF Dispatch, AnswerInv, AnswerOK, Positions
  <1> QED
    BY StepCases, <1>1, <1>2, <1>3, <1>4, <1>5, <1>6, <1>7, <1>8, <1>9, <1>10,
       <1>11, <1>12, <1>13, <1>14, <1>15, <1>16, <1>17

-----------------------------------------------------------------------------
(* The queues *)

(* cancel_request removes at most one request, of the given thread. *)
Shortened(new, old, p) ==
    new = old \/ \E k \in 1 .. Len(old) : old[k].thread = p /\ new = Erase(old, k)

(* cancel_request only removes requests, and only those of its thread. *)
LEMMA CancelEffect ==
    ASSUME TypeOK, NEW c, NEW p, cancel_request(c, p)
    PROVE  \A d \in Channels : /\ Shortened(senders'[d], senders[d], p)
                               /\ Shortened(receivers'[d], receivers[d], p)
                               /\ d # c => senders'[d] = senders[d] /\ receivers'[d] = receivers[d]
  <1> USE DEF TypeOK, ChannelType
  <1>1. CASE UNCHANGED <<senders, receivers>>
    BY <1>1 DEF Shortened
  <1>2. ASSUME NEW k \in 1 .. Len(receivers[c]), FirstOf(receivers[c], p, k),
               receivers' = [receivers EXCEPT ![c] = Erase(@, k)], UNCHANGED senders
        PROVE  \A d \in Channels : /\ Shortened(senders'[d], senders[d], p)
                                   /\ Shortened(receivers'[d], receivers[d], p)
                                   /\ d # c => senders'[d] = senders[d] /\ receivers'[d] = receivers[d]
    BY <1>2 DEF Shortened, FirstOf
  <1>3. ASSUME NEW k \in 1 .. Len(senders[c]), FirstOf(senders[c], p, k),
               senders' = [senders EXCEPT ![c] = Erase(@, k)], UNCHANGED receivers
        PROVE  \A d \in Channels : /\ Shortened(senders'[d], senders[d], p)
                                   /\ Shortened(receivers'[d], receivers[d], p)
                                   /\ d # c => senders'[d] = senders[d] /\ receivers'[d] = receivers[d]
    BY <1>3 DEF Shortened, FirstOf
  <1> QED
    BY <1>1, <1>2, <1>3 DEF cancel_request

(* Properties of a queue that survive the removal of requests. *)
LEMMA ShortenedProperties ==
    ASSUME NEW q \in Seq(Requests), NEW new, NEW p, Shortened(new, q, p)
    PROVE  /\ new # <<>> => q # <<>>
           /\ OneRequestEach(q) => OneRequestEach(new)
           /\ \A j \in 1 .. Len(new) : \E k \in 1 .. Len(q) : new[j] = q[k]
  <1>1. CASE new = q
    BY <1>1
  <1>2. CASE new # q
    <2>1. PICK k \in 1 .. Len(q) : q[k].thread = p /\ new = Erase(q, k)
      BY <1>2 DEF Shortened
    <2>2. /\ Len(new) = Len(q) - 1
          /\ \A j \in 1 .. Len(q) - 1 : new[j] = IF j < k THEN q[j] ELSE q[j + 1]
      BY <2>1, EraseProperties
    <2>3. Len(q) \in Nat /\ Len(q) > 0
      BY <2>1
    <2>4. q # <<>>
      BY <2>3
    <2>5. \A j \in 1 .. Len(new) : \E l \in 1 .. Len(q) : new[j] = q[l]
      BY <2>2, <2>3
    <2>6. OneRequestEach(q) => OneRequestEach(new)
      BY <2>2, <2>3 DEF OneRequestEach
    <2> QED
      BY <2>4, <2>5, <2>6
  <1> QED
    BY <1>1, <1>2

(* The rest of a queue still has at most one request of each thread. *)
LEMMA AfterUnique ==
    ASSUME NEW q \in Seq(Requests), NEW k \in 1 .. Len(q), OneRequestEach(q)
    PROVE  /\ OneRequestEach(After(q, k))
           /\ \A j \in 1 .. Len(After(q, k)) : After(q, k)[j].thread # q[k].thread
           /\ \A j \in 1 .. Len(After(q, k)) : \E l \in 1 .. Len(q) : After(q, k)[j] = q[l]
  <1>1. /\ Len(After(q, k)) = Len(q) - k /\ Len(q) \in Nat
        /\ \A j \in 1 .. Len(q) - k : After(q, k)[j] = q[j + k]
    BY AfterProperties
  <1>2. \A j \in 1 .. Len(q) - k : j + k \in 1 .. Len(q) /\ j + k # k
    BY <1>1
  <1> QED
    <2>1. \A j, l \in 1 .. Len(q) - k : After(q, k)[j].thread = After(q, k)[l].thread => j = l
      <3> SUFFICES ASSUME NEW j \in 1 .. Len(q) - k, NEW l \in 1 .. Len(q) - k,
                          q[j + k].thread = q[l + k].thread
                   PROVE  j = l
        BY <1>1
      <3>1. j + k = l + k
        BY <1>2 DEF OneRequestEach
      <3> QED
        BY <1>1, <3>1
    <2>2. \A j \in 1 .. Len(q) - k : q[j + k].thread # q[k].thread
      BY <1>2 DEF OneRequestEach
    <2>3. \A j \in 1 .. Len(After(q, k)) : \E l \in 1 .. Len(q) : After(q, k)[j] = q[l]
      BY <1>1, <1>2
    <2> QED
      <3> DEFINE a == After(q, k)
      <3>1. Len(a) = Len(q) - k /\ \A j \in 1 .. Len(q) - k : a[j] = q[j + k]
        BY <1>1
      <3>2. OneRequestEach(a)
        BY <2>1, <3>1 DEF OneRequestEach
      <3>3. \A j \in 1 .. Len(a) : a[j].thread # q[k].thread
        BY <2>2, <3>1
      <3> QED
        BY <2>3, <3>2, <3>3

(* Appending a request of a thread that has none keeps requests unique. *)
LEMMA AppendUnique ==
    ASSUME NEW q \in Seq(Requests), NEW m \in Requests, OneRequestEach(q),
           \A k \in 1 .. Len(q) : q[k].thread # m.thread
    PROVE  OneRequestEach(Append(q, m))
  <1>1. /\ Len(q) \in Nat /\ Len(Append(q, m)) = Len(q) + 1
        /\ \A j \in 1 .. Len(q) : Append(q, m)[j] = q[j]
        /\ Append(q, m)[Len(q) + 1] = m
    OBVIOUS
  <1> QED
    BY <1>1 DEF OneRequestEach

(* The three loops that cancel requests, as far as the queues see them. *)
LEMMA CancelSteps ==
    ASSUME TypeOK, NEW t \in Threads, CallbackCancel(t) \/ CancelOwn(t) \/ Withdraw(t)
    PROVE  /\ ring' = ring
           /\ \E p : \A d \in Channels : /\ Shortened(senders'[d], senders[d], p)
                                         /\ Shortened(receivers'[d], receivers[d], p)
  <1>1. CASE UNCHANGED <<senders, receivers>>
    BY <1>1 DEF Shortened, CallbackCancel, CancelOwn, Withdraw
  <1>2. CASE \E c, p : cancel_request(c, p)
    <2>1. PICK c, p : cancel_request(c, p)
      BY <1>2
    <2>2. ring' = ring
      BY DEF CallbackCancel, CancelOwn, Withdraw
    <2>3. \A d \in Channels : /\ Shortened(senders'[d], senders[d], p)
                              /\ Shortened(receivers'[d], receivers[d], p)
      BY <2>1, CancelEffect
    <2> QED
      BY <2>2, <2>3
  <1> QED
    BY <1>1, <1>2 DEF CallbackCancel, CancelOwn, Withdraw, CancelAt

(* Steps that leave the channels alone. *)
LEMMA QuietSteps ==
    ASSUME NEW t \in Threads,
           \/ \E o \in Instructions : Begin(t, o)
           \/ Break(t)
           \/ \E i \in todo[t] : TryNotPending(t, i)
           \/ CallbackEnqueue(t) \/ CallReturns(t) \/ Poll(t) \/ Park(t) \/ Dispatch(t)
    PROVE  UNCHANGED chanVars
  BY DEF Begin, Break, TryNotPending, CallbackEnqueue, CallReturns, Poll, Park, Dispatch

QueuesShrink ==
    \A d \in Channels : /\ senders'[d] # <<>> => senders[d] # <<>>
                        /\ receivers'[d] # <<>> => receivers[d] # <<>>
                        /\ ring'[d].count = ring[d].count

(* Every step preserves NoMissedMatch. *)
LEMMA MissedStep ==
    ASSUME DistinctTables, ChannelInv, NEW t \in Threads, Step(t)
    PROVE  NoMissedMatch'
  <1> USE DEF NoMissedMatch, ChannelInv, TypeOK, ChannelType, HasRoom, HasData
  <1>1. ASSUME UNCHANGED chanVars PROVE NoMissedMatch'
    BY <1>1 DEF chanVars
  <1>2. ASSUME QueuesShrink PROVE NoMissedMatch'
    BY <1>2 DEF QueuesShrink
  <1>3. ASSUME CallbackCancel(t) \/ CancelOwn(t) \/ Withdraw(t) PROVE QueuesShrink
    BY <1>3, CancelSteps, ShortenedProperties DEF QueuesShrink
  <1>4. ASSUME NEW i, NEW c, InCall(t, i, c), SendMatch(t, i, c) PROVE QueuesShrink
    <2>1. PICK k \in 1 .. Len(receivers[c]) : SendMatch(t, i, c)!1!(k)
      BY <1>4 DEF SendMatch
    <2>2. c \in Channels /\ receivers[c] \in Seq(Requests)
      BY <1>4, CallType
    <2>3. receivers[c] # <<>>
      BY <2>2
    <2> QED
      BY <1>4, <2>1, <2>2, <2>3 DEF QueuesShrink, SendMatch
  <1>5. ASSUME NEW i, NEW c, InCall(t, i, c), SendBuffer(t, i, c) PROVE NoMissedMatch'
    <2>1. c \in Channels
      BY <1>5, CallType
    <2>2. senders[c] = <<>> /\ receivers' = [receivers EXCEPT ![c] = <<>>]
      BY <1>5, <2>1 DEF SendBuffer
    <2>3. senders' = senders /\ \A d \in Channels \ {c} : ring'[d] = ring[d]
      BY <1>5, <2>1 DEF SendBuffer
    <2> QED
      BY <2>1, <2>2, <2>3
  <1>6. ASSUME NEW i, NEW c, InCall(t, i, c), SendQueue(t, i, c) PROVE NoMissedMatch'
    <2>1. c \in Channels
      BY <1>6, CallType
    <2> QED
      BY <1>6, <2>1 DEF SendQueue
  <1>7. ASSUME NEW i, NEW c, InCall(t, i, c), ReceiveMatch(t, i, c) PROVE QueuesShrink
    <2>1. PICK k \in 1 .. Len(senders[c]) : ReceiveMatch(t, i, c)!1!(k)
      BY <1>7 DEF ReceiveMatch
    <2>2. c \in Channels /\ senders[c] \in Seq(Requests) /\ ring[c] \in RingType(c)
      BY <1>7, CallType
    <2>3. senders[c] # <<>>
      BY <2>2
    <2>4. \A d \in Channels : ring'[d].count = ring[d].count
      <3>1. CASE ring' = ring
        BY <3>1
      <3>2. CASE ring' # ring
        <4>1. ring' = [ring EXCEPT ![c] = try_send_to_buffer(c,
                         try_receive_from_buffer(c, @), senders[c][k])]
          BY <2>1, <3>2
        <4>2. try_send_to_buffer(c, try_receive_from_buffer(c, ring[c]), senders[c][k]).count
                = ring[c].count
          BY <2>2 DEF RingType, try_send_to_buffer, try_receive_from_buffer
        <4>3. DOMAIN ring' = DOMAIN ring /\ \A d \in Channels \ {c} : ring'[d] = ring[d]
          BY <4>1
        <4>4. CASE c \in DOMAIN ring
          BY <4>1, <4>2, <4>3, <4>4
        <4>5. CASE c \notin DOMAIN ring
          BY <3>2, <4>1, <4>5
        <4> QED
          BY <4>4, <4>5
      <3> QED
        BY <3>1, <3>2
    <2>5. senders' = [senders EXCEPT ![c] = After(@, k)] /\ receivers' = receivers
      BY <1>7, <2>1 DEF ReceiveMatch
    <2> QED
      BY <2>2, <2>3, <2>4, <2>5 DEF QueuesShrink
  <1>8. ASSUME NEW i, NEW c, InCall(t, i, c), ReceiveBuffer(t, i, c) PROVE NoMissedMatch'
    <2>1. c \in Channels
      BY <1>8, CallType
    <2>2. receivers[c] = <<>> /\ senders' = [senders EXCEPT ![c] = <<>>]
      BY <1>8, <2>1 DEF ReceiveBuffer
    <2>3. receivers' = receivers /\ \A d \in Channels \ {c} : ring'[d] = ring[d]
      BY <1>8, <2>1 DEF ReceiveBuffer
    <2> QED
      BY <2>1, <2>2, <2>3
  <1>9. ASSUME NEW i, NEW c, InCall(t, i, c), ReceiveQueue(t, i, c) PROVE NoMissedMatch'
    <2>1. c \in Channels
      BY <1>9, CallType
    <2> QED
      BY <1>9, <2>1 DEF ReceiveQueue
  <1> QED
    BY StepCases, QuietSteps, <1>1, <1>2, <1>3, <1>4, <1>5, <1>6, <1>7, <1>8, <1>9

(* Every step preserves the uniqueness of requests. *)
LEMMA UniqueStep ==
    ASSUME DistinctTables, ChannelInv, NEW t \in Threads, Step(t)
    PROVE  UniqueInv'
  <1> USE DEF UniqueInv, ChannelInv, TypeOK, ChannelType
  <1>1. ASSUME UNCHANGED chanVars PROVE UniqueInv'
    BY <1>1 DEF chanVars, OneRequestEach
  <1>2. OneRequestEach(<<>>)
    BY DEF OneRequestEach
  <1>3. ASSUME CallbackCancel(t) \/ CancelOwn(t) \/ Withdraw(t) PROVE UniqueInv'
    <2>1. \A d \in Channels : OneRequestEach(senders'[d]) /\ OneRequestEach(receivers'[d])
      BY <1>3, CancelSteps, ShortenedProperties
    <2> QED
      BY <2>1 DEF OneRequestEach
  <1>4. ASSUME NEW i, NEW c, InCall(t, i, c)
        PROVE  /\ c \in Channels
               /\ senders[c] \in Seq(Requests) /\ receivers[c] \in Seq(Requests)
               /\ \A k \in 1 .. Len(senders[c]) : senders[c][k].thread # t
               /\ \A k \in 1 .. Len(receivers[c]) : receivers[c][k].thread # t
    BY <1>4, CallType, NoOwnRequest DEF QueuedInv
  <1>5. ASSUME NEW i, NEW c, InCall(t, i, c), SendMatch(t, i, c) PROVE UniqueInv'
    <2>1. PICK k \in 1 .. Len(receivers[c]) : SendMatch(t, i, c)!1!(k)
      BY <1>5 DEF SendMatch
    <2>2. OneRequestEach(After(receivers[c], k))
      BY <1>4, <1>5, AfterUnique
    <2>3. /\ receivers' = [receivers EXCEPT ![c] = After(receivers[c], k)]
          /\ senders' = senders
      BY <1>5, <2>1 DEF SendMatch
    <2>4. \A d \in Channels : OneRequestEach(senders'[d]) /\ OneRequestEach(receivers'[d])
      BY <2>2, <2>3
    <2> QED
      BY <2>4 DEF OneRequestEach
  <1>6. ASSUME NEW i, NEW c, InCall(t, i, c), ReceiveMatch(t, i, c) PROVE UniqueInv'
    <2>1. PICK k \in 1 .. Len(senders[c]) : ReceiveMatch(t, i, c)!1!(k)
      BY <1>6 DEF ReceiveMatch
    <2>2. OneRequestEach(After(senders[c], k))
      BY <1>4, <1>6, AfterUnique
    <2>3. /\ senders' = [senders EXCEPT ![c] = After(senders[c], k)]
          /\ receivers' = receivers
      BY <1>6, <2>1 DEF ReceiveMatch
    <2>4. \A d \in Channels : OneRequestEach(senders'[d]) /\ OneRequestEach(receivers'[d])
      BY <2>2, <2>3
    <2> QED
      BY <2>4 DEF OneRequestEach
  <1>7. ASSUME NEW i, NEW c, InCall(t, i, c), SendBuffer(t, i, c) \/ ReceiveBuffer(t, i, c)
        PROVE  UniqueInv'
    <2>1. \A d \in Channels : OneRequestEach(senders'[d]) /\ OneRequestEach(receivers'[d])
      BY <1>2, <1>7 DEF SendBuffer, ReceiveBuffer
    <2> QED
      BY <2>1 DEF OneRequestEach
  <1>8. ASSUME NEW i, NEW c, InCall(t, i, c), SendQueue(t, i, c) \/ ReceiveQueue(t, i, c)
        PROVE  UniqueInv'
    <2>1. Request(t, i) \in Requests /\ Request(t, i).thread = t
      BY <1>8, CallType DEF Request
    <2>2. /\ OneRequestEach(Append(senders[c], Request(t, i)))
          /\ OneRequestEach(Append(receivers[c], Request(t, i)))
      BY <1>4, <1>8, <2>1, AppendUnique
    <2>3. \A d \in Channels : OneRequestEach(senders'[d]) /\ OneRequestEach(receivers'[d])
      BY <1>2, <1>8, <2>2 DEF SendQueue, ReceiveQueue
    <2> QED
      BY <2>3 DEF OneRequestEach
  <1> QED
    BY StepCases, QuietSteps, <1>1, <1>3, <1>5, <1>6, <1>7, <1>8

-----------------------------------------------------------------------------
(* Every queued request stays accounted for *)

(* Where a request in a queue of d after the step may come from.           *)
SenderFrom(m, d) ==
    \/ \E k \in 1 .. Len(senders[d]) : m = senders[d][k]
    \/ RequestOK(m, d)' /\ m.slot <= op'[m.thread].send_count

ReceiverFrom(m, d) ==
    \/ \E k \in 1 .. Len(receivers[d]) : m = receivers[d][k]
    \/ RequestOK(m, d)' /\ m.slot > op'[m.thread].send_count

Remains(r, d) ==
    \/ \E j \in 1 .. Len(senders'[d]) : senders'[d][j] = r
    \/ \E j \in 1 .. Len(receivers'[d]) : receivers'[d][j] = r

Accounted ==
    \A d \in Channels : \A m :
        /\ (\E j \in 1 .. Len(senders'[d]) : m = senders'[d][j]) => SenderFrom(m, d)
        /\ (\E j \in 1 .. Len(receivers'[d]) : m = receivers'[d][j]) => ReceiverFrom(m, d)

StayOK ==
    \A d \in Channels : \A r \in Requests :
        RequestOK(r, d) /\ Remains(r, d) => RequestOK(r, d)' /\ op'[r.thread] = op[r.thread]

(* If the queues hold only old requests and the one just queued, and the   *)
(* old ones stay in order, then the invariant of the queues is preserved.  *)
LEMMA QueuedFrame ==
    ASSUME TypeOK, QueuedInv, Accounted, StayOK
    PROVE  QueuedInv'
  <1>1. ASSUME NEW d \in Channels, NEW j \in 1 .. Len(senders'[d]), NEW m, m = senders'[d][j]
        PROVE  RequestOK(m, d)' /\ m.slot <= op'[m.thread].send_count
    <2>1. CASE \E k \in 1 .. Len(senders[d]) : m = senders[d][k]
      <3>1. PICK k \in 1 .. Len(senders[d]) : m = senders[d][k]
        BY <2>1
      <3>2. m \in Requests /\ RequestOK(m, d) /\ m.slot <= op[m.thread].send_count
        BY <3>1 DEF TypeOK, ChannelType, QueuedInv
      <3>3. Remains(m, d)
        BY <1>1 DEF Remains
      <3> QED
        BY <3>2, <3>3 DEF StayOK
    <2> QED
      BY <1>1, <2>1 DEF Accounted, SenderFrom
  <1>2. ASSUME NEW d \in Channels, NEW j \in 1 .. Len(receivers'[d]), NEW m, m = receivers'[d][j]
        PROVE  RequestOK(m, d)' /\ m.slot > op'[m.thread].send_count
    <2>1. CASE \E k \in 1 .. Len(receivers[d]) : m = receivers[d][k]
      <3>1. PICK k \in 1 .. Len(receivers[d]) : m = receivers[d][k]
        BY <2>1
      <3>2. m \in Requests /\ RequestOK(m, d) /\ m.slot > op[m.thread].send_count
        BY <3>1 DEF TypeOK, ChannelType, QueuedInv
      <3>3. Remains(m, d)
        BY <1>2 DEF Remains
      <3> QED
        BY <3>2, <3>3 DEF StayOK
    <2> QED
      BY <1>2, <2>1 DEF Accounted, ReceiverFrom
  <1>3. ASSUME NEW d \in Channels, NEW j \in (1 .. Len(senders[d]))'
        PROVE  (RequestOK(senders[d][j], d) /\ senders[d][j].slot <= op[senders[d][j].thread].send_count)'
    <2>1. PICK m : m = senders'[d][j]
      OBVIOUS
    <2>2. RequestOK(m, d)' /\ m.slot <= op'[m.thread].send_count
      BY <1>1, <1>3, <2>1
    <2> QED
      BY <2>1, <2>2 DEF RequestOK, Positions
  <1>4. ASSUME NEW d \in Channels, NEW j \in (1 .. Len(receivers[d]))'
        PROVE  (RequestOK(receivers[d][j], d) /\ receivers[d][j].slot > op[receivers[d][j].thread].send_count)'
    <2>1. PICK m : m = receivers'[d][j]
      OBVIOUS
    <2>2. RequestOK(m, d)' /\ m.slot > op'[m.thread].send_count
      BY <1>2, <1>4, <2>1
    <2> QED
      BY <2>1, <2>2 DEF RequestOK, Positions
  <1> QED
    BY <1>3, <1>4 DEF QueuedInv

(* cancel_request leaves no request of the thread in the channel. *)
LEMMA CancelRemoves ==
    ASSUME TypeOK, NoMissedMatch, UniqueInv, NEW c \in Channels, NEW p, cancel_request(c, p)
    PROVE  \A r : Remains(r, c) => r.thread # p
  <1>1. senders[c] \in Seq(Requests) /\ receivers[c] \in Seq(Requests)
        /\ OneRequestEach(senders[c]) /\ OneRequestEach(receivers[c])
        /\ senders \in [Channels -> Seq(Requests)] /\ receivers \in [Channels -> Seq(Requests)]
    BY DEF TypeOK, ChannelType, UniqueInv
  <1>2. ASSUME NEW q \in Seq(Requests), NEW k \in 1 .. Len(q), OneRequestEach(q), q[k].thread = p
        PROVE  \A j \in 1 .. Len(Erase(q, k)) : Erase(q, k)[j].thread # p
    <2>1. /\ Len(q) \in Nat /\ Len(Erase(q, k)) = Len(q) - 1
          /\ \A j \in 1 .. Len(q) - 1 : Erase(q, k)[j] = IF j < k THEN q[j] ELSE q[j + 1]
      BY EraseProperties
    <2>2. \A j \in 1 .. Len(q) : j # k => q[j].thread # p
      BY <1>2 DEF OneRequestEach
    <2> QED
      BY <2>1, <2>2
  <1>3. ASSUME NEW k \in 1 .. Len(receivers[c]), FirstOf(receivers[c], p, k),
               receivers' = [receivers EXCEPT ![c] = Erase(@, k)], UNCHANGED senders
        PROVE  \A r : Remains(r, c) => r.thread # p
    <2>1. receivers[c] # <<>>
      BY <1>1
    <2>2. senders[c] = <<>>
      BY <2>1 DEF NoMissedMatch
    <2>3. Len(senders'[c]) = 0
      BY <1>3, <2>2
    <2>4. receivers'[c] = Erase(receivers[c], k)
      BY <1>1, <1>3
    <2>5. receivers[c][k].thread = p
      BY <1>3 DEF FirstOf
    <2>6. \A j \in 1 .. Len(receivers'[c]) : receivers'[c][j].thread # p
      BY <1>1, <1>2, <2>4, <2>5
    <2> QED
      BY <2>3, <2>6 DEF Remains
  <1>4. ASSUME NEW k \in 1 .. Len(senders[c]), FirstOf(senders[c], p, k),
               ~HasRequest(receivers[c], p),
               senders' = [senders EXCEPT ![c] = Erase(@, k)], UNCHANGED receivers
        PROVE  \A r : Remains(r, c) => r.thread # p
    <2>1. senders'[c] = Erase(senders[c], k)
      BY <1>1, <1>4
    <2>2. senders[c][k].thread = p
      BY <1>4 DEF FirstOf
    <2>3. \A j \in 1 .. Len(senders'[c]) : senders'[c][j].thread # p
      BY <1>1, <1>2, <2>1, <2>2
    <2>4. \A j \in 1 .. Len(receivers'[c]) : receivers'[c][j].thread # p
      BY <1>4 DEF HasRequest
    <2> QED
      BY <2>3, <2>4 DEF Remains
  <1>5. ASSUME ~HasRequest(receivers[c], p), ~HasRequest(senders[c], p),
               UNCHANGED <<senders, receivers>>
        PROVE  \A r : Remains(r, c) => r.thread # p
    BY <1>5 DEF Remains, HasRequest
  <1> QED
    BY <1>3, <1>4, <1>5 DEF cancel_request

(* Steps that queue nothing. *)
LEMMA KeptAccounted ==
    ASSUME \A d \in Channels :
             /\ \A j \in 1 .. Len(senders'[d]) :
                   \E k \in 1 .. Len(senders[d]) : senders'[d][j] = senders[d][k]
             /\ \A j \in 1 .. Len(receivers'[d]) :
                   \E k \in 1 .. Len(receivers[d]) : receivers'[d][j] = receivers[d][k]
    PROVE  Accounted
  BY DEF Accounted, SenderFrom, ReceiverFrom

(* Steps that leave the queues alone introduce no request. *)
LEMMA QuietAccounted ==
    ASSUME UNCHANGED chanVars
    PROVE  Accounted
  BY KeptAccounted DEF chanVars

(* Steps that cancel requests introduce no request. *)
LEMMA CancelAccounted ==
    ASSUME TypeOK, NEW t \in Threads, CallbackCancel(t) \/ CancelOwn(t) \/ Withdraw(t)
    PROVE  Accounted
  <1>1. \A d \in Channels : senders[d] \in Seq(Requests) /\ receivers[d] \in Seq(Requests)
    BY DEF TypeOK, ChannelType
  <1>2. PICK p : \A d \in Channels :
                   Shortened(senders'[d], senders[d], p) /\ Shortened(receivers'[d], receivers[d], p)
    BY CancelSteps
  <1>3. ASSUME NEW d \in Channels
        PROVE  /\ \A j \in 1 .. Len(senders'[d]) :
                     \E k \in 1 .. Len(senders[d]) : senders'[d][j] = senders[d][k]
               /\ \A j \in 1 .. Len(receivers'[d]) :
                     \E k \in 1 .. Len(receivers[d]) : receivers'[d][j] = receivers[d][k]
    <2>1. Shortened(senders'[d], senders[d], p) /\ Shortened(receivers'[d], receivers[d], p)
      BY <1>2
    <2>2. senders[d] \in Seq(Requests) /\ receivers[d] \in Seq(Requests)
      BY <1>1
    <2>3. \A j \in 1 .. Len(senders'[d]) :
            \E k \in 1 .. Len(senders[d]) : senders'[d][j] = senders[d][k]
      BY SMTT(40), <2>1, <2>2, ShortenedProperties
    <2>4. \A j \in 1 .. Len(receivers'[d]) :
            \E k \in 1 .. Len(receivers[d]) : receivers'[d][j] = receivers[d][k]
      BY <2>1, <2>2, ShortenedProperties
    <2> QED
      BY <2>3, <2>4
  <1> QED
    BY <1>3, KeptAccounted

(* An instruction that a call handled at once and that queued nothing      *)
(* before has no request in any channel.                                   *)
LEMMA NothingQueued ==
    ASSUME TypeOK, TodoInv, NEW t \in Threads, ~QueuedBefore(t), NEW i \in todo[t],
           NEW r, NEW d, RequestOK(r, d)
    PROVE  r.thread # t
  <1>1. SUFFICES ASSUME r.thread = t PROVE FALSE
    OBVIOUS
  <1>2. r.slot \in Positions(t) /\ r.slot \notin todo[t] /\ i \in Positions(t)
    BY <1>1 DEF RequestOK, TodoInv
  <1>3. op[t] \in Instructions
    BY <1>2 DEF TypeOK, ControlType, Positions, NoOp
  <1>4. op[t].kind \notin AltKinds
    BY <1>2 DEF QueuedBefore
  <1>5. Len(op[t].channels) = 1
    BY <1>3, <1>4, InstructionsAssumption DEF InstructionType
  <1> QED
    BY <1>2, <1>5 DEF Positions

(* RequestOK spelt out after a step. *)
LEMMA RequestStays ==
    ASSUME NEW r, NEW d, RequestOK(r, d), NEW p, p = r.thread,
           opno'[p] = opno[p], op'[p] = op[p], todo'[p] \subseteq todo[p],
           pc'[p] \notin {"idle", "runnable"},
           pc'[p] \in {"cancel", "withdraw"} => r.slot >= ci'[p],
           pc'[p] \in {"callback", "handled", "cancel"} => r.slot # chosen'[p],
           \A u \in Threads : pc'[u] = "callback" /\ job'[u].thread = p =>
             r.slot # chosen'[p] /\ r.slot >= ci'[u]
    PROVE  RequestOK(r, d)'
  BY DEF RequestOK, Positions

(* The three ways in which a request is left alone: nothing changed for    *)
(* its thread, and for the worker that runs its thread's callback.         *)
LEMMA RequestUntouched ==
    ASSUME NEW r, NEW d, RequestOK(r, d), NEW p, p = r.thread,
           opno'[p] = opno[p], op'[p] = op[p], todo'[p] = todo[p], pc'[p] = pc[p],
           ci'[p] = ci[p], chosen'[p] = chosen[p],
           \A u \in Threads : pc'[u] = "callback" /\ job'[u].thread = p =>
             pc[u] = "callback" /\ job[u].thread = p /\ ci'[u] = ci[u]
    PROVE  RequestOK(r, d)'
  BY DEF RequestOK, Positions

(* Steps that concern only the thread that takes them: a callback that     *)
(* goes on is not disturbed, and no new one starts.                        *)
OwnStep(t) ==
    /\ \A u \in Threads \ {t} :
        /\ opno'[u] = opno[u] /\ op'[u] = op[u] /\ todo'[u] = todo[u] /\ pc'[u] = pc[u]
        /\ ci'[u] = ci[u] /\ chosen'[u] = chosen[u] /\ job'[u] = job[u]
    /\ pc'[t] # "callback"

(* A step of a thread keeps its own remaining requests in order. *)
LEMMA OwnStay ==
    ASSUME TypeOK, NEW t \in Threads, OwnStep(t),
           \A d \in Channels : \A r \in Requests :
             RequestOK(r, d) /\ Remains(r, d) /\ r.thread = t =>
               RequestOK(r, d)' /\ op'[t] = op[t]
    PROVE  StayOK
  <1> SUFFICES ASSUME NEW d \in Channels, NEW r \in Requests, RequestOK(r, d), Remains(r, d)
               PROVE  RequestOK(r, d)' /\ op'[r.thread] = op[r.thread]
    BY DEF StayOK
  <1>1. PICK p : p = r.thread
    OBVIOUS
  <1>2. p \in Threads
    BY <1>1 DEF Requests
  <1>3. CASE p = t
    BY <1>1, <1>3
  <1>4. CASE p # t
    <2>1. \A u \in Threads : pc'[u] = "callback" /\ job'[u].thread = p =>
            pc[u] = "callback" /\ job[u].thread = p /\ ci'[u] = ci[u]
      BY DEF OwnStep
    <2> QED
      BY <1>1, <1>2, <1>4, <2>1, RequestUntouched DEF OwnStep
  <1> QED
    BY <1>3, <1>4

(* A request that stays in its queue stays in order. *)
LEMMA StayStep ==
    ASSUME DistinctTables, ChannelInv, NEW t \in Threads, Step(t)
    PROVE  StayOK
  <1> USE DEF ChannelInv, TypeOK, ControlType
  <1>1. ASSUME NEW o \in Instructions, pc[t] = "idle", Begin(t, o) PROVE StayOK
    <2>1. OwnStep(t)
      BY <1>1 DEF Begin, OwnStep
    <2>2. \A d \in Channels : \A r \in Requests : RequestOK(r, d) => r.thread # t
      BY <1>1 DEF RequestOK
    <2> QED
      BY <2>1, <2>2, OwnStay
  <1>2. ASSUME pc[t] \in {"idle", "try"}, Break(t) PROVE StayOK
    <2>1. /\ OwnStep(t) /\ pc'[t] = "return"
          /\ UNCHANGED <<opno, op, todo, chosen, job, ci>>
      BY <1>2 DEF Break, OwnStep
    <2>2. ASSUME NEW d \in Channels, NEW r \in Requests, RequestOK(r, d), r.thread = t
          PROVE  RequestOK(r, d)'
      BY <1>2, <2>1, <2>2 DEF RequestOK, Positions, OwnStep
    <2> QED
      BY <2>1, <2>2, OwnStay
  <1>3. ASSUME NEW i \in todo[t], pc[t] = "try", QueueStep(t, i) PROVE StayOK
    <2>1. /\ OwnStep(t) /\ pc'[t] \in {"try", "poll", "return"}
          /\ todo'[t] = todo[t] \ {i}
          /\ UNCHANGED <<opno, op, chosen, job, ci>>
      BY <1>3 DEF QueueStep, NotHandled, OwnStep
    <2>2. ASSUME NEW d \in Channels, NEW r \in Requests, RequestOK(r, d), r.thread = t
          PROVE  RequestOK(r, d)'
      BY <1>3, <2>1, <2>2 DEF RequestOK, Positions, OwnStep
    <2> QED
      BY <2>1, <2>2, OwnStay
  <1>4. ASSUME NEW i, NEW c, InCall(t, i, c), BufferStep(t, i) PROVE StayOK
    <2>1. /\ OwnStep(t) /\ UNCHANGED <<opno, op, job>> /\ chosen'[t] = i
          /\ QueuedBefore(t) => pc'[t] = "cancel" /\ ci'[t] = 1 /\ todo' = todo
      BY <1>4 DEF BufferStep, Handled, Complete, OwnStep
    <2>2. i \in todo[t] /\ \A u \in Threads : pc[u] = "callback" => job[u].thread # t
      BY <1>4, NoCallback DEF InCall
    <2>3. ASSUME NEW d \in Channels, NEW r \in Requests, RequestOK(r, d), r.thread = t
          PROVE  RequestOK(r, d)'
      <3>1. QueuedBefore(t)
        BY <2>2, <2>3, NothingQueued
      <3>2. r.slot \in Positions(t) /\ r.slot \notin todo[t]
        BY <2>3 DEF RequestOK
      <3>3. r.slot >= 1 /\ r.slot # i
        BY <2>2, <3>2, OpType DEF Positions
      <3>4. \A u \in Threads : pc'[u] = "callback" => job'[u].thread # t
        BY <2>1, <2>2 DEF OwnStep
      <3> QED
        BY <2>1, <2>3, <3>1, <3>3, <3>4, RequestStays
    <2> QED
      BY <2>1, <2>3, OwnStay
  <1>5. ASSUME NEW i, NEW c, InCall(t, i, c), NEW q \in Requests, MatchStep(t, i, c, q),
               \A r : Remains(r, c) => r.thread # q.thread
        PROVE  StayOK
    <2> SUFFICES ASSUME NEW d \in Channels, NEW r \in Requests, RequestOK(r, d), Remains(r, d)
                 PROVE  RequestOK(r, d)' /\ op'[r.thread] = op[r.thread]
      BY DEF StayOK
    <2>1. PICK p : p = r.thread
      OBVIOUS
    <2>2. p \in Threads /\ r.slot \in Positions(p) /\ r.slot \notin todo[p]
      BY <2>1 DEF Requests, RequestOK
    <2>3. PICK s : s = q.thread
      OBVIOUS
    <2>4. /\ s \in Threads \ {t} /\ pending[s] /\ pending[t] /\ i \in todo[t] /\ pc[s] \in MayBeCompleted
          /\ op[s].channels[q.slot] = c
      BY <1>5, <2>3 DEF MatchStep, InCall, RequestOK
    <2>5. /\ UNCHANGED <<opno, op, todo>>
          /\ chosen' = [chosen EXCEPT ![t] = i, ![s] = q.slot]
          /\ job' = [job EXCEPT ![t] = [thread |-> s, ch |-> c]]
          /\ pc' = [pc EXCEPT ![t] = "callback"]
          /\ ci' = [ci EXCEPT ![t] = 1]
      BY <1>5, <2>3 DEF MatchStep, Matched
    <2>6. /\ pc'[t] = "callback" /\ job'[t].thread = s /\ ci'[t] = 1
          /\ chosen'[t] = i /\ chosen'[s] = q.slot /\ pc'[s] = pc[s] /\ ci'[s] = ci[s]
          /\ \A u \in Threads \ {t} : pc'[u] = pc[u] /\ job'[u] = job[u] /\ ci'[u] = ci[u]
          /\ \A u \in Threads \ {s, t} : chosen'[u] = chosen[u]
      BY <2>4, <2>5
    <2>7. \A u \in Threads : pc[u] = "callback" => job[u].thread # t /\ job[u].thread # s
      BY <2>4, NoCallback
    <2>8. r.slot >= 1
      BY <2>2, OpType DEF Positions
    <2>9. CASE p = t
      <3>1. r.slot # i
        BY <2>2, <2>4, <2>9
      <3>2. \A u \in Threads : pc'[u] = "callback" => job'[u].thread # t
        BY <2>4, <2>6, <2>7
      <3> QED
        BY <2>1, <2>5, <2>6, <2>9, <3>1, <3>2 DEF RequestOK, Positions
    <2>10. CASE p = s
      <3>1. r.slot # q.slot
        <4>1. SUFFICES ASSUME r.slot = q.slot PROVE FALSE
          OBVIOUS
        <4>2. op[s].channels[r.slot] = d
          BY <2>1, <2>10 DEF RequestOK
        <4>3. d = c
          BY <2>4, <4>1, <4>2
        <4> QED
          BY <1>5, <2>1, <2>3, <2>10, <4>3
      <3>2. \A u \in Threads : pc'[u] = "callback" /\ job'[u].thread = s => u = t
        BY <2>6, <2>7
      <3> QED
        BY <2>1, <2>4, <2>5, <2>6, <2>8, <2>10, <3>1, <3>2 DEF RequestOK, Positions
    <2>11. CASE p # s /\ p # t
      <3>1. \A u \in Threads : pc'[u] = "callback" /\ job'[u].thread = p =>
              pc[u] = "callback" /\ job[u].thread = p /\ ci'[u] = ci[u]
        BY <2>6, <2>11
      <3> QED
        BY <2>1, <2>2, <2>5, <2>6, <2>11, <3>1, RequestUntouched
    <2> QED
      BY <2>9, <2>10, <2>11
  <1>6. ASSUME CallbackCancel(t) PROVE StayOK
    <2> SUFFICES ASSUME NEW d \in Channels, NEW r \in Requests, RequestOK(r, d), Remains(r, d)
                 PROVE  RequestOK(r, d)' /\ op'[r.thread] = op[r.thread]
      BY DEF StayOK
    <2>1. PICK p : p = r.thread
      OBVIOUS
    <2>2. PICK s : s = job[t].thread
      OBVIOUS
    <2>3. /\ pc[t] = "callback" /\ JobOK(t, s) /\ ci[t] \in Positions(s)
          /\ UNCHANGED <<opno, op, todo, chosen, job>>
      BY <1>6, <2>2 DEF CallbackCancel, JobInv
    <2>4. p \in Threads /\ s \in Threads /\ s # t /\ pc[s] \in MayBeCompleted
      BY <2>1, <2>3 DEF Requests, JobOK
    <2>5. CASE op[s].channels[ci[t]] = Nil
      <3>1. pc' = [pc EXCEPT ![t] = "crashed"] /\ ci' = ci
        BY <1>6, <2>2, <2>5 DEF CallbackCancel
      <3>2. pc'[t] = "crashed" /\ \A u \in Threads \ {t} : pc'[u] = pc[u]
        BY <3>1
      <3> QED
        BY <2>1, <2>3, <2>4, <3>1, <3>2 DEF RequestOK, Positions
    <2>6. CASE op[s].channels[ci[t]] # Nil
      <3>1. /\ CancelAt(s, ci[t], job[t].ch) /\ pc' = pc
            /\ ci' = [ci EXCEPT ![t] = @ + 1]
        BY <1>6, <2>2, <2>6 DEF CallbackCancel
      <3>2. ci'[t] = ci[t] + 1 /\ \A u \in Threads \ {t} : ci'[u] = ci[u]
        BY <3>1
      <3>3. CASE p # s
        <4>1. \A u \in Threads : pc[u] = "callback" /\ job[u].thread = p => u # t
          BY <2>2, <3>3
        <4> QED
          BY <2>1, <2>3, <2>4, <3>1, <3>2, <4>1 DEF RequestOK, Positions
      <3>4. CASE p = s
        <4>1. r.slot \in Positions(s) /\ op[s].channels[r.slot] = d /\ r.slot # chosen[s] /\ r.slot >= ci[t]
          BY <2>1, <2>2, <2>3, <3>4 DEF RequestOK
        <4>2. r.slot # ci[t]
          <5>1. SUFFICES ASSUME r.slot = ci[t] PROVE FALSE
            OBVIOUS
          <5>2. op[s].channels[ci[t]] = d
            BY <4>1, <5>1
          <5>3. op[s] \in Instructions
            BY <2>3, <2>4 DEF Positions, NoOp
          <5>4. d # job[t].ch
            BY <2>3, <4>1, <5>3, NilAssumption DEF JobOK, DistinctTables, Positions
          <5>5. cancel_request(d, s)
            BY <3>1, <5>2, <5>4 DEF CancelAt
          <5>6. \A x : Remains(x, d) => x.thread # s
            BY <5>5, CancelRemoves
          <5> QED
            BY <2>1, <3>4, <5>6
        <4>3. r.slot >= ci[t] + 1
          <5>1. Len(op[s].channels) \in Nat
            BY <2>4, OpType
          <5>2. r.slot \in Int /\ ci[t] \in Int
            BY <2>3, <4>1, <5>1 DEF Positions
          <5>3. \A a, b \in Int : a >= b /\ a # b => a >= b + 1
            OBVIOUS
          <5> QED
            BY <4>1, <4>2, <5>2, <5>3
        <4>4. \A u \in Threads \ {t} : pc[u] = "callback" => job[u].thread # s
          BY <2>3 DEF JobOK
        <4>5. \A u \in Threads : pc'[u] = "callback" /\ job'[u].thread = s =>
                r.slot # chosen'[s] /\ r.slot >= ci'[u]
          <5> SUFFICES ASSUME NEW u \in Threads, pc'[u] = "callback", job'[u].thread = s
                       PROVE  r.slot # chosen'[s] /\ r.slot >= ci'[u]
            OBVIOUS
          <5>1. u = t
            BY <2>3, <3>1, <4>4
          <5> QED
            BY <2>3, <3>2, <4>1, <4>3, <5>1
        <4> QED
          BY <2>1, <2>3, <2>4, <3>1, <3>2, <3>4, <4>5 DEF RequestOK, Positions
      <3> QED
        BY <3>3, <3>4
    <2> QED
      BY <2>5, <2>6
  <1>7. ASSUME CallbackEnqueue(t) PROVE StayOK
    <2> SUFFICES ASSUME NEW d \in Channels, NEW r \in Requests, RequestOK(r, d), Remains(r, d)
                 PROVE  RequestOK(r, d)' /\ op'[r.thread] = op[r.thread]
      BY DEF StayOK
    <2>1. PICK p : p = r.thread
      OBVIOUS
    <2>2. PICK s : s = job[t].thread
      OBVIOUS
    <2>3. /\ pc[t] = "callback" /\ JobOK(t, s)
          /\ pc[s] \in {"blocked", "stopped"}
          /\ pc'[t] = "handled"
          /\ pc'[s] = IF pc[s] = "blocked" THEN "runnable" ELSE pc[s]
          /\ \A u \in Threads \ {t, s} : pc'[u] = pc[u]
          /\ \A u \in Threads \ {t} : job'[u] = job[u]
          /\ UNCHANGED <<chosen, op>>
      BY <1>7, <2>2, EnqueueEffect
    <2>4. p \in Threads /\ s \in Threads /\ s # t /\ chosen[s] \in Positions(s)
      BY <2>1, <2>3 DEF Requests, JobOK
    <2>5. UNCHANGED <<opno, todo, ci>> /\ (op[s].kind \in AltKinds => ci[t] > Len(op[s].channels))
      BY <1>7, <2>2 DEF CallbackEnqueue
    <2>6. p # s
      <3>1. SUFFICES ASSUME p = s PROVE FALSE
        OBVIOUS
      <3>2. r.slot \in Positions(s) /\ r.slot # chosen[s] /\ r.slot >= ci[t]
        BY <2>1, <2>2, <2>3, <3>1 DEF RequestOK
      <3>3. op[s].kind \notin AltKinds
        BY SMTT(40), <2>4, <2>5, <3>2, OpType DEF Positions
      <3>4. op[s] \in Instructions
        BY <2>4 DEF Positions, NoOp
      <3>5. Len(op[s].channels) = 1
        BY <3>3, <3>4, InstructionsAssumption DEF InstructionType
      <3> QED
        BY <2>4, <3>2, <3>5 DEF Positions
    <2>7. \A u \in Threads : pc'[u] = "callback" /\ job'[u].thread = p =>
            pc[u] = "callback" /\ job[u].thread = p
      BY <2>3, <2>4
    <2>8. CASE p = t
      BY <2>1, <2>3, <2>5, <2>7, <2>8 DEF RequestOK, Positions
    <2>9. CASE p # t
      <3>1. pc'[p] = pc[p]
        BY <2>3, <2>4, <2>6, <2>9
      <3> QED
        BY <2>1, <2>3, <2>5, <2>7, <3>1 DEF RequestOK, Positions
    <2> QED
      BY <2>8, <2>9
  <1>8. ASSUME CallReturns(t) PROVE StayOK
    <2>1. /\ OwnStep(t) /\ UNCHANGED <<opno, op, job, chosen>> /\ pc[t] = "handled"
          /\ QueuedBefore(t) => pc'[t] = "cancel" /\ ci'[t] = 1 /\ todo' = todo
      BY <1>8 DEF CallReturns, Handled, Complete, OwnStep
    <2>2. chosen[t] \in todo[t] /\ \A u \in Threads : pc[u] = "callback" => job[u].thread # t
      BY <2>1 DEF TodoInv, JobInv, JobOK
    <2>3. ASSUME NEW d \in Channels, NEW r \in Requests, RequestOK(r, d), r.thread = t
          PROVE  RequestOK(r, d)'
      <3>1. QueuedBefore(t)
        BY <2>2, <2>3, NothingQueued
      <3>2. r.slot \in Positions(t) /\ r.slot \notin todo[t]
        BY <2>3 DEF RequestOK
      <3>3. r.slot >= 1 /\ r.slot # chosen[t]
        BY <2>2, <3>2, OpType DEF Positions
      <3>4. \A u \in Threads : pc'[u] = "callback" => job'[u].thread # t
        BY <2>1, <2>2 DEF OwnStep
      <3> QED
        BY <2>1, <2>3, <3>1, <3>3, <3>4, RequestStays
    <2> QED
      BY <2>1, <2>3, OwnStay
  <1>9. ASSUME CancelOwn(t) PROVE StayOK
    <2>1. /\ OwnStep(t) /\ UNCHANGED <<opno, op, chosen, job>> /\ pc[t] = "cancel"
      BY <1>9 DEF CancelOwn, Complete, OwnStep
    <2>2. /\ chosen[t] \in Positions(t) /\ op[t].channels[chosen[t]] # Nil
          /\ \A u \in Threads : pc'[u] = "callback" => job'[u].thread # t
      BY <2>1 DEF TodoInv, JobInv, JobOK, OwnStep
    <2>3. ASSUME NEW d \in Channels, NEW r \in Requests, RequestOK(r, d), Remains(r, d), r.thread = t
          PROVE  RequestOK(r, d)'
      <3>1. /\ r.slot \in Positions(t) /\ op[t].channels[r.slot] = d
            /\ r.slot # chosen[t] /\ r.slot >= ci[t]
        BY <2>1, <2>3 DEF RequestOK
      <3>3. ~(ci[t] > Len(op[t].channels))
        BY <3>1, OpType DEF Positions
      <3>2. ci[t] \in Positions(t)
        BY <1>9, <3>3 DEF CancelOwn
      <3>4. CASE op[t].channels[ci[t]] = Nil
        <4>1. pc'[t] = "crashed" /\ todo' = todo
          BY <1>9, <3>3, <3>4 DEF CancelOwn
        <4> QED
          BY <2>1, <2>2, <2>3, <4>1, RequestStays
      <3>5. CASE op[t].channels[ci[t]] # Nil
        <4>1. /\ CancelAt(t, ci[t], op[t].channels[chosen[t]]) /\ pc' = pc /\ todo' = todo
              /\ ci' = [ci EXCEPT ![t] = @ + 1]
          BY <1>9, <3>3, <3>5 DEF CancelOwn
        <4>2. ci'[t] = ci[t] + 1
          BY <4>1
        <4>3. r.slot # ci[t]
          <5>1. SUFFICES ASSUME r.slot = ci[t] PROVE FALSE
            OBVIOUS
          <5>2. op[t] \in Instructions
            BY <2>2 DEF Positions, NoOp
          <5>3. d # op[t].channels[chosen[t]]
            BY <2>2, <3>1, <5>2 DEF DistinctTables, Positions
          <5>4. cancel_request(d, t)
            BY <3>1, <4>1, <5>1, <5>3 DEF CancelAt
          <5> QED
            BY <2>3, <5>4, CancelRemoves
        <4>4. r.slot >= ci'[t]
          <5>1. r.slot \in Int /\ ci[t] \in Int
            BY <3>1, <3>2, OpType DEF Positions
          <5> QED
            BY <3>1, <4>2, <4>3, <5>1, NextPosition
        <4> QED
          BY <2>1, <2>2, <2>3, <3>1, <4>1, <4>4, RequestStays
      <3> QED
        BY <3>4, <3>5
    <2> QED
      BY <2>1, <2>3, OwnStay
  <1>10. ASSUME Poll(t) PROVE StayOK
    <2>1. /\ OwnStep(t) /\ UNCHANGED <<opno, op, todo, job>> /\ pc[t] = "poll"
          /\ pending[t] => pc'[t] = "withdraw" /\ ci'[t] = 1
          /\ ~pending[t] => pc'[t] = "return" /\ UNCHANGED <<chosen, ci>>
      BY <1>10 DEF Poll, OwnStep
    <2>2. ASSUME NEW d \in Channels, NEW r \in Requests, RequestOK(r, d), r.thread = t
          PROVE  RequestOK(r, d)'
      <3>1. CASE pending[t]
        <4>1. r.slot >= 1
          BY <2>2, OpType DEF RequestOK, Positions
        <4>2. \A u \in Threads : pc'[u] = "callback" => job'[u].thread # t
          BY <2>1, <3>1, NoCallback DEF OwnStep
        <4> QED
          BY <2>1, <2>2, <3>1, <4>1, <4>2, RequestStays
      <3>2. CASE ~pending[t]
        BY <2>1, <2>2, <3>2 DEF RequestOK, Positions, OwnStep
      <3> QED
        BY <3>1, <3>2
    <2> QED
      BY <2>1, <2>2, OwnStay
  <1>11. ASSUME Withdraw(t) PROVE StayOK
    <2>1. /\ OwnStep(t) /\ UNCHANGED <<opno, op, chosen, job>> /\ pc[t] = "withdraw"
      BY <1>11 DEF Withdraw, Complete, OwnStep
    <2>2. \A u \in Threads : pc'[u] = "callback" => job'[u].thread # t
      BY <2>1 DEF JobInv, JobOK, OwnStep
    <2>3. ASSUME NEW d \in Channels, NEW r \in Requests, RequestOK(r, d), Remains(r, d), r.thread = t
          PROVE  RequestOK(r, d)'
      <3>1. r.slot \in Positions(t) /\ op[t].channels[r.slot] = d /\ r.slot >= ci[t]
        BY <2>1, <2>3 DEF RequestOK
      <3>2. ~(ci[t] > Len(op[t].channels))
        BY <3>1, OpType DEF Positions
      <3>3. /\ cancel_request(op[t].channels[ci[t]], t) /\ pc' = pc /\ todo' = todo
            /\ ci' = [ci EXCEPT ![t] = @ + 1]
        BY <1>11, <3>2 DEF Withdraw
      <3>4. r.slot # ci[t]
        BY <2>3, <3>1, <3>3, CancelRemoves
      <3>5. ci'[t] = ci[t] + 1
        BY <3>3
      <3>6. r.slot >= ci'[t]
        BY <3>1, <3>4, <3>5, OpType DEF Positions
      <3> QED
        BY <2>1, <2>2, <2>3, <3>3, <3>6, RequestStays
    <2> QED
      BY <2>1, <2>3, OwnStay
  <1>12. ASSUME Park(t) PROVE StayOK
    <2>1. /\ OwnStep(t) /\ pc'[t] \in {"blocked", "stopped"} /\ pc[t] = "return"
          /\ UNCHANGED <<opno, op, todo, chosen, job, ci>>
      BY <1>12 DEF Park, OwnStep
    <2>2. ASSUME NEW d \in Channels, NEW r \in Requests, RequestOK(r, d), r.thread = t
          PROVE  RequestOK(r, d)'
      BY <2>1, <2>2 DEF RequestOK, Positions, OwnStep
    <2> QED
      BY <2>1, <2>2, OwnStay
  <1>13. ASSUME Dispatch(t) PROVE StayOK
    <2>1. OwnStep(t) /\ pc[t] = "runnable"
      BY <1>13 DEF Dispatch, OwnStep
    <2>2. \A d \in Channels : \A r \in Requests : RequestOK(r, d) => r.thread # t
      BY <2>1 DEF RequestOK
    <2> QED
      BY <2>1, <2>2, OwnStay
  <1>14. ASSUME NEW i, NEW c, InCall(t, i, c), SendMatch(t, i, c) PROVE StayOK
    <2>1. PICK k \in 1 .. Len(receivers[c]) : SendMatch(t, i, c)!1!(k)
      BY <1>14 DEF SendMatch
    <2>2. PICK q : q = receivers[c][k]
      OBVIOUS
    <2>3. c \in Channels /\ receivers[c] \in Seq(Requests) /\ senders[c] = <<>>
      BY <1>14, <2>1, CallType, ReceiverFound
    <2>4. q \in Requests /\ MatchStep(t, i, c, q)
      BY <1>14, <2>1, <2>2, ReceiverFound DEF MatchStep
    <2>5. /\ OneRequestEach(receivers[c]) /\ receivers \in [Channels -> Seq(Requests)]
          /\ senders' = senders /\ receivers' = [receivers EXCEPT ![c] = After(receivers[c], k)]
      BY <1>14, <2>1, <2>3 DEF SendMatch, UniqueInv, ChannelType
    <2>6. \A j \in 1 .. Len(receivers'[c]) : receivers'[c][j].thread # q.thread
      BY <2>2, <2>3, <2>5, AfterUnique
    <2>7. Len(senders'[c]) = 0
      BY <2>3, <2>5
    <2>8. \A r : Remains(r, c) => r.thread # q.thread
      BY <2>6, <2>7 DEF Remains
    <2> QED
      BY <1>5, <1>14, <2>4, <2>8
  <1>15. ASSUME NEW i, NEW c, InCall(t, i, c), ReceiveMatch(t, i, c) PROVE StayOK
    <2>1. PICK k \in 1 .. Len(senders[c]) : ReceiveMatch(t, i, c)!1!(k)
      BY <1>15 DEF ReceiveMatch
    <2>2. PICK q : q = senders[c][k]
      OBVIOUS
    <2>3. c \in Channels /\ senders[c] \in Seq(Requests) /\ receivers[c] = <<>>
      BY <1>15, <2>1, CallType, SenderFound
    <2>4. q \in Requests /\ MatchStep(t, i, c, q)
      BY <1>15, <2>1, <2>2, SenderFound DEF MatchStep
    <2>5. /\ OneRequestEach(senders[c]) /\ senders \in [Channels -> Seq(Requests)]
          /\ receivers' = receivers /\ senders' = [senders EXCEPT ![c] = After(senders[c], k)]
      BY <1>15, <2>1, <2>3 DEF ReceiveMatch, UniqueInv, ChannelType
    <2>6. \A j \in 1 .. Len(senders'[c]) : senders'[c][j].thread # q.thread
      BY <2>2, <2>3, <2>5, AfterUnique
    <2>7. Len(receivers'[c]) = 0
      BY <2>3, <2>5
    <2>8. \A r : Remains(r, c) => r.thread # q.thread
      BY <2>6, <2>7 DEF Remains
    <2> QED
      BY <1>5, <1>15, <2>4, <2>8
  <1>16. ASSUME NEW i \in todo[t], pc[t] = "try", TryNotPending(t, i) PROVE StayOK
    BY <1>3, <1>16 DEF TryNotPending, QueueStep
  <1>17. ASSUME NEW i, NEW c, InCall(t, i, c), SendBuffer(t, i, c) \/ ReceiveBuffer(t, i, c)
         PROVE  StayOK
    BY <1>4, <1>17 DEF SendBuffer, ReceiveBuffer, BufferStep
  <1>18. ASSUME NEW i, NEW c, InCall(t, i, c), SendQueue(t, i, c) \/ ReceiveQueue(t, i, c)
         PROVE  StayOK
    BY <1>3, <1>18 DEF SendQueue, ReceiveQueue, QueueStep, InCall
  <1> QED
    BY StepCases, <1>1, <1>2, <1>6, <1>7, <1>8, <1>9, <1>10, <1>11, <1>12, <1>13,
       <1>14, <1>15, <1>16, <1>17, <1>18

(* Every request in a queue was there before the step or is the one queued by it. *)
LEMMA AccountedStep ==
    ASSUME DistinctTables, ChannelInv, NEW t \in Threads, Step(t)
    PROVE  Accounted
  <1> USE DEF ChannelInv, TypeOK, ChannelType
  <1>1. ASSUME NEW i, NEW c, InCall(t, i, c), SendMatch(t, i, c) PROVE Accounted
    <2>1. PICK k \in 1 .. Len(receivers[c]) : SendMatch(t, i, c)!1!(k)
      BY <1>1 DEF SendMatch
    <2>2. c \in Channels /\ receivers[c] \in Seq(Requests) /\ OneRequestEach(receivers[c])
      BY <1>1, CallType DEF UniqueInv
    <2>3. senders' = senders /\ receivers' = [receivers EXCEPT ![c] = After(receivers[c], k)]
      BY <1>1, <2>1 DEF SendMatch
    <2>4. \A j \in 1 .. Len(receivers'[c]) :
            \E l \in 1 .. Len(receivers[c]) : receivers'[c][j] = receivers[c][l]
      BY <2>2, <2>3, AfterUnique
    <2>5. ASSUME NEW d \in Channels
          PROVE  /\ \A j \in 1 .. Len(senders'[d]) :
                       \E l \in 1 .. Len(senders[d]) : senders'[d][j] = senders[d][l]
                 /\ \A j \in 1 .. Len(receivers'[d]) :
                       \E l \in 1 .. Len(receivers[d]) : receivers'[d][j] = receivers[d][l]
      <3>1. CASE d = c
        BY <2>3, <2>4, <3>1
      <3>2. CASE d # c
        BY <2>3, <3>2
      <3> QED
        BY <3>1, <3>2
    <2> QED
      BY <2>5, KeptAccounted
  <1>2. ASSUME NEW i, NEW c, InCall(t, i, c), ReceiveMatch(t, i, c) PROVE Accounted
    <2>1. PICK k \in 1 .. Len(senders[c]) : ReceiveMatch(t, i, c)!1!(k)
      BY <1>2 DEF ReceiveMatch
    <2>2. c \in Channels /\ senders[c] \in Seq(Requests) /\ OneRequestEach(senders[c])
      BY <1>2, CallType DEF UniqueInv
    <2>3. receivers' = receivers /\ senders' = [senders EXCEPT ![c] = After(senders[c], k)]
      BY <1>2, <2>1 DEF ReceiveMatch
    <2>4. \A j \in 1 .. Len(senders'[c]) :
            \E l \in 1 .. Len(senders[c]) : senders'[c][j] = senders[c][l]
      BY <2>2, <2>3, AfterUnique
    <2>5. ASSUME NEW d \in Channels
          PROVE  /\ \A j \in 1 .. Len(senders'[d]) :
                       \E l \in 1 .. Len(senders[d]) : senders'[d][j] = senders[d][l]
                 /\ \A j \in 1 .. Len(receivers'[d]) :
                       \E l \in 1 .. Len(receivers[d]) : receivers'[d][j] = receivers[d][l]
      <3>1. CASE d = c
        BY <2>3, <2>4, <3>1
      <3>2. CASE d # c
        BY <2>3, <3>2
      <3> QED
        BY <3>1, <3>2
    <2> QED
      BY <2>5, KeptAccounted
  <1>3. ASSUME NEW i, NEW c, InCall(t, i, c), SendBuffer(t, i, c) \/ ReceiveBuffer(t, i, c)
        PROVE  Accounted
    <2>1. ASSUME NEW d \in Channels
          PROVE  /\ Len(senders'[d]) = 0 \/ senders'[d] = senders[d]
                 /\ Len(receivers'[d]) = 0 \/ receivers'[d] = receivers[d]
      BY <1>3 DEF SendBuffer, ReceiveBuffer
    <2>2. ASSUME NEW d \in Channels
          PROVE  /\ \A j \in 1 .. Len(senders'[d]) :
                       \E l \in 1 .. Len(senders[d]) : senders'[d][j] = senders[d][l]
                 /\ \A j \in 1 .. Len(receivers'[d]) :
                       \E l \in 1 .. Len(receivers[d]) : receivers'[d][j] = receivers[d][l]
      <3>1. \A j \in 1 .. Len(senders'[d]) :
              \E l \in 1 .. Len(senders[d]) : senders'[d][j] = senders[d][l]
        <4>1. CASE Len(senders'[d]) = 0
          BY <4>1
        <4> QED
          BY <2>1, <4>1
      <3>2. \A j \in 1 .. Len(receivers'[d]) :
              \E l \in 1 .. Len(receivers[d]) : receivers'[d][j] = receivers[d][l]
        <4>1. CASE Len(receivers'[d]) = 0
          BY <4>1
        <4> QED
          BY <2>1, <4>1
      <3> QED
        BY <3>1, <3>2
    <2> QED
      BY <2>2, KeptAccounted
  <1>4. ASSUME NEW i, NEW c, InCall(t, i, c), NotHandled(t, i)
        PROVE  \A m : m = Request(t, i) =>
                 RequestOK(m, c)' /\ m.thread = t /\ m.slot = i /\ op' = op
    <2>1. PICK m : m = Request(t, i)
      OBVIOUS
    <2>2. m.thread = t /\ m.slot = i /\ m.op = opno[t]
      BY <2>1 DEF Request
    <2>3. /\ UNCHANGED <<opno, op, chosen, job, ci>> /\ todo'[t] = todo[t] \ {i}
          /\ pc'[t] \in {"try", "poll", "return"} /\ \A u \in Threads \ {t} : pc'[u] = pc[u]
      BY <1>4 DEF NotHandled, ControlType
    <2>4. \A u \in Threads : pc'[u] = "callback" => job'[u].thread # t
      BY <1>4, <2>3, NoCallback DEF InCall
    <2>5. i \in Positions(t) /\ op[t].channels[i] = c
      BY <1>4, CallType DEF InCall
    <2>6. RequestOK(m, c)'
      BY <2>2, <2>3, <2>4, <2>5 DEF RequestOK, Positions
    <2> QED
      BY <2>1, <2>2, <2>3, <2>6
  <1>5. ASSUME NEW i, NEW c, InCall(t, i, c), i <= op[t].send_count, SendQueue(t, i, c)
        PROVE  Accounted
    <2>1. PICK m : m = Request(t, i)
      OBVIOUS
    <2>2. RequestOK(m, c)' /\ m.slot <= op'[m.thread].send_count
      BY <1>4, <1>5, <2>1 DEF SendQueue
    <2>3. c \in Channels /\ senders[c] \in Seq(Requests) /\ m \in Requests
      BY <1>5, <2>1, CallType
    <2>4. /\ senders' = [senders EXCEPT ![c] = Append(senders[c], m)]
          /\ receivers' = [receivers EXCEPT ![c] = <<>>]
      BY <1>5, <2>1 DEF SendQueue
    <2>5. \A j \in 1 .. Len(senders'[c]) :
            senders'[c][j] = m \/ \E k \in 1 .. Len(senders[c]) : senders'[c][j] = senders[c][k]
      BY <2>3, <2>4
    <2>6. \A d \in Channels \ {c} : senders'[d] = senders[d] /\ receivers'[d] = receivers[d]
      BY <2>4
    <2>7. Len(receivers'[c]) = 0
      BY <2>3, <2>4
    <2> SUFFICES ASSUME NEW d \in Channels, NEW x
                 PROVE  /\ (\E j \in 1 .. Len(senders'[d]) : x = senders'[d][j]) => SenderFrom(x, d)
                        /\ (\E j \in 1 .. Len(receivers'[d]) : x = receivers'[d][j]) => ReceiverFrom(x, d)
      BY DEF Accounted
    <2>8. CASE d = c
      <3>1. ASSUME NEW j \in 1 .. Len(senders'[c]), x = senders'[c][j] PROVE SenderFrom(x, c)
        <4>1. CASE x = m
          BY <2>2, <4>1 DEF SenderFrom
        <4>2. CASE \E k \in 1 .. Len(senders[c]) : x = senders[c][k]
          BY <4>2 DEF SenderFrom
        <4> QED
          BY <2>5, <3>1, <4>1, <4>2
      <3> QED
        BY <2>7, <2>8, <3>1
    <2>9. CASE d # c
      BY <2>6, <2>9 DEF SenderFrom, ReceiverFrom
    <2> QED
      BY <2>8, <2>9
  <1>6. ASSUME NEW i, NEW c, InCall(t, i, c), ~(i <= op[t].send_count), ReceiveQueue(t, i, c)
        PROVE  Accounted
    <2>1. PICK m : m = Request(t, i)
      OBVIOUS
    <2>2. i \in Nat /\ op[t].send_count \in Nat
      BY <1>6, CallType, OpType
    <2>3. RequestOK(m, c)' /\ m.slot > op'[m.thread].send_count
      BY <1>4, <1>6, <2>1, <2>2 DEF ReceiveQueue
    <2>4. c \in Channels /\ receivers[c] \in Seq(Requests) /\ m \in Requests
      BY <1>6, <2>1, CallType
    <2>5. /\ receivers' = [receivers EXCEPT ![c] = Append(receivers[c], m)]
          /\ senders' = [senders EXCEPT ![c] = <<>>]
      BY <1>6, <2>1 DEF ReceiveQueue
    <2>6. \A j \in 1 .. Len(receivers'[c]) :
            receivers'[c][j] = m \/ \E k \in 1 .. Len(receivers[c]) : receivers'[c][j] = receivers[c][k]
      BY <2>4, <2>5
    <2>7. \A d \in Channels \ {c} : senders'[d] = senders[d] /\ receivers'[d] = receivers[d]
      BY <2>5
    <2>8. Len(senders'[c]) = 0
      BY <2>4, <2>5
    <2> SUFFICES ASSUME NEW d \in Channels, NEW x
                 PROVE  /\ (\E j \in 1 .. Len(senders'[d]) : x = senders'[d][j]) => SenderFrom(x, d)
                        /\ (\E j \in 1 .. Len(receivers'[d]) : x = receivers'[d][j]) => ReceiverFrom(x, d)
      BY DEF Accounted
    <2>9. CASE d = c
      BY SMTT(40), <2>3, <2>6, <2>8, <2>9 DEF ReceiverFrom
    <2>10. CASE d # c
      BY <2>7, <2>10 DEF SenderFrom, ReceiverFrom
    <2> QED
      BY <2>9, <2>10
  <1> QED
    BY StepCases, QuietSteps, QuietAccounted, CancelAccounted, <1>1, <1>2, <1>3, <1>5, <1>6

(* Every step preserves the invariant of the queued requests. *)
LEMMA QueuedStep ==
    ASSUME DistinctTables, ChannelInv, NEW t \in Threads, Step(t)
    PROVE  QueuedInv'
  BY AccountedStep, StayStep, QueuedFrame DEF ChannelInv

-----------------------------------------------------------------------------
(* The theorems *)

(* The inductive invariant holds initially. *)
LEMMA ChannelInit ==
    ASSUME Init
    PROVE  ChannelInv
  <1> USE DEF Init
  <1>1. TypeOK
    <2>1. ChannelType
      <3>1. \A c \in Channels : EmptyRing(c) \in RingType(c) /\ EmptyRing(c).head = 0
        BY BufferLenAssumption DEF EmptyRing, RingType
      <3> QED
        BY <3>1 DEF ChannelType
    <2>2. RegisterType /\ ControlType
      BY DEF RegisterType, ControlType, ControlPoints, NoJob
    <2> QED
      BY <2>1, <2>2 DEF TypeOK
  <1>2. NoMissedMatch
    BY DEF NoMissedMatch
  <1>3. PendingInv /\ TodoInv /\ JobInv /\ WakeInv
    BY DEF PendingInv, TodoInv, JobInv, WakeInv
  <1>4. QueuedInv /\ UniqueInv
    BY DEF QueuedInv, UniqueInv, OneRequestEach
  <1>5. AnswerInv
    BY DEF AnswerInv, AnswerOK, Positions, NoOp
  <1> QED
    BY <1>1, <1>2, <1>3, <1>4, <1>5 DEF ChannelInv

(* The inductive invariant is preserved by every step. *)
LEMMA ChannelStep ==
    ASSUME DistinctTables, ChannelInv, [Next]_vars
    PROVE  ChannelInv'
  <1>1. ASSUME NEW t \in Threads, Step(t) PROVE ChannelInv'
    <2>1. TypeOK'
      BY <1>1, TypeStep DEF ChannelInv
    <2>2. NoMissedMatch' /\ PendingInv' /\ TodoInv' /\ JobInv'
      BY <1>1, MissedStep, PendingStep, TodoStep, JobStep
    <2>3. QueuedInv' /\ UniqueInv' /\ WakeInv' /\ AnswerInv'
      BY <1>1, QueuedStep, UniqueStep, WakeStep, AnswerStep
    <2> QED
      BY <2>1, <2>2, <2>3 DEF ChannelInv
  <1>2. CASE UNCHANGED vars
    <2> USE <1>2 DEF vars, chanVars, regVars, ctlVars
    <2>1. TypeOK'
      BY DEF ChannelInv, TypeOK, ChannelType, RegisterType, ControlType
    <2>2. NoMissedMatch' /\ PendingInv' /\ TodoInv'
      BY DEF ChannelInv, NoMissedMatch, PendingInv, TodoInv, HasRoom, HasData, Positions
    <2>3. JobInv' /\ WakeInv' /\ AnswerInv'
      BY DEF ChannelInv, JobInv, JobOK, WakeInv, AnswerInv, AnswerOK, Positions
    <2>4. QueuedInv' /\ UniqueInv'
      <3>1. \A r, c : RequestOK(r, c)' <=> RequestOK(r, c)
        BY DEF RequestOK, Positions
      <3>2. QueuedInv'
        BY <3>1 DEF ChannelInv, QueuedInv
      <3>3. UniqueInv'
        BY DEF ChannelInv, UniqueInv, OneRequestEach
      <3> QED
        BY <3>2, <3>3
    <2> QED
      BY <2>1, <2>2, <2>3, <2>4 DEF ChannelInv
  <1> QED
    BY <1>1, <1>2 DEF Next

(* The inductive invariant holds in every reachable state of every program *)
(* whose alt tables name no channel twice, for any number of threads,      *)
(* channels and buffer slots.                                              *)
THEOREM ChannelInvariant ==
    ASSUME DistinctTables
    PROVE  Spec => []ChannelInv
  <1>1. Init => ChannelInv
    BY ChannelInit
  <1>2. DistinctTables /\ ChannelInv /\ [Next]_vars => ChannelInv'
    BY ChannelStep
  <1>3. DistinctTables
    OBVIOUS
  <1> QED
    BY <1>1, <1>2, <1>3, PTL DEF Spec

(* The channel operations keep the queues, the ring buffers, the thread    *)
(* registers and the control state well typed; in particular the head and  *)
(* the count of a ring never leave its buffer (channel.cpp 258-309).       *)
THEOREM TypeCorrect ==
    ASSUME DistinctTables
    PROVE  Spec => []TypeOK
  <1>1. ChannelInv => TypeOK
    BY DEF ChannelInv
  <1> QED
    BY <1>1, ChannelInvariant, PTL

(* send_data and receive_data never leave two requests asleep that could   *)
(* complete each other, nor a sender beside a free buffer slot, nor a      *)
(* receiver beside a buffered message.                                     *)
THEOREM NoMissedMatchAlways ==
    ASSUME DistinctTables
    PROVE  Spec => []NoMissedMatch
  <1>1. ChannelInv => NoMissedMatch
    BY DEF ChannelInv
  <1> QED
    BY <1>1, ChannelInvariant, PTL

(* A request that can still be matched belongs to the instruction its      *)
(* thread is executing and sits where that instruction's table says.       *)
THEOREM NoRevivedRequestAlways ==
    ASSUME DistinctTables
    PROVE  Spec => []NoRevivedRequest
  <1>1. ASSUME ChannelInv PROVE NoRevivedRequest
    <2>1. ASSUME NEW c \in Channels, NEW q \in Queued(c) PROVE RequestOK(q, c)
      BY <1>1, <2>1 DEF ChannelInv, QueuedInv, Queued
    <2>2. \A c \in Channels : \A q \in Queued(c) :
            /\ q.op = opno[q.thread] /\ q.slot \in Positions(q.thread)
            /\ op[q.thread].channels[q.slot] = c
      BY <2>1 DEF RequestOK
    <2> QED
      BY <1>1, <2>2 DEF ChannelInv, QueuedInv, NoRevivedRequest
  <1> QED
    BY <1>1, ChannelInvariant, PTL

(* When a thread leaves its instruction, or is put back into the run       *)
(* queue, no channel holds a request of it.                                *)
THEOREM NoLeftoverAlways ==
    ASSUME DistinctTables
    PROVE  Spec => []NoLeftover
  <1>1. ASSUME ChannelInv PROVE NoLeftover
    <2>1. ASSUME NEW c \in Channels, NEW q \in Queued(c) PROVE RequestOK(q, c)
      BY <1>1, <2>1 DEF ChannelInv, QueuedInv, Queued
    <2> QED
      BY <2>1 DEF NoLeftover, RequestOK
  <1> QED
    BY <1>1, ChannelInvariant, PTL

(* A thread parked as blocked whose request was completed has a worker     *)
(* that is about to put it back into the run queue.                        *)
THEOREM NoLostWakeupAlways ==
    ASSUME DistinctTables
    PROVE  Spec => []NoLostWakeup
  <1>1. ASSUME ChannelInv PROVE NoLostWakeup
    BY <1>1 DEF ChannelInv, WakeInv, NoLostWakeup
  <1> QED
    BY <1>1, ChannelInvariant, PTL

(* An alt reports the position that was completed, whoever completed it,   *)
(* and what it received is in the slot of that position.                   *)
THEOREM AltAnswerAlways ==
    ASSUME DistinctTables
    PROVE  Spec => []AltAnswer
  <1>1. ASSUME ChannelInv PROVE AltAnswer
    BY <1>1 DEF ChannelInv, AnswerInv, AnswerOK, AltAnswer
  <1> QED
    BY <1>1, ChannelInvariant, PTL

-----------------------------------------------------------------------------
(* The ring buffer is a queue *)

(* Messages of ring b, whose buffer has n slots, oldest first. *)
Listed(b, n) == [k \in 1 .. b.count |-> b.data[(b.head + k - 1) % n]]

(* Indices that run at most once past the end of the buffer wrap to its    *)
(* start.                                                                  *)
LEMMA Wrapped ==
    ASSUME NEW n \in Nat, NEW x \in Nat, x < 2 * n
    PROVE  x % n = IF x >= n THEN x - n ELSE x
  <1>1. CASE x < n
    <2>1. x % n = x
      BY <1>1
    <2> QED
      BY <1>1, <2>1
  <1>2. CASE x >= n
    <2>1. x % n = x - n
      BY <1>2
    <2> QED
      BY <1>2, <2>1
  <1> QED
    BY <1>1, <1>2

(* The positions of a ring that are in use. *)
LEMMA SlotInUse ==
    ASSUME NEW c \in Channels, NEW b \in RingType(c), b.head < BufferLen[c],
           NEW k \in 1 .. BufferLen[c]
    PROVE  /\ (b.head + k - 1) % BufferLen[c] =
                IF b.head + k - 1 >= BufferLen[c] THEN b.head + k - 1 - BufferLen[c]
                ELSE b.head + k - 1
           /\ (b.head + k - 1) % BufferLen[c] \in 0 .. BufferLen[c] - 1
  <1> DEFINE n == BufferLen[c]  x == b.head + k - 1
  <1>1. n \in Nat /\ x \in Nat /\ x < 2 * n /\ b.head \in Nat
    BY BufferLenAssumption DEF RingType
  <1>2. x % n = IF x >= n THEN x - n ELSE x
    BY <1>1, Wrapped
  <1> QED
    BY <1>1, <1>2

(* The messages of a ring are a sequence as long as its count. *)
LEMMA ListedType ==
    ASSUME NEW c \in Channels, NEW b \in RingType(c),
           b.head < BufferLen[c] \/ b.head = 0
    PROVE  /\ Listed(b, BufferLen[c]) \in Seq(Requests \cup {Nil})
           /\ Len(Listed(b, BufferLen[c])) = b.count
           /\ b.count = 0 <=> Listed(b, BufferLen[c]) = <<>>
  <1> DEFINE n == BufferLen[c]
  <1>1. n \in Nat /\ b.count \in 0 .. n /\ b.data \in [0 .. n - 1 -> Requests \cup {Nil}]
    BY BufferLenAssumption DEF RingType
  <1>2. \A k \in 1 .. b.count : b.data[(b.head + k - 1) % n] \in Requests \cup {Nil}
    <2> TAKE k \in 1 .. b.count
    <2>1. b.head < n /\ k \in 1 .. n
      BY <1>1 DEF RingType
    <2>2. (b.head + k - 1) % n \in 0 .. n - 1
      BY <2>1, SlotInUse
    <2> QED
      BY <1>1, <2>2
  <1>3. Listed(b, n) \in [1 .. b.count -> Requests \cup {Nil}]
    BY <1>2 DEF Listed
  <1>4. Listed(b, n) \in Seq(Requests \cup {Nil}) /\ Len(Listed(b, n)) = b.count
    BY <1>1, <1>3
  <1> QED
    BY <1>1, <1>4

(* try_send_to_buffer appends a message. *)
LEMMA SendAppends ==
    ASSUME NEW c \in Channels, NEW b \in RingType(c), NEW m \in Requests,
           b.head < BufferLen[c], b.count < BufferLen[c]
    PROVE  Listed(try_send_to_buffer(c, b, m), BufferLen[c]) =
             Append(Listed(b, BufferLen[c]), m)
  <1> DEFINE n == BufferLen[c]  s == try_send_to_buffer(c, b, m)
             next == IF b.head + b.count >= n THEN b.head + b.count - n ELSE b.head + b.count
  <1>1. /\ s \in RingType(c) /\ s.head = b.head /\ s.count = b.count + 1
        /\ n \in Nat /\ b.count \in Nat /\ b.head \in Nat
        /\ b.data \in [0 .. n - 1 -> Requests \cup {Nil}]
    BY RingSend, BufferLenAssumption DEF RingType
  <1>2. s.data = [b.data EXCEPT ![next] = m] /\ next \in 0 .. n - 1
    BY <1>1 DEF try_send_to_buffer
  <1>3. /\ Listed(s, n) \in Seq(Requests \cup {Nil}) /\ Len(Listed(s, n)) = b.count + 1
        /\ Listed(b, n) \in Seq(Requests \cup {Nil}) /\ Len(Listed(b, n)) = b.count
    BY <1>1, ListedType
  <1>4. /\ Append(Listed(b, n), m) \in Seq(Requests \cup {Nil})
        /\ Len(Append(Listed(b, n), m)) = b.count + 1
        /\ \A k \in 1 .. b.count : Append(Listed(b, n), m)[k] = Listed(b, n)[k]
        /\ Append(Listed(b, n), m)[b.count + 1] = m
    BY <1>1, <1>3, AppendProperties
  <1>5. ASSUME NEW k \in 1 .. b.count + 1
        PROVE  Listed(s, n)[k] = Append(Listed(b, n), m)[k]
    <2> DEFINE at == (b.head + k - 1) % n
    <2>1. /\ at = IF b.head + k - 1 >= n THEN b.head + k - 1 - n ELSE b.head + k - 1
          /\ at \in 0 .. n - 1
      BY <1>1, SlotInUse
    <2>2. Listed(s, n)[k] = s.data[at]
      BY <1>1 DEF Listed
    <2>3. CASE k = b.count + 1
      <3>1. at = next
        BY <1>1, <2>1, <2>3
      <3> QED
        BY <1>1, <1>2, <1>4, <2>2, <2>3, <3>1
    <2>4. CASE k \in 1 .. b.count
      <3>1. at # next
        <4> HIDE DEF at
        <4> QED
          BY <1>1, <2>1, <2>4
      <3>2. s.data[at] = b.data[at]
        BY <1>1, <1>2, <2>1, <3>1
      <3>3. Listed(b, n)[k] = b.data[at]
        BY <2>4 DEF Listed
      <3> QED
        BY <1>4, <2>2, <2>4, <3>2, <3>3
    <2>5. k = b.count + 1 \/ k \in 1 .. b.count
      <3> HIDE DEF n, s, next, at
      <3> QED
        BY <1>1
    <2> QED
      BY <2>3, <2>4, <2>5
  <1>6. Listed(s, n) = Append(Listed(b, n), m)
    <2> HIDE DEF n, s
    <2> QED
      BY <1>3, <1>4, <1>5, SeqEqual
  <1> QED
    BY <1>6

(* try_receive_from_buffer takes the oldest message. *)
LEMMA ReceiveTakesOldest ==
    ASSUME NEW c \in Channels, NEW b \in RingType(c),
           b.head < BufferLen[c], b.count > 0
    PROVE  /\ Listed(try_receive_from_buffer(c, b), BufferLen[c]) =
                Tail(Listed(b, BufferLen[c]))
           /\ Listed(b, BufferLen[c]) # <<>>
           /\ Head(Listed(b, BufferLen[c])) = b.data[b.head]
  <1> DEFINE n == BufferLen[c]  s == try_receive_from_buffer(c, b)
  <1>1. /\ s \in RingType(c) /\ s.head < n /\ s.count = b.count - 1 /\ s.data = b.data
        /\ n \in Nat /\ b.count \in 1 .. n /\ b.head \in Nat
        /\ s.head = IF b.head + 1 = n THEN 0 ELSE b.head + 1
    BY RingReceive, BufferLenAssumption DEF RingType, try_receive_from_buffer
  <1>2. /\ Listed(s, n) \in Seq(Requests \cup {Nil}) /\ Len(Listed(s, n)) = b.count - 1
        /\ Listed(b, n) \in Seq(Requests \cup {Nil}) /\ Len(Listed(b, n)) = b.count
        /\ Listed(b, n) # <<>>
    BY <1>1, ListedType
  <1>3. /\ Tail(Listed(b, n)) \in Seq(Requests \cup {Nil})
        /\ Len(Tail(Listed(b, n))) = b.count - 1
        /\ \A k \in 1 .. b.count - 1 : Tail(Listed(b, n))[k] = Listed(b, n)[k + 1]
        /\ Head(Listed(b, n)) = Listed(b, n)[1]
    BY <1>2, HeadTailProperties
  <1>4. ASSUME NEW k \in 1 .. b.count - 1
        PROVE  Listed(s, n)[k] = Tail(Listed(b, n))[k]
    <2>1. (s.head + k - 1) % n =
            IF s.head + k - 1 >= n THEN s.head + k - 1 - n ELSE s.head + k - 1
      BY <1>1, SlotInUse
    <2>2. (b.head + (k + 1) - 1) % n =
            IF b.head + (k + 1) - 1 >= n THEN b.head + (k + 1) - 1 - n
            ELSE b.head + (k + 1) - 1
      <3>1. k + 1 \in 1 .. BufferLen[c]
        BY <1>1
      <3> QED
        BY <1>1, <3>1, SlotInUse
    <2>3. (s.head + k - 1) % n = (b.head + (k + 1) - 1) % n
      BY <1>1, <2>1, <2>2
    <2>4. Listed(s, n)[k] = b.data[(s.head + k - 1) % n]
      BY <1>1 DEF Listed
    <2>5. Listed(b, n)[k + 1] = b.data[(b.head + (k + 1) - 1) % n]
      BY <1>1 DEF Listed
    <2> QED
      BY <1>3, <2>3, <2>4, <2>5
  <1>5. Listed(b, n)[1] = b.data[b.head]
    <2>1. 1 \in 1 .. BufferLen[c] /\ 1 \in 1 .. b.count
      BY <1>1
    <2>2. (b.head + 1 - 1) % n = b.head
      BY <1>1, <2>1, SlotInUse
    <2> QED
      BY <1>1, <2>1, <2>2 DEF Listed
  <1>6. Listed(s, n) = Tail(Listed(b, n))
    <2> HIDE DEF n, s
    <2> QED
      BY <1>2, <1>3, <1>4, SeqEqual
  <1> QED
    BY <1>2, <1>3, <1>5, <1>6

-----------------------------------------------------------------------------
(* Each call is one operation on the FIFOs *)

(* The FIFOs that ChannelAbstract sees. *)
Fifo == [c \in Channels |-> Contents(c)]

(* A FIFO holds what the ring of its channel holds. *)
LEMMA FifoType ==
    ASSUME TypeOK, NEW c \in Channels
    PROVE  /\ Fifo[c] = Listed(ring[c], BufferLen[c])
           /\ Fifo[c] \in Seq(Requests \cup {Nil})
           /\ Len(Fifo[c]) = ring[c].count
           /\ ring[c].count = 0 <=> Fifo[c] = <<>>
  <1>1. Fifo[c] = Listed(ring[c], BufferLen[c])
    BY DEF Fifo, Contents, Listed
  <1>2. ring[c] \in RingType(c) /\ (ring[c].head < BufferLen[c] \/ ring[c].head = 0)
    BY DEF TypeOK, ChannelType
  <1> QED
    BY <1>1, <1>2, ListedType

(* A step changes the FIFO of the channel whose ring it changes. *)
LEMMA FifoChange ==
    ASSUME NEW c \in Channels, NEW b, ring' = [ring EXCEPT ![c] = b],
           \A d \in Channels : d \in DOMAIN ring
    PROVE  Fifo' = [Fifo EXCEPT ![c] = Listed(b, BufferLen[c])]
  BY DEF Fifo, Contents, Listed

(* ... and none if it changes no ring. *)
LEMMA FifoSame ==
    ASSUME ring' = ring
    PROVE  Fifo' = Fifo
  BY DEF Fifo, Contents

(* What the abstract operations need beyond ChannelInv: there is a ring    *)
(* for every channel, and only nbalt polls.                                *)
PollInv ==
    /\ DOMAIN ring = Channels
    /\ \A t \in Threads : pc[t] = "poll" => op[t].kind = "nbalt"

(* The side conditions hold at the start. *)
LEMMA PollInit ==
    ASSUME Init
    PROVE  PollInv
  BY DEF Init, PollInv

(* ... and every step keeps them. *)
LEMMA PollStep ==
    ASSUME ChannelInv, PollInv, NEW t \in Threads, Step(t)
    PROVE  PollInv'
  <1> USE DEF ChannelInv, PollInv, TypeOK, ControlType, chanVars, regVars
  <1>1. ASSUME NEW o \in Instructions, Begin(t, o) PROVE PollInv'
    BY <1>1 DEF Begin
  <1>2. CASE Break(t)
    BY <1>2 DEF Break
  <1>3. ASSUME NEW i \in todo[t], TryNotPending(t, i) PROVE PollInv'
    BY <1>3 DEF TryNotPending, NotHandled
  <1>4. ASSUME NEW i, NEW c, SendMatch(t, i, c) PROVE PollInv'
    BY <1>4 DEF SendMatch, Matched
  <1>5. ASSUME NEW i, NEW c, SendBuffer(t, i, c) PROVE PollInv'
    BY <1>5 DEF SendBuffer, Handled, Complete
  <1>6. ASSUME NEW i, NEW c, SendQueue(t, i, c) PROVE PollInv'
    BY <1>6 DEF SendQueue, NotHandled
  <1>7. ASSUME NEW i, NEW c, ReceiveMatch(t, i, c) PROVE PollInv'
    BY <1>7 DEF ReceiveMatch, Matched
  <1>8. ASSUME NEW i, NEW c, ReceiveBuffer(t, i, c) PROVE PollInv'
    BY <1>8 DEF ReceiveBuffer, Handled, Complete
  <1>9. ASSUME NEW i, NEW c, ReceiveQueue(t, i, c) PROVE PollInv'
    BY <1>9 DEF ReceiveQueue, NotHandled
  <1>10. CASE CallbackCancel(t)
    BY <1>10 DEF CallbackCancel
  <1>11. CASE CallbackEnqueue(t)
    BY <1>11 DEF CallbackEnqueue, JobInv, JobOK
  <1>12. CASE CallReturns(t)
    BY <1>12 DEF CallReturns, Handled, Complete
  <1>13. CASE CancelOwn(t)
    BY <1>13 DEF CancelOwn, Complete
  <1>14. CASE Poll(t)
    BY <1>14 DEF Poll
  <1>15. CASE Withdraw(t)
    BY <1>15 DEF Withdraw, Complete
  <1>16. CASE Park(t) \/ Dispatch(t)
    BY <1>16 DEF Park, Dispatch
  <1> QED
    BY StepCases, <1>1, <1>2, <1>3, <1>4, <1>5, <1>6, <1>7, <1>8, <1>9, <1>10,
       <1>11, <1>12, <1>13, <1>14, <1>15, <1>16

-----------------------------------------------------------------------------
(* A pending request is an offer *)

(* A queued receiver that is pending offers to receive. *)
LEMMA RequestOffers ==
    ASSUME TypeOK, NEW r \in Requests, NEW c, RequestOK(r, c), pending[r.thread]
    PROVE  /\ r.thread \in Threads
           /\ r.slot \in 1 .. Len(op[r.thread].channels)
           /\ r = Abstract!Message(r.thread, r.slot)
           /\ r.slot <= op[r.thread].send_count => Abstract!OffersSend(r.thread, r.slot, c)
           /\ r.slot > op[r.thread].send_count => Abstract!OffersReceive(r.thread, r.slot, c)
  <1>1. /\ r.thread \in Threads /\ r.op = opno[r.thread]
        /\ r.slot \in 1 .. Len(op[r.thread].channels)
        /\ op[r.thread].channels[r.slot] = c
    BY DEF RequestOK, Positions, Requests
  <1>2. r = [thread |-> r.thread, op |-> r.op, slot |-> r.slot]
    BY DEF Requests
  <1> QED
    BY <1>1, <1>2 DEF Abstract!Message, Abstract!OffersSend, Abstract!OffersReceive

(* The thread that calls send_data or receive_data makes an offer too. *)
LEMMA CallOffers ==
    ASSUME TypeOK, TodoInv, NEW t \in Threads, NEW i, NEW c, InCall(t, i, c)
    PROVE  /\ i \in 1 .. Len(op[t].channels)
           /\ Request(t, i) = Abstract!Message(t, i)
           /\ i <= op[t].send_count => Abstract!OffersSend(t, i, c)
           /\ ~(i <= op[t].send_count) => Abstract!OffersReceive(t, i, c)
  <1>1. i \in Positions(t) /\ i \in Nat /\ op[t].send_count \in Nat
    BY CallType, OpType
  <1> QED
    BY <1>1 DEF InCall, Positions, Request, Abstract!Message, Abstract!OffersSend,
                Abstract!OffersReceive

-----------------------------------------------------------------------------
(* Each call is one operation *)

(* send_data to a queued receiver: the buffer is empty and the message is  *)
(* handed over.                                                            *)
LEMMA SendMatchExchanges ==
    ASSUME DistinctTables, ChannelInv, NEW t \in Threads, NEW i, NEW c, InCall(t, i, c),
           i <= op[t].send_count, SendMatch(t, i, c)
    PROVE  \E r \in Threads : \E j \in 1 .. Len(op[r].channels) :
             Abstract!Exchange(t, i, r, j, c)
  <1> USE DEF ChannelInv
  <1>1. PICK k \in 1 .. Len(receivers[c]) : SendMatch(t, i, c)!1!(k)
    BY DEF SendMatch
  <1> DEFINE r == receivers[c][k]
             u == r.thread
             m == Request(t, i)
  <1>2. /\ r \in Requests /\ u \in Threads \ {t} /\ pending[u] /\ RequestOK(r, c)
        /\ r.slot > op[u].send_count
    BY <1>1, ReceiverFound
  <1>3. /\ pending' = [pending EXCEPT ![t] = FALSE, ![u] = FALSE]
        /\ chosen' = [chosen EXCEPT ![t] = i, ![u] = r.slot]
        /\ got' = [got EXCEPT ![u] = [slot |-> r.slot, msg |-> m]]
        /\ UNCHANGED <<opno, op, ring>>
    BY <1>1 DEF SendMatch, Matched, Received
  <1>4. c \in Channels /\ m \in Requests /\ receivers[c] \in Seq(Requests)
    BY CallType
  <1>5. Fifo[c] = <<>>
    <2>1. receivers[c] # <<>>
      BY <1>4
    <2>2. ring[c].count = 0
      BY <1>4, <2>1 DEF NoMissedMatch, HasData, TypeOK, ChannelType, RingType
    <2> QED
      BY <1>4, <2>2, FifoType
  <1>6. Fifo' = [Fifo EXCEPT ![c] = Tail(Append(Fifo[c], m))] /\ Head(Append(Fifo[c], m)) = m
    <2>1. Append(<<>>, m) = <<m>> /\ Tail(<<m>>) = <<>> /\ Head(<<m>>) = m
      OBVIOUS
    <2>2. [Fifo EXCEPT ![c] = <<>>] = Fifo
      BY <1>4, <1>5 DEF Fifo
    <2>3. Fifo' = Fifo
      BY <1>3, FifoSame
    <2> QED
      BY <1>5, <2>1, <2>2, <2>3
  <1>7. /\ Abstract!OffersSend(t, i, c) /\ m = Abstract!Message(t, i)
        /\ Abstract!OffersReceive(u, r.slot, c) /\ r.slot \in 1 .. Len(op[u].channels)
    BY <1>2, CallOffers, RequestOffers
  <1>8. Abstract!Exchange(t, i, u, r.slot, c)
    <2> HIDE DEF r, u, m
    <2> QED
      BY <1>2, <1>3, <1>5, <1>6, <1>7 DEF Abstract!Exchange, Fifo
  <1> QED
    BY <1>2, <1>7, <1>8

(* send_data into the buffer: the message goes to the end. *)
LEMMA SendBufferDeposits ==
    ASSUME ChannelInv, PollInv, NEW t \in Threads, NEW i, NEW c, InCall(t, i, c),
           i <= op[t].send_count, SendBuffer(t, i, c)
    PROVE  Abstract!Deposit(t, i, c)
  <1> USE DEF ChannelInv
  <1> DEFINE m == Request(t, i)
             new == try_send_to_buffer(c, ring[c], m)
  <1>1. c \in Channels /\ m \in Requests /\ ring[c] \in RingType(c)
    BY CallType
  <1>2. ring[c].count < BufferLen[c] /\ ring[c].head < BufferLen[c]
    <2>1. ring[c].count < BufferLen[c]
      BY DEF SendBuffer, HasRoom
    <2> QED
      BY <1>1, <2>1, BufferLenAssumption DEF TypeOK, ChannelType, RingType
  <1>3. Fifo[c] = Listed(ring[c], BufferLen[c]) /\ Len(Fifo[c]) = ring[c].count
    BY <1>1, FifoType
  <1>4. Listed(new, BufferLen[c]) = Append(Fifo[c], m)
    BY <1>1, <1>2, <1>3, SendAppends
  <1>5. ring' = [ring EXCEPT ![c] = new]
    BY DEF SendBuffer
  <1>6. Fifo' = [Fifo EXCEPT ![c] = Append(Fifo[c], m)]
    <2> HIDE DEF new, m
    <2> QED
      BY <1>1, <1>4, <1>5, FifoChange DEF PollInv
  <1>7. /\ pending' = [pending EXCEPT ![t] = FALSE] /\ chosen' = [chosen EXCEPT ![t] = i]
        /\ UNCHANGED <<opno, op, got>>
    BY DEF SendBuffer
  <1>8. Abstract!OffersSend(t, i, c) /\ m = Abstract!Message(t, i)
    BY CallOffers
  <1> HIDE DEF m
  <1> QED
    BY <1>2, <1>3, <1>6, <1>7, <1>8 DEF Abstract!Deposit, Fifo

(* receive_data from a queued sender: it takes the oldest message and the  *)
(* sender's goes to the end, or straight over if there is no buffer.       *)
LEMMA ReceiveMatchExchanges ==
    ASSUME DistinctTables, ChannelInv, PollInv, NEW t \in Threads, NEW i, NEW c,
           InCall(t, i, c), ~(i <= op[t].send_count), ReceiveMatch(t, i, c)
    PROVE  \E s \in Threads : \E j \in 1 .. Len(op[s].channels) :
             Abstract!Exchange(s, j, t, i, c)
  <1> USE DEF ChannelInv
  <1>1. PICK k \in 1 .. Len(senders[c]) : ReceiveMatch(t, i, c)!1!(k)
    BY DEF ReceiveMatch
  <1> DEFINE s == senders[c][k]
             u == s.thread
             now == Append(Fifo[c], s)
  <1>2. /\ s \in Requests /\ u \in Threads \ {t} /\ pending[u] /\ RequestOK(s, c)
        /\ s.slot <= op[u].send_count /\ ~HasRoom(c)
    BY <1>1, SenderFound
  <1>3. /\ pending' = [pending EXCEPT ![t] = FALSE, ![u] = FALSE]
        /\ chosen' = [chosen EXCEPT ![t] = i, ![u] = s.slot]
        /\ UNCHANGED <<opno, op>>
    BY <1>1 DEF Matched
  <1>4. c \in Channels /\ ring[c] \in RingType(c) /\ ring[c].count = BufferLen[c]
    BY <1>2, CallType, BufferLenAssumption DEF HasRoom, RingType
  <1>5. /\ Fifo[c] = Listed(ring[c], BufferLen[c]) /\ Len(Fifo[c]) = BufferLen[c]
        /\ Fifo[c] \in Seq(Requests \cup {Nil})
    BY <1>4, FifoType
  <1>6. Fifo' = [Fifo EXCEPT ![c] = Tail(now)] /\ got' = [got EXCEPT ![t] = [slot |-> i, msg |-> Head(now)]]
    <2>1. CASE HasData(c)
      <3> DEFINE mid == try_receive_from_buffer(c, ring[c])
                 new == try_send_to_buffer(c, mid, s)
      <3>1. ring[c].count > 0 /\ ring[c].head < BufferLen[c]
        BY <1>4, <2>1 DEF HasData, TypeOK, ChannelType, RingType
      <3>2. /\ mid \in RingType(c) /\ mid.head < BufferLen[c] /\ mid.count < BufferLen[c]
            /\ Listed(mid, BufferLen[c]) = Tail(Fifo[c])
            /\ Fifo[c] # <<>> /\ Head(Fifo[c]) = Oldest(c)
        BY <1>4, <1>5, <3>1, RingReceive, ReceiveTakesOldest, BufferLenAssumption DEF Oldest
      <3>3. Listed(new, BufferLen[c]) = Append(Tail(Fifo[c]), s)
        <4> HIDE DEF mid
        <4> QED
          BY <1>2, <1>4, <3>2, SendAppends
      <3>4. Tail(now) = Append(Tail(Fifo[c]), s) /\ Head(now) = Head(Fifo[c])
        BY <1>2, <1>5, <3>2
      <3>5. /\ ring' = [ring EXCEPT ![c] = new]
            /\ got' = [got EXCEPT ![t] = [slot |-> i, msg |-> Oldest(c)]]
        BY <1>1, <2>1 DEF Received
      <3> HIDE DEF new, now
      <3> QED
        BY <1>4, <3>2, <3>3, <3>4, <3>5, FifoChange DEF PollInv
    <2>2. CASE ~HasData(c)
      <3>1. /\ ring' = ring /\ got' = [got EXCEPT ![t] = [slot |-> i, msg |-> s]]
        BY <1>1, <2>2 DEF Received
      <3>2. Fifo[c] = <<>>
        BY <1>4, <1>5, <2>2, FifoType DEF HasData, RingType
      <3>3. Tail(now) = <<>> /\ Head(now) = s
        BY <3>2
      <3>4. [Fifo EXCEPT ![c] = <<>>] = Fifo
        BY <1>4, <3>2 DEF Fifo
      <3> HIDE DEF now
      <3> QED
        BY <3>1, <3>3, <3>4, FifoSame
    <2> QED
      BY <2>1, <2>2
  <1>7. /\ Abstract!OffersReceive(t, i, c) /\ s = Abstract!Message(u, s.slot)
        /\ Abstract!OffersSend(u, s.slot, c) /\ s.slot \in 1 .. Len(op[u].channels)
    BY <1>2, CallOffers, RequestOffers
  <1>8. Abstract!Exchange(u, s.slot, t, i, c)
    <2>1. /\ pending' = [pending EXCEPT ![u] = FALSE, ![t] = FALSE]
          /\ chosen' = [chosen EXCEPT ![u] = s.slot, ![t] = i]
      BY <1>2, <1>3 DEF TypeOK, RegisterType, ControlType
    <2> HIDE DEF s, u
    <2> QED
      BY <1>2, <1>3, <1>5, <1>6, <1>7, <2>1 DEF Abstract!Exchange, Fifo
  <1> QED
    BY <1>2, <1>7, <1>8

(* receive_data from the buffer. *)
LEMMA ReceiveBufferCollects ==
    ASSUME ChannelInv, PollInv, NEW t \in Threads, NEW i, NEW c, InCall(t, i, c),
           ~(i <= op[t].send_count), ReceiveBuffer(t, i, c)
    PROVE  Abstract!Collect(t, i, c)
  <1> USE DEF ChannelInv
  <1> DEFINE new == try_receive_from_buffer(c, ring[c])
  <1>1. c \in Channels /\ ring[c] \in RingType(c)
    BY CallType
  <1>2. ring[c].count > 0 /\ ring[c].head < BufferLen[c]
    <2>1. ring[c].count > 0
      BY DEF ReceiveBuffer, HasData
    <2> QED
      BY <1>1, <2>1, BufferLenAssumption DEF TypeOK, ChannelType, RingType
  <1>3. Fifo[c] = Listed(ring[c], BufferLen[c])
    BY <1>1, FifoType
  <1>4. /\ Listed(new, BufferLen[c]) = Tail(Fifo[c])
        /\ Fifo[c] # <<>> /\ Head(Fifo[c]) = Oldest(c)
    BY <1>1, <1>2, <1>3, ReceiveTakesOldest DEF Oldest
  <1>5. ring' = [ring EXCEPT ![c] = new]
    BY DEF ReceiveBuffer
  <1>6. Fifo' = [Fifo EXCEPT ![c] = Tail(Fifo[c])]
    <2> HIDE DEF new
    <2> QED
      BY <1>1, <1>4, <1>5, FifoChange DEF PollInv
  <1>7. /\ pending' = [pending EXCEPT ![t] = FALSE] /\ chosen' = [chosen EXCEPT ![t] = i]
        /\ got' = [got EXCEPT ![t] = [slot |-> i, msg |-> Head(Fifo[c])]]
        /\ UNCHANGED <<opno, op>>
    BY <1>4 DEF ReceiveBuffer, Received
  <1>8. Abstract!OffersReceive(t, i, c)
    BY CallOffers
  <1> QED
    BY <1>4, <1>6, <1>7, <1>8 DEF Abstract!Collect, Fifo

(* The start of an instruction issues its offers. *)
LEMMA BeginIssues ==
    ASSUME ChannelInv, NEW t \in Threads, NEW o \in Instructions, pc[t] = "idle", Begin(t, o)
    PROVE  Abstract!Issue(t)
  <1>1. ~pending[t]
    BY DEF ChannelInv, PendingInv, MayBeCompleted
  <1>2. Fifo' = Fifo
    BY FifoSame DEF Begin, chanVars
  <1>3. \A u \in Threads \ {t} : op'[u] = op[u]
    BY DEF Begin, ChannelInv, TypeOK, ControlType
  <1> QED
    BY <1>1, <1>2, <1>3 DEF Begin, Abstract!Issue, Fifo

(* A poll that finds the request pending gives up. *)
LEMMA PollGivesUp ==
    ASSUME PollInv, NEW t \in Threads, Poll(t), pending[t]
    PROVE  Abstract!GiveUp(t)
  <1>1. Fifo' = Fifo
    BY FifoSame DEF Poll, chanVars
  <1> QED
    BY <1>1 DEF Poll, PollInv, Abstract!GiveUp, Fifo

(* Everything else is invisible. *)
Invisible == UNCHANGED <<ring, pending, opno, op, chosen, got>>

(* Such a step is a stutter of the FIFOs. *)
LEMMA InvisibleStutters ==
    ASSUME Invisible
    PROVE  UNCHANGED Abstract!absVars
  <1>1. Fifo' = Fifo
    BY FifoSame DEF Invisible
  <1> QED
    BY <1>1 DEF Invisible, Abstract!absVars, Fifo

(* Every step of a thread is one operation on the FIFOs or a stutter. *)
LEMMA StepRefines ==
    ASSUME DistinctTables, ChannelInv, PollInv, NEW t \in Threads, Step(t)
    PROVE  Abstract!Next \/ UNCHANGED Abstract!absVars
  <1> USE DEF chanVars, regVars
  <1>1. ASSUME NEW o \in Instructions, pc[t] = "idle", Begin(t, o) PROVE Abstract!Next
    BY <1>1, BeginIssues DEF Abstract!Next
  <1>2. ASSUME NEW i, NEW c, InCall(t, i, c)
        PROVE  c \in Channels /\ i \in 1 .. Len(op[t].channels)
    BY <1>2, CallType, CallOffers DEF ChannelInv
  <1>3. ASSUME NEW i, NEW c, InCall(t, i, c), i <= op[t].send_count, SendMatch(t, i, c)
        PROVE  Abstract!Next
    BY <1>2, <1>3, SendMatchExchanges DEF Abstract!Next
  <1>4. ASSUME NEW i, NEW c, InCall(t, i, c), i <= op[t].send_count, SendBuffer(t, i, c)
        PROVE  Abstract!Next
    BY <1>2, <1>4, SendBufferDeposits DEF Abstract!Next
  <1>5. ASSUME NEW i, NEW c, InCall(t, i, c), ~(i <= op[t].send_count), ReceiveMatch(t, i, c)
        PROVE  Abstract!Next
    BY <1>2, <1>5, ReceiveMatchExchanges DEF Abstract!Next
  <1>6. ASSUME NEW i, NEW c, InCall(t, i, c), ~(i <= op[t].send_count), ReceiveBuffer(t, i, c)
        PROVE  Abstract!Next
    BY <1>2, <1>6, ReceiveBufferCollects DEF Abstract!Next
  <1>7. CASE Poll(t)
    <2>1. CASE pending[t]
      BY <1>7, <2>1, PollGivesUp DEF Abstract!Next
    <2>2. CASE ~pending[t]
      BY <1>7, <2>2, InvisibleStutters DEF Poll, Invisible
    <2> QED
      BY <2>1, <2>2
  <1>8. ASSUME NEW i, NEW c, SendQueue(t, i, c) \/ ReceiveQueue(t, i, c) PROVE Invisible
    BY <1>8 DEF SendQueue, ReceiveQueue, NotHandled, Invisible
  <1>9. ASSUME NEW i, TryNotPending(t, i) PROVE Invisible
    BY <1>9 DEF TryNotPending, NotHandled, Invisible
  <1>10. CASE \/ Break(t) \/ CallbackCancel(t) \/ CallbackEnqueue(t) \/ CallReturns(t)
              \/ CancelOwn(t) \/ Withdraw(t) \/ Park(t) \/ Dispatch(t)
    <2>1. Invisible
      BY <1>10 DEF Break, CallbackCancel, CallbackEnqueue, CallReturns, CancelOwn,
                   Withdraw, Park, Dispatch, Invisible
    <2> QED
      BY <2>1, InvisibleStutters
  <1> QED
    BY StepCases, <1>1, <1>3, <1>4, <1>5, <1>6, <1>7, <1>8, <1>9, <1>10,
       InvisibleStutters

(* The initial states map to initial states. *)
LEMMA InitRefines ==
    ASSUME Init
    PROVE  Abstract!Init
  <1>1. \A c \in Channels : Contents(c) = <<>>
    <2>1. \A c \in Channels : ring[c].count = 0
      BY DEF Init, EmptyRing
    <2>2. TypeOK
      BY ChannelInit DEF ChannelInv
    <2> QED
      BY <2>1, <2>2, FifoType DEF Fifo
  <1> QED
    BY <1>1 DEF Init, Abstract!Init, NoOp

(* The channels of channel.cpp, with the instructions of                   *)
(* execution_table.cpp, implement bounded FIFOs: no message is lost,       *)
(* duplicated or reordered and each instruction completes at most once,    *)
(* for any threads, channels, buffer lengths and programs whose tables     *)
(* name no channel twice.                                                  *)
THEOREM ChannelsImplementFifo ==
    ASSUME DistinctTables
    PROVE  Spec => ImplementsFifo
  <1>1. Init => Abstract!Init /\ PollInv
    BY InitRefines, PollInit
  <1>2. ChannelInv /\ PollInv /\ [Next]_vars => PollInv'
    <2>1. PollInv /\ UNCHANGED vars => PollInv'
      BY DEF PollInv, vars, chanVars, ctlVars
    <2> QED
      BY <2>1, PollStep DEF Next
  <1>3. DistinctTables /\ ChannelInv /\ PollInv /\ [Next]_vars => [Abstract!Next]_(Abstract!absVars)
    <2>1. UNCHANGED vars => Invisible
      BY DEF vars, chanVars, regVars, ctlVars, Invisible
    <2> QED
      BY <2>1, StepRefines, InvisibleStutters DEF Next
  <1>4. Spec => []ChannelInv
    BY ChannelInvariant
  <1>5. DistinctTables
    OBVIOUS
  <1> QED
    BY <1>1, <1>2, <1>3, <1>4, <1>5, PTL DEF Spec, ImplementsFifo, Abstract!Spec
=============================================================================
