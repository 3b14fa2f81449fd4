------------------------- MODULE ChannelLocksProofs -------------------------
(***************************************************************************)
(* Proofs about module ChannelLocks, for any threads, channels and         *)
(* programs whose tables name no channel twice: the mutexes are enough for *)
(* every operation to be one step of ChannelAbstract.                      *)
(***************************************************************************)
EXTENDS ChannelLocks, TLAPS

USE NilAssumption, MaxOpsAssumption DEF Parked, AltKinds, MayBeCompleted

-----------------------------------------------------------------------------
(* Queues *)

In(r, q) == \E k \in 1 .. Len(q) : q[k] = r

(* What is left of a queue when its front is dropped. *)
LEMMA TailFacts ==
    ASSUME NEW q \in Seq(Requests), q # <<>>, OneRequestEach(q)
    PROVE  /\ Tail(q) \in Seq(Requests)
           /\ OneRequestEach(Tail(q))
           /\ \A r : In(r, Tail(q)) => In(r, q) /\ r.thread # Head(q).thread
           /\ Head(q) \in Requests /\ In(Head(q), q)
  <1>1. Len(q) \in Nat /\ Len(q) > 0 /\ Head(q) = q[1] /\ Len(Tail(q)) = Len(q) - 1
    OBVIOUS
  <1>2. \A k \in 1 .. Len(Tail(q)) : Tail(q)[k] = q[k + 1] /\ k + 1 \in 1 .. Len(q) /\ k + 1 # 1
    BY <1>1
  <1>3. Tail(q) \in Seq(Requests) /\ Head(q) \in Requests
    BY <1>1
  <1>4. OneRequestEach(Tail(q))
    BY <1>1, <1>2 DEF OneRequestEach
  <1>5. ASSUME NEW r, In(r, Tail(q)) PROVE In(r, q) /\ r.thread # Head(q).thread
    BY <1>1, <1>2, <1>5 DEF In, OneRequestEach
  <1> QED
    BY <1>1, <1>3, <1>4, <1>5 DEF In

(* A request queued at the end. *)
LEMMA AppendFacts ==
    ASSUME NEW q \in Seq(Requests), NEW r \in Requests, OneRequestEach(q),
           ~HasRequest(q, r.thread)
    PROVE  /\ Append(q, r) \in Seq(Requests)
           /\ OneRequestEach(Append(q, r))
           /\ \A x : In(x, Append(q, r)) => In(x, q) \/ x = r
  <1>1. /\ Len(q) \in Nat /\ Len(Append(q, r)) = Len(q) + 1
        /\ \A k \in 1 .. Len(q) + 1 : Append(q, r)[k] = IF k = Len(q) + 1 THEN r ELSE q[k]
    OBVIOUS
  <1>2. OneRequestEach(Append(q, r))
    BY <1>1 DEF OneRequestEach, HasRequest
  <1>3. \A x : In(x, Append(q, r)) => In(x, q) \/ x = r
    BY <1>1 DEF In
  <1> QED
    BY <1>2, <1>3

(* The queue after the request of a thread is erased. *)
LEMMA EraseFacts ==
    ASSUME NEW q \in Seq(Requests), NEW t, NEW k, FirstOf(q, t, k), OneRequestEach(q)
    PROVE  /\ Erase(q, k) \in Seq(Requests)
           /\ OneRequestEach(Erase(q, k))
           /\ \A r : In(r, Erase(q, k)) => In(r, q) /\ r.thread # t
  <1>1. k \in 1 .. Len(q) /\ q[k].thread = t /\ Len(q) - 1 \in Nat
    BY DEF FirstOf
  <1>2. \A j \in 1 .. Len(q) - 1 : (IF j < k THEN q[j] ELSE q[j + 1]) \in Requests
    BY <1>1
  <1>3. Erase(q, k) \in [1 .. Len(q) - 1 -> Requests]
    BY <1>1, <1>2 DEF Erase
  <1>4. Erase(q, k) \in Seq(Requests) /\ Len(Erase(q, k)) = Len(q) - 1
    BY <1>1, <1>3
  <1>5. \A j \in 1 .. Len(q) - 1 : \E i \in 1 .. Len(q) :
            i # k /\ Erase(q, k)[j] = q[i] /\ i = IF j < k THEN j ELSE j + 1
    BY <1>1 DEF Erase
  <1>6. OneRequestEach(Erase(q, k))
    BY <1>1, <1>4, <1>5 DEF OneRequestEach
  <1>7. \A r : In(r, Erase(q, k)) => In(r, q) /\ r.thread # t
    BY <1>1, <1>4, <1>5 DEF In, OneRequestEach
  <1> QED
    BY <1>4, <1>6, <1>7

(* After cancel_request(c, t) the queues of c hold the requests they held  *)
(* but that of t in the receivers or, if it is not there, in the senders;  *)
(* other channels are not touched.                                         *)
LEMMA CancelFacts ==
    ASSUME TypeOK, UniqueInv, NEW c \in Channels, NEW t \in Threads, cancel_request(c, t)
    PROVE  /\ senders' \in [Channels -> Seq(Requests)]
           /\ receivers' \in [Channels -> Seq(Requests)]
           /\ UniqueInv'
           /\ \A d \in Channels \ {c} : senders'[d] = senders[d] /\ receivers'[d] = receivers[d]
           /\ \A r : In(r, senders'[c]) => In(r, senders[c])
           /\ \A r : In(r, receivers'[c]) => In(r, receivers[c]) /\ r.thread # t
           /\ ~HasRequest(receivers[c], t) => \A r : In(r, senders'[c]) => r.thread # t
           /\ dataLock[c] = Nil
  <1>1. /\ senders[c] \in Seq(Requests) /\ receivers[c] \in Seq(Requests)
        /\ senders \in [Channels -> Seq(Requests)] /\ receivers \in [Channels -> Seq(Requests)]
    BY DEF TypeOK
  <1>2. \A d \in Channels : OneRequestEach(senders[d]) /\ OneRequestEach(receivers[d])
    BY DEF UniqueInv
  <1>3. ASSUME NEW q \in Seq(Requests), NEW x, In(x, q), ~HasRequest(q, t) PROVE x.thread # t
    BY <1>3 DEF In, HasRequest
  <1>4. CASE HasRequest(receivers[c], t)
    <2>1. PICK k \in 1 .. Len(receivers[c]) :
              FirstOf(receivers[c], t, k) /\ receivers' = [receivers EXCEPT ![c] = Erase(@, k)]
      BY <1>4 DEF cancel_request, Erased
    <2>2. senders' = senders /\ dataLock[c] = Nil
      BY <1>4 DEF cancel_request
    <2>3. /\ Erase(receivers[c], k) \in Seq(Requests)
          /\ OneRequestEach(Erase(receivers[c], k))
          /\ \A r : In(r, Erase(receivers[c], k)) => In(r, receivers[c]) /\ r.thread # t
      BY <1>1, <1>2, <2>1, EraseFacts
    <2>4. /\ receivers' \in [Channels -> Seq(Requests)]
          /\ receivers'[c] = Erase(receivers[c], k)
          /\ \A d \in Channels \ {c} : receivers'[d] = receivers[d]
      BY <1>1, <2>1, <2>3
    <2>5. UniqueInv'
      BY <1>2, <2>2, <2>3, <2>4 DEF UniqueInv
    <2> QED
      BY <1>1, <1>4, <2>2, <2>3, <2>4, <2>5
  <1>5. CASE ~HasRequest(receivers[c], t) /\ HasRequest(senders[c], t)
    <2>1. PICK k \in 1 .. Len(senders[c]) :
              FirstOf(senders[c], t, k) /\ senders' = [senders EXCEPT ![c] = Erase(@, k)]
      BY <1>5 DEF cancel_request, Erased
    <2>2. receivers' = receivers /\ dataLock[c] = Nil
      BY <1>5 DEF cancel_request
    <2>3. /\ Erase(senders[c], k) \in Seq(Requests)
          /\ OneRequestEach(Erase(senders[c], k))
          /\ \A r : In(r, Erase(senders[c], k)) => In(r, senders[c]) /\ r.thread # t
      BY <1>1, <1>2, <2>1, EraseFacts
    <2>4. /\ senders' \in [Channels -> Seq(Requests)]
          /\ senders'[c] = Erase(senders[c], k)
          /\ \A d \in Channels \ {c} : senders'[d] = senders[d]
      BY <1>1, <2>1, <2>3
    <2>5. UniqueInv'
      BY <1>2, <2>2, <2>3, <2>4 DEF UniqueInv
    <2> QED
      BY <1>1, <1>3, <1>5, <2>2, <2>3, <2>4, <2>5
  <1>6. CASE ~HasRequest(receivers[c], t) /\ ~HasRequest(senders[c], t)
    <2>1. senders' = senders /\ receivers' = receivers /\ dataLock[c] = Nil
      BY <1>6 DEF cancel_request
    <2>2. UniqueInv'
      BY <2>1 DEF UniqueInv
    <2> QED
      BY <1>1, <1>3, <1>6, <2>1, <2>2
  <1> QED
    BY <1>4, <1>5, <1>6

-----------------------------------------------------------------------------
(* Types *)

(* The steps of a thread. *)
Action(t) == Step(t) \/ \E o \in Program[t] : Issue(t, o)

(* The table of a typed thread is a sequence of channels. *)
LEMMA OpType ==
    ASSUME TypeOK, NEW t \in Threads
    PROVE  /\ op[t].channels \in Seq(Channels)
           /\ Len(op[t].channels) \in Nat
           /\ op[t].send_count \in Nat
           /\ Positions(t) \subseteq Nat
           /\ \A i \in Positions(t) : op[t].channels[i] \in Channels
  <1>1. op[t] \in InstructionType \cup {NoOp}
    BY DEF TypeOK
  <1>2. op[t].channels \in Seq(Channels) /\ op[t].send_count \in Nat
    <2>1. CASE op[t] \in InstructionType
      BY <2>1 DEF InstructionType
    <2>2. CASE op[t] = NoOp
      BY <2>2 DEF NoOp
    <2> QED
      BY <1>1, <2>1, <2>2
  <1> QED
    BY <1>2 DEF Positions

(* Types of what a call works on. *)
LEMMA CallType ==
    ASSUME TypeOK, TodoInv, NEW t \in Threads, pc[t] \in {"match", "check", "callback", "cancel"}
    PROVE  /\ Here(t) \in Channels /\ at[t] \in Positions(t) /\ at[t] \in Nat
           /\ Request(t, at[t]) \in Requests
           /\ senders[Here(t)] \in Seq(Requests) /\ receivers[Here(t)] \in Seq(Requests)
           /\ Partners(t) \in Seq(Requests)
  <1>1. at[t] \in Positions(t)
    BY DEF TodoInv
  <1>2. Here(t) \in Channels /\ at[t] \in Nat
    BY <1>1, OpType DEF Here
  <1>3. Request(t, at[t]) \in Requests
    BY <1>2 DEF TypeOK, Request, Requests
  <1> QED
    BY <1>1, <1>2, <1>3 DEF TypeOK, Partners

(* What DropPartner leaves of the queues: the front of the partners' queue *)
(* is gone.                                                                *)
LEMMA DropFacts ==
    ASSUME TypeOK, UniqueInv, TodoInv, NEW t \in Threads, pc[t] = "check",
           Partners(t) # <<>>, DropPartner(t)
    PROVE  /\ senders' \in [Channels -> Seq(Requests)]
           /\ receivers' \in [Channels -> Seq(Requests)]
           /\ UniqueInv'
           /\ \A d \in Channels \ {Here(t)} : senders'[d] = senders[d] /\ receivers'[d] = receivers[d]
           /\ \A r : In(r, senders'[Here(t)]) => In(r, senders[Here(t)])
           /\ \A r : In(r, receivers'[Here(t)]) => In(r, receivers[Here(t)])
           /\ Sending(t) => \A r : In(r, receivers'[Here(t)]) => r.thread # Head(Partners(t)).thread
           /\ ~Sending(t) => \A r : In(r, senders'[Here(t)]) => r.thread # Head(Partners(t)).thread
           /\ Head(Partners(t)) \in Requests
           /\ Sending(t) => In(Head(Partners(t)), receivers[Here(t)])
           /\ ~Sending(t) => In(Head(Partners(t)), senders[Here(t)])
  <1> DEFINE c == Here(t)
  <1>1. c \in Channels /\ senders[c] \in Seq(Requests) /\ receivers[c] \in Seq(Requests)
    BY CallType
  <1>2. \A d \in Channels : OneRequestEach(senders[d]) /\ OneRequestEach(receivers[d])
    BY DEF UniqueInv
  <1>3. CASE Sending(t)
    <2> DEFINE q == receivers[c]
    <2>1. Partners(t) = q /\ senders' = senders /\ receivers' = [receivers EXCEPT ![c] = Tail(q)]
      BY <1>3 DEF Partners, DropPartner
    <2>2. /\ Tail(q) \in Seq(Requests) /\ OneRequestEach(Tail(q))
          /\ \A r : In(r, Tail(q)) => In(r, q) /\ r.thread # Head(q).thread
          /\ Head(q) \in Requests /\ In(Head(q), q)
      BY <1>1, <1>2, <2>1, TailFacts
    <2>3. /\ receivers' \in [Channels -> Seq(Requests)] /\ receivers'[c] = Tail(q)
          /\ \A d \in Channels \ {c} : receivers'[d] = receivers[d]
      BY <1>1, <2>1, <2>2 DEF TypeOK
    <2>4. UniqueInv'
      BY <1>2, <2>1, <2>2, <2>3 DEF UniqueInv
    <2> HIDE DEF c
    <2> QED
      BY <1>3, <2>1, <2>2, <2>3, <2>4 DEF TypeOK, c
  <1>4. CASE ~Sending(t)
    <2> DEFINE q == senders[c]
    <2>1. Partners(t) = q /\ receivers' = receivers /\ senders' = [senders EXCEPT ![c] = Tail(q)]
      BY <1>4 DEF Partners, DropPartner
    <2>2. /\ Tail(q) \in Seq(Requests) /\ OneRequestEach(Tail(q))
          /\ \A r : In(r, Tail(q)) => In(r, q) /\ r.thread # Head(q).thread
          /\ Head(q) \in Requests /\ In(Head(q), q)
      BY <1>1, <1>2, <2>1, TailFacts
    <2>3. /\ senders' \in [Channels -> Seq(Requests)] /\ senders'[c] = Tail(q)
          /\ \A d \in Channels \ {c} : senders'[d] = senders[d]
      BY <1>1, <2>1, <2>2 DEF TypeOK
    <2>4. UniqueInv'
      BY <1>2, <2>1, <2>2, <2>3 DEF UniqueInv
    <2> HIDE DEF c
    <2> QED
      BY <1>4, <2>1, <2>2, <2>3, <2>4 DEF TypeOK, c
  <1> QED
    BY <1>3, <1>4

(* A call that tries a position has no request in the channel of it: the   *)
(* requests of a thread are of positions it has tried.                     *)
LEMMA NoneThere ==
    ASSUME TypeOK, OpInv, DistinctTables, TodoInv, QueuedInv, NEW t \in Threads,
           pc[t] \in {"match", "check", "callback", "cancel"}
    PROVE  ~HasRequest(senders[Here(t)], t) /\ ~HasRequest(receivers[Here(t)], t)
  <1> DEFINE c == Here(t)
  <1>1. c \in Channels /\ at[t] \in Positions(t) /\ at[t] \in todo[t]
    BY CallType DEF TodoInv
  <1>2. op[t] \in Program[t]
    BY <1>1 DEF OpInv, NoOp, Positions
  <1>3. ASSUME NEW r, RequestOK(r, c), r.thread = t PROVE FALSE
    <2>1. r.slot \in Positions(t) /\ op[t].channels[r.slot] = op[t].channels[at[t]] /\ r.slot # at[t]
      BY <1>1, <1>3 DEF RequestOK, Here
    <2> QED
      BY <1>1, <1>2, <2>1 DEF DistinctTables, Positions
  <1> HIDE DEF c
  <1>4. /\ \A k \in 1 .. Len(senders[c]) : RequestOK(senders[c][k], c)
        /\ \A k \in 1 .. Len(receivers[c]) : RequestOK(receivers[c][k], c)
    BY <1>1 DEF QueuedInv
  <1> QED
    BY <1>3, <1>4 DEF HasRequest, c

(* How a step changes the queues.  A request that is in a queue afterwards *)
(* was there before, or is the one that t has just queued; the queues of a *)
(* channel whose mutex another thread holds stay as they are.              *)
LEMMA QueueStep ==
    ASSUME TypeOK, OpInv, DistinctTables, TodoInv, LockInv, CallbackInv, QueuedInv, UniqueInv,
           NEW t \in Threads, Action(t)
    PROVE  /\ senders' \in [Channels -> Seq(Requests)]
           /\ receivers' \in [Channels -> Seq(Requests)]
           /\ UniqueInv'
           /\ \A c \in Channels : \A r : In(r, senders'[c]) =>
                \/ In(r, senders[c])
                \/ Queue(t) /\ c = Here(t) /\ Sending(t) /\ r = Request(t, at[t])
           /\ \A c \in Channels : \A r : In(r, receivers'[c]) =>
                \/ In(r, receivers[c])
                \/ Queue(t) /\ c = Here(t) /\ ~Sending(t) /\ r = Request(t, at[t])
           /\ \A c \in Channels : dataLock[c] \notin {Nil, t} =>
                senders'[c] = senders[c] /\ receivers'[c] = receivers[c]
  <1> DEFINE Result ==
           /\ senders' \in [Channels -> Seq(Requests)]
           /\ receivers' \in [Channels -> Seq(Requests)]
           /\ UniqueInv'
           /\ \A c \in Channels : \A r : In(r, senders'[c]) =>
                \/ In(r, senders[c])
                \/ Queue(t) /\ c = Here(t) /\ Sending(t) /\ r = Request(t, at[t])
           /\ \A c \in Channels : \A r : In(r, receivers'[c]) =>
                \/ In(r, receivers[c])
                \/ Queue(t) /\ c = Here(t) /\ ~Sending(t) /\ r = Request(t, at[t])
           /\ \A c \in Channels : dataLock[c] \notin {Nil, t} =>
                senders'[c] = senders[c] /\ receivers'[c] = receivers[c]
  <1> SUFFICES Result
    OBVIOUS
  <1>1. ASSUME UNCHANGED queues PROVE Result
    BY <1>1 DEF queues, TypeOK, UniqueInv
  <1>2. ASSUME NEW c \in Channels, NEW p \in Threads, cancel_request(c, p) PROVE Result
    <2>1. /\ senders' \in [Channels -> Seq(Requests)]
          /\ receivers' \in [Channels -> Seq(Requests)]
          /\ UniqueInv'
          /\ \A d \in Channels \ {c} : senders'[d] = senders[d] /\ receivers'[d] = receivers[d]
          /\ \A r : In(r, senders'[c]) => In(r, senders[c])
          /\ \A r : In(r, receivers'[c]) => In(r, receivers[c])
          /\ dataLock[c] = Nil
      BY <1>2, CancelFacts
    <2> QED
      BY <2>1
  <1>3. CASE Queue(t)
    <2> DEFINE c == Here(t)  r == Request(t, at[t])
    <2>1. /\ c \in Channels /\ r \in Requests /\ r.thread = t
          /\ senders[c] \in Seq(Requests) /\ receivers[c] \in Seq(Requests)
          /\ dataLock[c] = t
      BY <1>3, CallType DEF Queue, Request, LockInv
    <2>2. \A d \in Channels : OneRequestEach(senders[d]) /\ OneRequestEach(receivers[d])
      BY DEF UniqueInv
    <2>3. ~HasRequest(senders[c], t) /\ ~HasRequest(receivers[c], t)
      BY <1>3, NoneThere DEF Queue
    <2>4. CASE Sending(t)
      <3> DEFINE q == senders[c]
      <3>1. /\ Append(q, r) \in Seq(Requests) /\ OneRequestEach(Append(q, r))
            /\ \A x : In(x, Append(q, r)) => In(x, q) \/ x = r
        BY <2>1, <2>2, <2>3, AppendFacts
      <3>2. senders' = [senders EXCEPT ![c] = Append(q, r)] /\ receivers' = receivers
        BY <1>3, <2>4 DEF Queue
      <3> HIDE DEF c, r
      <3>3. /\ senders' \in [Channels -> Seq(Requests)] /\ senders'[c] = Append(q, r)
            /\ \A d \in Channels \ {c} : senders'[d] = senders[d]
        BY <2>1, <3>1, <3>2 DEF TypeOK
      <3>4. UniqueInv'
        BY <2>2, <3>1, <3>2, <3>3 DEF UniqueInv
      <3> HIDE DEF q
      <3> QED
        BY <1>3, <2>1, <2>4, <3>1, <3>2, <3>3, <3>4 DEF TypeOK, c, r, q
    <2>5. CASE ~Sending(t)
      <3> DEFINE q == receivers[c]
      <3>1. /\ Append(q, r) \in Seq(Requests) /\ OneRequestEach(Append(q, r))
            /\ \A x : In(x, Append(q, r)) => In(x, q) \/ x = r
        BY <2>1, <2>2, <2>3, AppendFacts
      <3>2. receivers' = [receivers EXCEPT ![c] = Append(q, r)] /\ senders' = senders
        BY <1>3, <2>5 DEF Queue
      <3> HIDE DEF c, r
      <3>3. /\ receivers' \in [Channels -> Seq(Requests)] /\ receivers'[c] = Append(q, r)
            /\ \A d \in Channels \ {c} : receivers'[d] = receivers[d]
        BY <2>1, <3>1, <3>2 DEF TypeOK
      <3>4. UniqueInv'
        BY <2>2, <3>1, <3>2, <3>3 DEF UniqueInv
      <3> HIDE DEF q
      <3> QED
        BY <1>3, <2>1, <2>5, <3>1, <3>2, <3>3, <3>4 DEF TypeOK, c, r, q
    <2> QED
      BY <2>4, <2>5
  <1>4. ASSUME pc[t] = "check", DropPartner(t) PROVE Result
    <2>1. Partners(t) # <<>> /\ dataLock[Here(t)] = t
      BY <1>4 DEF LockInv
    <2>2. /\ senders' \in [Channels -> Seq(Requests)]
          /\ receivers' \in [Channels -> Seq(Requests)]
          /\ UniqueInv'
          /\ \A d \in Channels \ {Here(t)} : senders'[d] = senders[d] /\ receivers'[d] = receivers[d]
          /\ \A r : In(r, senders'[Here(t)]) => In(r, senders[Here(t)])
          /\ \A r : In(r, receivers'[Here(t)]) => In(r, receivers[Here(t)])
      BY <1>4, <2>1, DropFacts
    <2> QED
      BY <2>1, <2>2
  <1> HIDE DEF Result
  <1>5. CASE \E o \in Program[t] : Issue(t, o)
    BY <1>1, <1>5 DEF Issue
  <1>6. CASE \E i \in todo[t] : TakeBoth(t, i)
    BY <1>1, <1>6 DEF TakeBoth
  <1>7. CASE TakePeer(t) \/ Wake(t) \/ Poll(t) \/ Schedule(t)
    BY <1>1, <1>7 DEF TakePeer, Wake, AfterCall, Poll, Schedule
  <1>8. CASE DropStale(t) \/ Complete(t)
    BY <1>4, <1>8 DEF DropStale, Complete, Transfer, HandOver
  <1>9. CASE CallbackCancel(t)
    <2>1. peer[t] \in Threads
      BY <1>9 DEF CallbackCancel, CallbackInv, CallbackOK
    <2>2. op[peer[t]].channels[ci[t]] \in Channels
      BY <1>9, <2>1, OpType DEF CallbackCancel
    <2> QED
      BY <1>1, <1>2, <1>9, <2>1, <2>2 DEF CallbackCancel
  <1>10. CASE CancelOwn(t) \/ Withdraw(t)
    <2>1. ci[t] \in Positions(t) => op[t].channels[ci[t]] \in Channels
      BY OpType
    <2> QED
      BY <1>1, <1>2, <1>10, <2>1 DEF CancelOwn, Withdraw
  <1> QED
    BY <1>3, <1>5, <1>6, <1>7, <1>8, <1>9, <1>10 DEF Action, Step

(* The thread whose request is at the front of the partners' queue, while  *)
(* t examines it.                                                          *)
LEMMA PartnerFacts ==
    ASSUME TypeOK, TodoInv, LockInv, QueuedInv, NEW t \in Threads, pc[t] = "check"
    PROVE  /\ peer[t] \in Threads /\ peer[t] # t
           /\ Head(Partners(t)) \in Requests
           /\ Head(Partners(t)).thread = peer[t]
           /\ RequestOK(Head(Partners(t)), Here(t))
           /\ Sending(t) => In(Head(Partners(t)), receivers[Here(t)])
                             /\ Head(Partners(t)).slot > op[peer[t]].send_count
           /\ ~Sending(t) => In(Head(Partners(t)), senders[Here(t)])
                             /\ Head(Partners(t)).slot <= op[peer[t]].send_count
           /\ reqLock[peer[t]] = t /\ reqLock[t] = t /\ dataLock[Here(t)] = t /\ pending[t]
  <1> DEFINE q == Partners(t)
  <1>1. q \in Seq(Requests) /\ q # <<>> /\ Here(t) \in Channels
    BY CallType DEF LockInv
  <1>2. Head(q) = q[1] /\ 1 \in 1 .. Len(q) /\ Head(q) \in Requests
    BY <1>1
  <1>3. /\ Head(q).thread = peer[t] /\ peer[t] # t /\ reqLock[peer[t]] = t
        /\ reqLock[t] = t /\ dataLock[Here(t)] = t /\ pending[t]
    BY DEF LockInv
  <1>4. peer[t] \in Threads
    BY <1>2, <1>3 DEF Requests
  <1>5. q = IF Sending(t) THEN receivers[Here(t)] ELSE senders[Here(t)]
    BY DEF Partners
  <1> HIDE DEF q
  <1>6. RequestOK(Head(q), Here(t))
    BY <1>1, <1>2, <1>5 DEF QueuedInv
  <1>7. CASE Sending(t)
    BY <1>1, <1>2, <1>3, <1>4, <1>5, <1>6, <1>7 DEF QueuedInv, In, q
  <1>8. CASE ~Sending(t)
    BY <1>1, <1>2, <1>3, <1>4, <1>5, <1>6, <1>8 DEF QueuedInv, In, q
  <1> QED
    BY <1>7, <1>8

(* Every step preserves the type invariant. *)
LEMMA TypeStep ==
    ASSUME TypeOK, OpInv, DistinctTables, TodoInv, LockInv, CallbackInv, QueuedInv, UniqueInv,
           NEW t \in Threads, Action(t)
    PROVE  TypeOK'
  <1>1. senders' \in [Channels -> Seq(Requests)] /\ receivers' \in [Channels -> Seq(Requests)]
    BY QueueStep
  <1>2. ASSUME NEW o \in Program[t], Issue(t, o) PROVE TypeOK'
    <2>1. o \in InstructionType /\ 1 .. Len(o.channels) \subseteq Nat
      BY ProgramAssumption DEF InstructionType
    <2> QED
      BY <1>1, <1>2, <2>1 DEF TypeOK, Issue, ControlPoints, locks, queues
  <1>3. ASSUME NEW i \in todo[t], TakeBoth(t, i) PROVE TypeOK'
    <2>1. i \in Nat /\ i \in Positions(t) /\ op[t].channels[i] \in Channels
      BY OpType DEF TodoInv
    <2>2. /\ dataLock' \in [Channels -> Threads \cup {Nil}]
          /\ reqLock' \in [Threads -> Threads \cup {Nil}]
          /\ at' \in [Threads -> Nat]
      <3>1. \/ /\ dataLock' = [dataLock EXCEPT ![op[t].channels[i]] = t]
               /\ reqLock' = [reqLock EXCEPT ![t] = t]
               /\ at' = [at EXCEPT ![t] = i]
            \/ dataLock' = dataLock /\ reqLock' = reqLock /\ at' = at
        BY <1>3 DEF TakeBoth, locks
      <3>2. CASE /\ dataLock' = [dataLock EXCEPT ![op[t].channels[i]] = t]
                 /\ reqLock' = [reqLock EXCEPT ![t] = t]
                 /\ at' = [at EXCEPT ![t] = i]
        BY <2>1, <3>2 DEF TypeOK
      <3>3. CASE dataLock' = dataLock /\ reqLock' = reqLock /\ at' = at
        BY <2>1, <3>3 DEF TypeOK
      <3> QED
        BY <3>1, <3>2, <3>3
    <2>3. pc' \in [Threads -> ControlPoints] /\ todo' \in [Threads -> SUBSET Nat]
      <3>1. \/ pc' = [pc EXCEPT ![t] = "match"] /\ todo' = todo
            \/ NotHandled(t, i)
        BY <1>3 DEF TakeBoth
      <3>2. CASE pc' = [pc EXCEPT ![t] = "match"] /\ todo' = todo
        BY <2>1, <3>2 DEF TypeOK, NotHandled, ControlPoints
      <3>3. CASE NotHandled(t, i)
        BY <2>1, <3>3 DEF TypeOK, NotHandled, ControlPoints
      <3> QED
        BY <3>1, <3>2, <3>3
    <2> QED
      BY <1>1, <1>3, <2>2, <2>3 DEF TypeOK, TakeBoth
  <1>4. CASE Queue(t)
    BY <1>1, <1>4 DEF TypeOK, Queue, NotHandled, ControlPoints
  <1>5. CASE TakePeer(t)
    <2>1. Head(Partners(t)) \in Requests
      BY <1>5, CallType DEF TakePeer
    <2>2. Head(Partners(t)).thread \in Threads
      BY <2>1 DEF Requests
    <2> QED
      BY <1>1, <1>5, <2>2 DEF TypeOK, TakePeer, ControlPoints, queues
  <1>6. CASE DropStale(t)
    BY <1>1, <1>6 DEF TypeOK, DropStale, ControlPoints
  <1>7. CASE Complete(t)
    <2>1. pc[t] = "check"
      BY <1>7 DEF Complete, Transfer, HandOver
    <2> DEFINE p == peer[t]  r == Head(Partners(t))
    <2>2. p \in Threads /\ r \in Requests /\ r.slot \in Nat
      BY <2>1, PartnerFacts DEF Requests
    <2>3. at[t] \in Nat /\ Request(t, at[t]) \in Requests
      BY <2>1, CallType
    <2>4. got' \in [Threads -> [slot : Nat, msg : Requests] \cup {Nil}]
      <3>1. CASE Sending(t)
        BY <1>7, <2>2, <2>3, <3>1 DEF TypeOK, Complete, Transfer, HandOver
      <3>2. CASE ~Sending(t)
        BY <1>7, <2>2, <2>3, <3>2 DEF TypeOK, Complete, Transfer, HandOver
      <3> QED
        BY <3>1, <3>2
    <2> QED
      BY <1>1, <1>7, <2>2, <2>3, <2>4 DEF TypeOK, Complete, Transfer, HandOver, ControlPoints
  <1>8. CASE CallbackCancel(t)
    BY <1>1, <1>8 DEF TypeOK, CallbackCancel, ControlPoints, locks
  <1>9. CASE Wake(t)
    BY <1>1, <1>9 DEF TypeOK, Wake, AfterCall, NextPoint, ControlPoints, queues
  <1>10. CASE CancelOwn(t)
    <2>1. pc' \in [Threads -> ControlPoints] /\ ci' \in [Threads -> Nat]
      <3>1. \/ pc' = pc /\ ci' = [ci EXCEPT ![t] = @ + 1]
            \/ pc' = [pc EXCEPT ![t] = "idle"] /\ ci' = ci
        BY <1>10 DEF CancelOwn
      <3>2. CASE pc' = pc /\ ci' = [ci EXCEPT ![t] = @ + 1]
        BY <3>2 DEF TypeOK, ControlPoints
      <3>3. CASE pc' = [pc EXCEPT ![t] = "idle"] /\ ci' = ci
        BY <3>3 DEF TypeOK, ControlPoints
      <3> QED
        BY <3>1, <3>2, <3>3
    <2> QED
      BY <1>1, <1>10, <2>1 DEF TypeOK, CancelOwn, locks
  <1>11. CASE Poll(t)
    <2>1. Len(op[t].channels) + 1 \in Nat
      BY OpType
    <2>2. pc' \in [Threads -> ControlPoints] /\ ci' \in [Threads -> Nat]
      <3>1. \/ pc' = [pc EXCEPT ![t] = "withdraw"] /\ ci' = [ci EXCEPT ![t] = 1]
            \/ pc' = [pc EXCEPT ![t] = "return"] /\ ci' = ci
        BY <1>11 DEF Poll
      <3>2. CASE pc' = [pc EXCEPT ![t] = "withdraw"] /\ ci' = [ci EXCEPT ![t] = 1]
        BY <3>2 DEF TypeOK, ControlPoints
      <3>3. CASE pc' = [pc EXCEPT ![t] = "return"] /\ ci' = ci
        BY <3>3 DEF TypeOK, ControlPoints
      <3> QED
        BY <3>1, <3>2, <3>3
    <2>3. /\ reqLock' \in [Threads -> Threads \cup {Nil}]
          /\ pending' \in [Threads -> BOOLEAN] /\ chosen' \in [Threads -> Nat]
      <3>1. \/ /\ reqLock' = [reqLock EXCEPT ![t] = t]
               /\ pending' = [pending EXCEPT ![t] = FALSE]
               /\ chosen' = [chosen EXCEPT ![t] = Len(op[t].channels) + 1]
            \/ reqLock' = reqLock /\ pending' = pending /\ chosen' = chosen
        BY <1>11 DEF Poll
      <3>2. CASE /\ reqLock' = [reqLock EXCEPT ![t] = t]
                 /\ pending' = [pending EXCEPT ![t] = FALSE]
                 /\ chosen' = [chosen EXCEPT ![t] = Len(op[t].channels) + 1]
        BY <2>1, <3>2 DEF TypeOK
      <3>3. CASE reqLock' = reqLock /\ pending' = pending /\ chosen' = chosen
        BY <2>1, <3>3 DEF TypeOK
      <3> QED
        BY <3>1, <3>2, <3>3
    <2> QED
      BY <1>1, <1>11, <2>2, <2>3 DEF TypeOK, Poll
  <1>12. CASE Withdraw(t)
    <2>1. pc' \in [Threads -> ControlPoints] /\ ci' \in [Threads -> Nat]
      <3>1. \/ pc' = pc /\ ci' = [ci EXCEPT ![t] = @ + 1]
            \/ pc' = [pc EXCEPT ![t] = "idle"] /\ ci' = ci
        BY <1>12 DEF Withdraw
      <3>2. CASE pc' = pc /\ ci' = [ci EXCEPT ![t] = @ + 1]
        BY <3>2 DEF TypeOK, ControlPoints
      <3>3. CASE pc' = [pc EXCEPT ![t] = "idle"] /\ ci' = ci
        BY <3>3 DEF TypeOK, ControlPoints
      <3> QED
        BY <3>1, <3>2, <3>3
    <2>2. reqLock' \in [Threads -> Threads \cup {Nil}]
      <3>1. reqLock' = reqLock \/ reqLock' = [reqLock EXCEPT ![t] = Nil]
        BY <1>12 DEF Withdraw
      <3> QED
        BY <3>1 DEF TypeOK
    <2> QED
      BY <1>1, <1>12, <2>1, <2>2 DEF TypeOK, Withdraw
  <1>13. CASE Schedule(t)
    BY <1>1, <1>13 DEF TypeOK, Schedule, ControlPoints, queues, locks
  <1> QED
    BY <1>2, <1>3, <1>4, <1>5, <1>6, <1>7, <1>8, <1>9, <1>10, <1>11, <1>12, <1>13 DEF Action, Step

-----------------------------------------------------------------------------
(* Control *)

(* A step of t changes the control state of t, and at most these of another*)
(* thread: the completed request of a partner, the parked peer that it     *)
(* wakes, and mutexes that t holds or that are free.                       *)
LEMMA OthersStep ==
    ASSUME TypeOK, TodoInv, LockInv, QueuedInv, CallbackInv,
           NEW t \in Threads, Action(t), NEW u \in Threads \ {t}
    PROVE  /\ op'[u] = op[u] /\ opno'[u] = opno[u] /\ todo'[u] = todo[u]
           /\ at'[u] = at[u] /\ peer'[u] = peer[u] /\ ci'[u] = ci[u]
           /\ \/ pending'[u] = pending[u] /\ chosen'[u] = chosen[u]
              \/ Complete(t) /\ u = peer[t] /\ pending[u] /\ ~pending'[u]
           /\ \/ pc'[u] = pc[u]
              \/ Wake(t) /\ u = peer[t] /\ pc[u] = "blocked" /\ pc'[u] = "runnable"
           /\ \A x \in Threads : reqLock'[x] = reqLock[x] \/ reqLock[x] \in {Nil, t}
           /\ \A c \in Channels : dataLock'[c] = dataLock[c] \/ dataLock[c] \in {Nil, t}
  <1> DEFINE Result ==
           /\ op'[u] = op[u] /\ opno'[u] = opno[u] /\ todo'[u] = todo[u]
           /\ at'[u] = at[u] /\ peer'[u] = peer[u] /\ ci'[u] = ci[u]
           /\ \/ pending'[u] = pending[u] /\ chosen'[u] = chosen[u]
              \/ Complete(t) /\ u = peer[t] /\ pending[u] /\ ~pending'[u]
           /\ \/ pc'[u] = pc[u]
              \/ Wake(t) /\ u = peer[t] /\ pc[u] = "blocked" /\ pc'[u] = "runnable"
           /\ \A x \in Threads : reqLock'[x] = reqLock[x] \/ reqLock[x] \in {Nil, t}
           /\ \A c \in Channels : dataLock'[c] = dataLock[c] \/ dataLock[c] \in {Nil, t}
  <1> SUFFICES Result
    OBVIOUS
  <1>1. ASSUME NEW o \in Program[t], Issue(t, o) PROVE Result
    BY <1>1 DEF TypeOK, Issue, locks
  <1>2. ASSUME NEW i \in todo[t], TakeBoth(t, i) PROVE Result
    BY <1>2 DEF TypeOK, TakeBoth, NotHandled, locks
  <1>3. CASE Queue(t)
    BY <1>3 DEF TypeOK, Queue, NotHandled, LockInv
  <1>4. CASE TakePeer(t)
    BY <1>4 DEF TypeOK, TakePeer
  <1>5. CASE DropStale(t)
    BY <1>5, PartnerFacts DEF TypeOK, DropStale
  <1>6. CASE Complete(t)
    <2>1. pc[t] = "check" /\ pending[peer[t]]
      BY <1>6 DEF Complete, Transfer, HandOver
    <2>2. peer[t] \in Threads /\ peer[t] # t /\ reqLock[peer[t]] = t /\ dataLock[Here(t)] = t
      BY <2>1, PartnerFacts
    <2>3. /\ pending' = [pending EXCEPT ![t] = FALSE, ![peer[t]] = FALSE]
          /\ chosen' = [chosen EXCEPT ![t] = at[t], ![peer[t]] = Head(Partners(t)).slot]
          /\ pc' = [pc EXCEPT ![t] = "callback"] /\ ci' = [ci EXCEPT ![t] = 1]
          /\ UNCHANGED <<opno, op, todo, at, peer>>
          /\ dataLock' = [dataLock EXCEPT ![Here(t)] = Nil]
          /\ reqLock' = [reqLock EXCEPT ![peer[t]] = Nil]
      BY <1>6 DEF Complete, Transfer, HandOver
    <2> QED
      BY <1>6, <2>1, <2>2, <2>3 DEF TypeOK
  <1>7. CASE CallbackCancel(t)
    BY <1>7 DEF TypeOK, CallbackCancel, locks
  <1>8. CASE Wake(t)
    <2>1. pc[t] = "callback" /\ peer[t] \in Threads /\ peer[t] # t /\ reqLock[t] = t
      BY <1>8 DEF Wake, CallbackDone, CallbackInv, CallbackOK, LockInv
    <2>2. /\ pc' = [pc EXCEPT ![peer[t]] = IF @ = "blocked" THEN "runnable" ELSE @,
                              ![t] = NextPoint(t)]
          /\ peer' = [peer EXCEPT ![t] = Nil] /\ ci' = [ci EXCEPT ![t] = 1]
          /\ reqLock' = [reqLock EXCEPT ![t] = Nil]
          /\ UNCHANGED <<dataLock, pending, opno, op, todo, at, chosen>>
      BY <1>8 DEF Wake, AfterCall
    <2> QED
      BY <1>8, <2>1, <2>2 DEF TypeOK
  <1>9. CASE CancelOwn(t)
    BY <1>9 DEF TypeOK, CancelOwn, locks
  <1>10. CASE Poll(t)
    BY <1>10 DEF TypeOK, Poll
  <1>11. CASE Withdraw(t)
    BY <1>11 DEF TypeOK, Withdraw, LockInv
  <1>12. CASE Schedule(t)
    BY <1>12 DEF TypeOK, Schedule, locks
  <1> QED
    BY <1>1, <1>2, <1>3, <1>4, <1>5, <1>6, <1>7, <1>8, <1>9, <1>10, <1>11, <1>12 DEF Action, Step

(* The instruction of a thread that has positions is one of its program. *)
LEMMA ProgramOp ==
    ASSUME TypeOK, OpInv, NEW t \in Threads, NEW i \in Positions(t)
    PROVE  /\ op[t] \in Program[t]
           /\ op[t].kind \notin AltKinds => i = 1 /\ Positions(t) = {1}
  <1>1. op[t] \in Program[t]
    BY DEF OpInv, NoOp, Positions
  <1>2. op[t] \in InstructionType /\ (op[t].kind \in {"send", "recv"} => Len(op[t].channels) = 1)
    BY <1>1, ProgramAssumption
  <1>3. op[t].kind \notin AltKinds => Positions(t) = 1 .. 1
    BY <1>2 DEF InstructionType, Positions
  <1> QED
    BY <1>1, <1>3 DEF Positions

(* Every step preserves OpInv and TodoInv. *)
LEMMA TodoStep ==
    ASSUME LocksInv, NEW t \in Threads, Action(t)
    PROVE  OpInv' /\ TodoInv'
  <1>0. TypeOK /\ OpInv /\ TodoInv /\ LockInv /\ CallbackInv /\ QueuedInv
    BY DEF LocksInv
  <1>1. ASSUME NEW u \in Threads \ {t}
        PROVE  /\ op'[u] \in Program[u] \cup {NoOp}
               /\ pc'[u] = "poll" => op'[u].kind = "nbalt"
               /\ todo'[u] \subseteq Positions(u)'
               /\ pc'[u] \in {"match", "check", "callback", "cancel"} => at'[u] \in todo'[u]
               /\ pc'[u] \in {"cancel", "withdraw"} => ci'[u] >= 1
    <2>1. /\ op'[u] = op[u] /\ todo'[u] = todo[u] /\ at'[u] = at[u] /\ ci'[u] = ci[u]
          /\ pc'[u] = pc[u] \/ pc'[u] = "runnable"
      BY <1>0, OthersStep
    <2> QED
      BY <1>0, <2>1 DEF OpInv, TodoInv, Positions
  <1> DEFINE Result ==
               /\ op'[t] \in Program[t] \cup {NoOp}
               /\ pc'[t] = "poll" => op'[t].kind = "nbalt"
               /\ todo'[t] \subseteq Positions(t)'
               /\ pc'[t] \in {"match", "check", "callback", "cancel"} => at'[t] \in todo'[t]
               /\ pc'[t] \in {"cancel", "withdraw"} => ci'[t] >= 1
  <1>2. Result
    <2> USE <1>0 DEF TypeOK, OpInv, TodoInv, Positions
    <2>1. ASSUME NEW o \in Program[t], Issue(t, o) PROVE Result
      BY <2>1 DEF Issue
    <2>2. ASSUME NEW i \in todo[t], TakeBoth(t, i) PROVE Result
      BY <2>2 DEF TakeBoth, NotHandled
    <2>3. CASE Queue(t)
      BY <2>3 DEF Queue, NotHandled
    <2>4. CASE TakePeer(t)
      BY <2>4 DEF TakePeer
    <2>5. CASE DropStale(t)
      BY <2>5 DEF DropStale
    <2>6. CASE Complete(t)
      BY <2>6 DEF Complete, Transfer, HandOver
    <2>7. CASE CallbackCancel(t)
      BY <2>7 DEF CallbackCancel
    <2>8. CASE Wake(t)
      BY <2>8 DEF Wake, CallbackDone, AfterCall, NextPoint
    <2>9. CASE CancelOwn(t)
      BY <2>9 DEF CancelOwn
    <2>10. CASE Poll(t)
      BY <2>10 DEF Poll
    <2>11. CASE Withdraw(t)
      BY <2>11 DEF Withdraw
    <2>12. CASE Schedule(t)
      BY <2>12 DEF Schedule
    <2> HIDE DEF Result
    <2> QED
      BY <2>1, <2>2, <2>3, <2>4, <2>5, <2>6, <2>7, <2>8, <2>9, <2>10, <2>11, <2>12
      DEF Action, Step
  <1> QED
    BY <1>1, <1>2 DEF OpInv, TodoInv, Positions

(* Every step preserves PendingInv. *)
LEMMA PendingStep ==
    ASSUME LocksInv, NEW t \in Threads, Action(t)
    PROVE  PendingInv'
  <1>0. /\ TypeOK /\ OpInv /\ TodoInv /\ LockInv /\ CallbackInv /\ QueuedInv
        /\ PendingInv
    BY DEF LocksInv
  <1> DEFINE S == {"try", "match", "check", "poll", "return", "blocked"}
  <1>1. ASSUME NEW u \in Threads \ {t}, pending'[u] PROVE pc'[u] \in S
    <2>1. pending[u] /\ pc[u] \in S
      BY <1>0, <1>1, OthersStep DEF PendingInv
    <2>2. Wake(t) => ~pending[peer[t]]
      BY <1>0 DEF Wake, CallbackDone, CallbackInv, CallbackOK
    <2> QED
      BY <1>0, <2>1, <2>2, OthersStep
  <1>2. ASSUME pending'[t] PROVE pc'[t] \in S
    <2> USE <1>0, <1>2 DEF TypeOK, PendingInv
    <2>1. ASSUME NEW o \in Program[t], Issue(t, o) PROVE pc'[t] \in S
      BY <2>1 DEF Issue
    <2>2. ASSUME NEW i \in todo[t], TakeBoth(t, i) PROVE pc'[t] \in S
      BY <2>2 DEF TakeBoth, NotHandled
    <2>3. CASE Queue(t)
      BY <2>3 DEF Queue, NotHandled
    <2>4. CASE TakePeer(t)
      BY <2>4 DEF TakePeer
    <2>5. CASE DropStale(t)
      BY <2>5 DEF DropStale
    <2>6. CASE Complete(t)
      BY <2>6 DEF Complete, Transfer, HandOver
    <2>7. CASE CallbackCancel(t)
      BY <2>7 DEF CallbackCancel
    <2>8. CASE Wake(t)
      BY <2>8 DEF Wake, CallbackDone, AfterCall, NextPoint
    <2>9. CASE CancelOwn(t)
      BY <2>9 DEF CancelOwn
    <2>10. CASE Poll(t)
      BY <2>10 DEF Poll
    <2>11. CASE Withdraw(t)
      BY <2>11 DEF Withdraw
    <2>12. CASE Schedule(t)
      BY <2>12 DEF Schedule
    <2> QED
      BY <2>1, <2>2, <2>3, <2>4, <2>5, <2>6, <2>7, <2>8, <2>9, <2>10, <2>11, <2>12
      DEF Action, Step
  <1> QED
    BY <1>1, <1>2 DEF PendingInv

(* Every step preserves LockInv: no other thread can touch what a mutex    *)
(* protects.                                                               *)
LEMMA LockStep ==
    ASSUME DistinctTables, LocksInv, NEW t \in Threads, Action(t)
    PROVE  LockInv'
  <1>0. /\ TypeOK /\ OpInv /\ TodoInv /\ LockInv /\ CallbackInv /\ QueuedInv /\ UniqueInv
        /\ PendingInv
    BY DEF LocksInv
  <1> DEFINE Held(u) ==
        /\ pc[u] \in {"match", "check"} => dataLock[Here(u)] = u /\ pending[u]
        /\ pc[u] \in {"match", "check", "callback", "withdraw"} => reqLock[u] = u
        /\ pc[u] = "check" =>
            /\ Partners(u) # <<>>
            /\ peer[u] = Head(Partners(u)).thread
            /\ peer[u] # u
            /\ reqLock[peer[u]] = u
  <1>1. ASSUME NEW u \in Threads \ {t} PROVE Held(u)'
    <2>1. /\ op'[u] = op[u] /\ at'[u] = at[u] /\ peer'[u] = peer[u]
          /\ pc'[u] = pc[u] \/ pc'[u] = "runnable"
          /\ pending'[u] = pending[u] \/ (Complete(t) /\ u = peer[t])
          /\ \A x \in Threads : reqLock[x] = u => reqLock'[x] = u
          /\ \A c \in Channels : dataLock[c] = u => dataLock'[c] = u
      <3>1. /\ op'[u] = op[u] /\ at'[u] = at[u] /\ peer'[u] = peer[u]
            /\ \/ pending'[u] = pending[u] /\ chosen'[u] = chosen[u]
               \/ Complete(t) /\ u = peer[t] /\ pending[u]
            /\ \/ pc'[u] = pc[u]
               \/ Wake(t) /\ u = peer[t] /\ pc[u] = "blocked" /\ pc'[u] = "runnable"
        BY <1>0, OthersStep
      <3>2. /\ \A x \in Threads : reqLock'[x] = reqLock[x] \/ reqLock[x] \in {Nil, t}
            /\ \A c \in Channels : dataLock'[c] = dataLock[c] \/ dataLock[c] \in {Nil, t}
        BY <1>0, OthersStep
      <3>3. u # Nil /\ u # t
        BY NilAssumption
      <3> QED
        BY <3>1, <3>2, <3>3
    <2>2. Here(u)' = Here(u) /\ Sending(u)' = Sending(u)
      BY <2>1 DEF Here, Sending
    <2>3. Complete(t) => reqLock[peer[t]] = t
      BY <1>0, PartnerFacts DEF Complete, Transfer, HandOver
    <2>4. ASSUME pc[u] \in {"match", "check"}
          PROVE  /\ Here(u) \in Channels /\ dataLock[Here(u)] = u
                 /\ dataLock'[Here(u)] = u /\ pending'[u] /\ reqLock'[u] = u
                 /\ Partners(u)' = Partners(u)
      <3>1. Here(u) \in Channels /\ dataLock[Here(u)] = u /\ pending[u] /\ reqLock[u] = u
        BY <1>0, <2>4, CallType DEF LockInv
      <3>2. senders'[Here(u)] = senders[Here(u)] /\ receivers'[Here(u)] = receivers[Here(u)]
        BY <1>0, <3>1, QueueStep
      <3>3. Partners(u)' = Partners(u)
        BY <2>2, <3>2 DEF Partners
      <3> QED
        BY <2>1, <2>3, <3>1, <3>3
    <2>5. pc[u] \in {"callback", "withdraw"} => reqLock'[u] = u
      BY <1>0, <2>1 DEF LockInv
    <2>6. ASSUME pc[u] = "check" PROVE peer[u] \in Threads /\ peer[u] # u /\ reqLock'[peer[u]] = u
      BY <1>0, <2>1, <2>6, PartnerFacts
    <2>7. pc[u] = "check" => Partners(u) # <<>> /\ peer[u] = Head(Partners(u)).thread
      BY <1>0 DEF LockInv
    <2>8. CASE pc'[u] = pc[u]
      BY <2>1, <2>2, <2>4, <2>5, <2>6, <2>7, <2>8
    <2> QED
      BY <2>1, <2>8
  <1>2. Held(t)'
    <2>1. ASSUME NEW o \in Program[t], Issue(t, o) PROVE Held(t)'
      BY <1>0, <2>1 DEF Issue, TypeOK
    <2>2. ASSUME NEW i \in todo[t], TakeBoth(t, i) PROVE Held(t)'
      <3>1. i \in Positions(t) /\ op[t].channels[i] \in Channels
        BY <1>0, OpType DEF TodoInv
      <3>2. CASE pending[t]
        BY <1>0, <2>2, <3>1, <3>2 DEF TakeBoth, TypeOK, Here
      <3>3. CASE ~pending[t]
        BY <1>0, <2>2, <3>3 DEF TakeBoth, NotHandled, TypeOK
      <3> QED
        BY <3>2, <3>3
    <2>3. CASE Queue(t)
      BY <1>0, <2>3 DEF Queue, NotHandled, TypeOK
    <2>4. CASE TakePeer(t)
      <3> DEFINE p == Head(Partners(t)).thread
      <3>1. /\ Partners(t) \in Seq(Requests) /\ Partners(t) # <<>> /\ pc[t] = "match"
            /\ reqLock' = [reqLock EXCEPT ![p] = t] /\ peer' = [peer EXCEPT ![t] = p]
            /\ pc' = [pc EXCEPT ![t] = "check"]
            /\ UNCHANGED <<dataLock, queues, pending, op, at>>
        BY <1>0, <2>4, CallType DEF TakePeer
      <3>2. p \in Threads /\ Head(Partners(t)) = Partners(t)[1] /\ 1 \in 1 .. Len(Partners(t))
        <4>1. Head(Partners(t)) = Partners(t)[1] /\ 1 \in 1 .. Len(Partners(t))
              /\ Head(Partners(t)) \in Requests
          BY <3>1
        <4> QED
          BY <4>1 DEF Requests
      <3>3. p # t
        BY <1>0, <3>1, <3>2, NoneThere DEF Partners, HasRequest
      <3>4. Here(t)' = Here(t) /\ Partners(t)' = Partners(t)
        BY <3>1 DEF Here, Partners, Sending, queues
      <3>5. dataLock[Here(t)] = t /\ pending[t] /\ reqLock[t] = t
        BY <1>0, <3>1 DEF LockInv
      <3> HIDE DEF p
      <3>6. reqLock'[p] = t /\ peer'[t] = p /\ reqLock'[t] = t
        BY <1>0, <3>1, <3>2, <3>3, <3>5 DEF TypeOK
      <3> QED
        BY <3>1, <3>3, <3>4, <3>5, <3>6 DEF p
    <2>5. CASE DropStale(t)
      <3>1. /\ pc[t] = "check" /\ peer[t] # t /\ dataLock[Here(t)] = t /\ pending[t]
            /\ reqLock[t] = t
        BY <1>0, <2>5, PartnerFacts DEF DropStale
      <3>2. Here(t)' = Here(t)
        BY <2>5 DEF DropStale, Here
      <3> QED
        BY <1>0, <2>5, <3>1, <3>2 DEF DropStale, TypeOK
    <2>6. CASE Complete(t)
      <3>1. pc[t] = "check" /\ peer[t] # t /\ reqLock[t] = t
        BY <1>0, <2>6, PartnerFacts DEF Complete, Transfer, HandOver
      <3> QED
        BY <1>0, <2>6, <3>1 DEF Complete, Transfer, HandOver, TypeOK
    <2>7. CASE CallbackCancel(t)
      BY <1>0, <2>7 DEF CallbackCancel, TypeOK, LockInv, locks
    <2>8. CASE Wake(t)
      BY <1>0, <2>8 DEF Wake, CallbackDone, NextPoint, TypeOK
    <2>9. CASE CancelOwn(t)
      BY <1>0, <2>9 DEF CancelOwn, TypeOK
    <2>10. CASE Poll(t)
      BY <1>0, <2>10 DEF Poll, TypeOK
    <2>11. CASE Withdraw(t)
      BY <1>0, <2>11 DEF Withdraw, TypeOK, LockInv
    <2>12. CASE Schedule(t)
      BY <1>0, <2>12 DEF Schedule, TypeOK
    <2> HIDE DEF Held
    <2> QED
      BY <2>1, <2>2, <2>3, <2>4, <2>5, <2>6, <2>7, <2>8, <2>9, <2>10, <2>11, <2>12
      DEF Action, Step
  <1> QED
    BY <1>1, <1>2 DEF LockInv

(* Every step preserves CallbackInv. *)
LEMMA CallbackStep ==
    ASSUME DistinctTables, LocksInv, NEW t \in Threads, Action(t)
    PROVE  CallbackInv'
  <1>0. /\ TypeOK /\ OpInv /\ TodoInv /\ LockInv /\ CallbackInv /\ QueuedInv /\ UniqueInv
        /\ PendingInv
    BY DEF LocksInv
  <1>a. ASSUME NEW u \in Threads \ {t}
        PROVE  /\ op'[u] = op[u] /\ at'[u] = at[u] /\ peer'[u] = peer[u]
               /\ \/ pending'[u] = pending[u] /\ chosen'[u] = chosen[u]
                  \/ Complete(t) /\ u = peer[t] /\ pending[u]
               /\ \/ pc'[u] = pc[u]
                  \/ Wake(t) /\ u = peer[t] /\ pc[u] = "blocked" /\ pc'[u] = "runnable"
    BY <1>0, OthersStep
  <1>1. CASE Complete(t)
    <2>0. pc[t] = "check" /\ pending[peer[t]]
      BY <1>1 DEF Complete, Transfer, HandOver
    <2>p. PICK p \in Threads : p = peer[t] /\ p # t
      BY <1>0, <2>0, PartnerFacts
    <2>r. PICK r : r = Head(Partners(t))
      OBVIOUS
    <2>1. /\ pc[t] = "check" /\ pending[p]
          /\ pending' = [pending EXCEPT ![t] = FALSE, ![p] = FALSE]
          /\ chosen' = [chosen EXCEPT ![t] = at[t], ![p] = r.slot]
          /\ pc' = [pc EXCEPT ![t] = "callback"]
          /\ UNCHANGED <<op, at, peer>>
      BY <1>1, <2>0, <2>p, <2>r DEF Complete, Transfer, HandOver
    <2>2. reqLock[p] = t /\ r.thread = p /\ RequestOK(r, Here(t))
      BY <1>0, <2>1, <2>p, <2>r, PartnerFacts
    <2>3. pc[p] \in MayBeCompleted
      BY <1>0, <2>1, <2>2, <2>p DEF PendingInv, LockInv
    <2>4. r.slot \in Positions(p) /\ op[p].channels[r.slot] = Here(t)
      BY <2>2 DEF RequestOK
    <2>5. /\ ~pending'[p] /\ pc'[p] = pc[p] /\ chosen'[p] = r.slot /\ pc'[t] = "callback"
          /\ peer'[t] = p
      BY <1>0, <2>1, <2>2, <2>p DEF TypeOK
    <2>6. \A u \in Threads : Positions(u)' = Positions(u) /\ Here(u)' = Here(u)
      BY <2>1 DEF Positions, Here
    <2>7. CallbackOK(t, p)'
      <3>1. ASSUME NEW u \in Threads \ {t}, pc'[u] = "callback" PROVE peer'[u] # p
        BY <1>0, <1>a, <2>1, <3>1 DEF CallbackInv, CallbackOK
      <3> QED
        BY <2>1, <2>2, <2>3, <2>4, <2>5, <2>6, <2>p, <3>1 DEF CallbackOK
    <2>8. ASSUME NEW u \in Threads \ {t}, pc'[u] = "callback" PROVE CallbackOK(u, peer[u])'
      <3>v. PICK v \in Threads : v = peer[u] /\ pc[u] = "callback"
        BY <1>0, <1>a, <2>8 DEF CallbackInv, CallbackOK
      <3>1. pc[u] = "callback" /\ CallbackOK(u, v)
        BY <1>0, <3>v DEF CallbackInv
      <3>2. ~pending[v] /\ v # t /\ v # p /\ v # u
        BY <1>0, <2>1, <3>1 DEF CallbackOK, LockInv
      <3>3. pending'[v] = pending[v] /\ chosen'[v] = chosen[v] /\ pc'[v] = pc[v]
        BY <1>0, <2>1, <3>2 DEF TypeOK
      <3>4. ASSUME NEW x \in Threads \ {u}, pc'[x] = "callback" PROVE peer'[x] # v
        <4>1. CASE x = t
          BY <2>5, <3>2, <4>1
        <4>2. CASE x # t
          BY <1>a, <3>1, <3>4, <4>2 DEF CallbackOK
        <4> QED
          BY <4>1, <4>2
      <3>5. op' = op /\ peer'[u] = v
        BY <2>1, <3>v
      <3>6. CallbackOK(u, v)'
        BY <2>6, <3>1, <3>2, <3>3, <3>4, <3>5 DEF CallbackOK
      <3> QED
        BY <3>5, <3>6
    <2> QED
      BY <2>5, <2>7, <2>8 DEF CallbackInv
  <1>2. CASE ~Complete(t)
    <2>1. ASSUME NEW u \in Threads, pc'[u] = "callback"
          PROVE  pc[u] = "callback" /\ peer'[u] = peer[u] /\ Here(u)' = Here(u)
      <3>1. CASE u # t
        BY <1>a, <2>1, <3>1 DEF Here
      <3>2. CASE u = t
        <4>1. CallbackCancel(t)
          BY <1>0, <1>2, <2>1, <3>2 DEF Action, Step, TypeOK, Issue, TakeBoth, NotHandled, Queue,
              TakePeer, DropStale, Wake, CallbackDone, AfterCall, NextPoint, CancelOwn, Poll,
              Withdraw, Schedule
        <4> QED
          BY <3>2, <4>1 DEF CallbackCancel, Here
      <3> QED
        BY <3>1, <3>2
    <2>2. ASSUME NEW u \in Threads, pc'[u] = "callback" PROVE CallbackOK(u, peer[u])'
      <3>v. PICK v \in Threads : v = peer[u]
        BY <1>0, <2>1, <2>2 DEF CallbackInv, CallbackOK
      <3>1. pc[u] = "callback" /\ CallbackOK(u, v)
        BY <1>0, <2>1, <2>2, <3>v DEF CallbackInv
      <3>2. v # u /\ ~pending[v] /\ pc[v] \in MayBeCompleted
        BY <3>1 DEF CallbackOK
      <3>3. op'[v] = op[v] /\ chosen'[v] = chosen[v] /\ ~pending'[v] /\ pc'[v] \in MayBeCompleted
        <4>1. CASE v # t
          <5>1. ASSUME Wake(t), v = peer[t] PROVE FALSE
            <6>1. pc[t] = "callback"
              BY <5>1 DEF Wake, CallbackDone
            <6>2. u # t
              <7>1. CASE u = t
                BY <1>0, <2>2, <3>2, <3>v, <5>1, <7>1 DEF Wake, NextPoint, TypeOK
              <7> QED
                BY <7>1
            <6> QED
              BY <3>1, <5>1, <6>1, <6>2 DEF CallbackOK
          <5> QED
            BY <1>2, <1>a, <3>2, <4>1, <5>1
        <4>2. CASE v = t
          <5> DEFINE Result == /\ op'[t] = op[t] /\ chosen'[t] = chosen[t] /\ ~pending'[t]
                               /\ pc'[t] \in MayBeCompleted
          <5>1. ASSUME NEW i \in todo[t], TakeBoth(t, i) PROVE Result
            BY <1>0, <3>2, <4>2, <5>1 DEF TakeBoth, NotHandled, TypeOK
          <5>2. ASSUME Poll(t) PROVE Result
            BY <1>0, <3>2, <4>2, <5>2 DEF Poll, TypeOK
          <5>3. ASSUME Schedule(t) PROVE Result
            BY <1>0, <3>2, <4>2, <5>3 DEF Schedule, TypeOK
          <5>4. pc[t] \in {"try", "poll", "return", "blocked"}
            BY <3>2, <4>2
          <5>5. (\E i \in todo[t] : TakeBoth(t, i)) \/ Poll(t) \/ Schedule(t)
            BY <5>4 DEF Action, Step, Issue, Queue, TakePeer, DropStale, Complete, Transfer,
                HandOver, CallbackCancel, Wake, CallbackDone, CancelOwn, Withdraw
          <5> HIDE DEF Result
          <5>6. Result
            BY <5>1, <5>2, <5>3, <5>5
          <5> QED
            BY <4>2, <5>6 DEF Result
        <4> QED
          BY <4>1, <4>2
      <3>4. \A x \in Threads \ {u} : pc'[x] = "callback" => peer'[x] # v
        BY <2>1, <3>1 DEF CallbackOK
      <3>5. Here(u)' = Here(u) /\ peer'[u] = v
        BY <2>1, <2>2, <3>v
      <3>6. chosen[v] \in Positions(v) /\ op[v].channels[chosen[v]] = Here(u)
        BY <3>1 DEF CallbackOK
      <3>7. CallbackOK(u, v)'
        BY <3>2, <3>3, <3>4, <3>5, <3>6 DEF CallbackOK, Positions
      <3> QED
        BY <3>5, <3>7
    <2> QED
      BY <2>2 DEF CallbackInv
  <1> QED
    BY <1>1, <1>2

-----------------------------------------------------------------------------
(* Queued requests *)

(* What QueuedInv says of a request in a queue. *)
LEMMA QueuedFacts ==
    ASSUME TypeOK, OpInv, DistinctTables, QueuedInv, NEW c \in Channels, NEW r,
           In(r, senders[c]) \/ In(r, receivers[c])
    PROVE  /\ r \in Requests /\ r.thread \in Threads /\ r.slot \in Nat /\ r.slot >= 1
           /\ RequestOK(r, c)
           /\ op[r.thread] \in Program[r.thread]
           /\ In(r, senders[c]) => r.slot <= op[r.thread].send_count
           /\ In(r, receivers[c]) => r.slot > op[r.thread].send_count
           /\ \A i \in Positions(r.thread) : op[r.thread].channels[i] = c => r.slot = i
           /\ op[r.thread].kind \notin AltKinds => r.slot = 1 /\ Positions(r.thread) = {1}
  <1>1. senders[c] \in Seq(Requests) /\ receivers[c] \in Seq(Requests)
    BY DEF TypeOK
  <1>2. r \in Requests
    BY <1>1 DEF In
  <1>3. r.thread \in Threads /\ r.slot \in Nat
    BY <1>2 DEF Requests
  <1>4. /\ RequestOK(r, c)
        /\ In(r, senders[c]) => r.slot <= op[r.thread].send_count
        /\ In(r, receivers[c]) => r.slot > op[r.thread].send_count
    BY DEF QueuedInv, In
  <1>5. r.slot \in Positions(r.thread) /\ op[r.thread].channels[r.slot] = c
    BY <1>4 DEF RequestOK
  <1>6. /\ op[r.thread] \in Program[r.thread]
        /\ op[r.thread].kind \notin AltKinds => r.slot = 1 /\ Positions(r.thread) = {1}
    BY <1>3, <1>5, ProgramOp
  <1>7. \A i \in Positions(r.thread) : op[r.thread].channels[i] = c => r.slot = i
    BY <1>3, <1>5, <1>6 DEF DistinctTables, Positions
  <1>8. r.slot >= 1
    BY <1>3, <1>5 DEF Positions
  <1> QED
    BY <1>2, <1>3, <1>4, <1>6, <1>7, <1>8

(* A thread does not wait on a channel as a sender and as a receiver. *)
LEMMA NotBoth ==
    ASSUME TypeOK, OpInv, DistinctTables, QueuedInv, NEW c \in Channels,
           NEW r, In(r, senders[c]), NEW x, In(x, receivers[c])
    PROVE  r.thread # x.thread
  <1>1. /\ RequestOK(x, c) /\ x.slot > op[x.thread].send_count /\ x.slot \in Nat
        /\ r.slot <= op[r.thread].send_count /\ r.slot \in Nat /\ r.thread \in Threads
        /\ \A i \in Positions(r.thread) : op[r.thread].channels[i] = c => r.slot = i
    BY QueuedFacts
  <1>2. op[r.thread].send_count \in Nat
    BY <1>1, OpType
  <1>3. x.slot \in Positions(x.thread) /\ op[x.thread].channels[x.slot] = c
    BY <1>1 DEF RequestOK
  <1>4. ASSUME r.thread = x.thread PROVE FALSE
    <2>1. r.slot = x.slot
      BY <1>1, <1>3, <1>4
    <2> QED
      BY <1>1, <1>2, <1>4, <2>1
  <1> QED
    BY <1>4

(* A request that a step leaves in its queue. *)
Kept(r, c) ==
    \/ In(r, senders[c]) /\ In(r, senders'[c])
    \/ In(r, receivers[c]) /\ In(r, receivers'[c])

(* cancel_request(c, p) leaves no request of p in the queues of c. *)
LEMMA Cancelled ==
    ASSUME TypeOK, OpInv, DistinctTables, QueuedInv, UniqueInv,
           NEW c \in Channels, NEW p \in Threads, cancel_request(c, p), NEW r, Kept(r, c)
    PROVE  r.thread # p
  <1>1. /\ \A x : In(x, receivers'[c]) => x.thread # p
        /\ ~HasRequest(receivers[c], p) => \A x : In(x, senders'[c]) => x.thread # p
    BY CancelFacts
  <1>2. ASSUME In(r, senders[c]), In(r, senders'[c]), HasRequest(receivers[c], p)
        PROVE  r.thread # p
    <2>1. PICK k \in 1 .. Len(receivers[c]) : receivers[c][k].thread = p
      BY <1>2 DEF HasRequest
    <2>2. In(receivers[c][k], receivers[c])
      BY DEF In
    <2> QED
      BY <1>2, <2>1, <2>2, NotBoth
  <1> QED
    BY <1>1, <1>2 DEF Kept

(* The request of a partner that is completed leaves the queue. *)
LEMMA Completed ==
    ASSUME TypeOK, OpInv, DistinctTables, TodoInv, LockInv, QueuedInv, UniqueInv,
           NEW t \in Threads, Complete(t), NEW r, Kept(r, Here(t))
    PROVE  r.thread # peer[t]
  <1>1. pc[t] = "check" /\ DropPartner(t)
    BY DEF Complete, Transfer, HandOver
  <1> DEFINE h == Head(Partners(t))  c == Here(t)
  <1>2. /\ h.thread = peer[t] /\ c \in Channels
        /\ Sending(t) => In(h, receivers[c])
        /\ ~Sending(t) => In(h, senders[c])
    BY <1>1, PartnerFacts, CallType
  <1>3. Partners(t) # <<>>
    BY <1>1 DEF LockInv
  <1>4. /\ Sending(t) => \A x : In(x, receivers'[c]) => x.thread # h.thread
        /\ ~Sending(t) => \A x : In(x, senders'[c]) => x.thread # h.thread
    BY <1>1, <1>3, DropFacts
  <1> HIDE DEF h, c
  <1>5. Kept(r, c)
    BY DEF c
  <1>6. CASE Sending(t)
    BY <1>2, <1>4, <1>5, <1>6, NotBoth DEF Kept
  <1>7. CASE ~Sending(t)
    BY <1>2, <1>4, <1>5, <1>7, NotBoth DEF Kept
  <1> QED
    BY <1>6, <1>7

(* A request of another thread that a step of t leaves queued is still of  *)
(* an instruction in progress, and ahead of the loops that cancel.         *)
LEMMA OtherKept ==
    ASSUME DistinctTables, LocksInv, NEW t \in Threads, Action(t),
           NEW c \in Channels, NEW r, Kept(r, c), r.thread # t
    PROVE  RequestOK(r, c)' /\ op'[r.thread] = op[r.thread]
  <1>0. /\ TypeOK /\ OpInv /\ TodoInv /\ LockInv /\ CallbackInv /\ QueuedInv /\ UniqueInv
        /\ PendingInv
    BY DEF LocksInv
  <1>p. PICK p \in Threads : p = r.thread
    BY <1>0, QueuedFacts DEF Kept
  <1>1. /\ RequestOK(r, c) /\ r.slot \in Nat /\ r.slot >= 1
        /\ \A i \in Positions(p) : op[p].channels[i] = c => r.slot = i
        /\ op[p].kind \notin AltKinds => r.slot = 1 /\ Positions(p) = {1}
    BY <1>0, <1>p, QueuedFacts DEF Kept
  <1>2. /\ r.op = opno[p] /\ r.slot \in Positions(p) /\ op[p].channels[r.slot] = c
        /\ r.slot \notin todo[p] /\ pc[p] \notin {"idle", "runnable"}
        /\ pc[p] \in {"cancel", "withdraw"} => r.slot >= ci[p]
        /\ \A u \in Threads : pc[u] = "callback" /\ peer[u] = p => r.slot # chosen[p] /\ r.slot >= ci[u]
    BY <1>1, <1>p DEF RequestOK
  <1>3. /\ op'[p] = op[p] /\ opno'[p] = opno[p] /\ todo'[p] = todo[p] /\ ci'[p] = ci[p]
        /\ \/ pending'[p] = pending[p] /\ chosen'[p] = chosen[p]
           \/ Complete(t) /\ p = peer[t] /\ pending[p]
        /\ \/ pc'[p] = pc[p]
           \/ Wake(t) /\ p = peer[t] /\ pc[p] = "blocked" /\ pc'[p] = "runnable"
    BY <1>0, <1>p, OthersStep
  <1>4. pc'[p] = pc[p]
    <2>1. ASSUME Wake(t), p = peer[t] PROVE FALSE
      <3>1. /\ pc[t] = "callback" /\ (op[p].kind \in AltKinds => ci[t] > Len(op[p].channels))
            /\ chosen[p] \in Positions(p)
        BY <1>0, <2>1 DEF Wake, CallbackDone, CallbackInv, CallbackOK
      <3>2. r.slot # chosen[p] /\ r.slot >= ci[t]
        BY <1>2, <2>1, <3>1
      <3>3. CASE op[p].kind \in AltKinds
        <4>1. ci[t] \in Nat /\ Len(op[p].channels) \in Nat
          BY <1>0, OpType DEF TypeOK
        <4> QED
          BY <1>1, <1>2, <3>1, <3>2, <3>3, <4>1 DEF Positions
      <3>4. CASE op[p].kind \notin AltKinds
        BY <1>1, <3>1, <3>2, <3>4
      <3> QED
        BY <3>3, <3>4
    <2> QED
      BY <1>3, <2>1
  <1>5. ASSUME NEW u \in Threads, pc'[u] = "callback", peer'[u] = p
        PROVE  r.slot # chosen'[p] /\ r.slot >= ci'[u]
    <2>1. CASE u # t
      <3>1. pc[u] = "callback" /\ peer[u] = p /\ ci'[u] = ci[u]
        BY <1>0, <1>5, <2>1, OthersStep
      <3>2. ~pending[p]
        BY <1>0, <3>1 DEF CallbackInv, CallbackOK
      <3> QED
        BY <1>2, <1>3, <3>1, <3>2
    <2>2. CASE u = t /\ CallbackCancel(t)
      <3>1. /\ pc[t] = "callback" /\ peer[t] = p /\ chosen' = chosen /\ ci' = [ci EXCEPT ![t] = @ + 1]
            /\ ci[t] \in Positions(p)
            /\ op[p].channels[ci[t]] # Here(t) => cancel_request(op[p].channels[ci[t]], p)
        BY <1>5, <2>2 DEF CallbackCancel
      <3>2. r.slot # chosen[p] /\ r.slot >= ci[t] /\ ci[t] \in Nat
        BY <1>0, <1>2, <3>1 DEF TypeOK
      <3>3. ASSUME r.slot = ci[t] PROVE FALSE
        <4>1. CASE c = Here(t)
          <5>1. chosen[p] \in Positions(p) /\ op[p].channels[chosen[p]] = c
            BY <1>0, <3>1, <4>1 DEF CallbackInv, CallbackOK
          <5> QED
            BY <1>1, <3>2, <5>1
        <4>2. CASE c # Here(t)
          BY <1>0, <1>2, <1>p, <3>1, <3>3, <4>2, Cancelled
        <4> QED
          BY <4>1, <4>2
      <3>4. ci'[t] = ci[t] + 1
        BY <1>0, <3>1 DEF TypeOK
      <3> QED
        BY <1>1, <2>2, <3>1, <3>2, <3>3, <3>4
    <2>3. CASE u = t /\ Complete(t)
      <3>1. /\ pc[t] = "check" /\ peer[t] = p /\ p # t
            /\ chosen' = [chosen EXCEPT ![t] = at[t], ![p] = Head(Partners(t)).slot]
            /\ ci' = [ci EXCEPT ![t] = 1]
        BY <1>5, <1>p, <2>3 DEF Complete, Transfer, HandOver
      <3>h. PICK h : h = Head(Partners(t))
        OBVIOUS
      <3>2. RequestOK(h, Here(t)) /\ h.thread = p
        BY <1>0, <3>1, <3>h, PartnerFacts
      <3>3. h.slot \in Positions(p) /\ op[p].channels[h.slot] = Here(t)
        BY <3>2 DEF RequestOK
      <3>4. c # Here(t)
        BY <1>0, <1>p, <2>3, <3>1, Completed
      <3>5. r.slot # h.slot
        BY <1>2, <3>3, <3>4
      <3>6. chosen'[p] = h.slot /\ ci'[t] = 1
        BY <1>0, <3>1, <3>h DEF TypeOK
      <3> QED
        BY <1>1, <2>3, <3>5, <3>6
    <2>4. u = t => Complete(t) \/ CallbackCancel(t)
      <3>1. ASSUME u = t PROVE pc'[t] = "callback"
        BY <1>5, <3>1
      <3>2. pc'[t] = "callback" => Complete(t) \/ CallbackCancel(t)
        BY <1>0 DEF Action, Step, TypeOK, Issue, TakeBoth, NotHandled, Queue,
            TakePeer, DropStale, Wake, CallbackDone, AfterCall, NextPoint, CancelOwn, Poll,
            Withdraw, Schedule
      <3> QED
        BY <3>1, <3>2
    <2> QED
      BY <2>1, <2>2, <2>3, <2>4
  <1>6. r.slot \in Positions(p)' /\ RequestOK(r, c)' 
    <2>1. Positions(p)' = Positions(p)
      BY <1>3 DEF Positions
    <2> QED
      BY <1>2, <1>3, <1>4, <1>5, <1>p, <2>1 DEF RequestOK
  <1> QED
    BY <1>3, <1>6, <1>p

(* The same for a request of the thread that takes the step: a cancel loop *)
(* does not end before it has passed every request of its thread.          *)
LEMMA OwnKept ==
    ASSUME DistinctTables, LocksInv, NEW t \in Threads, Action(t),
           NEW c \in Channels, NEW r, Kept(r, c), r.thread = t
    PROVE  RequestOK(r, c)' /\ op'[r.thread] = op[r.thread]
  <1>0. /\ TypeOK /\ OpInv /\ TodoInv /\ LockInv /\ CallbackInv /\ QueuedInv /\ UniqueInv
        /\ PendingInv
    BY DEF LocksInv
  <1>1. /\ RequestOK(r, c) /\ r.slot \in Nat /\ r.slot >= 1
        /\ \A i \in Positions(t) : op[t].channels[i] = c => r.slot = i
        /\ op[t].kind \notin AltKinds => r.slot = 1 /\ Positions(t) = {1}
    BY <1>0, QueuedFacts DEF Kept
  <1>2. /\ r.op = opno[t] /\ r.slot \in Positions(t) /\ op[t].channels[r.slot] = c
        /\ r.slot \notin todo[t] /\ pc[t] \notin {"idle", "runnable"}
        /\ pc[t] \in {"cancel", "withdraw"} => r.slot >= ci[t]
        /\ \A u \in Threads : pc[u] = "callback" /\ peer[u] = t => r.slot # chosen[t] /\ r.slot >= ci[u]
    BY <1>1 DEF RequestOK
  <1>3. ci[t] \in Nat /\ Len(op[t].channels) \in Nat
    BY <1>0, OpType DEF TypeOK
  <1>4. ASSUME cancel_request(op[t].channels[ci[t]], t), ci[t] \in Positions(t) PROVE r.slot # ci[t]
    BY <1>0, <1>2, <1>4, Cancelled
  (* No worker completes an instruction of t while t takes this step. *)
  <1>5. ASSUME NEW u \in Threads, pc'[u] = "callback", peer'[u] = t, u # t
        PROVE  pc[u] = "callback" /\ peer[u] = t /\ ci'[u] = ci[u] /\ ~pending[t]
               /\ pc[t] \in MayBeCompleted
    BY <1>0, <1>5, OthersStep DEF CallbackInv, CallbackOK
  <1>6. pc'[t] = "callback" => peer'[t] # t
    <2>1. pc'[t] = "callback" => Complete(t) \/ CallbackCancel(t)
      BY <1>0 DEF Action, Step, TypeOK, Issue, TakeBoth, NotHandled, Queue,
          TakePeer, DropStale, Wake, CallbackDone, AfterCall, NextPoint, CancelOwn, Poll,
          Withdraw, Schedule
    <2>2. Complete(t) => peer'[t] # t
      BY <1>0, PartnerFacts DEF Complete, Transfer, HandOver
    <2>3. CallbackCancel(t) => peer'[t] # t
      BY <1>0 DEF CallbackCancel, CallbackInv, CallbackOK
    <2> QED
      BY <2>1, <2>2, <2>3
  <1> DEFINE Result ==
        /\ op'[t] = op[t] /\ opno'[t] = opno[t] /\ todo'[t] \subseteq todo[t]
        /\ pc'[t] \notin {"idle", "runnable"}
        /\ pc'[t] \in {"cancel", "withdraw"} => r.slot >= ci'[t]
        /\ ~pending[t] /\ pc[t] \in MayBeCompleted => chosen'[t] = chosen[t]
  <1>7. ASSUME Result PROVE RequestOK(r, c)' /\ op'[r.thread] = op[r.thread]
    <2>1. Positions(t)' = Positions(t)
      BY <1>7 DEF Positions
    <2>2. ASSUME NEW u \in Threads, pc'[u] = "callback", peer'[u] = t
          PROVE  r.slot # chosen'[t] /\ r.slot >= ci'[u]
      BY <1>2, <1>5, <1>6, <1>7, <2>2
    <2> QED
      BY <1>2, <1>7, <2>1, <2>2 DEF RequestOK
  <1>8. Result
    <2> USE <1>0 DEF TypeOK
    <2>1. ASSUME NEW o \in Program[t], Issue(t, o) PROVE Result
      BY <1>2, <2>1 DEF Issue
    <2>2. ASSUME NEW i \in todo[t], TakeBoth(t, i) PROVE Result
      BY <2>2 DEF TakeBoth, NotHandled
    <2>3. CASE Queue(t)
      BY <2>3 DEF Queue, NotHandled
    <2>4. CASE TakePeer(t)
      BY <2>4 DEF TakePeer
    <2>5. CASE DropStale(t)
      BY <2>5 DEF DropStale
    <2>6. CASE Complete(t)
      BY <2>6 DEF Complete, Transfer, HandOver
    <2>7. CASE CallbackCancel(t)
      BY <2>7 DEF CallbackCancel
    <2>8. CASE Wake(t)
      <3>1. pc[t] = "callback" /\ peer[t] \in Threads /\ peer[t] # t
        BY <2>8 DEF Wake, CallbackDone, CallbackInv, CallbackOK
      <3>2. at[t] \in todo[t] /\ todo[t] \subseteq Positions(t)
        BY <3>1 DEF TodoInv
      <3>3. NextPoint(t) = "cancel"
        BY <1>1, <1>2, <3>2 DEF NextPoint
      <3> QED
        BY <1>1, <2>8, <3>1, <3>3 DEF Wake, AfterCall
    <2>9. CASE CancelOwn(t)
      <3>1. pc[t] = "cancel" /\ r.slot >= ci[t] /\ ci[t] >= 1
        BY <1>2, <2>9 DEF CancelOwn, TodoInv
      <3>2. ci[t] \in Positions(t)
        BY <1>2, <1>3, <3>1 DEF Positions
      <3>3. r.slot # ci[t]
        <4>1. CASE op[t].channels[ci[t]] = Here(t)
          <5>1. at[t] \in todo[t] /\ at[t] \in Positions(t) /\ op[t] \in Program[t]
            BY <3>1, <3>2, ProgramOp DEF TodoInv
          <5>2. at[t] = ci[t]
            BY <3>2, <4>1, <5>1 DEF DistinctTables, Here, Positions
          <5> QED
            BY <1>2, <5>1, <5>2
        <4>2. CASE op[t].channels[ci[t]] # Here(t)
          BY <1>4, <2>9, <3>2, <4>2 DEF CancelOwn
        <4> QED
          BY <4>1, <4>2
      <3> QED
        BY <1>1, <1>3, <2>9, <3>1, <3>2, <3>3 DEF CancelOwn
    <2>10. CASE Poll(t)
      BY <1>1, <2>10 DEF Poll
    <2>11. CASE Withdraw(t)
      <3>1. pc[t] = "withdraw" /\ r.slot >= ci[t] /\ ci[t] >= 1
        BY <1>2, <2>11 DEF Withdraw, TodoInv
      <3>2. ci[t] \in Positions(t)
        BY <1>2, <1>3, <3>1 DEF Positions
      <3>3. r.slot # ci[t]
        BY <1>4, <2>11, <3>2 DEF Withdraw
      <3> QED
        BY <1>1, <1>3, <2>11, <3>1, <3>2, <3>3 DEF Withdraw
    <2>12. CASE Schedule(t)
      BY <1>2, <2>12 DEF Schedule
    <2> HIDE DEF Result
    <2> QED
      BY <2>1, <2>2, <2>3, <2>4, <2>5, <2>6, <2>7, <2>8, <2>9, <2>10, <2>11, <2>12
      DEF Action, Step
  <1> QED
    BY <1>7, <1>8

(* Every step preserves QueuedInv. *)
LEMMA QueuedStep ==
    ASSUME DistinctTables, LocksInv, NEW t \in Threads, Action(t)
    PROVE  QueuedInv'
  <1>0. /\ TypeOK /\ OpInv /\ TodoInv /\ LockInv /\ CallbackInv /\ QueuedInv /\ UniqueInv
        /\ PendingInv
    BY DEF LocksInv
  <1>1. ASSUME NEW c \in Channels, NEW r, Kept(r, c)
        PROVE  RequestOK(r, c)' /\ op'[r.thread] = op[r.thread]
    BY <1>1, OtherKept, OwnKept
  <1>2. ASSUME Queue(t), NEW c, c = Here(t), NEW r, r = Request(t, at[t])
        PROVE  RequestOK(r, c)' /\ op'[t] = op[t] /\ r.thread = t /\ r.slot = at[t]
    <2>1. /\ pc[t] = "match" /\ at[t] \in todo[t] /\ at[t] \in Positions(t) /\ pending[t]
          /\ r.op = opno[t] /\ r.thread = t /\ r.slot = at[t]
          /\ UNCHANGED <<opno, op, at, chosen, peer, ci>>
      BY <1>0, <1>2 DEF Queue, TodoInv, LockInv, Request
    <2>2. todo'[t] = todo[t] \ {at[t]} /\ pc'[t] \in {"try", "poll", "return"}
      BY <1>0, <1>2 DEF Queue, NotHandled, TypeOK
    <2>3. ASSUME NEW u \in Threads, pc'[u] = "callback", peer'[u] = t PROVE FALSE
      <3>1. u # t /\ pc[u] = "callback" /\ peer[u] = t
        BY <1>0, <1>2, <2>1, <2>2, <2>3, OthersStep
      <3> QED
        BY <1>0, <2>1, <3>1 DEF CallbackInv, CallbackOK
    <2> QED
      BY <1>2, <2>1, <2>2, <2>3 DEF RequestOK, Positions, Here
  <1>3. ASSUME NEW c \in Channels, NEW r, In(r, senders'[c])
        PROVE  RequestOK(r, c)' /\ r.slot <= op'[r.thread].send_count
    <2>1. CASE In(r, senders[c])
      BY <1>0, <1>1, <1>3, <2>1, QueuedFacts DEF Kept
    <2>2. CASE Queue(t) /\ c = Here(t) /\ Sending(t) /\ r = Request(t, at[t])
      BY <1>2, <2>2 DEF Sending
    <2> QED
      BY <1>0, <1>3, <2>1, <2>2, QueueStep
  <1>4. ASSUME NEW c \in Channels, NEW r, In(r, receivers'[c])
        PROVE  RequestOK(r, c)' /\ r.slot > op'[r.thread].send_count
    <2>1. CASE In(r, receivers[c])
      BY <1>0, <1>1, <1>4, <2>1, QueuedFacts DEF Kept
    <2>2. CASE Queue(t) /\ c = Here(t) /\ ~Sending(t) /\ r = Request(t, at[t])
      <3>1. at[t] \in Nat /\ op[t].send_count \in Nat
        BY <1>0, OpType DEF TypeOK
      <3> QED
        BY <1>2, <2>2, <3>1 DEF Sending
    <2> QED
      BY <1>0, <1>4, <2>1, <2>2, QueueStep
  <1> QED
    BY <1>3, <1>4 DEF QueuedInv, In

(* Every step preserves WakeInv. *)
LEMMA WakeStep ==
    ASSUME LocksInv, NEW t \in Threads, Action(t)
    PROVE  WakeInv'
  <1>0. /\ TypeOK /\ OpInv /\ TodoInv /\ LockInv /\ CallbackInv /\ QueuedInv /\ UniqueInv
        /\ PendingInv /\ WakeInv
    BY DEF LocksInv
  <1>a. ASSUME NEW u \in Threads \ {t}
        PROVE  /\ peer'[u] = peer[u]
               /\ \/ pending'[u] = pending[u] /\ chosen'[u] = chosen[u]
                  \/ Complete(t) /\ u = peer[t] /\ pending[u]
               /\ \/ pc'[u] = pc[u]
                  \/ Wake(t) /\ u = peer[t] /\ pc[u] = "blocked" /\ pc'[u] = "runnable"
    BY <1>0, OthersStep
  <1>1. ASSUME NEW u \in Threads \ {t}, ~pending'[u], pc'[u] \in MayBeCompleted
        PROVE  \E v \in Threads : pc'[v] = "callback" /\ peer'[v] = u
    <2>1. pc'[u] = pc[u]
      BY <1>1, <1>a
    <2>2. CASE pending[u]
      <3>1. Complete(t) /\ u = peer[t]
        BY <1>1, <1>a, <2>2
      <3>2. pc'[t] = "callback" /\ peer'[t] = u
        BY <1>0, <3>1 DEF Complete, Transfer, HandOver, TypeOK
      <3> QED
        BY <3>2
    <2>3. CASE ~pending[u]
      <3>1. PICK v \in Threads : pc[v] = "callback" /\ peer[v] = u
        BY <1>0, <1>1, <2>1, <2>3 DEF WakeInv
      <3>2. CASE v # t
        <4>1. pc'[v] = "callback" /\ peer'[v] = u
          BY <1>a, <3>1, <3>2
        <4> QED
          BY <4>1
      <3>3. CASE v = t
        <4>1. CallbackCancel(t) \/ Wake(t)
          BY <3>1, <3>3 DEF Action, Step, Issue, TakeBoth, Queue, TakePeer, DropStale, Complete,
              Transfer, HandOver, CancelOwn, Poll, Withdraw, Schedule
        <4>2. CASE CallbackCancel(t)
          BY <3>1, <3>3, <4>2 DEF CallbackCancel
        <4>3. CASE Wake(t)
          <5>1. pc[u] \in Parked /\ pc[u] = "blocked"
            BY <1>1, <2>1, <3>1, <3>3, <4>3 DEF Wake
          <5>2. pc'[u] = "runnable"
            BY <1>0, <1>1, <3>1, <3>3, <4>3, <5>1 DEF Wake, TypeOK
          <5> QED
            BY <1>1, <5>2
        <4> QED
          BY <4>1, <4>2, <4>3
      <3> QED
        BY <3>2, <3>3
    <2> QED
      BY <2>2, <2>3
  <1>2. ASSUME ~pending'[t], pc'[t] \in MayBeCompleted
        PROVE  \E v \in Threads : pc'[v] = "callback" /\ peer'[v] = t
    <2>1. ~pending[t] /\ pc[t] \in MayBeCompleted
      <3> USE <1>0, <1>2 DEF TypeOK
      <3> DEFINE Result == ~pending[t] /\ pc[t] \in MayBeCompleted
      <3>1. ASSUME NEW o \in Program[t], Issue(t, o) PROVE Result
        BY <3>1 DEF Issue
      <3>2. ASSUME NEW i \in todo[t], TakeBoth(t, i) PROVE Result
        BY <3>2 DEF TakeBoth, NotHandled
      <3>3. ASSUME Queue(t) PROVE Result
        BY <3>3 DEF Queue, NotHandled, LockInv
      <3>4. ASSUME TakePeer(t) \/ DropStale(t) \/ Complete(t) \/ CallbackCancel(t) PROVE Result
        BY <3>4 DEF TakePeer, DropStale, Complete, Transfer, HandOver, CallbackCancel
      <3>5. ASSUME Wake(t) PROVE Result
        BY <3>5 DEF Wake, NextPoint
      <3>6. ASSUME CancelOwn(t) \/ Withdraw(t) PROVE Result
        BY <3>6 DEF CancelOwn, Withdraw
      <3>7. ASSUME Poll(t) PROVE Result
        BY <3>7 DEF Poll
      <3>8. ASSUME Schedule(t) PROVE Result
        BY <3>8 DEF Schedule
      <3> HIDE DEF Result
      <3>9. Result
        BY <3>1, <3>2, <3>3, <3>4, <3>5, <3>6, <3>7, <3>8 DEF Action, Step
      <3> QED
        BY <3>9 DEF Result
    <2>2. PICK v \in Threads : pc[v] = "callback" /\ peer[v] = t
      BY <1>0, <2>1 DEF WakeInv
    <2>3. v # t
      BY <2>1, <2>2
    <2>4. pc'[v] = "callback" /\ peer'[v] = t
      BY <1>a, <2>2, <2>3
    <2> QED
      BY <2>4
  <1> QED
    BY <1>1, <1>2 DEF WakeInv

-----------------------------------------------------------------------------
(* The invariant *)

(* LocksInv holds at the start. *)
LEMMA LocksInit ==
    ASSUME Init
    PROVE  LocksInv
  <1>1. TypeOK
    BY DEF Init, TypeOK, ControlPoints
  <1>2. OpInv /\ PendingInv /\ TodoInv
    BY DEF Init, OpInv, PendingInv, TodoInv, Positions
  <1>3. LockInv /\ CallbackInv /\ WakeInv
    BY DEF Init, LockInv, CallbackInv, WakeInv
  <1>4. QueuedInv /\ UniqueInv
    BY DEF Init, QueuedInv, UniqueInv, OneRequestEach
  <1> QED
    BY <1>1, <1>2, <1>3, <1>4 DEF LocksInv

(* ... and every step keeps it. *)
LEMMA LocksStep ==
    ASSUME DistinctTables, LocksInv, [Next]_vars
    PROVE  LocksInv'
  <1>1. ASSUME NEW t \in Threads, Action(t) PROVE LocksInv'
    <2>1. TypeOK' /\ UniqueInv'
      BY <1>1, TypeStep, QueueStep DEF LocksInv
    <2> QED
      BY <1>1, <2>1, TodoStep, PendingStep, LockStep, CallbackStep, QueuedStep, WakeStep
      DEF LocksInv
  <1>2. CASE UNCHANGED vars
    <2> USE <1>2 DEF vars, locks, queues
    <2>1. /\ \A t \in Threads : Positions(t)' = Positions(t) /\ Here(t)' = Here(t)
          /\ \A t \in Threads : Partners(t)' = Partners(t)
      BY DEF Positions, Here, Partners, Sending
    <2>2. TypeOK' /\ OpInv' /\ PendingInv' /\ TodoInv' /\ WakeInv' /\ UniqueInv'
      BY <2>1 DEF LocksInv, TypeOK, OpInv, PendingInv, TodoInv, WakeInv, UniqueInv
    <2>3. LockInv' /\ CallbackInv'
      BY <2>1 DEF LocksInv, LockInv, CallbackInv, CallbackOK
    <2>4. QueuedInv'
      <3>1. ASSUME NEW r, NEW c PROVE RequestOK(r, c)' = RequestOK(r, c)
        BY DEF RequestOK, Positions
      <3>2. senders' = senders /\ receivers' = receivers /\ op' = op /\ QueuedInv
        BY DEF LocksInv
      <3> QED
        BY ONLY <3>1, <3>2 DEF QueuedInv
    <2> QED
      BY <2>2, <2>3, <2>4 DEF LocksInv
  <1> QED
    BY <1>1, <1>2 DEF Next, Action

(* The mutexes protect what they have to, in every reachable state.        *)
THEOREM LocksInvariant ==
    ASSUME DistinctTables
    PROVE  Spec => []LocksInv
  <1>1. DistinctTables
    OBVIOUS
  <1>2. DistinctTables /\ LocksInv /\ [Next]_vars => LocksInv'
    BY LocksStep
  <1> QED
    BY <1>1, <1>2, LocksInit, PTL DEF Spec

-----------------------------------------------------------------------------
(* Every step is one operation of ChannelAbstract or a stutter *)

(* Completing two requests is the rendezvous of the two threads. *)
LEMMA CompleteExchanges ==
    ASSUME LocksInv, NEW t \in Threads, Complete(t)
    PROVE  Abstract!Next
  <1>0. /\ TypeOK /\ OpInv /\ TodoInv /\ LockInv /\ QueuedInv
    BY DEF LocksInv
  <1>1. pc[t] = "check" /\ pending[peer[t]]
    BY DEF Complete, Transfer, HandOver
  <1> DEFINE c == Here(t)  i == at[t]
  <1>p. PICK p \in Threads : p = peer[t]
    BY <1>0, <1>1, PartnerFacts
  <1>r. PICK r \in Requests : r = Head(Partners(t))
    BY <1>0, <1>1, PartnerFacts
  <1>2. /\ p # t /\ pending[t] /\ pending[p] /\ r.thread = p /\ RequestOK(r, c)
        /\ Sending(t) => r.slot > op[p].send_count
        /\ ~Sending(t) => r.slot <= op[p].send_count
    BY <1>0, <1>1, <1>p, <1>r, PartnerFacts
  <1>3. /\ c \in Channels /\ i \in Positions(t) /\ i \in Nat /\ op[t].send_count \in Nat
        /\ op[t].channels[i] = c
    BY <1>0, <1>1, CallType, OpType DEF Here
  <1>4. /\ r.slot \in Positions(p) /\ op[p].channels[r.slot] = c
        /\ r = [thread |-> p, op |-> opno[p], slot |-> r.slot]
    <2>1. r.op = opno[p] /\ r.slot \in Positions(p) /\ op[p].channels[r.slot] = c
      BY <1>2 DEF RequestOK
    <2>2. r = [thread |-> r.thread, op |-> r.op, slot |-> r.slot]
      BY DEF Requests
    <2> QED
      BY <1>2, <2>1, <2>2
  <1>5. /\ pending' = [pending EXCEPT ![t] = FALSE, ![p] = FALSE]
        /\ chosen' = [chosen EXCEPT ![t] = i, ![p] = r.slot]
        /\ got' = IF Sending(t)
                  THEN [got EXCEPT ![p] = [slot |-> r.slot, msg |-> Request(t, i)]]
                  ELSE [got EXCEPT ![t] = [slot |-> i, msg |-> r]]
        /\ UNCHANGED <<opno, op>>
    BY <1>p, <1>r DEF Complete, Transfer, HandOver
  <1> HIDE DEF c, i
  <1> DEFINE none == [d \in Channels |-> <<>>]
  <1>6. \A m : /\ Tail(Append(none[c], m)) = <<>> /\ Head(Append(none[c], m)) = m
               /\ none = [none EXCEPT ![c] = Tail(Append(none[c], m))]
               /\ none[c] = <<>>
    <2>1. none[c] = <<>>
      BY <1>3
    <2>2. \A m : Append(<<>>, m) = <<m>> /\ Tail(<<m>>) = <<>> /\ Head(<<m>>) = m
      OBVIOUS
    <2>3. none = [none EXCEPT ![c] = <<>>]
      BY <1>3
    <2> HIDE DEF none
    <2> QED
      BY <2>1, <2>2, <2>3
  <1>7. CASE Sending(t)
    <2>1. i <= op[t].send_count
      BY <1>7 DEF Sending, i
    <2>2. /\ Abstract!OffersSend(t, i, c) /\ Abstract!OffersReceive(p, r.slot, c)
          /\ Abstract!Message(t, i) = Request(t, i)
      BY <1>2, <1>3, <1>4, <1>7, <2>1 DEF Abstract!OffersSend, Abstract!OffersReceive,
          Abstract!Message, Request, Positions
    <2>3. got' = [got EXCEPT ![p] = [slot |-> r.slot, msg |-> Request(t, i)]]
      BY <1>5, <1>7
    <2>4. Abstract!Exchange(t, i, p, r.slot, c)
      BY <1>2, <1>3, <1>5, <1>6, <2>2, <2>3 DEF Abstract!Exchange
    <2> QED
      BY <1>3, <1>4, <2>4 DEF Abstract!Next, Positions
  <1>8. CASE ~Sending(t)
    <2>1. ~(i <= op[t].send_count) /\ i > op[t].send_count
      BY <1>3, <1>8 DEF Sending, i
    <2>2. /\ Abstract!OffersSend(p, r.slot, c) /\ Abstract!OffersReceive(t, i, c)
          /\ Abstract!Message(p, r.slot) = r
      BY <1>2, <1>3, <1>4, <1>8, <2>1 DEF Abstract!OffersSend, Abstract!OffersReceive,
          Abstract!Message, Positions
    <2>3. got' = [got EXCEPT ![t] = [slot |-> i, msg |-> r]]
      BY <1>5, <1>8
    <2>4. /\ pending' = [pending EXCEPT ![p] = FALSE, ![t] = FALSE]
          /\ chosen' = [chosen EXCEPT ![p] = r.slot, ![t] = i]
      BY <1>0, <1>2, <1>5 DEF TypeOK
    <2>5. Abstract!Exchange(p, r.slot, t, i, c)
      BY <1>2, <1>3, <1>5, <1>6, <2>2, <2>3, <2>4 DEF Abstract!Exchange
    <2> QED
      BY <1>3, <1>4, <2>5 DEF Abstract!Next, Positions
  <1> QED
    BY <1>7, <1>8

(* Every step of a thread is one abstract operation or a stutter. *)
LEMMA StepRefines ==
    ASSUME LocksInv, [Next]_vars
    PROVE  Abstract!Next \/ UNCHANGED Abstract!absVars
  <1>0. TypeOK /\ OpInv /\ PendingInv
    BY DEF LocksInv
  <1> DEFINE Invisible == UNCHANGED <<pending, opno, op, chosen, got>>
  <1>1. ASSUME Invisible PROVE UNCHANGED Abstract!absVars
    BY <1>1 DEF Abstract!absVars
  <1>2. ASSUME NEW t \in Threads, NEW o \in Program[t], Issue(t, o) PROVE Abstract!Next
    <2>1. ~pending[t]
      BY <1>0, <1>2 DEF Issue, PendingInv
    <2>2. \A u \in Threads \ {t} : op'[u] = op[u]
      BY <1>0, <1>2 DEF Issue, TypeOK
    <2>3. Abstract!Issue(t)
      BY <1>2, <2>1, <2>2 DEF Issue, Abstract!Issue
    <2> QED
      BY <2>3 DEF Abstract!Next
  <1>3. ASSUME NEW t \in Threads, Poll(t) PROVE Abstract!Next \/ Invisible
    <2>1. CASE reqLock[t] = Nil /\ pending[t]
      <3>1. Abstract!GiveUp(t)
        BY <1>0, <1>3, <2>1 DEF Poll, OpInv, Abstract!GiveUp
      <3> QED
        BY <3>1 DEF Abstract!Next
    <2>2. CASE ~(reqLock[t] = Nil /\ pending[t])
      BY <1>3, <2>2 DEF Poll
    <2> QED
      BY <2>1, <2>2
  <1>4. ASSUME NEW t \in Threads, NEW i, TakeBoth(t, i) PROVE Invisible
    BY <1>4 DEF TakeBoth
  <1>5. ASSUME NEW t \in Threads,
               \/ Queue(t) \/ TakePeer(t) \/ DropStale(t) \/ CallbackCancel(t) \/ Wake(t)
               \/ CancelOwn(t) \/ Withdraw(t) \/ Schedule(t)
        PROVE  Invisible
    BY <1>5 DEF Queue, TakePeer, DropStale, CallbackCancel, Wake, AfterCall, CancelOwn, Withdraw,
        Schedule
  <1>6. UNCHANGED vars => Invisible
    BY DEF vars
  <1> HIDE DEF Invisible
  <1> QED
    BY <1>1, <1>2, <1>3, <1>4, <1>5, <1>6, CompleteExchanges DEF Next, Step

(* The mutexes of channel.cpp and execution_table.cpp are enough: with     *)
(* them as the only atomicity, the channel operations implement            *)
(* ChannelAbstract and no completed thread is left parked, for any         *)
(* threads, channels and programs whose tables name no channel twice.      *)
THEOREM LocksImplementRendezvous ==
    ASSUME DistinctTables
    PROVE  Spec => ImplementsRendezvous
  <1>1. Init => Abstract!Init
    BY DEF Init, Abstract!Init, NoOp
  <1>2. LocksInv /\ [Next]_vars => [Abstract!Next]_(Abstract!absVars)
    BY StepRefines
  <1>3. LocksInv => NoLostWakeup
    BY DEF LocksInv, WakeInv, NoLostWakeup
  <1>4. Spec => []LocksInv
    BY LocksInvariant
  <1> QED
    BY <1>1, <1>2, <1>3, <1>4, PTL DEF Spec, ImplementsRendezvous, Abstract!Spec
=============================================================================
