---------------------------- MODULE ChannelLocks ----------------------------
(***************************************************************************)
(* The channel operations of module Channel with their mutexes as state:   *)
(* _data_lock of each channel and pending_request_lock of each thread      *)
(* (src/src/vm/channel.cpp, src/src/vm/execution_table.cpp 1123-1316).     *)
(*                                                                         *)
(* A step ends where a thread may have to wait for a mutex, or where it    *)
(* runs on with one that others want.  Channels are unbuffered and not     *)
(* nil: the paths through the buffer take no further mutex.  std::lock     *)
(* takes two mutexes without waiting for one while it holds the other, so  *)
(* it is one step, possible when both are free.                            *)
(***************************************************************************)
EXTENDS Integers, Sequences

CONSTANTS
    Threads,    \* VM threads
    Channels,   \* channel objects
    Program,    \* Program[t]: the channel instructions t executes
    MaxOps,     \* bound: channel instructions each thread executes
    Nil         \* no thread, no message

(* An instruction and its table of channels: send and recv have a table of *)
(* one channel.                                                            *)
InstructionType == [kind : {"send", "recv", "alt", "nbalt"},
                    send_count : Nat, channels : Seq(Channels)]

ASSUME NilAssumption == Nil \notin Threads
ASSUME MaxOpsAssumption == MaxOps \in Nat
ASSUME ProgramAssumption ==
    \A t \in Threads : \A o \in Program[t] :
        /\ o \in InstructionType
        /\ o.kind \in {"send", "recv"} => Len(o.channels) = 1

VARIABLES
    dataLock,   \* holder of _data_lock of each channel, or Nil
    reqLock,    \* holder of pending_request_lock of each thread, or Nil
    senders, receivers, \* _data_senders, _data_receivers
    pending,    \* pending_request
    got,        \* what was received: the slot written and the message in it
    pc, opno, op, todo, \* control point, instruction, positions to try
    at,         \* position of the call in progress
    chosen,     \* position that was completed, 0 if none yet
    peer,       \* thread whose request the call found or completed
    ci          \* next position a cancel loop visits

locks == <<dataLock, reqLock>>
queues == <<senders, receivers>>
vars == <<locks, queues, pending, got, pc, opno, op, todo, at, chosen, peer, ci>>

NoOp == [kind |-> "none", send_count |-> 0, channels |-> <<>>]

Init ==
    /\ dataLock = [c \in Channels |-> Nil] /\ reqLock = [t \in Threads |-> Nil]
    /\ senders = [c \in Channels |-> <<>>] /\ receivers = [c \in Channels |-> <<>>]
    /\ pending = [t \in Threads |-> FALSE] /\ got = [t \in Threads |-> Nil]
    /\ pc = [t \in Threads |-> "idle"] /\ opno = [t \in Threads |-> 0]
    /\ op = [t \in Threads |-> NoOp] /\ todo = [t \in Threads |-> {}]
    /\ at = [t \in Threads |-> 0] /\ chosen = [t \in Threads |-> 0]
    /\ peer = [t \in Threads |-> Nil] /\ ci = [t \in Threads |-> 0]

-----------------------------------------------------------------------------
AltKinds == {"alt", "nbalt"}
Positions(t) == 1 .. Len(op[t].channels)
Request(t, i) == [thread |-> t, op |-> opno[t], slot |-> i]

(* No worker executes the thread. *)
Parked == {"runnable", "blocked"}

(* The channel of the call in progress, and its queue of possible partners.*)
Here(t) == op[t].channels[at[t]]
Sending(t) == at[t] <= op[t].send_count
Partners(t) == IF Sending(t) THEN receivers[Here(t)] ELSE senders[Here(t)]

DropPartner(t) ==
    IF Sending(t)
    THEN receivers' = [receivers EXCEPT ![Here(t)] = Tail(@)] /\ UNCHANGED senders
    ELSE senders' = [senders EXCEPT ![Here(t)] = Tail(@)] /\ UNCHANGED receivers

(* cancel_request, which waits for _data_lock: erase the first request of  *)
(* the thread, from the receivers if there is one, else from the senders.  *)
FirstOf(q, t, k) ==
    /\ k \in 1 .. Len(q)
    /\ q[k].thread = t
    /\ \A j \in 1 .. k - 1 : q[j].thread # t
HasRequest(q, t) == \E k \in 1 .. Len(q) : q[k].thread = t
Erase(q, k) == [j \in 1 .. Len(q) - 1 |-> IF j < k THEN q[j] ELSE q[j + 1]]
Erased(queue, c, t) ==
    \E k \in 1 .. Len(queue[c]) :
        FirstOf(queue[c], t, k) /\ queue' = [queue EXCEPT ![c] = Erase(@, k)]

cancel_request(c, t) ==
    /\ dataLock[c] = Nil
    /\ IF HasRequest(receivers[c], t) THEN Erased(receivers, c, t) /\ UNCHANGED senders
       ELSE /\ UNCHANGED receivers
            /\ IF HasRequest(senders[c], t) THEN Erased(senders, c, t) ELSE UNCHANGED senders

(* The instruction of t starts. *)
Issue(t, o) ==
    /\ pc[t] = "idle"
    /\ opno[t] < MaxOps
    /\ pending' = [pending EXCEPT ![t] = TRUE]
    /\ op' = [op EXCEPT ![t] = o]
    /\ opno' = [opno EXCEPT ![t] = @ + 1]
    /\ todo' = [todo EXCEPT ![t] = 1 .. Len(o.channels)]
    /\ chosen' = [chosen EXCEPT ![t] = 0]
    /\ pc' = [pc EXCEPT ![t] = "try"]
    /\ UNCHANGED <<locks, queues, got, at, peer, ci>>

(* The call for position i was not handled: go on, or leave. *)
NotHandled(t, i) ==
    /\ todo' = [todo EXCEPT ![t] = @ \ {i}]
    /\ pc' = [pc EXCEPT ![t] = IF todo[t] # {i} THEN "try"
                               ELSE IF op[t].kind = "nbalt" THEN "poll" ELSE "return"]

(* Start of send_data or receive_data: take both mutexes. *)
TakeBoth(t, i) ==
    /\ pc[t] = "try"
    /\ i \in todo[t]
    /\ dataLock[op[t].channels[i]] = Nil
    /\ reqLock[t] = Nil
    /\ IF pending[t]
       THEN /\ dataLock' = [dataLock EXCEPT ![op[t].channels[i]] = t]
            /\ reqLock' = [reqLock EXCEPT ![t] = t]
            /\ at' = [at EXCEPT ![t] = i]
            /\ pc' = [pc EXCEPT ![t] = "match"]
            /\ UNCHANGED todo
       ELSE NotHandled(t, i) /\ UNCHANGED <<locks, at>>
    /\ UNCHANGED <<queues, pending, got, opno, op, chosen, peer, ci>>

(* No partner is left: queue the request, release both mutexes. *)
Queue(t) ==
    /\ pc[t] = "match"
    /\ Partners(t) = <<>>
    /\ IF Sending(t)
       THEN senders' = [senders EXCEPT ![Here(t)] = Append(@, Request(t, at[t]))]
            /\ UNCHANGED receivers
       ELSE receivers' = [receivers EXCEPT ![Here(t)] = Append(@, Request(t, at[t]))]
            /\ UNCHANGED senders
    /\ dataLock' = [dataLock EXCEPT ![Here(t)] = Nil]
    /\ reqLock' = [reqLock EXCEPT ![t] = Nil]
    /\ NotHandled(t, at[t])
    /\ UNCHANGED <<pending, got, opno, op, at, chosen, peer, ci>>

(* Take the mutex of the first partner, holding the other two. *)
TakePeer(t) ==
    /\ pc[t] = "match"
    /\ Partners(t) # <<>>
    /\ LET p == Head(Partners(t)).thread
       IN  /\ reqLock[p] = Nil
           /\ reqLock' = [reqLock EXCEPT ![p] = t]
           /\ peer' = [peer EXCEPT ![t] = p]
    /\ pc' = [pc EXCEPT ![t] = "check"]
    /\ UNCHANGED <<dataLock, queues, pending, got, opno, op, todo, at, chosen, ci>>

(* The partner's request was completed elsewhere: drop it. *)
DropStale(t) ==
    /\ pc[t] = "check"
    /\ ~pending[peer[t]]
    /\ DropPartner(t)
    /\ reqLock' = [reqLock EXCEPT ![peer[t]] = Nil]
    /\ peer' = [peer EXCEPT ![t] = Nil]
    /\ pc' = [pc EXCEPT ![t] = "match"]
    /\ UNCHANGED <<dataLock, pending, got, opno, op, todo, at, chosen, ci>>

(* Both requests are completed and the data is transferred. *)
HandOver(t) ==
    LET p == peer[t]
        r == Head(Partners(t))
    IN  /\ pc[t] = "check"
        /\ pending' = [pending EXCEPT ![t] = FALSE, ![p] = FALSE]
        /\ chosen' = [chosen EXCEPT ![t] = at[t], ![p] = r.slot]
        /\ DropPartner(t)
        /\ got' = IF Sending(t)
                  THEN [got EXCEPT ![p] = [slot |-> r.slot, msg |-> Request(t, at[t])]]
                  ELSE [got EXCEPT ![t] = [slot |-> at[t], msg |-> r]]
        /\ pc' = [pc EXCEPT ![t] = "callback"]
        /\ ci' = [ci EXCEPT ![t] = 1]
        /\ UNCHANGED <<opno, op, todo, at, peer>>

(* The partner's request has to be pending under its mutex. *)
Transfer(t) == HandOver(t) /\ pending[peer[t]]

(* The callback runs with only the request mutex of t held. *)
Complete(t) ==
    /\ Transfer(t)
    /\ dataLock' = [dataLock EXCEPT ![Here(t)] = Nil]
    /\ reqLock' = [reqLock EXCEPT ![peer[t]] = Nil]

(* One iteration of the cancel loop of an alt's callback. *)
CallbackCancel(t) ==
    LET p == peer[t]
    IN  /\ pc[t] = "callback"
        /\ op[p].kind \in AltKinds
        /\ ci[t] \in Positions(p)
        /\ IF op[p].channels[ci[t]] = Here(t) THEN UNCHANGED queues
           ELSE cancel_request(op[p].channels[ci[t]], p)
        /\ ci' = [ci EXCEPT ![t] = @ + 1]
        /\ UNCHANGED <<locks, pending, got, pc, opno, op, todo, at, chosen, peer>>

CallbackDone(t) ==
    /\ pc[t] = "callback"
    /\ op[peer[t]].kind \in AltKinds => ci[t] > Len(op[peer[t]].channels)

(* The end of send_data and receive_data after the callback: the request   *)
(* mutex is released and an alt cancels what it queued before.             *)
AfterCall(t) ==
    /\ reqLock' = [reqLock EXCEPT ![t] = Nil]
    /\ peer' = [peer EXCEPT ![t] = Nil]
    /\ ci' = [ci EXCEPT ![t] = 1]
    /\ UNCHANGED <<dataLock, queues, pending, got, opno, op, todo, at, chosen>>

NextPoint(t) == IF op[t].kind \in AltKinds /\ todo[t] # Positions(t) THEN "cancel" ELSE "idle"

(* enqueue_blocked_thread waits until no worker owns the peer. *)
Wake(t) ==
    /\ CallbackDone(t)
    /\ pc[peer[t]] \in Parked
    /\ pc' = [pc EXCEPT ![peer[t]] = IF @ = "blocked" THEN "runnable" ELSE @,
                        ![t] = NextPoint(t)]
    /\ AfterCall(t)

CancelOwn(t) ==
    /\ pc[t] = "cancel"
    /\ IF ci[t] \in Positions(t)
       THEN /\ IF op[t].channels[ci[t]] = Here(t) THEN UNCHANGED queues
               ELSE cancel_request(op[t].channels[ci[t]], t)
            /\ ci' = [ci EXCEPT ![t] = @ + 1]
            /\ UNCHANGED pc
       ELSE pc' = [pc EXCEPT ![t] = "idle"] /\ UNCHANGED <<queues, ci>>
    /\ UNCHANGED <<locks, pending, got, opno, op, todo, at, chosen, peer>>

(* End of a non-blocking alt: try_lock, and if it succeeds and nobody      *)
(* completed the request, cancel it in all channels with the mutex held.   *)
Poll(t) ==
    /\ pc[t] = "poll"
    /\ IF reqLock[t] = Nil /\ pending[t]
       THEN /\ reqLock' = [reqLock EXCEPT ![t] = t]
            /\ pending' = [pending EXCEPT ![t] = FALSE]
            /\ chosen' = [chosen EXCEPT ![t] = Len(op[t].channels) + 1]
            /\ ci' = [ci EXCEPT ![t] = 1]
            /\ pc' = [pc EXCEPT ![t] = "withdraw"]
       ELSE pc' = [pc EXCEPT ![t] = "return"] /\ UNCHANGED <<reqLock, pending, chosen, ci>>
    /\ UNCHANGED <<dataLock, queues, got, opno, op, todo, at, peer>>

Withdraw(t) ==
    /\ pc[t] = "withdraw"
    /\ IF ci[t] \in Positions(t)
       THEN /\ cancel_request(op[t].channels[ci[t]], t)
            /\ ci' = [ci EXCEPT ![t] = @ + 1]
            /\ UNCHANGED <<pc, reqLock>>
       ELSE /\ pc' = [pc EXCEPT ![t] = "idle"]
            /\ reqLock' = [reqLock EXCEPT ![t] = Nil]
            /\ UNCHANGED <<queues, ci>>
    /\ UNCHANGED <<dataLock, pending, got, opno, op, todo, at, chosen, peer>>

(* next_thread gives up the blocked thread; later it is dispatched again.  *)
Schedule(t) ==
    /\ \/ pc[t] = "return" /\ pc' = [pc EXCEPT ![t] = "blocked"]
       \/ pc[t] = "runnable" /\ pc' = [pc EXCEPT ![t] = "idle"]
    /\ UNCHANGED <<locks, queues, pending, got, opno, op, todo, at, chosen, peer, ci>>

(* Everything but the start of an instruction. *)
Step(t) ==
    \/ \E i \in todo[t] : TakeBoth(t, i)
    \/ Queue(t) \/ TakePeer(t) \/ DropStale(t) \/ Complete(t)
    \/ CallbackCancel(t) \/ Wake(t) \/ CancelOwn(t)
    \/ Poll(t) \/ Withdraw(t) \/ Schedule(t)

Next == \E t \in Threads : Step(t) \/ \E o \in Program[t] : Issue(t, o)

Spec == Init /\ [][Next]_vars

(* A worker whose mutexes become free again and again gets on. *)
FairSpec == Spec /\ \A t \in Threads : SF_vars(Step(t))

-----------------------------------------------------------------------------
(* Properties *)

Requests == [thread : Threads, op : Nat, slot : Nat]
ControlPoints == Parked \cup {"idle", "try", "match", "check", "callback", "cancel", "poll",
                              "withdraw", "return"}

TypeOK ==
    /\ dataLock \in [Channels -> Threads \cup {Nil}]
    /\ reqLock \in [Threads -> Threads \cup {Nil}]
    /\ senders \in [Channels -> Seq(Requests)] /\ receivers \in [Channels -> Seq(Requests)]
    /\ pending \in [Threads -> BOOLEAN]
    /\ got \in [Threads -> [slot : Nat, msg : Requests] \cup {Nil}]
    /\ pc \in [Threads -> ControlPoints] /\ opno \in [Threads -> Nat]
    /\ op \in [Threads -> InstructionType \cup {NoOp}]
    /\ todo \in [Threads -> SUBSET Nat]
    /\ at \in [Threads -> Nat] /\ chosen \in [Threads -> Nat]
    /\ peer \in [Threads -> Threads \cup {Nil}] /\ ci \in [Threads -> Nat]

(* At the grain of the mutexes, too, a parked thread whose request was     *)
(* completed has a worker on its way to wake it; in particular a           *)
(* non-blocking alt whose try_lock fails is woken by whoever held the      *)
(* mutex.                                                                  *)
NoLostWakeup ==
    \A t \in Threads : pc[t] = "blocked" /\ ~pending[t] =>
        \E u \in Threads : pc[u] = "callback" /\ peer[u] = t

(* The specification the mutexes have to be enough for. *)
Abstract == INSTANCE ChannelAbstract WITH
    BufferLen <- [c \in Channels |-> 0], fifo <- [c \in Channels |-> <<>>],
    waiting <- pending

(* With the mutexes of channel.cpp and execution_table.cpp as the only     *)
(* atomicity, the operations still hand over each message exactly once     *)
(* between two instructions in progress, and no wakeup is lost.            *)
ImplementsRendezvous == Abstract!Spec /\ []NoLostWakeup

(* "Returns true if the data was sent, otherwise request is queued and     *)
(* false returned": a call that found the channel and its own request free *)
(* gets past the search for a partner.                                     *)
CallReturns == \A t \in Threads : pc[t] = "match" ~> pc[t] \notin {"match", "check"}

(* "Try to lock the request so we can cancel it in all channels": a        *)
(* non-blocking alt that has the lock cancels it and goes on.              *)
NbaltReturns == \A t \in Threads : pc[t] = "withdraw" ~> pc[t] = "idle"

-----------------------------------------------------------------------------
(* The inductive invariant behind ImplementsRendezvous.  Like ChannelInv   *)
(* it needs the condition that the assertions of channel.cpp and           *)
(* execution_table.cpp state: no table names a channel twice.              *)

DistinctTables ==
    \A t \in Threads : \A o \in Program[t] : \A i, j \in 1 .. Len(o.channels) :
        o.channels[i] = o.channels[j] => i = j

(* The instruction is one of the program, and only nbalt polls. *)
OpInv ==
    \A t \in Threads :
        /\ op[t] \in Program[t] \cup {NoOp}
        /\ pc[t] = "poll" => op[t].kind = "nbalt"

(* A request is pending only while nobody completed the instruction. *)
PendingInv ==
    \A t \in Threads : pending[t] =>
        pc[t] \in {"try", "match", "check", "poll", "return", "blocked"}

(* The positions left to try; the one of the call in progress is among     *)
(* them until it is known not to be handled.  A cancel loop counts from 1. *)
TodoInv ==
    \A t \in Threads :
        /\ todo[t] \subseteq Positions(t)
        /\ pc[t] \in {"match", "check", "callback", "cancel"} => at[t] \in todo[t]
        /\ pc[t] \in {"cancel", "withdraw"} => ci[t] >= 1

(* The mutexes a thread holds.  A call searches for a partner with the     *)
(* channel's and its own, and its request is pending as long; a partner is *)
(* examined with the partner's as well, at the front of the queue.         *)
LockInv ==
    \A t \in Threads :
        /\ pc[t] \in {"match", "check"} => dataLock[Here(t)] = t /\ pending[t]
        /\ pc[t] \in {"match", "check", "callback", "withdraw"} => reqLock[t] = t
        /\ pc[t] = "check" =>
            /\ Partners(t) # <<>>
            /\ peer[t] = Head(Partners(t)).thread
            /\ peer[t] # t
            /\ reqLock[peer[t]] = t

(* Control points at which a peer may complete the request of a thread, or *)
(* has completed it and not woken the thread yet.                          *)
MayBeCompleted == {"try", "poll", "return", "blocked"}

(* The peer whose callback a worker runs was completed on the channel of   *)
(* the call, by this worker only.                                          *)
CallbackOK(t, p) ==
    /\ p \in Threads /\ p # t
    /\ ~pending[p]
    /\ pc[p] \in MayBeCompleted
    /\ chosen[p] \in Positions(p)
    /\ op[p].channels[chosen[p]] = Here(t)
    /\ \A u \in Threads \ {t} : pc[u] = "callback" => peer[u] # p

CallbackInv == \A t \in Threads : pc[t] = "callback" => CallbackOK(t, peer[t])

(* Every queued request is of the current instruction of its thread, was   *)
(* tried and not handled, and has not been passed by the loop that cancels *)
(* the requests of the thread.                                             *)
RequestOK(r, c) ==
    LET p == r.thread
    IN  /\ r.op = opno[p]
        /\ r.slot \in Positions(p)
        /\ op[p].channels[r.slot] = c
        /\ r.slot \notin todo[p]
        /\ pc[p] \notin {"idle", "runnable"}
        /\ pc[p] \in {"cancel", "withdraw"} => r.slot >= ci[p]
        /\ \A u \in Threads : pc[u] = "callback" /\ peer[u] = p =>
            r.slot # chosen[p] /\ r.slot >= ci[u]

QueuedInv ==
    \A c \in Channels :
        /\ \A k \in 1 .. Len(senders[c]) :
            /\ RequestOK(senders[c][k], c)
            /\ senders[c][k].slot <= op[senders[c][k].thread].send_count
        /\ \A k \in 1 .. Len(receivers[c]) :
            /\ RequestOK(receivers[c][k], c)
            /\ receivers[c][k].slot > op[receivers[c][k].thread].send_count

OneRequestEach(q) == \A j, k \in 1 .. Len(q) : q[j].thread = q[k].thread => j = k

UniqueInv ==
    \A c \in Channels : OneRequestEach(senders[c]) /\ OneRequestEach(receivers[c])

(* A completed thread that may be parked has a worker that will wake it.   *)
WakeInv ==
    \A t \in Threads : ~pending[t] /\ pc[t] \in MayBeCompleted =>
        \E u \in Threads : pc[u] = "callback" /\ peer[u] = t

LocksInv ==
    /\ TypeOK /\ OpInv /\ PendingInv /\ TodoInv /\ LockInv /\ CallbackInv
    /\ QueuedInv /\ UniqueInv /\ WakeInv
=============================================================================
