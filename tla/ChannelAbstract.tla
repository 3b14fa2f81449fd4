-------------------------- MODULE ChannelAbstract --------------------------
(***************************************************************************)
(* What channels promise a Limbo program: each channel is a bounded FIFO   *)
(* of messages (of capacity 0 for an unbuffered channel); an instruction   *)
(* offers to send on some channels and to receive on others, and exactly   *)
(* one of its offers is taken, once, at a moment when the instruction is   *)
(* in progress.  No queue of requests, no cancellation and no callback is  *)
(* visible at this level.                                                  *)
(***************************************************************************)
EXTENDS Integers, Sequences

CONSTANTS Threads, Channels, BufferLen, Nil

VARIABLES
    fifo,       \* fifo[c]: messages accepted and not yet delivered
    waiting,    \* waiting[t]: the offers of t may be taken
    opno,       \* number of the instruction of t
    op,         \* its table of offers
    chosen,     \* the offer that was taken, 0 if none
    got         \* the last message t received and the slot it went to

absVars == <<fifo, waiting, opno, op, chosen, got>>

Init ==
    /\ fifo    = [c \in Channels |-> <<>>]
    /\ waiting = [t \in Threads |-> FALSE]
    /\ opno    = [t \in Threads |-> 0]
    /\ op      = [t \in Threads |-> [kind |-> "none", send_count |-> 0, channels |-> <<>>]]
    /\ chosen  = [t \in Threads |-> 0]
    /\ got     = [t \in Threads |-> Nil]

(* Offers of a thread whose instruction is in progress. *)
OffersSend(t, i, c) ==
    /\ waiting[t]
    /\ i \in 1 .. Len(op[t].channels)
    /\ op[t].channels[i] = c
    /\ i <= op[t].send_count

OffersReceive(t, i, c) ==
    /\ waiting[t]
    /\ i \in 1 .. Len(op[t].channels)
    /\ op[t].channels[i] = c
    /\ i > op[t].send_count

Message(t, i) == [thread |-> t, op |-> opno[t], slot |-> i]

Issue(t) ==
    /\ ~waiting[t]
    /\ waiting' = [waiting EXCEPT ![t] = TRUE]
    /\ opno'    = [opno EXCEPT ![t] = @ + 1]
    /\ chosen'  = [chosen EXCEPT ![t] = 0]
    /\ \A u \in Threads \ {t} : op'[u] = op[u]
    /\ UNCHANGED <<fifo, got>>

(* A message goes into the buffer. *)
Deposit(t, i, c) ==
    /\ OffersSend(t, i, c)
    /\ Len(fifo[c]) < BufferLen[c]
    /\ fifo'    = [fifo EXCEPT ![c] = Append(@, Message(t, i))]
    /\ waiting' = [waiting EXCEPT ![t] = FALSE]
    /\ chosen'  = [chosen EXCEPT ![t] = i]
    /\ UNCHANGED <<opno, op, got>>

(* The oldest message leaves the buffer. *)
Collect(t, i, c) ==
    /\ OffersReceive(t, i, c)
    /\ fifo[c] # <<>>
    /\ fifo'    = [fifo EXCEPT ![c] = Tail(@)]
    /\ got'     = [got EXCEPT ![t] = [slot |-> i, msg |-> Head(fifo[c])]]
    /\ waiting' = [waiting EXCEPT ![t] = FALSE]
    /\ chosen'  = [chosen EXCEPT ![t] = i]
    /\ UNCHANGED <<opno, op>>

(* Rendezvous: a message passes from s to r.  It may not overtake one that *)
(* is in the buffer: with a full buffer r takes the oldest message and the *)
(* message of s is added at the end.                                       *)
Exchange(s, i, r, j, c) ==
    /\ s # r
    /\ OffersSend(s, i, c)
    /\ OffersReceive(r, j, c)
    /\ Len(fifo[c]) = BufferLen[c] \/ fifo[c] = <<>>
    /\ LET all == Append(fifo[c], Message(s, i))
       IN  /\ fifo' = [fifo EXCEPT ![c] = Tail(all)]
           /\ got'  = [got EXCEPT ![r] = [slot |-> j, msg |-> Head(all)]]
    /\ waiting' = [waiting EXCEPT ![s] = FALSE, ![r] = FALSE]
    /\ chosen'  = [chosen EXCEPT ![s] = i, ![r] = j]
    /\ UNCHANGED <<opno, op>>

(* A non-blocking alt gives up: its answer is one past the last offer.     *)
GiveUp(t) ==
    /\ waiting[t]
    /\ op[t].kind = "nbalt"
    /\ waiting' = [waiting EXCEPT ![t] = FALSE]
    /\ chosen'  = [chosen EXCEPT ![t] = Len(op[t].channels) + 1]
    /\ UNCHANGED <<fifo, opno, op, got>>

Next ==
    \/ \E t \in Threads : Issue(t) \/ GiveUp(t)
    \/ \E c \in Channels, t \in Threads :
        \E i \in 1 .. Len(op[t].channels) :
            \/ Deposit(t, i, c) \/ Collect(t, i, c)
            \/ \E r \in Threads : \E j \in 1 .. Len(op[r].channels) :
                Exchange(t, i, r, j, c)

(* Most steps of an implementation do nothing here: they are tried first.  *)
Spec == Init /\ [][UNCHANGED absVars \/ Next]_absVars
=============================================================================
