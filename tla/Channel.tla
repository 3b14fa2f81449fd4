------------------------------ MODULE Channel ------------------------------
(***************************************************************************)
(* Channels of the Dis VM (src/src/vm/channel.cpp) and the instructions    *)
(* that use them: send, recv, alt and nbalt (src/src/vm/execution_table.cpp*)
(* 1123-1316).                                                             *)
(*                                                                         *)
(* A VM thread that executes an instruction is owned by one worker of the  *)
(* scheduler, so the steps of the worker are the steps of the thread it    *)
(* owns.  Grain of atomicity: one call of send_data, receive_data or       *)
(* cancel_request is one step (everything it reads or writes is protected  *)
(* by _data_lock and the pending_request_lock of the threads involved);    *)
(* the completion callback and the loops that cancel requests channel by   *)
(* channel run after _data_lock is released and are separate steps.        *)
(* Whether those locks can always be acquired is the question of module    *)
(* ChannelLocks.                                                           *)
(*                                                                         *)
(* Data: the message a thread sends is identified with the memory slot it  *)
(* is read from, so a message is the request record of its sender.         *)
(* Positions of an alt are numbered from 1 (from 0 in the code).           *)
(*                                                                         *)
(* Definitions marked "Fault:" are not part of the specification.  Each is *)
(* a plausible mistake in the operation that follows it; replacing the     *)
(* operation by it makes TLC refute one of the properties.                 *)
(***************************************************************************)
EXTENDS Integers, Sequences, FiniteSets

CONSTANTS
    Threads,    \* VM threads
    Channels,   \* channel objects
    BufferLen,  \* BufferLen[c]: length of the buffer of c, 0 if it has none
    Nil,        \* runtime_constants::nil; also an empty slot of a buffer
    Instructions, \* channel instructions the program contains
    MaxOps      \* bound: channel instructions each thread executes

(* An instruction and its table of channels (vm_alt_stack_layout_t): the   *)
(* first send_count channels are sent to, the others are received from.    *)
(* send and recv have a table of one channel.                              *)
InstructionType == [kind : {"send", "recv", "alt", "nbalt"},
                    send_count : Nat, channels : Seq(Channels \cup {Nil})]

ASSUME BufferLenAssumption == BufferLen \in [Channels -> Nat]
ASSUME NilAssumption == Nil \notin Channels
ASSUME MaxOpsAssumption == MaxOps \in Nat
ASSUME InstructionsAssumption ==
    \A o \in Instructions :
        /\ o \in InstructionType
        /\ Len(o.channels) > 0
        /\ o.kind = "send" => Len(o.channels) = 1 /\ o.send_count = 1
        /\ o.kind = "recv" => Len(o.channels) = 1 /\ o.send_count = 0

VARIABLES
    (* vm_channel_t *)
    senders,    \* _data_senders
    receivers,  \* _data_receivers
    ring,       \* _data_buffer, _data_buffer_head, _data_buffer_count
    (* vm_registers_t of each VM thread *)
    pending,    \* request_mutex.pending_request
    state,      \* current_thread_state
    index,      \* the word an alt leaves in its destination register
    got,        \* what was received: the slot written and the message in it
    (* the instruction in progress *)
    pc,         \* control point of the thread
    opno,       \* number of the instruction
    op,         \* kind of instruction and its table of channels
    todo,       \* positions of the table not tried yet
    chosen,     \* position that handled the instruction, 0 if none yet
    job,        \* completed peer whose callback this worker runs
    ci          \* next position a cancel loop visits

chanVars == <<senders, receivers, ring>>
regVars  == <<pending, state, index, got>>
ctlVars  == <<pc, opno, op, todo, chosen, job, ci>>
vars     == <<chanVars, regVars, ctlVars>>

-----------------------------------------------------------------------------
(* Control points at which no worker owns the thread: waiting in           *)
(* _runnable_vm_thread_ids, waiting in _blocked_vm_thread_ids, or ended    *)
(* because the thread is broken.                                           *)
Parked == {"runnable", "blocked", "stopped"}

Owned(t) == pc[t] \notin Parked

BlockedStates == {"blocked_sending", "blocked_receiving", "blocked_in_alt"}

(* A null pointer was dereferenced: the process is gone. *)
Crashed == \E t \in Threads : pc[t] = "crashed"

AltKinds == {"alt", "nbalt"}

NoOp  == [kind |-> "none", send_count |-> 0, channels |-> <<>>]
NoJob == [thread |-> Nil, ch |-> Nil]

Positions(t) == 1 .. Len(op[t].channels)

(* vm_channel_request_t: the data pointer is the slot of the table of the  *)
(* thread's current instruction.                                           *)
Request(t, i) == [thread |-> t, op |-> opno[t], slot |-> i]

Requests == [thread : Threads, op : Nat, slot : Nat]

EmptyRing(c) ==
    [data |-> [n \in 0 .. BufferLen[c] - 1 |-> Nil], head |-> 0, count |-> 0]

Init ==
    /\ senders   = [c \in Channels |-> <<>>]
    /\ receivers = [c \in Channels |-> <<>>]
    /\ ring      = [c \in Channels |-> EmptyRing(c)]
    /\ pending   = [t \in Threads |-> FALSE]
    /\ state     = [t \in Threads |-> "ready"]
    /\ index     = [t \in Threads |-> 0]
    /\ got       = [t \in Threads |-> Nil]
    /\ pc        = [t \in Threads |-> "runnable"]
    /\ opno      = [t \in Threads |-> 0]
    /\ op        = [t \in Threads |-> NoOp]
    /\ todo      = [t \in Threads |-> {}]
    /\ chosen    = [t \in Threads |-> 0]
    /\ job       = [t \in Threads |-> NoJob]
    /\ ci        = [t \in Threads |-> 0]

-----------------------------------------------------------------------------
(* The ring buffer.  try_send_to_buffer and try_receive_from_buffer are    *)
(* used only when they succeed: there is room, there is data.              *)

try_send_to_buffer(c, b, msg) ==
    LET end  == b.head + b.count
        next == IF end >= BufferLen[c] THEN end - BufferLen[c] ELSE end
    IN  [data |-> [b.data EXCEPT ![next] = msg], head |-> b.head, count |-> b.count + 1]

(* Fault: the head is not wrapped. *)
receive_without_wrap(c, b) ==
    [data |-> b.data, head |-> b.head + 1, count |-> b.count - 1]

try_receive_from_buffer(c, b) ==
    LET step == b.head + 1
    IN  [data |-> b.data, head |-> IF step = BufferLen[c] THEN 0 ELSE step,
         count |-> b.count - 1]

HasRoom(c) == ring[c].count < BufferLen[c]
HasData(c) == ring[c].count > 0
Oldest(c)  == ring[c].data[ring[c].head]

(* The request queues hold requests that were completed elsewhere; the     *)
(* matching loops drop those from the front.                               *)
AllStale(q) == \A j \in 1 .. Len(q) : ~pending[q[j].thread]

FirstPending(q, k) ==
    /\ k \in 1 .. Len(q)
    /\ pending[q[k].thread]
    /\ \A j \in 1 .. k - 1 : ~pending[q[j].thread]

After(q, k) == SubSeq(q, k + 1, Len(q))

(* cancel_request: erase the first request of the thread, from the         *)
(* receivers if there is one there, else from the senders.                 *)
Erase(q, k) == [j \in 1 .. Len(q) - 1 |-> IF j < k THEN q[j] ELSE q[j + 1]]

FirstOf(q, t, k) ==
    /\ k \in 1 .. Len(q)
    /\ q[k].thread = t
    /\ \A j \in 1 .. k - 1 : q[j].thread # t

HasRequest(q, t) == \E k \in 1 .. Len(q) : q[k].thread = t

(* Fault: only the receivers are searched. *)
cancel_receiver_only(c, t) ==
    \/ /\ \E k \in 1 .. Len(receivers[c]) :
            /\ FirstOf(receivers[c], t, k)
            /\ receivers' = [receivers EXCEPT ![c] = Erase(@, k)]
       /\ UNCHANGED senders
    \/ ~HasRequest(receivers[c], t) /\ UNCHANGED <<senders, receivers>>

cancel_request(c, t) ==
    \/ /\ \E k \in 1 .. Len(receivers[c]) :
            /\ FirstOf(receivers[c], t, k)
            /\ receivers' = [receivers EXCEPT ![c] = Erase(@, k)]
       /\ UNCHANGED senders
    \/ /\ ~HasRequest(receivers[c], t)
       /\ \E k \in 1 .. Len(senders[c]) :
            /\ FirstOf(senders[c], t, k)
            /\ senders' = [senders EXCEPT ![c] = Erase(@, k)]
       /\ UNCHANGED receivers
    \/ /\ ~HasRequest(receivers[c], t)
       /\ ~HasRequest(senders[c], t)
       /\ UNCHANGED <<senders, receivers>>

-----------------------------------------------------------------------------
(* How the instruction of thread t goes on after one call of send_data or  *)
(* receive_data for position i.                                            *)

(* The instruction is complete: an alt stores the position that was        *)
(* handled, the thread runs on, and the local variables are gone.          *)
Complete(t, i) ==
    /\ pc'    = [pc EXCEPT ![t] = "idle"]
    /\ state' = [state EXCEPT ![t] = "running"]
    /\ index' = IF op[t].kind \in AltKinds
                THEN [index EXCEPT ![t] = i] ELSE index
    /\ todo'  = [todo EXCEPT ![t] = {}]
    /\ ci'    = [ci EXCEPT ![t] = 0]

(* Fault: requests queued by earlier calls are forgotten. *)
NeverQueued(t) == FALSE

(* requests_queued > 0 *)
QueuedBefore(t) == op[t].kind \in AltKinds /\ todo[t] # Positions(t)

(* The call returned true: done, unless requests of this alt are queued in *)
(* other channels and must be cancelled first.                             *)
Handled(t, i) ==
    IF QueuedBefore(t)
    THEN /\ pc' = [pc EXCEPT ![t] = "cancel"]
         /\ ci' = [ci EXCEPT ![t] = 1]
         /\ UNCHANGED <<state, index, todo>>
    ELSE Complete(t, i)

(* The call returned false: try the next position, or leave the            *)
(* instruction with the request (or requests) queued.                      *)
NotHandled(t, i) ==
    /\ todo' = [todo EXCEPT ![t] = @ \ {i}]
    /\ pc' = [pc EXCEPT ![t] = IF todo[t] # {i} THEN "try"
                               ELSE IF op[t].kind = "nbalt" THEN "poll"
                               ELSE "return"]
    /\ UNCHANGED <<state, index, got, opno, op, chosen, job, ci>>

(* A peer's queued request p was completed: its callback runs next, on     *)
(* this worker.                                                            *)
Matched(t, i, c, p) ==
    /\ pending' = [pending EXCEPT ![t] = FALSE, ![p.thread] = FALSE]
    /\ chosen'  = [chosen EXCEPT ![t] = i, ![p.thread] = p.slot]
    /\ job'     = [job EXCEPT ![t] = [thread |-> p.thread, ch |-> c]]
    /\ pc'      = [pc EXCEPT ![t] = "callback"]
    /\ ci'      = [ci EXCEPT ![t] = 1]
    /\ UNCHANGED <<state, index, opno, op, todo>>

Received(t, i, msg) == [slot |-> i, msg |-> msg]

-----------------------------------------------------------------------------
(* send_data *)

SendMatch(t, i, c) ==
    /\ \E k \in 1 .. Len(receivers[c]) :
        /\ FirstPending(receivers[c], k)
        /\ LET r == receivers[c][k]
           IN  /\ receivers' = [receivers EXCEPT ![c] = After(@, k)]
               /\ got' = [got EXCEPT ![r.thread] =
                            Received(r.thread, r.slot, Request(t, i))]
               /\ Matched(t, i, c, r)
    /\ UNCHANGED <<senders, ring>>

SendBuffer(t, i, c) ==
    /\ AllStale(receivers[c])
    /\ HasRoom(c)
    /\ receivers' = [receivers EXCEPT ![c] = <<>>]
    /\ ring'      = [ring EXCEPT ![c] = try_send_to_buffer(c, @, Request(t, i))]
    /\ pending'   = [pending EXCEPT ![t] = FALSE]
    /\ chosen'    = [chosen EXCEPT ![t] = i]
    /\ Handled(t, i)
    /\ UNCHANGED <<senders, got, opno, op, job>>

SendQueue(t, i, c) ==
    /\ AllStale(receivers[c])
    /\ ~HasRoom(c)
    /\ receivers' = [receivers EXCEPT ![c] = <<>>]
    /\ senders'   = [senders EXCEPT ![c] = Append(@, Request(t, i))]
    /\ NotHandled(t, i)
    /\ UNCHANGED <<ring, pending>>

send_data(t, i, c) ==
    /\ pending[t]
    /\ SendMatch(t, i, c) \/ SendBuffer(t, i, c) \/ SendQueue(t, i, c)

(* receive_data *)

(* Fault: the queued sender's message overtakes the buffered ones. *)
ReceiveOvertaking(t, i, c) ==
    /\ \E k \in 1 .. Len(senders[c]) :
        /\ FirstPending(senders[c], k)
        /\ senders' = [senders EXCEPT ![c] = After(@, k)]
        /\ got' = [got EXCEPT ![t] = Received(t, i, senders[c][k])]
        /\ Matched(t, i, c, senders[c][k])
    /\ UNCHANGED <<receivers, ring>>

(* With a buffer, the receiver takes the oldest message and the queued     *)
(* sender uses the freed slot; without one the message is handed over.     *)
ReceiveMatch(t, i, c) ==
    /\ \E k \in 1 .. Len(senders[c]) :
        /\ FirstPending(senders[c], k)
        /\ LET s == senders[c][k]
           IN  /\ senders' = [senders EXCEPT ![c] = After(@, k)]
               /\ IF HasData(c)
                  THEN /\ got' = [got EXCEPT ![t] = Received(t, i, Oldest(c))]
                       /\ ring' = [ring EXCEPT ![c] = try_send_to_buffer(c,
                                     try_receive_from_buffer(c, @), s)]
                  ELSE /\ got' = [got EXCEPT ![t] = Received(t, i, s)]
                       /\ UNCHANGED ring
               /\ Matched(t, i, c, s)
    /\ UNCHANGED receivers

(* Fault: a buffered message is taken and queued senders are left asleep.  *)
ReceiveStarving(t, i, c) ==
    /\ HasData(c)
    /\ got'     = [got EXCEPT ![t] = Received(t, i, Oldest(c))]
    /\ ring'    = [ring EXCEPT ![c] = try_receive_from_buffer(c, @)]
    /\ pending' = [pending EXCEPT ![t] = FALSE]
    /\ chosen'  = [chosen EXCEPT ![t] = i]
    /\ Handled(t, i)
    /\ UNCHANGED <<senders, receivers, opno, op, job>>

ReceiveBuffer(t, i, c) ==
    /\ AllStale(senders[c])
    /\ HasData(c)
    /\ senders' = [senders EXCEPT ![c] = <<>>]
    /\ got'     = [got EXCEPT ![t] = Received(t, i, Oldest(c))]
    /\ ring'    = [ring EXCEPT ![c] = try_receive_from_buffer(c, @)]
    /\ pending' = [pending EXCEPT ![t] = FALSE]
    /\ chosen'  = [chosen EXCEPT ![t] = i]
    /\ Handled(t, i)
    /\ UNCHANGED <<receivers, opno, op, job>>

ReceiveQueue(t, i, c) ==
    /\ AllStale(senders[c])
    /\ ~HasData(c)
    /\ senders'   = [senders EXCEPT ![c] = <<>>]
    /\ receivers' = [receivers EXCEPT ![c] = Append(@, Request(t, i))]
    /\ NotHandled(t, i)
    /\ UNCHANGED <<ring, pending>>

receive_data(t, i, c) ==
    /\ pending[t]
    /\ ReceiveMatch(t, i, c) \/ ReceiveBuffer(t, i, c) \/ ReceiveQueue(t, i, c)

-----------------------------------------------------------------------------
(* The instructions *)

BlockedStateOf(kind) == CASE kind = "send" -> "blocked_sending"
                          [] kind = "recv" -> "blocked_receiving"
                          [] OTHER         -> "blocked_in_alt"

(* Common start of send, recv and exec_alt: mark the request pending and   *)
(* the thread blocked before any channel is touched.                       *)
Begin(t, o) ==
    /\ pending' = [pending EXCEPT ![t] = TRUE]
    /\ state'   = [state EXCEPT ![t] = BlockedStateOf(o.kind)]
    /\ op'      = [op EXCEPT ![t] = o]
    /\ opno'    = [opno EXCEPT ![t] = @ + 1]
    /\ todo'    = [todo EXCEPT ![t] = 1 .. Len(o.channels)]
    /\ chosen'  = [chosen EXCEPT ![t] = 0]
    /\ pc'      = [pc EXCEPT ![t] = "try"]
    /\ UNCHANGED <<chanVars, index, got, job, ci>>

(* dereference_nil leaves the instruction; vm_thread_t::execute catches it *)
(* and marks the thread broken.                                            *)
Break(t) ==
    /\ state' = [state EXCEPT ![t] = "broken"]
    /\ pc'    = [pc EXCEPT ![t] = "return"]
    /\ UNCHANGED <<chanVars, pending, index, got, opno, op, todo, chosen, job, ci>>

MayIssue(t) == pc[t] = "idle" /\ opno[t] < MaxOps

(* send and recv look at the channel before anything else. *)
send(t, o) ==
    /\ MayIssue(t)
    /\ o.kind = "send"
    /\ IF o.channels[1] = Nil THEN Break(t) ELSE Begin(t, o)

recv(t, o) ==
    /\ MayIssue(t)
    /\ o.kind = "recv"
    /\ IF o.channels[1] = Nil THEN Break(t) ELSE Begin(t, o)

alt(t, o) == MayIssue(t) /\ o.kind = "alt" /\ Begin(t, o)

nbalt(t, o) == MayIssue(t) /\ o.kind = "nbalt" /\ Begin(t, o)

(* One iteration of the loop of exec_alt, or the only call of send and     *)
(* recv.  The order of an alt is random.                                   *)
TryNil(t, i) == op[t].channels[i] = Nil /\ Break(t)

TryNotPending(t, i) ==
    /\ op[t].channels[i] # Nil
    /\ ~pending[t]
    /\ NotHandled(t, i)
    /\ UNCHANGED <<chanVars, pending>>

TryChannel(t, i) ==
    /\ op[t].channels[i] # Nil
    /\ IF i <= op[t].send_count
       THEN send_data(t, i, op[t].channels[i])
       ELSE receive_data(t, i, op[t].channels[i])

Try(t) ==
    /\ pc[t] = "try"
    /\ \E i \in todo[t] : TryNil(t, i) \/ TryNotPending(t, i) \/ TryChannel(t, i)

-----------------------------------------------------------------------------
(* request_handled_callback of the completed peer, run by this worker.     *)

(* Fault: the position of a channel that was cancelled is reported. *)
CancelledIndex(p, c) == CHOOSE i \in Positions(p) : op[p].channels[i] # c

(* cancel_outstanding_channel_requests skips the channel that handled the  *)
(* request and reports its position (asserted to be the only one; the last *)
(* one stays in handled_index).                                            *)
HandledIndex(p, c) ==
    CHOOSE i \in Positions(p) :
        /\ op[p].channels[i] = c
        /\ \A j \in Positions(p) : op[p].channels[j] = c => j <= i

(* Fault: the test for the handled channel is inverted. *)
CancelHandled(p, i, c) ==
    IF op[p].channels[i] # c
    THEN UNCHANGED <<senders, receivers>>
    ELSE cancel_request(op[p].channels[i], p)

CancelAt(p, i, c) ==
    IF op[p].channels[i] = c
    THEN UNCHANGED <<senders, receivers>>
    ELSE cancel_request(op[p].channels[i], p)

(* One iteration of the cancel loop of an alt's callback. *)
CallbackCancel(t) ==
    LET p == job[t].thread
        c == job[t].ch
    IN  /\ pc[t] = "callback"
        /\ op[p].kind \in AltKinds
        /\ ci[t] \in Positions(p)
        /\ IF op[p].channels[ci[t]] = Nil
           THEN /\ pc' = [pc EXCEPT ![t] = "crashed"]
                /\ UNCHANGED <<senders, receivers, ci>>
           ELSE /\ CancelAt(p, ci[t], c)
                /\ ci' = [ci EXCEPT ![t] = @ + 1]
                /\ UNCHANGED pc
        /\ UNCHANGED <<ring, regVars, opno, op, todo, chosen, job>>

(* Fault: the callback does not wait until no worker owns the peer. *)
EnqueueUnowned(t) ==
    LET p == job[t].thread
    IN  /\ pc[t] = "callback"
        /\ op[p].kind \in AltKinds => ci[t] > Len(op[p].channels)
        /\ pc' = [pc EXCEPT ![p] = IF @ = "blocked" THEN "runnable" ELSE @,
                            ![t] = "handled"]
        /\ index' = IF op[p].kind \in AltKinds
                    THEN [index EXCEPT ![p] = HandledIndex(p, job[t].ch)]
                    ELSE index
        /\ job' = [job EXCEPT ![t] = NoJob]
        /\ UNCHANGED <<chanVars, pending, state, got, opno, op, todo, chosen, ci>>

(* The rest of the callback: store the position, then                      *)
(* enqueue_blocked_thread, which waits until no worker owns the peer and   *)
(* does nothing if the peer is not blocked.                                *)
CallbackEnqueue(t) ==
    LET p == job[t].thread
    IN  /\ pc[t] = "callback"
        /\ op[p].kind \in AltKinds => ci[t] > Len(op[p].channels)
        /\ ~Owned(p)
        /\ pc' = [pc EXCEPT ![p] = IF @ = "blocked" THEN "runnable" ELSE @,
                            ![t] = "handled"]
        /\ index' = IF op[p].kind \in AltKinds
                    THEN [index EXCEPT ![p] = HandledIndex(p, job[t].ch)]
                    ELSE index
        /\ job' = [job EXCEPT ![t] = NoJob]
        /\ UNCHANGED <<chanVars, pending, state, got, opno, op, todo, chosen, ci>>

(* Then send_data or receive_data returns true. *)
CallReturns(t) ==
    /\ pc[t] = "handled"
    /\ Handled(t, chosen[t])
    /\ UNCHANGED <<chanVars, pending, got, opno, op, chosen, job>>

(* The thread was handled by its own call: cancel what it queued before.   *)
CancelOwn(t) ==
    /\ pc[t] = "cancel"
    /\ \/ /\ ci[t] \in Positions(t)
          /\ IF op[t].channels[ci[t]] = Nil
             THEN /\ pc' = [pc EXCEPT ![t] = "crashed"]
                  /\ UNCHANGED <<senders, receivers, ci>>
             ELSE /\ CancelAt(t, ci[t], op[t].channels[chosen[t]])
                  /\ ci' = [ci EXCEPT ![t] = @ + 1]
                  /\ UNCHANGED pc
          /\ UNCHANGED <<state, index, todo>>
       \/ /\ ci[t] > Len(op[t].channels)
          /\ Complete(t, chosen[t])
          /\ UNCHANGED <<senders, receivers>>
    /\ UNCHANGED <<ring, pending, got, opno, op, chosen, job>>

(* End of a non-blocking alt that no channel could handle at once.  The    *)
(* try_lock fails only while a peer holds the lock, and a peer holds it    *)
(* only to complete the request (or having found it completed): that case  *)
(* is ~pending[t] here.                                                    *)
Poll(t) ==
    /\ pc[t] = "poll"
    /\ IF pending[t]
       THEN /\ pending' = [pending EXCEPT ![t] = FALSE]
            /\ chosen'  = [chosen EXCEPT ![t] = Len(op[t].channels) + 1]
            /\ pc'      = [pc EXCEPT ![t] = "withdraw"]
            /\ ci'      = [ci EXCEPT ![t] = 1]
       ELSE /\ pc' = [pc EXCEPT ![t] = "return"]
            /\ UNCHANGED <<pending, chosen, ci>>
    /\ UNCHANGED <<chanVars, state, index, got, opno, op, todo, job>>

(* ... cancels its request in every channel and answers "none of them".    *)
Withdraw(t) ==
    /\ pc[t] = "withdraw"
    /\ \/ /\ ci[t] \in Positions(t)
          /\ cancel_request(op[t].channels[ci[t]], t)
          /\ ci' = [ci EXCEPT ![t] = @ + 1]
          /\ UNCHANGED <<pc, state, index, todo>>
       \/ /\ ci[t] > Len(op[t].channels)
          /\ Complete(t, Len(op[t].channels) + 1)
          /\ UNCHANGED <<senders, receivers>>
    /\ UNCHANGED <<ring, pending, got, opno, op, chosen, job>>

-----------------------------------------------------------------------------
(* The scheduler, reduced to what it does to one thread: next_thread gives *)
(* up a thread that stopped running and takes the next runnable one.       *)

Park(t) ==
    /\ pc[t] = "return"
    /\ pc' = [pc EXCEPT ![t] = IF state[t] \in BlockedStates
                               THEN "blocked" ELSE "stopped"]
    /\ UNCHANGED <<chanVars, regVars, opno, op, todo, chosen, job, ci>>

Dispatch(t) ==
    /\ pc[t] = "runnable"
    /\ pc'    = [pc EXCEPT ![t] = "idle"]
    /\ state' = [state EXCEPT ![t] = "running"]
    /\ todo'  = [todo EXCEPT ![t] = {}]
    /\ ci'    = [ci EXCEPT ![t] = 0]
    /\ UNCHANGED <<chanVars, pending, index, got, opno, op, chosen, job>>

Step(t) ==
    \/ \E o \in Instructions : send(t, o) \/ recv(t, o) \/ alt(t, o) \/ nbalt(t, o)
    \/ Try(t)
    \/ CallbackCancel(t) \/ CallbackEnqueue(t) \/ CallReturns(t)
    \/ CancelOwn(t)
    \/ Poll(t) \/ Withdraw(t)
    \/ Park(t) \/ Dispatch(t)

Next == ~Crashed /\ \E t \in Threads : Step(t)

Spec == Init /\ [][Next]_vars

-----------------------------------------------------------------------------
(* Properties *)

RingType(c) ==
    [data : [0 .. BufferLen[c] - 1 -> Requests \cup {Nil}],
     head : Nat, count : 0 .. BufferLen[c]]

ControlPoints == Parked \cup {"idle", "try", "callback", "handled", "cancel", "poll",
                              "withdraw", "return", "crashed"}

ChannelType ==
    /\ senders   \in [Channels -> Seq(Requests)]
    /\ receivers \in [Channels -> Seq(Requests)]
    /\ \A c \in Channels :
        /\ ring[c] \in RingType(c)
        /\ ring[c].head < BufferLen[c] \/ ring[c].head = 0

RegisterType ==
    /\ pending \in [Threads -> BOOLEAN]
    /\ state   \in [Threads -> {"ready", "running", "broken"} \cup BlockedStates]
    /\ index   \in [Threads -> Nat]
    /\ got     \in [Threads -> [slot : Nat, msg : Requests \cup {Nil}] \cup {Nil}]

ControlType ==
    /\ pc     \in [Threads -> ControlPoints]
    /\ opno   \in [Threads -> Nat]
    /\ op     \in [Threads -> Instructions \cup {NoOp}]
    /\ todo   \in [Threads -> SUBSET Nat]
    /\ chosen \in [Threads -> Nat]
    /\ job    \in [Threads -> [thread : Threads \cup {Nil}, ch : Channels \cup {Nil}]]
    /\ ci     \in [Threads -> Nat]

(* Type invariant of the channels, the thread registers and the control    *)
(* state; the ring indices stay inside the buffer.                         *)
TypeOK == ChannelType /\ RegisterType /\ ControlType

(* No partner is ever missed: send_data queues a sender only on a channel  *)
(* without receivers and with a full buffer, receive_data queues a         *)
(* receiver only on a channel without senders and with an empty buffer,    *)
(* and it stays so until they leave.  Two requests that could complete     *)
(* each other are never both asleep.                                       *)
NoMissedMatch ==
    \A c \in Channels :
        /\ senders[c] # <<>> => receivers[c] = <<>> /\ ~HasRoom(c)
        /\ receivers[c] # <<>> => ~HasData(c)

(* All requests in the queues of c. *)
Queued(c) == {senders[c][k] : k \in 1 .. Len(senders[c])}
             \cup {receivers[c][k] : k \in 1 .. Len(receivers[c])}

(* A request that can still be matched (its thread is pending) belongs to  *)
(* the instruction its thread is executing now: a request left over from   *)
(* an earlier alt is never revived when the thread sets pending_request    *)
(* again.  It also sits in the queue its alt table says.                   *)
NoRevivedRequest ==
    \A c \in Channels :
        /\ \A q \in Queued(c) : pending[q.thread] =>
            /\ q.op = opno[q.thread]
            /\ q.slot \in Positions(q.thread)
            /\ op[q.thread].channels[q.slot] = c
        /\ \A k \in 1 .. Len(senders[c]) : pending[senders[c][k].thread] =>
            senders[c][k].slot <= op[senders[c][k].thread].send_count
        /\ \A k \in 1 .. Len(receivers[c]) : pending[receivers[c][k].thread] =>
            receivers[c][k].slot > op[receivers[c][k].thread].send_count

(* When a thread leaves send, recv, alt or nbalt, or is put back into the  *)
(* run queue by the callback, none of its requests is left in any channel. *)
NoLeftover ==
    \A t \in Threads : pc[t] \in {"idle", "runnable"} =>
        \A c \in Channels : \A q \in Queued(c) : q.thread # t

(* A parked thread whose request was completed always has a worker that is *)
(* on its way to put it back into the run queue: no wakeup is lost.        *)
NoLostWakeup ==
    \A t \in Threads : pc[t] = "blocked" /\ ~pending[t] =>
        \E u \in Threads : pc[u] \in {"callback", "crashed"} /\ job[u].thread = t

(* The position an alt reports to the program is the one that was          *)
(* completed, whether the thread completed it itself, a peer did (the      *)
(* callback recomputes the position from the channel) or nobody did, and   *)
(* data received by the instruction is in the slot of that position.       *)
AltAnswer ==
    \A t \in Threads :
        pc[t] \in {"idle", "runnable"} /\ op[t].kind \in AltKinds =>
            /\ index[t] = chosen[t]
            /\ chosen[t] \in Positions(t) /\ chosen[t] > op[t].send_count =>
                got[t].slot = chosen[t]

(* assert(handled_index == -1 && "Index should only be set once") in       *)
(* cancel_outstanding_channel_requests.                                    *)
IndexSetOnce ==
    \A t \in Threads :
        pc[t] = "callback" /\ op[job[t].thread].kind \in AltKinds =>
            LET p == job[t].thread
            IN  \A i, j \in Positions(p) :
                    op[p].channels[i] = job[t].ch /\ op[p].channels[j] = job[t].ch => i = j

(* Messages of the buffer, oldest first. *)
Contents(c) ==
    [k \in 1 .. ring[c].count |->
        ring[c].data[(ring[c].head + k - 1) % BufferLen[c]]]

Abstract == INSTANCE ChannelAbstract WITH
    fifo <- [c \in Channels |-> Contents(c)], waiting <- pending

(* The channels implement bounded FIFOs whose instructions complete exactly*)
(* once: no message is lost, duplicated or reordered, whatever requests    *)
(* are queued, cancelled and matched in between.                           *)
ImplementsFifo == Abstract!Spec

-----------------------------------------------------------------------------
(* The inductive invariant behind the properties above.  It needs the      *)
(* condition that the assertions of channel.cpp and execution_table.cpp    *)
(* state: no table names a channel twice.                                  *)

DistinctTables ==
    \A o \in Instructions : \A i, j \in 1 .. Len(o.channels) :
        o.channels[i] = o.channels[j] /\ o.channels[i] # Nil => i = j

(* Control points at which a request of the thread may be completed by a   *)
(* peer, or has been and the callback has not yet enqueued the thread.     *)
MayBeCompleted == {"try", "poll", "return", "blocked", "stopped"}

PendingInv == \A t \in Threads : pending[t] => pc[t] \in MayBeCompleted

TodoInv ==
    \A t \in Threads :
        /\ todo[t] \subseteq Positions(t)
        /\ pc[t] \in {"callback", "handled"} =>
            chosen[t] \in todo[t] /\ op[t].channels[chosen[t]] # Nil
        /\ pc[t] = "cancel" =>
            chosen[t] \in Positions(t) /\ op[t].channels[chosen[t]] # Nil

(* The peer whose callback a worker runs was completed on the channel the  *)
(* callback is told, and by this worker only.                              *)
JobOK(t, p) ==
    /\ p \in Threads /\ p # t
    /\ ~pending[p]
    /\ pc[p] \in MayBeCompleted
    /\ job[t].ch \in Channels
    /\ chosen[p] \in Positions(p)
    /\ op[p].channels[chosen[p]] = job[t].ch
    /\ \A u \in Threads \ {t} : pc[u] = "callback" => job[u].thread # p

JobInv == \A t \in Threads : pc[t] = "callback" => JobOK(t, job[t].thread)

(* Every queued request, stale or not, is of the current instruction of    *)
(* its thread, was tried and not handled, and has not been passed by the   *)
(* loop that cancels the requests of the thread.                           *)
RequestOK(r, c) ==
    LET p == r.thread
    IN  /\ r.op = opno[p]
        /\ r.slot \in Positions(p)
        /\ op[p].channels[r.slot] = c
        /\ r.slot \notin todo[p]
        /\ pc[p] \notin {"idle", "runnable"}
        /\ pc[p] \in {"cancel", "withdraw"} => r.slot >= ci[p]
        /\ pc[p] \in {"callback", "handled", "cancel"} => r.slot # chosen[p]
        /\ \A u \in Threads : pc[u] = "callback" /\ job[u].thread = p =>
            r.slot # chosen[p] /\ r.slot >= ci[u]

QueuedInv ==
    \A c \in Channels :
        /\ \A k \in 1 .. Len(senders[c]) :
            /\ RequestOK(senders[c][k], c)
            /\ senders[c][k].slot <= op[senders[c][k].thread].send_count
        /\ \A k \in 1 .. Len(receivers[c]) :
            /\ RequestOK(receivers[c][k], c)
            /\ receivers[c][k].slot > op[receivers[c][k].thread].send_count

OneRequestEach(q) ==
    \A j, k \in 1 .. Len(q) : q[j].thread = q[k].thread => j = k

UniqueInv ==
    \A c \in Channels : OneRequestEach(senders[c]) /\ OneRequestEach(receivers[c])

(* A completed thread that is still blocked has a worker that runs its     *)
(* callback, and only blocked threads are parked as blocked.               *)
WakeInv ==
    \A t \in Threads :
        /\ ~pending[t] /\ pc[t] \in MayBeCompleted /\ state[t] \in BlockedStates =>
            \E u \in Threads : pc[u] \in {"callback", "crashed"} /\ job[u].thread = t
        /\ pc[t] = "blocked" => state[t] \in BlockedStates
        /\ pc[t] = "stopped" => state[t] \notin BlockedStates

(* What was received is in the slot of the chosen position, and an alt that*)
(* is over has stored the chosen position.                                 *)
AnswerOK(t) ==
    /\ chosen[t] \in Positions(t) /\ chosen[t] > op[t].send_count =>
        got[t].slot = chosen[t]
    /\ pc[t] \in {"idle", "runnable"} /\ op[t].kind \in AltKinds =>
        index[t] = chosen[t]
    /\ pc[t] = "withdraw" => chosen[t] = Len(op[t].channels) + 1

AnswerInv == \A t \in Threads : AnswerOK(t)

ChannelInv ==
    /\ TypeOK /\ NoMissedMatch /\ PendingInv /\ TodoInv /\ JobInv
    /\ QueuedInv /\ UniqueInv /\ WakeInv /\ AnswerInv
=============================================================================
