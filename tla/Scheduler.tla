----------------------------- MODULE Scheduler -----------------------------
(***************************************************************************)
(* default_scheduler_t (src/src/vm/scheduler.cpp): a pool of system        *)
(* threads (workers) that execute VM threads for a quantum each, the run   *)
(* queue, the set of blocked VM threads, the barrier that stops every VM   *)
(* thread for a garbage collection, and shutdown.                          *)
(*                                                                         *)
(* Grain of atomicity: a section that holds _vm_threads_lock is one step   *)
(* unless it waits inside (for the ownership mutex of a VM thread) or      *)
(* makes a collection; then `lock' names its holder.  A condition variable *)
(* is the set of workers asleep on it: notify_one wakes any one of them,   *)
(* notify_all wakes them all, and a notification finds only those asleep.  *)
(* What a VM thread computes is abstracted to how its quantum ends and to  *)
(* the two calls it makes into the scheduler: forking a thread, and waking *)
(* a blocked peer whose channel request it completed.                      *)
(*                                                                         *)
(* Definitions marked "Fault:" are not part of the specification.  Each is *)
(* a plausible mistake in the operation that follows it; replacing the     *)
(* operation by it makes TLC refute one of the properties.                 *)
(***************************************************************************)
EXTENDS Integers, Sequences, FiniteSets

CONSTANTS
    Workers,    \* system threads of the pool (1 to 4 in the program)
    VmThreads,  \* ids of VM threads; the size bounds the number of forks
    Entry,      \* the VM thread scheduled by the embedding program
    GcPeriod,   \* dispatches between collections (256 in the code)
    Faults,     \* ways a quantum may fail: "broken", "exception"
    None        \* no thread, no holder

ASSUME WorkersAssumption == IsFiniteSet(Workers) /\ Workers # {}
ASSUME EntryAssumption == Entry \in VmThreads
ASSUME NoneAssumption == None \notin VmThreads /\ None \notin Workers
ASSUME GcPeriodAssumption == GcPeriod \in Nat \ {0}
ASSUME FaultsAssumption == Faults \subseteq {"broken", "exception"}

VARIABLES
    lock,        \* worker that holds _vm_threads_lock across steps, or None
    owner,       \* holder of system_thread_ownership of each VM thread
    runnable,    \* _runnable_vm_thread_ids
    blocked,     \* _blocked_vm_thread_ids
    all,         \* keys of _all_vm_threads
    running,     \* _running_vm_thread_count
    gcCounter,   \* _gc_counter modulo GcPeriod
    gcComplete,  \* _gc_complete
    terminating, \* _terminating
    wpc,         \* control point of each worker
    cur,         \* VM thread the worker executes
    enq,         \* VM thread the worker is waking in enqueue_blocked_thread
    vmstate,     \* current_thread_state; "new" before the thread exists
    waiting,     \* a channel request of the thread is pending
    mpc          \* control point of the embedding program

queueVars == <<runnable, blocked, all>>
gcVars    == <<gcCounter, gcComplete>>
vmVars    == <<vmstate, waiting>>
vars == <<lock, owner, queueVars, running, gcVars, terminating, wpc, cur, enq,
          vmVars, mpc>>

Init ==
    /\ lock = None
    /\ owner = [t \in VmThreads |-> None]
    /\ runnable = <<>> /\ blocked = {} /\ all = {}
    /\ running = 0
    /\ gcCounter = 1 % GcPeriod /\ gcComplete = TRUE
    /\ terminating = FALSE
    /\ wpc = [w \in Workers |-> "off"]
    /\ cur = [w \in Workers |-> None]
    /\ enq = [w \in Workers |-> None]
    /\ vmstate = [t \in VmThreads |-> "new"]
    /\ waiting = [t \in VmThreads |-> FALSE]
    /\ mpc = "start"

-----------------------------------------------------------------------------
Goto(w, l) == wpc' = [wpc EXCEPT ![w] = l]

(* _worker_event: worker w goes on to l and one sleeping worker, if there  *)
(* is any, is woken.                                                       *)
Sleeping == {w \in Workers : wpc[w] = "wait"}

NotifyOne(w, l) ==
    IF Sleeping = {}
    THEN Goto(w, l)
    ELSE \E s \in Sleeping : wpc' = [wpc EXCEPT ![w] = l, ![s] = "woken"]

WakeAll(pcs) == [w \in Workers |-> IF pcs[w] = "wait" THEN "woken" ELSE pcs[w]]

GcDue == gcCounter = 0

-----------------------------------------------------------------------------
(* next_thread: choose the next VM thread *)

TakeLock(w) ==
    /\ wpc[w] = "next"
    /\ lock = None
    /\ lock' = w
    /\ Goto(w, IF GcDue THEN "gc" ELSE "select")
    /\ UNCHANGED <<owner, queueVars, running, gcVars, terminating, cur, enq, vmVars, mpc>>

(* Fault: the collection does not wait for the running threads. *)
CollectAtOnce(w) ==
    /\ wpc[w] = "gc"
    /\ gcComplete' = TRUE
    /\ wpc' = [v \in Workers |-> IF v = w THEN "select"
                                 ELSE IF wpc[v] = "gcSleep" THEN "gcCheck"
                                 ELSE wpc[v]]
    /\ UNCHANGED <<lock, owner, queueVars, running, gcCounter, terminating, cur, enq, vmVars, mpc>>

(* perform_gc on the worker that finds no VM thread running *)
Collect(w) ==
    /\ wpc[w] = "gc"
    /\ running = 0
    /\ gcComplete' = TRUE
    /\ wpc' = [v \in Workers |-> IF v = w THEN "select"
                                 ELSE IF wpc[v] = "gcSleep" THEN "gcCheck"
                                 ELSE wpc[v]]
    /\ UNCHANGED <<lock, owner, queueVars, running, gcCounter, terminating, cur, enq, vmVars, mpc>>

(* Fault: _vm_threads_lock is held during the wait. *)
AwaitGcLocked(w) ==
    /\ wpc[w] = "gc"
    /\ running # 0
    /\ gcComplete' = FALSE
    /\ Goto(w, "gcCheck")
    /\ UNCHANGED <<lock, owner, queueVars, running, gcCounter, terminating, cur, enq, vmVars, mpc>>

(* perform_gc on any other worker: wait on _gc_done_event.  The worker     *)
(* tests _gc_complete and then sleeps; Collect does not take _gc_wait, so  *)
(* it may come between the two.                                            *)
AwaitGc(w) ==
    /\ wpc[w] = "gc"
    /\ running # 0
    /\ gcComplete' = FALSE
    /\ lock' = None
    /\ Goto(w, "gcCheck")
    /\ UNCHANGED <<owner, queueVars, running, gcCounter, terminating, cur, enq, vmVars, mpc>>

GcTest(w) ==
    /\ wpc[w] = "gcCheck"
    /\ Goto(w, IF gcComplete THEN "gcDone" ELSE "gcSleepy")
    /\ UNCHANGED <<lock, owner, queueVars, running, gcVars, terminating, cur, enq, vmVars, mpc>>

GcSleep(w) ==
    /\ wpc[w] = "gcSleepy"
    /\ Goto(w, "gcSleep")
    /\ UNCHANGED <<lock, owner, queueVars, running, gcVars, terminating, cur, enq, vmVars, mpc>>

GcRelock(w) ==
    /\ wpc[w] = "gcDone"
    /\ lock = None
    /\ lock' = w
    /\ Goto(w, "select")
    /\ UNCHANGED <<owner, queueVars, running, gcVars, terminating, cur, enq, vmVars, mpc>>

(* The front of the run queue is taken.  Looking up an id that is no       *)
(* longer in _all_vm_threads dereferences the end iterator.                *)
Select(w) ==
    /\ wpc[w] = "select"
    /\ runnable # <<>>
    /\ runnable' = Tail(runnable)
    /\ IF Head(runnable) \in all
       THEN /\ cur' = [cur EXCEPT ![w] = Head(runnable)]
            /\ running' = running + 1
            /\ gcCounter' = (gcCounter + 1) % GcPeriod
            /\ Goto(w, "own")
       ELSE /\ Goto(w, "crashed")
            /\ UNCHANGED <<cur, running, gcCounter>>
    /\ UNCHANGED <<lock, owner, blocked, all, gcComplete, terminating, enq, vmVars, mpc>>

(* Fault: the ownership is seized from whoever holds it. *)
SeizeOwnership(w) ==
    /\ wpc[w] = "own"
    /\ owner' = [owner EXCEPT ![cur[w]] = w]
    /\ lock' = None
    /\ vmstate' = [vmstate EXCEPT ![cur[w]] = "running"]
    /\ Goto(w, "run")
    /\ UNCHANGED <<queueVars, running, gcVars, terminating, cur, enq, waiting, mpc>>

(* Fault: the ownership mutex is not taken. *)
RunUnowned(w) ==
    /\ wpc[w] = "own"
    /\ lock' = None
    /\ vmstate' = [vmstate EXCEPT ![cur[w]] = "running"]
    /\ Goto(w, "run")
    /\ UNCHANGED <<owner, queueVars, running, gcVars, terminating, cur, enq, waiting, mpc>>

(* ... and its ownership mutex, with _vm_threads_lock held.  Then          *)
(* vm_thread_t::execute starts.                                            *)
TakeOwnership(w) ==
    LET t == cur[w]
    IN  /\ wpc[w] = "own"
        /\ owner[t] = None
        /\ owner' = [owner EXCEPT ![t] = w]
        /\ lock' = None
        /\ vmstate' = [vmstate EXCEPT ![t] = "running"]
        /\ Goto(w, "run")
        /\ UNCHANGED <<queueVars, running, gcVars, terminating, cur, enq, waiting, mpc>>

(* Nothing to run: stop if the scheduler is terminating, else sleep on     *)
(* _worker_event.  The lock is held between the test and the wait, but the *)
(* handlers of worker_main set _terminating without it.                    *)
SelectNothing(w) ==
    /\ wpc[w] = "select"
    /\ runnable = <<>>
    /\ IF terminating
       THEN lock' = None /\ Goto(w, "done")
       ELSE UNCHANGED lock /\ Goto(w, "sleepy")
    /\ UNCHANGED <<owner, queueVars, running, gcVars, terminating, cur, enq, vmVars, mpc>>

Sleep(w) ==
    /\ wpc[w] = "sleepy"
    /\ lock' = None
    /\ Goto(w, "wait")
    /\ UNCHANGED <<owner, queueVars, running, gcVars, terminating, cur, enq, vmVars, mpc>>

Woken(w) ==
    /\ wpc[w] = "woken"
    /\ lock = None
    /\ Goto(w, IF terminating THEN "done" ELSE "next")
    /\ UNCHANGED <<lock, owner, queueVars, running, gcVars, terminating, cur, enq, vmVars, mpc>>

-----------------------------------------------------------------------------
(* vm_thread_t::execute: how the quantum of the current thread ends *)

EndQuantum(w, s) ==
    /\ wpc[w] = "run"
    /\ vmstate' = [vmstate EXCEPT ![cur[w]] = s]
    /\ Goto(w, "return")
    /\ UNCHANGED <<lock, owner, queueVars, running, gcVars, terminating, cur, enq, mpc>>

Yield(w) == EndQuantum(w, "ready") /\ UNCHANGED waiting

(* The thread queued a channel request: from now on a peer may complete it.*)
Block(w) ==
    /\ EndQuantum(w, "blocked")
    /\ waiting' = [waiting EXCEPT ![cur[w]] = TRUE]

Exit(w) == EndQuantum(w, "exiting") /\ UNCHANGED waiting

(* A VM exception no handler takes. *)
Broken(w) == "broken" \in Faults /\ EndQuantum(w, "broken") /\ UNCHANGED waiting

(* vm_system_exception or vm_term_request leaves execute and next_thread   *)
(* is not called for the thread: it stays owned and counted as running.    *)
Exception(w) ==
    /\ "exception" \in Faults
    /\ wpc[w] = "run"
    /\ Goto(w, "catch")
    /\ UNCHANGED <<lock, owner, queueVars, running, gcVars, terminating, cur, enq, vmVars, mpc>>

(* schedule_thread, called by the instruction that spawns a VM thread *)
Fork(w, u) ==
    /\ wpc[w] = "run"
    /\ lock = None
    /\ vmstate[u] = "new"
    /\ vmstate' = [vmstate EXCEPT ![u] = "ready"]
    /\ all' = all \cup {u}
    /\ runnable' = Append(runnable, u)
    /\ Goto(w, "forked")
    /\ UNCHANGED <<lock, owner, blocked, running, gcVars, terminating, cur, enq, waiting, mpc>>

ForkNotify(w) ==
    /\ wpc[w] = "forked"
    /\ NotifyOne(w, "run")
    /\ UNCHANGED <<lock, owner, queueVars, running, gcVars, terminating, cur, enq, vmVars, mpc>>

(* A send or receive completes the request of u; its callback calls        *)
(* enqueue_blocked_thread(u).                                              *)
CompletePeer(w, u) ==
    /\ wpc[w] = "run"
    /\ waiting[u]
    /\ waiting' = [waiting EXCEPT ![u] = FALSE]
    /\ enq' = [enq EXCEPT ![w] = u]
    /\ Goto(w, "find")
    /\ UNCHANGED <<lock, owner, queueVars, running, gcVars, terminating, cur, vmstate, mpc>>

EnqueueFind(w) ==
    /\ wpc[w] = "find"
    /\ lock = None
    /\ IF enq[w] \in all
       THEN Goto(w, "deref") /\ UNCHANGED enq
       ELSE Goto(w, "run") /\ enq' = [enq EXCEPT ![w] = None]
    /\ UNCHANGED <<lock, owner, queueVars, running, gcVars, terminating, cur, vmVars, mpc>>

(* The iterator found under the lock is used after the lock is released. *)
EnqueueDeref(w) ==
    /\ wpc[w] = "deref"
    /\ Goto(w, IF enq[w] \in all THEN "enqueue" ELSE "crashed")
    /\ UNCHANGED <<lock, owner, queueVars, running, gcVars, terminating, cur, enq, vmVars, mpc>>

(* Fault: the thread stays in the blocked set. *)
EnqueueKeepsBlocked(w) ==
    /\ wpc[w] = "enqueue"
    /\ lock = None /\ owner[enq[w]] = None
    /\ runnable' = Append(runnable, enq[w])
    /\ owner' = [owner EXCEPT ![enq[w]] = w]
    /\ Goto(w, "enqueued")
    /\ UNCHANGED <<lock, blocked, all, running, gcVars, terminating, cur, enq, vmVars, mpc>>

(* Fault: the wakeup does not wait for the ownership mutex, so it finds a  *)
(* thread that is not blocked yet and drops the wakeup.                    *)
EnqueueEarly(w) ==
    LET u == enq[w]
    IN  /\ wpc[w] = "enqueue"
        /\ lock = None
        /\ IF u \in blocked /\ owner[u] = None
           THEN /\ blocked' = blocked \ {u}
                /\ runnable' = Append(runnable, u)
                /\ owner' = [owner EXCEPT ![u] = w]
                /\ Goto(w, "enqueued")
                /\ UNCHANGED enq
           ELSE /\ Goto(w, "run")
                /\ enq' = [enq EXCEPT ![w] = None]
                /\ UNCHANGED <<blocked, runnable, owner>>
        /\ UNCHANGED <<lock, all, running, gcVars, terminating, cur, vmVars, mpc>>

(* std::lock takes both mutexes; a thread that is not blocked is left      *)
(* alone.  The ownership is kept until after the notification.             *)
EnqueueLocked(w) ==
    LET u == enq[w]
    IN  /\ wpc[w] = "enqueue"
        /\ lock = None
        /\ owner[u] = None
        /\ IF u \in blocked
           THEN /\ blocked' = blocked \ {u}
                /\ runnable' = Append(runnable, u)
                /\ owner' = [owner EXCEPT ![u] = w]
                /\ Goto(w, "enqueued")
                /\ UNCHANGED enq
           ELSE /\ Goto(w, "run")
                /\ enq' = [enq EXCEPT ![w] = None]
                /\ UNCHANGED <<blocked, runnable, owner>>
        /\ UNCHANGED <<lock, all, running, gcVars, terminating, cur, vmVars, mpc>>

EnqueueNotify(w) ==
    /\ wpc[w] = "enqueued"
    /\ NotifyOne(w, "release_peer")
    /\ UNCHANGED <<lock, owner, queueVars, running, gcVars, terminating, cur, enq, vmVars, mpc>>

EnqueueRelease(w) ==
    /\ wpc[w] = "release_peer"
    /\ owner' = [owner EXCEPT ![enq[w]] = None]
    /\ enq' = [enq EXCEPT ![w] = None]
    /\ Goto(w, "run")
    /\ UNCHANGED <<lock, queueVars, running, gcVars, terminating, cur, vmVars, mpc>>

-----------------------------------------------------------------------------
(* next_thread: give up the previous VM thread (enqueue_thread_unsafe) *)

(* Fault: the ownership of a thread that yields is not released. *)
ReturnOwned(w) ==
    /\ wpc[w] = "return" /\ lock = None
    /\ vmstate[cur[w]] = "ready"
    /\ running' = running - 1
    /\ runnable' = Append(runnable, cur[w])
    /\ cur' = [cur EXCEPT ![w] = None]
    /\ NotifyOne(w, "next")
    /\ UNCHANGED <<lock, owner, blocked, all, gcVars, terminating, enq, vmVars, mpc>>

ReturnReady(w) ==
    /\ wpc[w] = "return" /\ lock = None
    /\ vmstate[cur[w]] = "ready"
    /\ running' = running - 1
    /\ runnable' = Append(runnable, cur[w])
    /\ Goto(w, "notify")
    /\ UNCHANGED <<lock, owner, blocked, all, gcVars, terminating, cur, enq, vmVars, mpc>>

(* Fault: a blocked thread stays counted as running. *)
ReturnCounted(w) ==
    /\ wpc[w] = "return" /\ lock = None
    /\ vmstate[cur[w]] = "blocked"
    /\ blocked' = blocked \cup {cur[w]}
    /\ Goto(w, "release")
    /\ UNCHANGED <<lock, owner, runnable, all, running, gcVars, terminating, cur, enq, vmVars, mpc>>

ReturnBlocked(w) ==
    /\ wpc[w] = "return" /\ lock = None
    /\ vmstate[cur[w]] = "blocked"
    /\ running' = running - 1
    /\ blocked' = blocked \cup {cur[w]}
    /\ Goto(w, "release")
    /\ UNCHANGED <<lock, owner, runnable, all, gcVars, terminating, cur, enq, vmVars, mpc>>

(* Erasing an id that is no longer in the map erases the end iterator. *)
ReturnExiting(w) ==
    /\ wpc[w] = "return" /\ lock = None
    /\ vmstate[cur[w]] = "exiting"
    /\ running' = running - 1
    /\ all' = all \ {cur[w]}
    /\ Goto(w, IF cur[w] \in all THEN "release" ELSE "crashed")
    /\ UNCHANGED <<lock, owner, runnable, blocked, gcVars, terminating, cur, enq, vmVars, mpc>>

(* vm_term_request is thrown: both mutexes are released on the way out. *)
ReturnBroken(w) ==
    /\ wpc[w] = "return" /\ lock = None
    /\ vmstate[cur[w]] = "broken"
    /\ running' = running - 1
    /\ owner' = [owner EXCEPT ![cur[w]] = None]
    /\ cur' = [cur EXCEPT ![w] = None]
    /\ Goto(w, "catch")
    /\ UNCHANGED <<lock, queueVars, gcVars, terminating, enq, vmVars, mpc>>

ReturnNotify(w) ==
    /\ wpc[w] = "notify"
    /\ NotifyOne(w, "release")
    /\ UNCHANGED <<lock, owner, queueVars, running, gcVars, terminating, cur, enq, vmVars, mpc>>

ReleaseOwnership(w) ==
    /\ wpc[w] = "release"
    /\ owner' = [owner EXCEPT ![cur[w]] = None]
    /\ cur' = [cur EXCEPT ![w] = None]
    /\ Goto(w, "next")
    /\ UNCHANGED <<lock, queueVars, running, gcVars, terminating, enq, vmVars, mpc>>

(* The exception handlers of worker_main, which take no lock *)
Catch(w) ==
    /\ wpc[w] = "catch"
    /\ terminating' = TRUE
    /\ Goto(w, "caught")
    /\ UNCHANGED <<lock, owner, queueVars, running, gcVars, cur, enq, vmVars, mpc>>

CatchNotify(w) ==
    /\ wpc[w] = "caught"
    /\ wpc' = WakeAll([wpc EXCEPT ![w] = "done"])
    /\ UNCHANGED <<lock, owner, queueVars, running, gcVars, terminating, cur, enq, vmVars, mpc>>

-----------------------------------------------------------------------------
(* The embedding program: schedule the entry thread (which creates the     *)
(* workers), poll is_idle, destroy the scheduler.                          *)

ScheduleEntry ==
    /\ mpc = "start"
    /\ wpc' = [w \in Workers |-> "next"]
    /\ all' = {Entry}
    /\ runnable' = <<Entry>>
    /\ vmstate' = [vmstate EXCEPT ![Entry] = "ready"]
    /\ mpc' = "scheduled"
    /\ UNCHANGED <<lock, owner, blocked, running, gcVars, terminating, cur, enq, waiting>>

ScheduleNotify ==
    /\ mpc = "scheduled"
    /\ IF Sleeping = {} THEN UNCHANGED wpc
       ELSE \E s \in Sleeping : wpc' = [wpc EXCEPT ![s] = "woken"]
    /\ mpc' = "polling"
    /\ UNCHANGED <<lock, owner, queueVars, running, gcVars, terminating, cur, enq, vmVars>>

is_idle == terminating \/ (running = 0 /\ runnable = <<>> /\ blocked = {})

SeeIdle ==
    /\ mpc = "polling"
    /\ lock = None
    /\ is_idle
    /\ mpc' = "destroy"
    /\ UNCHANGED <<lock, owner, queueVars, running, gcVars, terminating, wpc, cur, enq, vmVars>>

DestroyClear ==
    /\ mpc = "destroy"
    /\ lock = None
    /\ terminating' = TRUE
    /\ runnable' = <<>>
    /\ all' = {}
    /\ mpc' = "cleared"
    /\ UNCHANGED <<lock, owner, blocked, running, gcVars, wpc, cur, enq, vmVars>>

(* Fault: the workers are not notified. *)
DestroySilently ==
    /\ mpc = "cleared"
    /\ mpc' = "join"
    /\ UNCHANGED <<lock, owner, queueVars, running, gcVars, terminating, wpc, cur, enq, vmVars>>

DestroyNotify ==
    /\ mpc = "cleared"
    /\ wpc' = WakeAll(wpc)
    /\ mpc' = "join"
    /\ UNCHANGED <<lock, owner, queueVars, running, gcVars, terminating, cur, enq, vmVars>>

DestroyJoin ==
    /\ mpc = "join"
    /\ \A w \in Workers : wpc[w] = "done"
    /\ mpc' = "done"
    /\ UNCHANGED <<lock, owner, queueVars, running, gcVars, terminating, wpc, cur, enq, vmVars>>

MainStep ==
    \/ ScheduleEntry \/ ScheduleNotify \/ SeeIdle
    \/ DestroyClear \/ DestroyNotify \/ DestroyJoin

-----------------------------------------------------------------------------
(* Steps of the scheduler's own code, and steps chosen by the VM thread.   *)
WorkerStep(w) ==
    \/ TakeLock(w) \/ Collect(w) \/ AwaitGc(w) \/ GcTest(w) \/ GcSleep(w) \/ GcRelock(w)
    \/ Select(w) \/ TakeOwnership(w) \/ SelectNothing(w) \/ Sleep(w) \/ Woken(w)
    \/ ForkNotify(w)
    \/ EnqueueFind(w) \/ EnqueueDeref(w) \/ EnqueueLocked(w)
    \/ EnqueueNotify(w) \/ EnqueueRelease(w)
    \/ ReturnReady(w) \/ ReturnBlocked(w) \/ ReturnExiting(w) \/ ReturnBroken(w)
    \/ ReturnNotify(w) \/ ReleaseOwnership(w)
    \/ Catch(w) \/ CatchNotify(w)

LeaveQuantum(w) == Yield(w) \/ Block(w) \/ Exit(w) \/ Broken(w) \/ Exception(w)

Calls(w) == \E u \in VmThreads : Fork(w, u) \/ CompletePeer(w, u)

Crashed == \E w \in Workers : wpc[w] = "crashed"

Next ==
    /\ ~Crashed
    /\ \/ MainStep
       \/ \E w \in Workers : WorkerStep(w) \/ LeaveQuantum(w) \/ Calls(w)

Spec == Init /\ [][Next]_vars

(* Fairness: a worker whose next step is infinitely often possible takes   *)
(* it (the operating system schedules it and its mutexes do not starve     *)
(* it); a quantum ends, because execute counts its instructions; and the   *)
(* embedding program keeps polling.                                        *)
Fairness ==
    /\ \A w \in Workers : SF_vars(~Crashed /\ WorkerStep(w))
    /\ \A w \in Workers : SF_vars(~Crashed /\ LeaveQuantum(w))
    /\ SF_vars(~Crashed /\ MainStep)

FairSpec == Spec /\ Fairness

-----------------------------------------------------------------------------
(* Properties *)

(* Control points of a worker at which its VM thread counts as running.    *)
Executing == {"own", "run", "forked", "find", "deref", "enqueue", "enqueued",
              "release_peer", "return"}

GivingUp == {"notify", "release"}

(* The destructor has cleared the threads. *)
Destroyed == mpc \in {"cleared", "join", "done"}

WorkerPoints ==
    Executing \cup GivingUp \cup
    {"off", "next", "gc", "gcCheck", "gcSleepy", "gcSleep", "gcDone", "select",
     "sleepy", "wait", "woken", "catch", "caught", "done", "crashed"}

(* Type invariant. *)
TypeOK ==
    /\ lock \in Workers \cup {None}
    /\ owner \in [VmThreads -> Workers \cup {None}]
    /\ runnable \in Seq(VmThreads)
    /\ blocked \subseteq VmThreads
    /\ all \subseteq VmThreads
    /\ running \in Nat
    /\ gcCounter \in 0 .. GcPeriod - 1
    /\ gcComplete \in BOOLEAN
    /\ terminating \in BOOLEAN
    /\ wpc \in [Workers -> WorkerPoints]
    /\ cur \in [Workers -> VmThreads \cup {None}]
    /\ enq \in [Workers -> VmThreads \cup {None}]
    /\ vmstate \in [VmThreads -> {"new", "ready", "running", "blocked", "exiting", "broken"}]
    /\ waiting \in [VmThreads -> BOOLEAN]
    /\ mpc \in {"start", "scheduled", "polling", "destroy", "cleared", "join", "done"}

(* A VM thread is executed by at most one worker, which holds its          *)
(* ownership mutex from the first instruction of the quantum until the     *)
(* thread is back in a queue.                                              *)
ExclusiveExecution ==
    \A w \in Workers : wpc[w] \in (Executing \ {"own"}) \cup GivingUp =>
        /\ owner[cur[w]] = w
        /\ \A v \in Workers \ {w} : cur[v] = cur[w] => wpc[v] = "own"

(* Until the scheduler is destroyed, a thread of the scheduler is in       *)
(* exactly one place: once in the run queue, or blocked, or with the one   *)
(* worker that executes it (which for an exception that left execute is    *)
(* forever); only a broken thread is nowhere.                              *)
Places(t) ==
    {<<"runnable", k>> : k \in {j \in 1 .. Len(runnable) : runnable[j] = t}}
    \cup {<<"blocked", b>> : b \in blocked \cap {t}}
    \cup {<<"executed", w>> : w \in {v \in Workers :
                cur[v] = t /\ wpc[v] \notin GivingUp \cup {"crashed"}}}

OnePlace ==
    ~Destroyed =>
        \A t \in VmThreads :
            /\ t \in all /\ vmstate[t] # "broken" => Cardinality(Places(t)) = 1
            /\ Cardinality(Places(t)) <= 1
            /\ t \notin all => Places(t) = {}

(* Types are kept, and every VM thread is in exactly one place: a queue or *)
(* a worker that executes it (scheduler.cpp).                              *)
PlacesSound == TypeOK /\ OnePlace

(* "All VM threads are guaranteed to be idle when called": a collection    *)
(* never happens while a worker is inside the quantum of a VM thread.      *)
GcExclusive ==
    [][\A w \in Workers : wpc[w] = "gc" /\ wpc'[w] = "select" =>
        \A v \in Workers : wpc[v] \notin Executing]_vars

(* _running_vm_thread_count is the number of threads being executed;       *)
(* threads abandoned by an exception stay counted.                         *)
RunningCount ==
    ~Crashed => running = Cardinality({w \in Workers :
                    cur[w] # None /\ wpc[w] \notin GivingUp})

(* assert(false && "Thread to enqueue not blocked"): once the worker that  *)
(* wakes a peer has both mutexes, the peer is in the blocked set, even if  *)
(* its request was completed while its own worker was still giving it up.  *)
WakesBlockedThread ==
    \A w \in Workers :
        wpc[w] = "enqueue" /\ lock = None /\ owner[enq[w]] = None =>
            enq[w] \in blocked

(* next_thread waits for an ownership mutex while it holds                 *)
(* _vm_threads_lock, and elsewhere the two are taken in the other order.   *)
(* It cannot deadlock: whoever owns a thread of the run queue releases it  *)
(* without _vm_threads_lock.                                               *)
OwnershipSoonFree ==
    \A w \in Workers : wpc[w] = "own" =>
        \/ owner[cur[w]] = None
        \/ wpc[owner[cur[w]]] \in {"enqueued", "release_peer", "notify", "release"}

(* "scheduler: deadlock detected": when every thread is in the blocked set,*)
(* every thread really waits for a peer; none was completed and is about   *)
(* to be woken (until the destructor clears the map of threads).           *)
DeadlockReportSound ==
    ~Destroyed /\ all # {} /\ blocked = all => \A t \in all : waiting[t]

(* assert(iter != _all_vm_threads.cend()) in next_thread: the run queue    *)
(* holds only threads of the scheduler.                                    *)
QueuedThreadsKnown ==
    \A k \in 1 .. Len(runnable) : runnable[k] \in all

-----------------------------------------------------------------------------
(* The inductive invariant behind these properties, by subject.            *)

(* Control points that hold _vm_threads_lock; at which a worker is about   *)
(* to wake a blocked peer, and has woken one; inside a quantum; and after  *)
(* worker_main caught an exception.                                        *)
Holding == {"gc", "select", "own", "sleepy"}
Waking  == {"find", "deref", "enqueue"}
Woke    == {"enqueued", "release_peer"}
Quantum == {"run", "forked"} \cup Waking \cup Woke
Left    == {"catch", "caught", "done"}

Queued(t) == \E k \in 1 .. Len(runnable) : runnable[k] = t
Held(w)   == cur[w] # None /\ wpc[w] \notin GivingUp \cup {"crashed"}
Asleep(t) == /\ vmstate[t] = "blocked"
             /\ t \in blocked \/ \E v \in Workers : cur[v] = t /\ wpc[v] = "return"

LockInv == \A w \in Workers :
    /\ wpc[w] \in Holding => lock = w
    /\ lock = w => wpc[w] \in Holding \cup {"crashed"}

StartInv == mpc = "start" =>
    /\ runnable = <<>> /\ blocked = {} /\ all = {}
    /\ \A w \in Workers : wpc[w] = "off"
    /\ \A t \in VmThreads : vmstate[t] = "new"

(* Registers of a worker by control point. *)
ControlInv == \A w \in Workers :
    /\ wpc[w] \in Executing \cup GivingUp => cur[w] # None
    /\ cur[w] # None => wpc[w] \in Executing \cup GivingUp \cup Left \cup {"crashed"}
    /\ wpc[w] \in Waking \cup Woke => enq[w] # None
    /\ enq[w] # None => wpc[w] \in Waking \cup Woke \cup {"crashed"}

(* The state of a thread agrees with where it is. *)
StateAt(w) ==
    LET s == vmstate[cur[w]]
    IN  /\ wpc[w] = "own"      => s \in {"ready", "blocked"}
        /\ wpc[w] \in Quantum  => s = "running"
        /\ wpc[w] = "return"   => s \in {"ready", "blocked", "exiting", "broken"}
        /\ wpc[w] = "notify"   => s = "ready"
        /\ wpc[w] = "release"  => s \in {"ready", "blocked", "exiting"}
        /\ wpc[w] \in Left \cup {"crashed"} => s \in {"running", "exiting"}

StateInv ==
    /\ \A w \in Workers : cur[w] # None => StateAt(w)
    /\ \A t \in VmThreads :
        /\ Queued(t) => vmstate[t] \in {"ready", "blocked"}
        /\ t \in blocked => vmstate[t] = "blocked"
        /\ vmstate[t] = "new" => t \notin all

(* Who owns a thread executes it, gives it up or has just woken it. *)
OwnInv ==
    /\ \A w \in Workers : cur[w] # None /\ wpc[w] # "own" => owner[cur[w]] = w
    /\ \A w \in Workers : wpc[w] \in Woke => owner[enq[w]] = w
    /\ \A t \in VmThreads : \A w \in Workers : owner[t] = w =>
        \/ cur[w] = t /\ wpc[w] # "own"
        \/ enq[w] = t /\ wpc[w] \in Woke

(* No thread is in two places, even after the scheduler was destroyed. *)
PlaceInv ==
    /\ \A j, k \in 1 .. Len(runnable) : runnable[j] = runnable[k] => j = k
    /\ \A t \in VmThreads : Queued(t) => t \notin blocked
    /\ \A w \in Workers : Held(w) => ~Queued(cur[w]) /\ cur[w] \notin blocked
    /\ \A v, w \in Workers : Held(v) /\ Held(w) /\ cur[v] = cur[w] => v = w

(* A thread with a pending request, or one that is about to be woken, is   *)
(* blocked or on its way there; a request is completed by one worker only. *)
WakeInv ==
    /\ \A t \in VmThreads : waiting[t] => Asleep(t)
    /\ \A w \in Workers : wpc[w] \in Waking => Asleep(enq[w]) /\ ~waiting[enq[w]]
    /\ \A w \in Workers : wpc[w] \in Woke =>
        vmstate[enq[w]] = "blocked" /\ ~waiting[enq[w]]
    /\ \A v, w \in Workers : enq[v] # None /\ enq[v] = enq[w] => v = w

(* Until the destructor clears the map: it holds the threads that are      *)
(* somewhere, nobody crashed, and a blocked thread waits or is being woken.*)
KnownInv == ~Destroyed =>
    /\ \A w \in Workers : wpc[w] # "crashed"
    /\ \A t \in VmThreads : Queued(t) \/ t \in blocked => t \in all
    /\ \A w \in Workers : Held(w) => cur[w] \in all
    /\ \A t \in all : \/ Queued(t) \/ t \in blocked \/ vmstate[t] = "broken"
                       \/ \E w \in Workers : Held(w) /\ cur[w] = t
    /\ \A t \in VmThreads : Asleep(t) =>
        waiting[t] \/ \E w \in Workers : wpc[w] \in Waking /\ enq[w] = t

SchedulerInv ==
    /\ TypeOK /\ LockInv /\ StartInv /\ ControlInv /\ StateInv /\ OwnInv
    /\ PlaceInv /\ WakeInv /\ KnownInv /\ RunningCount

-----------------------------------------------------------------------------
(* A thread in the run queue is executed, unless the scheduler terminates: *)
(* no notification is lost, and the collection barrier lets the workers go.*)
RunnableRuns ==
    \A t \in VmThreads :
        (\E k \in 1 .. Len(runnable) : runnable[k] = t) ~>
            (vmstate[t] = "running" \/ terminating)

(* A blocked thread whose request was completed runs again. *)
CompletedRuns ==
    \A t \in VmThreads :
        (\E w \in Workers : enq[w] = t) ~> (vmstate[t] = "running" \/ terminating)

(* The destructor finds every worker that sleeps or executes, also one     *)
(* that missed an earlier notification: unless the process crashed, only a *)
(* worker that waits for a collection can keep it from returning.          *)
ShutdownProgress ==
    (mpc = "join") ~>
        (mpc = "done" \/ Crashed \/ \E w \in Workers : wpc[w] = "gcSleep")

(* "Wait for all worker threads to finish": the destructor returns. *)
ShutdownJoins == (mpc = "join") ~> (mpc = "done")
=============================================================================
