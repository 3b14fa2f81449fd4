-------------------------- MODULE SchedulerProofs --------------------------
(***************************************************************************)
(* Proofs about module Scheduler, for any finite pool of workers and any   *)
(* VM threads, collection period and faults.                               *)
(***************************************************************************)
EXTENDS Scheduler, FiniteSetTheorems, TLAPS

(* Points at which a worker sleeps or was just woken.  A notification      *)
(* moves other workers only among these.                                   *)
Resting == {"wait", "woken", "gcSleep", "gcCheck"}

(* Worker w moves on to l; the others stay, but for those notified. *)
Moves(w, l) ==
    /\ wpc' \in [Workers -> WorkerPoints]
    /\ wpc'[w] = l
    /\ \A v \in Workers : v # w =>
        wpc'[v] = wpc[v] \/ (wpc[v] \in Resting /\ wpc'[v] \in Resting)

USE DEF Executing, GivingUp, Holding, Waking, Woke, Quantum, Left, Resting

-----------------------------------------------------------------------------
(* Queues and control points *)

(* Appending a thread to the run queue queues that thread and no other. *)
LEMMA AppendQueues ==
    ASSUME TypeOK, NEW u \in VmThreads, runnable' = Append(runnable, u)
    PROVE  /\ runnable' \in Seq(VmThreads)
           /\ \A t : Queued(t)' <=> Queued(t) \/ t = u
  <1>1. /\ runnable' \in Seq(VmThreads)
        /\ Len(runnable') = Len(runnable) + 1 /\ Len(runnable) \in Nat
        /\ runnable'[Len(runnable) + 1] = u
        /\ \A k \in 1 .. Len(runnable) : runnable'[k] = runnable[k]
    BY DEF TypeOK
  <1>2. ASSUME NEW t PROVE Queued(t)' <=> Queued(t) \/ t = u
    <2>1. \A k \in 1 .. Len(runnable') : k = Len(runnable) + 1 \/ k \in 1 .. Len(runnable)
      BY <1>1
    <2>2. \A k \in 1 .. Len(runnable) : k \in 1 .. Len(runnable')
      BY <1>1
    <2>3. Len(runnable) + 1 \in 1 .. Len(runnable')
      BY <1>1
    <2> QED
      BY <1>1, <2>1, <2>2, <2>3 DEF Queued
  <1> QED
    BY <1>1, <1>2

(* A queue without duplicates has none after a thread that is not in it    *)
(* was appended.                                                           *)
LEMMA AppendDistinct ==
    ASSUME TypeOK, PlaceInv, NEW u \in VmThreads, runnable' = Append(runnable, u),
           ~Queued(u)
    PROVE  \A j, k \in 1 .. Len(runnable') : runnable'[j] = runnable'[k] => j = k
  <1>1. /\ Len(runnable') = Len(runnable) + 1 /\ Len(runnable) \in Nat
        /\ runnable'[Len(runnable) + 1] = u
        /\ \A k \in 1 .. Len(runnable) : runnable'[k] = runnable[k]
    BY DEF TypeOK
  <1>2. \A k \in 1 .. Len(runnable') : k = Len(runnable) + 1 \/ k \in 1 .. Len(runnable)
    BY <1>1
  <1> QED
    BY <1>1, <1>2 DEF PlaceInv, Queued

(* Taking the front of a queue without duplicates removes that thread. *)
LEMMA TailQueues ==
    ASSUME TypeOK, PlaceInv, runnable # <<>>, runnable' = Tail(runnable)
    PROVE  /\ Head(runnable) \in VmThreads /\ Queued(Head(runnable))
           /\ runnable' \in Seq(VmThreads)
           /\ \A t : Queued(t)' <=> Queued(t) /\ t # Head(runnable)
           /\ \A j, k \in 1 .. Len(runnable') : runnable'[j] = runnable'[k] => j = k
  <1>1. /\ runnable' \in Seq(VmThreads) /\ Head(runnable) \in VmThreads
        /\ Head(runnable) = runnable[1]
        /\ Len(runnable) \in Nat \ {0} /\ Len(runnable') = Len(runnable) - 1
        /\ \A k \in 1 .. Len(runnable') : runnable'[k] = runnable[k + 1]
    BY DEF TypeOK
  <1>2. /\ \A k \in 1 .. Len(runnable') : k + 1 \in 1 .. Len(runnable) /\ k + 1 # 1
        /\ 1 \in 1 .. Len(runnable)
        /\ \A k \in 1 .. Len(runnable) : k = 1 \/ (k - 1 \in 1 .. Len(runnable') /\ (k - 1) + 1 = k)
        /\ \A j, k \in 1 .. Len(runnable') : j + 1 = k + 1 => j = k
    BY <1>1
  <1>3. \A j, k \in 1 .. Len(runnable) : runnable[j] = runnable[k] => j = k
    BY DEF PlaceInv
  <1>4. ASSUME NEW t PROVE Queued(t)' <=> Queued(t) /\ t # Head(runnable)
    <2>1. Queued(t)' => Queued(t) /\ t # Head(runnable)
      BY <1>1, <1>2, <1>3 DEF Queued
    <2>2. Queued(t) /\ t # Head(runnable) => Queued(t)'
      BY <1>1, <1>2 DEF Queued
    <2> QED
      BY <2>1, <2>2
  <1>5. \A j, k \in 1 .. Len(runnable') : runnable'[j] = runnable'[k] => j = k
    BY <1>1, <1>2, <1>3
  <1> QED
    BY <1>1, <1>2, <1>4, <1>5 DEF Queued

(* Goto moves one worker and no other. *)
LEMMA GotoMoves ==
    ASSUME TypeOK, NEW w \in Workers, NEW l \in WorkerPoints, Goto(w, l)
    PROVE  Moves(w, l)
  BY DEF TypeOK, Goto, Moves

(* A notification wakes at most one worker that sleeps. *)
LEMMA NotifyMoves ==
    ASSUME TypeOK, NEW w \in Workers, NEW l \in WorkerPoints, NotifyOne(w, l),
           wpc[w] # "wait"
    PROVE  Moves(w, l)
  <1>1. CASE Sleeping = {}
    BY <1>1, GotoMoves DEF NotifyOne
  <1>2. CASE Sleeping # {}
    <2>1. PICK s \in Sleeping : wpc' = [wpc EXCEPT ![w] = l, ![s] = "woken"]
      BY <1>2 DEF NotifyOne
    <2> QED
      BY <2>1 DEF TypeOK, Moves, Sleeping, WorkerPoints
  <1> QED
    BY <1>1, <1>2

(* Who sleeps is woken, whatever else a step does. *)
LEMMA WakeAllMoves ==
    ASSUME TypeOK, NEW w \in Workers, NEW l \in WorkerPoints, l # "wait",
           wpc' = WakeAll([wpc EXCEPT ![w] = l])
    PROVE  Moves(w, l)
  BY DEF TypeOK, WakeAll, Moves, WorkerPoints

-----------------------------------------------------------------------------
(* Steps that only move workers *)

(* Points without a VM thread. *)
Free == {"off", "next", "gc", "gcDone", "gcSleepy", "select", "sleepy"} \cup Resting

(* Moves after which a worker still does the same with its VM thread and   *)
(* with the one it wakes.                                                  *)
Alike(a, b) ==
    \/ a \in Free /\ b \in Free \cup {"done"}
    \/ a \in Left /\ b \in Left
    \/ a \in {"run", "forked"} /\ b \in {"run", "forked", "catch"}
    \/ a \in Waking /\ b \in Waking
    \/ a \in Woke /\ b \in Woke
    \/ a = "notify" /\ b = "release"

(* All of SchedulerInv but for the types and the lock. *)
RestInv == /\ StartInv /\ ControlInv /\ StateInv /\ OwnInv
           /\ PlaceInv /\ WakeInv /\ KnownInv /\ RunningCount

(* A step that only moves workers, each to a point like the one it left,   *)
(* keeps everything that is said about VM threads.                         *)
LEMMA QuietStep ==
    ASSUME SchedulerInv, ~Crashed, wpc' \in [Workers -> WorkerPoints],
           \A v \in Workers : wpc'[v] = wpc[v] \/ Alike(wpc[v], wpc'[v]),
           mpc # "start", mpc' # "start", Destroyed' <=> Destroyed,
           UNCHANGED <<owner, runnable, blocked, all, running, cur, enq, vmstate, waiting>>
    PROVE  RestInv'
  <1> USE DEF SchedulerInv, Alike, Free
  <1>1. StartInv'
    BY DEF StartInv
  <1>2. ControlInv'
    BY DEF ControlInv
  <1>3. \A t : Queued(t)' <=> Queued(t)
    BY DEF Queued
  <1>4. StateInv'
    <2>1. ASSUME NEW v \in Workers, cur'[v] # None
          PROVE  StateAt(v)'
      BY <2>1 DEF StateInv, StateAt, ControlInv
    <2> QED
      BY <1>3, <2>1 DEF StateInv
  <1>5. OwnInv'
    BY DEF OwnInv, ControlInv
  <1>6. \A v \in Workers : Held(v)' <=> Held(v)
    BY DEF Held, ControlInv, Crashed
  <1>7. PlaceInv'
    BY <1>3, <1>6 DEF PlaceInv
  <1>8. \A t \in VmThreads : Asleep(t)' <=> Asleep(t)
    BY DEF Asleep
  <1>9. \A v \in Workers : /\ wpc[v] \in Waking <=> wpc'[v] \in Waking
                           /\ wpc[v] \in Woke <=> wpc'[v] \in Woke
                           /\ wpc[v] # "crashed" /\ wpc'[v] # "crashed"
    BY DEF Crashed
  <1>10. WakeInv'
    BY <1>8, <1>9 DEF WakeInv, ControlInv, TypeOK
  <1>11. KnownInv'
    BY <1>3, <1>6, <1>8, <1>9 DEF KnownInv
  <1>12. RunningCount'
    <2>1. {v \in Workers : cur[v] # None /\ wpc[v] \notin GivingUp} =
            {v \in Workers : cur'[v] # None /\ wpc'[v] \notin GivingUp}
      BY DEF ControlInv
    <2> QED
      BY <2>1 DEF RunningCount
  <1> QED
    BY <1>1, <1>2, <1>4, <1>5, <1>7, <1>10, <1>11, <1>12 DEF RestInv

-----------------------------------------------------------------------------
(* The count of running threads *)

(* Workers whose VM thread counts as running. *)
Counted == {v \in Workers : cur[v] # None /\ wpc[v] \notin GivingUp}

(* The counted workers are finitely many, before and after a step. *)
LEMMA CountedFinite ==
    /\ IsFiniteSet(Counted) /\ Cardinality(Counted) \in Nat
    /\ IsFiniteSet(Counted') /\ Cardinality(Counted') \in Nat
  BY WorkersAssumption, FS_Subset, FS_CardinalityType DEF Counted

(* The counter is right after a step that counts the same workers. *)
LEMMA CountKept ==
    ASSUME RunningCount, ~Crashed, running' = running, Counted' = Counted
    PROVE  RunningCount'
  BY DEF RunningCount, Counted

(* ... one more worker ... *)
LEMMA CountUp ==
    ASSUME RunningCount, ~Crashed, NEW w \in Workers, w \notin Counted,
           running' = running + 1, Counted' = Counted \cup {w}
    PROVE  RunningCount'
  <1>1. Cardinality(Counted') = Cardinality(Counted) + 1
    BY CountedFinite, FS_AddElement
  <1> QED
    BY <1>1 DEF RunningCount, Counted

(* A counted worker keeps the counter from being zero. *)
LEMMA CountPositive ==
    ASSUME RunningCount, ~Crashed, NEW w \in Counted
    PROVE  running - 1 \in Nat
  <1>1. running = Cardinality(Counted)
    BY DEF RunningCount, Counted
  <1>2. Cardinality(Counted) # 0
    BY CountedFinite, FS_EmptySet
  <1> QED
    BY <1>1, <1>2, CountedFinite

(* ... or one worker less. *)
LEMMA CountDown ==
    ASSUME RunningCount, ~Crashed, NEW w \in Workers, w \in Counted,
           running' = running - 1, Counted' = Counted \ {w}
    PROVE  running' \in Nat /\ RunningCount'
  <1>1. Cardinality(Counted') = Cardinality(Counted) - 1
    BY CountedFinite, FS_RemoveElement
  <1> QED
    BY <1>1, CountedFinite DEF RunningCount, Counted

-----------------------------------------------------------------------------
(* Steps that move VM threads *)

USE NoneAssumption DEF SchedulerInv, queueVars, gcVars, vmVars, Goto

(* A worker that executes a VM thread it owns, or that may now own it, is  *)
(* the only one with that thread.                                          *)
LEMMA Alone ==
    ASSUME SchedulerInv, ~Crashed, NEW w \in Workers, wpc[w] \in Executing,
           wpc[w] = "own" => owner[cur[w]] = None
    PROVE  /\ cur[w] \in VmThreads /\ cur[w] \notin blocked /\ ~Queued(cur[w])
           /\ \A v \in Workers : v # w => cur[v] # cur[w]
  <1>1. cur[w] \in VmThreads /\ Held(w)
    BY DEF TypeOK, ControlInv, Held
  <1>2. ASSUME NEW v \in Workers, v # w, cur[v] = cur[w] PROVE FALSE
    <2>1. ~Held(v)
      BY <1>1, <1>2 DEF PlaceInv
    <2>2. wpc[v] \in GivingUp
      BY <1>1, <1>2, <2>1 DEF Held, Crashed
    <2> QED
      BY <1>1, <1>2, <2>2 DEF OwnInv
  <1> QED
    BY <1>1, <1>2 DEF PlaceInv

(* The front of the run queue is taken: the invariant is kept. *)
LEMMA SelectStep ==
    ASSUME SchedulerInv, ~Crashed, NEW w \in Workers, Select(w)
    PROVE  SchedulerInv'
  <1>1. /\ Head(runnable) \in VmThreads /\ Queued(Head(runnable))
        /\ runnable' \in Seq(VmThreads)
        /\ \A t : Queued(t)' <=> Queued(t) /\ t # Head(runnable)
        /\ \A j, k \in 1 .. Len(runnable') : runnable'[j] = runnable'[k] => j = k
    BY TailQueues DEF Select
  <1>2. wpc[w] = "select" /\ cur[w] = None /\ enq[w] = None /\ \A t \in VmThreads : owner[t] # w
    <2>1. wpc[w] = "select" /\ cur[w] = None /\ enq[w] = None
      BY DEF Select, ControlInv
    <2> QED
      BY <2>1 DEF OwnInv
  <1>3. /\ UNCHANGED <<owner, blocked, all, enq, vmstate, waiting, mpc>>
        /\ \A v \in Workers : v # w => wpc'[v] = wpc[v] /\ cur'[v] = cur[v]
        /\ \/ /\ Head(runnable) \in all
              /\ wpc'[w] = "own" /\ cur'[w] = Head(runnable) /\ running' = running + 1
           \/ /\ Head(runnable) \notin all
              /\ wpc'[w] = "crashed" /\ cur'[w] = None
    BY <1>2 DEF Select, TypeOK
  <1>4. \A t \in VmThreads : Asleep(t)' <=> Asleep(t)
    BY <1>3 DEF Select, Asleep
  <1>5. ~Destroyed => Head(runnable) \in all
    BY <1>1 DEF KnownInv
  <1>6. TypeOK'
    BY <1>1, GcPeriodAssumption DEF Select, TypeOK, WorkerPoints
  <1>7. LockInv'
    BY <1>1, <1>2, <1>3, <1>4, <1>5 DEF Select, TypeOK, LockInv
  <1>8. StartInv'
    BY <1>1, <1>2, <1>3, <1>4, <1>5 DEF Select, StartInv
  <1>9. ControlInv'
    BY <1>1, <1>2, <1>3, <1>4, <1>5 DEF Select, TypeOK, ControlInv
  <1>10. StateInv'
    BY <1>1, <1>2, <1>3, <1>4, <1>5 DEF Select, TypeOK, ControlInv, StateInv,
       StateAt
  <1>11. OwnInv'
    BY <1>2, <1>3 DEF OwnInv, TypeOK
  <1>12. PlaceInv'
    <2>1. \A v \in Workers : v # w => (Held(v)' <=> Held(v)) /\ cur'[v] = cur[v]
      BY <1>3 DEF Held
    <2>2. Held(w)' => cur'[w] = Head(runnable)
      BY <1>3 DEF Held
    <2>3. Head(runnable) \notin blocked /\ \A v \in Workers : Held(v) => cur[v] # Head(runnable)
      BY <1>1 DEF PlaceInv
    <2> QED
      BY <1>1, <1>3, <2>1, <2>2, <2>3 DEF PlaceInv
  <1>13. WakeInv'
    BY <1>2, <1>3, <1>4 DEF WakeInv, TypeOK, ControlInv
  <1>14. KnownInv'
    <2>1. SUFFICES ASSUME ~Destroyed PROVE KnownInv'
      BY <1>3 DEF KnownInv, Destroyed
    <2>2. \A v \in Workers : /\ wpc'[v] # "crashed"
                             /\ wpc'[v] \in Waking <=> wpc[v] \in Waking
                             /\ Held(v)' <=> Held(v) \/ v = w
      BY <1>1, <1>2, <1>3, <1>5, <2>1 DEF KnownInv, Held
    <2> QED
      BY <1>1, <1>2, <1>3, <1>4, <1>5, <2>1, <2>2 DEF KnownInv, Held
  <1>15. RunningCount'
    <2>1. CASE Head(runnable) \in all
      <3>1. Counted' = Counted \cup {w} /\ w \notin Counted
        BY <1>1, <1>2, <1>3, <2>1 DEF Counted
      <3> QED
        BY <1>3, <2>1, <3>1, CountUp
    <2>2. CASE Head(runnable) \notin all
      BY <1>3, <2>2 DEF RunningCount, Crashed
    <2> QED
      BY <2>1, <2>2
  <1> QED
    BY <1>6, <1>7, <1>8, <1>9, <1>10, <1>11, <1>12, <1>13, <1>14, <1>15

(* The ownership mutex is taken, and the quantum starts: the invariant is kept. *)
LEMMA TakeOwnershipStep ==
    ASSUME SchedulerInv, ~Crashed, NEW w \in Workers, TakeOwnership(w)
    PROVE  SchedulerInv'
  <1>1. \A t : Queued(t)' <=> Queued(t)
    BY DEF Queued, TakeOwnership
  <1>2. /\ cur[w] \in VmThreads /\ cur[w] \notin blocked /\ ~Queued(cur[w])
        /\ \A v \in Workers : v # w => cur[v] # cur[w]
    BY Alone DEF TakeOwnership
  <1>3. /\ \A t \in VmThreads : Asleep(t)' <=> Asleep(t)
        /\ ~Asleep(cur[w]) /\ \A v \in Workers : wpc[v] \in Woke => enq[v] # cur[w]
    BY <1>2 DEF TakeOwnership, Asleep, OwnInv, TypeOK
  <1>4. TypeOK'
    BY <1>1, <1>2, <1>3 DEF TakeOwnership, TypeOK, WorkerPoints
  <1>5. LockInv'
    BY <1>1, <1>2, <1>3 DEF TakeOwnership, TypeOK, LockInv
  <1>6. StartInv'
    BY <1>1, <1>2, <1>3 DEF TakeOwnership, StartInv
  <1>7. ControlInv'
    BY <1>1, <1>2, <1>3 DEF TakeOwnership, TypeOK, ControlInv
  <1>8. StateInv'
    BY <1>1, <1>2, <1>3 DEF TakeOwnership, TypeOK, ControlInv, StateInv, StateAt
  <1>9. OwnInv'
    BY <1>1, <1>2, <1>3 DEF TakeOwnership, TypeOK, ControlInv, OwnInv
  <1>10. PlaceInv'
    BY <1>1, <1>2, <1>3 DEF TakeOwnership, TypeOK, ControlInv, PlaceInv, Held
  <1>11. WakeInv'
    BY <1>2, <1>3 DEF TakeOwnership, WakeInv, TypeOK, ControlInv
  <1>12. KnownInv'
    BY <1>1, <1>2, <1>3 DEF TakeOwnership, TypeOK, ControlInv, KnownInv,
       Destroyed, Held, Asleep
  <1>13. RunningCount'
    BY CountKept DEF Counted, TypeOK, ControlInv, TakeOwnership
  <1> QED
    BY <1>4, <1>5, <1>6, <1>7, <1>8, <1>9, <1>10, <1>11, <1>12, <1>13

(* The quantum is used up: the invariant is kept. *)
LEMMA YieldStep ==
    ASSUME SchedulerInv, ~Crashed, NEW w \in Workers, Yield(w)
    PROVE  SchedulerInv'
  <1>1. \A t : Queued(t)' <=> Queued(t)
    BY DEF Queued, Yield, EndQuantum
  <1>2. /\ cur[w] \in VmThreads /\ cur[w] \notin blocked /\ ~Queued(cur[w])
        /\ \A v \in Workers : v # w => cur[v] # cur[w]
    BY Alone DEF Yield, EndQuantum
  <1>3. TypeOK'
    BY <1>1, <1>2 DEF Yield, EndQuantum, TypeOK, WorkerPoints
  <1>4. LockInv'
    BY <1>1, <1>2 DEF Yield, EndQuantum, TypeOK, LockInv
  <1>5. StartInv'
    BY <1>1, <1>2 DEF Yield, EndQuantum, StartInv
  <1>6. ControlInv'
    BY <1>1, <1>2 DEF Yield, EndQuantum, TypeOK, ControlInv
  <1>7. StateInv'
    BY <1>1, <1>2 DEF Yield, EndQuantum, TypeOK, ControlInv, StateInv, StateAt
  <1>8. OwnInv'
    BY <1>1, <1>2 DEF Yield, EndQuantum, TypeOK, ControlInv, OwnInv
  <1>9. PlaceInv'
    BY <1>1, <1>2 DEF Yield, EndQuantum, TypeOK, ControlInv, PlaceInv, Held
  <1>10. WakeInv'
    BY <1>1, <1>2 DEF Yield, EndQuantum, TypeOK, ControlInv, StateInv, WakeInv,
       StateAt, Asleep
  <1>11. KnownInv'
    BY <1>1, <1>2 DEF Yield, EndQuantum, TypeOK, ControlInv, KnownInv,
       Destroyed, Held, Asleep
  <1>12. RunningCount'
    BY CountKept DEF Counted, TypeOK, ControlInv, Yield, EndQuantum
  <1> QED
    BY <1>3, <1>4, <1>5, <1>6, <1>7, <1>8, <1>9, <1>10, <1>11, <1>12

(* The thread waits for a peer: the invariant is kept. *)
LEMMA BlockStep ==
    ASSUME SchedulerInv, ~Crashed, NEW w \in Workers, Block(w)
    PROVE  SchedulerInv'
  <1>1. \A t : Queued(t)' <=> Queued(t)
    BY DEF Queued, Block, EndQuantum
  <1>2. /\ cur[w] \in VmThreads /\ cur[w] \notin blocked /\ ~Queued(cur[w])
        /\ \A v \in Workers : v # w => cur[v] # cur[w]
    BY Alone DEF Block, EndQuantum
  <1>3. TypeOK'
    BY <1>1, <1>2 DEF Block, EndQuantum, TypeOK, WorkerPoints
  <1>4. LockInv'
    BY <1>1, <1>2 DEF Block, EndQuantum, TypeOK, LockInv
  <1>5. StartInv'
    BY <1>1, <1>2 DEF Block, EndQuantum, StartInv
  <1>6. ControlInv'
    BY <1>1, <1>2 DEF Block, EndQuantum, TypeOK, ControlInv
  <1>7. StateInv'
    BY <1>1, <1>2 DEF Block, EndQuantum, TypeOK, ControlInv, StateInv, StateAt
  <1>8. OwnInv'
    BY <1>1, <1>2 DEF Block, EndQuantum, TypeOK, ControlInv, OwnInv
  <1>9. PlaceInv'
    BY <1>1, <1>2 DEF Block, EndQuantum, TypeOK, ControlInv, PlaceInv, Held
  <1>10. WakeInv'
    BY <1>1, <1>2 DEF Block, EndQuantum, TypeOK, ControlInv, StateInv, WakeInv,
       StateAt, Asleep
  <1>11. KnownInv'
    BY <1>1, <1>2 DEF Block, EndQuantum, TypeOK, ControlInv, KnownInv,
       Destroyed, Held, Asleep
  <1>12. RunningCount'
    BY CountKept DEF Counted, TypeOK, ControlInv, Block, EndQuantum
  <1> QED
    BY <1>3, <1>4, <1>5, <1>6, <1>7, <1>8, <1>9, <1>10, <1>11, <1>12

(* The thread ends: the invariant is kept. *)
LEMMA ExitStep ==
    ASSUME SchedulerInv, ~Crashed, NEW w \in Workers, Exit(w)
    PROVE  SchedulerInv'
  <1>1. \A t : Queued(t)' <=> Queued(t)
    BY DEF Queued, Exit, EndQuantum
  <1>2. /\ cur[w] \in VmThreads /\ cur[w] \notin blocked /\ ~Queued(cur[w])
        /\ \A v \in Workers : v # w => cur[v] # cur[w]
    BY Alone DEF Exit, EndQuantum
  <1>3. TypeOK'
    BY <1>1, <1>2 DEF Exit, EndQuantum, TypeOK, WorkerPoints
  <1>4. LockInv'
    BY <1>1, <1>2 DEF Exit, EndQuantum, TypeOK, LockInv
  <1>5. StartInv'
    BY <1>1, <1>2 DEF Exit, EndQuantum, StartInv
  <1>6. ControlInv'
    BY <1>1, <1>2 DEF Exit, EndQuantum, TypeOK, ControlInv
  <1>7. StateInv'
    BY <1>1, <1>2 DEF Exit, EndQuantum, TypeOK, ControlInv, StateInv, StateAt
  <1>8. OwnInv'
    BY <1>1, <1>2 DEF Exit, EndQuantum, TypeOK, ControlInv, OwnInv
  <1>9. PlaceInv'
    BY <1>1, <1>2 DEF Exit, EndQuantum, TypeOK, ControlInv, PlaceInv, Held
  <1>10. WakeInv'
    BY <1>1, <1>2 DEF Exit, EndQuantum, TypeOK, ControlInv, StateInv, WakeInv,
       StateAt, Asleep
  <1>11. KnownInv'
    BY <1>1, <1>2 DEF Exit, EndQuantum, TypeOK, ControlInv, KnownInv, Destroyed,
       Held, Asleep
  <1>12. RunningCount'
    BY CountKept DEF Counted, TypeOK, ControlInv, Exit, EndQuantum
  <1> QED
    BY <1>3, <1>4, <1>5, <1>6, <1>7, <1>8, <1>9, <1>10, <1>11, <1>12

(* The thread is broken: the invariant is kept. *)
LEMMA BrokenStep ==
    ASSUME SchedulerInv, ~Crashed, NEW w \in Workers, Broken(w)
    PROVE  SchedulerInv'
  <1>1. \A t : Queued(t)' <=> Queued(t)
    BY DEF Queued, Broken, EndQuantum
  <1>2. /\ cur[w] \in VmThreads /\ cur[w] \notin blocked /\ ~Queued(cur[w])
        /\ \A v \in Workers : v # w => cur[v] # cur[w]
    BY Alone DEF Broken, EndQuantum
  <1>3. TypeOK'
    BY <1>1, <1>2 DEF Broken, EndQuantum, TypeOK, WorkerPoints
  <1>4. LockInv'
    BY <1>1, <1>2 DEF Broken, EndQuantum, TypeOK, LockInv
  <1>5. StartInv'
    BY <1>1, <1>2 DEF Broken, EndQuantum, StartInv
  <1>6. ControlInv'
    BY <1>1, <1>2 DEF Broken, EndQuantum, TypeOK, ControlInv
  <1>7. StateInv'
    BY <1>1, <1>2 DEF Broken, EndQuantum, TypeOK, ControlInv, StateInv, StateAt
  <1>8. OwnInv'
    BY <1>1, <1>2 DEF Broken, EndQuantum, TypeOK, ControlInv, OwnInv
  <1>9. PlaceInv'
    BY <1>1, <1>2 DEF Broken, EndQuantum, TypeOK, ControlInv, PlaceInv, Held
  <1>10. WakeInv'
    BY <1>1, <1>2 DEF Broken, EndQuantum, TypeOK, ControlInv, StateInv, WakeInv,
       StateAt, Asleep
  <1>11. KnownInv'
    BY <1>1, <1>2 DEF Broken, EndQuantum, TypeOK, ControlInv, KnownInv,
       Destroyed, Held, Asleep
  <1>12. RunningCount'
    BY CountKept DEF Counted, TypeOK, ControlInv, Broken, EndQuantum
  <1> QED
    BY <1>3, <1>4, <1>5, <1>6, <1>7, <1>8, <1>9, <1>10, <1>11, <1>12

(* A VM thread is forked: the invariant is kept. *)
LEMMA ForkStep ==
    ASSUME SchedulerInv, ~Crashed, NEW w \in Workers, NEW u \in VmThreads,
           Fork(w, u)
    PROVE  SchedulerInv'
  <1>1. /\ runnable' \in Seq(VmThreads)
        /\ \A t : Queued(t)' <=> Queued(t) \/ t = u
    BY AppendQueues DEF Fork
  <1>2. ~Queued(u) /\ u \notin blocked /\ u \notin all /\ \A v \in Workers : cur[v] # u
    BY DEF Fork, StateInv, StateAt, ControlInv, TypeOK
  <1>3. \A j, k \in 1 .. Len(runnable') : runnable'[j] = runnable'[k] => j = k
    BY <1>2, AppendDistinct DEF Fork
  <1>4. \A t \in VmThreads : Asleep(t)' <=> Asleep(t) /\ (Asleep(t) => t # u)
    BY <1>2 DEF Fork, Asleep, TypeOK
  <1>5. TypeOK'
    BY <1>1, <1>2, <1>3, <1>4 DEF Fork, TypeOK, WorkerPoints
  <1>6. LockInv'
    BY <1>1, <1>2, <1>3, <1>4 DEF Fork, TypeOK, LockInv
  <1>7. StartInv'
    BY <1>1, <1>2, <1>3, <1>4 DEF Fork, StartInv
  <1>8. ControlInv'
    BY <1>1, <1>2, <1>3, <1>4 DEF Fork, TypeOK, ControlInv
  <1>9. StateInv'
    BY <1>1, <1>2, <1>3, <1>4 DEF Fork, TypeOK, ControlInv, StateInv, StateAt
  <1>10. OwnInv'
    BY <1>1, <1>2, <1>3, <1>4 DEF Fork, TypeOK, ControlInv, OwnInv
  <1>11. PlaceInv'
    BY <1>1, <1>2, <1>3, <1>4 DEF Fork, TypeOK, ControlInv, PlaceInv, Held
  <1>12. WakeInv'
    BY <1>1, <1>2, <1>3, <1>4 DEF Fork, TypeOK, ControlInv, StateInv, WakeInv,
       StateAt, Asleep
  <1>13. KnownInv'
    <2>1. \A v \in Workers : /\ Held(v)' <=> Held(v)
                             /\ wpc'[v] = "crashed" => wpc[v] = "crashed"
                             /\ wpc'[v] \in Waking <=> wpc[v] \in Waking
      BY DEF Fork, Held, TypeOK
    <2> QED
      BY <1>1, <1>2, <1>4, <2>1 DEF Fork, KnownInv, Destroyed, TypeOK
  <1>14. RunningCount'
    BY CountKept DEF Counted, TypeOK, ControlInv, Fork
  <1> QED
    BY <1>5, <1>6, <1>7, <1>8, <1>9, <1>10, <1>11, <1>12, <1>13, <1>14

(* A peer's request is completed: the invariant is kept. *)
LEMMA CompletePeerStep ==
    ASSUME SchedulerInv, ~Crashed, NEW w \in Workers, NEW u \in VmThreads,
           CompletePeer(w, u)
    PROVE  SchedulerInv'
  <1>1. \A t : Queued(t)' <=> Queued(t)
    BY DEF Queued, CompletePeer
  <1>2. \A t \in VmThreads : Asleep(t)' <=> Asleep(t)
    BY DEF CompletePeer, Asleep, TypeOK
  <1>3. Asleep(u) /\ \A v \in Workers : enq[v] # u
    BY DEF CompletePeer, WakeInv, ControlInv, TypeOK, Crashed
  <1>4. TypeOK'
    BY <1>1, <1>2, <1>3 DEF CompletePeer, TypeOK, WorkerPoints
  <1>5. LockInv'
    BY <1>1, <1>2, <1>3 DEF CompletePeer, TypeOK, LockInv
  <1>6. StartInv'
    BY <1>1, <1>2, <1>3 DEF CompletePeer, StartInv
  <1>7. ControlInv'
    BY <1>1, <1>2, <1>3 DEF CompletePeer, TypeOK, ControlInv
  <1>8. StateInv'
    BY <1>1, <1>2, <1>3 DEF CompletePeer, TypeOK, ControlInv, StateInv, StateAt
  <1>9. OwnInv'
    BY <1>1, <1>2, <1>3 DEF CompletePeer, TypeOK, ControlInv, OwnInv
  <1>10. PlaceInv'
    BY <1>1, <1>2, <1>3 DEF CompletePeer, TypeOK, ControlInv, PlaceInv, Held
  <1>11. WakeInv'
    BY <1>2, <1>3 DEF CompletePeer, WakeInv, TypeOK, ControlInv, Asleep
  <1>12. KnownInv'
    BY <1>1, <1>2, <1>3 DEF CompletePeer, TypeOK, ControlInv, KnownInv,
       Destroyed, Held, Asleep
  <1>13. RunningCount'
    BY CountKept DEF Counted, TypeOK, ControlInv, CompletePeer
  <1> QED
    BY <1>4, <1>5, <1>6, <1>7, <1>8, <1>9, <1>10, <1>11, <1>12, <1>13

(* The peer is looked up: the invariant is kept. *)
LEMMA EnqueueFindStep ==
    ASSUME SchedulerInv, ~Crashed, NEW w \in Workers, EnqueueFind(w)
    PROVE  SchedulerInv'
  <1>1. \A t : Queued(t)' <=> Queued(t)
    BY DEF Queued, EnqueueFind
  <1>2. \A t \in VmThreads : Asleep(t)' <=> Asleep(t)
    BY DEF EnqueueFind, Asleep, TypeOK
  <1>3. ~Destroyed => enq[w] \in all
    BY DEF EnqueueFind, WakeInv, KnownInv, TypeOK, ControlInv, Asleep, Held
  <1>4. TypeOK'
    BY <1>1, <1>2, <1>3 DEF EnqueueFind, TypeOK, WorkerPoints
  <1>5. LockInv'
    BY <1>1, <1>2, <1>3 DEF EnqueueFind, TypeOK, LockInv
  <1>6. StartInv'
    BY <1>1, <1>2, <1>3 DEF EnqueueFind, StartInv
  <1>7. ControlInv'
    BY <1>1, <1>2, <1>3 DEF EnqueueFind, TypeOK, ControlInv
  <1>8. StateInv'
    BY <1>1, <1>2, <1>3 DEF EnqueueFind, TypeOK, ControlInv, StateInv, StateAt
  <1>9. OwnInv'
    BY <1>1, <1>2, <1>3 DEF EnqueueFind, TypeOK, ControlInv, OwnInv
  <1>10. PlaceInv'
    BY <1>1, <1>2, <1>3 DEF EnqueueFind, TypeOK, ControlInv, PlaceInv, Held
  <1>11. WakeInv'
    <2>1. /\ UNCHANGED <<vmstate, waiting>>
          /\ \A v \in Workers : v # w => wpc'[v] = wpc[v] /\ enq'[v] = enq[v]
          /\ wpc[w] = "find" /\ enq'[w] \in {enq[w], None}
          /\ (wpc'[w] = "deref" /\ enq'[w] = enq[w]) \/ wpc'[w] = "run"
      BY DEF EnqueueFind, TypeOK
    <2> QED
      BY <1>2, <2>1 DEF WakeInv, TypeOK, ControlInv
  <1>12. KnownInv'
    BY <1>1, <1>2, <1>3 DEF EnqueueFind, TypeOK, ControlInv, KnownInv,
       Destroyed, Held, Asleep
  <1>13. RunningCount'
    BY CountKept DEF Counted, TypeOK, ControlInv, EnqueueFind
  <1> QED
    BY <1>4, <1>5, <1>6, <1>7, <1>8, <1>9, <1>10, <1>11, <1>12, <1>13

(* The iterator is used: the invariant is kept. *)
LEMMA EnqueueDerefStep ==
    ASSUME SchedulerInv, ~Crashed, NEW w \in Workers, EnqueueDeref(w)
    PROVE  SchedulerInv'
  <1>1. \A t : Queued(t)' <=> Queued(t)
    BY DEF Queued, EnqueueDeref
  <1>2. \A t \in VmThreads : Asleep(t)' <=> Asleep(t)
    BY DEF EnqueueDeref, Asleep, TypeOK
  <1>3. ~Destroyed => enq[w] \in all
    BY DEF EnqueueDeref, WakeInv, KnownInv, TypeOK, ControlInv, Asleep, Held
  <1>4. TypeOK'
    BY <1>1, <1>2, <1>3 DEF EnqueueDeref, TypeOK, WorkerPoints
  <1>5. LockInv'
    BY <1>1, <1>2, <1>3 DEF EnqueueDeref, TypeOK, LockInv
  <1>6. StartInv'
    BY <1>1, <1>2, <1>3 DEF EnqueueDeref, StartInv
  <1>7. ControlInv'
    BY <1>1, <1>2, <1>3 DEF EnqueueDeref, TypeOK, ControlInv
  <1>8. StateInv'
    BY <1>1, <1>2, <1>3 DEF EnqueueDeref, TypeOK, ControlInv, StateInv, StateAt
  <1>9. OwnInv'
    BY <1>1, <1>2, <1>3 DEF EnqueueDeref, TypeOK, ControlInv, OwnInv
  <1>10. PlaceInv'
    BY <1>1, <1>2, <1>3 DEF EnqueueDeref, TypeOK, ControlInv, PlaceInv, Held
  <1>11. WakeInv'
    BY <1>1, <1>2, <1>3 DEF EnqueueDeref, TypeOK, ControlInv, StateInv, WakeInv,
       StateAt, Asleep
  <1>12. KnownInv'
    BY <1>1, <1>2, <1>3 DEF EnqueueDeref, TypeOK, ControlInv, KnownInv,
       Destroyed, Held, Asleep
  <1>13. RunningCount'
    BY CountKept DEF Counted, TypeOK, ControlInv, EnqueueDeref
  <1> QED
    BY <1>4, <1>5, <1>6, <1>7, <1>8, <1>9, <1>10, <1>11, <1>12, <1>13

(* The peer moves from the blocked set to the run queue: the invariant is kept. *)
LEMMA EnqueueLockedStep ==
    ASSUME SchedulerInv, ~Crashed, NEW w \in Workers, EnqueueLocked(w)
    PROVE  SchedulerInv'
  <1>1. enq[w] \in VmThreads /\ enq[w] \in blocked
    BY DEF EnqueueLocked, TypeOK, ControlInv, WakeInv, Asleep, OwnInv
  <1>2. /\ runnable' \in Seq(VmThreads)
        /\ \A t : Queued(t)' <=> Queued(t) \/ t = enq[w]
    BY <1>1, AppendQueues DEF EnqueueLocked
  <1>3. \A j, k \in 1 .. Len(runnable') : runnable'[j] = runnable'[k] => j = k
    BY <1>1, AppendDistinct DEF EnqueueLocked, PlaceInv
  <1>4. /\ UNCHANGED <<all, cur, enq, vmstate, waiting, mpc>> /\ blocked' = blocked \ {enq[w]}
        /\ owner[enq[w]] = None /\ owner'[enq[w]] = w
        /\ \A t \in VmThreads : t # enq[w] => owner'[t] = owner[t]
        /\ wpc[w] = "enqueue" /\ wpc'[w] = "enqueued" /\ lock' = lock
        /\ \A v \in Workers : v # w => wpc'[v] = wpc[v]
    BY <1>1 DEF EnqueueLocked, TypeOK
  <1>5. \A v \in Workers : Held(v) => cur[v] # enq[w]
    BY <1>1 DEF PlaceInv
  <1>6. \A t \in VmThreads : Asleep(t)' <=> Asleep(t) /\ t # enq[w]
    BY <1>1, <1>4, <1>5 DEF Asleep, Held, ControlInv
  <1>7. \A v \in Workers : Held(v)' <=> Held(v)
    BY <1>4 DEF Held
  <1>8. TypeOK'
    BY <1>1, <1>2, <1>3, <1>4, <1>5, <1>6, <1>7 DEF EnqueueLocked, TypeOK,
       WorkerPoints
  <1>9. LockInv'
    BY <1>1, <1>2, <1>3, <1>4, <1>5, <1>6, <1>7 DEF EnqueueLocked, TypeOK, LockInv
  <1>10. StartInv'
    BY <1>1, <1>2, <1>3, <1>4, <1>5, <1>6, <1>7 DEF EnqueueLocked, StartInv
  <1>11. ControlInv'
    BY <1>1, <1>2, <1>3, <1>4, <1>5, <1>6, <1>7 DEF EnqueueLocked, TypeOK,
       ControlInv
  <1>12. StateInv'
    BY <1>1, <1>2, <1>3, <1>4, <1>5, <1>6, <1>7 DEF EnqueueLocked, TypeOK,
       ControlInv, StateInv, StateAt
  <1>13. OwnInv'
    BY <1>1, <1>4 DEF OwnInv, TypeOK, ControlInv
  <1>14. PlaceInv'
    BY <1>1, <1>2, <1>3, <1>4, <1>5, <1>7 DEF PlaceInv, TypeOK
  <1>15. WakeInv'
    BY <1>1, <1>4, <1>6 DEF WakeInv, TypeOK, ControlInv, Asleep
  <1>16. KnownInv'
    BY <1>1, <1>2, <1>4, <1>6, <1>7 DEF KnownInv, TypeOK, ControlInv, Destroyed,
       WakeInv
  <1>17. RunningCount'
    BY <1>1, CountKept DEF Counted, TypeOK, ControlInv, EnqueueLocked
  <1> QED
    BY <1>8, <1>9, <1>10, <1>11, <1>12, <1>13, <1>14, <1>15, <1>16, <1>17

(* The peer's ownership is released: the invariant is kept. *)
LEMMA EnqueueReleaseStep ==
    ASSUME SchedulerInv, ~Crashed, NEW w \in Workers, EnqueueRelease(w)
    PROVE  SchedulerInv'
  <1>1. \A t : Queued(t)' <=> Queued(t)
    BY DEF Queued, EnqueueRelease
  <1>2. enq[w] \in VmThreads /\ owner[enq[w]] = w /\ cur[w] # enq[w]
    BY DEF EnqueueRelease, TypeOK, ControlInv, OwnInv, WakeInv, StateInv, StateAt
  <1>3. TypeOK'
    BY <1>1, <1>2 DEF EnqueueRelease, TypeOK, WorkerPoints
  <1>4. LockInv'
    BY <1>1, <1>2 DEF EnqueueRelease, TypeOK, LockInv
  <1>5. StartInv'
    BY <1>1, <1>2 DEF EnqueueRelease, StartInv
  <1>6. ControlInv'
    BY <1>1, <1>2 DEF EnqueueRelease, TypeOK, ControlInv
  <1>7. StateInv'
    BY <1>1, <1>2 DEF EnqueueRelease, TypeOK, ControlInv, StateInv, StateAt
  <1>8. OwnInv'
    BY <1>1, <1>2 DEF EnqueueRelease, TypeOK, ControlInv, OwnInv
  <1>9. PlaceInv'
    BY <1>1, <1>2 DEF EnqueueRelease, TypeOK, ControlInv, PlaceInv, Held
  <1>10. WakeInv'
    BY <1>1, <1>2 DEF EnqueueRelease, TypeOK, ControlInv, StateInv, WakeInv,
       StateAt, Asleep
  <1>11. KnownInv'
    BY <1>1, <1>2 DEF EnqueueRelease, TypeOK, ControlInv, KnownInv, Destroyed,
       Held, Asleep
  <1>12. RunningCount'
    BY CountKept DEF Counted, TypeOK, ControlInv, EnqueueRelease
  <1> QED
    BY <1>3, <1>4, <1>5, <1>6, <1>7, <1>8, <1>9, <1>10, <1>11, <1>12

(* A ready thread goes back to the run queue: the invariant is kept. *)
LEMMA ReturnReadyStep ==
    ASSUME SchedulerInv, ~Crashed, NEW w \in Workers, ReturnReady(w)
    PROVE  SchedulerInv'
  <1>1. /\ cur[w] \in VmThreads /\ cur[w] \notin blocked /\ ~Queued(cur[w])
        /\ \A v \in Workers : v # w => cur[v] # cur[w]
    BY Alone DEF ReturnReady
  <1>2. /\ runnable' \in Seq(VmThreads)
        /\ \A t : Queued(t)' <=> Queued(t) \/ t = cur[w]
    BY <1>1, AppendQueues DEF ReturnReady
  <1>3. \A j, k \in 1 .. Len(runnable') : runnable'[j] = runnable'[k] => j = k
    BY <1>1, AppendDistinct DEF ReturnReady
  <1>4. running' \in Nat /\ RunningCount'
    BY CountDown DEF Counted, TypeOK, ControlInv, ReturnReady
  <1>5. TypeOK'
    BY <1>1, <1>2, <1>3, <1>4 DEF ReturnReady, TypeOK, WorkerPoints
  <1>6. LockInv'
    BY <1>1, <1>2, <1>3, <1>4 DEF ReturnReady, TypeOK, LockInv
  <1>7. StartInv'
    BY <1>1, <1>2, <1>3, <1>4 DEF ReturnReady, StartInv
  <1>8. ControlInv'
    BY <1>1, <1>2, <1>3, <1>4 DEF ReturnReady, TypeOK, ControlInv
  <1>9. StateInv'
    BY <1>1, <1>2, <1>3, <1>4 DEF ReturnReady, TypeOK, ControlInv, StateInv,
       StateAt
  <1>10. OwnInv'
    BY <1>1, <1>2, <1>3, <1>4 DEF ReturnReady, TypeOK, ControlInv, OwnInv
  <1>11. PlaceInv'
    BY <1>1, <1>2, <1>3, <1>4 DEF ReturnReady, TypeOK, ControlInv, PlaceInv, Held
  <1>12. WakeInv'
    BY <1>1, <1>2, <1>3, <1>4 DEF ReturnReady, TypeOK, ControlInv, StateInv,
       WakeInv, StateAt, Asleep
  <1>13. KnownInv'
    BY <1>1, <1>2, <1>3, <1>4 DEF ReturnReady, TypeOK, ControlInv, KnownInv,
       Destroyed, Held, Asleep
  <1>14. RunningCount'
    BY <1>4
  <1> QED
    BY <1>5, <1>6, <1>7, <1>8, <1>9, <1>10, <1>11, <1>12, <1>13, <1>14

(* A blocked thread goes to the blocked set: the invariant is kept. *)
LEMMA ReturnBlockedStep ==
    ASSUME SchedulerInv, ~Crashed, NEW w \in Workers, ReturnBlocked(w)
    PROVE  SchedulerInv'
  <1>1. /\ cur[w] \in VmThreads /\ cur[w] \notin blocked /\ ~Queued(cur[w])
        /\ \A v \in Workers : v # w => cur[v] # cur[w]
    BY Alone DEF ReturnBlocked
  <1>2. \A t : Queued(t)' <=> Queued(t)
    BY DEF Queued, ReturnBlocked
  <1>3. running' \in Nat /\ RunningCount'
    BY CountDown DEF Counted, TypeOK, ControlInv, ReturnBlocked
  <1>4. TypeOK'
    BY <1>1, <1>2, <1>3 DEF ReturnBlocked, TypeOK, WorkerPoints
  <1>5. LockInv'
    BY <1>1, <1>2, <1>3 DEF ReturnBlocked, TypeOK, LockInv
  <1>6. StartInv'
    BY <1>1, <1>2, <1>3 DEF ReturnBlocked, StartInv
  <1>7. ControlInv'
    BY <1>1, <1>2, <1>3 DEF ReturnBlocked, TypeOK, ControlInv
  <1>8. StateInv'
    BY <1>1, <1>2, <1>3 DEF ReturnBlocked, TypeOK, ControlInv, StateInv, StateAt
  <1>9. OwnInv'
    BY <1>1, <1>2, <1>3 DEF ReturnBlocked, TypeOK, ControlInv, OwnInv
  <1>10. PlaceInv'
    BY <1>1, <1>2, <1>3 DEF ReturnBlocked, TypeOK, ControlInv, PlaceInv, Held
  <1>11. WakeInv'
    BY <1>1, <1>2, <1>3 DEF ReturnBlocked, TypeOK, ControlInv, StateInv,
       WakeInv, StateAt, Asleep
  <1>12. KnownInv'
    BY <1>1, <1>2, <1>3 DEF ReturnBlocked, TypeOK, ControlInv, KnownInv,
       Destroyed, Held, Asleep
  <1>13. RunningCount'
    BY <1>3
  <1> QED
    BY <1>4, <1>5, <1>6, <1>7, <1>8, <1>9, <1>10, <1>11, <1>12, <1>13

(* An exiting thread leaves the scheduler: the invariant is kept. *)
LEMMA ReturnExitingStep ==
    ASSUME SchedulerInv, ~Crashed, NEW w \in Workers, ReturnExiting(w)
    PROVE  SchedulerInv'
  <1>1. /\ cur[w] \in VmThreads /\ cur[w] \notin blocked /\ ~Queued(cur[w])
        /\ \A v \in Workers : v # w => cur[v] # cur[w]
    BY Alone DEF ReturnExiting
  <1>2. \A t : Queued(t)' <=> Queued(t)
    BY DEF Queued, ReturnExiting
  <1>3. running' \in Nat /\ RunningCount'
    <2>1. w \in Counted
      BY DEF ReturnExiting, ControlInv, Counted
    <2>2. CASE cur[w] \in all
      BY <2>1, <2>2, CountDown DEF Counted, TypeOK, ReturnExiting
    <2>3. CASE cur[w] \notin all
      BY <2>1, <2>3, CountPositive DEF RunningCount, Crashed, ReturnExiting,
         TypeOK
    <2> QED
      BY <2>2, <2>3
  <1>4. TypeOK'
    BY <1>1, <1>2, <1>3 DEF ReturnExiting, TypeOK, WorkerPoints
  <1>5. LockInv'
    BY <1>1, <1>2, <1>3 DEF ReturnExiting, TypeOK, LockInv
  <1>6. StartInv'
    BY <1>1, <1>2, <1>3 DEF ReturnExiting, StartInv
  <1>7. ControlInv'
    BY <1>1, <1>2, <1>3 DEF ReturnExiting, TypeOK, ControlInv
  <1>8. StateInv'
    BY <1>1, <1>2, <1>3 DEF ReturnExiting, TypeOK, ControlInv, StateInv, StateAt
  <1>9. OwnInv'
    BY <1>1, <1>2, <1>3 DEF ReturnExiting, TypeOK, ControlInv, OwnInv
  <1>10. PlaceInv'
    BY <1>1, <1>2, <1>3 DEF ReturnExiting, TypeOK, ControlInv, PlaceInv, Held
  <1>11. WakeInv'
    BY <1>1, <1>2, <1>3 DEF ReturnExiting, TypeOK, ControlInv, StateInv,
       WakeInv, StateAt, Asleep
  <1>12. KnownInv'
    BY <1>1, <1>2, <1>3 DEF ReturnExiting, TypeOK, ControlInv, KnownInv,
       Destroyed, Held, Asleep
  <1>13. RunningCount'
    BY <1>3
  <1> QED
    BY <1>4, <1>5, <1>6, <1>7, <1>8, <1>9, <1>10, <1>11, <1>12, <1>13

(* A broken thread is dropped: the invariant is kept. *)
LEMMA ReturnBrokenStep ==
    ASSUME SchedulerInv, ~Crashed, NEW w \in Workers, ReturnBroken(w)
    PROVE  SchedulerInv'
  <1>1. /\ cur[w] \in VmThreads /\ cur[w] \notin blocked /\ ~Queued(cur[w])
        /\ \A v \in Workers : v # w => cur[v] # cur[w]
    BY Alone DEF ReturnBroken
  <1>2. \A t : Queued(t)' <=> Queued(t)
    BY DEF Queued, ReturnBroken
  <1>3. running' \in Nat /\ RunningCount'
    BY CountDown DEF Counted, TypeOK, ControlInv, ReturnBroken
  <1>4. TypeOK'
    BY <1>1, <1>2, <1>3 DEF ReturnBroken, TypeOK, WorkerPoints
  <1>5. LockInv'
    BY <1>1, <1>2, <1>3 DEF ReturnBroken, TypeOK, LockInv
  <1>6. StartInv'
    BY <1>1, <1>2, <1>3 DEF ReturnBroken, StartInv
  <1>7. ControlInv'
    BY <1>1, <1>2, <1>3 DEF ReturnBroken, TypeOK, ControlInv
  <1>8. StateInv'
    BY <1>1, <1>2, <1>3 DEF ReturnBroken, TypeOK, ControlInv, StateInv, StateAt
  <1>9. OwnInv'
    BY <1>1, <1>2, <1>3 DEF ReturnBroken, TypeOK, ControlInv, OwnInv
  <1>10. PlaceInv'
    BY <1>1, <1>2, <1>3 DEF ReturnBroken, TypeOK, ControlInv, PlaceInv, Held
  <1>11. WakeInv'
    BY <1>1, <1>2, <1>3 DEF ReturnBroken, TypeOK, ControlInv, StateInv, WakeInv,
       StateAt, Asleep
  <1>12. KnownInv'
    BY <1>1, <1>2, <1>3 DEF ReturnBroken, TypeOK, ControlInv, KnownInv,
       Destroyed, Held, Asleep
  <1>13. RunningCount'
    BY <1>3
  <1> QED
    BY <1>4, <1>5, <1>6, <1>7, <1>8, <1>9, <1>10, <1>11, <1>12, <1>13

(* The worker lets go of its thread: the invariant is kept. *)
LEMMA ReleaseOwnershipStep ==
    ASSUME SchedulerInv, ~Crashed, NEW w \in Workers, ReleaseOwnership(w)
    PROVE  SchedulerInv'
  <1>1. cur[w] \in VmThreads
    BY DEF ReleaseOwnership, TypeOK, ControlInv
  <1>2. \A t : Queued(t)' <=> Queued(t)
    BY DEF Queued, ReleaseOwnership
  <1>3. TypeOK'
    BY <1>1, <1>2 DEF ReleaseOwnership, TypeOK, WorkerPoints
  <1>4. LockInv'
    BY <1>1, <1>2 DEF ReleaseOwnership, TypeOK, LockInv
  <1>5. StartInv'
    BY <1>1, <1>2 DEF ReleaseOwnership, StartInv
  <1>6. ControlInv'
    BY <1>1, <1>2 DEF ReleaseOwnership, TypeOK, ControlInv
  <1>7. StateInv'
    BY <1>1, <1>2 DEF ReleaseOwnership, TypeOK, ControlInv, StateInv, StateAt
  <1>8. OwnInv'
    BY <1>1, <1>2 DEF ReleaseOwnership, TypeOK, ControlInv, OwnInv
  <1>9. PlaceInv'
    BY <1>1, <1>2 DEF ReleaseOwnership, TypeOK, ControlInv, PlaceInv, Held
  <1>10. WakeInv'
    BY <1>1, <1>2 DEF ReleaseOwnership, TypeOK, ControlInv, StateInv, WakeInv,
       StateAt, Asleep
  <1>11. KnownInv'
    BY <1>1, <1>2 DEF ReleaseOwnership, TypeOK, ControlInv, KnownInv, Destroyed,
       Held, Asleep
  <1>12. RunningCount'
    BY CountKept DEF Counted, TypeOK, ControlInv, ReleaseOwnership
  <1> QED
    BY <1>3, <1>4, <1>5, <1>6, <1>7, <1>8, <1>9, <1>10, <1>11, <1>12

(* The embedding program schedules the entry thread: the invariant is kept. *)
LEMMA ScheduleEntryStep ==
    ASSUME SchedulerInv, ~Crashed, ScheduleEntry
    PROVE  SchedulerInv'
  <1>1. \A t : ~Queued(t)
    BY DEF ScheduleEntry, StartInv, Queued
  <1>2. /\ runnable' \in Seq(VmThreads)
        /\ \A t : Queued(t)' <=> Queued(t) \/ t = Entry
    BY EntryAssumption, AppendQueues DEF ScheduleEntry, StartInv
  <1>3. /\ lock = None /\ \A v \in Workers : wpc[v] = "off" /\ cur[v] = None /\ enq[v] = None
        /\ \A t \in VmThreads : owner[t] = None /\ ~waiting[t] /\ vmstate[t] = "new"
        /\ blocked = {} /\ all = {}
    <2>1. /\ \A v \in Workers : wpc[v] = "off"
          /\ \A t \in VmThreads : vmstate[t] = "new"
          /\ blocked = {} /\ all = {}
      BY DEF ScheduleEntry, StartInv
    <2>2. \A v \in Workers : cur[v] = None /\ enq[v] = None
      BY <2>1 DEF ControlInv
    <2>3. lock = None
      BY <2>1 DEF LockInv, TypeOK
    <2>4. \A t \in VmThreads : owner[t] = None /\ ~waiting[t]
      BY <2>1, <2>2 DEF OwnInv, WakeInv, Asleep, TypeOK
    <2> QED
      BY <2>1, <2>2, <2>3, <2>4
  <1>4. /\ UNCHANGED <<lock, owner, blocked, cur, enq, waiting>> /\ mpc' = "scheduled"
        /\ all' = {Entry} /\ runnable' = <<Entry>>
        /\ \A v \in Workers : wpc'[v] = "next"
        /\ vmstate'[Entry] = "ready" /\ \A t \in VmThreads : t # Entry => vmstate'[t] = "new"
    BY EntryAssumption, <1>3 DEF ScheduleEntry, TypeOK
  <1>5. TypeOK'
    BY <1>1, <1>2, <1>3, <1>4 DEF ScheduleEntry, TypeOK, WorkerPoints
  <1>6. LockInv'
    BY <1>1, <1>2, <1>3, <1>4 DEF LockInv
  <1>7. StartInv'
    BY <1>1, <1>2, <1>3, <1>4 DEF StartInv
  <1>8. ControlInv'
    BY <1>1, <1>2, <1>3, <1>4 DEF ControlInv
  <1>9. StateInv'
    BY <1>1, <1>2, <1>3, <1>4 DEF StateInv
  <1>10. OwnInv'
    BY <1>1, <1>2, <1>3, <1>4 DEF OwnInv
  <1>11. PlaceInv'
    BY <1>1, <1>2, <1>3, <1>4 DEF PlaceInv, Held
  <1>12. WakeInv'
    BY <1>1, <1>2, <1>3, <1>4 DEF WakeInv, Asleep
  <1>13. KnownInv'
    BY <1>1, <1>2, <1>3, <1>4 DEF KnownInv, Held, Asleep, Destroyed
  <1>14. RunningCount'
    BY CountKept DEF Counted, TypeOK, ControlInv, ScheduleEntry, StartInv
  <1> QED
    BY <1>5, <1>6, <1>7, <1>8, <1>9, <1>10, <1>11, <1>12, <1>13, <1>14

(* The destructor clears the threads: the invariant is kept. *)
LEMMA DestroyClearStep ==
    ASSUME SchedulerInv, ~Crashed, DestroyClear
    PROVE  SchedulerInv'
  <1>1. runnable' \in Seq(VmThreads) /\ \A t : ~Queued(t)'
    BY DEF DestroyClear, Queued
  <1>2. TypeOK'
    BY <1>1 DEF DestroyClear, TypeOK, WorkerPoints
  <1>3. LockInv'
    BY <1>1 DEF DestroyClear, TypeOK, LockInv
  <1>4. StartInv'
    BY <1>1 DEF DestroyClear, StartInv
  <1>5. ControlInv'
    BY <1>1 DEF DestroyClear, TypeOK, ControlInv
  <1>6. StateInv'
    BY <1>1 DEF DestroyClear, TypeOK, ControlInv, StateInv, StateAt
  <1>7. OwnInv'
    BY <1>1 DEF DestroyClear, TypeOK, ControlInv, OwnInv
  <1>8. PlaceInv'
    BY <1>1 DEF DestroyClear, TypeOK, ControlInv, PlaceInv, Held
  <1>9. WakeInv'
    BY <1>1 DEF DestroyClear, TypeOK, ControlInv, StateInv, WakeInv, StateAt,
       Asleep
  <1>10. KnownInv'
    BY <1>1 DEF DestroyClear, TypeOK, ControlInv, KnownInv, Destroyed, Held,
       Asleep
  <1>11. RunningCount'
    BY CountKept DEF Counted, TypeOK, ControlInv, DestroyClear
  <1> QED
    BY <1>2, <1>3, <1>4, <1>5, <1>6, <1>7, <1>8, <1>9, <1>10, <1>11


-----------------------------------------------------------------------------
(* Steps that only move workers, one by one *)

(* QuietStep for one worker and those it notifies. *)
LEMMA MovesQuietly ==
    ASSUME SchedulerInv, ~Crashed, NEW w \in Workers, NEW l, Moves(w, l),
           wpc[w] # "off", Alike(wpc[w], l),
           UNCHANGED <<owner, runnable, blocked, all, running, cur, enq, vmstate,
                       waiting, mpc>>
    PROVE  RestInv'
  <1>1. \A v \in Workers : wpc'[v] = wpc[v] \/ Alike(wpc[v], wpc'[v])
    BY DEF Moves, Alike, Free
  <1>2. mpc # "start"
    BY DEF StartInv
  <1> QED
    BY <1>1, <1>2, QuietStep DEF Moves, Destroyed

(* Taking the lock keeps the invariant. *)
LEMMA TakeLockStep ==
    ASSUME SchedulerInv, ~Crashed, NEW w \in Workers, TakeLock(w)
    PROVE  SchedulerInv'
  <1>1. Moves(w, "gc") \/ Moves(w, "select")
    BY GotoMoves DEF TakeLock, WorkerPoints
  <1>2. RestInv'
    BY <1>1, MovesQuietly DEF TakeLock, Alike, Free
  <1>3. TypeOK'
    BY <1>1 DEF TakeLock, TypeOK, Moves
  <1>4. LockInv'
    BY <1>1 DEF TakeLock, TypeOK, Moves, LockInv
  <1> QED
    BY <1>2, <1>3, <1>4 DEF RestInv

(* The collection keeps the invariant. *)
LEMMA CollectStep ==
    ASSUME SchedulerInv, ~Crashed, NEW w \in Workers, Collect(w)
    PROVE  SchedulerInv'
  <1>1. Moves(w, "select")
    BY SMT DEF Collect, Moves, TypeOK, WorkerPoints
  <1>2. RestInv'
    BY <1>1, MovesQuietly DEF Collect, Alike, Free
  <1>3. TypeOK'
    BY <1>1 DEF Collect, TypeOK, Moves
  <1>4. LockInv'
    BY <1>1 DEF Collect, TypeOK, Moves, LockInv
  <1> QED
    BY <1>2, <1>3, <1>4 DEF RestInv

(* Waiting for the collection keeps the invariant. *)
LEMMA AwaitGcStep ==
    ASSUME SchedulerInv, ~Crashed, NEW w \in Workers, AwaitGc(w)
    PROVE  SchedulerInv'
  <1>1. Moves(w, "gcCheck")
    BY GotoMoves DEF AwaitGc, WorkerPoints
  <1>2. RestInv'
    BY <1>1, MovesQuietly DEF AwaitGc, Alike, Free
  <1>3. TypeOK'
    BY <1>1 DEF AwaitGc, TypeOK, Moves
  <1>4. LockInv'
    BY <1>1 DEF AwaitGc, TypeOK, Moves, LockInv
  <1> QED
    BY <1>2, <1>3, <1>4 DEF RestInv

(* The test of _gc_complete keeps the invariant. *)
LEMMA GcTestStep ==
    ASSUME SchedulerInv, ~Crashed, NEW w \in Workers, GcTest(w)
    PROVE  SchedulerInv'
  <1>1. Moves(w, "gcDone") \/ Moves(w, "gcSleepy")
    BY GotoMoves DEF GcTest, WorkerPoints
  <1>2. RestInv'
    BY <1>1, MovesQuietly DEF GcTest, Alike, Free
  <1>3. TypeOK'
    BY <1>1 DEF GcTest, TypeOK, Moves
  <1>4. LockInv'
    BY <1>1 DEF GcTest, TypeOK, Moves, LockInv
  <1> QED
    BY <1>2, <1>3, <1>4 DEF RestInv

(* Sleeping on _gc_done_event keeps the invariant. *)
LEMMA GcSleepStep ==
    ASSUME SchedulerInv, ~Crashed, NEW w \in Workers, GcSleep(w)
    PROVE  SchedulerInv'
  <1>1. Moves(w, "gcSleep")
    BY GotoMoves DEF GcSleep, WorkerPoints
  <1>2. RestInv'
    BY <1>1, MovesQuietly DEF GcSleep, Alike, Free
  <1>3. TypeOK'
    BY <1>1 DEF GcSleep, TypeOK, Moves
  <1>4. LockInv'
    BY <1>1 DEF GcSleep, TypeOK, Moves, LockInv
  <1> QED
    BY <1>2, <1>3, <1>4 DEF RestInv

(* Taking the lock again keeps the invariant. *)
LEMMA GcRelockStep ==
    ASSUME SchedulerInv, ~Crashed, NEW w \in Workers, GcRelock(w)
    PROVE  SchedulerInv'
  <1>1. Moves(w, "select")
    BY GotoMoves DEF GcRelock, WorkerPoints
  <1>2. RestInv'
    BY <1>1, MovesQuietly DEF GcRelock, Alike, Free
  <1>3. TypeOK'
    BY <1>1 DEF GcRelock, TypeOK, Moves
  <1>4. LockInv'
    BY <1>1 DEF GcRelock, TypeOK, Moves, LockInv
  <1> QED
    BY <1>2, <1>3, <1>4 DEF RestInv

(* Finding nothing to run keeps the invariant. *)
LEMMA SelectNothingStep ==
    ASSUME SchedulerInv, ~Crashed, NEW w \in Workers, SelectNothing(w)
    PROVE  SchedulerInv'
  <1>1. Moves(w, "done") \/ Moves(w, "sleepy")
    BY GotoMoves DEF SelectNothing, WorkerPoints
  <1>2. RestInv'
    BY <1>1, MovesQuietly DEF SelectNothing, Alike, Free
  <1>3. TypeOK'
    BY <1>1 DEF SelectNothing, TypeOK, Moves
  <1>4. LockInv'
    BY <1>1 DEF SelectNothing, TypeOK, Moves, LockInv
  <1> QED
    BY <1>2, <1>3, <1>4 DEF RestInv

(* Sleeping on _worker_event keeps the invariant. *)
LEMMA SleepStep ==
    ASSUME SchedulerInv, ~Crashed, NEW w \in Workers, Sleep(w)
    PROVE  SchedulerInv'
  <1>1. Moves(w, "wait")
    BY GotoMoves DEF Sleep, WorkerPoints
  <1>2. RestInv'
    BY <1>1, MovesQuietly DEF Sleep, Alike, Free
  <1>3. TypeOK'
    BY <1>1 DEF Sleep, TypeOK, Moves
  <1>4. LockInv'
    BY <1>1 DEF Sleep, TypeOK, Moves, LockInv
  <1> QED
    BY <1>2, <1>3, <1>4 DEF RestInv

(* Waking up keeps the invariant. *)
LEMMA WokenStep ==
    ASSUME SchedulerInv, ~Crashed, NEW w \in Workers, Woken(w)
    PROVE  SchedulerInv'
  <1>1. Moves(w, "done") \/ Moves(w, "next")
    BY GotoMoves DEF Woken, WorkerPoints
  <1>2. RestInv'
    BY <1>1, MovesQuietly DEF Woken, Alike, Free
  <1>3. TypeOK'
    BY <1>1 DEF Woken, TypeOK, Moves
  <1>4. LockInv'
    BY <1>1 DEF Woken, TypeOK, Moves, LockInv
  <1> QED
    BY <1>2, <1>3, <1>4 DEF RestInv

(* The notification after a fork keeps the invariant. *)
LEMMA ForkNotifyStep ==
    ASSUME SchedulerInv, ~Crashed, NEW w \in Workers, ForkNotify(w)
    PROVE  SchedulerInv'
  <1>1. Moves(w, "run")
    BY NotifyMoves DEF ForkNotify, WorkerPoints
  <1>2. RestInv'
    BY <1>1, MovesQuietly DEF ForkNotify, Alike, Free
  <1>3. TypeOK'
    BY <1>1 DEF ForkNotify, TypeOK, Moves
  <1>4. LockInv'
    BY <1>1 DEF ForkNotify, TypeOK, Moves, LockInv
  <1> QED
    BY <1>2, <1>3, <1>4 DEF RestInv

(* The notification after a wakeup keeps the invariant. *)
LEMMA EnqueueNotifyStep ==
    ASSUME SchedulerInv, ~Crashed, NEW w \in Workers, EnqueueNotify(w)
    PROVE  SchedulerInv'
  <1>1. Moves(w, "release_peer")
    BY NotifyMoves DEF EnqueueNotify, WorkerPoints
  <1>2. RestInv'
    BY <1>1, MovesQuietly DEF EnqueueNotify, Alike, Free
  <1>3. TypeOK'
    BY <1>1 DEF EnqueueNotify, TypeOK, Moves
  <1>4. LockInv'
    BY <1>1 DEF EnqueueNotify, TypeOK, Moves, LockInv
  <1> QED
    BY <1>2, <1>3, <1>4 DEF RestInv

(* The notification after a yield keeps the invariant. *)
LEMMA ReturnNotifyStep ==
    ASSUME SchedulerInv, ~Crashed, NEW w \in Workers, ReturnNotify(w)
    PROVE  SchedulerInv'
  <1>1. Moves(w, "release")
    BY NotifyMoves DEF ReturnNotify, WorkerPoints
  <1>2. RestInv'
    BY <1>1, MovesQuietly DEF ReturnNotify, Alike, Free
  <1>3. TypeOK'
    BY <1>1 DEF ReturnNotify, TypeOK, Moves
  <1>4. LockInv'
    BY <1>1 DEF ReturnNotify, TypeOK, Moves, LockInv
  <1> QED
    BY <1>2, <1>3, <1>4 DEF RestInv

(* An exception that leaves execute keeps the invariant. *)
LEMMA ExceptionStep ==
    ASSUME SchedulerInv, ~Crashed, NEW w \in Workers, Exception(w)
    PROVE  SchedulerInv'
  <1>1. Moves(w, "catch")
    BY GotoMoves DEF Exception, WorkerPoints
  <1>2. RestInv'
    BY <1>1, MovesQuietly DEF Exception, Alike, Free
  <1>3. TypeOK'
    BY <1>1 DEF Exception, TypeOK, Moves
  <1>4. LockInv'
    BY <1>1 DEF Exception, TypeOK, Moves, LockInv
  <1> QED
    BY <1>2, <1>3, <1>4 DEF RestInv

(* A handler of worker_main keeps the invariant. *)
LEMMA CatchStep ==
    ASSUME SchedulerInv, ~Crashed, NEW w \in Workers, Catch(w)
    PROVE  SchedulerInv'
  <1>1. Moves(w, "caught")
    BY GotoMoves DEF Catch, WorkerPoints
  <1>2. RestInv'
    BY <1>1, MovesQuietly DEF Catch, Alike, Free
  <1>3. TypeOK'
    BY <1>1 DEF Catch, TypeOK, Moves
  <1>4. LockInv'
    BY <1>1 DEF Catch, TypeOK, Moves, LockInv
  <1> QED
    BY <1>2, <1>3, <1>4 DEF RestInv

(* The notification of a handler of worker_main keeps the invariant. *)
LEMMA CatchNotifyStep ==
    ASSUME SchedulerInv, ~Crashed, NEW w \in Workers, CatchNotify(w)
    PROVE  SchedulerInv'
  <1>1. Moves(w, "done")
    BY WakeAllMoves DEF CatchNotify, WorkerPoints
  <1>2. RestInv'
    BY <1>1, MovesQuietly DEF CatchNotify, Alike, Free
  <1>3. TypeOK'
    BY <1>1 DEF CatchNotify, TypeOK, Moves
  <1>4. LockInv'
    BY <1>1 DEF CatchNotify, TypeOK, Moves, LockInv
  <1> QED
    BY <1>2, <1>3, <1>4 DEF RestInv

(* The steps of the embedding program that leave the VM threads alone. *)
LEMMA MainQuietStep ==
    ASSUME SchedulerInv, ~Crashed, ScheduleNotify \/ SeeIdle \/ DestroyNotify \/
           DestroyJoin
    PROVE  SchedulerInv'
  <1>1. /\ UNCHANGED <<lock, owner, runnable, blocked, all, running, gcVars, terminating,
                      cur, enq, vmstate, waiting>>
        /\ mpc' \in {"polling", "destroy", "join", "done"}
        /\ mpc # "start" /\ (Destroyed' <=> Destroyed)
    BY DEF ScheduleNotify, SeeIdle, DestroyNotify, DestroyJoin, Destroyed
  <1>2. /\ wpc' \in [Workers -> WorkerPoints]
        /\ \A v \in Workers : wpc'[v] = wpc[v] \/ (wpc[v] = "wait" /\ wpc'[v] = "woken")
    <2>1. CASE ScheduleNotify
      <3>1. CASE Sleeping = {}
        BY <2>1, <3>1 DEF ScheduleNotify, TypeOK
      <3>2. CASE Sleeping # {}
        <4>1. PICK s \in Sleeping : wpc' = [wpc EXCEPT ![s] = "woken"]
          BY <2>1, <3>2 DEF ScheduleNotify
        <4> QED
          BY <4>1 DEF Sleeping, TypeOK, WorkerPoints
      <3> QED
        BY <3>1, <3>2
    <2>2. CASE DestroyNotify
      BY <2>2 DEF DestroyNotify, WakeAll, TypeOK, WorkerPoints
    <2>3. CASE SeeIdle \/ DestroyJoin
      BY <2>3 DEF SeeIdle, DestroyJoin, TypeOK
    <2> QED
      BY <2>1, <2>2, <2>3
  <1>3. RestInv'
    <2>1. \A v \in Workers : wpc'[v] = wpc[v] \/ Alike(wpc[v], wpc'[v])
      BY <1>2 DEF Alike, Free
    <2> QED
      BY <1>1, <1>2, <2>1, QuietStep
  <1>4. TypeOK'
    BY <1>1, <1>2 DEF TypeOK
  <1>5. LockInv'
    BY <1>1, <1>2 DEF LockInv
  <1> QED
    BY <1>3, <1>4, <1>5 DEF RestInv

(* Every step keeps the invariant. *)
LEMMA NextStep ==
    ASSUME SchedulerInv, Next
    PROVE  SchedulerInv'
  <1> USE DEF Next
  <1>1. CASE MainStep
    BY <1>1, ScheduleEntryStep, DestroyClearStep, MainQuietStep DEF MainStep
  <1>2. ASSUME NEW w \in Workers, WorkerStep(w) PROVE SchedulerInv'
    BY <1>2, TakeLockStep, CollectStep, AwaitGcStep, GcTestStep, GcSleepStep,
       GcRelockStep, SelectStep, TakeOwnershipStep, SelectNothingStep, SleepStep,
       WokenStep, ForkNotifyStep, EnqueueFindStep, EnqueueDerefStep,
       EnqueueLockedStep, EnqueueNotifyStep, EnqueueReleaseStep, ReturnReadyStep,
       ReturnBlockedStep, ReturnExitingStep, ReturnBrokenStep, ReturnNotifyStep,
       ReleaseOwnershipStep, CatchStep, CatchNotifyStep DEF WorkerStep
  <1>3. ASSUME NEW w \in Workers, LeaveQuantum(w) PROVE SchedulerInv'
    BY <1>3, YieldStep, BlockStep, ExitStep, BrokenStep, ExceptionStep DEF
       LeaveQuantum
  <1>4. ASSUME NEW w \in Workers, Calls(w) PROVE SchedulerInv'
    BY <1>4, ForkStep, CompletePeerStep DEF Calls
  <1> QED
    BY <1>1, <1>2, <1>3, <1>4

(* The invariant holds at the start. *)
LEMMA InitInv ==
    ASSUME Init
    PROVE  SchedulerInv
  <1>1. \A t : ~Queued(t)
    BY DEF Init, Queued
  <1>2. TypeOK
    <2>1. 1 % GcPeriod \in 0 .. GcPeriod - 1
      BY GcPeriodAssumption
    <2>2. gcCounter \in 0 .. GcPeriod - 1
      BY <2>1 DEF Init
    <2>3. "off" \in WorkerPoints
      BY DEF WorkerPoints
    <2>4. runnable \in Seq(VmThreads) /\ running \in Nat
      BY DEF Init
    <2> QED
      BY <2>2, <2>3, <2>4 DEF Init, TypeOK
  <1>3. RunningCount
    <2>1. {v \in Workers : cur[v] # None /\ wpc[v] \notin GivingUp} = {}
      BY DEF Init
    <2> QED
      BY <2>1, FS_EmptySet DEF RunningCount, Init
  <1>4. LockInv /\ StartInv /\ ControlInv
    BY DEF Init, LockInv, StartInv, ControlInv
  <1>5. StateInv /\ OwnInv /\ PlaceInv
    BY <1>1 DEF Init, StateInv, OwnInv, PlaceInv, Held
  <1>6. WakeInv /\ KnownInv
    BY <1>1 DEF Init, WakeInv, KnownInv, Held, Asleep
  <1> QED
    BY <1>2, <1>3, <1>4, <1>5, <1>6

(* SchedulerInv is an invariant of the scheduler. *)
THEOREM SchedulerInvariant == Spec => []SchedulerInv
  <1>1. SchedulerInv /\ [Next]_vars => SchedulerInv'
    <2>1. SchedulerInv /\ UNCHANGED vars => SchedulerInv'
      BY DEF vars, TypeOK, LockInv, StartInv, ControlInv, StateInv, StateAt,
         OwnInv,
             PlaceInv, WakeInv, KnownInv, RunningCount, Queued, Held, Asleep,
             Destroyed, Crashed
    <2> QED
      BY <2>1, NextStep
  <1> QED
    BY <1>1, InitInv, PTL DEF Spec

-----------------------------------------------------------------------------
(* What the invariant says of the properties *)

(* A thread is executed by one worker, which owns it.                      *)
THEOREM ThreadExecutedOnce == Spec => []ExclusiveExecution
  <1>1. SchedulerInv => ExclusiveExecution
    <2> SUFFICES ASSUME SchedulerInv, NEW w \in Workers,
                        wpc[w] \in (Executing \ {"own"}) \cup GivingUp
                 PROVE  /\ owner[cur[w]] = w
                        /\ \A v \in Workers \ {w} : cur[v] = cur[w] => wpc[v] = "own"
      BY DEF ExclusiveExecution
    <2>1. cur[w] # None
      BY DEF ControlInv
    <2> QED
      BY <2>1 DEF OwnInv
  <1> QED
    BY <1>1, SchedulerInvariant, PTL

(* No thread is in two places. *)
LEMMA AtMostOnePlace ==
    ASSUME SchedulerInv, NEW t \in VmThreads, NEW p \in Places(t), NEW q \in
           Places(t)
    PROVE  p = q
  <1> DEFINE InQueue(x) == \E k \in 1 .. Len(runnable) : x = <<"runnable", k>> /\ runnable[k] = t
             InSet(x)   == x = <<"blocked", t>> /\ t \in blocked
             With(x)    == \E v \in Workers : x = <<"executed", v>> /\ Held(v) /\ cur[v] = t
  <1>1. ASSUME NEW x \in Places(t) PROVE InQueue(x) \/ InSet(x) \/ With(x)
    BY <1>1 DEF Places, Held
  <1>2. \A x : InQueue(x) => Queued(t)
    BY DEF Queued
  <1>3. \A x : With(x) => ~Queued(t) /\ t \notin blocked
    BY DEF PlaceInv
  <1>4. Queued(t) => t \notin blocked
    BY DEF PlaceInv
  <1>5. InQueue(p) /\ InQueue(q) => p = q
    BY DEF PlaceInv
  <1>6. With(p) /\ With(q) => p = q
    BY DEF PlaceInv
  <1>7. (InQueue(p) \/ InSet(p) \/ With(p)) /\ (InQueue(q) \/ InSet(q) \/ With(q))
    BY <1>1
  <1>8. InSet(p) /\ InSet(q) => p = q
    OBVIOUS
  <1>9. \A x : InSet(x) => t \in blocked
    OBVIOUS
  <1> HIDE DEF InQueue, InSet, With
  <1> QED
    BY <1>2, <1>3, <1>4, <1>5, <1>6, <1>7, <1>8, <1>9

(* A thread is in a place when it is queued, blocked or executed. *)
LEMMA SomePlace ==
    ASSUME NEW t \in VmThreads
    PROVE  Places(t) # {} <=> \/ Queued(t) \/ t \in blocked
                              \/ \E w \in Workers : /\ cur[w] = t
                                                    /\ wpc[w] \notin GivingUp \cup {"crashed"}
  <1>1. ASSUME NEW p \in Places(t)
        PROVE  \/ Queued(t) \/ t \in blocked
               \/ \E w \in Workers : /\ cur[w] = t
                                     /\ wpc[w] \notin GivingUp \cup {"crashed"}
    BY DEF Places, Queued
  <1>2. \A k \in 1 .. Len(runnable) : runnable[k] = t => <<"runnable", k>> \in Places(t)
    BY DEF Places
  <1>3. t \in blocked => <<"blocked", t>> \in Places(t)
    BY DEF Places
  <1>4. \A w \in Workers : cur[w] = t /\ wpc[w] \notin GivingUp \cup {"crashed"} =>
            <<"executed", w>> \in Places(t)
    BY DEF Places
  <1> QED
    BY <1>1, <1>2, <1>3, <1>4 DEF Queued

(* Until the scheduler is destroyed every thread is in exactly one place:  *)
(* the run queue, the blocked set or a worker that executes it.            *)
THEOREM EveryThreadInOnePlace == Spec => []PlacesSound
  <1>1. SchedulerInv => PlacesSound
    <2> SUFFICES ASSUME SchedulerInv, ~Destroyed, NEW t \in VmThreads
                 PROVE  /\ t \in all /\ vmstate[t] # "broken" => Cardinality(Places(t)) = 1
                        /\ Cardinality(Places(t)) <= 1
                        /\ t \notin all => Places(t) = {}
      BY DEF PlacesSound, OnePlace
    <2>1. Places(t) = {} \/ \E p : Places(t) = {p}
      BY AtMostOnePlace
    <2>2. Places(t) = {} => Cardinality(Places(t)) = 0
      BY FS_EmptySet
    <2>3. \A p : Places(t) = {p} => Cardinality(Places(t)) = 1
      BY FS_Singleton
    <2>4. t \in all /\ vmstate[t] # "broken" => Places(t) # {}
      BY SomePlace DEF KnownInv, Held
    <2>5. t \notin all => Places(t) = {}
      BY SomePlace DEF KnownInv, Held, TypeOK
    <2> QED
      BY <2>1, <2>2, <2>3, <2>4, <2>5
  <1> QED
    BY <1>1, SchedulerInvariant, PTL

(* _running_vm_thread_count is exact in every state. *)
THEOREM RunningCountExact == Spec => []RunningCount
  <1>1. SchedulerInv => RunningCount
    OBVIOUS
  <1> QED
    BY <1>1, SchedulerInvariant, PTL

(* The peer that enqueue_blocked_thread wakes is in the blocked set, as    *)
(* the assertion there demands.                                            *)
THEOREM WokenThreadWasBlocked == Spec => []WakesBlockedThread
  <1>1. SchedulerInv => WakesBlockedThread
    BY DEF WakesBlockedThread, WakeInv, Asleep, OwnInv, TypeOK, ControlInv
  <1> QED
    BY <1>1, SchedulerInvariant, PTL

(* Whoever owns the thread that next_thread waits for, with                *)
(* _vm_threads_lock held, is past needing that lock.                       *)
THEOREM NoOwnershipDeadlock == Spec => []OwnershipSoonFree
  <1>1. SchedulerInv => OwnershipSoonFree
    <2> SUFFICES ASSUME SchedulerInv, NEW w \in Workers, wpc[w] = "own",
                        owner[cur[w]] # None
                 PROVE  wpc[owner[cur[w]]] \in {"enqueued", "release_peer", "notify", "release"}
      BY DEF OwnershipSoonFree
    <2> DEFINE t == cur[w]  v == owner[t]
    <2>1. t \in VmThreads /\ v \in Workers /\ vmstate[t] \in {"ready", "blocked"}
      BY DEF TypeOK, ControlInv, StateInv, StateAt
    <2>2. (cur[v] = t /\ wpc[v] # "own") \/ wpc[v] \in Woke
      BY <2>1 DEF OwnInv
    <2>3. CASE cur[v] = t /\ wpc[v] # "own"
      <3>1. ~Held(v)
        BY <2>1, <2>3 DEF PlaceInv, Held
      <3>2. wpc[v] \in GivingUp \cup {"crashed"}
        BY <2>1, <2>3, <3>1 DEF Held
      <3> QED
        BY <2>1, <2>3, <3>2 DEF StateInv, StateAt
    <2> QED
      BY <2>2, <2>3
  <1> QED
    BY <1>1, SchedulerInvariant, PTL

(* A reported deadlock is one: no thread of the blocked set is about to be *)
(* woken.                                                                  *)
THEOREM DeadlockReportsSound == Spec => []DeadlockReportSound
  <1>1. SchedulerInv => DeadlockReportSound
    <2> SUFFICES ASSUME SchedulerInv, ~Destroyed, blocked = all, NEW t \in all, ~waiting[t]
                 PROVE  FALSE
      BY DEF DeadlockReportSound
    <2>1. t \in VmThreads /\ Asleep(t)
      BY DEF TypeOK, StateInv, Asleep
    <2>2. PICK w \in Workers : wpc[w] \in Waking
      BY <2>1 DEF KnownInv
    <2>3. Held(w)
      BY <2>2 DEF Held, ControlInv
    <2> QED
      BY <2>3 DEF KnownInv, PlaceInv
  <1> QED
    BY <1>1, SchedulerInvariant, PTL

(* A worker leaves "gc" for "select" only in Collect, which tests the      *)
(* count.                                                                  *)
LEMMA CollectOnly ==
    ASSUME SchedulerInv, Next, NEW w \in Workers, wpc[w] = "gc", wpc'[w] =
           "select"
    PROVE  running = 0
  <1>1. CASE MainStep
    BY <1>1 DEF MainStep, ScheduleEntry, StartInv, ScheduleNotify, Sleeping,
       SeeIdle,
                DestroyClear, DestroyNotify, WakeAll, DestroyJoin, TypeOK
  <1>2. ASSUME NEW u \in Workers, WorkerStep(u) PROVE running = 0
    <2>1. CASE \/ TakeLock(u) \/ AwaitGc(u) \/ GcTest(u) \/ GcSleep(u) \/ GcRelock(u)
               \/ SelectNothing(u) \/ Sleep(u) \/ Woken(u)
      BY <2>1 DEF TakeLock, AwaitGc, GcTest, GcSleep, GcRelock, SelectNothing,
         Sleep,
                  Woken, TypeOK
    <2>2. CASE ForkNotify(u) \/ EnqueueNotify(u) \/ ReturnNotify(u) \/ CatchNotify(u)
      BY <2>2 DEF ForkNotify, EnqueueNotify, ReturnNotify, CatchNotify, WakeAll,
                  NotifyOne, Sleeping, TypeOK
    <2>3. CASE \/ Select(u) \/ TakeOwnership(u) \/ EnqueueFind(u) \/ EnqueueDeref(u)
               \/ EnqueueLocked(u) \/ EnqueueRelease(u)
      BY <2>3 DEF Select, TakeOwnership, EnqueueFind, EnqueueDeref, EnqueueLocked,
                  EnqueueRelease, TypeOK
    <2>4. CASE \/ ReturnReady(u) \/ ReturnBlocked(u) \/ ReturnExiting(u)
               \/ ReturnBroken(u) \/ ReleaseOwnership(u) \/ Catch(u)
      BY <2>4 DEF ReturnReady, ReturnBlocked, ReturnExiting, ReturnBroken,
                  ReleaseOwnership, Catch, TypeOK
    <2>5. CASE Collect(u)
      BY <2>5 DEF Collect
    <2> QED
      BY <1>2, <2>1, <2>2, <2>3, <2>4, <2>5 DEF WorkerStep
  <1>3. ASSUME NEW u \in Workers, LeaveQuantum(u) PROVE running = 0
    BY <1>3 DEF LeaveQuantum, Yield, Block, Exit, Broken, EndQuantum, Exception,
       TypeOK
  <1>4. ASSUME NEW u \in Workers, Calls(u) PROVE running = 0
    BY <1>4 DEF Calls, Fork, CompletePeer, TypeOK
  <1> QED
    BY <1>1, <1>2, <1>3, <1>4 DEF Next

(* A collection happens only while no worker is inside a quantum.          *)
THEOREM CollectionExclusive == Spec => GcExclusive
  <1>1. SchedulerInv /\ [Next]_vars =>
          [\A w \in Workers : wpc[w] = "gc" /\ wpc'[w] = "select" =>
             \A v \in Workers : wpc[v] \notin Executing]_vars
    <2> SUFFICES ASSUME SchedulerInv, Next, NEW w \in Workers,
                        wpc[w] = "gc", wpc'[w] = "select",
                        NEW v \in Workers, wpc[v] \in Executing
                 PROVE  FALSE
      OBVIOUS
    <2>1. v \in Counted /\ ~Crashed
      BY DEF Counted, ControlInv, Next
    <2>2. running - 1 \in Nat
      BY <2>1, CountPositive
    <2> QED
      BY <2>2, CollectOnly
  <1> QED
    BY <1>1, SchedulerInvariant, PTL DEF GcExclusive, Spec

=============================================================================
