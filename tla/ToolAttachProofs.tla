-------------------------- MODULE ToolAttachProofs --------------------------
(***************************************************************************)
(* Proofs about module ToolAttach: any number of threads are attached to   *)
(* and detached from the tools, where the VM is one of the two kinds that  *)
(* Calm names.                                                             *)
(***************************************************************************)
EXTENDS ToolAttach, TLAPS

(* No thread forks, and no tool is loaded after the last one was unloaded; *)
(* or a tool is there from the start and stays, and threads fork.          *)
Calm ==
    /\ AttachAssumption
    /\ \/ Forkers = {} /\ (MaxLoads <= 1 \/ MaxUnloads = 0)
       \/ Preloaded /\ MaxUnloads = 0

-----------------------------------------------------------------------------
LEMMA AttachStarts ==
    ASSUME Calm, Init
    PROVE  AttachInv
  <1>1. TypeOK
    BY DEF Calm, AttachAssumption, Init, TypeOK
  <1>2. TargetInv
    BY DEF Calm, AttachAssumption, Init, TargetInv
  <1>3. SetInv
    BY DEF Calm, AttachAssumption, Init, SetInv, Registered
  <1>4. ForkInv
    BY DEF Calm, AttachAssumption, Init, ForkInv
  <1>5. LoopMatchesDispatch
    BY DEF Init, LoopMatchesDispatch, Owned, Registered
  <1> QED
    BY <1>1, <1>2, <1>3, <1>4, <1>5 DEF AttachInv

(* A load finds the dispatcher with the threads attached, or makes it; a   *)
(* dispatcher without threads is never met again.                          *)
LEMMA LoadFindsTarget ==
    ASSUME Calm, AttachInv, load_tool
    PROVE  /\ created => target
           /\ ~created => ~target /\ Forkers = {}
  <1>1. mainPc = "idle" /\ nextId <= MaxLoads /\ nextId \in Nat /\ unloads \in Nat
    BY DEF load_tool, AttachInv, TypeOK
  <1>2. ASSUME created, ~target
        PROVE  FALSE
    <2>1. unloads > 0 /\ unloads <= MaxUnloads /\ nextId > 1
      BY <1>1, <1>2 DEF AttachInv, TargetInv
    <2>2. MaxUnloads # 0 /\ MaxLoads > 1
      BY <1>1, <2>1 DEF Calm, AttachAssumption
    <2> QED
      BY <2>2 DEF Calm, AttachAssumption
  <1> QED
    BY <1>2 DEF AttachInv, TypeOK, TargetInv, ForkInv

(* What changes neither the states of threads nor what they see.           *)
LEMMA MainKeepsThreads ==
    ASSUME Calm, AttachInv, UNCHANGED threadVars
    PROVE  /\ LoopMatchesDispatch' /\ Registered' = Registered
           /\ (Forkers # {} => created' /\ target' /\ mainPc' \in {"idle", "register"}) => ForkInv'
  <1>1. UNCHANGED <<state, attached, sees, child>>
    BY DEF threadVars
  <1>2. Registered' = Registered /\ Owned' = Owned
    BY <1>1 DEF Registered, Owned
  <1>3. LoopMatchesDispatch'
    BY <1>1, <1>2 DEF AttachInv, LoopMatchesDispatch
  <1>4. (Forkers # {} => created' /\ target' /\ mainPc' \in {"idle", "register"}) => ForkInv'
    BY <1>1 DEF AttachInv, ForkInv
  <1> QED
    BY <1>2, <1>3, <1>4

LEMMA LoadKeeps ==
    ASSUME Calm, AttachInv, load_tool
    PROVE  AttachInv'
  <1>1. /\ mainPc = "idle" /\ created' = TRUE /\ target' = TRUE /\ lock' = Main
        /\ mainPc' = IF created THEN "register" ELSE "scan"
        /\ UNCHANGED <<tools, nextId, toSet, unloads, threadVars>>
    BY DEF load_tool
  <1>2. (created => target) /\ (~created => ~target /\ Forkers = {})
    BY LoadFindsTarget
  <1>3. TypeOK'
    BY <1>1 DEF AttachInv, TypeOK, threadVars
  <1>4. TargetInv'
    BY <1>1 DEF AttachInv, TypeOK, TargetInv
  <1>5. SetInv'
    BY <1>1, <1>2, MainKeepsThreads DEF AttachInv, TypeOK, SetInv, threadVars
  <1>6. ForkInv' /\ LoopMatchesDispatch'
    BY <1>1, <1>2, MainKeepsThreads DEF AttachInv, TypeOK
  <1> QED
    BY <1>3, <1>4, <1>5, <1>6 DEF AttachInv

LEMMA RegisterKeeps ==
    ASSUME Calm, AttachInv, Register
    PROVE  AttachInv'
  <1>1. /\ mainPc = "register" /\ nextId' = nextId + 1 /\ tools' \in {tools \cup {nextId}, tools}
        /\ lock' = Nobody /\ mainPc' = "idle"
        /\ UNCHANGED <<created, target, toSet, unloads, threadVars>>
    BY DEF Register
  <1>2. TypeOK'
    BY <1>1 DEF AttachInv, TypeOK, threadVars
  <1>3. TargetInv'
    <2>1. target /\ nextId + 1 > 1
      BY <1>1 DEF AttachInv, TypeOK, TargetInv
    <2> QED
      BY <1>1, <2>1 DEF AttachInv, TypeOK, TargetInv
  <1>4. SetInv'
    BY <1>1, MainKeepsThreads DEF AttachInv, TypeOK, SetInv, threadVars
  <1>5. ForkInv' /\ LoopMatchesDispatch'
    BY <1>1, MainKeepsThreads DEF AttachInv, ForkInv
  <1> QED
    BY <1>2, <1>3, <1>4, <1>5 DEF AttachInv

LEMMA UnloadKeeps ==
    ASSUME Calm, AttachInv, NEW id, unload_tool(id)
    PROVE  AttachInv'
  <1>1. /\ mainPc = "idle" /\ created /\ unloads < MaxUnloads /\ unloads' = unloads + 1
        /\ tools' = tools \ {id}
        /\ UNCHANGED <<created, nextId, toSet, threadVars>>
    BY DEF unload_tool
  <1>2. \/ tools' = {} /\ lock' = Main /\ target' = FALSE /\ mainPc' = "scan"
        \/ tools' # {} /\ UNCHANGED <<lock, target, mainPc>>
    BY DEF unload_tool
  <1>3. TypeOK'
    <2>1. tools' \subseteq Nat /\ unloads' \in Nat
      <3>1. tools \subseteq Nat /\ unloads \in Nat
        BY DEF AttachInv, TypeOK
      <3>2. tools' = tools \ {id} /\ unloads' = unloads + 1
        BY <1>1
      <3>3. tools' \subseteq Nat
        BY <3>1, <3>2
      <3>4. unloads' \in Nat
        BY <3>1, <3>2
      <3> QED
        BY <3>3, <3>4
    <2>2. target' \in BOOLEAN /\ lock' \in {Nobody, Main}
          /\ mainPc' \in {"idle", "scan", "pass", "register"}
      BY <1>1, <1>2 DEF AttachInv, TypeOK
    <2> QED
      BY <1>1, <2>1, <2>2 DEF AttachInv, TypeOK, threadVars
  <1>4. TargetInv'
    BY <1>1, <1>2 DEF Calm, AttachAssumption, AttachInv, TypeOK, TargetInv
  <1>5. SetInv'
    BY <1>1, <1>2, MainKeepsThreads DEF AttachInv, TypeOK, SetInv, threadVars
  <1>6. Forkers = {}
    BY <1>1 DEF Calm, AttachAssumption, AttachInv, TypeOK
  <1>7. ForkInv' /\ LoopMatchesDispatch'
    BY <1>1, <1>6, MainKeepsThreads
  <1> QED
    BY <1>3, <1>4, <1>5, <1>7 DEF AttachInv

(* A pass sets the threads that no worker owns, of those still to be set.  *)
LEMMA PassKeeps ==
    ASSUME Calm, AttachInv, NEW candidates \in SUBSET Registered, Pass(candidates),
           mainPc \in {"scan", "pass"},
           \A t \in Registered \ candidates : attached[t] = target
    PROVE  AttachInv'
  <1>1. /\ attached' = [t \in Threads |-> IF t \in candidates \ Owned THEN target ELSE attached[t]]
        /\ toSet' = candidates \cap Owned
        /\ mainPc' = IF toSet' = {} THEN AfterSet ELSE "pass"
        /\ lock' = IF mainPc' = "idle" THEN Nobody ELSE lock
        /\ UNCHANGED <<created, tools, nextId, target, unloads, state, sees, child, newPaths>>
    BY DEF Pass
  <1>2. Forkers = {} /\ created
    BY DEF AttachInv, TypeOK, ForkInv, TargetInv
  <1>3. Registered' = Registered /\ Owned' = Owned /\ Owned \subseteq Registered
        /\ Registered \subseteq Threads
    BY <1>1 DEF Registered, Owned
  <1>4. mainPc' \in {"idle", "register", "pass"} /\ (mainPc' = "register" => target)
    BY <1>1 DEF AfterSet
  <1>5. TypeOK'
    <2>1. attached' \in [Threads -> BOOLEAN]
      BY <1>1 DEF AttachInv, TypeOK
    <2>2. toSet' \subseteq Threads /\ lock' \in {Nobody, Main}
      BY <1>1, <1>3 DEF AttachInv, TypeOK
    <2> QED
      BY <1>1, <1>4, <2>1, <2>2 DEF AttachInv, TypeOK
  <1>6. TargetInv'
    <2>1. mainPc' = "idle" => ~target
      BY <1>1 DEF AfterSet
    <2> QED
      BY <1>1, <1>2, <1>4, <2>1 DEF AttachInv, TypeOK, TargetInv
  <1>7. \A t \in Registered \ toSet' : attached'[t] = target
    BY <1>1, <1>3
  <1>8. SetInv'
    BY <1>1, <1>3, <1>4, <1>7 DEF SetInv
  <1>9. ForkInv'
    BY <1>1, <1>2 DEF AttachInv, ForkInv
  <1>10. LoopMatchesDispatch'
    BY <1>1, <1>3 DEF AttachInv, LoopMatchesDispatch
  <1> QED
    BY <1>5, <1>6, <1>8, <1>9, <1>10 DEF AttachInv

-----------------------------------------------------------------------------
(* A worker takes a thread or lets go of it: a thread in hand sees the     *)
(* dispatcher that it has.                                                 *)
LEMMA QuantumKeeps ==
    ASSUME Calm, AttachInv, NEW t \in Threads, Begin(t) \/ EndQuantum(t)
    PROVE  AttachInv'
  <1>1. /\ UNCHANGED <<created, tools, nextId, mainPc, target, toSet, unloads, lock, attached, child,
                       newPaths>>
        /\ state[t] \in {"queued", "running"}
    BY DEF Begin, EndQuantum, mainVars
  <1>2. PICK s \in {"running", "queued", "gone"} : state' = [state EXCEPT ![t] = s]
    BY DEF Begin, EndQuantum
  <1>3. state'[t] = s /\ \A u \in Threads : u # t => state'[u] = state[u]
    BY <1>2 DEF AttachInv, TypeOK
  <1>4. /\ sees' \in [Threads -> BOOLEAN]
        /\ \A u \in Threads : u # t => sees'[u] = sees[u]
        /\ s = "running" => sees'[t] = attached[t]
    <2>1. CASE Begin(t)
      BY <2>1 DEF Begin, AttachInv, TypeOK
    <2>2. CASE EndQuantum(t)
      BY <1>3, <2>2 DEF EndQuantum, AttachInv, TypeOK
    <2> QED
      BY <2>1, <2>2
  <1>5. Registered' \subseteq Registered
    BY <1>1, <1>3 DEF Registered
  <1>6. TypeOK'
    BY <1>1, <1>2, <1>4 DEF AttachInv, TypeOK
  <1>7. TargetInv' /\ SetInv'
    BY <1>1, <1>5 DEF AttachInv, TargetInv, SetInv
  <1>8. ForkInv'
    BY <1>1, <1>3 DEF AttachInv, TypeOK, ForkInv
  <1>9. LoopMatchesDispatch'
    <2> SUFFICES ASSUME NEW u \in Threads, u \in Owned'
                 PROVE  sees'[u] = attached'[u]
      BY DEF LoopMatchesDispatch, Owned, Registered
    <2>1. CASE u = t
      <3>1. s = "running"
        BY <1>3, <2>1 DEF Owned, Registered
      <3> QED
        BY <1>1, <1>4, <2>1, <3>1
    <2>2. CASE u # t
      <3>1. u \in Owned
        BY <1>3, <2>2 DEF Owned, Registered
      <3> QED
        BY <1>1, <1>4, <2>2, <3>1 DEF AttachInv, LoopMatchesDispatch
    <2> QED
      BY <2>1, <2>2
  <1> QED
    BY <1>6, <1>7, <1>8, <1>9 DEF AttachInv

(* A thread that reports a module keeps its quantum.                       *)
LEMMA ModuleKeeps ==
    ASSUME Calm, AttachInv, NEW t \in Threads, load_module(t) \/ Notify(t)
    PROVE  AttachInv' /\ Registered' = Registered
  <1>1. /\ UNCHANGED <<created, tools, nextId, mainPc, target, toSet, unloads, lock, attached, sees,
                       child>>
        /\ state[t] \in {"running", "notify"}
    BY DEF load_module, Notify, mainVars
  <1>2. PICK s \in {"running", "notify"} : state' = [state EXCEPT ![t] = s]
    <2>1. state \in [Threads -> {"none", "queued", "running", "notify", "attach", "schedule", "gone"}]
      BY DEF AttachInv, TypeOK
    <2>2. state = [state EXCEPT ![t] = state[t]]
      BY <2>1
    <2> QED
      BY <1>1, <2>2 DEF load_module, Notify
  <1>3. state'[t] = s /\ \A u \in Threads : u # t => state'[u] = state[u]
    BY <1>2 DEF AttachInv, TypeOK
  <1>4. Registered' = Registered /\ Owned' = Owned
    BY <1>1, <1>3 DEF Registered, Owned
  <1>5. newPaths' \in Nat
    BY DEF load_module, Notify, AttachInv, TypeOK
  <1>6. TypeOK'
    BY <1>1, <1>2, <1>5 DEF AttachInv, TypeOK
  <1>7. TargetInv' /\ SetInv'
    BY <1>1, <1>4 DEF AttachInv, TargetInv, SetInv
  <1>8. ForkInv'
    BY <1>1, <1>3 DEF AttachInv, TypeOK, ForkInv
  <1>9. LoopMatchesDispatch'
    BY <1>1, <1>4 DEF AttachInv, LoopMatchesDispatch
  <1> QED
    BY <1>4, <1>6, <1>7, <1>8, <1>9 DEF AttachInv

(* spawn makes a thread that is nobody's but its parent's.                 *)
LEMMA ForkKeeps ==
    ASSUME Calm, AttachInv, NEW t \in Threads, NEW u \in Threads, fork(t, u)
    PROVE  AttachInv'
  <1>1. /\ state[t] = "running" /\ t \in Forkers /\ state[u] = "none"
        /\ \A x \in Threads : child[x] # u
        /\ child' = [child EXCEPT ![t] = u]
        /\ UNCHANGED <<created, tools, nextId, mainPc, target, toSet, unloads, lock, attached, sees,
                       newPaths>>
    BY DEF fork, mainVars
  <1>2. created
    BY <1>1 DEF AttachInv, ForkInv
  <1>3. state' = [state EXCEPT ![t] = "attach"]
    BY <1>2 DEF fork
  <1>4. /\ child'[t] = u /\ \A x \in Threads : x # t => child'[x] = child[x]
        /\ state'[t] = "attach" /\ \A x \in Threads : x # t => state'[x] = state[x]
    BY <1>1, <1>3 DEF AttachInv, TypeOK
  <1>5. Registered' = Registered /\ Owned' = Owned
    BY <1>1, <1>4 DEF Registered, Owned
  <1>6. TypeOK'
    BY <1>1, <1>3 DEF AttachInv, TypeOK
  <1>7. TargetInv' /\ SetInv'
    BY <1>1, <1>5 DEF AttachInv, TargetInv, SetInv
  <1>8. LoopMatchesDispatch'
    BY <1>1, <1>5 DEF AttachInv, LoopMatchesDispatch
  <1>9. ForkInv'
    <2>1. u # t /\ u # Nobody
      BY <1>1 DEF Calm, AttachAssumption
    <2>2. ASSUME NEW x \in Threads
          PROVE  /\ child'[x] # Nobody => /\ x \in Forkers /\ state'[child'[x]] = "none"
                                       /\ \A y \in Threads : y # x => child'[y] # child'[x]
                 /\ state'[x] \in {"attach", "schedule"} => child'[x] # Nobody
                 /\ state'[x] = "schedule" => attached'[child'[x]]
      <3>1. CASE x = t
        BY <1>1, <1>4, <2>1, <3>1
      <3>2. CASE x # t
        BY <1>1, <1>4, <3>2 DEF AttachInv, TypeOK, ForkInv
      <3> QED
        BY <3>1, <3>2
    <2> QED
      BY <1>1, <2>2 DEF AttachInv, ForkInv
  <1> QED
    BY <1>6, <1>7, <1>8, <1>9 DEF AttachInv

(* The child is attached before anyone else can see it.                    *)
LEMMA AttachForkedKeeps ==
    ASSUME Calm, AttachInv, NEW t \in Threads, AttachForked(t)
    PROVE  AttachInv'
  <1> DEFINE c == child[t]
  <1>1. /\ state[t] = "attach" /\ attached' = [attached EXCEPT ![c] = TRUE]
        /\ state' = [state EXCEPT ![t] = "schedule"]
        /\ UNCHANGED <<created, tools, nextId, mainPc, target, toSet, unloads, lock, sees, child,
                       newPaths>>
    BY DEF AttachForked, mainVars
  <1>2. c \in Threads /\ state[c] = "none" /\ c # t
        /\ \A x \in Threads : x # t => child[x] # c
    BY <1>1 DEF AttachInv, TypeOK, ForkInv
  <1>3. /\ attached'[c] = TRUE /\ \A x \in Threads : x # c => attached'[x] = attached[x]
        /\ state'[t] = "schedule" /\ \A x \in Threads : x # t => state'[x] = state[x]
    BY <1>1, <1>2 DEF AttachInv, TypeOK
  <1> HIDE DEF c
  <1>4. Registered' = Registered /\ Owned' = Owned /\ c \notin Registered
        /\ Owned \subseteq Registered /\ Registered \subseteq Threads
    BY <1>1, <1>2, <1>3 DEF Registered, Owned
  <1>5. TypeOK'
    BY <1>1 DEF AttachInv, TypeOK
  <1>6. TargetInv' /\ SetInv'
    BY <1>1, <1>3, <1>4 DEF AttachInv, TargetInv, SetInv
  <1>7. LoopMatchesDispatch'
    BY <1>1, <1>3, <1>4 DEF AttachInv, LoopMatchesDispatch
  <1>8. ForkInv'
    <2>1. ASSUME NEW x \in Threads
          PROVE  /\ child[x] # Nobody => /\ x \in Forkers /\ state'[child[x]] = "none"
                                      /\ \A y \in Threads : y # x => child[y] # child[x]
                 /\ state'[x] \in {"attach", "schedule"} => child[x] # Nobody
                 /\ state'[x] = "schedule" => attached'[child[x]]
      <3>1. CASE x = t
        BY <1>1, <1>2, <1>3, <3>1 DEF AttachInv, TypeOK, ForkInv, c
      <3>2. CASE x # t
        BY <1>1, <1>2, <1>3, <3>2 DEF AttachInv, TypeOK, ForkInv
      <3> QED
        BY <3>1, <3>2
    <2> QED
      BY <1>1, <2>1 DEF AttachInv, ForkInv
  <1> QED
    BY <1>5, <1>6, <1>7, <1>8 DEF AttachInv

(* A thread that is scheduled has the dispatcher.                          *)
LEMMA ScheduleKeeps ==
    ASSUME Calm, AttachInv, NEW t \in Threads, schedule_thread(t)
    PROVE  AttachInv'
  <1> DEFINE c == child[t]
  <1>1. /\ state[t] = "schedule"
        /\ state' = [state EXCEPT ![t] = "running", ![c] = "queued"]
        /\ child' = [child EXCEPT ![t] = Nobody]
        /\ UNCHANGED <<created, tools, nextId, mainPc, target, toSet, unloads, lock, attached, sees,
                       newPaths>>
    BY DEF schedule_thread, mainVars
  <1>2. c \in Threads /\ state[c] = "none" /\ c # t /\ attached[c] /\ t \in Forkers
        /\ \A x \in Threads : x # t => child[x] # c
    BY <1>1 DEF AttachInv, TypeOK, ForkInv
  <1>3. /\ child'[t] = Nobody /\ \A x \in Threads : x # t => child'[x] = child[x]
        /\ state'[t] = "running" /\ state'[c] = "queued"
        /\ \A x \in Threads : x # t /\ x # c => state'[x] = state[x]
    BY <1>1, <1>2 DEF AttachInv, TypeOK
  <1> HIDE DEF c
  <1>4. Registered' = Registered \cup {c} /\ Owned' = Owned
        /\ Registered \subseteq Threads
    BY <1>1, <1>2, <1>3 DEF Registered, Owned
  <1>5. target /\ mainPc \in {"idle", "register"}
    BY <1>2 DEF AttachInv, ForkInv
  <1>6. TypeOK'
    BY <1>1, <1>2 DEF AttachInv, TypeOK
  <1>7. TargetInv'
    BY <1>1 DEF AttachInv, TargetInv
  <1>8. SetInv'
    <2>1. \A x \in Registered : attached[x] = target
      BY <1>5 DEF AttachInv, SetInv
    <2>2. attached[c] = target
      BY <1>2, <1>5 DEF AttachInv, TypeOK
    <2> QED
      BY <1>1, <1>4, <1>5, <2>1, <2>2 DEF SetInv
  <1>9. LoopMatchesDispatch'
    BY <1>1, <1>4 DEF AttachInv, LoopMatchesDispatch
  <1>10. ForkInv'
    <2>1. ASSUME NEW x \in Threads
          PROVE  /\ child'[x] # Nobody => /\ x \in Forkers /\ state'[child'[x]] = "none"
                                       /\ \A y \in Threads : y # x => child'[y] # child'[x]
                 /\ state'[x] \in {"attach", "schedule"} => child'[x] # Nobody
                 /\ state'[x] = "schedule" => attached[child'[x]]
      <3>1. CASE x = t
        BY <1>3, <3>1
      <3>2. CASE x # t /\ x # c
        BY <1>1, <1>2, <1>3, <3>2 DEF AttachInv, TypeOK, ForkInv
      <3>3. CASE x = c
        BY <1>1, <1>2, <1>3, <3>3 DEF AttachInv, TypeOK, ForkInv
      <3> QED
        BY <3>1, <3>2, <3>3
    <2> QED
      BY <1>1, <1>5, <2>1 DEF AttachInv, ForkInv
  <1> QED
    BY <1>6, <1>7, <1>8, <1>9, <1>10 DEF AttachInv

-----------------------------------------------------------------------------
LEMMA AttachKeeps ==
    ASSUME Calm, AttachInv, [Next]_vars
    PROVE  AttachInv'
  <1>1. CASE UNCHANGED vars
    <2>1. UNCHANGED <<created, tools, nextId, mainPc, target, toSet, unloads, lock,
                      state, attached, sees, child, newPaths>>
      BY <1>1 DEF vars, mainVars, threadVars
    <2>2. Registered' = Registered /\ Owned' = Owned
      BY <2>1 DEF Registered, Owned
    <2> QED
      BY <2>1, <2>2 DEF AttachInv, TypeOK, TargetInv, SetInv, ForkInv, LoopMatchesDispatch
  <1>2. CASE Scan
    BY <1>2, PassKeeps DEF Scan
  <1>3. CASE Retry
    <2>1. \A t \in Registered \ (toSet \cap Registered) : attached[t] = target
      BY <1>3 DEF Retry, AttachInv, SetInv
    <2> QED
      BY <1>3, <2>1, PassKeeps DEF Retry
  <1>4. CASE load_tool \/ Register
    BY <1>4, LoadKeeps, RegisterKeeps
  <1>5. ASSUME NEW id, unload_tool(id)
        PROVE  AttachInv'
    BY <1>5, UnloadKeeps
  <1>6. ASSUME NEW t \in Threads, ThreadStep(t)
        PROVE  AttachInv'
    BY <1>6, QuantumKeeps, ModuleKeeps, ForkKeeps, AttachForkedKeeps, ScheduleKeeps DEF ThreadStep
  <1> QED
    BY <1>1, <1>2, <1>3, <1>4, <1>5, <1>6 DEF Next, MainStep

(* While tools are loaded and unloaded and threads run, load modules and   *)
(* fork, threads have the dispatcher or none has once a call returned, and *)
(* a quantum ends with the dispatcher it began with (vm.cpp load_tool,     *)
(* unload_tool, load_module, schedule_thread; thread.cpp execute).         *)
THEOREM ThreadsFollowTools ==
    ASSUME Calm
    PROVE  Spec => [](AttachedToAll /\ DetachedFromAll /\ LoopMatchesDispatch)
  <1>1. Init => AttachInv
    BY AttachStarts
  <1>2. AttachInv /\ [Next]_vars => AttachInv'
    BY AttachKeeps
  <1>3. AttachInv => AttachedToAll /\ DetachedFromAll /\ LoopMatchesDispatch
    BY DEF AttachInv, TypeOK, TargetInv, SetInv, AttachedToAll, DetachedFromAll
  <1> QED
    BY <1>1, <1>2, <1>3, PTL DEF Spec

(* Where unload_tool is called once at most, main also never sets the      *)
(* dispatcher that a thread already has (the assertion of                  *)
(* vm_thread_t::set_tool_dispatch).  A second unload_tool refutes it.      *)
THEOREM ToolsAlwaysAttached ==
    ASSUME Calm, MaxUnloads <= 1
    PROVE  Spec => []ToolsAttached
  <1>1. Init => AttachInv /\ ToggleInv
    BY AttachStarts DEF Init, ToggleInv
  <1>2. ASSUME AttachInv, ToggleInv, [Next]_vars
        PROVE  ToggleInv'
    <2>1. AttachInv'
      BY <1>2, AttachKeeps
    <2>2. ASSUME UNCHANGED <<mainPc, target, toSet, attached>>, Registered' \subseteq Registered
          PROVE  ToggleInv'
      BY <1>2, <2>2 DEF ToggleInv
    <2>3. CASE UNCHANGED vars
      BY <2>2, <2>3 DEF vars, mainVars, threadVars, Registered
    <2>4. CASE load_tool
      <3>1. mainPc = "idle" /\ UNCHANGED threadVars /\ target' = TRUE
            /\ mainPc' = IF created THEN "register" ELSE "scan"
        BY <2>4 DEF load_tool
      <3>2. (~created => ~target) /\ Registered' = Registered /\ UNCHANGED attached
        BY <1>2, <2>4, <3>1, LoadFindsTarget, MainKeepsThreads DEF threadVars
      <3> QED
        BY <1>2, <3>1, <3>2 DEF AttachInv, SetInv, ToggleInv
    <2>5. CASE Register
      BY <2>5 DEF Register, ToggleInv
    <2>6. ASSUME NEW id, unload_tool(id)
          PROVE  ToggleInv'
      <3>1. /\ mainPc = "idle" /\ created /\ UNCHANGED <<toSet, threadVars>> /\ unloads < MaxUnloads
            /\ (mainPc' = "scan" /\ ~target') \/ UNCHANGED <<target, mainPc>>
        BY <2>6 DEF unload_tool
      <3>2. target = TRUE
        BY <1>2, <3>1 DEF Calm, AttachAssumption, AttachInv, TypeOK, TargetInv
      <3>3. Registered' = Registered /\ UNCHANGED attached
        BY <1>2, <3>1, MainKeepsThreads DEF threadVars
      <3> QED
        BY <1>2, <3>1, <3>2, <3>3 DEF AttachInv, SetInv, ToggleInv
    <2>7. ASSUME NEW candidates, Pass(candidates), candidates \subseteq Registered,
                 \A t \in candidates : attached[t] # target
          PROVE  ToggleInv'
      <3>1. /\ attached' = [t \in Threads |-> IF t \in candidates \ Owned THEN target ELSE attached[t]]
            /\ toSet' = candidates \cap Owned /\ target' = target
            /\ mainPc' = IF toSet' = {} THEN AfterSet ELSE "pass"
            /\ state' = state
        BY <2>7 DEF Pass
      <3>2. mainPc' # "scan" /\ Registered \subseteq Threads
        BY <3>1 DEF AfterSet, Registered
      <3>3. \A t \in toSet' : attached'[t] # target'
        BY <2>7, <3>1, <3>2
      <3> QED
        BY <3>2, <3>3 DEF ToggleInv
    <2>8. CASE Scan \/ Retry
      BY <1>2, <2>7, <2>8 DEF Scan, Retry, ToggleInv
    <2>9. ASSUME NEW t \in Threads, Begin(t) \/ EndQuantum(t) \/ \E u \in Threads : fork(t, u)
          PROVE  ToggleInv'
      <3>1. UNCHANGED <<mainPc, target, toSet, attached>>
        BY <2>9 DEF Begin, EndQuantum, fork, mainVars
      <3>2. Registered' \subseteq Registered
        BY <1>2, <2>9 DEF Begin, EndQuantum, fork, Registered, AttachInv, TypeOK
      <3> QED
        BY <2>2, <3>1, <3>2
    <2>10. ASSUME NEW t \in Threads, AttachForked(t) \/ schedule_thread(t)
           PROVE  ToggleInv'
      <3>1. child[t] # Nobody /\ mainPc' = mainPc
        BY <1>2, <2>10 DEF AttachForked, schedule_thread, mainVars, AttachInv, ForkInv
      <3>2. mainPc' \in {"idle", "register"}
        BY <1>2, <3>1 DEF AttachInv, ForkInv
      <3> QED
        BY <3>2 DEF ToggleInv
    <2>11. ASSUME NEW t \in Threads, load_module(t) \/ Notify(t)
           PROVE  ToggleInv'
      <3>1. UNCHANGED <<mainPc, target, toSet, attached>>
        BY <2>11 DEF load_module, Notify, mainVars
      <3> QED
        BY <1>2, <2>2, <2>11, <3>1, ModuleKeeps
    <2> QED
      BY <1>2, <2>3, <2>4, <2>5, <2>6, <2>8, <2>9, <2>10, <2>11 DEF Next, MainStep, ThreadStep
  <1>3. AttachInv /\ ToggleInv => DispatchToggles
    BY DEF ToggleInv, DispatchToggles
  <1>4. AttachInv => AttachedToAll /\ DetachedFromAll /\ LoopMatchesDispatch
    BY DEF AttachInv, TypeOK, TargetInv, SetInv, AttachedToAll, DetachedFromAll
  <1>5. AttachInv /\ ToggleInv => ToolsAttached
    BY <1>3, <1>4 DEF ToolsAttached
  <1>6. AttachInv /\ ToggleInv /\ [Next]_vars => AttachInv' /\ ToggleInv'
    BY <1>2, AttachKeeps
  <1> QED
    BY <1>1, <1>5, <1>6, PTL DEF Spec
=============================================================================
