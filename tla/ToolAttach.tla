----------------------------- MODULE ToolAttach -----------------------------
(***************************************************************************)
(* Loading and unloading tools while VM threads run, load modules and fork *)
(* (src/src/vm/vm.cpp, vm_tool_dispatch_t::load_tool / unload_tool of      *)
(* tool_dispatch.cpp, set_tool_dispatch_on_all_threads of scheduler.cpp).  *)
(*                                                                         *)
(* The embedding program's thread "main" loads and unloads; every VM       *)
(* thread is queued, or owned by the worker that executes a quantum of it. *)
(* _vm_threads_lock is held for one action at a time, _tool_dispatch_lock  *)
(* across actions.  What else load_module does is in ModuleLoader.         *)
(* Definitions marked "Fault:" are not part of the specification.          *)
(***************************************************************************)
EXTENDS Integers, FiniteSets

CONSTANTS
    Threads,    \* VM threads, existing and to be forked
    Initial,    \* the ones that exist at the start
    Forkers,    \* the ones that execute spawn
    Preloaded,  \* a tool was loaded before the first thread
    MaxLoads, MaxUnloads,  \* bounds: calls of load_tool and unload_tool
    NewPaths,   \* bound: modules that threads load for the first time
    Main, Nobody

AttachAssumption ==
    /\ Initial \subseteq Threads /\ Forkers \subseteq Threads
    /\ Main \notin Threads /\ Nobody \notin Threads \cup {Main}
    /\ Preloaded \in BOOLEAN /\ MaxLoads \in Nat /\ MaxUnloads \in Nat /\ NewPaths \in Nat

VARIABLES
    created,    \* _tool_dispatch is not null
    tools,      \* _tools: ids of the loaded tools
    nextId,     \* _tool_id_counter
    lock,       \* holder of _tool_dispatch_lock, or Nobody
    mainPc,     \* control point of main
    target,     \* the value being set on all threads
    toSet,      \* threads_to_set
    state,      \* state of each VM thread
    attached,   \* registers.tool_dispatch # nullptr
    sees,       \* tool_dispatch as read at the start of the quantum
    child,      \* the thread being forked
    newPaths,   \* modules that were not loaded yet
    unloads     \* calls of unload_tool so far

threadVars == <<state, attached, sees, child, newPaths>>
mainVars == <<created, tools, nextId, mainPc, target, toSet, unloads>>
vars == <<lock, mainVars, threadVars>>

Registered ==
    {t \in Threads : state[t] \in {"queued", "running", "notify", "attach", "schedule"}}
Owned == Registered \ {t \in Threads : state[t] = "queued"}

Init ==
    /\ created = Preloaded
    /\ tools = IF Preloaded THEN {1} ELSE {}
    /\ nextId = IF Preloaded THEN 2 ELSE 1
    /\ lock = Nobody /\ mainPc = "idle" /\ target = Preloaded /\ toSet = {} /\ unloads = 0
    /\ state = [t \in Threads |-> IF t \in Initial THEN "queued" ELSE "none"]
    /\ attached = [t \in Threads |-> Preloaded /\ t \in Initial]
    /\ sees = [t \in Threads |-> FALSE]
    /\ child = [t \in Threads |-> Nobody]
    /\ newPaths = NewPaths

-----------------------------------------------------------------------------
(* Main.  load_tool creates the dispatcher once; the tool's on_load may    *)
(* throw, which leaves the dispatcher in place.                            *)
load_tool ==
    /\ mainPc = "idle" /\ lock = Nobody /\ nextId <= MaxLoads
    /\ lock' = Main /\ created' = TRUE
    /\ target' = TRUE
    /\ mainPc' = IF created THEN "register" ELSE "scan"
    /\ UNCHANGED <<tools, nextId, toSet, unloads, threadVars>>

Register ==
    /\ mainPc = "register"
    /\ nextId' = nextId + 1
    /\ \/ tools' = tools \cup {nextId}
       \/ tools' = tools              \* on_load failed
    /\ lock' = Nobody /\ mainPc' = "idle"
    /\ UNCHANGED <<created, target, toSet, unloads, threadVars>>

(* The id may be one that is not loaded (any more). *)
unload_tool(id) ==
    /\ mainPc = "idle" /\ lock = Nobody /\ unloads < MaxUnloads
    /\ created
    /\ unloads' = unloads + 1
    /\ tools' = tools \ {id}
    /\ IF tools' = {} THEN lock' = Main /\ target' = FALSE /\ mainPc' = "scan"
       ELSE UNCHANGED <<lock, target, mainPc>>
    /\ UNCHANGED <<created, nextId, toSet, threadVars>>

(* Where main goes when all threads are set. *)
AfterSet == IF target THEN "register" ELSE "idle"

(* One pass over the candidates: those nobody owns are set. *)
Pass(candidates) ==
    /\ attached' = [t \in Threads |-> IF t \in candidates \ Owned THEN target ELSE attached[t]]
    /\ toSet' = candidates \cap Owned
    /\ mainPc' = IF toSet' = {} THEN AfterSet ELSE "pass"
    /\ lock' = IF mainPc' = "idle" THEN Nobody ELSE lock
    /\ UNCHANGED <<created, tools, nextId, target, unloads, state, sees, child, newPaths>>

(* Fault: owned threads are set as well. *)
ForceScan ==
    /\ mainPc = "scan"
    /\ attached' = [t \in Threads |-> IF t \in Registered THEN target ELSE attached[t]]
    /\ toSet' = {}
    /\ mainPc' = AfterSet
    /\ lock' = IF mainPc' = "idle" THEN Nobody ELSE lock
    /\ UNCHANGED <<created, tools, nextId, target, unloads, state, sees, child, newPaths>>

Scan == mainPc = "scan" /\ Pass(Registered)

(* After a sleep, threads that ended meanwhile are dropped. *)
Retry == mainPc = "pass" /\ Pass(toSet \cap Registered)

-----------------------------------------------------------------------------
(* VM threads. *)

(* A worker takes the thread, and execute reads the dispatcher. *)
Begin(t) ==
    /\ state[t] = "queued"
    /\ state' = [state EXCEPT ![t] = "running"]
    /\ sees' = [sees EXCEPT ![t] = attached[t]]
    /\ UNCHANGED <<lock, mainVars, attached, child, newPaths>>

EndQuantum(t) ==
    /\ state[t] = "running"
    /\ \E s \in {"queued", "gone"} : state' = [state EXCEPT ![t] = s]
    /\ UNCHANGED <<lock, mainVars, attached, sees, child, newPaths>>

(***************************************************************************)
(* load_module: the first load of a path is reported to the tools, by the  *)
(* running thread, under _tool_dispatch_lock; _tool_dispatch is tested     *)
(* before the lock is taken.  Later loads and reloads do not come here.    *)
(***************************************************************************)
load_module(t) ==
    /\ state[t] = "running" /\ newPaths > 0
    /\ newPaths' = newPaths - 1
    /\ state' = IF created THEN [state EXCEPT ![t] = "notify"] ELSE state
    /\ UNCHANGED <<lock, mainVars, attached, sees, child>>

Notify(t) ==
    /\ state[t] = "notify" /\ lock = Nobody
    /\ state' = [state EXCEPT ![t] = "running"]
    /\ UNCHANGED <<lock, mainVars, attached, sees, child, newPaths>>

(* spawn: vm_t::schedule_thread tests _tool_dispatch before the lock. *)
fork(t, u) ==
    /\ state[t] = "running" /\ t \in Forkers
    /\ state[u] = "none" /\ \A x \in Threads : child[x] # u
    /\ child' = [child EXCEPT ![t] = u]
    /\ state' = [state EXCEPT ![t] = IF created THEN "attach" ELSE "schedule"]
    /\ UNCHANGED <<lock, mainVars, attached, sees, newPaths>>

AttachForked(t) ==
    /\ state[t] = "attach" /\ lock = Nobody
    /\ attached' = [attached EXCEPT ![child[t]] = TRUE]
    /\ state' = [state EXCEPT ![t] = "schedule"]
    /\ UNCHANGED <<lock, mainVars, sees, child, newPaths>>

schedule_thread(t) ==
    /\ state[t] = "schedule"
    /\ state' = [state EXCEPT ![t] = "running", ![child[t]] = "queued"]
    /\ child' = [child EXCEPT ![t] = Nobody]
    /\ UNCHANGED <<lock, mainVars, attached, sees, newPaths>>

MainStep == load_tool \/ Register \/ Scan \/ Retry
ThreadStep(t) ==
    \/ Begin(t) \/ EndQuantum(t)
    \/ load_module(t) \/ Notify(t)
    \/ \E u \in Threads : fork(t, u)
    \/ AttachForked(t) \/ schedule_thread(t)

Next ==
    \/ MainStep
    \/ \E id \in 1 .. MaxLoads : unload_tool(id)
    \/ \E t \in Threads : ThreadStep(t)

Spec == Init /\ [][Next]_vars

(* Main goes on; a thread executes, and its quantum is a number of         *)
(* instructions; a mutex that is released again and again is granted some  *)
(* time, to who waits for it (the threads) and to who polls (main).        *)
(* Nothing says that a mutex is released.                                  *)
FairSpec ==
    /\ Spec
    /\ WF_vars(Register) /\ WF_vars(Scan)
    /\ SF_vars(Retry /\ toSet' # toSet)
    /\ \A t \in Threads : SF_vars(ThreadStep(t))

-----------------------------------------------------------------------------
(* Properties *)

(* "Attach to all threads": once a load has attached, every thread that is *)
(* scheduled has the dispatcher while a tool is loaded.                    *)
AttachedToAll ==
    mainPc = "idle" /\ tools # {} => \A t \in Registered : attached[t]

(* "Detach from all threads": without a tool, no thread has the dispatcher.*)
DetachedFromAll ==
    mainPc = "idle" /\ ~target => \A t \in Registered : ~attached[t]

(* The assertions of the interpreter loop with tools: the dispatcher read  *)
(* at the start of the quantum is there until its end.                     *)
LoopMatchesDispatch == \A t \in Owned : sees[t] = attached[t]

(* The assertion "Dispatch value should toggle between null and non-null". *)
DispatchToggles ==
    /\ mainPc = "scan" => \A t \in Registered \ Owned : attached[t] # target
    /\ mainPc = "pass" => \A t \in (toSet \cap Registered) \ Owned : attached[t] # target

(* After load_tool or unload_tool returned, every thread that exists has   *)
(* the dispatcher or none has; a thread keeps the one it saw for its       *)
(* quantum, and main never sets the one it already has (the assertions of  *)
(* thread.cpp execute and set_tool_dispatch).                              *)
ToolsAttached == AttachedToAll /\ DetachedFromAll /\ LoopMatchesDispatch /\ DispatchToggles

(* Main polls for a thread that waits for main: one that loads a module or *)
(* forks while main, with _tool_dispatch_lock, waits for its quantum to    *)
(* end.                                                                    *)
Waits(t) == state[t] \in {"notify", "attach"}
Stuck == mainPc = "pass" /\ \E t \in toSet : Waits(t)

(* Loading and unloading of tools end, and a thread gets the lock to report*)
(* a module or to attach its child; only Stuck can hold them up            *)
(* (set_tool_dispatch_on_all_threads; vm_t::load_module, schedule_thread). *)
LoadProgress == mainPc # "idle" ~> mainPc = "idle" \/ Stuck
LockProgress == \A t \in Threads : Waits(t) ~> ~Waits(t) \/ Stuck

(* "Loop until all threads have been set": loading and unloading end.      *)
LoadReturns == mainPc # "idle" ~> mainPc = "idle"

-----------------------------------------------------------------------------
(* The inductive invariant behind ToolsAttached. *)

TypeOK ==
    /\ created \in BOOLEAN /\ target \in BOOLEAN
    /\ tools \subseteq Nat /\ nextId \in Nat \ {0} /\ unloads \in Nat
    /\ lock \in {Nobody, Main} /\ mainPc \in {"idle", "scan", "pass", "register"}
    /\ toSet \subseteq Threads
    /\ state \in [Threads -> {"none", "queued", "running", "notify", "attach", "schedule", "gone"}]
    /\ attached \in [Threads -> BOOLEAN] /\ sees \in [Threads -> BOOLEAN]
    /\ child \in [Threads -> Threads \cup {Nobody}] /\ newPaths \in Nat

(* The target is TRUE while a tool is loaded or about to be, and FALSE     *)
(* after an unload or before the first load only.                          *)
TargetInv ==
    /\ tools # {} \/ mainPc = "register" => target
    /\ created /\ ~target => unloads > 0
    /\ ~created => ~target /\ mainPc = "idle"
    /\ created /\ (mainPc = "idle" \/ ~target) => nextId > 1
    /\ unloads <= MaxUnloads

(* Threads have the target, except those still to be set.                  *)
SetInv ==
    /\ mainPc \in {"idle", "register"} => \A t \in Registered : attached[t] = target
    /\ mainPc = "pass" => \A t \in Registered \ toSet : attached[t] = target

(* A thread that is being forked is of one parent and is nowhere yet; the  *)
(* dispatcher is there and stays while threads fork.                       *)
ForkInv ==
    /\ Forkers # {} => created /\ target /\ mainPc \in {"idle", "register"}
    /\ \A t \in Threads :
          /\ child[t] # Nobody => /\ t \in Forkers /\ state[child[t]] = "none"
                              /\ \A u \in Threads : u # t => child[u] # child[t]
          /\ state[t] \in {"attach", "schedule"} => child[t] # Nobody
          /\ state[t] = "schedule" => attached[child[t]]

AttachInv == TypeOK /\ TargetInv /\ SetInv /\ ForkInv /\ LoopMatchesDispatch

(* Before it is set a thread has the other value: with one unload_tool.    *)
ToggleInv ==
    /\ mainPc = "scan" => \A t \in Registered : attached[t] # target
    /\ mainPc = "pass" => \A t \in toSet \cap Registered : attached[t] # target
=============================================================================
