---------------------------- MODULE ModuleLoader ----------------------------
(***************************************************************************)
(* Loading of modules: vm_t::load_module and the list of loaded modules    *)
(* (vm.cpp), the registry of built-in modules (builtin_module.cpp), the    *)
(* `load' instruction (execution_table.cpp) and the module reference that  *)
(* it makes (module_ref.cpp).                                              *)
(*                                                                         *)
(* A VM keeps one entry per path with an id and a weak pointer to the      *)
(* module; only running threads and module references keep a module alive, *)
(* except for the built-in ones, which the process keeps and all VMs in it *)
(* share.  _modules_lock makes the search of the list, the reading of the  *)
(* file and the new entry one step; the tools are told after it is         *)
(* released.  What a file holds is not modelled: reading one succeeds or   *)
(* fails.                                                                  *)
(***************************************************************************)
EXTENDS Integers, Sequences, FiniteSets

CONSTANTS Vms,       \* VMs in the process
          Threads,   \* vm threads
          VmOf,      \* the VM of each thread
          Paths,     \* module paths a program may name
          Builtin,   \* the path of the built-in module
          MaxModules \* bound: vm_module_t instances alive at a time

Modules == 1..MaxModules
Nil == 0
BuiltinModule == 1
AllPaths == Paths \cup {Builtin}

LoaderAssumption ==
    /\ VmOf \in [Threads -> Vms]
    /\ Builtin \notin Paths
    /\ MaxModules \in Nat /\ MaxModules >= 1

VARIABLES
    initFlag,   \* builtin_modules_initialized
    registered, \* the built-in module is in builtin_modules
    vmState,    \* each VM: "none", "initializing", "ready"
    entries,    \* _modules of each VM, newest first: [id, path, module]
    vmId,       \* vm_module_t::vm_id of each module, 0 when it has none
    told,       \* how often the tools of each VM heard of each id
    running,    \* the module each thread executes, Nil before exec
    slot,       \* the module reference in the destination of `load'
    at          \* where each thread is in load_module and what it has there

vars == <<initFlag, registered, vmState, entries, vmId, told, running, slot, at>>

At(step, call, path, module, id) ==
    [step |-> step, call |-> call, path |-> path, module |-> module, id |-> id]
Idle == At("idle", "none", Builtin, Nil, 0)
Steps == {"idle", "resolve", "notify", "reference", "broken"}
ModuleIds == 0..Cardinality(AllPaths)

TypeOK ==
    /\ initFlag \in BOOLEAN /\ registered \in BOOLEAN
    /\ vmState \in [Vms -> {"none", "initializing", "ready"}]
    /\ entries \in [Vms -> Seq([id : ModuleIds, path : AllPaths, module : Modules \cup {Nil}])]
    /\ vmId \in [Modules -> ModuleIds]
    /\ told \in [Vms -> [ModuleIds -> 0..2]]
    /\ running \in [Threads -> Modules \cup {Nil}]
    /\ slot \in [Threads -> Modules \cup {Nil}]
    /\ at \in [Threads -> [step : Steps, call : {"none", "exec", "load"},
                           path : AllPaths,
                           module : Modules \cup {Nil}, id : ModuleIds]]

Init ==
    /\ initFlag = FALSE /\ registered = FALSE
    /\ vmState = [v \in Vms |-> "none"]
    /\ entries = [v \in Vms |-> <<>>]
    /\ vmId = [m \in Modules |-> 0]
    /\ told = [v \in Vms |-> [n \in ModuleIds |-> 0]]
    /\ running = [t \in Threads |-> Nil]
    /\ slot = [t \in Threads |-> Nil]
    /\ at = [t \in Threads |-> Idle]

(***************************************************************************)
(* vm_t::vm_t and initialize_builtin_modules: the first VM of the process  *)
(* registers the built-in modules; a later one finds the flag set and goes *)
(* on.                                                                     *)
(***************************************************************************)
CreateVm(v) ==
    /\ vmState[v] = "none"
    /\ initFlag' = TRUE
    /\ vmState' = [vmState EXCEPT ![v] = IF initFlag THEN "ready" ELSE "initializing"]
    /\ UNCHANGED <<registered, entries, vmId, told, running, slot, at>>

register_module_exports(v) ==
    /\ vmState[v] = "initializing"
    /\ registered' = TRUE
    /\ vmState' = [vmState EXCEPT ![v] = "ready"]
    /\ UNCHANGED <<initFlag, entries, vmId, told, running, slot, at>>

-----------------------------------------------------------------------------
(* The modules something keeps alive, and the weak pointers after that.    *)
KeptBy(t) == {running[t], slot[t], at[t].module} \ {Nil}
Alive == {BuiltinModule} \cup UNION {KeptBy(t) : t \in Threads}
AliveNext ==
    {BuiltinModule} \cup UNION {{running'[t], slot'[t], at'[t].module} \ {Nil} : t \in Threads}
ExpireUnused ==
    /\ entries' = [v \in Vms |-> [i \in DOMAIN entries[v] |->
           [entries[v][i] EXCEPT !.module = IF @ \in AliveNext THEN @ ELSE Nil]]]
    /\ vmId' = [m \in Modules |-> IF m \in AliveNext THEN vmId[m] ELSE 0]

EntriesOf(v, path) == {i \in DOMAIN entries[v] : entries[v][i].path = path}

(* The next instance: which of the free ones makes no difference.          *)
NewModules ==
    {m \in Modules \ Alive : \A n \in Modules \ Alive : m <= n}

(* vm_id_next: the newest entry's id plus one.                             *)
NextId(v) == IF entries[v] = <<>> THEN 1 ELSE entries[v][1].id + 1

(* The id is written into the module.                                      *)
Stamp(m, id) == [vmId EXCEPT ![m] = id]

(***************************************************************************)
(* load_module, under _modules_lock.  An entry whose module is alive gives *)
(* that module; an entry whose module is gone is read again and keeps its  *)
(* id, and nobody is told.                                                 *)
(***************************************************************************)
FaultExpired(entry) == TRUE
Expired(entry) == entry.module = Nil

Found(v, t) ==
    \E i \in EntriesOf(v, at[t].path) :
        /\ ~Expired(entries[v][i])
        /\ at' = [at EXCEPT ![t].step = "reference", ![t].module = entries[v][i].module]
        /\ UNCHANGED <<entries, vmId>>

ReloadId(v, i) == entries[v][i].id
ReloadStep == "reference"

Reload(v, t) ==
    \E i \in EntriesOf(v, at[t].path), m \in NewModules :
        /\ Expired(entries[v][i])
        /\ entries' = [entries EXCEPT ![v][i].id = ReloadId(v, i), ![v][i].module = m]
        /\ vmId' = Stamp(m, ReloadId(v, i))
        /\ at' = [at EXCEPT ![t].step = ReloadStep, ![t].module = m,
                            ![t].id = ReloadId(v, i)]

(* A path without an entry: get_builtin_module or resolve_module_from_path,*)
(* then a new entry at the front; the tools are told after the lock.       *)
NewStep == "notify"

NewEntry(v, t) ==
    /\ EntriesOf(v, at[t].path) = {}
    /\ at[t].path = Builtin => registered
    /\ \E m \in IF at[t].path = Builtin THEN {BuiltinModule} ELSE NewModules :
        /\ vmId' = Stamp(m, NextId(v))
        /\ entries' = [entries EXCEPT ![v] =
               <<[id |-> NextId(v), path |-> at[t].path, module |-> m]>> \o @]
        /\ at' = [at EXCEPT ![t].step = NewStep, ![t].module = m, ![t].id = NextId(v)]

load_module(t) ==
    /\ at[t].step = "resolve"
    /\ Found(VmOf[t], t) \/ Reload(VmOf[t], t) \/ NewEntry(VmOf[t], t)
    /\ UNCHANGED <<initFlag, registered, vmState, told, running, slot>>

(***************************************************************************)
(* No file, a malformed file, or an unknown built-in module, where the     *)
(* module has to be read: exec throws to the host; load leaves its         *)
(* destination nil and the thread goes on.                                 *)
(***************************************************************************)
ResolveFails(t) ==
    /\ at[t].step = "resolve"
    /\ \A i \in EntriesOf(VmOf[t], at[t].path) : Expired(entries[VmOf[t]][i])
    /\ at[t].path = Builtin => ~registered
    /\ at' = [at EXCEPT ![t] = Idle]
    /\ UNCHANGED <<initFlag, registered, vmState, entries, vmId, told, running, slot>>

(* vm_t::exec: the host starts a thread in a module.                       *)
exec(t, path) ==
    /\ vmState[VmOf[t]] = "ready" /\ running[t] = Nil /\ at[t] = Idle
    /\ at' = [at EXCEPT ![t] = At("resolve", "exec", path, Nil, 0)]
    /\ UNCHANGED <<initFlag, registered, vmState, entries, vmId, told, running, slot>>

(***************************************************************************)
(* The load instruction: the reference in the destination is released, and *)
(* the weak pointers to a module nobody uses any more expire, before the   *)
(* module is looked for.                                                   *)
(***************************************************************************)
CanLoad(t) == running[t] # Nil /\ at[t] = Idle

load(t, path) ==
    /\ CanLoad(t)
    /\ slot' = [slot EXCEPT ![t] = Nil]
    /\ at' = [at EXCEPT ![t] = At("resolve", "load", path, Nil, 0)]
    /\ UNCHANGED running
    /\ ExpireUnused
    /\ UNCHANGED <<initFlag, registered, vmState, told>>

(* "$self" names the module of the thread and is not looked for.           *)
LoadSelf(t) ==
    /\ CanLoad(t)
    /\ slot' = [slot EXCEPT ![t] = Nil]
    /\ at' = [at EXCEPT ![t] = At("reference", "load", Builtin, running[t], 0)]
    /\ UNCHANGED running
    /\ ExpireUnused
    /\ UNCHANGED <<initFlag, registered, vmState, told>>

(* on_module_vm_load, under _tool_dispatch_lock.  How long the lock is     *)
(* waited for is a question of ToolAttach; here the step may never come.   *)
Notify(t) ==
    /\ at[t].step = "notify"
    /\ told' = [told EXCEPT ![VmOf[t]][at[t].id] = IF @ < 2 THEN @ + 1 ELSE @]
    /\ at' = [at EXCEPT ![t].step = "reference"]
    /\ UNCHANGED <<initFlag, registered, vmState, entries, vmId, running, slot>>

(***************************************************************************)
(* The caller's part.  exec makes a thread in the module; load makes a     *)
(* module reference, in which every imported function is resolved, and     *)
(* fires the module_thread_load event, which changes nothing here.         *)
(***************************************************************************)
StartThread(t) ==
    /\ at[t].step = "reference" /\ at[t].call = "exec"
    /\ running' = [running EXCEPT ![t] = at[t].module]
    /\ at' = [at EXCEPT ![t] = Idle]
    /\ UNCHANGED <<initFlag, registered, vmState, entries, vmId, told, slot>>

ImportModule(t) ==
    /\ at[t].step = "reference" /\ at[t].call = "load"
    /\ slot' = [slot EXCEPT ![t] = at[t].module]
    /\ at' = [at EXCEPT ![t] = Idle]
    /\ UNCHANGED <<initFlag, registered, vmState, entries, vmId, told, running>>

(* resolve_imports finds no export with the signature and name: the thread *)
(* breaks with the destination nil.                                        *)
ImportFails(t) ==
    /\ at[t].step = "reference" /\ at[t].call = "load"
    /\ at' = [at EXCEPT ![t] = [Idle EXCEPT !.step = "broken"]]
    /\ UNCHANGED <<running, slot>>
    /\ ExpireUnused
    /\ UNCHANGED <<initFlag, registered, vmState, told>>

(* A thread that ends gives up its module and its references.              *)
EndThread(t) ==
    /\ running[t] # Nil /\ at[t].step \in {"idle", "broken"}
    /\ running' = [running EXCEPT ![t] = Nil]
    /\ slot' = [slot EXCEPT ![t] = Nil]
    /\ at' = [at EXCEPT ![t] = Idle]
    /\ ExpireUnused
    /\ UNCHANGED <<initFlag, registered, vmState, told>>

ThreadStep(t) ==
    \/ load_module(t) \/ ResolveFails(t)
    \/ Notify(t) \/ StartThread(t) \/ ImportModule(t) \/ ImportFails(t)

Next ==
    \/ \E v \in Vms : CreateVm(v) \/ register_module_exports(v)
    \/ \E t \in Threads :
        \/ \E path \in Paths : exec(t, path)
        \/ \E path \in AllPaths : load(t, path)
        \/ LoadSelf(t) \/ EndThread(t)
        \/ ThreadStep(t)

Spec == Init /\ [][Next]_vars

-----------------------------------------------------------------------------
(* One entry per path, and no two entries of a VM with the same id.        *)
IdsUnique ==
    \A v \in Vms : \A i, j \in DOMAIN entries[v] :
        i # j => /\ entries[v][i].id # entries[v][j].id
                 /\ entries[v][i].path # entries[v][j].path

(* The id of a path is idempotent with respect to the number of times the  *)
(* module is loaded: whatever expires and is read again, a path keeps it.  *)
IdsStable ==
    [][\A v \in Vms : \A i \in DOMAIN entries[v] : \E j \in DOMAIN entries'[v] :
           /\ entries'[v][j].path = entries[v][i].path
           /\ entries'[v][j].id = entries[v][i].id]_vars

(* A module carries the id of its entry: what the debugger looks up by     *)
(* module->vm_id belongs to this module.                                   *)
IdMatches ==
    \A v \in Vms : \A i \in DOMAIN entries[v] :
        entries[v][i].module # Nil => vmId[entries[v][i].module] = entries[v][i].id

(* Threads of a VM that use the same path at the same time use the same    *)
(* module: no module that is still in use is read a second time.           *)
SharedWhileUsed ==
    \A t \in Threads : \A m \in KeptBy(t) :
        \E i \in DOMAIN entries[VmOf[t]] : entries[VmOf[t]][i].module = m

(* The tools hear of an id at most once, however often its module expires  *)
(* and is read again: the debugger asserts "Module VM ID should be unique".*)
ToldOnce == \A v \in Vms : \A n \in ModuleIds : told[v][n] <= 1

(* No new entry is forgotten: the tools heard of it, or the thread that    *)
(* made it is about to tell them, whatever other threads load and drop.    *)
EntryTold ==
    \A v \in Vms : \A i \in DOMAIN entries[v] :
        \/ told[v][entries[v][i].id] > 0
        \/ \E t \in Threads :
               VmOf[t] = v /\ at[t].step = "notify" /\ at[t].id = entries[v][i].id

(* A VM that is constructed can load the built-in modules.                 *)
BuiltinsReady == \A v \in Vms : vmState[v] = "ready" => registered

(* While threads load, share, drop and read modules again, an id names one *)
(* path for ever and the module that is there now, a module in use is not  *)
(* read a second time, tools are told of it at most once and no new one is *)
(* forgotten (vm.cpp load_module, execution_table.cpp load).               *)
LoaderSound ==
    /\ []/\ TypeOK /\ IdsUnique /\ IdMatches /\ SharedWhileUsed /\ ToldOnce /\ EntryTold
    /\ IdsStable

-----------------------------------------------------------------------------
(* The inductive invariant behind LoaderSound where there is one VM.        *)

(* The ids count the entries; each is of another path and another module.  *)
EntriesInv ==
    \A v \in Vms : \A i \in DOMAIN entries[v] :
        /\ entries[v][i].id = Len(entries[v]) - i + 1
        /\ \A j \in DOMAIN entries[v] : i # j =>
              /\ entries[v][i].path # entries[v][j].path
              /\ entries[v][i].module # Nil => entries[v][i].module # entries[v][j].module

(* The weak pointer of an entry is null or to a module that is alive; the  *)
(* built-in module is that of its entry.                                   *)
WeakInv ==
    \A v \in Vms : \A i \in DOMAIN entries[v] :
        /\ entries[v][i].module \in Alive \cup {Nil}
        /\ entries[v][i].path = Builtin <=> entries[v][i].module = BuiltinModule

(* What a call of load_module finds: exec has no thread yet, load has      *)
(* released its destination, and only a call that resolved has a module.   *)
CallInv ==
    \A t \in Threads :
        /\ at[t].step \in {"idle", "resolve", "broken"} => at[t].module = Nil
        /\ at[t].step = "idle" => at[t] = Idle
        /\ at[t].step \in {"resolve", "notify", "reference"} =>
              /\ at[t].call = "exec" => running[t] = Nil
              /\ at[t].call = "load" => slot[t] = Nil

(* Tools hear of entries only, and of each from the thread that made it.   *)
ToldInv ==
    /\ \A v \in Vms : \A n \in ModuleIds : told[v][n] > 0 => n \in 1..Len(entries[v])
    /\ \A t \in Threads : at[t].step = "notify" =>
          /\ at[t].id \in 1..Len(entries[VmOf[t]]) /\ told[VmOf[t]][at[t].id] = 0
          /\ \A u \in Threads : u # t /\ at[u].step = "notify" => at[u].id # at[t].id

LoaderInv ==
    /\ TypeOK /\ EntriesInv /\ WeakInv /\ CallInv /\ ToldInv
    /\ IdMatches /\ SharedWhileUsed /\ ToldOnce /\ EntryTold
=============================================================================
