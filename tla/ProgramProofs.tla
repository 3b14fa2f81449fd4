------------------------- MODULE ProgramProofs -------------------------
(***************************************************************************)
(* Proofs about what a program works with (MCProgram): modules, loaded by  *)
(* any threads of one VM from finitely many paths, strings, in any finite  *)
(* number of registers, and the frames of a thread, of any sizes.          *)
(***************************************************************************)
EXTENDS MCProgram, FiniteSetTheorems, SequenceTheorems, WellFoundedInduction, TLAPS

(* One VM; with two, the id of the built-in module, which they share, is   *)
(* the one that the last of them gave it.                                  *)
OneVm == \A v, w \in Vms : v = w
Loading == LoaderAssumption /\ OneVm /\ IsFiniteSet(Paths)

(* The entries of a VM. *)
Entries == [id : ModuleIds, path : AllPaths, module : Modules \cup {Nil}]

-----------------------------------------------------------------------------
(* Facts about the operators. *)

(* The constants are what they should be. *)
LEMMA LoaderConstants ==
    ASSUME Loading
    PROVE  /\ IsFiniteSet(AllPaths) /\ Cardinality(AllPaths) \in Nat
           /\ ModuleIds \subseteq Nat /\ 0 \in ModuleIds
           /\ BuiltinModule \in Modules /\ BuiltinModule # Nil /\ Nil \notin Modules
           /\ Builtin \in AllPaths
           /\ \A t \in Threads : VmOf[t] \in Vms
  <1>1. IsFiniteSet(AllPaths)
    BY FS_AddElement DEF Loading, AllPaths
  <1>2. Cardinality(AllPaths) \in Nat
    BY <1>1, FS_CardinalityType
  <1> QED
    BY <1>1, <1>2 DEF Loading, LoaderAssumption, ModuleIds, AllPaths, Modules, BuiltinModule, Nil

(* Entries with different paths leave an id for a path without one. *)
LEMMA RoomForPath ==
    ASSUME Loading, NEW q \in Seq(Entries), NEW p \in AllPaths,
           \A i \in DOMAIN q : q[i].path # p,
           \A i, j \in DOMAIN q : i # j => q[i].path # q[j].path
    PROVE  Len(q) + 1 \in ModuleIds
  <1> DEFINE n == Len(q) + 1
             f == [i \in 1 .. n |-> IF i = n THEN p ELSE q[i].path]
  <1>1. Len(q) \in Nat /\ n \in Nat /\ DOMAIN q = 1 .. Len(q)
    OBVIOUS
  <1>2. \A i \in 1 .. Len(q) : q[i].path \in AllPaths
    <2>1. \A i \in 1 .. Len(q) : q[i] \in Entries
      BY <1>1
    <2>2. \A e \in Entries : e.path \in AllPaths
      BY DEF Entries
    <2> QED
      BY <2>1, <2>2
  <1>3. f \in [1 .. n -> AllPaths]
    BY <1>1, <1>2
  <1>4. \A i, j \in 1 .. n : f[i] = f[j] => i = j
    BY <1>1
  <1> HIDE DEF f
  <1>5. f \in Injection(1 .. n, AllPaths)
    BY <1>3, <1>4 DEF Injection, IsInjective
  <1>6. Cardinality(1 .. n) <= Cardinality(AllPaths)
    BY <1>5, LoaderConstants, FS_Injection
  <1>7. Cardinality(1 .. n) = n
    BY <1>1, FS_Interval
  <1> QED
    BY <1>1, <1>6, <1>7, LoaderConstants DEF ModuleIds

(* A new entry at the front shifts the others by one. *)
LEMMA PrependProperties ==
    ASSUME NEW S, NEW q \in Seq(S), NEW e \in S
    PROVE  /\ <<e>> \o q \in Seq(S) /\ Len(<<e>> \o q) = Len(q) + 1
           /\ DOMAIN (<<e>> \o q) = 1 .. Len(q) + 1
           /\ (<<e>> \o q)[1] = e
           /\ \A i \in 1 .. Len(q) : (<<e>> \o q)[i + 1] = q[i]
           /\ \A i \in 2 .. Len(q) + 1 : (<<e>> \o q)[i] = q[i - 1]
  OBVIOUS

(* Alive in the next state. *)
LEMMA AliveAfter == AliveNext = Alive'
  BY DEF Alive, AliveNext, KeptBy

(* A module that an entry names is not a new one. *)
LEMMA NewIsUnnamed ==
    ASSUME Loading, LoaderInv, NEW m \in NewModules
    PROVE  /\ m \in Modules /\ m \notin Alive /\ m # Nil /\ m # BuiltinModule
           /\ \A v \in Vms : \A i \in DOMAIN entries[v] : entries[v][i].module # m
  <1>0. m \in Modules /\ m \notin Alive
    BY DEF NewModules
  <1>1. BuiltinModule \in Alive
    BY DEF Alive
  <1>2. m # Nil
    BY <1>0, LoaderConstants
  <1> QED
    BY <1>0, <1>1, <1>2 DEF LoaderInv, WeakInv

-----------------------------------------------------------------------------
(* The inductive invariant. *)

(* A process starts without VMs. *)
LEMMA LoaderStarts ==
    ASSUME Loading, Init
    PROVE  LoaderInv
  <1>1. Idle \in [step : Steps, call : {"none", "exec", "load"}, path : AllPaths,
                  module : Modules \cup {Nil}, id : ModuleIds]
    BY LoaderConstants DEF Idle, At, Steps
  <1>2. TypeOK
    <2>1. <<>> \in Seq(Entries)
      OBVIOUS
    <2>2. entries \in [Vms -> Seq(Entries)]
      BY <2>1 DEF Init
    <2>3. at \in [Threads -> [step : Steps, call : {"none", "exec", "load"}, path : AllPaths,
                               module : Modules \cup {Nil}, id : ModuleIds]]
      BY <1>1 DEF Init
    <2>4. /\ initFlag \in BOOLEAN /\ registered \in BOOLEAN
          /\ vmState \in [Vms -> {"none", "initializing", "ready"}]
          /\ vmId \in [Modules -> ModuleIds]
          /\ running \in [Threads -> Modules \cup {Nil}] /\ slot \in [Threads -> Modules \cup {Nil}]
      BY LoaderConstants DEF Init
    <2>5. told \in [Vms -> [ModuleIds -> 0..2]]
      BY DEF Init
    <2> QED
      BY <2>2, <2>3, <2>4, <2>5 DEF TypeOK, Entries
  <1>3. EntriesInv /\ WeakInv /\ IdMatches
    BY DEF Init, EntriesInv, WeakInv, IdMatches
  <1>4. CallInv
    BY DEF Init, CallInv, Idle, At
  <1>5. ToldInv /\ ToldOnce
    BY DEF Init, ToldInv, ToldOnce, Idle, At
  <1>6. SharedWhileUsed
    BY DEF Init, SharedWhileUsed, KeptBy, Idle, At
  <1>7. EntryTold
    BY DEF Init, EntryTold
  <1> QED
    BY <1>2, <1>3, <1>4, <1>5, <1>6, <1>7 DEF LoaderInv

(* The steps of a VM that is constructed, and exec. *)
LEMMA VmKeeps ==
    ASSUME Loading, LoaderInv, NEW v \in Vms, CreateVm(v) \/ register_module_exports(v)
    PROVE  LoaderInv'
  <1>1. UNCHANGED <<entries, vmId, told, running, slot, at>>
    BY DEF CreateVm, register_module_exports
  <1>2. TypeOK'
    BY <1>1 DEF LoaderInv, TypeOK, CreateVm, register_module_exports
  <1>3. EntriesInv' /\ CallInv' /\ ToldInv' /\ IdMatches' /\ ToldOnce' /\ EntryTold'
    BY <1>1 DEF LoaderInv, EntriesInv, CallInv, ToldInv, IdMatches, ToldOnce, EntryTold
  <1>4. \A t \in Threads : KeptBy(t)' = KeptBy(t)
    BY <1>1 DEF KeptBy
  <1>5. WeakInv' /\ SharedWhileUsed'
    BY <1>1, <1>4 DEF LoaderInv, WeakInv, SharedWhileUsed, Alive
  <1> QED
    BY <1>2, <1>3, <1>5 DEF LoaderInv

(* Thread t alone changes what it executes and holds.                      *)
OthersKeep(t) ==
    /\ running' \in [Threads -> Modules \cup {Nil}] /\ slot' \in [Threads -> Modules \cup {Nil}]
    /\ \A u \in Threads : u # t => running'[u] = running[u] /\ slot'[u] = slot[u]

(* A thread that was not about to tell of an entry changes nothing for     *)
(* those that are.                                                         *)
LEMMA ToldKept ==
    ASSUME LoaderInv, NEW t \in Threads, at[t].step # "notify",
           \A u \in Threads : u # t => at'[u] = at[u],
           told' = told,
           \A v \in Vms : /\ DOMAIN entries'[v] = DOMAIN entries[v]
                           /\ \A i \in DOMAIN entries[v] : entries'[v][i].id = entries[v][i].id
    PROVE  EntryTold'
  BY DEF LoaderInv, EntryTold

(* A thread whose place in load_module changes, and that keeps the same    *)
(* modules alive: the table is left alone.                                 *)
LEMMA CallKeeps ==
    ASSUME Loading, LoaderInv, NEW t \in Threads, NEW r,
           at' = [at EXCEPT ![t] = r],
           r \in [step : Steps, call : {"none", "exec", "load"}, path : AllPaths,
                  module : Modules \cup {Nil}, id : ModuleIds],
           r.step \in {"idle", "resolve", "broken"} => r.module = Nil,
           r.step = "idle" => r = Idle,
           r.step # "notify", at[t].step # "notify",
           r.step # "idle" /\ r.call = "exec" => running'[t] = Nil,
           r.step # "idle" /\ r.call = "load" => slot'[t] = Nil,
           OthersKeep(t),
           UNCHANGED <<initFlag, registered, vmState, entries, vmId, told>>,
           KeptBy(t) \subseteq KeptBy(t)',
           \A m \in KeptBy(t)' : \E i \in DOMAIN entries[VmOf[t]] : entries[VmOf[t]][i].module = m
    PROVE  LoaderInv'
  <1> USE DEF OthersKeep
  <1>1. TypeOK'
    BY DEF LoaderInv, TypeOK
  <1>2. EntriesInv' /\ IdMatches' /\ ToldOnce'
    BY DEF LoaderInv, EntriesInv, IdMatches, ToldOnce
  <1>3. \A u \in Threads : u # t => at'[u] = at[u]
    BY DEF LoaderInv, TypeOK
  <1>4. at'[t] = r
    BY DEF LoaderInv, TypeOK
  <1>5. CallInv'
    BY <1>3, <1>4 DEF LoaderInv, CallInv
  <1>6. ToldInv'
    BY <1>3, <1>4 DEF LoaderInv, ToldInv
  <1>7. \A u \in Threads : u # t => KeptBy(u)' = KeptBy(u)
    BY <1>3 DEF KeptBy
  <1>8. SharedWhileUsed'
    BY <1>7 DEF LoaderInv, SharedWhileUsed
  <1>9. \A m \in Alive : m \in Alive'
    BY <1>7 DEF Alive
  <1>10. WeakInv'
    BY <1>9 DEF LoaderInv, WeakInv
  <1>11. EntryTold'
    BY <1>3, ToldKept
  <1> QED
    BY <1>1, <1>2, <1>5, <1>6, <1>8, <1>10, <1>11 DEF LoaderInv

(* exec begins a call. *)
LEMMA ExecKeeps ==
    ASSUME Loading, LoaderInv, NEW t \in Threads, NEW p \in Paths, exec(t, p)
    PROVE  LoaderInv'
  <1> DEFINE r == At("resolve", "exec", p, Nil, 0)
  <1>1. /\ at' = [at EXCEPT ![t] = r] /\ at[t] = Idle /\ running[t] = Nil
        /\ UNCHANGED <<initFlag, registered, vmState, entries, vmId, told, running, slot>>
    BY DEF exec
  <1>2. /\ r.step = "resolve" /\ r.call = "exec" /\ r.module = Nil
        /\ r \in [step : Steps, call : {"none", "exec", "load"}, path : AllPaths,
                  module : Modules \cup {Nil}, id : ModuleIds]
    BY LoaderConstants DEF At, Steps, AllPaths
  <1>3. at[t].module = Nil /\ at[t].step # "notify"
    BY <1>1 DEF Idle, At
  <1> HIDE DEF r
  <1>4. at'[t] = r
    BY <1>1 DEF LoaderInv, TypeOK
  <1>5. KeptBy(t)' = KeptBy(t)
    BY <1>1, <1>2, <1>3, <1>4 DEF KeptBy
  <1>6. \A m \in KeptBy(t) : \E i \in DOMAIN entries[VmOf[t]] : entries[VmOf[t]][i].module = m
    BY DEF LoaderInv, SharedWhileUsed
  <1>7. OthersKeep(t)
    BY <1>1 DEF LoaderInv, TypeOK, OthersKeep
  <1> QED
    BY <1>1, <1>2, <1>3, <1>5, <1>6, <1>7, CallKeeps

(* An entry whose module is alive gives that module. *)
LEMMA FoundKeeps ==
    ASSUME Loading, LoaderInv, NEW t \in Threads, load_module(t), Found(VmOf[t], t)
    PROVE  LoaderInv'
  <1> DEFINE v == VmOf[t]
  <1>1. PICK i \in EntriesOf(v, at[t].path) :
          /\ entries[v][i].module # Nil
          /\ at' = [at EXCEPT ![t].step = "reference", ![t].module = entries[v][i].module]
          /\ UNCHANGED <<entries, vmId>>
    BY DEF Found, Expired
  <1>2. i \in DOMAIN entries[v] /\ at[t].step = "resolve"
        /\ UNCHANGED <<initFlag, registered, vmState, told, running, slot>>
    BY DEF load_module, EntriesOf
  <1> DEFINE r == [at[t] EXCEPT !.step = "reference", !.module = entries[v][i].module]
  <1>3. entries[v][i].module \in Modules \cup {Nil}
    <2>1. entries[v] \in Seq(Entries)
      BY LoaderConstants DEF LoaderInv, TypeOK, Entries
    <2>2. entries[v][i] \in Entries
      BY <1>2, <2>1
    <2> QED
      BY <2>2 DEF Entries
  <1>4. /\ at' = [at EXCEPT ![t] = r] /\ r.step = "reference" /\ r.call = at[t].call
        /\ r.module = entries[v][i].module
        /\ r \in [step : Steps, call : {"none", "exec", "load"}, path : AllPaths,
                  module : Modules \cup {Nil}, id : ModuleIds]
    <2>1. at[t] \in [step : Steps, call : {"none", "exec", "load"}, path : AllPaths,
                     module : Modules \cup {Nil}, id : ModuleIds]
      BY DEF LoaderInv, TypeOK
    <2>2. "reference" \in Steps
      BY DEF Steps
    <2>3. /\ r.step = "reference" /\ r.call = at[t].call /\ r.module = entries[v][i].module
          /\ r \in [step : Steps, call : {"none", "exec", "load"}, path : AllPaths,
                    module : Modules \cup {Nil}, id : ModuleIds]
      BY <1>3, <2>1, <2>2
    <2>4. at' = [at EXCEPT ![t] = r]
      BY <1>1
    <2> QED
      BY <2>3, <2>4
  <1> HIDE DEF r
  <1>5. at'[t] = r /\ at[t].module = Nil
        /\ (r.call = "exec" => running[t] = Nil) /\ (r.call = "load" => slot[t] = Nil)
    BY <1>2, <1>4 DEF LoaderInv, TypeOK, CallInv
  <1>6. KeptBy(t)' = KeptBy(t) \cup {entries[v][i].module}
    BY <1>1, <1>2, <1>4, <1>5 DEF KeptBy
  <1>7. \A m \in KeptBy(t)' : \E j \in DOMAIN entries[v] : entries[v][j].module = m
    BY <1>2, <1>6 DEF LoaderInv, SharedWhileUsed
  <1>8. OthersKeep(t)
    BY <1>2 DEF LoaderInv, TypeOK, OthersKeep
  <1> QED
    BY <1>1, <1>2, <1>4, <1>5, <1>6, <1>7, <1>8, CallKeeps

(* A path that cannot be read: the caller goes on. *)
LEMMA ResolveFailsKeeps ==
    ASSUME Loading, LoaderInv, NEW t \in Threads, ResolveFails(t)
    PROVE  LoaderInv'
  <1>1. /\ at' = [at EXCEPT ![t] = Idle] /\ at[t].step = "resolve"
        /\ UNCHANGED <<initFlag, registered, vmState, entries, vmId, told, running, slot>>
    BY DEF ResolveFails
  <1>2. at[t].module = Nil
    BY <1>1 DEF LoaderInv, CallInv
  <1>3. /\ Idle.step = "idle" /\ Idle.module = Nil
        /\ Idle \in [step : Steps, call : {"none", "exec", "load"}, path : AllPaths,
                     module : Modules \cup {Nil}, id : ModuleIds]
    BY LoaderConstants DEF Idle, At, Steps
  <1>4. at'[t] = Idle
    BY <1>1 DEF LoaderInv, TypeOK
  <1>5. KeptBy(t)' = KeptBy(t)
    BY <1>1, <1>2, <1>3, <1>4 DEF KeptBy
  <1>6. \A m \in KeptBy(t) : \E i \in DOMAIN entries[VmOf[t]] : entries[VmOf[t]][i].module = m
    BY DEF LoaderInv, SharedWhileUsed
  <1>7. OthersKeep(t)
    BY <1>1 DEF LoaderInv, TypeOK, OthersKeep
  <1> QED
    BY <1>1, <1>3, <1>5, <1>6, <1>7, CallKeeps

(* The caller's part: the module goes to the new thread or to the          *)
(* destination of load.                                                    *)
LEMMA CallerKeeps ==
    ASSUME Loading, LoaderInv, NEW t \in Threads, StartThread(t) \/ ImportModule(t)
    PROVE  LoaderInv'
  <1>1. /\ at' = [at EXCEPT ![t] = Idle] /\ at[t].step = "reference"
        /\ UNCHANGED <<initFlag, registered, vmState, entries, vmId, told>>
        /\ \/ at[t].call = "exec" /\ running' = [running EXCEPT ![t] = at[t].module] /\ slot' = slot
           \/ at[t].call = "load" /\ slot' = [slot EXCEPT ![t] = at[t].module] /\ running' = running
    BY DEF StartThread, ImportModule
  <1>2. /\ Idle.step = "idle" /\ Idle.module = Nil
        /\ Idle \in [step : Steps, call : {"none", "exec", "load"}, path : AllPaths,
                     module : Modules \cup {Nil}, id : ModuleIds]
    BY LoaderConstants DEF Idle, At, Steps
  <1>3. /\ at[t].call = "exec" => running[t] = Nil
        /\ at[t].call = "load" => slot[t] = Nil
    BY <1>1 DEF LoaderInv, CallInv
  <1>4. at'[t] = Idle
    BY <1>1 DEF LoaderInv, TypeOK
  <1>5. /\ at[t].call = "exec" => running'[t] = at[t].module
        /\ at[t].call = "load" => slot'[t] = at[t].module
        /\ OthersKeep(t)
    BY <1>1 DEF LoaderInv, TypeOK, OthersKeep
  <1>6. KeptBy(t)' = KeptBy(t)
    BY <1>1, <1>2, <1>3, <1>4, <1>5 DEF KeptBy
  <1>7. \A m \in KeptBy(t) : \E i \in DOMAIN entries[VmOf[t]] : entries[VmOf[t]][i].module = m
    BY DEF LoaderInv, SharedWhileUsed
  <1> QED
    BY <1>1, <1>2, <1>5, <1>6, <1>7, CallKeeps

(* The step that IdsStable speaks of. *)
IdsKept ==
    \A v \in Vms : \A i \in DOMAIN entries[v] : \E j \in DOMAIN entries'[v] :
        /\ entries'[v][j].path = entries[v][i].path
        /\ entries'[v][j].id = entries[v][i].id

(* What expires leaves ids, paths and order as they are. *)
LEMMA ExpireProperties ==
    ASSUME Loading, LoaderInv, ExpireUnused, NEW v \in Vms
    PROVE  /\ entries'[v] \in Seq(Entries) /\ Len(entries'[v]) = Len(entries[v])
           /\ DOMAIN entries'[v] = DOMAIN entries[v] /\ DOMAIN entries[v] = 1 .. Len(entries[v])
           /\ \A i \in DOMAIN entries[v] :
                /\ entries'[v][i].id = entries[v][i].id
                /\ entries'[v][i].path = entries[v][i].path
                /\ entries'[v][i].module = IF entries[v][i].module \in Alive'
                                           THEN entries[v][i].module ELSE Nil
  <1> DEFINE e(i) == [entries[v][i] EXCEPT !.module = IF @ \in AliveNext THEN @ ELSE Nil]
  <1>1. entries[v] \in Seq(Entries) /\ Len(entries[v]) \in Nat
        /\ DOMAIN entries[v] = 1 .. Len(entries[v])
    <2>1. entries \in [Vms -> Seq(Entries)]
      BY DEF LoaderInv, TypeOK, Entries
    <2>2. entries[v] \in Seq(Entries)
      BY <2>1
    <2> QED
      BY <2>2
  <1>2. \A i \in DOMAIN entries[v] :
          /\ e(i) \in Entries
          /\ e(i).id = entries[v][i].id /\ e(i).path = entries[v][i].path
          /\ e(i).module = IF entries[v][i].module \in AliveNext THEN entries[v][i].module ELSE Nil
    <2>1. \A i \in DOMAIN entries[v] : entries[v][i] \in Entries
      BY <1>1
    <2> QED
      BY <2>1 DEF Entries
  <1>3. entries'[v] = [i \in 1 .. Len(entries[v]) |-> e(i)]
    BY <1>1 DEF ExpireUnused
  <1> HIDE DEF e
  <1>4. entries'[v] \in [1 .. Len(entries[v]) -> Entries]
    BY <1>1, <1>2, <1>3
  <1>5. entries'[v] \in Seq(Entries) /\ Len(entries'[v]) = Len(entries[v])
        /\ DOMAIN entries'[v] = 1 .. Len(entries[v])
    BY <1>1, <1>4
  <1> QED
    BY <1>1, <1>2, <1>3, <1>5, AliveAfter

(* A thread goes on after it gave modules up, and what nobody uses expires.*)
LEMMA ExpireKeeps ==
    ASSUME Loading, LoaderInv, NEW t \in Threads, NEW r,
           at' = [at EXCEPT ![t] = r],
           r \in [step : Steps, call : {"none", "exec", "load"}, path : AllPaths,
                  module : Modules \cup {Nil}, id : ModuleIds],
           r.step \in {"idle", "resolve", "broken"} => r.module = Nil,
           r.step = "idle" => r = Idle,
           r.step # "notify", at[t].step # "notify", r.call # "exec",
           r.step # "idle" /\ r.call = "load" => slot'[t] = Nil,
           OthersKeep(t),
           UNCHANGED <<initFlag, registered, vmState, told>>,
           ExpireUnused,
           KeptBy(t)' \subseteq KeptBy(t)
    PROVE  LoaderInv' /\ IdsKept
  <1> USE DEF OthersKeep
  <1>1. \A v \in Vms : /\ entries'[v] \in Seq(Entries) /\ Len(entries'[v]) = Len(entries[v])
           /\ DOMAIN entries'[v] = DOMAIN entries[v] /\ DOMAIN entries[v] = 1 .. Len(entries[v])
           /\ \A i \in DOMAIN entries[v] :
                /\ entries'[v][i].id = entries[v][i].id
                /\ entries'[v][i].path = entries[v][i].path
                /\ entries'[v][i].module = IF entries[v][i].module \in Alive'
                                           THEN entries[v][i].module ELSE Nil
    BY ExpireProperties
  <1>2. \A u \in Threads : u # t => at'[u] = at[u]
    BY DEF LoaderInv, TypeOK
  <1>3. at'[t] = r
    BY DEF LoaderInv, TypeOK
  <1>4. \A u \in Threads : KeptBy(u)' \subseteq KeptBy(u)
    BY <1>2 DEF KeptBy
  <1>5. \A m \in Modules : vmId'[m] = IF m \in Alive' THEN vmId[m] ELSE 0
    BY AliveAfter DEF ExpireUnused
  <1>6. TypeOK'
    <2>1. entries' \in [Vms -> Seq(Entries)]
      <3>1. entries' = [v \in Vms |-> entries'[v]]
        BY DEF ExpireUnused
      <3> QED
        BY <1>1, <3>1
    <2>2. vmId' \in [Modules -> ModuleIds]
      BY LoaderConstants DEF ExpireUnused, LoaderInv, TypeOK
    <2>3. at' \in [Threads -> [step : Steps, call : {"none", "exec", "load"}, path : AllPaths,
                               module : Modules \cup {Nil}, id : ModuleIds]]
      BY DEF LoaderInv, TypeOK
    <2> QED
      BY <2>1, <2>2, <2>3 DEF LoaderInv, TypeOK, Entries
  <1>7. EntriesInv'
    <2> SUFFICES ASSUME NEW v \in Vms, NEW i \in DOMAIN entries[v], NEW j \in DOMAIN entries[v]
                 PROVE  /\ entries'[v][i].id = Len(entries'[v]) - i + 1
                        /\ i # j =>
                              /\ entries'[v][i].path # entries'[v][j].path
                              /\ entries'[v][i].module # Nil =>
                                    entries'[v][i].module # entries'[v][j].module
      BY <1>1 DEF EntriesInv
    <2>1. /\ entries[v][i].id = Len(entries[v]) - i + 1
          /\ i # j => /\ entries[v][i].path # entries[v][j].path
                      /\ entries[v][i].module # Nil => entries[v][i].module # entries[v][j].module
      BY DEF LoaderInv, EntriesInv
    <2>2. Len(entries'[v]) = Len(entries[v])
      BY <1>1
    <2>3. entries'[v][i].id = Len(entries'[v]) - i + 1
      BY <1>1, <2>1, <2>2
    <2>4. i # j => entries'[v][i].path # entries'[v][j].path
      BY <1>1, <2>1
    <2>5. i # j /\ entries'[v][i].module # Nil => entries'[v][i].module # entries'[v][j].module
      BY <1>1, <2>1
    <2> QED
      BY <2>3, <2>4, <2>5
  <1>8. WeakInv'
    <2>1. BuiltinModule \in Alive'
      BY DEF Alive
    <2>2. Nil # BuiltinModule
      BY LoaderConstants
    <2> QED
      BY <1>1, <2>1, <2>2 DEF LoaderInv, WeakInv
  <1>9. CallInv'
    BY <1>2, <1>3 DEF LoaderInv, CallInv
  <1>10. ToldInv'
    <2>1. \A u \in Threads : VmOf[u] \in Vms
      BY LoaderConstants
    <2> QED
      BY <1>1, <1>2, <1>3, <2>1 DEF LoaderInv, ToldInv
  <1>11. IdMatches'
    <2> SUFFICES ASSUME NEW v \in Vms, NEW i \in DOMAIN entries[v], entries'[v][i].module # Nil
                 PROVE  vmId'[entries'[v][i].module] = entries'[v][i].id
      BY <1>1 DEF IdMatches
    <2>1. entries'[v][i].module = entries[v][i].module /\ entries[v][i].module \in Alive'
      BY <1>1
    <2>2. entries[v][i].module \in Modules
      <3>1. entries'[v][i] \in Entries
        BY <1>1
      <3> QED
        BY <2>1, <3>1 DEF Entries
    <2> QED
      BY <1>1, <1>5, <2>1, <2>2 DEF LoaderInv, IdMatches
  <1>12. SharedWhileUsed'
    <2> SUFFICES ASSUME NEW u \in Threads, NEW m \in KeptBy(u)'
                 PROVE  \E i \in DOMAIN entries'[VmOf[u]] : entries'[VmOf[u]][i].module = m
      BY DEF SharedWhileUsed
    <2>1. m \in Alive'
      BY DEF Alive
    <2>2. VmOf[u] \in Vms
      BY LoaderConstants
    <2>3. PICK i \in DOMAIN entries[VmOf[u]] : entries[VmOf[u]][i].module = m
      BY <1>4 DEF LoaderInv, SharedWhileUsed
    <2> QED
      BY <1>1, <2>1, <2>2, <2>3
  <1>13. ToldOnce'
    BY DEF LoaderInv, ToldOnce
  <1>14. IdsKept
    BY <1>1 DEF IdsKept
  <1>15. EntryTold'
    BY <1>1, <1>2, ToldKept
  <1> QED
    BY <1>6, <1>7, <1>8, <1>9, <1>10, <1>11, <1>12, <1>13, <1>14, <1>15 DEF LoaderInv

(* load begins a call: the module in its destination is given up. *)
LEMMA LoadKeeps ==
    ASSUME Loading, LoaderInv, NEW t \in Threads, NEW p \in AllPaths, load(t, p)
    PROVE  LoaderInv' /\ IdsKept
  <1> DEFINE r == At("resolve", "load", p, Nil, 0)
  <1>1. /\ at' = [at EXCEPT ![t] = r] /\ slot' = [slot EXCEPT ![t] = Nil] /\ running' = running
        /\ ExpireUnused /\ UNCHANGED <<initFlag, registered, vmState, told>>
        /\ at[t].step # "notify"
    BY DEF load, CanLoad, Idle, At
  <1>2. /\ r.step = "resolve" /\ r.call = "load" /\ r.module = Nil
        /\ r \in [step : Steps, call : {"none", "exec", "load"}, path : AllPaths,
                  module : Modules \cup {Nil}, id : ModuleIds]
    BY LoaderConstants DEF At, Steps
  <1> HIDE DEF r
  <1>3. at'[t] = r /\ slot'[t] = Nil
    BY <1>1 DEF LoaderInv, TypeOK
  <1>4. KeptBy(t)' \subseteq KeptBy(t)
    BY <1>1, <1>2, <1>3 DEF KeptBy
  <1>5. OthersKeep(t)
    BY <1>1 DEF LoaderInv, TypeOK, OthersKeep
  <1> QED
    BY <1>1, <1>2, <1>3, <1>4, <1>5, ExpireKeeps

(* "$self": the thread's own module. *)
LEMMA LoadSelfKeeps ==
    ASSUME Loading, LoaderInv, NEW t \in Threads, LoadSelf(t)
    PROVE  LoaderInv' /\ IdsKept
  <1> DEFINE r == At("reference", "load", Builtin, running[t], 0)
  <1>1. /\ at' = [at EXCEPT ![t] = r] /\ slot' = [slot EXCEPT ![t] = Nil] /\ running' = running
        /\ ExpireUnused /\ UNCHANGED <<initFlag, registered, vmState, told>>
        /\ at[t].step # "notify"
    BY DEF LoadSelf, CanLoad, Idle, At
  <1>2. /\ r.step = "reference" /\ r.call = "load" /\ r.module = running[t]
        /\ r \in [step : Steps, call : {"none", "exec", "load"}, path : AllPaths,
                  module : Modules \cup {Nil}, id : ModuleIds]
    BY LoaderConstants DEF At, Steps, LoaderInv, TypeOK
  <1> HIDE DEF r
  <1>3. at'[t] = r /\ slot'[t] = Nil
    BY <1>1 DEF LoaderInv, TypeOK
  <1>4. KeptBy(t)' \subseteq KeptBy(t)
    BY <1>1, <1>2, <1>3 DEF KeptBy
  <1>5. OthersKeep(t)
    BY <1>1 DEF LoaderInv, TypeOK, OthersKeep
  <1> QED
    BY <1>1, <1>2, <1>3, <1>4, <1>5, ExpireKeeps

(* A load whose imports do not resolve gives its module up. *)
LEMMA ImportFailsKeeps ==
    ASSUME Loading, LoaderInv, NEW t \in Threads, ImportFails(t)
    PROVE  LoaderInv' /\ IdsKept
  <1> DEFINE r == [Idle EXCEPT !.step = "broken"]
  <1>1. /\ at' = [at EXCEPT ![t] = r] /\ UNCHANGED <<running, slot>>
        /\ ExpireUnused /\ UNCHANGED <<initFlag, registered, vmState, told>>
        /\ at[t].step # "notify"
    BY DEF ImportFails
  <1>2. /\ r.step = "broken" /\ r.call = "none" /\ r.module = Nil
        /\ r \in [step : Steps, call : {"none", "exec", "load"}, path : AllPaths,
                  module : Modules \cup {Nil}, id : ModuleIds]
    BY LoaderConstants DEF Idle, At, Steps
  <1> HIDE DEF r
  <1>3. at'[t] = r
    BY <1>1 DEF LoaderInv, TypeOK
  <1>4. KeptBy(t)' \subseteq KeptBy(t)
    BY <1>1, <1>2, <1>3 DEF KeptBy
  <1>5. OthersKeep(t)
    BY <1>1 DEF LoaderInv, TypeOK, OthersKeep
  <1> QED
    BY <1>1, <1>2, <1>4, <1>5, ExpireKeeps

(* A thread that ends gives everything up. *)
LEMMA EndKeeps ==
    ASSUME Loading, LoaderInv, NEW t \in Threads, EndThread(t)
    PROVE  LoaderInv' /\ IdsKept
  <1>1. /\ at' = [at EXCEPT ![t] = Idle]
        /\ running' = [running EXCEPT ![t] = Nil] /\ slot' = [slot EXCEPT ![t] = Nil]
        /\ ExpireUnused /\ UNCHANGED <<initFlag, registered, vmState, told>>
        /\ at[t].step # "notify"
    BY DEF EndThread
  <1>2. /\ Idle.step = "idle" /\ Idle.call = "none" /\ Idle.module = Nil
        /\ Idle \in [step : Steps, call : {"none", "exec", "load"}, path : AllPaths,
                     module : Modules \cup {Nil}, id : ModuleIds]
    BY LoaderConstants DEF Idle, At, Steps
  <1>3. at'[t] = Idle /\ slot'[t] = Nil /\ running'[t] = Nil
    BY <1>1 DEF LoaderInv, TypeOK
  <1>4. KeptBy(t)' \subseteq KeptBy(t)
    BY <1>1, <1>2, <1>3 DEF KeptBy
  <1>5. OthersKeep(t)
    BY <1>1 DEF LoaderInv, TypeOK, OthersKeep
  <1> QED
    BY <1>1, <1>2, <1>4, <1>5, ExpireKeeps

(* The tools are told by the thread that made the entry, and by no other.  *)
LEMMA NotifyKeeps ==
    ASSUME Loading, LoaderInv, NEW t \in Threads, Notify(t)
    PROVE  LoaderInv' /\ IdsKept
  <1> DEFINE v == VmOf[t]
             n == at[t].id
             r == [at[t] EXCEPT !.step = "reference"]
  <1>1. /\ at[t].step = "notify" /\ at' = [at EXCEPT ![t] = r]
        /\ told' = [told EXCEPT ![v][n] = IF @ < 2 THEN @ + 1 ELSE @]
        /\ UNCHANGED <<initFlag, registered, vmState, entries, vmId, running, slot>>
    BY DEF Notify
  <1>2. v \in Vms /\ \A w \in Vms : w = v
    BY LoaderConstants DEF Loading, OneVm
  <1>3. /\ n \in ModuleIds /\ n \in 1..Len(entries[v]) /\ told[v][n] = 0
        /\ \A u \in Threads : u # t /\ at[u].step = "notify" => at[u].id # n
    BY <1>1 DEF LoaderInv, TypeOK, ToldInv
  <1>4. /\ r.step = "reference" /\ r.call = at[t].call /\ r.module = at[t].module
        /\ r \in [step : Steps, call : {"none", "exec", "load"}, path : AllPaths,
                  module : Modules \cup {Nil}, id : ModuleIds]
    <2>1. at[t] \in [step : Steps, call : {"none", "exec", "load"}, path : AllPaths,
                     module : Modules \cup {Nil}, id : ModuleIds]
      BY DEF LoaderInv, TypeOK
    <2> QED
      BY <2>1 DEF Steps
  <1> HIDE DEF r, n, v
  <1>5. at'[t] = r /\ \A u \in Threads : u # t => at'[u] = at[u]
    BY <1>1 DEF LoaderInv, TypeOK
  <1>6. told' \in [Vms -> [ModuleIds -> 0..2]] /\ told'[v][n] = 1
        /\ \A k \in ModuleIds : k # n => told'[v][k] = told[v][k]
    BY <1>1, <1>2, <1>3 DEF LoaderInv, TypeOK
  <1>7. TypeOK'
    BY <1>1, <1>4, <1>6 DEF LoaderInv, TypeOK
  <1>8. EntriesInv' /\ IdMatches'
    BY <1>1 DEF LoaderInv, EntriesInv, IdMatches
  <1>9. \A u \in Threads : KeptBy(u)' = KeptBy(u)
    BY <1>1, <1>4, <1>5 DEF KeptBy
  <1>10. WeakInv' /\ SharedWhileUsed'
    BY <1>1, <1>9 DEF LoaderInv, WeakInv, SharedWhileUsed, Alive
  <1>11. CallInv'
    BY <1>1, <1>4, <1>5 DEF LoaderInv, CallInv
  <1>12. ToldOnce'
    BY <1>2, <1>6 DEF LoaderInv, ToldOnce
  <1>13. ToldInv'
    <2>1. \A w \in Vms : \A k \in ModuleIds : told'[w][k] > 0 => k \in 1..Len(entries'[w])
      BY <1>1, <1>2, <1>3, <1>6 DEF LoaderInv, ToldInv
    <2>2. ASSUME NEW u \in Threads, at'[u].step = "notify"
          PROVE  /\ at'[u].id \in 1..Len(entries'[VmOf[u]]) /\ told'[VmOf[u]][at'[u].id] = 0
                 /\ \A x \in Threads : x # u /\ at'[x].step = "notify" => at'[x].id # at'[u].id
      <3>1. u # t /\ at'[u] = at[u] /\ at[u].step = "notify" /\ VmOf[u] = v
        BY <1>2, <1>4, <1>5, <2>2, LoaderConstants
      <3>2. at[u].id # n /\ at[u].id \in ModuleIds
        BY <1>3, <3>1 DEF LoaderInv, TypeOK
      <3>3. /\ at[u].id \in 1..Len(entries[v]) /\ told[v][at[u].id] = 0
            /\ \A x \in Threads : x # u /\ at[x].step = "notify" => at[x].id # at[u].id
        BY <3>1 DEF LoaderInv, ToldInv
      <3>4. \A x \in Threads : x # u /\ at'[x].step = "notify" => at'[x].id # at'[u].id
        BY <1>4, <1>5, <3>1, <3>3
      <3> QED
        BY <1>1, <1>6, <3>1, <3>2, <3>3, <3>4
    <2> QED
      BY <2>1, <2>2 DEF ToldInv
  <1>14. IdsKept
    BY <1>1 DEF IdsKept
  <1>15. EntryTold'
    <2> SUFFICES ASSUME NEW i \in DOMAIN entries[v]
                 PROVE  \/ told'[v][entries[v][i].id] > 0
                        \/ \E u \in Threads : /\ VmOf[u] = v /\ at'[u].step = "notify"
                                              /\ at'[u].id = entries[v][i].id
      BY <1>1, <1>2 DEF EntryTold
    <2>1. entries[v][i].id \in ModuleIds
      <3>1. entries[v] \in Seq(Entries)
        BY <1>2 DEF LoaderInv, TypeOK, Entries
      <3>2. entries[v][i] \in Entries
        BY <3>1
      <3> QED
        BY <3>2 DEF Entries
    <2>2. CASE entries[v][i].id = n
      BY <1>6, <2>2
    <2>3. CASE entries[v][i].id # n
      <3>1. told'[v][entries[v][i].id] = told[v][entries[v][i].id]
        BY <1>6, <2>1, <2>3
      <3>2. CASE told[v][entries[v][i].id] > 0
        BY <3>1, <3>2
      <3>3. ASSUME NEW u \in Threads, VmOf[u] = v, at[u].step = "notify", at[u].id = entries[v][i].id
            PROVE  at'[u] = at[u]
        BY <1>5, <2>3, <3>3 DEF n
      <3> QED
        BY <1>2, <3>2, <3>3 DEF LoaderInv, EntryTold
    <2> QED
      BY <2>2, <2>3
  <1> QED
    BY <1>7, <1>8, <1>10, <1>11, <1>12, <1>13, <1>14, <1>15 DEF LoaderInv

(* An entry whose module is gone is read again under its id. *)
LEMMA ReloadKeeps ==
    ASSUME Loading, LoaderInv, NEW t \in Threads, load_module(t), Reload(VmOf[t], t)
    PROVE  LoaderInv' /\ IdsKept
  <1> DEFINE v == VmOf[t]
  <1>1. PICK i \in EntriesOf(v, at[t].path), m \in NewModules :
          /\ entries[v][i].module = Nil
          /\ entries' = [entries EXCEPT ![v][i].id = entries[v][i].id, ![v][i].module = m]
          /\ vmId' = [vmId EXCEPT ![m] = entries[v][i].id]
          /\ at' = [at EXCEPT ![t].step = "reference", ![t].module = m, ![t].id = entries[v][i].id]
    BY DEF Reload, Expired, ReloadId, ReloadStep, Stamp
  <1>2. i \in DOMAIN entries[v] /\ at[t].step = "resolve"
        /\ UNCHANGED <<initFlag, registered, vmState, told, running, slot>>
    BY DEF load_module, EntriesOf
  <1>3. v \in Vms /\ \A w \in Vms : w = v
    BY LoaderConstants DEF Loading, OneVm
  <1>4. /\ m \in Modules /\ m \notin Alive /\ m # Nil /\ m # BuiltinModule
        /\ \A j \in DOMAIN entries[v] : entries[v][j].module # m
    BY <1>3, NewIsUnnamed
  <1> DEFINE e == [entries[v][i] EXCEPT !.id = entries[v][i].id, !.module = m]
             r == [at[t] EXCEPT !.step = "reference", !.module = m, !.id = entries[v][i].id]
  <1>5. entries \in [Vms -> Seq(Entries)] /\ entries[v] \in Seq(Entries) /\ Len(entries[v]) \in Nat
        /\ DOMAIN entries[v] = 1 .. Len(entries[v])
    <2>1. entries \in [Vms -> Seq(Entries)]
      BY DEF LoaderInv, TypeOK, Entries
    <2>2. entries[v] \in Seq(Entries)
      BY <1>3, <2>1
    <2> QED
      BY <2>1, <2>2
  <1>6. entries[v][i] \in Entries
    BY <1>2, <1>5
  <1>7. /\ e \in Entries /\ e.id = entries[v][i].id /\ e.path = entries[v][i].path /\ e.module = m
        /\ e.id \in ModuleIds
    BY <1>4, <1>6 DEF Entries
  <1>8. /\ r.step = "reference" /\ r.call = at[t].call /\ r.module = m
        /\ r \in [step : Steps, call : {"none", "exec", "load"}, path : AllPaths,
                  module : Modules \cup {Nil}, id : ModuleIds]
    <2>1. at[t] \in [step : Steps, call : {"none", "exec", "load"}, path : AllPaths,
                     module : Modules \cup {Nil}, id : ModuleIds]
      BY DEF LoaderInv, TypeOK
    <2> QED
      BY <1>4, <1>7, <2>1 DEF Steps
  <1>9. entries' = [entries EXCEPT ![v] = [entries[v] EXCEPT ![i] = e]] /\ at' = [at EXCEPT ![t] = r]
    BY <1>1
  <1> HIDE DEF e, r, v
  <1>10. /\ entries' \in [Vms -> Seq(Entries)] /\ Len(entries'[v]) = Len(entries[v])
         /\ DOMAIN entries'[v] = 1 .. Len(entries[v])
         /\ entries'[v][i] = e
         /\ \A j \in DOMAIN entries[v] : j # i => entries'[v][j] = entries[v][j]
    <2> DEFINE q == [entries[v] EXCEPT ![i] = e]
    <2>1. q \in Seq(Entries) /\ Len(q) = Len(entries[v]) /\ DOMAIN q = 1 .. Len(entries[v])
          /\ q[i] = e /\ \A j \in DOMAIN entries[v] : j # i => q[j] = entries[v][j]
      BY <1>2, <1>5, <1>7
    <2> HIDE DEF q
    <2>2. entries' = [entries EXCEPT ![v] = q]
      BY <1>9 DEF q
    <2>3. entries'[v] = q /\ entries' \in [Vms -> Seq(Entries)]
      BY <1>3, <1>5, <2>1, <2>2
    <2> QED
      BY <2>1, <2>3
  <1>11. at'[t] = r /\ \A u \in Threads : u # t => at'[u] = at[u]
    BY <1>9 DEF LoaderInv, TypeOK
  <1>12. vmId' = [vmId EXCEPT ![m] = e.id]
    BY <1>1, <1>7 DEF v
  <1>13. TypeOK'
    <2>1. vmId' \in [Modules -> ModuleIds]
      BY <1>7, <1>12 DEF LoaderInv, TypeOK
    <2>2. at' \in [Threads -> [step : Steps, call : {"none", "exec", "load"}, path : AllPaths,
                               module : Modules \cup {Nil}, id : ModuleIds]]
      BY <1>8, <1>9 DEF LoaderInv, TypeOK
    <2> QED
      BY <1>2, <1>10, <2>1, <2>2 DEF LoaderInv, TypeOK, Entries
  <1>14. at[t].module = Nil
    BY <1>2 DEF LoaderInv, CallInv
  <1>15. /\ KeptBy(t)' = KeptBy(t) \cup {m}
         /\ \A u \in Threads : u # t => KeptBy(u)' = KeptBy(u)
    BY <1>2, <1>4, <1>8, <1>11, <1>14 DEF KeptBy
  <1>16. Alive \subseteq Alive' /\ m \in Alive'
    BY <1>15 DEF Alive
  <1>17. \A j \in DOMAIN entries[v] :
           /\ entries'[v][j].id = entries[v][j].id /\ entries'[v][j].path = entries[v][j].path
           /\ entries'[v][j].module = IF j = i THEN m ELSE entries[v][j].module
    BY <1>7, <1>10
  <1>18. DOMAIN entries'[v] = DOMAIN entries[v] /\ Len(entries'[v]) = Len(entries[v])
    BY <1>5, <1>10
  <1>19. EntriesInv'
    <2> SUFFICES ASSUME NEW j \in DOMAIN entries[v], NEW k \in DOMAIN entries[v]
                 PROVE  /\ entries'[v][j].id = Len(entries'[v]) - j + 1
                        /\ j # k =>
                              /\ entries'[v][j].path # entries'[v][k].path
                              /\ entries'[v][j].module # Nil =>
                                    entries'[v][j].module # entries'[v][k].module
      BY <1>3, <1>18 DEF EntriesInv
    <2>1. /\ entries[v][j].id = Len(entries[v]) - j + 1
          /\ j # k => /\ entries[v][j].path # entries[v][k].path
                      /\ entries[v][j].module # Nil => entries[v][j].module # entries[v][k].module
      BY <1>3 DEF LoaderInv, EntriesInv
    <2>2. entries'[v][j].id = Len(entries'[v]) - j + 1
      BY <1>17, <1>18, <2>1
    <2>3. j # k => entries'[v][j].path # entries'[v][k].path
      BY <1>17, <2>1
    <2>4. j # k /\ entries'[v][j].module # Nil => entries'[v][j].module # entries'[v][k].module
      BY <1>4, <1>17, <2>1
    <2> QED
      BY <2>2, <2>3, <2>4
  <1>20. WeakInv'
    <2>1. entries[v][i].path # Builtin
      BY <1>1, <1>2, <1>3, LoaderConstants DEF LoaderInv, WeakInv, v
    <2> QED
      BY <1>3, <1>4, <1>16, <1>17, <1>18, <2>1 DEF LoaderInv, WeakInv
  <1>21. CallInv'
    BY <1>2, <1>8, <1>11 DEF LoaderInv, CallInv
  <1>22. ToldInv'
    <2>1. \A u \in Threads : VmOf[u] = v
      BY <1>3, LoaderConstants
    <2>2. ToldInv
      BY DEF LoaderInv
    <2>3. \A u \in Threads : at'[u].step = "notify" => u # t /\ at'[u] = at[u]
      BY <1>8, <1>11
    <2>4. told' = told /\ \A w \in Vms : Len(entries'[w]) = Len(entries[w])
      BY <1>2, <1>3, <1>18
    <2>5. \A w \in Vms : \A k \in ModuleIds : told'[w][k] > 0 => k \in 1..Len(entries'[w])
      BY ONLY <2>2, <2>4 DEF ToldInv
    <2>6. \A u \in Threads : at'[u].step = "notify" =>
            /\ at'[u].id \in 1..Len(entries'[VmOf[u]]) /\ told'[VmOf[u]][at'[u].id] = 0
            /\ \A x \in Threads : x # u /\ at'[x].step = "notify" => at'[x].id # at'[u].id
      BY ONLY <1>3, <2>1, <2>2, <2>3, <2>4 DEF ToldInv
    <2> QED
      BY ONLY <2>5, <2>6 DEF ToldInv
  <1>23. IdMatches'
    <2> SUFFICES ASSUME NEW j \in DOMAIN entries[v], entries'[v][j].module # Nil
                 PROVE  vmId'[entries'[v][j].module] = entries'[v][j].id
      BY <1>3, <1>18 DEF IdMatches
    <2>1. entries'[v][j].module \in Modules
      <3>1. entries'[v] \in Seq(Entries) /\ j \in DOMAIN entries'[v]
        BY <1>3, <1>10, <1>18
      <3>2. entries'[v][j] \in Entries
        BY <3>1
      <3> QED
        BY <3>2 DEF Entries
    <2>2. CASE j = i
      BY <1>4, <1>7, <1>12, <1>17, <2>2 DEF LoaderInv, TypeOK
    <2>3. CASE j # i
      <3>1. entries'[v][j].module = entries[v][j].module /\ entries[v][j].module # m
        BY <1>4, <1>17, <2>3
      <3>2. vmId[entries[v][j].module] = entries[v][j].id
        BY <1>3, <2>1, <3>1 DEF LoaderInv, IdMatches
      <3> QED
        BY <1>12, <1>17, <2>1, <3>1, <3>2 DEF LoaderInv, TypeOK
    <2> QED
      BY <2>2, <2>3
  <1>24. SharedWhileUsed'
    <2> SUFFICES ASSUME NEW u \in Threads, NEW k \in KeptBy(u)'
                 PROVE  \E j \in DOMAIN entries'[v] : entries'[v][j].module = k
      BY <1>3, LoaderConstants DEF SharedWhileUsed
    <2>1. CASE k = m
      BY <1>2, <1>17, <1>18, <2>1
    <2>2. CASE k # m
      <3>1. k \in KeptBy(u) /\ VmOf[u] = v
        BY <1>3, <1>15, <2>2, LoaderConstants
      <3>2. k # Nil
        BY DEF KeptBy
      <3>3. PICK j \in DOMAIN entries[v] : entries[v][j].module = k
        BY <3>1 DEF LoaderInv, SharedWhileUsed
      <3>4. j # i
        BY <1>1, <3>2, <3>3 DEF v
      <3> QED
        BY <1>17, <1>18, <3>3, <3>4
    <2> QED
      BY <2>1, <2>2
  <1>25. ToldOnce'
    BY <1>2 DEF LoaderInv, ToldOnce
  <1>26. IdsKept
    BY <1>3, <1>17, <1>18 DEF IdsKept
  <1>27. EntryTold'
    <2>1. at[t].step # "notify" /\ told' = told
      BY <1>2
    <2>2. \A w \in Vms : /\ DOMAIN entries'[w] = DOMAIN entries[w]
                         /\ \A j \in DOMAIN entries[w] : entries'[w][j].id = entries[w][j].id
      BY <1>3, <1>17, <1>18
    <2>3. \A u \in Threads : u # t => at'[u] = at[u]
      BY <1>11
    <2> QED
      BY <2>1, <2>2, <2>3, ToldKept
  <1> QED
    BY <1>13, <1>19, <1>20, <1>21, <1>22, <1>23, <1>24, <1>25, <1>26, <1>27 DEF LoaderInv

(* A new entry takes the next id, and its maker will tell the tools. *)
LEMMA NewEntryKeeps ==
    ASSUME Loading, LoaderInv, NEW t \in Threads, load_module(t), NewEntry(VmOf[t], t)
    PROVE  LoaderInv' /\ IdsKept
  <1> DEFINE v == VmOf[t]
             p == at[t].path
             n == Len(entries[v]) + 1
  <1>1. v \in Vms /\ \A w \in Vms : w = v
    BY LoaderConstants DEF Loading, OneVm
  <1>2. entries \in [Vms -> Seq(Entries)] /\ entries[v] \in Seq(Entries) /\ Len(entries[v]) \in Nat
        /\ DOMAIN entries[v] = 1 .. Len(entries[v])
    <2>1. entries \in [Vms -> Seq(Entries)]
      BY DEF LoaderInv, TypeOK, Entries
    <2>2. entries[v] \in Seq(Entries)
      BY <1>1, <2>1
    <2> QED
      BY <2>1, <2>2
  <1>3. NextId(v) = n
    <2>1. CASE entries[v] = <<>>
      BY <2>1 DEF NextId
    <2>2. CASE entries[v] # <<>>
      <3>1. 1 \in DOMAIN entries[v]
        BY <1>2, <2>2
      <3>2. entries[v][1].id = Len(entries[v]) - 1 + 1
        BY <1>1, <3>1 DEF LoaderInv, EntriesInv
      <3> QED
        BY <1>2, <2>2, <3>2 DEF NextId
    <2> QED
      BY <2>1, <2>2
  <1>4. PICK m \in IF p = Builtin THEN {BuiltinModule} ELSE NewModules :
          /\ vmId' = [vmId EXCEPT ![m] = NextId(v)]
          /\ entries' = [entries EXCEPT ![v] = <<[id |-> NextId(v), path |-> p, module |-> m]>> \o @]
          /\ at' = [at EXCEPT ![t].step = "notify", ![t].module = m, ![t].id = NextId(v)]
    BY DEF NewEntry, NewStep, Stamp
  <1>5. at[t].step = "resolve" /\ EntriesOf(v, p) = {}
        /\ UNCHANGED <<initFlag, registered, vmState, told, running, slot>>
    BY DEF load_module, NewEntry
  <1>6. p \in AllPaths /\ \A j \in DOMAIN entries[v] : entries[v][j].path # p
    BY <1>5 DEF LoaderInv, TypeOK, EntriesOf
  <1>7. /\ m \in Modules /\ m # Nil /\ (p = Builtin <=> m = BuiltinModule)
        /\ \A j \in DOMAIN entries[v] : entries[v][j].module # m
    <2>1. CASE p = Builtin
      <3>1. m = BuiltinModule
        BY <1>4, <2>1
      <3> QED
        BY <1>1, <1>6, <2>1, <3>1, LoaderConstants DEF LoaderInv, WeakInv
    <2>2. CASE p # Builtin
      BY <1>1, <1>4, <2>2, NewIsUnnamed
    <2> QED
      BY <2>1, <2>2
  <1>8. n \in ModuleIds
    <2>1. \A i, j \in DOMAIN entries[v] : i # j => entries[v][i].path # entries[v][j].path
      BY <1>1 DEF LoaderInv, EntriesInv
    <2> QED
      BY <1>2, <1>6, <2>1, RoomForPath
  <1> DEFINE e == [id |-> n, path |-> p, module |-> m]
             r == [at[t] EXCEPT !.step = "notify", !.module = m, !.id = n]
             q == <<e>> \o entries[v]
  <1>9. e \in Entries /\ e.id = n /\ e.path = p /\ e.module = m
    BY <1>6, <1>7, <1>8 DEF Entries
  <1>10. /\ r.step = "notify" /\ r.call = at[t].call /\ r.module = m /\ r.id = n
         /\ r \in [step : Steps, call : {"none", "exec", "load"}, path : AllPaths,
                   module : Modules \cup {Nil}, id : ModuleIds]
    <2>1. at[t] \in [step : Steps, call : {"none", "exec", "load"}, path : AllPaths,
                     module : Modules \cup {Nil}, id : ModuleIds]
      BY DEF LoaderInv, TypeOK
    <2> HIDE DEF n
    <2> QED
      BY <1>7, <1>8, <2>1 DEF Steps
  <1>11. /\ entries' = [entries EXCEPT ![v] = q] /\ at' = [at EXCEPT ![t] = r]
         /\ vmId' = [vmId EXCEPT ![m] = n]
    BY <1>3, <1>4
  <1>12. /\ q \in Seq(Entries) /\ Len(q) = n /\ DOMAIN q = 1 .. n /\ q[1] = e
         /\ \A i \in DOMAIN entries[v] : i + 1 \in 2 .. n /\ q[i + 1] = entries[v][i]
         /\ \A i \in 2 .. n : i - 1 \in DOMAIN entries[v] /\ q[i] = entries[v][i - 1]
    <2> HIDE DEF e
    <2> QED
      BY <1>2, <1>9, PrependProperties
  <1> HIDE DEF e, r, q, v
  <1>13. entries'[v] = q /\ entries' \in [Vms -> Seq(Entries)]
    BY <1>1, <1>2, <1>11, <1>12
  <1>14. at'[t] = r /\ \A u \in Threads : u # t => at'[u] = at[u]
    BY <1>11 DEF LoaderInv, TypeOK
  <1>15. at[t].module = Nil
    BY <1>5 DEF LoaderInv, CallInv
  <1>16. /\ KeptBy(t)' = KeptBy(t) \cup {m}
         /\ \A u \in Threads : u # t => KeptBy(u)' = KeptBy(u)
    BY <1>5, <1>7, <1>10, <1>14, <1>15 DEF KeptBy
  <1>17. Alive \subseteq Alive' /\ m \in Alive'
    BY <1>16 DEF Alive
  <1>18. TypeOK'
    <2>1. vmId' \in [Modules -> ModuleIds]
      BY <1>8, <1>11 DEF LoaderInv, TypeOK
    <2>2. at' \in [Threads -> [step : Steps, call : {"none", "exec", "load"}, path : AllPaths,
                               module : Modules \cup {Nil}, id : ModuleIds]]
      BY <1>10, <1>11 DEF LoaderInv, TypeOK
    <2> QED
      BY <1>5, <1>13, <2>1, <2>2 DEF LoaderInv, TypeOK, Entries
  <1>19. EntriesInv'
    <2> SUFFICES ASSUME NEW j \in DOMAIN entries'[v], NEW k \in DOMAIN entries'[v]
                 PROVE  /\ entries'[v][j].id = Len(entries'[v]) - j + 1
                        /\ j # k =>
                              /\ entries'[v][j].path # entries'[v][k].path
                              /\ entries'[v][j].module # Nil =>
                                    entries'[v][j].module # entries'[v][k].module
      BY <1>1 DEF EntriesInv
    <2>0. j \in 1 .. n /\ k \in 1 .. n
      BY <1>12, <1>13
    <2>1. \A i \in DOMAIN entries[v] : entries[v][i].id = Len(entries[v]) - i + 1
      BY <1>1 DEF LoaderInv, EntriesInv
    <2>2. q[j].id = Len(q) - j + 1
      <3>1. CASE j = 1
        BY <1>2, <1>9, <1>12, <3>1
      <3>2. CASE j \in 2 .. n
        <4>1. entries[v][j - 1].id = Len(entries[v]) - (j - 1) + 1
          BY <1>12, <2>1, <3>2
        <4> QED
          BY <1>2, <1>12, <3>2, <4>1
      <3> QED
        BY <1>2, <2>0, <3>1, <3>2
    <2>3. ASSUME j # k
          PROVE  q[j].path # q[k].path /\ (q[j].module # Nil => q[j].module # q[k].module)
      <3>1. CASE j = 1
        <4>1. k \in 2 .. n
          BY <1>2, <2>0, <2>3, <3>1
        <4>2. k - 1 \in DOMAIN entries[v] /\ q[k] = entries[v][k - 1] /\ q[j] = e
          BY <1>12, <3>1, <4>1
        <4> QED
          BY <1>6, <1>7, <1>9, <4>2
      <3>2. CASE k = 1
        <4>1. j \in 2 .. n
          BY <1>2, <2>0, <2>3, <3>2
        <4>2. j - 1 \in DOMAIN entries[v] /\ q[j] = entries[v][j - 1] /\ q[k] = e
          BY <1>12, <3>2, <4>1
        <4> QED
          BY <1>6, <1>7, <1>9, <4>2
      <3>3. CASE j # 1 /\ k # 1
        <4>1. j \in 2 .. n /\ k \in 2 .. n /\ j - 1 # k - 1
          BY <1>2, <2>0, <2>3, <3>3
        <4>2. /\ j - 1 \in DOMAIN entries[v] /\ q[j] = entries[v][j - 1]
              /\ k - 1 \in DOMAIN entries[v] /\ q[k] = entries[v][k - 1]
          BY <1>12, <4>1
        <4> QED
          BY <1>1, <4>1, <4>2 DEF LoaderInv, EntriesInv
      <3> QED
        BY <3>1, <3>2, <3>3
    <2> QED
      BY <1>13, <2>2, <2>3
  <1>20. WeakInv'
    <2> SUFFICES ASSUME NEW j \in 1 .. n
                 PROVE  /\ q[j].module \in Alive' \cup {Nil}
                        /\ q[j].path = Builtin <=> q[j].module = BuiltinModule
      BY <1>1, <1>12, <1>13 DEF WeakInv
    <2>1. CASE j = 1
      BY <1>7, <1>9, <1>12, <1>17, <2>1
    <2>2. CASE j \in 2 .. n
      BY <1>1, <1>12, <1>17, <2>2 DEF LoaderInv, WeakInv
    <2> QED
      BY <1>2, <2>1, <2>2
  <1>21. CallInv'
    BY <1>5, <1>10, <1>14 DEF LoaderInv, CallInv
  <1>22. ToldOnce'
    BY <1>5 DEF LoaderInv, ToldOnce
  <1>23. ToldInv'
    <2>1. \A u \in Threads : VmOf[u] = v
      BY <1>1, LoaderConstants
    <2>2. \A k \in ModuleIds : told[v][k] \in Nat /\ (told[v][k] > 0 => k \in 1 .. Len(entries[v]))
      BY <1>1 DEF LoaderInv, ToldInv, TypeOK
    <2>3. \A k \in 1 .. Len(entries[v]) : k \in 1 .. n /\ k # n
      BY <1>2
    <2>4. told[v][n] = 0 /\ n \in 1 .. n
      BY <1>2, <1>8, <2>2, <2>3
    <2>5. \A w \in Vms : \A k \in ModuleIds : told'[w][k] > 0 => k \in 1..Len(entries'[w])
      BY <1>1, <1>5, <1>12, <1>13, <2>2, <2>3
    <2>6. \A u \in Threads : at[u].step = "notify" => at[u].id \in 1 .. Len(entries[v])
      BY <2>1 DEF LoaderInv, ToldInv
    <2>7. ASSUME NEW u \in Threads, at'[u].step = "notify"
          PROVE  /\ at'[u].id \in 1..Len(entries'[v]) /\ told'[v][at'[u].id] = 0
                 /\ \A x \in Threads : x # u /\ at'[x].step = "notify" => at'[x].id # at'[u].id
      <3> HIDE DEF n
      <3>1. CASE u = t
        BY <1>5, <1>10, <1>12, <1>13, <1>14, <2>3, <2>4, <2>6, <3>1
      <3>2. CASE u # t
        <4>1. at'[u] = at[u] /\ at[u].id \in 1 .. n /\ at[u].id # n /\ told[v][at[u].id] = 0
          BY <1>14, <2>1, <2>3, <2>6, <2>7, <3>2 DEF LoaderInv, ToldInv
        <4>2. \A x \in Threads : x # u /\ at'[x].step = "notify" => at'[x].id # at[u].id
          BY <1>10, <1>14, <2>7, <3>2, <4>1 DEF LoaderInv, ToldInv
        <4> QED
          BY <1>5, <1>12, <1>13, <4>1, <4>2
      <3> QED
        BY <3>1, <3>2
    <2> QED
      BY <2>1, <2>5, <2>7 DEF ToldInv
  <1>24. IdMatches'
    <2> SUFFICES ASSUME NEW j \in 1 .. n, q[j].module # Nil
                 PROVE  vmId'[q[j].module] = q[j].id
      BY <1>1, <1>12, <1>13 DEF IdMatches
    <2>1. CASE j = 1
      BY <1>7, <1>8, <1>9, <1>11, <1>12, <2>1 DEF LoaderInv, TypeOK
    <2>2. CASE j \in 2 .. n
      <3>1. j - 1 \in DOMAIN entries[v] /\ q[j] = entries[v][j - 1]
        BY <1>12, <2>2
      <3>2. q[j] \in Entries /\ q[j].module \in Modules
        <4>1. q[j] \in Entries
          BY <1>12
        <4> QED
          BY <4>1 DEF Entries
      <3>3. q[j].module # m /\ vmId[q[j].module] = q[j].id
        BY <1>1, <1>7, <3>1 DEF LoaderInv, IdMatches
      <3> QED
        BY <1>11, <3>2, <3>3 DEF LoaderInv, TypeOK
    <2> QED
      BY <1>2, <2>1, <2>2
  <1>25. SharedWhileUsed'
    <2> SUFFICES ASSUME NEW u \in Threads, NEW k \in KeptBy(u)'
                 PROVE  \E j \in 1 .. n : q[j].module = k
      BY <1>1, <1>12, <1>13, LoaderConstants DEF SharedWhileUsed
    <2>1. CASE k = m
      <3>1. 1 \in 1 .. n
        BY <1>2
      <3> QED
        BY <1>9, <1>12, <2>1, <3>1
    <2>2. CASE k # m
      <3>1. k \in KeptBy(u) /\ VmOf[u] = v
        BY <1>1, <1>16, <2>2, LoaderConstants
      <3>2. PICK j \in DOMAIN entries[v] : entries[v][j].module = k
        BY <3>1 DEF LoaderInv, SharedWhileUsed
      <3>3. j + 1 \in 1 .. n /\ q[j + 1].module = k
        BY <1>2, <1>12, <3>2
      <3> QED
        BY <3>3
    <2> QED
      BY <2>1, <2>2
  <1>26. IdsKept
    <2> SUFFICES ASSUME NEW i \in DOMAIN entries[v]
                 PROVE  \E j \in DOMAIN entries'[v] : /\ entries'[v][j].path = entries[v][i].path
                                                    /\ entries'[v][j].id = entries[v][i].id
      BY <1>1 DEF IdsKept
    <2>1. i + 1 \in DOMAIN q /\ q[i + 1] = entries[v][i]
      BY <1>2, <1>12
    <2> QED
      BY <1>13, <2>1
  <1>27. EntryTold'
    <2> SUFFICES ASSUME NEW j \in 1 .. n
                 PROVE  \/ told[v][q[j].id] > 0
                        \/ \E u \in Threads : /\ VmOf[u] = v /\ at'[u].step = "notify"
                                              /\ at'[u].id = q[j].id
      BY <1>1, <1>5, <1>12, <1>13 DEF EntryTold
    <2>1. CASE j = 1
      BY <1>9, <1>10, <1>12, <1>14, <2>1 DEF v
    <2>2. CASE j \in 2 .. n
      <3>1. j - 1 \in DOMAIN entries[v] /\ q[j] = entries[v][j - 1]
        BY <1>12, <2>2
      <3>2. \A u \in Threads : at[u].step = "notify" => at'[u] = at[u]
        BY <1>5, <1>14
      <3> QED
        BY <1>1, <3>1, <3>2 DEF LoaderInv, EntryTold
    <2> QED
      BY <1>2, <2>1, <2>2
  <1> QED
    BY <1>18, <1>19, <1>20, <1>21, <1>22, <1>23, <1>24, <1>25, <1>26, <1>27 DEF LoaderInv

-----------------------------------------------------------------------------
(* A step keeps the invariant and the ids. *)
LEMMA StepKeeps ==
    ASSUME Loading, LoaderInv, [Next]_vars
    PROVE  LoaderInv' /\ IdsKept
  <1>0. entries' = entries => IdsKept
    BY DEF IdsKept
  <1>1. CASE UNCHANGED vars
    <2>1. UNCHANGED <<initFlag, registered, vmState, entries, vmId, told, running, slot, at>>
      BY <1>1 DEF vars
    <2>2. \A u \in Threads : KeptBy(u)' = KeptBy(u)
      BY <2>1 DEF KeptBy
    <2>3. WeakInv' /\ SharedWhileUsed'
      BY <2>1, <2>2 DEF LoaderInv, WeakInv, SharedWhileUsed, Alive
    <2>4. TypeOK'
      BY <2>1 DEF LoaderInv, TypeOK
    <2>5. EntriesInv' /\ IdMatches'
      BY <2>1 DEF LoaderInv, EntriesInv, IdMatches
    <2>6. CallInv' /\ ToldOnce'
      BY <2>1 DEF LoaderInv, CallInv, ToldOnce
    <2>7. ToldInv' /\ EntryTold'
      BY <2>1 DEF LoaderInv, ToldInv, EntryTold
    <2> QED
      BY <1>0, <2>1, <2>3, <2>4, <2>5, <2>6, <2>7 DEF LoaderInv
  <1>2. ASSUME NEW v \in Vms, CreateVm(v) \/ register_module_exports(v)
        PROVE  LoaderInv' /\ IdsKept
    <2>1. entries' = entries
      BY <1>2 DEF CreateVm, register_module_exports
    <2> QED
      BY <1>0, <1>2, <2>1, VmKeeps
  <1>3. ASSUME NEW t \in Threads, NEW p \in Paths, exec(t, p)
        PROVE  LoaderInv' /\ IdsKept
    <2>1. entries' = entries
      BY <1>3 DEF exec
    <2> QED
      BY <1>0, <1>3, <2>1, ExecKeeps
  <1>4. ASSUME NEW t \in Threads, load_module(t)
        PROVE  LoaderInv' /\ IdsKept
    <2>1. CASE Found(VmOf[t], t)
      <3>1. entries' = entries
        BY <2>1 DEF Found
      <3> QED
        BY <1>0, <1>4, <2>1, <3>1, FoundKeeps
    <2>2. CASE Reload(VmOf[t], t)
      BY <1>4, <2>2, ReloadKeeps
    <2>3. CASE NewEntry(VmOf[t], t)
      BY <1>4, <2>3, NewEntryKeeps
    <2> QED
      BY <1>4, <2>1, <2>2, <2>3 DEF load_module
  <1>5. ASSUME NEW t \in Threads, ResolveFails(t)
        PROVE  LoaderInv' /\ IdsKept
    <2>1. entries' = entries
      BY <1>5 DEF ResolveFails
    <2> QED
      BY <1>0, <1>5, <2>1, ResolveFailsKeeps
  <1>6. ASSUME NEW t \in Threads, StartThread(t) \/ ImportModule(t)
        PROVE  LoaderInv' /\ IdsKept
    <2>1. entries' = entries
      BY <1>6 DEF StartThread, ImportModule
    <2> QED
      BY <1>0, <1>6, <2>1, CallerKeeps
  <1> QED
    BY <1>1, <1>2, <1>3, <1>4, <1>5, <1>6, LoadKeeps, LoadSelfKeeps, ImportFailsKeeps, EndKeeps,
       NotifyKeeps DEF Next, ThreadStep

(* While threads load, share, drop and read modules again, an id names one *)
(* path for ever and the module that is there now, a module in use is not  *)
(* read a second time, tools are told of it at most once and no new one is *)
(* forgotten (vm.cpp load_module, execution_table.cpp load).               *)
THEOREM LoadingIsSound ==
    ASSUME Loading
    PROVE  Spec => LoaderSound
  <1>1. Init => LoaderInv
    BY LoaderStarts
  <1>2. LoaderInv /\ [Next]_vars => LoaderInv'
    BY StepKeeps
  <1>3. LoaderInv /\ [Next]_vars => [IdsKept]_vars
    BY StepKeeps
  <1>4. LoaderInv => TypeOK /\ IdsUnique /\ IdMatches /\ SharedWhileUsed /\ ToldOnce /\ EntryTold
    <2> SUFFICES ASSUME LoaderInv
                 PROVE  IdsUnique
      BY DEF LoaderInv
    <2> SUFFICES ASSUME NEW v \in Vms, NEW i \in DOMAIN entries[v], NEW j \in DOMAIN entries[v], i # j
                 PROVE  /\ entries[v][i].id # entries[v][j].id
                        /\ entries[v][i].path # entries[v][j].path
      BY DEF IdsUnique
    <2>1. /\ entries[v][i].id = Len(entries[v]) - i + 1 /\ entries[v][j].id = Len(entries[v]) - j + 1
          /\ entries[v][i].path # entries[v][j].path
      BY DEF LoaderInv, EntriesInv
    <2>2. i \in Int /\ j \in Int /\ Len(entries[v]) \in Int
      <3>1. entries[v] \in Seq(Entries)
        BY DEF LoaderInv, TypeOK, Entries
      <3> QED
        BY <3>1
    <2> QED
      BY <2>1, <2>2
  <1>5. Spec => []LoaderInv
    BY <1>1, <1>2, PTL DEF Spec
  <1>6. Spec => [][IdsKept]_vars
    BY <1>3, <1>5, PTL DEF Spec
  <1>7. Spec => IdsStable
    BY <1>6 DEF IdsStable, IdsKept
  <1>8. Spec => [](TypeOK /\ IdsUnique /\ IdMatches /\ SharedWhileUsed /\ ToldOnce /\ EntryTold)
    BY <1>4, <1>5, PTL
  <1> QED
    BY <1>7, <1>8, PTL DEF LoaderSound

-----------------------------------------------------------------------------
(* Strings: what holds of every string in use and of every new one.        *)
GoodString(z) ==
    /\ z \in Str!StringRecords
    /\ Len(z.chars) <= MaxLen /\ Len(z.enc.text) <= MaxLen
    /\ z.size = 1 => \A i \in DOMAIN z.chars : z.chars[i] <= Str!MaxAscii
    /\ z.enc.kind = "own" => z.enc.text = z.chars
    /\ z.enc.kind = "self" => z.size = 1

StringsInv ==
    /\ reg \in [Regs -> Str!Objects \cup {Str!Nil}]
    /\ heap \in [Str!Objects -> Str!StringRecords]
    /\ \A o \in Str!Objects : GoodString(heap[o])
    /\ overflow \in BOOLEAN

Contents == [x \in Regs |-> Str!Content(x)]

(* The operators of FiniteSets as module Strings sees them.                *)
LEMMA SameSets ==
    ASSUME NEW S
    PROVE  Str!Cardinality(S) = Cardinality(S) /\ (Str!IsFiniteSet(S) <=> IsFiniteSet(S))
  <1>1. Str!Cardinality(S) = Cardinality(S)
    BY DEF Str!Cardinality, Cardinality
  <1>2. Str!IsFiniteSet(S) <=> IsFiniteSet(S)
    BY DEF Str!IsFiniteSet, IsFiniteSet
  <1> QED
    BY <1>1, <1>2

(* A new string: its form is not cached.                                   *)
LEMMA NewIsGood ==
    ASSUME NEW chars \in Seq(Runes), NEW size \in {1, 4}, NEW alloc \in {TRUE, FALSE}, NEW max \in Nat,
           Len(chars) <= MaxLen, Str!StringsAssumption,
           size = 1 => \A i \in DOMAIN chars : chars[i] <= 127
    PROVE  /\ GoodString(Str!String(chars, size, alloc, max, Str!NotCached))
           /\ Str!String(chars, size, alloc, max, Str!NotCached).chars = chars
  <1>1. Str!NotCached = [kind |-> "none", text |-> <<>>] /\ <<>> \in Seq(Runes)
    BY DEF Str!NotCached, Str!Cached
  <1>2. Str!NotCached \in [kind : {"none", "self", "own"}, text : Seq(Runes)]
    BY <1>1
  <1>3. Str!String(chars, size, alloc, max, Str!NotCached) \in Str!StringRecords
    BY <1>2 DEF Str!String, Str!StringRecords, Str!RuneSize
  <1> QED
    BY <1>1, <1>3 DEF GoodString, Str!String, Str!StringsAssumption, Str!MaxAscii

LEMMA EmptyIsGood ==
    ASSUME Str!StringsAssumption
    PROVE  GoodString(Str!Empty) /\ Str!Empty.chars = <<>> /\ Str!Empty.size = 1
  <1>1. <<>> \in Seq(Runes) /\ Len(<<>>) <= MaxLen /\ Local - 1 \in Nat
    BY DEF Str!StringsAssumption
  <1>2. \A i \in DOMAIN <<>> : <<>>[i] <= 127
    OBVIOUS
  <1>3. /\ GoodString(Str!String(<<>>, 1, FALSE, Local - 1, Str!NotCached))
        /\ Str!String(<<>>, 1, FALSE, Local - 1, Str!NotCached).chars = <<>>
    BY <1>1, <1>2, NewIsGood
  <1> QED
    BY <1>3 DEF Str!Empty, Str!String

LEMMA RoomIsNatural ==
    ASSUME NEW n \in Nat
    PROVE  Str!compute_max_length(n) \in Nat
  BY DEF Str!compute_max_length

(* As many UTF-8 bytes as characters: every character is ASCII.            *)
LEMMA LiteralIsGood ==
    ASSUME Str!StringsAssumption, NEW chars \in Seq(Runes), Len(chars) <= MaxLen
    PROVE  GoodString(Str!FromEncoded(chars)) /\ Str!FromEncoded(chars).chars = chars
  <1> DEFINE W == {i \in DOMAIN chars : chars[i] > Str!MaxAscii}
  <1>1. IsFiniteSet(W) /\ Cardinality(W) \in Nat
    <2>1. DOMAIN chars = 1..Len(chars) /\ Len(chars) \in Nat
      OBVIOUS
    <2>2. IsFiniteSet(DOMAIN chars) /\ W \in SUBSET DOMAIN chars
      BY <2>1, FS_Interval
    <2>3. IsFiniteSet(W)
      BY <2>2, FS_Subset
    <2> QED
      BY <2>3, FS_CardinalityType
  <1>2. Str!CharacterSize(chars) \in {1, 4}
    BY DEF Str!CharacterSize, Str!RuneSize
  <1>3. ASSUME Str!CharacterSize(chars) = 1, NEW i \in DOMAIN chars
        PROVE  chars[i] <= 127
    <2>1. Str!EncodedLength(chars) = Len(chars) + Cardinality(W)
      BY SameSets DEF Str!EncodedLength
    <2>2. Cardinality(W) = 0
      BY <1>1, <1>3, <2>1 DEF Str!CharacterSize, Str!RuneSize
    <2>3. W = {}
      BY <1>1, <2>2, FS_EmptySet
    <2>4. chars[i] \in Runes /\ Runes \subseteq Nat
      BY <1>3 DEF Str!StringsAssumption
    <2>5. i \notin W /\ i \in DOMAIN chars
      BY <1>3, <2>3
    <2>6. ~(chars[i] > 127)
      BY <2>5 DEF Str!MaxAscii
    <2>7. \A k \in Nat : ~(k > 127) => k <= 127
      OBVIOUS
    <2>8. chars[i] \in Nat
      BY <2>4
    <2> QED
      BY <2>6, <2>7, <2>8
  <1>4. Str!compute_max_length(Len(chars)) \in Nat
    BY RoomIsNatural
  <1>5. (Local - 1) \div Str!CharacterSize(chars) \in Nat
    BY <1>2 DEF Str!StringsAssumption
  <1>6. /\ GoodString(Str!String(chars, Str!CharacterSize(chars), TRUE,
                                 Str!compute_max_length(Len(chars)), Str!NotCached))
        /\ Str!String(chars, Str!CharacterSize(chars), TRUE,
                      Str!compute_max_length(Len(chars)), Str!NotCached).chars = chars
    BY <1>2, <1>3, <1>4, NewIsGood
  <1>7. /\ GoodString(Str!String(chars, Str!CharacterSize(chars), FALSE,
                                 (Local - 1) \div Str!CharacterSize(chars), Str!NotCached))
        /\ Str!String(chars, Str!CharacterSize(chars), FALSE,
                      (Local - 1) \div Str!CharacterSize(chars), Str!NotCached).chars = chars
    BY <1>2, <1>3, <1>5, NewIsGood
  <1> QED
    BY <1>6, <1>7 DEF Str!FromEncoded

(* Both strings one after the other.                                       *)
LEMMA CombinedIsGood ==
    ASSUME Str!StringsAssumption, NEW f, NEW g, GoodString(f), GoodString(g),
           Len(f.chars \o g.chars) <= MaxLen
    PROVE  GoodString(Str!Combined(f, g)) /\ Str!Combined(f, g).chars = f.chars \o g.chars
  <1> DEFINE fc == f.chars
             gc == g.chars
             wide == Str!Wider(f.size, g.size)
             room == Str!compute_max_length(Len(fc) + Len(gc))
  <1>1. fc \in Seq(Runes) /\ gc \in Seq(Runes) /\ Len(fc \o gc) <= MaxLen
    BY DEF GoodString, Str!StringRecords
  <1>2. wide \in {1, 4} /\ (wide = 1 => f.size = 1 /\ g.size = 1)
    BY DEF GoodString, Str!StringRecords, Str!RuneSize, Str!Wider
  <1>3. /\ wide = 1 => \A i \in DOMAIN fc : fc[i] <= 127
        /\ wide = 1 => \A i \in DOMAIN gc : gc[i] <= 127
    BY <1>2 DEF GoodString, Str!MaxAscii
  <1>4. Str!Combined(f, g) = Str!String(fc \o gc, wide, TRUE, room, Str!NotCached)
    BY DEF Str!Combined
  <1> HIDE DEF fc, gc, wide
  <1>5. room \in Nat
    BY <1>1, RoomIsNatural
  <1>6. ASSUME wide = 1, NEW i \in DOMAIN (fc \o gc)
        PROVE  (fc \o gc)[i] <= 127
    <2>1. i \in 1..(Len(fc) + Len(gc)) /\ Len(fc) \in Nat /\ Len(gc) \in Nat
      BY <1>1, <1>6
    <2>2. CASE i <= Len(fc)
      BY <1>1, <1>3, <1>6, <2>1, <2>2
    <2>3. CASE i > Len(fc)
      <3>1. (fc \o gc)[i] = gc[i - Len(fc)] /\ i - Len(fc) \in DOMAIN gc
        BY <1>1, <2>1, <2>3
      <3> QED
        BY <1>3, <1>6, <3>1
    <2> QED
      BY <2>1, <2>2, <2>3
  <1>7. fc \o gc \in Seq(Runes)
    BY <1>1
  <1> HIDE DEF room
  <1>8. /\ GoodString(Str!String(fc \o gc, wide, TRUE, room, Str!NotCached))
        /\ Str!String(fc \o gc, wide, TRUE, room, Str!NotCached).chars = fc \o gc
    BY <1>1, <1>2, <1>5, <1>6, <1>7, NewIsGood
  <1> QED
    BY <1>4, <1>8 DEF fc, gc

(* A part of a string, in a string of its owned.                             *)
LEMMA SlicedIsGood ==
    ASSUME Str!StringsAssumption, NEW f, GoodString(f), NEW b \in Int, NEW e \in Int, Str!CanSlice(f, b, e)
    PROVE  /\ GoodString(Str!Sliced(f, b, e))
           /\ Str!Sliced(f, b, e).chars = SubSeq(f.chars, b + 1, e)
  <1> DEFINE fc == f.chars
             fs == f.size
             owned == f.alloc
             room == Str!compute_max_length(e - b)
             piece == SubSeq(fc, b + 1, e)
  <1>1. /\ fc \in Seq(Runes) /\ fs \in {1, 4} /\ Len(fc) <= MaxLen
        /\ owned \in BOOLEAN
    BY DEF GoodString, Str!StringRecords, Str!RuneSize
  <1>2. fs = 1 => \A i \in DOMAIN fc : fc[i] <= 127
    BY DEF GoodString, Str!MaxAscii
  <1>3. Str!Sliced(f, b, e) = Str!String(piece, fs, owned, room, Str!NotCached)
    BY DEF Str!Sliced
  <1>4. 0 <= b /\ b <= e /\ e <= Len(fc)
    BY DEF Str!CanSlice
  <1> HIDE DEF fc, fs, owned
  <1>5. Len(fc) \in Nat /\ MaxLen \in Nat
    BY <1>1 DEF Str!StringsAssumption
  <1>6. room \in Nat
    BY <1>4, RoomIsNatural
  <1>7. piece \in Seq(Runes) /\ Len(piece) = e - b /\ DOMAIN piece = 1..(e - b)
    BY <1>1, <1>4, <1>5
  <1>8. \A i \in 1..(e - b) : piece[i] = fc[b + i] /\ b + i \in DOMAIN fc
    BY <1>1, <1>4, <1>5
  <1>9. fs = 1 => \A i \in DOMAIN piece : piece[i] <= 127
    BY <1>2, <1>7, <1>8
  <1>10. Len(piece) <= MaxLen
    BY <1>1, <1>4, <1>5, <1>7
  <1> HIDE DEF room, piece
  <1>11. /\ GoodString(Str!String(piece, fs, owned, room, Str!NotCached))
         /\ Str!String(piece, fs, owned, room, Str!NotCached).chars = piece
    <2>1. CASE owned = TRUE
      BY <1>1, <1>6, <1>7, <1>9, <1>10, <2>1, NewIsGood
    <2>2. CASE owned = FALSE
      BY <1>1, <1>6, <1>7, <1>9, <1>10, <2>2, NewIsGood
    <2> QED
      BY <1>1, <2>1, <2>2
  <1> QED
    BY <1>3, <1>11 DEF piece, fc

(* A copy of the whole string.                                             *)
LEMMA CopyIsGood ==
    ASSUME Str!StringsAssumption, NEW f, GoodString(f)
    PROVE  /\ GoodString(Str!Sliced(f, 0, Len(f.chars)))
           /\ Str!Sliced(f, 0, Len(f.chars)).chars = f.chars
  <1> DEFINE fc == f.chars
             n == Len(fc)
  <1>1. fc \in Seq(Runes)
    BY DEF GoodString, Str!StringRecords
  <1> HIDE DEF fc
  <1>2. n \in Nat /\ SubSeq(fc, 0 + 1, n) = fc
    BY <1>1
  <1>3. Str!CanSlice(f, 0, n)
    BY <1>2 DEF Str!CanSlice, fc
  <1>4. GoodString(Str!Sliced(f, 0, n)) /\ Str!Sliced(f, 0, n).chars = SubSeq(fc, 0 + 1, n)
    <2> HIDE DEF n
    <2> QED
      BY <1>2, <1>3, SlicedIsGood DEF fc
  <1> QED
    BY <1>2, <1>4 DEF fc

(* One character more or another one, and the representation for it.       *)
LEMMA WithRuneIsGood ==
    ASSUME Str!StringsAssumption, NEW f, GoodString(f), NEW i \in Nat, NEW c \in Runes,
           i <= Len(f.chars), i < MaxLen
    PROVE  GoodString(Str!WithRune(f, i, c)) /\ Str!WithRune(f, i, c).chars = Str!PutChar(f, i, c)
  <1> DEFINE fc == f.chars
             fs == f.size
             owned == f.alloc
             fmax == f.max
             put == Str!PutChar(f, i, c)
             grown == Str!Grown(f)
  <1>1. /\ fc \in Seq(Runes) /\ fs \in {1, 4} /\ Len(fc) <= MaxLen /\ i <= Len(fc)
        /\ fmax \in Nat
        /\ owned \in BOOLEAN
    BY DEF GoodString, Str!StringRecords, Str!RuneSize
  <1>2. c \in Nat /\ MaxLen \in Nat /\ Local - 1 \in Nat
    BY DEF Str!StringsAssumption
  <1>3. grown = IF Len(fc) = 0 THEN Local - 1 ELSE Str!compute_max_length(Len(fc))
    BY DEF Str!Grown
  <1>4. put = IF i = Len(fc) THEN Append(fc, c) ELSE [fc EXCEPT ![i + 1] = c]
    BY DEF Str!PutChar
  <1>5. fs = 1 => \A j \in DOMAIN fc : fc[j] <= 127
    BY DEF GoodString, Str!MaxAscii
  <1>6. Str!Widens(f, c) <=> c > 127 /\ fs = 1
    BY DEF Str!Widens, Str!MaxAscii
  <1>7. Str!WithRune(f, i, c) =
          IF Str!Widens(f, c) THEN Str!String(put, 4, TRUE, grown, Str!NotCached)
          ELSE LET kept1 == IF fs = 1 THEN c % (Str!MaxAscii + 1) ELSE c IN
               IF fmax <= i THEN Str!String(Str!PutChar(f, i, kept1), fs, TRUE, grown, Str!NotCached)
               ELSE Str!String(Str!PutChar(f, i, kept1), fs, owned, fmax, Str!NotCached)
    BY DEF Str!WithRune, Str!NewEnc, Str!RuneSize
  <1> HIDE DEF fc, fs, owned, fmax, put, grown
  <1>9. grown \in Nat
    <2>1. Len(fc) \in Nat
      BY <1>1
    <2> QED
      BY <1>2, <1>3, <2>1, RoomIsNatural
  <1>10. /\ put \in Seq(Runes) /\ Len(put) <= MaxLen
         /\ \A j \in DOMAIN put : put[j] = c \/ (j \in DOMAIN fc /\ put[j] = fc[j])
    <2>1. CASE i = Len(fc)
      <3>1. put = Append(fc, c)
        BY <1>4, <2>1
      <3> QED
        BY <1>1, <1>2, <2>1, <3>1
    <2>2. CASE i # Len(fc)
      <3>1. put = [fc EXCEPT ![i + 1] = c] /\ i + 1 \in DOMAIN fc
        BY <1>1, <1>4, <2>2
      <3> QED
        BY <1>1, <1>2, <2>2, <3>1
    <2> QED
      BY <2>1, <2>2
  <1>11. CASE Str!Widens(f, c)
    <2>1. /\ GoodString(Str!String(put, 4, TRUE, grown, Str!NotCached))
          /\ Str!String(put, 4, TRUE, grown, Str!NotCached).chars = put
      <3>1. 4 \in {1, 4} /\ (4 = 1 => \A j \in DOMAIN put : put[j] <= 127)
        OBVIOUS
      <3>2. put \in Seq(Runes) /\ Len(put) <= MaxLen
        BY <1>10
      <3> QED
        BY ONLY <1>9, <3>1, <3>2, NewIsGood, Str!StringsAssumption
    <2> QED
      BY <1>7, <1>11, <2>1 DEF put
  <1>12. CASE ~Str!Widens(f, c)
    <2>1. fs = 1 => c <= 127 /\ c % 128 = c
      BY <1>2, <1>6, <1>12
    <2>2. (IF fs = 1 THEN c % (Str!MaxAscii + 1) ELSE c) = c
      BY <2>1 DEF Str!MaxAscii
    <2>3. fs = 1 => \A j \in DOMAIN put : put[j] <= 127
      BY <1>5, <1>10, <2>1
    <2>4. Str!WithRune(f, i, c) =
            IF fmax <= i THEN Str!String(put, fs, TRUE, grown, Str!NotCached)
                         ELSE Str!String(put, fs, owned, fmax, Str!NotCached)
      BY <1>7, <1>12, <2>2 DEF put
    <2>5. /\ GoodString(Str!String(put, fs, TRUE, grown, Str!NotCached))
          /\ Str!String(put, fs, TRUE, grown, Str!NotCached).chars = put
      BY <1>1, <1>9, <1>10, <2>3, NewIsGood
    <2>6. /\ GoodString(Str!String(put, fs, owned, fmax, Str!NotCached))
          /\ Str!String(put, fs, owned, fmax, Str!NotCached).chars = put
      <3>1. CASE owned = TRUE
        BY <1>1, <1>10, <2>3, <3>1, NewIsGood
      <3>2. CASE owned = FALSE
        BY <1>1, <1>10, <2>3, <3>2, NewIsGood
      <3> QED
        BY <1>1, <3>1, <3>2
    <2> QED
      BY <2>4, <2>5, <2>6 DEF put
  <1> QED
    BY <1>11, <1>12

(* Asking for the UTF-8 form changes no character.                         *)
LEMMA EncodedIsGood ==
    ASSUME Str!StringsAssumption, NEW f, GoodString(f)
    PROVE  GoodString(Str!Encoded(f)) /\ Str!Encoded(f).chars = f.chars
  <1> DEFINE fc == f.chars
             owned == [kind |-> "own", text |-> fc]
             self == [kind |-> "self", text |-> <<>>]
  <1>1. f \in Str!StringRecords /\ fc \in Seq(Runes) /\ Len(fc) <= MaxLen
    BY DEF GoodString, Str!StringRecords
  <1>2. Str!Encoded(f) \in {f, [f EXCEPT !.enc = owned]}
        \/ (f.size = 1 /\ Str!Encoded(f) = [f EXCEPT !.enc = self])
    BY DEF Str!Encoded, Str!Cached
  <1> HIDE DEF fc
  <1>3. <<>> \in Seq(Runes) /\ Len(<<>>) <= MaxLen
    BY DEF Str!StringsAssumption
  <1>4. /\ owned \in [kind : {"none", "self", "own"}, text : Seq(Runes)]
        /\ self \in [kind : {"none", "self", "own"}, text : Seq(Runes)]
    BY <1>1, <1>3
  <1>5. ASSUME NEW n \in [kind : {"none", "self", "own"}, text : Seq(Runes)]
        PROVE  /\ [f EXCEPT !.enc = n] \in Str!StringRecords
               /\ [f EXCEPT !.enc = n].enc = n
               /\ [f EXCEPT !.enc = n].chars = fc
               /\ [f EXCEPT !.enc = n].size = f.size
    BY <1>1, <1>5 DEF Str!StringRecords, fc
  <1>6. CASE Str!Encoded(f) = f
    BY <1>6 DEF fc
  <1>7. CASE Str!Encoded(f) = [f EXCEPT !.enc = owned]
    <2>1. owned.kind = "own" /\ owned.text = fc
      OBVIOUS
    <2> HIDE DEF owned
    <2> QED
      BY <1>1, <1>4, <1>5, <1>7, <2>1 DEF GoodString, fc
  <1>8. CASE f.size = 1 /\ Str!Encoded(f) = [f EXCEPT !.enc = self]
    <2>1. self.kind = "self" /\ self.text = <<>>
      OBVIOUS
    <2> HIDE DEF self
    <2> QED
      BY <1>1, <1>3, <1>4, <1>5, <1>8, <2>1 DEF GoodString, fc
  <1> QED
    BY <1>2, <1>6, <1>7, <1>8

-----------------------------------------------------------------------------
(* There is a string nothing refers to: more strings than registers.       *)
LEMMA FreshUnused ==
    ASSUME Str!StringsAssumption, StringsInv
    PROVE  Str!Fresh \in Str!Objects /\ \A x \in Regs : reg[x] # Str!Fresh
  <1>1. IsFiniteSet(Regs) /\ Cardinality(Regs) \in Nat /\ Str!Objects = 1..(Cardinality(Regs) + 1)
    <2>1. IsFiniteSet(Regs)
      BY SameSets DEF Str!StringsAssumption
    <2> QED
      BY <2>1, FS_CardinalityType, SameSets DEF Str!Objects
  <1>2. IsFiniteSet(Str!Objects) /\ Cardinality(Str!Objects) = Cardinality(Regs) + 1
    BY <1>1, FS_Interval
  <1>3. \A o \in Str!Objects : Str!RefCount(o) = 0 <=> \A x \in Regs : reg[x] # o
    <2> TAKE o \in Str!Objects
    <2> DEFINE R == {x \in Regs : reg[x] = o}
    <2>1. IsFiniteSet(R)
      <3>1. R \in SUBSET Regs
        OBVIOUS
      <3> QED
        BY <1>1, <3>1, FS_Subset
    <2>2. Str!RefCount(o) = Cardinality(R)
      BY SameSets DEF Str!RefCount
    <2>3. Cardinality(R) = 0 <=> R = {}
      BY <2>1, FS_EmptySet
    <2> QED
      BY <2>2, <2>3
  <1>4. \E o \in Str!Objects : \A x \in Regs : reg[x] # o
    <2> SUFFICES ASSUME \A o \in Str!Objects : \E x \in Regs : reg[x] = o
                 PROVE  FALSE
      OBVIOUS
    <2> DEFINE holder == [o \in Str!Objects |-> CHOOSE x \in Regs : reg[x] = o]
    <2>1. \A o \in Str!Objects : holder[o] \in Regs /\ reg[holder[o]] = o
      OBVIOUS
    <2>2. holder \in [Str!Objects -> Regs]
      BY <2>1
    <2> HIDE DEF holder
    <2>3. Cardinality(Regs) < Cardinality(Str!Objects)
      BY <1>1, <1>2
    <2>4. \E o, q \in Str!Objects : o # q /\ holder[o] = holder[q]
      BY <1>1, <1>2, <2>2, <2>3, FS_PigeonHole
    <2> QED
      BY <2>1, <2>4
  <1>5. \E o \in Str!Objects : Str!RefCount(o) = 0
    BY <1>3, <1>4
  <1>6. Str!Fresh \in Str!Objects /\ Str!RefCount(Str!Fresh) = 0
    BY <1>5 DEF Str!Fresh
  <1> QED
    BY <1>3, <1>6

(* A string that is not shared has one register.                           *)
LEMMA UnsharedAlone ==
    ASSUME Str!StringsAssumption, NEW x \in Regs, ~Str!Shared(reg[x]), NEW y \in Regs, y # x
    PROVE  reg[y] # reg[x]
  <1> SUFFICES ASSUME reg[y] = reg[x]
               PROVE  FALSE
    OBVIOUS
  <1> DEFINE R == {z \in Regs : reg[z] = reg[x]}
             one == {x}
             two == one \cup {y}
  <1>1. IsFiniteSet(R) /\ Cardinality(R) \in Nat
    <2>1. IsFiniteSet(Regs)
      BY SameSets DEF Str!StringsAssumption
    <2>2. R \in SUBSET Regs
      OBVIOUS
    <2>3. IsFiniteSet(R)
      BY <2>1, <2>2, FS_Subset
    <2> QED
      BY <2>3, FS_CardinalityType
  <1>2. IsFiniteSet(one) /\ Cardinality(one) = 1 /\ y \notin one
    BY FS_Singleton
  <1>3. Cardinality(two) = 2
    <2> HIDE DEF one
    <2> QED
      BY <1>2, FS_AddElement
  <1>4. two \in SUBSET R
    OBVIOUS
  <1>5. Cardinality(two) <= Cardinality(R)
    BY <1>1, <1>4, FS_Subset
  <1>6. ~(Cardinality(R) > 1)
    BY SameSets DEF Str!Shared, Str!RefCount
  <1> QED
    BY <1>1, <1>3, <1>5, <1>6

(* What a register holds.                                                  *)
LEMMA ContentIs ==
    ASSUME Str!StringsAssumption
    PROVE  /\ \A x \in Regs : Str!Content(x) = IF reg[x] = 0 THEN <<>> ELSE heap[reg[x]].chars
           /\ \A x \in Regs : Str!Content(x)' = IF reg'[x] = 0 THEN <<>> ELSE heap'[reg'[x]].chars
  <1>1. Str!Empty.chars = <<>>
    BY EmptyIsGood
  <1>2. ASSUME NEW x \in Regs
        PROVE  Str!Content(x) = IF reg[x] = 0 THEN <<>> ELSE heap[reg[x]].chars
    BY <1>1 DEF Str!Content, Str!Deref, Str!Nil
  <1>3. ASSUME NEW x \in Regs
        PROVE  Str!Content(x)' = IF reg'[x] = 0 THEN <<>> ELSE heap'[reg'[x]].chars
    BY <1>1 DEF Str!Content, Str!Deref, Str!Nil
  <1> QED
    BY <1>2, <1>3

(* A register is given a string: nothing else refers to it, or its         *)
(* characters stay.                                                        *)
LEMMA StoreKeeps ==
    ASSUME Str!StringsAssumption, StringsInv, NEW x \in Regs, NEW o \in Str!Objects, NEW z,
           GoodString(z), Str!Store(x, o, z),
           (\A y \in Regs : y # x => reg[y] # o) \/ z.chars = heap[o].chars
    PROVE  StringsInv' /\ (overflow' \/ Contents' = [Contents EXCEPT ![x] = z.chars])
  <1> DEFINE h == [heap EXCEPT ![o] = z]
  <1>1. o # 0 /\ 0 \notin Str!Objects /\ Str!Nil = 0
    BY DEF Str!Objects, Str!Nil
  <1>2. /\ reg' = [reg EXCEPT ![x] = o]
        /\ reg \in [Regs -> Str!Objects \cup {Str!Nil}]
        /\ reg' \in [Regs -> Str!Objects \cup {Str!Nil}]
    BY DEF Str!Store, StringsInv
  <1>3. /\ h \in [Str!Objects -> Str!StringRecords]
        /\ \A q \in Str!Objects : GoodString(h[q])
        /\ h[o] = z
        /\ \A q \in Str!Objects : q # o => h[q] = heap[q]
    BY DEF StringsInv, GoodString
  <1>4. GoodString(Str!Empty) /\ Str!Empty \in Str!StringRecords
    BY EmptyIsGood DEF GoodString
  <1> HIDE DEF h
  <1>5. CASE overflow' = TRUE /\ heap' = heap
    BY <1>2, <1>5 DEF StringsInv
  <1>6. CASE heap' = Str!Collected(h, reg') /\ overflow' = overflow
    <2>1. heap' = [q \in Str!Objects |-> IF \E y \in Regs : reg'[y] = q THEN h[q] ELSE Str!Empty]
      BY <1>6 DEF Str!Collected
    <2>2. \A q \in Str!Objects : heap'[q] \in {h[q], Str!Empty}
      BY <2>1
    <2>3. heap' \in [Str!Objects -> Str!StringRecords]
      BY <1>3, <1>4, <2>1, <2>2
    <2>4. StringsInv'
      BY <1>2, <1>3, <1>4, <1>6, <2>2, <2>3 DEF StringsInv
    <2>5. ASSUME NEW y \in Regs
          PROVE  Str!Content(y)' = IF y = x THEN z.chars ELSE Str!Content(y)
      <3>1. CASE y = x
        <4>1. reg'[y] = o /\ heap'[o] = z
          BY <1>2, <1>3, <2>1, <3>1
        <4> QED
          BY <1>1, <3>1, <4>1, ContentIs
      <3>2. CASE y # x
        <4>1. reg'[y] = reg[y]
          BY <1>2, <3>2
        <4>2. CASE reg[y] = 0
          BY <3>2, <4>1, <4>2, ContentIs
        <4>3. CASE reg[y] # 0
          <5>1. reg[y] \in Str!Objects
            BY <1>1, <1>2, <4>3
          <5>2. heap'[reg[y]] = h[reg[y]]
            BY <2>1, <4>1, <5>1
          <5>3. h[reg[y]].chars = heap[reg[y]].chars
            BY <1>3, <3>2, <5>1
          <5> QED
            BY <3>2, <4>1, <4>3, <5>2, <5>3, ContentIs
        <4> QED
          BY <4>2, <4>3
      <3> QED
        BY <3>1, <3>2
    <2>6. Contents' = [Contents EXCEPT ![x] = z.chars]
      BY <2>5 DEF Contents
    <2> QED
      BY <2>4, <2>6
  <1> QED
    BY <1>1, <1>5, <1>6 DEF Str!Store, h

(* A register is given a string of its own.                                *)
LEMMA NewStringKeeps ==
    ASSUME Str!StringsAssumption, StringsInv, NEW x \in Regs, NEW z,
           GoodString(z), Str!NewString(x, z)
    PROVE  StringsInv' /\ (overflow' \/ Contents' = [Contents EXCEPT ![x] = z.chars])
  <1> DEFINE o == Str!Fresh
  <1>1. o \in Str!Objects /\ \A y \in Regs : reg[y] # o
    BY FreshUnused
  <1>2. Str!Store(x, o, z)
    BY DEF Str!NewString
  <1> HIDE DEF o
  <1> QED
    BY <1>1, <1>2, StoreKeeps

(* What the registers refer to.                                            *)
LEMMA RegistersGood ==
    ASSUME Str!StringsAssumption, StringsInv, NEW x \in Regs
    PROVE  /\ GoodString(Str!Deref(x)) /\ Str!Deref(x).chars = Str!Content(x)
           /\ Str!Content(x) \in Seq(Runes) /\ Len(Str!Content(x)) \in Nat
           /\ Contents[x] = Str!Content(x)
           /\ reg[x] = Str!Nil => Str!Content(x) = <<>>
           /\ reg[x] # Str!Nil => /\ reg[x] \in Str!Objects
                                  /\ Str!Deref(x) = heap[reg[x]]
                                  /\ Str!Content(x) = heap[reg[x]].chars
  <1>3. GoodString(Str!Deref(x))
    <2>1. reg[x] = Str!Nil => Str!Deref(x) = Str!Empty
      BY DEF Str!Deref
    <2>2. reg[x] # Str!Nil => reg[x] \in Str!Objects /\ Str!Deref(x) = heap[reg[x]]
      BY DEF Str!Deref, StringsInv
    <2> QED
      BY <2>1, <2>2, EmptyIsGood DEF StringsInv
  <1>4. Str!Deref(x).chars = Str!Content(x) /\ Contents[x] = Str!Content(x)
    BY DEF Str!Content, Contents
  <1>5. Str!Content(x) \in Seq(Runes)
    BY <1>3, <1>4 DEF GoodString, Str!StringRecords
  <1>6. reg[x] = Str!Nil => Str!Content(x) = <<>>
    BY EmptyIsGood DEF Str!Content, Str!Deref
  <1>7. reg[x] # Str!Nil => /\ reg[x] \in Str!Objects
                            /\ Str!Deref(x) = heap[reg[x]]
                            /\ Str!Content(x) = heap[reg[x]].chars
    BY DEF Str!Content, Str!Deref, StringsInv
  <1>8. Len(Str!Content(x)) \in Nat
    BY <1>5
  <1> QED
    BY <1>3, <1>4, <1>5, <1>6, <1>7, <1>8

LEMMA LiteralKeeps ==
    ASSUME Str!StringsAssumption, StringsInv, NEW x \in Regs, Str!Literal(x)
    PROVE  StringsInv' /\ (overflow' \/ Str!Values!Literal(x))
  <1>1. PICK s0 \in UNION {[1..n -> Runes] : n \in 0..MaxLiteral} : Str!NewString(x, Str!FromEncoded(s0))
    BY DEF Str!Literal
  <1>2. s0 \in Seq(Runes) /\ Len(s0) <= MaxLen
    <2>1. PICK n \in 0..MaxLiteral : s0 \in [1..n -> Runes]
      OBVIOUS
    <2>2. n \in Nat /\ n <= MaxLen
      BY DEF Str!StringsAssumption
    <2> QED
      BY <2>1, <2>2
  <1>3. StringsInv' /\ (overflow' \/ Contents' = [Contents EXCEPT ![x] = s0])
    <2>1. GoodString(Str!FromEncoded(s0)) /\ Str!FromEncoded(s0).chars = s0
      BY <1>2, LiteralIsGood
    <2> QED
      BY <1>1, <2>1, NewStringKeeps
  <1> QED
    BY <1>3 DEF Str!Values!Literal, Str!Values!Set, Contents

LEMMA MoveKeeps ==
    ASSUME Str!StringsAssumption, StringsInv, NEW x \in Regs, NEW y \in Regs, Str!Move(x, y)
    PROVE  StringsInv' /\ (overflow' \/ Str!Values!Move(x, y))
  <1> DEFINE o == reg[y]
             z == heap[reg[y]]
  <1>1. o \in Str!Objects /\ z.chars = Str!Content(y) /\ z.chars = heap[o].chars
        /\ Contents[y] = Str!Content(y) /\ GoodString(z)
    BY RegistersGood DEF Str!Move
  <1>2. Str!Store(x, o, z)
    BY DEF Str!Move
  <1> HIDE DEF o, z
  <1>3. StringsInv' /\ (overflow' \/ Contents' = [Contents EXCEPT ![x] = Contents[y]])
    <2>1. StringsInv' /\ (overflow' \/ Contents' = [Contents EXCEPT ![x] = z.chars])
      BY <1>1, <1>2, StoreKeeps
    <2> QED
      BY <1>1, <2>1
  <1> QED
    BY <1>3 DEF Str!Values!Move, Str!Values!Set, Contents

LEMMA StrKeeps ==
    ASSUME Str!StringsAssumption, StringsInv, NEW x \in Regs, Str!str(x)
    PROVE  StringsInv' /\ (overflow' \/ Contents' = Contents)
  <1> DEFINE o == reg[x]
             z == Str!Encoded(Str!Deref(x))
  <1>1. o \in Str!Objects /\ GoodString(z) /\ z.chars = Str!Content(x) /\ z.chars = heap[o].chars
        /\ Contents[x] = Str!Content(x)
    BY RegistersGood, EncodedIsGood DEF Str!str
  <1>2. Str!Store(x, o, z)
    BY DEF Str!str
  <1> HIDE DEF o, z
  <1>3. StringsInv' /\ (overflow' \/ Contents' = [Contents EXCEPT ![x] = Contents[x]])
    BY <1>1, <1>2, StoreKeeps
  <1>4. [Contents EXCEPT ![x] = Contents[x]] = Contents
    BY DEF Contents
  <1> QED
    BY <1>3, <1>4

LEMMA InscKeeps ==
    ASSUME Str!StringsAssumption, StringsInv, NEW x \in Regs, NEW i \in 0..MaxLen, NEW c \in Runes,
           Str!insc(x, i, c)
    PROVE  StringsInv' /\ (overflow' \/ Str!Values!Insert(x, i, c))
  <1> DEFINE old == Str!Content(x)
             new == IF i = Len(old) THEN Append(old, c) ELSE [old EXCEPT ![i + 1] = c]
  <1>1. i \in Nat /\ i <= Len(old) /\ i < MaxLen /\ i \in 0..Len(old)
    BY DEF Str!insc, Str!StringsAssumption
  <1>2. ASSUME NEW f, GoodString(f), f.chars = old
        PROVE  GoodString(Str!WithRune(f, i, c)) /\ Str!WithRune(f, i, c).chars = new
    <2>1. GoodString(Str!WithRune(f, i, c)) /\ Str!WithRune(f, i, c).chars = Str!PutChar(f, i, c)
      BY <1>1, <1>2, WithRuneIsGood
    <2>2. Str!PutChar(f, i, c) = new
      BY <1>2 DEF Str!PutChar
    <2> QED
      BY <2>1, <2>2
  <1> HIDE DEF new
  <1>3. StringsInv' /\ (overflow' \/ Contents' = [Contents EXCEPT ![x] = new])
    <2>1. CASE reg[x] = Str!Nil
      <3> DEFINE z == Str!WithRune(Str!Empty, i, c)
      <3>1. Str!NewString(x, z)
        BY <2>1 DEF Str!insc
      <3>2. GoodString(z) /\ z.chars = new
        BY <1>2, <2>1, EmptyIsGood, RegistersGood
      <3> HIDE DEF z
      <3> QED
        BY <3>1, <3>2, NewStringKeeps
    <2>2. CASE reg[x] # Str!Nil /\ Str!Shared(reg[x])
      <3> DEFINE z == Str!WithRune(Str!Sliced(Str!Deref(x), 0, Len(old)), i, c)
      <3>1. Str!NewString(x, z)
        BY <2>2 DEF Str!insc
      <3>2. GoodString(Str!Deref(x)) /\ Str!Deref(x).chars = old
        BY RegistersGood
      <3>3. GoodString(Str!Sliced(Str!Deref(x), 0, Len(old))) /\ Str!Sliced(Str!Deref(x), 0, Len(old)).chars = old
        <4> HIDE DEF old
        <4> QED
          BY <3>2, CopyIsGood
      <3>4. GoodString(z) /\ z.chars = new
        BY <1>2, <3>3
      <3> HIDE DEF z
      <3> QED
        BY <3>1, <3>4, NewStringKeeps
    <2>3. CASE reg[x] # Str!Nil /\ ~Str!Shared(reg[x])
      <3> DEFINE z == Str!WithRune(Str!Deref(x), i, c)
                 o == reg[x]
      <3>1. Str!Store(x, o, z)
        BY <2>3 DEF Str!insc
      <3>2. o \in Str!Objects /\ GoodString(z) /\ z.chars = new
        BY <1>2, <2>3, RegistersGood
      <3>3. \A y \in Regs : y # x => reg[y] # o
        BY <2>3, UnsharedAlone
      <3> HIDE DEF z, o
      <3> QED
        BY <3>1, <3>2, <3>3, StoreKeeps
    <2> QED
      BY <2>1, <2>2, <2>3
  <1>4. Contents[x] = old
    BY RegistersGood
  <1>5. StringsInv' /\ (overflow' \/ Contents' = [Contents EXCEPT ![x] =
          IF i = Len(Contents[x]) THEN Append(Contents[x], c) ELSE [Contents[x] EXCEPT ![i + 1] = c]])
    BY <1>3, <1>4 DEF new
  <1>6. i \in 0..Len(Contents[x])
    BY <1>1, <1>4
  <1> QED
    BY <1>5, <1>6 DEF Str!Values!Insert, Str!Values!Set, Contents

LEMMA SlicecKeeps ==
    ASSUME Str!StringsAssumption, StringsInv, NEW x \in Regs, NEW b \in 0..MaxLen, NEW e \in 0..MaxLen,
           Str!slicec(x, b, e)
    PROVE  StringsInv' /\ (overflow' \/ Contents' = Contents \/ Str!Values!Slice(x, b, e))
  <1>1. b \in Int /\ e \in Int
    BY DEF Str!StringsAssumption
  <1>2. CASE reg[x] = Str!Nil
    <2>1. reg' = reg /\ heap' = Str!Collected(heap, reg') /\ overflow' = overflow
      <3>1. Str!Store(x, Str!Nil, Str!Empty)
        BY <1>2 DEF Str!slicec
      <3>2. [reg EXCEPT ![x] = Str!Nil] = reg
        BY <1>2 DEF StringsInv
      <3> QED
        BY <3>1, <3>2 DEF Str!Store
    <2>2. heap' = [q \in Str!Objects |-> IF \E y \in Regs : reg'[y] = q THEN heap[q] ELSE Str!Empty]
      BY <2>1 DEF Str!Collected
    <2>3. GoodString(Str!Empty) /\ Str!Empty \in Str!StringRecords
      BY EmptyIsGood DEF GoodString
    <2>4. \A q \in Str!Objects : heap'[q] \in {heap[q], Str!Empty}
      BY <2>2
    <2>5. StringsInv'
      BY <2>1, <2>2, <2>3, <2>4 DEF StringsInv
    <2>6. ASSUME NEW y \in Regs
          PROVE  Str!Content(y)' = Str!Content(y)
      <3>1. reg[y] # 0 => heap'[reg[y]] = heap[reg[y]]
        BY <2>1, <2>2 DEF StringsInv, Str!Nil
      <3> QED
        BY <2>1, <3>1, ContentIs
    <2> QED
      BY <2>5, <2>6 DEF Contents
  <1>3. CASE reg[x] # Str!Nil
    <2> DEFINE old == Str!Content(x)
               z == Str!Sliced(Str!Deref(x), b, e)
    <2>1. Str!CanSlice(Str!Deref(x), b, e) /\ Str!NewString(x, z)
      BY <1>3 DEF Str!slicec
    <2>2. GoodString(Str!Deref(x)) /\ Str!Deref(x).chars = old /\ Contents[x] = old
      BY RegistersGood
    <2>3. 0 <= b /\ b <= e /\ e <= Len(old)
      BY <2>1, <2>2 DEF Str!CanSlice
    <2>4. GoodString(z) /\ z.chars = SubSeq(old, b + 1, e)
      BY <1>1, <2>1, <2>2, SlicedIsGood
    <2> HIDE DEF z, old
    <2>5. StringsInv' /\ (overflow' \/ Contents' = [Contents EXCEPT ![x] = SubSeq(old, b + 1, e)])
      <3>1. StringsInv' /\ (overflow' \/ Contents' = [Contents EXCEPT ![x] = z.chars])
        BY <2>1, <2>4, NewStringKeeps
      <3> QED
        BY <2>4, <3>1
    <2> QED
      BY <2>2, <2>3, <2>5 DEF Str!Values!Slice, Str!Values!Set, Contents
  <1> QED
    BY <1>2, <1>3

LEMMA AddcKeeps ==
    ASSUME Str!StringsAssumption, StringsInv, NEW x \in Regs, NEW y \in Regs, NEW z \in Regs,
           Str!addc(x, y, z)
    PROVE  StringsInv' /\ (overflow' \/ Str!Values!Concat(x, y, z))
  <1> DEFINE first == Str!Content(y)
             second == Str!Content(z)
             both == first \o second
             fy == Str!Deref(y)
             fz == Str!Deref(z)
  <1>1. /\ first \in Seq(Runes) /\ second \in Seq(Runes) /\ Len(first) + Len(second) <= MaxLen
        /\ GoodString(fy) /\ fy.chars = first /\ GoodString(fz) /\ fz.chars = second
        /\ Contents[y] = first /\ Contents[z] = second
        /\ reg[y] = Str!Nil => first = <<>>
        /\ reg[z] = Str!Nil => second = <<>>
    BY RegistersGood DEF Str!addc
  <1>2. /\ GoodString(Str!Sliced(fy, 0, Len(first))) /\ Str!Sliced(fy, 0, Len(first)).chars = first
        /\ GoodString(Str!Sliced(fz, 0, Len(second))) /\ Str!Sliced(fz, 0, Len(second)).chars = second
    <2> HIDE DEF fy, fz, first, second
    <2>1. GoodString(Str!Sliced(fy, 0, Len(first))) /\ Str!Sliced(fy, 0, Len(first)).chars = first
      BY <1>1, CopyIsGood
    <2>2. GoodString(Str!Sliced(fz, 0, Len(second))) /\ Str!Sliced(fz, 0, Len(second)).chars = second
      BY <1>1, CopyIsGood
    <2> QED
      BY <2>1, <2>2
  <1>3. GoodString(Str!Combined(fy, fz)) /\ Str!Combined(fy, fz).chars = both
    <2> HIDE DEF fy, fz, first, second
    <2>1. Len(both) <= MaxLen
      BY <1>1
    <2> QED
      BY <1>1, <2>1, CombinedIsGood
  <1>4. /\ first = <<>> => both = second
        /\ second = <<>> => both = first
    <2> HIDE DEF first, second
    <2> QED
      BY <1>1
  <1>5. StringsInv' /\ (overflow' \/ Contents' = [Contents EXCEPT ![x] = both])
    <2>1. CASE reg[y] = Str!Nil
      <3>1. PICK r : /\ r = IF reg[z] = Str!Nil THEN Str!Empty ELSE Str!Sliced(fz, 0, Len(second))
                     /\ Str!NewString(x, r)
        BY <2>1 DEF Str!addc
      <3>2. GoodString(r) /\ r.chars = both
        BY <1>1, <1>2, <1>4, <2>1, <3>1, EmptyIsGood
      <3> HIDE DEF both
      <3> QED
        BY <3>1, <3>2, NewStringKeeps
    <2>2. CASE reg[y] # Str!Nil /\ x = y /\ ~Str!Shared(reg[y])
      <3>1. PICK r : /\ r = IF reg[z] = Str!Nil THEN fy ELSE Str!Appended(fy, fz)
                     /\ Str!Store(x, reg[x], r)
        BY <2>2 DEF Str!addc
      <3>2. GoodString(r) /\ r.chars = both
        <4>1. r = fy \/ r = Str!Combined(fy, fz)
          BY <3>1 DEF Str!Appended
        <4>2. r = fy => second = <<>> \/ r = Str!Combined(fy, fz)
          BY <1>1, <3>1 DEF Str!Appended
        <4> HIDE DEF fy, fz, first, second, both
        <4> QED
          BY <1>1, <1>3, <1>4, <4>1, <4>2
      <3>3. reg[x] \in Str!Objects /\ \A w \in Regs : w # x => reg[w] # reg[x]
        BY <2>2, RegistersGood, UnsharedAlone
      <3> HIDE DEF both
      <3> QED
        BY <3>1, <3>2, <3>3, StoreKeeps
    <2>3. CASE reg[y] # Str!Nil /\ ~(x = y /\ ~Str!Shared(reg[y]))
      <3>1. PICK r : /\ r = IF reg[z] = Str!Nil THEN Str!Sliced(fy, 0, Len(first)) ELSE Str!Combined(fy, fz)
                     /\ Str!NewString(x, r)
        BY <2>3 DEF Str!addc
      <3>2. GoodString(r) /\ r.chars = both
        BY <1>1, <1>2, <1>3, <1>4, <3>1
      <3> HIDE DEF both
      <3> QED
        BY <3>1, <3>2, NewStringKeeps
    <2> QED
      BY <2>1, <2>2, <2>3
  <1>6. StringsInv' /\ (overflow' \/ Contents' = [Contents EXCEPT ![x] = Contents[y] \o Contents[z]])
    BY <1>1, <1>5
  <1> QED
    BY <1>6 DEF Str!Values!Concat, Str!Values!Set, Contents

-----------------------------------------------------------------------------
(* Sequences of ASCII characters compare as bytes as they do as characters.*)
LEMMA BytesCompare ==
    ASSUME Str!StringsAssumption, NEW f, NEW g, GoodString(f), GoodString(g), f.size = 1 \/ g.size = 1
    PROVE  Str!compare(f, g) = Str!Lexical(f.chars, g.chars)
  <1> DEFINE n == Str!Shorter(Len(f.chars), Len(g.chars))
             Bytes(t) == [k \in 1..n |-> Str!ByteAt(t, k)]
             D == {k \in 1..n : f.chars[k] # g.chars[k]}
  <1>1. CASE f.size # g.size
    BY <1>1 DEF Str!compare, Str!Lexical, Str!CompareLengths
  <1>2. CASE f.size = g.size
    <2>1. \A k \in 1..n : Bytes(f)[k] = f.chars[k] /\ Bytes(g)[k] = g.chars[k]
      BY <1>2 DEF Str!ByteAt
    <2>2. D # {} => (CHOOSE i \in D : \A j \in D : i <= j) \in D
      <3> SUFFICES ASSUME D # {}
                   PROVE  \E i \in D : \A j \in D : i <= j
        OBVIOUS
      <3>1. D \subseteq Nat
        OBVIOUS
      <3> DEFINE R == {ss \in Nat \X Nat : ss[1] < ss[2]}
      <3>2. IsWellFoundedOn(R, Nat)
        BY Zenon, NatLessThanWellFounded DEF OpToRel
      <3>3. \E i \in D : \A j \in D : ~(<<j, i>> \in R)
        <4> HIDE DEF D, R
        <4> QED
          BY <3>1, <3>2, WFMin
      <3>4. \A i, j \in D : ~(<<j, i>> \in R) => i <= j
        <4> HIDE DEF D
        <4> QED
          BY <3>1
      <3> QED
        BY <3>3, <3>4
    <2>3. {k \in 1..n : Bytes(f)[k] # Bytes(g)[k]} = D
      BY <2>1
    <2>4. Str!FirstDifference(n, Bytes(f), Bytes(g)) = Str!FirstDifference(n, f.chars, g.chars)
      <3> DEFINE F == Bytes(f)
                 G == Bytes(g)
                 E == {k \in 1..n : F[k] # G[k]}
                 low(S) == CHOOSE i \in S : \A j \in S : i <= j
      <3>1. E = D
        BY <2>3
      <3>2. D # {} => F[low(D)] = f.chars[low(D)] /\ G[low(D)] = g.chars[low(D)]
        BY <2>1, <2>2
      <3>3. Str!FirstDifference(n, F, G)
              = IF E = {} THEN 0 ELSE Str!Sign(F[low(E)], G[low(E)])
        <4> HIDE DEF F, G
        <4> QED
          BY DEF Str!FirstDifference
      <3>4. Str!FirstDifference(n, f.chars, g.chars)
              = IF D = {} THEN 0 ELSE Str!Sign(f.chars[low(D)], g.chars[low(D)])
        BY DEF Str!FirstDifference
      <3>5. Str!FirstDifference(n, F, G) = Str!FirstDifference(n, f.chars, g.chars)
        <4> DEFINE fl == f.chars[low(D)]
                   gl == g.chars[low(D)]
        <4>1. CASE D = {}
          BY <3>1, <3>3, <3>4, <4>1
        <4>2. CASE D # {}
          <5>1. F[low(D)] = fl /\ G[low(D)] = gl
            BY <3>2, <4>2
          <5>2. Str!FirstDifference(n, F, G) = Str!Sign(F[low(E)], G[low(E)])
            <6> HIDE DEF D, E, F, G, n, low
            <6> QED
              BY <3>1, <3>3, <4>2
          <5>3. F[low(E)] = F[low(D)] /\ G[low(E)] = G[low(D)]
            <6> HIDE DEF D, E, F, G, n, low
            <6> QED
              BY <3>1
          <5>4. Str!FirstDifference(n, f.chars, g.chars) = Str!Sign(fl, gl)
            <6> HIDE DEF D, n, low
            <6> QED
              BY <3>4, <4>2
          <5> HIDE DEF D, E, F, G, n, low, fl, gl
          <5> QED
            BY <5>1, <5>2, <5>3, <5>4
        <4> QED
          BY <4>1, <4>2
      <3> QED
        BY <3>5
    <2> QED
      BY <1>2, <2>4 DEF Str!compare, Str!Lexical, Str!CompareLengths
  <1> QED
    BY <1>1, <1>2

-----------------------------------------------------------------------------
(* Every instruction keeps the invariant and sets one value, or none.      *)
LEMMA StringsKeep ==
    ASSUME Str!StringsAssumption, StringsInv, [Str!Next]_stringVars
    PROVE  StringsInv' /\ (overflow' \/ Contents' = Contents \/ Str!Values!Next)
  <1>1. CASE UNCHANGED stringVars
    BY <1>1 DEF stringVars, StringsInv, Contents, Str!Content, Str!Deref
  <1>2. CASE Str!Next
    <2>1. PICK x \in Regs :
            \/ Str!Literal(x)
            \/ \E y \in Regs : Str!Move(x, y)
            \/ \E i \in 0..MaxLen, c \in Runes : Str!insc(x, i, c)
            \/ \E y, z \in Regs : Str!addc(x, y, z)
            \/ \E b, e \in 0..MaxLen : Str!slicec(x, b, e)
            \/ Str!str(x)
      BY <1>2 DEF Str!Next
    <2>2. CASE Str!Literal(x)
      BY <2>2, LiteralKeeps DEF Str!Values!Next
    <2>3. ASSUME NEW y \in Regs, Str!Move(x, y)
          PROVE  StringsInv' /\ (overflow' \/ Contents' = Contents \/ Str!Values!Next)
      BY <2>3, MoveKeeps DEF Str!Values!Next
    <2>4. ASSUME NEW i \in 0..MaxLen, NEW c \in Runes, Str!insc(x, i, c)
          PROVE  StringsInv' /\ (overflow' \/ Contents' = Contents \/ Str!Values!Next)
      BY <2>4, InscKeeps DEF Str!Values!Next
    <2>5. ASSUME NEW y \in Regs, NEW z \in Regs, Str!addc(x, y, z)
          PROVE  StringsInv' /\ (overflow' \/ Contents' = Contents \/ Str!Values!Next)
      BY <2>5, AddcKeeps DEF Str!Values!Next
    <2>6. ASSUME NEW b \in 0..MaxLen, NEW e \in 0..MaxLen, Str!slicec(x, b, e)
          PROVE  StringsInv' /\ (overflow' \/ Contents' = Contents \/ Str!Values!Next)
      BY <2>6, SlicecKeeps DEF Str!Values!Next
    <2>7. CASE Str!str(x)
      BY <2>7, StrKeeps
    <2> QED
      BY <2>1, <2>2, <2>3, <2>4, <2>5, <2>6, <2>7
  <1> QED
    BY <1>1, <1>2

LEMMA StringsStart ==
    ASSUME Str!StringsAssumption, Str!Init
    PROVE  StringsInv
  BY EmptyIsGood DEF Str!Init, StringsInv, GoodString

LEMMA StringsInvSound ==
    ASSUME Str!StringsAssumption, StringsInv
    PROVE  StringsSound
  <1>1. Str!TypeOK
    BY DEF StringsInv, Str!TypeOK, GoodString
  <1>2. Str!Narrow /\ Str!CacheFresh
    BY DEF StringsInv, Str!Narrow, Str!CacheFresh, GoodString
  <1>3. ASSUME NEW x \in Regs, NEW y \in Regs, Str!Deref(x).size = 1 \/ Str!Deref(y).size = 1
        PROVE  Str!compare(Str!Deref(x), Str!Deref(y)) = Str!Lexical(Str!Content(x), Str!Content(y))
    <2> DEFINE f == Str!Deref(x)
               g == Str!Deref(y)
    <2>1. GoodString(f) /\ GoodString(g) /\ f.chars = Str!Content(x) /\ g.chars = Str!Content(y)
          /\ (f.size = 1 \/ g.size = 1)
      BY <1>3, RegistersGood
    <2> HIDE DEF f, g
    <2>2. Str!compare(f, g) = Str!Lexical(f.chars, g.chars)
      BY <2>1, BytesCompare
    <2> QED
      BY <2>1, <2>2 DEF f, g
  <1>4. Str!ComparesNarrow
    BY <1>3 DEF Str!ComparesNarrow
  <1> QED
    BY <1>1, <1>2, <1>4 DEF StringsSound

(* Every step of a program leaves the strings alone or is one of theirs.   *)
LEMMA ProgramStep ==
    ASSUME [ProgramNext]_<<part, vars, stackVars, valueVars>>
    PROVE  [Str!Next]_stringVars
  BY DEF ProgramNext, LoaderMoves, StackMoves, StringsMove, Utf8Moves, ArithMoves, TokensMove, valueVars, stringVars

(* For any registers, runes, size of the local buffer and bound on         *)
(* lengths: a string of one byte per character is ASCII, its cached UTF-8  *)
(* form is the one of its present characters, and it compares with any     *)
(* other as its characters do (vm_string.cpp set_rune, str, compare).      *)
THEOREM StringsAlwaysSound ==
    ASSUME Str!StringsAssumption
    PROVE  ProgramSpec => []StringsSound
  <1>1. ProgramInit => StringsInv
    BY StringsStart DEF ProgramInit
  <1>2. StringsInv /\ [ProgramNext]_<<part, vars, stackVars, valueVars>> => StringsInv'
    BY ProgramStep, StringsKeep
  <1>3. StringsInv => StringsSound
    BY StringsInvSound
  <1> QED
    BY <1>1, <1>2, <1>3, PTL DEF ProgramSpec

(* Shared strings that change in place behave as values: an instruction    *)
(* changes what its destination holds, as its definition on sequences of   *)
(* runes says, and no other register (execution_table.cpp insc, addc,      *)
(* slicec, vm_string.cpp).                                                 *)
THEOREM StringsAreValues ==
    ASSUME Str!StringsAssumption
    PROVE  ProgramSpec => ValueSemantics
  <1>1. ProgramInit => StringsInv
    BY StringsStart DEF ProgramInit
  <1>2. StringsInv /\ [ProgramNext]_<<part, vars, stackVars, valueVars>> => StringsInv'
    BY ProgramStep, StringsKeep
  <1>3. StringsInv /\ [ProgramNext]_<<part, vars, stackVars, valueVars>>
          => [overflow' \/ Str!Values!Next]_<<[x \in Regs |-> Str!Content(x)]>>
    BY ProgramStep, StringsKeep DEF Contents
  <1>4. ProgramSpec => [][overflow' \/ Str!Values!Next]_<<[x \in Regs |-> Str!Content(x)]>>
    BY <1>1, <1>2, <1>3, PTL DEF ProgramSpec
  <1> QED
    BY <1>4, PTL DEF ValueSemantics, Str!ValueSemantics

-----------------------------------------------------------------------------
(* The stack of a thread: any constants that fit.                          *)
FramesFit == Frames!StackAssumption

(* Induction over the naturals, by the least counterexample.               *)
LEMMA LeastNatural ==
    ASSUME NEW D \in SUBSET Nat, D # {}
    PROVE  \E i \in D : \A j \in D : i <= j
  <1> DEFINE R == {ss \in Nat \X Nat : ss[1] < ss[2]}
  <1>1. IsWellFoundedOn(R, Nat)
    BY Zenon, NatLessThanWellFounded DEF OpToRel
  <1>2. \E i \in D : \A j \in D : ~(<<j, i>> \in R)
    <2> HIDE DEF R
    <2> QED
      BY <1>1, WFMin
  <1>3. \A i, j \in D : ~(<<j, i>> \in R) => i <= j
    OBVIOUS
  <1> QED
    BY <1>2, <1>3

LEMMA FrameParts ==
    ASSUME NEW f \in Frames!Frame
    PROVE  /\ f.page \in Nat \ {0} /\ f.off \in Nat /\ f.size \in Nat \ {0}
           /\ f.prevPc \in Int /\ f.prevMod \in Frames!All \cup {None}
           /\ Frames!Where(f) \in Frames!Spot
           /\ Frames!Where(f).page = f.page /\ Frames!Where(f).off = f.off
           /\ Frames!Where(f).size = f.size
  BY DEF Frames!Frame, Frames!Spot, Frames!Where

(* A frame that is further up lies on a later page or behind the other.    *)
LEMMA FramesInOrder ==
    ASSUME FramesFit, NEW q, Frames!Layout(q), NEW i \in 1 .. Len(q), NEW j \in 1 .. Len(q), i < j
    PROVE  \/ q[i].page < q[j].page
           \/ q[i].page = q[j].page /\ q[i].off + q[i].size <= q[j].off
  <1> DEFINE Before(m) == \/ q[i].page < q[m].page
                          \/ q[i].page = q[m].page /\ q[i].off + q[i].size <= q[m].off
             D == {m \in i + 1 .. Len(q) : ~Before(m)}
  <1>0. q \in Seq(Frames!Frame) /\ Len(q) \in Nat
    BY DEF Frames!Layout
  <1>1. \A m \in 1 .. Len(q) : q[m].page \in Nat /\ q[m].off \in Nat /\ q[m].size \in Nat /\ q[m].size > 0
    <2> SUFFICES ASSUME NEW m \in 1 .. Len(q)
                 PROVE  q[m].page \in Nat /\ q[m].off \in Nat /\ q[m].size \in Nat /\ q[m].size > 0
      OBVIOUS
    <2>1. q[m] \in Frames!Frame
      BY <1>0
    <2> QED
      BY <2>1, FrameParts
  <1>2. \A m \in 1 .. Len(q) - 1 : \/ q[m + 1].page = q[m].page /\ q[m + 1].off = q[m].off + q[m].size
                                   \/ q[m + 1].page = q[m].page + 1 /\ q[m + 1].off = 0
    BY DEF Frames!Layout, Frames!Adjacent
  <1>3. Before(i + 1)
    BY <1>0, <1>1, <1>2
  <1>4. ASSUME NEW m \in i + 1 .. Len(q) - 1, Before(m) PROVE Before(m + 1)
    <2>1. m \in 1 .. Len(q) - 1 /\ m \in 1 .. Len(q) /\ m + 1 \in 1 .. Len(q)
      BY <1>0
    <2>2. /\ q[i].page \in Nat /\ q[i].off \in Nat /\ q[i].size \in Nat
          /\ q[m].page \in Nat /\ q[m].off \in Nat /\ q[m].size \in Nat
          /\ q[m + 1].page \in Nat /\ q[m + 1].off \in Nat
      BY <1>1, <2>1
    <2>3. \/ q[m + 1].page = q[m].page /\ q[m + 1].off = q[m].off + q[m].size
          \/ q[m + 1].page = q[m].page + 1 /\ q[m + 1].off = 0
      BY <1>2, <2>1
    <2>4. \/ q[i].page < q[m].page
          \/ q[i].page = q[m].page /\ q[i].off + q[i].size <= q[m].off
      BY <1>4
    <2>5. CASE q[m + 1].page = q[m].page /\ q[m + 1].off = q[m].off + q[m].size
      <3> DEFINE a == q[m].off
                 b == q[m].size
                 c == q[m + 1].off
                 d == q[i].off + q[i].size
      <3>1. a \in Nat /\ b \in Nat /\ c = a + b /\ d \in Nat
        <4>1. a \in Nat /\ b \in Nat
          BY <2>2
        <4>2. c = a + b
          BY Zenon, <2>5
        <4>3. d \in Nat
          <5>1. \A x, y \in Nat : x + y \in Nat
            OBVIOUS
          <5> QED
            BY Zenon, <2>2, <5>1
        <4> QED
          BY Zenon, <4>1, <4>2, <4>3
      <3> HIDE DEF a, b, c, d
      <3>2. d <= a => d <= c
        BY <3>1
      <3> QED
        BY <2>4, <2>5, <3>2 DEF a, c, d
    <2>6. CASE q[m + 1].page = q[m].page + 1 /\ q[m + 1].off = 0
      BY ONLY <2>2, <2>4, <2>6
    <2> QED
      BY <2>3, <2>5, <2>6
  <1> HIDE DEF Before
  <1>5. D = {}
    <2> SUFFICES ASSUME D # {} PROVE FALSE
      OBVIOUS
    <2>1. D \subseteq Nat
      BY <1>0
    <2>2. PICK m \in D : \A k \in D : m <= k
      BY <2>1, LeastNatural
    <2>3. m # i + 1
      BY <2>2, <1>3
    <2>4. m - 1 \in i + 1 .. Len(q) - 1 /\ (m - 1) + 1 = m
      BY <2>2, <2>3, <1>0
    <2>5. m - 1 \notin D
      BY <2>2, <2>4
    <2>6. Before(m - 1)
      BY <2>4, <2>5, <1>0
    <2>7. PICK k \in i + 1 .. Len(q) - 1 : k + 1 = m /\ Before(k)
      BY <2>4, <2>6
    <2>8. Before(k + 1)
      BY <2>7, <1>4
    <2> QED
      BY <2>2, <2>7, <2>8
  <1>6. j \in i + 1 .. Len(q)
    BY <1>0
  <1>7. Before(j)
    BY <1>5, <1>6
  <1> QED
    BY <1>7 DEF Before

(* What the layout says of a stack without its top frame.                  *)
LEMMA LayoutBelow ==
    ASSUME FramesFit, NEW q, Frames!Layout(q), NEW k \in 0 .. Len(q)
    PROVE  /\ Frames!Layout(SubSeq(q, 1, k)) /\ Len(SubSeq(q, 1, k)) = k
           /\ \A i \in 1 .. k : SubSeq(q, 1, k)[i] = q[i]
  <1>1. q \in Seq(Frames!Frame) /\ Len(q) \in Nat
    BY DEF Frames!Layout
  <1> DEFINE r == SubSeq(q, 1, k)
  <1>2. r \in Seq(Frames!Frame) /\ Len(r) = k /\ \A i \in 1 .. k : r[i] = q[i]
    BY <1>1
  <1> HIDE DEF r
  <1>3. Frames!Layout(r)
    BY <1>1, <1>2 DEF Frames!Layout
  <1> QED
    BY <1>2, <1>3 DEF r

(* pop_frame: the page of the frame stays exactly if the next frame of     *)
(* the stack is on it.                                                     *)
LEMMA PopKeeps ==
    ASSUME FramesFit, NEW q, NEW pg, Frames!Layout(q), Frames!PagesOf(pg, q), q # <<>>,
           NEW s, s = [pages |-> pg, chain |-> q]
    PROVE  LET r == SubSeq(q, 1, Len(q) - 1)
               p == Frames!pop_frame(s)
           IN /\ p = [pages |-> p.pages, chain |-> r]
              /\ Frames!Layout(r) /\ Frames!PagesOf(p.pages, r)
  <1> DEFINE n == Len(q)
             r == SubSeq(q, 1, n - 1)
             top == IF r = <<>> THEN None ELSE Frames!Where(r[Len(r)])
             pg2 == IF r # <<>> /\ ~Frames!contains_frame(Len(pg), top)
                    THEN SubSeq(pg, 1, Len(pg) - 1) ELSE Append(SubSeq(pg, 1, Len(pg) - 1), top)
  <1>0. n \in Nat \ {0}
    BY EmptySeq DEF Frames!Layout
  <1>1. /\ q \in Seq(Frames!Frame) /\ n \in Nat \ {0} /\ n - 1 \in 0 .. n
        /\ Frames!Layout(r) /\ Len(r) = n - 1 /\ r \in Seq(Frames!Frame)
        /\ \A i \in 1 .. n - 1 : r[i] = q[i]
    <2>1. q \in Seq(Frames!Frame)
      BY DEF Frames!Layout
    <2>2. n \in Nat \ {0} /\ n - 1 \in 0 .. n
      BY <1>0
    <2> QED
      BY <2>1, <2>2, LayoutBelow DEF Frames!Layout
  <1>2. /\ pg \in Seq(Frames!Spot) /\ Len(pg) = q[n].page
        /\ \A i \in 1 .. n : i = n \/ q[i + 1].page # q[i].page => pg[q[i].page] = Frames!Where(q[i])
    BY DEF Frames!PagesOf
  <1>3. Frames!pop_frame(s) = [chain |-> r, pages |-> pg2]
    BY DEF Frames!pop_frame, Frames!Front, Frames!Last
  <1>4. Frames!PagesOf(pg2, r)
    <2>1. CASE n = 1
      <3>1. r = <<>> /\ Len(pg) = 1
        BY <2>1, <1>1, <1>2, EmptySeq DEF Frames!Layout
      <3>2. SubSeq(pg, 1, 0) = <<>>
        BY <1>2
      <3>3. pg2 = <<None>>
        <4>1. pg2 = Append(<<>>, None)
          <5>1. top = None
            BY <3>1
          <5>2. pg2 = Append(SubSeq(pg, 1, Len(pg) - 1), top)
            BY Zenon, <3>1
          <5> HIDE DEF pg2, top
          <5>3. SubSeq(pg, 1, Len(pg) - 1) = <<>>
            BY <3>1, <3>2
          <5> QED
            BY <5>1, <5>2, <5>3
        <4> QED
          BY <4>1
      <3> QED
        BY Zenon, <3>1, <3>2, <3>3 DEF Frames!PagesOf
    <2>2. CASE n > 1
      <3> DEFINE f == q[n - 1]
                 g == q[n]
                 w == Frames!Where(f)
      <3>1. r # <<>> /\ r[Len(r)] = f /\ n - 1 \in 1 .. n /\ n \in 1 .. n
        <4>1. n - 1 \in 1 .. n /\ n \in 1 .. n /\ n - 1 # 0 /\ n - 1 \in 1 .. n - 1
          <5> HIDE DEF n
          <5> QED
            BY ONLY <2>2, <1>0
        <4>2. Len(r) = n - 1 /\ r[n - 1] = q[n - 1]
          BY <4>1, <1>1
        <4>3. Len(<<>>) = 0
          OBVIOUS
        <4> HIDE DEF r
        <4> QED
          BY <4>1, <4>2, <4>3
      <3>2. f \in Frames!Frame /\ g \in Frames!Frame /\ f.off < Frames!Limit
        BY <3>1, <1>1 DEF Frames!Layout
      <3>3. w \in Frames!Spot /\ w.page = f.page /\ w.off = f.off
        BY <3>2 DEF Frames!Spot, Frames!Frame, Frames!Where
      <3>4. g.page = f.page \/ g.page = f.page + 1
        BY <2>2, <1>1 DEF Frames!Layout, Frames!Adjacent
      <3>5. f.page \in Nat \ {0} /\ g.page \in Nat \ {0} /\ Len(pg) = g.page
        BY <3>2, <1>2 DEF Frames!Frame
      <3>6. \A i \in 1 .. n - 2 : q[i].page \in Nat \ {0}
                                  /\ (q[i + 1].page # q[i].page => q[i].page < f.page)
        <4> SUFFICES ASSUME NEW i \in 1 .. n - 2
                     PROVE  q[i].page \in Nat \ {0} /\ (q[i + 1].page # q[i].page => q[i].page < f.page)
          OBVIOUS
        <4>1. i \in 1 .. n /\ i + 1 \in 1 .. n /\ i < i + 1 /\ n - 1 \in 1 .. n
          BY <1>1
        <4>2. q[i].page \in Nat \ {0} /\ q[i + 1].page \in Nat
          <5>1. q[i] \in Frames!Frame /\ q[i + 1] \in Frames!Frame
            BY <4>1, <1>1
          <5> QED
            BY <5>1, FrameParts
        <4>3. q[i].page <= q[i + 1].page
          BY <4>1, <4>2, FramesInOrder
        <4>4. i + 1 = n - 1 \/ q[i + 1].page <= f.page
          <5>1. CASE i + 1 < n - 1
            BY <5>1, <4>1, <4>2, <3>5, FramesInOrder
          <5> QED
            BY <5>1, <1>1
        <4> QED
          BY <4>2, <4>3, <4>4, <3>5
      <3> HIDE DEF f, g, w
      <3>7. pg2 = IF f.page = Len(pg) THEN Append(SubSeq(pg, 1, Len(pg) - 1), w) ELSE SubSeq(pg, 1, Len(pg) - 1)
        BY <3>1, <3>2, <3>3 DEF Frames!contains_frame, w
      <3> HIDE DEF pg2
      <3>8. /\ pg2 \in Seq(Frames!Spot) /\ Len(pg2) = f.page /\ pg2[f.page] = w
            /\ \A k \in Nat \ {0} : k < f.page => pg2[k] = pg[k]
        <4>1. CASE g.page = f.page
          <5> DEFINE front == SubSeq(pg, 1, Len(pg) - 1)
          <5>1. front \in Seq(Frames!Spot) /\ Len(front) = f.page - 1 /\ \A k \in 1 .. f.page - 1 : front[k] = pg[k]
            BY <4>1, <3>5, <1>2
          <5>2. pg2 = Append(front, w)
            BY <4>1, <3>5, <3>7
          <5> HIDE DEF front
          <5> QED
            BY <5>1, <5>2, <3>3, <3>5
        <4>2. CASE g.page = f.page + 1
          <5>1. pg2 = SubSeq(pg, 1, f.page) /\ Len(pg) = f.page + 1
            BY <4>2, <3>5, <3>7
          <5>2. pg[f.page] = w
            <6>1. (n - 1) + 1 = n /\ n - 1 \in 1 .. n /\ q[n].page # q[n - 1].page
              BY <4>2, <3>1, <3>5, <1>1 DEF f, g
            <6>2. pg[q[n - 1].page] = Frames!Where(q[n - 1])
              BY <6>1, <1>2
            <6> QED
              BY <6>2 DEF f, w
          <5> QED
            BY <5>1, <5>2, <3>5, <1>2
        <4> QED
          BY <3>4, <4>1, <4>2
      <3>9. \A i \in 1 .. Len(r) : i = Len(r) \/ r[i + 1].page # r[i].page => pg2[r[i].page] = Frames!Where(r[i])
        <4> SUFFICES ASSUME NEW i \in 1 .. n - 1, i = n - 1 \/ r[i + 1].page # r[i].page
                     PROVE  pg2[r[i].page] = Frames!Where(r[i])
          BY <1>1
        <4>1. CASE i = n - 1
          BY <4>1, <3>1, <3>8, <1>1 DEF f, w
        <4>2. CASE i \in 1 .. n - 2
          <5>1. r[i] = q[i] /\ r[i + 1] = q[i + 1] /\ i \in 1 .. n /\ q[i + 1].page # q[i].page
            BY <4>2, <1>1
          <5>2. pg[q[i].page] = Frames!Where(q[i])
            BY <5>1, <1>2
          <5> QED
            BY <4>2, <5>1, <5>2, <3>6, <3>8
        <4> QED
          BY <4>1, <4>2, <1>1
      <3> QED
        BY <3>1, <3>8, <3>9, <1>1 DEF Frames!PagesOf
    <2>3. n = 1 \/ n > 1
      BY <1>1
    <2> QED
      BY <2>1, <2>2, <2>3
  <1> HIDE DEF pg2, r
  <1>5. Frames!pop_frame(s).pages = pg2
    BY <1>3
  <1>6. Frames!pop_frame(s) = [pages |-> Frames!pop_frame(s).pages, chain |-> r]
    BY <1>3
  <1> QED
    BY Zenon, <1>1, <1>4, <1>5, <1>6 DEF r

(* Popping k frames one after the other.                                   *)
Pops(s, k, f) == f = [i \in 0 .. k |-> IF i = 0 THEN s ELSE Frames!pop_frame(f[i - 1])]

LEMMA PopsExist ==
    ASSUME NEW s, NEW k \in Nat
    PROVE  \E f : Pops(s, k, f)
  <1> USE DEF Pops
  <1> DEFINE Popped(n) == \E f : Pops(s, n, f)
             D == {n \in Nat : ~Popped(n)}
  <1>1. Popped(0)
    <2> DEFINE f == [i \in 0 .. 0 |-> s]
    <2>1. f = [i \in 0 .. 0 |-> IF i = 0 THEN s ELSE Frames!pop_frame(f[i - 1])]
      OBVIOUS
    <2> QED
      BY <2>1
  <1>2. ASSUME NEW n \in Nat, Popped(n) PROVE Popped(n + 1)
    <2>1. PICK f : f = [i \in 0 .. n |-> IF i = 0 THEN s ELSE Frames!pop_frame(f[i - 1])]
      BY <1>2
    <2> DEFINE g == [i \in 0 .. n + 1 |-> IF i = n + 1 THEN Frames!pop_frame(f[n]) ELSE f[i]]
               h == [i \in 0 .. n + 1 |-> IF i = 0 THEN s ELSE Frames!pop_frame(g[i - 1])]
    <2>2. \A i \in 0 .. n + 1 : g[i] = h[i]
      <3> SUFFICES ASSUME NEW i \in 0 .. n + 1 PROVE g[i] = h[i]
        OBVIOUS
      <3>1. CASE i = n + 1
        <4>1. i # 0 /\ i - 1 = n /\ n \in 0 .. n + 1 /\ n # n + 1
          BY <3>1
        <4>2. g[n] = f[n]
          BY <4>1
        <4> QED
          BY <4>1, <4>2, <3>1
      <3>2. CASE i = 0
        <4>1. g[i] = f[0]
          BY <3>2
        <4>2. f[0] = s
          BY <2>1
        <4> QED
          BY <4>1, <4>2, <3>2
      <3>3. CASE i # 0 /\ i # n + 1
        <4>1. i \in 0 .. n /\ i - 1 \in 0 .. n + 1 /\ i - 1 # n + 1
          BY <3>3
        <4>2. g[i] = f[i] /\ g[i - 1] = f[i - 1]
          BY <4>1, <3>3
        <4>3. f[i] = Frames!pop_frame(f[i - 1])
          BY <4>1, <3>3, <2>1
        <4> QED
          BY <4>2, <4>3, <3>3
      <3> QED
        BY <3>1, <3>2, <3>3
    <2>3. g = h
      <3>1. g = [i \in 0 .. n + 1 |-> g[i]] /\ h = [i \in 0 .. n + 1 |-> h[i]]
        OBVIOUS
      <3> HIDE DEF g, h
      <3> QED
        BY <3>1, <2>2
    <2> QED
      BY <2>3
  <1> HIDE DEF Popped
  <1>3. D = {}
    <2> SUFFICES ASSUME D # {} PROVE FALSE
      OBVIOUS
    <2>1. PICK n \in D : \A m \in D : n <= m
      BY LeastNatural
    <2>2. n \in Nat /\ n # 0
      BY <1>1
    <2>3. PICK m \in Nat : m + 1 = n
      BY <2>2
    <2>4. Popped(m)
      BY <2>1, <2>3
    <2>5. Popped(m + 1)
      BY <2>4, <1>2
    <2> QED
      BY <2>3, <2>5
  <1> QED
    BY <1>3 DEF Popped

LEMMA PopsKeep ==
    ASSUME FramesFit, NEW q, NEW pg, Frames!Layout(q), Frames!PagesOf(pg, q), NEW k \in 0 .. Len(q),
           NEW s, s = [pages |-> pg, chain |-> q]
    PROVE  LET r == SubSeq(q, 1, Len(q) - k)
               p == Frames!PopN(s, k)
           IN p.chain = r /\ Frames!Layout(r) /\ Frames!PagesOf(p.pages, r)
  <1> DEFINE rest(i) == SubSeq(q, 1, Len(q) - i)
             P == CHOOSE f : Pops(s, k, f)
             Fine(i) == /\ P[i] = [pages |-> P[i].pages, chain |-> rest(i)]
                        /\ Frames!Layout(rest(i)) /\ Frames!PagesOf(P[i].pages, rest(i))
             D == {i \in 0 .. k : ~Fine(i)}
  <1>0. q \in Seq(Frames!Frame) /\ Len(q) \in Nat /\ k \in Nat
    BY DEF Frames!Layout
  <1>1. Frames!PopN(s, k) = P[k]
    BY Zenon DEF Frames!PopN, Pops
  <1>2. P = [i \in 0 .. k |-> IF i = 0 THEN s ELSE Frames!pop_frame(P[i - 1])]
    <2>1. \E f : Pops(s, k, f)
      BY <1>0, PopsExist
    <2>2. Pops(s, k, P)
      BY Zenon, <2>1
    <2> QED
      BY Zenon, <2>2 DEF Pops
  <1> HIDE DEF P
  <1>3. P[0] = s /\ \A i \in 0 .. k : i # 0 => P[i] = Frames!pop_frame(P[i - 1])
    BY <1>2, <1>0
  <1>4. Fine(0)
    <2>1. rest(0) = q
      BY <1>0
    <2>2. P[0].pages = pg
      BY <1>3
    <2> HIDE DEF rest
    <2> QED
      BY Zenon, <1>3, <2>1, <2>2
  <1>5. ASSUME NEW i \in 0 .. k, i # 0, Fine(i - 1) PROVE Fine(i)
    <2> DEFINE u == rest(i - 1)
    <2>1. u # <<>> /\ Len(u) = Len(q) - (i - 1)
      <3>1. Len(q) - (i - 1) \in 1 .. Len(q)
        BY <1>5, <1>0
      <3>2. Len(u) = Len(q) - (i - 1)
        BY <3>1, <1>0
      <3> HIDE DEF u
      <3> QED
        BY <3>1, <3>2
    <2>2. SubSeq(u, 1, Len(u) - 1) = rest(i)
      <3>1. Len(q) - (i - 1) \in 1 .. Len(q) /\ (Len(q) - (i - 1)) - 1 = Len(q) - i
        BY <1>5, <1>0
      <3>2. \A n \in 1 .. Len(q) : SubSeq(SubSeq(q, 1, n), 1, n - 1) = SubSeq(q, 1, n - 1)
        BY <1>0
      <3> QED
        BY <3>1, <3>2, <2>1
    <2>3. P[i] = Frames!pop_frame(P[i - 1])
      BY <1>3, <1>5
    <2>4. P[i - 1] = [pages |-> P[i - 1].pages, chain |-> u]
          /\ Frames!Layout(u) /\ Frames!PagesOf(P[i - 1].pages, u)
      BY <1>5
    <2> HIDE DEF u, rest
    <2>5. /\ Frames!pop_frame(P[i - 1])
             = [pages |-> Frames!pop_frame(P[i - 1]).pages, chain |-> SubSeq(u, 1, Len(u) - 1)]
          /\ Frames!Layout(SubSeq(u, 1, Len(u) - 1))
          /\ Frames!PagesOf(Frames!pop_frame(P[i - 1]).pages, SubSeq(u, 1, Len(u) - 1))
      BY <2>1, <2>4, PopKeeps
    <2> QED
      BY Zenon, <2>2, <2>3, <2>5
  <1> HIDE DEF Fine
  <1>6. D = {}
    <2> SUFFICES ASSUME D # {} PROVE FALSE
      OBVIOUS
    <2>1. D \subseteq Nat
      OBVIOUS
    <2>2. PICK i \in D : \A j \in D : i <= j
      BY <2>1, LeastNatural
    <2>3. i # 0 /\ i \in 0 .. k
      BY <1>4
    <2>4. i - 1 \in 0 .. k /\ ~(i <= i - 1)
      BY <2>3, <1>0
    <2>5. Fine(i - 1)
      BY <2>2, <2>4
    <2> QED
      BY <2>2, <2>3, <2>5, <1>5
  <1>7. Fine(k)
    BY <1>6, <1>0
  <1> QED
    BY <1>1, <1>7 DEF Fine

(* Layout and pages depend on where frames lie, not on what they save.     *)
LEMMA SameSpot ==
    ASSUME FramesFit, NEW q \in Seq(Frames!Frame), NEW f \in Frames!Frame, NEW g \in Frames!Frame,
           Frames!Where(f) = Frames!Where(g), Frames!Layout(Append(q, f))
    PROVE  /\ Frames!Layout(Append(q, g))
           /\ \A pg : Frames!PagesOf(pg, Append(q, f)) => Frames!PagesOf(pg, Append(q, g))
  <1> DEFINE a == Append(q, f)
             b == Append(q, g)
             n == Len(q) + 1
  <1>1. /\ a \in Seq(Frames!Frame) /\ b \in Seq(Frames!Frame) /\ n \in Nat \ {0}
        /\ Len(a) = n /\ Len(b) = n /\ a[n] = f /\ b[n] = g
        /\ \A i \in 1 .. n : i # n => a[i] = q[i] /\ b[i] = q[i]
    OBVIOUS
  <1>2. f.page = g.page /\ f.off = g.off /\ f.size = g.size
    BY FrameParts
  <1>3. \A i \in 1 .. n : /\ b[i].page = a[i].page /\ b[i].off = a[i].off /\ b[i].size = a[i].size
                           /\ Frames!Where(b[i]) = Frames!Where(a[i])
    BY <1>1, <1>2
  <1>4. a # <<>> /\ b # <<>>
    <2>1. Len(<<>>) = 0
      OBVIOUS
    <2> QED
      BY <1>1, <2>1
  <1>5. /\ a[1].page = 1 /\ a[1].off = 0
        /\ \A i \in 1 .. n : a[i].off + a[i].size <= PageSize /\ a[i].off < Frames!Limit
        /\ \A i \in 1 .. n - 1 : Frames!Adjacent(a[i], a[i + 1])
    BY <1>1 DEF Frames!Layout
  <1> HIDE DEF a, b, n
  <1>6. \A i \in 1 .. n : b[i].off + b[i].size <= PageSize /\ b[i].off < Frames!Limit
    BY Zenon, <1>5, <1>3
  <1>7. \A i \in 1 .. n - 1 : Frames!Adjacent(b[i], b[i + 1])
    <2> SUFFICES ASSUME NEW i \in 1 .. n - 1 PROVE Frames!Adjacent(b[i], b[i + 1])
      OBVIOUS
    <2>1. i \in 1 .. n /\ i + 1 \in 1 .. n
      BY <1>1
    <2>2. Frames!Adjacent(a[i], a[i + 1])
      BY <1>5
    <2> QED
      BY Zenon, <2>1, <2>2, <1>3 DEF Frames!Adjacent
  <1>8. Frames!Layout(b)
    <2>1. b[1].page = 1 /\ b[1].off = 0
      BY <1>1, <1>3, <1>5
    <2> QED
      BY Zenon, <1>1, <1>6, <1>7, <2>1 DEF Frames!Layout
  <1>9. ASSUME NEW pg, Frames!PagesOf(pg, a) PROVE Frames!PagesOf(pg, b)
    <2>1. /\ pg \in Seq(Frames!Spot) /\ Len(pg) = a[n].page
          /\ \A i \in 1 .. n : i = n \/ a[i + 1].page # a[i].page => pg[a[i].page] = Frames!Where(a[i])
      BY Zenon, <1>9, <1>1, <1>4 DEF Frames!PagesOf
    <2>2. Len(pg) = b[n].page
      BY <2>1, <1>1, <1>3
    <2>3. \A i \in 1 .. n : i = n \/ b[i + 1].page # b[i].page => pg[b[i].page] = Frames!Where(b[i])
      <3> SUFFICES ASSUME NEW i \in 1 .. n, i = n \/ b[i + 1].page # b[i].page
                   PROVE  pg[b[i].page] = Frames!Where(b[i])
        OBVIOUS
      <3>1. i = n \/ i + 1 \in 1 .. n
        BY <1>1
      <3>2. i = n \/ a[i + 1].page # a[i].page
        BY <3>1, <1>3
      <3> QED
        BY Zenon, <3>2, <2>1, <1>3
    <2> QED
      BY Zenon, <1>1, <1>4, <2>1, <2>2, <2>3 DEF Frames!PagesOf
  <1> QED
    BY <1>8, <1>9 DEF a, b

(* alloc_frame: the new frame lies behind the top frame or begins a page.  *)
LEMMA NewPlaceKeeps ==
    ASSUME FramesFit, chain # <<>>, Frames!Layout(chain), Frames!PagesOf(pages, chain),
           NEW sz \in Sizes, sz <= PageSize, NEW f, f = Frames!NewPlace(sz),
           NEW pg, pg = [i \in 1 .. f.page |-> IF i = f.page THEN Frames!Where(f) ELSE pages[i]]
    PROVE  /\ f \in Frames!Frame /\ f.prevMod = None
           /\ Frames!Layout(Append(chain, f)) /\ Frames!PagesOf(pg, Append(chain, f))
  <1> DEFINE n == Len(chain)
             top == chain[n]
  <1>1. chain \in Seq(Frames!Frame) /\ n \in Nat \ {0} /\ n \in 1 .. n
    BY EmptySeq DEF Frames!Layout
  <1>2. top \in Frames!Frame /\ top.off + top.size <= PageSize /\ top.off < Frames!Limit
    BY <1>1 DEF Frames!Layout
  <1>3. /\ pages \in Seq(Frames!Spot) /\ Len(pages) = top.page
        /\ \A i \in 1 .. n : i = n \/ chain[i + 1].page # chain[i].page
                              => pages[chain[i].page] = Frames!Where(chain[i])
    BY <1>1 DEF Frames!PagesOf
  <1>4. sz \in Nat \ {0} /\ PageSize \in Nat /\ Header \in Nat /\ Header < PageSize /\ NoPc \in Int
        /\ None \notin Frames!Spot
    BY DEF FramesFit, Frames!StackAssumption
  <1>5. pages[top.page] = Frames!Where(top) /\ Frames!Where(top) # None
    BY <1>1, <1>2, <1>3, <1>4, FrameParts
  <1> DEFINE e == top.off + top.size
  <1>6. e \in Nat /\ top.page \in Nat \ {0} /\ top.off \in Nat /\ top.size \in Nat \ {0}
    <2>1. top.page \in Nat \ {0} /\ top.off \in Nat /\ top.size \in Nat \ {0}
      BY <1>2, FrameParts
    <2>2. \A x \in Nat, y \in Nat \ {0} : x + y \in Nat
      OBVIOUS
    <2> QED
      BY Zenon, <2>1, <2>2
  <1>7. \/ f = Frames!Place(top.page + 1, 0, sz)
        \/ f = Frames!Place(top.page, e, sz) /\ ~(e + sz >= Frames!Limit)
    <2>1. Frames!Where(top).off = top.off /\ Frames!Where(top).size = top.size
      BY <1>2, FrameParts
    <2>2. Frames!Last(pages) = Frames!Where(top)
      BY <1>3, <1>5 DEF Frames!Last
    <2> HIDE DEF top
    <2>3. f = IF e + sz >= Frames!Limit THEN Frames!Place(top.page + 1, 0, sz) ELSE Frames!Place(top.page, e, sz)
      BY Zenon, <2>1, <2>2, <1>3, <1>5 DEF Frames!NewPlace
    <2> QED
      BY Zenon, <2>3
  <1> HIDE DEF e
  <1>8. ASSUME NEW p \in Nat \ {0}, NEW o \in Nat
        PROVE  /\ Frames!Place(p, o, sz) \in Frames!Frame
               /\ Frames!Place(p, o, sz).page = p /\ Frames!Place(p, o, sz).off = o
               /\ Frames!Place(p, o, sz).size = sz /\ Frames!Place(p, o, sz).prevMod = None
    BY <1>4 DEF Frames!Place, Frames!Frame
  <1>9. /\ f \in Frames!Frame /\ f.prevMod = None /\ f.size = sz
        /\ \/ f.page = top.page + 1 /\ f.off = 0
           \/ f.page = top.page /\ f.off = e
        /\ f.off + sz <= PageSize /\ f.off < Frames!Limit
    <2>1. CASE f = Frames!Place(top.page + 1, 0, sz)
      <3>1. top.page + 1 \in Nat \ {0}
        BY <1>6
      <3>2. f \in Frames!Frame /\ f.prevMod = None /\ f.size = sz /\ f.page = top.page + 1 /\ f.off = 0
        BY <2>1, <3>1, <1>8
      <3>3. 0 + sz <= PageSize /\ 0 < Frames!Limit
        BY <1>4 DEF Frames!Limit
      <3>4. f.off + sz <= PageSize /\ f.off < Frames!Limit
        BY Zenon, <3>2, <3>3
      <3> HIDE DEF top
      <3> QED
        BY Zenon, <3>2, <3>4
    <2>2. CASE f = Frames!Place(top.page, e, sz) /\ ~(e + sz >= Frames!Limit)
      <3>2. f \in Frames!Frame /\ f.prevMod = None /\ f.size = sz /\ f.page = top.page /\ f.off = e
        BY <2>2, <1>6, <1>8
      <3>3. e + sz <= PageSize /\ e < Frames!Limit
        BY <2>2, <1>4, <1>6 DEF Frames!Limit
      <3> QED
        BY Zenon, <3>2, <3>3
    <2> QED
      BY <1>7, <2>1, <2>2
  <1> DEFINE q == Append(chain, f)
  <1>10. /\ q \in Seq(Frames!Frame) /\ Len(q) = n + 1 /\ q[n + 1] = f
         /\ \A i \in 1 .. n : q[i] = chain[i]
    BY <1>1, <1>9
  <1>11. Frames!Adjacent(top, f)
    BY <1>9 DEF Frames!Adjacent, e
  <1>12. Frames!Layout(q)
    <2> HIDE DEF q
    <2>1. q[1].page = 1 /\ q[1].off = 0
      BY <1>1, <1>10 DEF Frames!Layout
    <2>2. \A i \in 1 .. n + 1 : q[i].off + q[i].size <= PageSize /\ q[i].off < Frames!Limit
      <3>1. \A i \in 1 .. n : chain[i].off + chain[i].size <= PageSize /\ chain[i].off < Frames!Limit
        BY Zenon DEF Frames!Layout
      <3>2. \A i \in 1 .. n + 1 : i \in 1 .. n \/ i = n + 1
        BY <1>1
      <3>3. f.off + f.size <= PageSize /\ f.off < Frames!Limit
        BY Zenon, <1>9
      <3> HIDE DEF n
      <3>4. ASSUME NEW i \in 1 .. n PROVE q[i].off + q[i].size <= PageSize /\ q[i].off < Frames!Limit
        BY Zenon, <3>1, <1>10
      <3>5. q[n + 1].off + q[n + 1].size <= PageSize /\ q[n + 1].off < Frames!Limit
        BY Zenon, <3>3, <1>10
      <3> QED
        BY Zenon, <3>2, <3>4, <3>5
    <2>3. \A i \in 1 .. n : Frames!Adjacent(q[i], q[i + 1])
      <3> SUFFICES ASSUME NEW i \in 1 .. n PROVE Frames!Adjacent(q[i], q[i + 1])
        OBVIOUS
      <3>1. CASE i = n
        BY <3>1, <1>10, <1>11
      <3>2. CASE i # n
        <4>1. i \in 1 .. n - 1 /\ i + 1 \in 1 .. n
          BY <3>2, <1>1
        <4>2. Frames!Adjacent(chain[i], chain[i + 1])
          BY <4>1 DEF Frames!Layout
        <4> QED
          BY Zenon, <4>1, <4>2, <1>10
      <3> QED
        BY <3>1, <3>2
    <2>4. (n + 1) - 1 = n
      BY <1>1
    <2> HIDE DEF n
    <2> QED
      BY Zenon, <1>10, <2>1, <2>2, <2>3, <2>4 DEF Frames!Layout
  <1>13. Frames!PagesOf(pg, q)
    <2>0. f.page \in Nat \ {0} /\ Frames!Where(f) \in Frames!Spot /\ f.page <= top.page + 1 /\ top.page <= f.page
      BY <1>6, <1>9, FrameParts
    <2>1. pg \in Seq(Frames!Spot) /\ Len(pg) = f.page /\ pg[f.page] = Frames!Where(f)
          /\ \A i \in 1 .. f.page : i # f.page => pg[i] = pages[i]
      <3>1. \A i \in 1 .. f.page : i # f.page => pages[i] \in Frames!Spot
        BY <2>0, <1>3, <1>6
      <3> DEFINE l == f.page
      <3>2. l \in Nat /\ pg = [i \in 1 .. l |-> IF i = l THEN Frames!Where(f) ELSE pages[i]]
        BY <2>0
      <3> HIDE DEF l
      <3>3. \A i \in 1 .. l : pg[i] \in Frames!Spot
        BY <3>1, <3>2, <2>0 DEF l
      <3>4. pg \in Seq(Frames!Spot) /\ Len(pg) = l
        <4>1. pg \in [1 .. l -> Frames!Spot]
          BY <3>2, <3>3
        <4> QED
          <5>1. pg \in Seq(Frames!Spot)
            BY ONLY <4>1, <3>2, SeqDef
          <5>2. DOMAIN pg = 1 .. Len(pg) /\ Len(pg) \in Nat
            BY ONLY <5>1, LenProperties
          <5>3. DOMAIN pg = 1 .. l
            BY ONLY <4>1
          <5>4. \A a, b \in Nat : 1 .. a = 1 .. b => a = b
            OBVIOUS
          <5> QED
            BY <5>1, <5>2, <5>3, <5>4, <3>2
      <3>5. l \in 1 .. l
        BY <2>0 DEF l
      <3> QED
        BY <3>2, <3>4, <3>5 DEF l
    <2>2. \A i \in 1 .. n + 1 : i = n + 1 \/ q[i + 1].page # q[i].page => pg[q[i].page] = Frames!Where(q[i])
      <3> SUFFICES ASSUME NEW i \in 1 .. n + 1, i = n + 1 \/ q[i + 1].page # q[i].page
                   PROVE  pg[q[i].page] = Frames!Where(q[i])
        OBVIOUS
      <3> HIDE DEF q
      <3>1. CASE i = n + 1
        BY <3>1, <1>10, <2>1
      <3>2. CASE i = n
        <4>1. q[i] = top /\ q[i + 1] = f /\ f.page # top.page
          BY <3>2, <1>1, <1>10
        <4>2. top.page \in 1 .. f.page
          BY <4>1, <2>0, <1>6
        <4> QED
          BY <4>1, <4>2, <2>1, <1>5
      <3>3. CASE i \in 1 .. n - 1
        <4>1. i \in 1 .. n /\ i + 1 \in 1 .. n /\ i < i + 1 /\ i < n /\ q[i] = chain[i] /\ q[i + 1] = chain[i + 1]
              /\ chain[i + 1].page # chain[i].page
          BY <3>3, <1>1, <1>10
        <4>2. pages[chain[i].page] = Frames!Where(chain[i])
          BY <4>1, <1>3
        <4>3. chain[i].page \in Nat \ {0} /\ chain[i + 1].page \in Nat \ {0}
          <5>1. chain[i] \in Frames!Frame /\ chain[i + 1] \in Frames!Frame
            BY <4>1, <1>1
          <5> QED
            BY <5>1, FrameParts
        <4>4. chain[i].page < chain[i + 1].page
          BY <4>1, <4>3, FramesInOrder
        <4>5. chain[i + 1].page <= top.page
          <5>1. CASE i + 1 = n
            BY <5>1, <1>6
          <5>2. CASE i + 1 < n
            BY <5>2, <4>1, <4>3, <1>1, <1>6, FramesInOrder
          <5> QED
            BY <5>1, <5>2, <4>1, <1>1
        <4>6. chain[i].page \in 1 .. f.page /\ chain[i].page # f.page
          BY <4>3, <4>4, <4>5, <2>0, <1>6
        <4> QED
          BY <4>1, <4>2, <4>6, <2>1
      <3> QED
        BY <3>1, <3>2, <3>3, <1>1
    <2>3. q # <<>>
      <3>1. Len(<<>>) = 0
        OBVIOUS
      <3> HIDE DEF q
      <3> QED
        BY <3>1, <1>10, <1>1
    <2> HIDE DEF q, n
    <2> QED
      BY Zenon, <1>10, <2>1, <2>2, <2>3 DEF Frames!PagesOf
  <1> QED
    BY <1>9, <1>12, <1>13

(* Minimum, maximum and cardinality as module Stack sees them.             *)
LEMMA MinIs ==
    ASSUME NEW S \in SUBSET Int, NEW x \in S, \A y \in S : x <= y
    PROVE  Frames!Min(S) = x
  <1>1. Frames!Min(S) \in S /\ \A y \in S : Frames!Min(S) <= y
    BY Zenon DEF Frames!Min
  <1> HIDE DEF Frames!Min
  <1> DEFINE z == Frames!Min(S)
  <1>2. z \in Int /\ x \in Int /\ z <= x /\ x <= z
    BY <1>1
  <1> HIDE DEF z
  <1>3. z = x
    BY <1>2
  <1> QED
    BY <1>3 DEF z

LEMMA MaxIs ==
    ASSUME NEW S \in SUBSET Int, NEW x \in S, \A y \in S : x >= y
    PROVE  Frames!Max(S) = x
  <1>1. Frames!Max(S) \in S /\ \A y \in S : Frames!Max(S) >= y
    BY Zenon DEF Frames!Max
  <1> DEFINE z == Frames!Max(S)
  <1>2. z \in Int /\ x \in Int /\ z >= x /\ x >= z
    BY <1>1
  <1> HIDE DEF z
  <1>3. z = x
    BY <1>2
  <1> QED
    BY <1>3 DEF z

LEMMA MaxExists ==
    ASSUME NEW n \in Nat, NEW S \in SUBSET (1 .. n), S # {}
    PROVE  Frames!Max(S) \in S /\ \A y \in S : Frames!Max(S) >= y
  <1> DEFINE D == {k \in Nat : \E x \in S : k = n - x}
  <1>1. PICK x \in S : TRUE
    OBVIOUS
  <1>2. n - x \in D
    BY <1>1
  <1>3. PICK k \in D : \A j \in D : k <= j
    BY <1>2, LeastNatural
  <1>4. PICK z \in S : k = n - z
    BY <1>3
  <1>5. \A y \in S : n - y \in D
    OBVIOUS
  <1>6. \A y \in S : z >= y
    <2> SUFFICES ASSUME NEW y \in S PROVE z >= y
      OBVIOUS
    <2>1. n - z <= n - y
      BY <1>3, <1>4, <1>5
    <2>2. y \in Int /\ z \in Int
      OBVIOUS
    <2> QED
      BY ONLY <2>1, <2>2, n \in Nat
  <1>7. S \subseteq Int
    OBVIOUS
  <1> QED
    BY <1>4, <1>6, <1>7, MaxIs

LEMMA SameCardinality ==
    ASSUME NEW S
    PROVE  Frames!Cardinality(S) = Cardinality(S)
  BY DEF Frames!Cardinality, Cardinality

(* What the top frame has and every frame takes over from the one above.   *)
LEMMA Downward ==
    ASSUME NEW n \in Nat, NEW G, n \in G, \A i \in 1 .. n - 1 : i + 1 \in G => i \in G
    PROVE  \A i \in 1 .. n : i \in G
  <1> DEFINE D == {k \in 0 .. n - 1 : n - k \notin G}
  <1>1. D = {}
    <2> SUFFICES ASSUME D # {} PROVE FALSE
      OBVIOUS
    <2>1. D \subseteq Nat
      OBVIOUS
    <2>2. PICK k \in D : \A j \in D : k <= j
      BY <2>1, LeastNatural
    <2>3. k # 0 /\ k \in 1 .. n - 1
      <3>1. n - 0 = n
        OBVIOUS
      <3> QED
        BY <3>1
    <2>4. k - 1 \in 0 .. n - 1 /\ ~(k <= k - 1) /\ n - (k - 1) = (n - k) + 1 /\ n - k \in 1 .. n - 1
      BY <2>3
    <2>5. (n - k) + 1 \in G
      BY <2>2, <2>4
    <2> QED
      BY <2>2, <2>4, <2>5
  <1> SUFFICES ASSUME NEW i \in 1 .. n PROVE i \in G
    OBVIOUS
  <1>2. n - i \in 0 .. n - 1 /\ n - (n - i) = i
    OBVIOUS
  <1>3. n - i \notin D
    BY <1>1
  <1> QED
    BY <1>2, <1>3

(* The stack walk finds the module every frame executes in.                *)
LEMMA RegistersFollow ==
    ASSUME FramesFit, Frames!RegisterInv, Frames!OwnInv
    PROVE  \A i \in 1 .. Len(chain) : Frames!ModuleOf(i) = own[i]
  <1> DEFINE n == Len(chain)
             G == {i \in 1 .. n : Frames!ModuleOf(i) = own[i]}
  <1>1. chain \in Seq(Frames!Frame) /\ n \in Nat
    BY DEF Frames!RegisterInv
  <1>2. CASE n = 0
    BY <1>2
  <1>3. CASE n # 0
    <2>1. n \in G
      <3>1. Frames!Saved(n + 1, n) = {}
        BY <1>1 DEF Frames!Saved
      <3>2. own[n] = module
        <4>1. chain # <<>> /\ Len(own) = n
          BY <1>3, <1>1 DEF Frames!OwnInv
        <4> QED
          BY <4>1 DEF Frames!OwnInv
      <3> QED
        BY <3>1, <3>2, <1>1, <1>3 DEF Frames!ModuleOf
    <2>2. ASSUME NEW i \in 1 .. n - 1, i + 1 \in G PROVE i \in G
      <3> DEFINE S == Frames!Saved(i + 1, n)
      <3>0. i \in 1 .. n /\ i + 1 \in 1 .. n /\ Frames!ModuleOf(i + 1) = own[i + 1] /\ i \in Int /\ (i + 1) + 1 = i + 2
        BY <1>1, <2>2
      <3>1. own[i] = IF chain[i + 1].prevMod = None THEN own[i + 1] ELSE chain[i + 1].prevMod
        BY <2>2 DEF Frames!OwnInv
      <3>2. Frames!ModuleOf(i) = IF S = {} THEN module ELSE chain[Frames!Min(S)].prevMod
        BY DEF Frames!ModuleOf
      <3>3. CASE chain[i + 1].prevMod = None
        <4>1. S = Frames!Saved(i + 2, n)
          BY <3>3, <3>0, <1>1 DEF Frames!Saved
        <4>2. Frames!ModuleOf(i + 1) = IF S = {} THEN module ELSE chain[Frames!Min(S)].prevMod
          BY <4>1, <3>0 DEF Frames!ModuleOf
        <4> HIDE DEF S, n
        <4> QED
          BY <3>0, <3>1, <3>2, <3>3, <4>2
      <3>4. CASE chain[i + 1].prevMod # None
        <4>1. i + 1 \in S /\ S \subseteq Int /\ \A y \in S : i + 1 <= y
          BY <3>4, <3>0, <1>1 DEF Frames!Saved
        <4>2. Frames!Min(S) = i + 1
          BY <4>1, MinIs
        <4> HIDE DEF S, n
        <4> QED
          BY <3>0, <3>1, <3>2, <3>4, <4>1, <4>2
      <3> QED
        BY <3>3, <3>4
    <2> HIDE DEF G
    <2>3. \A i \in 1 .. n : i \in G
      BY <2>1, <2>2, <1>1, Downward
    <2> QED
      BY <2>3 DEF G
  <1> QED
    BY <1>2, <1>3

-----------------------------------------------------------------------------
(* References.                                                             *)
One(b) == IF b THEN 1 ELSE 0

(* What the frames above i gave up is what the ones below and the register *)
(* have left: K(i) moves one frame at a time from the top down.            *)
SavedIn(q, i, m) == {j \in 1 .. i : q[j].prevMod # None /\ q[j].prevMod = m}
SavedBelow(i, m) == SavedIn(chain, i, m)
OwnedAbove(i, m) == {j \in i + 1 .. Len(chain) : chain[j].prevMod # None /\ own[j] = m}

LEMMA CountsMove ==
    ASSUME FramesFit, Frames!RegisterInv, Frames!OwnInv, NEW m, NEW i \in 1 .. Len(chain)
    PROVE  /\ Cardinality(SavedBelow(i, m)) \in Nat /\ Cardinality(OwnedAbove(i, m)) \in Nat
           /\ Cardinality(SavedBelow(Len(chain), m)) + One(m = module)
                 = Cardinality(SavedBelow(i, m)) + Cardinality(OwnedAbove(i, m)) + One(m = own[i])
  <1> DEFINE n == Len(chain)
             A(k) == Cardinality(SavedBelow(k, m))
             B(k) == Cardinality(OwnedAbove(k, m))
             G == {k \in 1 .. n : A(n) + One(m = module) = A(k) + B(k) + One(m = own[k])}
  <1>1. chain \in Seq(Frames!Frame) /\ n \in Nat /\ n # 0 /\ n \in 1 .. n
    BY DEF Frames!RegisterInv
  <1>2. \A k \in 0 .. n : IsFiniteSet(SavedBelow(k, m)) /\ A(k) \in Nat
    <2> SUFFICES ASSUME NEW k \in 0 .. n PROVE IsFiniteSet(SavedBelow(k, m)) /\ A(k) \in Nat
      OBVIOUS
    <2>1. IsFiniteSet(1 .. k)
      BY <1>1, FS_Interval
    <2>2. SavedBelow(k, m) \subseteq 1 .. k
      BY DEF SavedBelow, SavedIn
    <2> QED
      BY <2>1, <2>2, FS_Subset, FS_CardinalityType
  <1>3. \A k \in 0 .. n : IsFiniteSet(OwnedAbove(k, m)) /\ B(k) \in Nat
    <2> SUFFICES ASSUME NEW k \in 0 .. n PROVE IsFiniteSet(OwnedAbove(k, m)) /\ B(k) \in Nat
      OBVIOUS
    <2>1. IsFiniteSet(k + 1 .. n)
      BY <1>1, FS_Interval
    <2>2. OwnedAbove(k, m) \subseteq k + 1 .. n
      BY DEF OwnedAbove
    <2> QED
      BY <2>1, <2>2, FS_Subset, FS_CardinalityType
  <1>4. n \in G
    <2>1. OwnedAbove(n, m) = {}
      BY <1>1 DEF OwnedAbove
    <2>2. B(n) = 0
      BY <2>1, FS_EmptySet
    <2>3. own[n] = module
      <3>1. chain # <<>> /\ Len(own) = n
        BY <1>1 DEF Frames!OwnInv
      <3> QED
        BY <3>1 DEF Frames!OwnInv
    <2>4. A(n) \in Nat
      BY <1>1, <1>2
    <2> HIDE DEF A, B, n
    <2>5. A(n) + One(m = module) = A(n) + 0 + One(m = module)
      BY <2>4 DEF One
    <2> QED
      BY <1>1, <2>2, <2>3, <2>5
  <1>5. ASSUME NEW k \in 1 .. n - 1, k + 1 \in G PROVE k \in G
    <2> DEFINE f == chain[k + 1].prevMod
    <2>0. k \in 1 .. n /\ k \in 0 .. n /\ k + 1 \in 1 .. n /\ k + 1 \in 0 .. n
      BY <1>1
    <2>1. own[k] = IF f = None THEN own[k + 1] ELSE f
      BY <1>5 DEF Frames!OwnInv
    <2>2. A(k + 1) = A(k) + One(f # None /\ f = m)
      <3>1. CASE f # None /\ f = m
        <4>1. SavedBelow(k + 1, m) = SavedBelow(k, m) \cup {k + 1} /\ k + 1 \notin SavedBelow(k, m)
          BY <3>1, <2>0 DEF SavedBelow, SavedIn
        <4> QED
          BY <4>1, <3>1, <2>0, <1>2, FS_AddElement DEF One
      <3>2. CASE ~(f # None /\ f = m)
        <4>1. SavedBelow(k + 1, m) = SavedBelow(k, m)
          BY <3>2, <2>0 DEF SavedBelow, SavedIn
        <4>2. A(k) + 0 = A(k)
          BY <2>0, <1>2
        <4> QED
          BY <4>1, <4>2, <3>2 DEF One
      <3> QED
        BY <3>1, <3>2
    <2>3. B(k) = B(k + 1) + One(f # None /\ own[k + 1] = m)
      <3>1. CASE f # None /\ own[k + 1] = m
        <4>1. OwnedAbove(k, m) = OwnedAbove(k + 1, m) \cup {k + 1} /\ k + 1 \notin OwnedAbove(k + 1, m)
          BY <3>1, <2>0, <1>1 DEF OwnedAbove
        <4> QED
          BY <4>1, <3>1, <2>0, <1>3, FS_AddElement DEF One
      <3>2. CASE ~(f # None /\ own[k + 1] = m)
        <4>1. OwnedAbove(k + 1, m) = OwnedAbove(k, m)
          BY <3>2, <2>0, <1>1 DEF OwnedAbove
        <4>2. B(k + 1) + 0 = B(k + 1)
          BY <2>0, <1>3
        <4> QED
          BY <4>1, <4>2, <3>2 DEF One
      <3> QED
        BY <3>1, <3>2
    <2>4. A(k) \in Nat /\ B(k) \in Nat /\ A(k + 1) \in Nat /\ B(k + 1) \in Nat /\ A(n) \in Nat
      BY <2>0, <1>1, <1>2, <1>3
    <2>5. A(n) + One(m = module) = A(k + 1) + B(k + 1) + One(m = own[k + 1])
      BY <1>5
    <2> HIDE DEF A, B, n, f
    <2>6. CASE f = None
      BY <2>0, <2>1, <2>2, <2>3, <2>4, <2>5, <2>6 DEF One
    <2>7. CASE f # None
      <3>1. One(f # None /\ f = m) = One(m = own[k])
        BY <2>1, <2>7 DEF One
      <3>2. One(f # None /\ own[k + 1] = m) = One(m = own[k + 1])
        BY <2>7 DEF One
      <3>3. One(m = own[k]) \in Nat /\ One(m = own[k + 1]) \in Nat
        BY DEF One
      <3> QED
        BY <2>0, <2>2, <2>3, <2>4, <2>5, <3>1, <3>2, <3>3
    <2> QED
      BY <2>6, <2>7
  <1> HIDE DEF G
  <1>6. \A k \in 1 .. n : k \in G
    BY <1>1, <1>4, <1>5, Downward
  <1>7. i \in G /\ i \in 0 .. n
    BY <1>6
  <1> QED
    BY <1>2, <1>3, <1>7 DEF G

(* Unwinding gives back, for each of those frames, its own module.         *)
LEMMA DroppedIs ==
    ASSUME FramesFit, Frames!RegisterInv, Frames!OwnInv, NEW m, NEW i \in 1 .. Len(chain)
    PROVE  Frames!Dropped(i, m) = Cardinality(OwnedAbove(i, m))
  <1> DEFINE n == Len(chain)
             S == Frames!Saved(i + 1, n)
             taken(j) == IF j = Frames!Max(S) THEN module ELSE chain[Frames!Min({k \in S : k > j})].prevMod
  <1>1. chain \in Seq(Frames!Frame) /\ n \in Nat /\ i \in 1 .. n
    BY DEF Frames!RegisterInv
  <1>2. ASSUME NEW j \in S PROVE taken(j) = own[j]
    <2>1. j \in i + 1 .. n /\ j \in 1 .. n /\ j \in Int /\ chain[j].prevMod # None
      BY <1>1 DEF Frames!Saved
    <2>2. {k \in S : k > j} = Frames!Saved(j + 1, n)
      BY <2>1, <1>1 DEF Frames!Saved
    <2>3. Frames!ModuleOf(j) = IF {k \in S : k > j} = {} THEN module
                               ELSE chain[Frames!Min({k \in S : k > j})].prevMod
      BY Zenon, <2>2 DEF Frames!ModuleOf
    <2>4. S \subseteq 1 .. n
      BY <1>1 DEF Frames!Saved
    <2>5. j = Frames!Max(S) <=> {k \in S : k > j} = {}
      <3>1. ASSUME j = Frames!Max(S) PROVE {k \in S : k > j} = {}
        <4>1. \A y \in S : j >= y
          BY <3>1, <2>4, <1>1, MaxExists
        <4>2. S \subseteq Int
          BY <2>4
        <4> HIDE DEF S
        <4>3. \A k \in S : ~(k > j)
          BY <4>1, <4>2, <2>1
        <4> QED
          BY <4>3
      <3>2. ASSUME {k \in S : k > j} = {} PROVE j = Frames!Max(S)
        <4>1. \A y \in S : ~(y > j)
          BY <3>2
        <4>2. S \subseteq Int
          BY <2>4
        <4> HIDE DEF S
        <4>3. \A y \in S : j >= y
          BY <4>1, <4>2, <2>1
        <4> QED
          BY <1>2, <4>2, <4>3, MaxIs
      <3> QED
        BY <3>1, <3>2
    <2>6. taken(j) = Frames!ModuleOf(j)
      BY Zenon, <2>3, <2>5
    <2> QED
      BY <2>1, <2>6, RegistersFollow
  <1>3. Frames!Dropped(i, m) = Cardinality({j \in S : taken(j) = m})
    BY Zenon, SameCardinality DEF Frames!Dropped
  <1>4. {j \in S : taken(j) = m} = {j \in S : own[j] = m}
    <2> HIDE DEF taken
    <2> QED
      BY <1>2
  <1>5. {j \in S : own[j] = m} = OwnedAbove(i, m)
    BY DEF OwnedAbove, Frames!Saved
  <1> QED
    BY <1>3, <1>4, <1>5

(* The references and the ghost modules of any stack q.                    *)
RefsFit(r, q, mod) ==
    \A m \in Frames!All : r[m] = Cardinality(SavedIn(q, Len(q), m)) + One(m = mod)
OwnFits(o, q, mod) ==
    /\ o \in Seq(Frames!All) /\ Len(o) = Len(q)
    /\ q # <<>> => o[Len(o)] = mod
    /\ \A i \in 1 .. Len(q) - 1 : o[i] = IF q[i + 1].prevMod = None THEN o[i + 1] ELSE q[i + 1].prevMod

LEMMA PartsFit ==
    /\ Frames!OwnInv <=> OwnFits(own, chain, module)
    /\ Frames!OwnInv' <=> OwnFits(own', chain', module')
    /\ state # "gone" => (Frames!ReferencesExact <=> RefsFit(refs, chain, module))
    /\ state' # "gone" => (Frames!ReferencesExact' <=> RefsFit(refs', chain', module'))
  <1>1. /\ Frames!OwnInv <=> OwnFits(own, chain, module)
        /\ Frames!OwnInv' <=> OwnFits(own', chain', module')
    BY DEF Frames!OwnInv, OwnFits
  <1>2. ASSUME state # "gone" PROVE Frames!ReferencesExact <=> RefsFit(refs, chain, module)
    <2>1. \A m : {i \in Frames!Saved(1, Len(chain)) : chain[i].prevMod = m} = SavedIn(chain, Len(chain), m)
      BY DEF Frames!Saved, SavedIn
    <2>2. \A m \in Frames!All : One(m = module) = IF m = module THEN 1 ELSE 0
      BY DEF One
    <2> QED
      BY Zenon, <1>2, <2>1, <2>2, SameCardinality DEF Frames!ReferencesExact, RefsFit
  <1>3. ASSUME state' # "gone" PROVE Frames!ReferencesExact' <=> RefsFit(refs', chain', module')
    <2>1. \A m : {i \in Frames!Saved(1, Len(chain))' : chain'[i].prevMod = m} = SavedIn(chain', Len(chain'), m)
      BY DEF Frames!Saved, SavedIn
    <2>2. \A m \in Frames!All : One(m = module') = IF m = module' THEN 1 ELSE 0
      BY DEF One
    <2> QED
      BY Zenon, <1>3, <2>1, <2>2, SameCardinality DEF Frames!ReferencesExact, RefsFit
  <1> QED
    BY <1>1, <1>2, <1>3

LEMMA PushCount ==
    ASSUME NEW q \in Seq(Frames!Frame), NEW f \in Frames!Frame, NEW m
    PROVE  /\ Cardinality(SavedIn(q, Len(q), m)) \in Nat
           /\ Cardinality(SavedIn(Append(q, f), Len(q) + 1, m))
                 = Cardinality(SavedIn(q, Len(q), m)) + One(f.prevMod # None /\ f.prevMod = m)
  <1> DEFINE n == Len(q)
             b == Append(q, f)
             S == SavedIn(q, n, m)
             T == SavedIn(b, n + 1, m)
  <1>1. n \in Nat /\ b[n + 1] = f /\ \A i \in 1 .. n : b[i] = q[i]
    OBVIOUS
  <1> HIDE DEF n, b
  <1>2. IsFiniteSet(S) /\ Cardinality(S) \in Nat
    <2>1. IsFiniteSet(1 .. n)
      BY <1>1, FS_Interval
    <2>2. S \subseteq 1 .. n
      BY DEF SavedIn
    <2> QED
      BY <2>1, <2>2, FS_Subset, FS_CardinalityType
  <1>3. CASE f.prevMod # None /\ f.prevMod = m
    <2>1. T = S \cup {n + 1} /\ n + 1 \notin S
      BY <1>1, <1>3 DEF SavedIn
    <2> HIDE DEF S, T
    <2>2. Cardinality(T) = Cardinality(S) + 1
      BY <2>1, <1>2, FS_AddElement
    <2> QED
      BY <2>2, <1>2, <1>3 DEF One, S, T, n, b
  <1>4. CASE ~(f.prevMod # None /\ f.prevMod = m)
    <2>1. T = S
      BY <1>1, <1>4 DEF SavedIn
    <2> HIDE DEF S, T
    <2>2. Cardinality(T) = Cardinality(S) + 0
      BY <2>1, <1>2
    <2> QED
      BY <2>2, <1>2, <1>4 DEF One, S, T, n, b
  <1> QED
    BY <1>3, <1>4

LEMMA SplitTop ==
    ASSUME NEW q \in Seq(Frames!Frame), q # <<>>
    PROVE  LET n == Len(q)
               r == SubSeq(q, 1, n - 1)
           IN /\ n \in Nat \ {0} /\ r \in Seq(Frames!Frame) /\ q[n] \in Frames!Frame
              /\ Len(r) = n - 1 /\ q = Append(r, q[n])
              /\ \A i \in 1 .. n - 1 : r[i] = q[i]
  <1> DEFINE n == Len(q)
             r == SubSeq(q, 1, n - 1)
  <1>1. n \in Nat \ {0}
    BY EmptySeq
  <1>2. r \in Seq(Frames!Frame) /\ q[n] \in Frames!Frame /\ Len(r) = n - 1 /\ \A i \in 1 .. n - 1 : r[i] = q[i]
    <2>1. q[n] \in Frames!Frame
      BY <1>1
    <2>2. \A k \in 0 .. n : /\ SubSeq(q, 1, k) \in Seq(Frames!Frame) /\ Len(SubSeq(q, 1, k)) = k
                            /\ \A i \in 1 .. k : SubSeq(q, 1, k)[i] = q[i]
      OBVIOUS
    <2>3. n - 1 \in 0 .. n
      BY <1>1
    <2> QED
      BY <2>1, <2>2, <2>3
  <1> DEFINE a == Append(r, q[n])
  <1>3. a \in Seq(Frames!Frame) /\ Len(a) = Len(q) /\ \A i \in 1 .. Len(q) : a[i] = q[i]
    <2> HIDE DEF r
    <2>1. a \in Seq(Frames!Frame) /\ Len(a) = n /\ a[n] = q[n] /\ \A i \in 1 .. n - 1 : a[i] = r[i]
      BY <1>1, <1>2
    <2> HIDE DEF a
    <2>2. \A i \in 1 .. n : i = n \/ i \in 1 .. n - 1
      BY <1>1
    <2> QED
      BY <2>1, <2>2, <1>2
  <1> HIDE DEF a
  <1>4. q = a
    BY <1>3, SeqEqual
  <1> QED
    BY <1>1, <1>2, <1>4 DEF a

LEMMA PushRefs ==
    ASSUME FramesFit, NEW q \in Seq(Frames!Frame), NEW f \in Frames!Frame,
           NEW r \in [Frames!All -> Int], NEW mod \in Frames!All, RefsFit(r, q, mod)
    PROVE  /\ f.prevMod = None => RefsFit(r, Append(q, f), mod)
           /\ f.prevMod = mod => \A m \in Frames!All : RefsFit([r EXCEPT ![m] = @ + 1], Append(q, f), m)
  <1>1. Len(Append(q, f)) = Len(q) + 1
    OBVIOUS
  <1>2. None \notin Frames!All
    BY DEF FramesFit, Frames!StackAssumption
  <1>3. ASSUME f.prevMod = None PROVE RefsFit(r, Append(q, f), mod)
    <2> SUFFICES ASSUME NEW m \in Frames!All
                 PROVE  r[m] = Cardinality(SavedIn(Append(q, f), Len(q) + 1, m)) + One(m = mod)
      BY <1>1 DEF RefsFit
    <2>1. Cardinality(SavedIn(Append(q, f), Len(q) + 1, m)) = Cardinality(SavedIn(q, Len(q), m))
      <3>1. One(f.prevMod # None /\ f.prevMod = m) = 0
        BY <1>3 DEF One
      <3>2. /\ Cardinality(SavedIn(q, Len(q), m)) \in Nat
            /\ Cardinality(SavedIn(Append(q, f), Len(q) + 1, m)) = Cardinality(SavedIn(q, Len(q), m)) + 0
        BY <3>1, PushCount
      <3> QED
        BY <3>2
    <2> QED
      BY <2>1 DEF RefsFit
  <1>4. ASSUME f.prevMod = mod, NEW n2 \in Frames!All
        PROVE  RefsFit([r EXCEPT ![n2] = @ + 1], Append(q, f), n2)
    <2> SUFFICES ASSUME NEW m \in Frames!All
                 PROVE  [r EXCEPT ![n2] = @ + 1][m]
                          = Cardinality(SavedIn(Append(q, f), Len(q) + 1, m)) + One(m = n2)
      BY <1>1 DEF RefsFit
    <2> DEFINE c == Cardinality(SavedIn(q, Len(q), m))
    <2>1. c \in Nat /\ Cardinality(SavedIn(Append(q, f), Len(q) + 1, m)) = c + One(m = mod)
      <3>1. One(f.prevMod # None /\ f.prevMod = m) = One(m = mod)
        BY <1>2, <1>4 DEF One
      <3> QED
        BY <3>1, PushCount
    <2>2. r[m] = c + One(m = mod)
      BY DEF RefsFit
    <2>3. [r EXCEPT ![n2] = @ + 1][m] = r[m] + One(m = n2)
      BY DEF One
    <2> HIDE DEF c
    <2> QED
      BY <2>1, <2>2, <2>3
  <1> QED
    BY <1>3, <1>4

LEMMA PopRefs ==
    ASSUME FramesFit, NEW q \in Seq(Frames!Frame), q # <<>>,
           NEW r \in [Frames!All -> Int], NEW mod \in Frames!All, RefsFit(r, q, mod)
    PROVE  LET f == q[Len(q)]
               rest == SubSeq(q, 1, Len(q) - 1)
           IN /\ f.prevMod = None => RefsFit(r, rest, mod)
              /\ f.prevMod # None => RefsFit([r EXCEPT ![mod] = @ - 1], rest, f.prevMod)
  <1> DEFINE f == q[Len(q)]
             rest == SubSeq(q, 1, Len(q) - 1)
  <1>1. rest \in Seq(Frames!Frame) /\ f \in Frames!Frame /\ q = Append(rest, f) /\ Len(q) = Len(rest) + 1
    BY SplitTop
  <1> HIDE DEF f, rest
  <1> DEFINE C(m) == Cardinality(SavedIn(rest, Len(rest), m))
  <1>2. \A m \in Frames!All : C(m) \in Nat /\ r[m] = C(m) + One(f.prevMod # None /\ f.prevMod = m) + One(m = mod)
    <2> SUFFICES ASSUME NEW m \in Frames!All
                 PROVE  C(m) \in Nat /\ r[m] = C(m) + One(f.prevMod # None /\ f.prevMod = m) + One(m = mod)
      OBVIOUS
    <2>1. C(m) \in Nat /\ Cardinality(SavedIn(q, Len(q), m)) = C(m) + One(f.prevMod # None /\ f.prevMod = m)
      BY <1>1, PushCount
    <2>2. r[m] = Cardinality(SavedIn(q, Len(q), m)) + One(m = mod)
      BY DEF RefsFit
    <2> QED
      BY <2>1, <2>2
  <1> HIDE DEF C
  <1>3. ASSUME f.prevMod = None PROVE RefsFit(r, rest, mod)
    <2> SUFFICES ASSUME NEW m \in Frames!All PROVE r[m] = C(m) + One(m = mod)
      BY DEF RefsFit, C
    <2>1. One(f.prevMod # None /\ f.prevMod = m) = 0 /\ C(m) \in Nat
      BY <1>2, <1>3 DEF One
    <2>2. r[m] = C(m) + 0 + One(m = mod)
      BY <1>2, <2>1
    <2> QED
      BY <2>1, <2>2
  <1>4. ASSUME f.prevMod # None PROVE RefsFit([r EXCEPT ![mod] = @ - 1], rest, f.prevMod)
    <2> SUFFICES ASSUME NEW m \in Frames!All
                 PROVE  [r EXCEPT ![mod] = @ - 1][m] = C(m) + One(m = f.prevMod)
      BY DEF RefsFit, C
    <2>1. One(f.prevMod # None /\ f.prevMod = m) = One(m = f.prevMod) /\ C(m) \in Nat
      BY <1>2, <1>4 DEF One
    <2>2. r[m] = C(m) + One(m = f.prevMod) + One(m = mod)
      BY <1>2, <2>1
    <2>3. [r EXCEPT ![mod] = @ - 1][m] = r[m] - One(m = mod)
      BY DEF One
    <2>4. One(m = f.prevMod) \in Nat /\ One(m = mod) \in Nat
      BY DEF One
    <2> QED
      BY <2>1, <2>2, <2>3, <2>4
  <1> QED
    BY <1>3, <1>4 DEF f, rest

LEMMA PushOwn ==
    ASSUME FramesFit, NEW q \in Seq(Frames!Frame), q # <<>>, NEW f \in Frames!Frame,
           NEW o, NEW mod \in Frames!All, OwnFits(o, q, mod)
    PROVE  /\ f.prevMod = None => OwnFits(Append(o, mod), Append(q, f), mod)
           /\ f.prevMod = mod => \A m \in Frames!All : OwnFits(Append(o, m), Append(q, f), m)
  <1> DEFINE n == Len(q)
             b == Append(q, f)
  <1>1. n \in Nat \ {0} /\ Len(b) = n + 1 /\ b[n + 1] = f /\ \A i \in 1 .. n : b[i] = q[i]
    BY EmptySeq
  <1>2. None \notin Frames!All
    BY DEF FramesFit, Frames!StackAssumption
  <1>3. ASSUME NEW m \in Frames!All, f.prevMod = mod \/ (f.prevMod = None /\ m = mod)
        PROVE  OwnFits(Append(o, m), b, m)
    <2> DEFINE w == Append(o, m)
    <2>1. o \in Seq(Frames!All) /\ Len(o) = n /\ o[n] = mod
      BY DEF OwnFits
    <2>2. w \in Seq(Frames!All) /\ Len(w) = n + 1 /\ w[n + 1] = m /\ \A i \in 1 .. n : w[i] = o[i]
      BY <2>1, <1>1
    <2>3. \A i \in 1 .. n - 1 : o[i] = IF q[i + 1].prevMod = None THEN o[i + 1] ELSE q[i + 1].prevMod
      BY DEF OwnFits
    <2> HIDE DEF w, b, n
    <2>4. \A i \in 1 .. n : w[i] = IF b[i + 1].prevMod = None THEN w[i + 1] ELSE b[i + 1].prevMod
      <3> SUFFICES ASSUME NEW i \in 1 .. n
                   PROVE  w[i] = IF b[i + 1].prevMod = None THEN w[i + 1] ELSE b[i + 1].prevMod
        OBVIOUS
      <3>1. CASE i = n
        <4>1. w[i] = mod /\ b[i + 1] = f /\ w[i + 1] = m
          BY <3>1, <2>1, <2>2, <1>1
        <4> QED
          BY <4>1, <1>2, <1>3
      <3>2. CASE i # n
        <4>1. i \in 1 .. n - 1 /\ i + 1 \in 1 .. n
          BY <3>2, <1>1
        <4>2. w[i] = o[i] /\ w[i + 1] = o[i + 1] /\ b[i + 1] = q[i + 1]
          BY <4>1, <2>2, <1>1
        <4> QED
          BY <4>1, <4>2, <2>3
      <3> QED
        BY <3>1, <3>2
    <2>5. (n + 1) - 1 = n
      BY <1>1
    <2>6. OwnFits(w, b, m)
      BY <2>2, <2>4, <2>5, <1>1 DEF OwnFits
    <2> QED
      BY <2>6 DEF w
  <1> QED
    BY <1>3

LEMMA CutOwn ==
    ASSUME NEW q \in Seq(Frames!Frame), NEW o, NEW mod, OwnFits(o, q, mod), NEW i \in 1 .. Len(q)
    PROVE  OwnFits(SubSeq(o, 1, i), SubSeq(q, 1, i), o[i])
  <1> DEFINE w == SubSeq(o, 1, i)
             b == SubSeq(q, 1, i)
  <1>1. o \in Seq(Frames!All) /\ Len(o) = Len(q) /\ i \in Nat
    BY DEF OwnFits
  <1>2. w \in Seq(Frames!All) /\ Len(w) = i /\ \A k \in 1 .. i : w[k] = o[k]
    BY <1>1
  <1>3. Len(b) = i /\ \A k \in 1 .. i : b[k] = q[k]
    OBVIOUS
  <1> HIDE DEF w, b
  <1>4. \A k \in 1 .. i - 1 : w[k] = IF b[k + 1].prevMod = None THEN w[k + 1] ELSE b[k + 1].prevMod
    <2> SUFFICES ASSUME NEW k \in 1 .. i - 1
                 PROVE  w[k] = IF b[k + 1].prevMod = None THEN w[k + 1] ELSE b[k + 1].prevMod
      OBVIOUS
    <2>1. k \in 1 .. i /\ k + 1 \in 1 .. i /\ k \in 1 .. Len(q) - 1
      BY <1>1
    <2>2. o[k] = IF q[k + 1].prevMod = None THEN o[k + 1] ELSE q[k + 1].prevMod
      BY <2>1 DEF OwnFits
    <2> QED
      BY <2>1, <2>2, <1>2, <1>3
  <1> QED
    BY <1>1, <1>2, <1>3, <1>4 DEF OwnFits

LEMMA PopOwn ==
    ASSUME FramesFit, NEW q \in Seq(Frames!Frame), q # <<>>, NEW o, NEW mod, OwnFits(o, q, mod)
    PROVE  LET f == q[Len(q)] IN
           OwnFits(SubSeq(o, 1, Len(q) - 1), SubSeq(q, 1, Len(q) - 1), IF f.prevMod = None THEN mod ELSE f.prevMod)
  <1> DEFINE n == Len(q)
             mod2 == IF q[n].prevMod = None THEN mod ELSE q[n].prevMod
  <1>1. n \in Nat \ {0} /\ o \in Seq(Frames!All) /\ Len(o) = n /\ o[n] = mod
    BY EmptySeq DEF OwnFits
  <1>2. CASE n = 1
    <2>1. SubSeq(o, 1, n - 1) = <<>> /\ SubSeq(q, 1, n - 1) = <<>>
      BY <1>1, <1>2
    <2>2. <<>> \in Seq(Frames!All) /\ Len(<<>>) = 0
      OBVIOUS
    <2> HIDE DEF mod2, n
    <2>3. OwnFits(<<>>, <<>>, mod2)
      BY <2>2 DEF OwnFits
    <2> QED
      BY <2>1, <2>3 DEF n, mod2
  <1>3. CASE n # 1
    <2>1. n - 1 \in 1 .. n /\ n - 1 \in 1 .. n - 1 /\ (n - 1) + 1 = n
      BY <1>1, <1>3
    <2>2. o[n - 1] = mod2
      BY <2>1, <1>1 DEF OwnFits
    <2>3. OwnFits(SubSeq(o, 1, n - 1), SubSeq(q, 1, n - 1), o[n - 1])
      BY <2>1, CutOwn
    <2> QED
      BY <2>2, <2>3
  <1> QED
    BY <1>2, <1>3

-----------------------------------------------------------------------------
(* The case a handler offers first exists, matches and has a position.     *)
LEMMA CaseIs ==
    ASSUME FramesFit, NEW m \in Frames!All, NEW p, NEW e, Frames!Cases(m, p, e) # {}
    PROVE  /\ Frames!CaseSound(Frames!CaseOf(m, p, e))
           /\ Frames!Matches(Frames!CaseOf(m, p, e), e)
  <1> DEFINE S == Frames!Cases(m, p, e)
             L(x, y) == x[1] < y[1] \/ (x[1] = y[1] /\ x[2] <= y[2])
  <1>1. /\ DOMAIN Handlers[m] = 1 .. Len(Handlers[m]) /\ Len(Handlers[m]) \in Nat
        /\ \A k \in DOMAIN Handlers[m] : Frames!HandlerSound(Handlers[m][k])
    BY Zenon DEF FramesFit, Frames!StackAssumption
  <1>2. ASSUME NEW x \in S
        PROVE  /\ x[1] \in DOMAIN Handlers[m] /\ x[2] \in DOMAIN Handlers[m][x[1]].cases
               /\ x = <<x[1], x[2]>>
               /\ Frames!Matches(Handlers[m][x[1]].cases[x[2]], e)
    BY <1>2 DEF Frames!Cases
  <1>3. \A x \in S : x[1] \in Nat /\ x[2] \in Nat
    <2> SUFFICES ASSUME NEW x \in S PROVE x[1] \in Nat /\ x[2] \in Nat
      OBVIOUS
    <2>1. x[1] \in DOMAIN Handlers[m] /\ x[2] \in DOMAIN Handlers[m][x[1]].cases
      BY <1>2
    <2>2. Frames!HandlerSound(Handlers[m][x[1]])
      BY <2>1, <1>1
    <2>3. DOMAIN Handlers[m][x[1]].cases = 1 .. Len(Handlers[m][x[1]].cases) /\ Len(Handlers[m][x[1]].cases) \in Nat
      BY <2>2 DEF Frames!HandlerSound
    <2> QED
      BY <2>1, <2>3, <1>1
  <1>4. \E x \in S : \A y \in S : L(x, y)
    <2>0. S # {}
      OBVIOUS
    <2> HIDE DEF S
    <2> DEFINE D == {x[1] : x \in S}
    <2>1. D \subseteq Nat /\ D # {}
      BY <1>3, <2>0
    <2>2. PICK a \in D : \A b \in D : a <= b
      BY <2>1, LeastNatural
    <2> DEFINE F == {x[2] : x \in {y \in S : y[1] = a}}
    <2>3. F \subseteq Nat /\ F # {}
      BY <1>3, <2>2
    <2>4. PICK c \in F : \A b \in F : c <= b
      BY <2>3, LeastNatural
    <2>5. PICK x \in S : x[1] = a /\ x[2] = c
      BY <2>4
    <2>6. ASSUME NEW y \in S PROVE L(x, y)
      <3>1. a <= y[1] /\ (y[1] = a => c <= y[2])
        BY <2>2, <2>4
      <3>2. a \in Nat /\ y[1] \in Nat
        BY <2>1, <1>3
      <3> HIDE DEF D, F
      <3> QED
        BY <2>5, <3>1, <3>2
    <2> QED
      BY <2>6
  <1> DEFINE z == Frames!FirstCase(S)
  <1>5. z \in S
    <2>1. z = CHOOSE x \in S : \A y \in S : L(x, y)
      BY Zenon DEF Frames!FirstCase
    <2> HIDE DEF S, L, z
    <2> QED
      BY Zenon, <1>4, <2>1
  <1>6. Frames!CaseOf(m, p, e) = Handlers[m][z[1]].cases[z[2]]
    BY Zenon DEF Frames!CaseOf
  <1> HIDE DEF S, z
  <1>7. /\ z[1] \in DOMAIN Handlers[m] /\ z[2] \in DOMAIN Handlers[m][z[1]].cases
        /\ Frames!Matches(Handlers[m][z[1]].cases[z[2]], e)
    BY <1>2, <1>5
  <1>8. Frames!CaseSound(Handlers[m][z[1]].cases[z[2]])
    BY <1>1, <1>7 DEF Frames!HandlerSound
  <1> QED
    BY Zenon, <1>6, <1>7, <1>8

-----------------------------------------------------------------------------
(* The invariant of a stack that is not gone, of any values.               *)
Held(q, pend) == IF pend = None THEN q ELSE Append(q, pend)
StackFits(pg, q, pend, mod, p, r, st, o) ==
    /\ q \in Seq(Frames!Frame) /\ pend \in {f \in Frames!Frame : f.prevMod = None} \cup {None}
    /\ mod \in Frames!All /\ p \in Int /\ r \in [Frames!All -> Int]
    /\ st = "running" \/ pend # None => q # <<>>
    /\ st # "gone"
    /\ Frames!Layout(Held(q, pend)) /\ Frames!PagesOf(pg, Held(q, pend))
    /\ OwnFits(o, q, mod) /\ RefsFit(r, q, mod)

LEMMA FitsIs ==
    /\ state # "gone" /\ Frames!StackInv => StackFits(pages, chain, pending, module, framePc, refs, state, own)
    /\ StackFits(pages', chain', pending', module', framePc', refs', state', own') => Frames!StackInv'
  <1>1. ASSUME state # "gone", Frames!StackInv
        PROVE  StackFits(pages, chain, pending, module, framePc, refs, state, own)
    <2>1. Frames!RegisterInv /\ Frames!LayoutInv /\ Frames!OwnInv /\ Frames!ReferencesExact
      BY <1>1 DEF Frames!StackInv
    <2>2. OwnFits(own, chain, module) /\ RefsFit(refs, chain, module)
      BY <1>1, <2>1, PartsFit
    <2>3. Frames!Layout(Held(chain, pending)) /\ Frames!PagesOf(pages, Held(chain, pending))
      BY Zenon, <1>1, <2>1 DEF Frames!LayoutInv, Frames!Stacked, Held
    <2> QED
      BY Zenon, <1>1, <2>1, <2>2, <2>3 DEF StackFits, Frames!RegisterInv, Frames!Running
  <1>2. ASSUME StackFits(pages', chain', pending', module', framePc', refs', state', own')
        PROVE  Frames!StackInv'
    <2>1. OwnFits(own', chain', module') /\ RefsFit(refs', chain', module') /\ state' # "gone"
      BY Zenon, <1>2 DEF StackFits
    <2>2. Frames!OwnInv' /\ Frames!ReferencesExact'
      BY <2>1, PartsFit
    <2>3. Frames!LayoutInv'
      BY Zenon, <1>2 DEF StackFits, Frames!LayoutInv, Frames!Stacked, Held
    <2>4. Frames!RegisterInv'
      BY Zenon, <1>2 DEF StackFits, Frames!RegisterInv, Frames!Running
    <2> QED
      BY <2>2, <2>3, <2>4 DEF Frames!StackInv
  <1> QED
    BY <1>1, <1>2

LEMMA FramesStart ==
    ASSUME FramesFit, Frames!Init
    PROVE  Frames!StackInv
  <1>1. PICK sz \in Sizes : /\ sz <= PageSize /\ chain = <<Frames!Place(1, 0, sz)>>
                           /\ pages = <<Frames!Where(Frames!Place(1, 0, sz))>>
    BY DEF Frames!Init
  <1>2. /\ pending = None /\ module = Entry /\ framePc \in PCs /\ own = <<Entry>> /\ state = "running"
        /\ refs = [m \in Frames!All |-> IF m = Entry THEN 1 ELSE 0]
    BY DEF Frames!Init
  <1>3. /\ sz \in Nat \ {0} /\ NoPc \in Int /\ PCs \subseteq Nat /\ Entry \in Frames!All
        /\ Header \in Nat /\ PageSize \in Nat /\ Header < PageSize /\ None \notin Frames!All
    BY DEF FramesFit, Frames!StackAssumption, Frames!All
  <1> DEFINE f == Frames!Place(1, 0, sz)
  <1>4. f \in Frames!Frame /\ f.page = 1 /\ f.off = 0 /\ f.size = sz /\ f.prevMod = None
    BY <1>3 DEF Frames!Place, Frames!Frame
  <1>5. 0 + sz <= PageSize /\ 0 < Frames!Limit
    BY <1>1, <1>3 DEF Frames!Limit
  <1> HIDE DEF f
  <1>6. /\ chain = <<f>> /\ Len(chain) = 1 /\ chain[1] = f /\ chain \in Seq(Frames!Frame) /\ chain # <<>>
        /\ pages = <<Frames!Where(f)>>
    BY <1>1, <1>4 DEF f
  <1>7. Frames!Layout(chain)
    <2>1. f.off + f.size <= PageSize /\ f.off < Frames!Limit
      BY Zenon, <1>4, <1>5
    <2>2. 1 .. 1 = {1} /\ 1 .. 0 = {} /\ 1 - 1 = 0
      OBVIOUS
    <2>3. \A i \in 1 .. Len(chain) : chain[i].off + chain[i].size <= PageSize /\ chain[i].off < Frames!Limit
      BY Zenon, <1>6, <2>1, <2>2
    <2> QED
      BY <1>4, <1>6, <2>2, <2>3 DEF Frames!Layout
  <1>8. Frames!PagesOf(pages, chain)
    <2>1. Frames!Where(f) \in Frames!Spot
      BY <1>4, FrameParts
    <2>2. pages \in Seq(Frames!Spot) /\ Len(pages) = 1 /\ pages[1] = Frames!Where(f)
      BY <1>6, <2>1
    <2>3. \A i \in 1 .. Len(chain) : i = 1
      BY <1>6
    <2> QED
      BY <1>4, <1>6, <2>2, <2>3 DEF Frames!PagesOf
  <1>9. OwnFits(own, chain, module)
    <2>1. own \in Seq(Frames!All) /\ Len(own) = 1 /\ own[1] = Entry
      BY <1>2, <1>3
    <2>2. 1 .. Len(chain) - 1 = {}
      BY <1>6
    <2> QED
      BY <1>2, <1>6, <2>1, <2>2 DEF OwnFits
  <1>10. RefsFit(refs, chain, module)
    <2>1. \A m : SavedIn(chain, Len(chain), m) = {}
      BY <1>4, <1>6 DEF SavedIn
    <2>2. \A m : Cardinality(SavedIn(chain, Len(chain), m)) = 0
      BY <2>1, FS_EmptySet
    <2> QED
      BY <1>2, <2>2 DEF RefsFit, One
  <1>11. Frames!OwnInv /\ Frames!ReferencesExact
    BY <1>2, <1>9, <1>10, PartsFit
  <1>12. Frames!LayoutInv
    BY <1>2, <1>7, <1>8 DEF Frames!LayoutInv, Frames!Stacked
  <1>13. Frames!RegisterInv
    BY <1>2, <1>3, <1>6 DEF Frames!RegisterInv
  <1> QED
    BY <1>11, <1>12, <1>13 DEF Frames!StackInv

-----------------------------------------------------------------------------
(* Every instruction keeps it.                                             *)
LEMMA PushedIs ==
    ASSUME NEW f
    PROVE  Frames!push_frame(Frames!Here, f) = [pages |-> pages, chain |-> Append(chain, f)]
  BY DEF Frames!push_frame, Frames!Here

LEMMA SavedPc ==
    ASSUME NEW f \in Frames!Frame, NEW p \in Int, NEW m \in Frames!All
    PROVE  /\ [f EXCEPT !.prevPc = p] \in Frames!Frame
           /\ [f EXCEPT !.prevPc = p].prevMod = f.prevMod
           /\ Frames!Where([f EXCEPT !.prevPc = p]) = Frames!Where(f)
           /\ [f EXCEPT !.prevPc = p, !.prevMod = m] \in Frames!Frame
           /\ [f EXCEPT !.prevPc = p, !.prevMod = m].prevMod = m
           /\ Frames!Where([f EXCEPT !.prevPc = p, !.prevMod = m]) = Frames!Where(f)
  BY DEF Frames!Frame, Frames!Where

LEMMA JmpExitKeep ==
    ASSUME FramesFit, Frames!StackInv, (\E p \in PCs : Frames!jmp(p)) \/ Frames!exit
    PROVE  Frames!StackInv'
  <1>1. /\ state = "running" /\ state' \in {"running", "exiting"} /\ framePc' \in PCs \cup {framePc}
        /\ UNCHANGED <<pages, chain, pending, module, refs, own>>
    BY DEF Frames!jmp, Frames!exit, Frames!Running
  <1>2. StackFits(pages, chain, pending, module, framePc, refs, state, own)
    BY <1>1, FitsIs
  <1>3. PCs \subseteq Nat
    BY DEF FramesFit, Frames!StackAssumption
  <1>4. framePc' \in Int
    <2>1. framePc \in Int
      BY Zenon, <1>2 DEF StackFits
    <2> QED
      BY <1>1, <1>3, <2>1
  <1>5. state' # "gone" /\ (state' = "running" => state = "running")
    BY <1>1
  <1>6. StackFits(pages', chain', pending', module', framePc', refs', state', own')
    BY Zenon, <1>1, <1>2, <1>4, <1>5 DEF StackFits
  <1> QED
    BY <1>6, FitsIs

LEMMA FrameKeeps ==
    ASSUME FramesFit, Frames!StackInv, NEW sz \in Sizes, Frames!frame(sz)
    PROVE  Frames!StackInv'
  <1>1. /\ state = "running" /\ pending = None
        /\ UNCHANGED <<chain, module, framePc, refs, own>>
    BY DEF Frames!frame, Frames!Running
  <1>2. StackFits(pages, chain, pending, module, framePc, refs, state, own)
    BY <1>1, FitsIs
  <1>3. CASE sz > PageSize
    <2>1. state' = "ended" /\ UNCHANGED <<pages, pending>>
      BY <1>3 DEF Frames!frame
    <2>2. state' # "gone" /\ state' # "running"
      BY <2>1
    <2>3. StackFits(pages', chain', pending', module', framePc', refs', state', own')
      BY Zenon, <1>1, <1>2, <2>1, <2>2 DEF StackFits
    <2> QED
      BY <2>3, FitsIs
  <1>4. CASE ~(sz > PageSize)
    <2>1. /\ pending' = Frames!NewPlace(sz) /\ state' = state
          /\ pages' = [i \in 1 .. pending'.page |-> IF i = pending'.page THEN Frames!Where(pending') ELSE pages[i]]
      BY <1>4 DEF Frames!frame
    <2>2. chain # <<>> /\ Frames!Layout(chain) /\ Frames!PagesOf(pages, chain) /\ chain \in Seq(Frames!Frame)
      BY <1>1, <1>2 DEF StackFits, Held
    <2>3. sz <= PageSize
      <3>1. sz \in Nat /\ PageSize \in Nat
        BY DEF FramesFit, Frames!StackAssumption
      <3> QED
        BY <3>1, <1>4
    <2>4. PICK f, pg : f = pending' /\ pg = pages'
      OBVIOUS
    <2>5. /\ f \in Frames!Frame /\ f.prevMod = None
          /\ Frames!Layout(Append(chain, f)) /\ Frames!PagesOf(pg, Append(chain, f))
      BY <2>1, <2>2, <2>3, <2>4, NewPlaceKeeps
    <2>6. None \notin Frames!Frame
      BY DEF FramesFit, Frames!StackAssumption
    <2>7. Held(chain, f) = Append(chain, f)
      BY <2>5, <2>6 DEF Held
    <2>8. f \in {g \in Frames!Frame : g.prevMod = None} \cup {None}
      BY <2>5
    <2>9. StackFits(pages', chain', pending', module', framePc', refs', state', own')
      BY Zenon, <1>1, <1>2, <2>1, <2>2, <2>4, <2>5, <2>7, <2>8 DEF StackFits
    <2> QED
      BY <2>9, FitsIs
  <1> QED
    BY <1>3, <1>4

(* call and mcall: the frame saves the position and, between modules, the  *)
(* module of its caller.                                                   *)
LEMMA CallsKeep ==
    ASSUME FramesFit, Frames!StackInv, NEW p \in PCs,
           Frames!call(p) \/ \E m \in ModuleRefs : Frames!mcall(m, p)
    PROVE  Frames!StackInv'
  <1>1. /\ state = "running" /\ framePc \in PCs /\ pending # None /\ pending' = None /\ framePc' = p
        /\ UNCHANGED <<pages, state>>
    BY DEF Frames!call, Frames!mcall, Frames!AtCode, Frames!Running
  <1>2. StackFits(pages, chain, pending, module, framePc, refs, state, own)
    BY <1>1, FitsIs
  <1>3. /\ pending \in Frames!Frame /\ pending.prevMod = None /\ chain \in Seq(Frames!Frame) /\ chain # <<>>
        /\ module \in Frames!All /\ refs \in [Frames!All -> Int]
        /\ Frames!Layout(Append(chain, pending)) /\ Frames!PagesOf(pages, Append(chain, pending))
        /\ OwnFits(own, chain, module) /\ RefsFit(refs, chain, module)
    BY <1>1, <1>2 DEF StackFits, Held
  <1>4. framePc + 1 \in Int /\ framePc' \in Int
    BY <1>1 DEF FramesFit, Frames!StackAssumption
  <1>5. ASSUME NEW f \in Frames!Frame, Frames!Where(f) = Frames!Where(pending), chain' = Append(chain, f)
        PROVE  /\ chain' \in Seq(Frames!Frame) /\ chain' # <<>> /\ Held(chain', pending') = Append(chain, f)
               /\ Frames!Layout(Append(chain, f)) /\ Frames!PagesOf(pages, Append(chain, f))
    <2>1. Append(chain, f) \in Seq(Frames!Frame) /\ Append(chain, f) # <<>>
      BY <1>3
    <2> QED
      BY <2>1, <1>1, <1>3, <1>5, SameSpot DEF Held
  <1>6. CASE Frames!call(p)
    <2> DEFINE f == [pending EXCEPT !.prevPc = framePc + 1]
    <2>1. f \in Frames!Frame /\ f.prevMod = None /\ Frames!Where(f) = Frames!Where(pending)
      BY <1>3, <1>4, SavedPc
    <2> HIDE DEF f
    <2>2. chain' = Append(chain, f) /\ own' = Append(own, module) /\ UNCHANGED <<module, refs>>
      BY <1>6, PushedIs DEF Frames!call, f
    <2>3. OwnFits(Append(own, module), Append(chain, f), module) /\ RefsFit(refs, Append(chain, f), module)
      BY <1>3, <2>1, PushOwn, PushRefs
    <2>4. pending' \in {g \in Frames!Frame : g.prevMod = None} \cup {None}
      BY <1>1
    <2>5. state' # "gone"
      BY <1>1
    <2>6. StackFits(pages', chain', pending', module', framePc', refs', state', own')
      BY Zenon, <1>1, <1>3, <1>4, <1>5, <2>1, <2>2, <2>3, <2>4, <2>5 DEF StackFits
    <2> QED
      BY <2>6, FitsIs
  <1>7. CASE \E m \in ModuleRefs : Frames!mcall(m, p)
    <2>0. PICK m \in ModuleRefs : Frames!mcall(m, p)
      BY <1>7
    <2> DEFINE f == [pending EXCEPT !.prevPc = framePc + 1, !.prevMod = module]
    <2>1. f \in Frames!Frame /\ f.prevMod = module /\ Frames!Where(f) = Frames!Where(pending)
      BY <1>3, <1>4, SavedPc
    <2> HIDE DEF f
    <2>2. /\ chain' = Append(chain, f) /\ own' = Append(own, m) /\ module' = m
          /\ refs' = [refs EXCEPT ![m] = @ + 1]
      BY <2>0, PushedIs DEF Frames!mcall, f
    <2>3. m \in Frames!All
      BY DEF Frames!All
    <2>4. OwnFits(Append(own, m), Append(chain, f), m) /\ RefsFit([refs EXCEPT ![m] = @ + 1], Append(chain, f), m)
      BY <1>3, <2>1, <2>3, PushOwn, PushRefs
    <2>5. pending' \in {g \in Frames!Frame : g.prevMod = None} \cup {None}
      BY <1>1
    <2>6. state' # "gone" /\ [refs EXCEPT ![m] = @ + 1] \in [Frames!All -> Int]
      <3>1. state' # "gone"
        BY <1>1
      <3>2. refs[m] + 1 \in Int
        BY <1>3, <2>3
      <3>3. [refs EXCEPT ![m] = @ + 1] \in [Frames!All -> Int]
        BY ONLY <1>3, <2>3, <3>2
      <3> QED
        BY <3>1, <3>3
    <2>7. StackFits(pages', chain', pending', module', framePc', refs', state', own')
      BY Zenon, <1>1, <1>3, <1>4, <1>5, <2>1, <2>2, <2>3, <2>4, <2>5, <2>6 DEF StackFits
    <2> QED
      BY <2>7, FitsIs
  <1> QED
    BY <1>6, <1>7

LEMMA RetKeeps ==
    ASSUME FramesFit, Frames!StackInv, Frames!ret
    PROVE  Frames!StackInv'
  <1> DEFINE n == Len(chain)
             f == chain[n]
             r == SubSeq(chain, 1, n - 1)
             mod == IF f.prevMod = None THEN module ELSE f.prevMod
  <1>1. /\ state = "running" /\ pending = None /\ pending' = None
        /\ IF f.prevMod = None THEN UNCHANGED <<module, refs>>
           ELSE module' = f.prevMod /\ refs' = [refs EXCEPT ![module] = @ - 1]
        /\ pages' = Frames!pop_frame(Frames!Here).pages /\ chain' = Frames!pop_frame(Frames!Here).chain
        /\ framePc' = f.prevPc
        /\ state' = IF chain' = <<>> THEN "empty_stack" ELSE state
        /\ own' = SubSeq(own, 1, Len(own) - 1)
    BY Zenon DEF Frames!ret, Frames!Running, Frames!Last, Frames!Front
  <1>2. StackFits(pages, chain, pending, module, framePc, refs, state, own)
    BY <1>1, FitsIs
  <1>3. /\ chain \in Seq(Frames!Frame) /\ chain # <<>>
        /\ module \in Frames!All /\ refs \in [Frames!All -> Int]
        /\ Frames!Layout(chain) /\ Frames!PagesOf(pages, chain)
        /\ OwnFits(own, chain, module) /\ RefsFit(refs, chain, module) /\ Len(own) = n
    BY <1>1, <1>2 DEF StackFits, Held, OwnFits
  <1>4. Frames!Here = [pages |-> pages, chain |-> chain]
    BY DEF Frames!Here
  <1> DEFINE s == Frames!pop_frame(Frames!Here)
  <1>5. s = [pages |-> s.pages, chain |-> r] /\ Frames!Layout(r) /\ Frames!PagesOf(s.pages, r)
    <2>1. PICK h : h = Frames!Here
      OBVIOUS
    <2> QED
      BY <1>3, <1>4, PopKeeps
  <1>6. s.chain = r
    <2> HIDE DEF r
    <2> QED
      BY <1>5
  <1>7. f \in Frames!Frame /\ r \in Seq(Frames!Frame)
    BY <1>3, SplitTop
  <1>8. f.prevPc \in Int /\ f.prevMod \in Frames!All \cup {None}
    BY <1>7, FrameParts
  <1>9. OwnFits(SubSeq(own, 1, n - 1), r, mod)
    BY <1>3, PopOwn
  <1>10. RefsFit(refs', r, mod) /\ module' = mod /\ refs' \in [Frames!All -> Int] /\ mod \in Frames!All
    <2>1. /\ f.prevMod = None => RefsFit(refs, r, module)
          /\ f.prevMod # None => RefsFit([refs EXCEPT ![module] = @ - 1], r, f.prevMod)
      BY <1>3, PopRefs
    <2> HIDE DEF f, r
    <2>2. CASE f.prevMod = None
      BY <2>1, <2>2, <1>1, <1>3
    <2>3. CASE f.prevMod # None
      <3>1. module' = f.prevMod /\ refs' = [refs EXCEPT ![module] = @ - 1]
        BY <2>3, <1>1
      <3>2. [refs EXCEPT ![module] = @ - 1] \in [Frames!All -> Int]
        BY <1>3
      <3> QED
        BY <2>1, <2>3, <3>1, <3>2, <1>8
    <2> QED
      BY <2>2, <2>3
  <1> HIDE DEF s, r, f, mod
  <1>11. chain' = r /\ pages' = s.pages /\ Held(chain', pending') = r /\ own' = SubSeq(own, 1, n - 1)
    BY <1>1, <1>3, <1>6 DEF Held, s
  <1>12. /\ state' # "gone" /\ (state' = "running" => chain' # <<>>)
         /\ pending' \in {g \in Frames!Frame : g.prevMod = None} \cup {None}
    BY <1>1
  <1>13. StackFits(pages', chain', pending', module', framePc', refs', state', own')
    BY Zenon, <1>1, <1>5, <1>7, <1>8, <1>9, <1>10, <1>11, <1>12 DEF StackFits
  <1> QED
    BY <1>13, FitsIs

(* A built-in function and spawn use the frame and pop it at once.         *)
LEMMA InlineKeeps ==
    ASSUME FramesFit, Frames!StackInv, Frames!McallBuiltin \/ Frames!spawn
    PROVE  Frames!StackInv'
  <1> DEFINE h == Frames!push_frame(Frames!Here, pending)
             s == Frames!pop_frame(h)
             q == Append(chain, pending)
  <1>1. /\ state = "running" /\ framePc \in PCs /\ pending # None /\ pending' = None
        /\ pages' = s.pages /\ chain' = s.chain /\ framePc' = framePc + 1
        /\ UNCHANGED <<module, refs, state, own>>
    BY Zenon DEF Frames!McallBuiltin, Frames!spawn, Frames!AtCode, Frames!Running
  <1>2. StackFits(pages, chain, pending, module, framePc, refs, state, own)
    BY <1>1, FitsIs
  <1>3. /\ pending \in Frames!Frame /\ chain \in Seq(Frames!Frame) /\ chain # <<>>
        /\ Frames!Layout(q) /\ Frames!PagesOf(pages, q)
    BY <1>1, <1>2 DEF StackFits, Held
  <1>4. h = [pages |-> pages, chain |-> q]
    BY PushedIs
  <1>5. q # <<>> /\ SubSeq(q, 1, Len(q) - 1) = chain
    <2>1. q \in Seq(Frames!Frame) /\ q # <<>> /\ Len(q) = Len(chain) + 1 /\ \A i \in 1 .. Len(chain) : q[i] = chain[i]
      BY <1>3
    <2> DEFINE t == SubSeq(q, 1, Len(q) - 1)
    <2>2. t \in Seq(Frames!Frame) /\ Len(t) = Len(q) - 1 /\ \A i \in 1 .. Len(q) - 1 : t[i] = q[i]
      BY <2>1, SplitTop
    <2> HIDE DEF t, q
    <2>3. Len(t) = Len(chain) /\ \A i \in 1 .. Len(t) : t[i] = chain[i]
      BY <2>1, <2>2, <1>3
    <2>4. t = chain
      BY <2>2, <2>3, <1>3, SeqEqual
    <2> QED
      BY <2>1, <2>4 DEF t
  <1> HIDE DEF q, h
  <1>6. s = [pages |-> s.pages, chain |-> chain] /\ Frames!Layout(chain) /\ Frames!PagesOf(s.pages, chain)
    BY <1>3, <1>4, <1>5, PopKeeps
  <1> HIDE DEF s
  <1>7. s.chain = chain
    BY <1>6
  <1>8. Held(chain, None) = chain
    BY DEF Held
  <1>9. framePc' \in Int /\ None \in {g \in Frames!Frame : g.prevMod = None} \cup {None}
    BY <1>1 DEF FramesFit, Frames!StackAssumption
  <1>10. StackFits(pages', chain', pending', module', framePc', refs', state', own')
    BY Zenon, <1>1, <1>2, <1>3, <1>6, <1>7, <1>8, <1>9 DEF StackFits
  <1> QED
    BY <1>10, FitsIs

LEMMA ThrowKeeps ==
    ASSUME FramesFit, Frames!StackInv, Frames!Throw
    PROVE  Frames!StackInv'
  <1>1. state = "running" /\ state' = "broken" /\ UNCHANGED <<pages, module, framePc, refs>>
    BY DEF Frames!Throw, Frames!Running
  <1>2. StackFits(pages, chain, pending, module, framePc, refs, state, own)
    BY <1>1, FitsIs
  <1>3. state' # "gone" /\ state' # "running"
    BY <1>1
  <1>4. CASE UNCHANGED <<chain, pending, own>>
    <2>1. StackFits(pages', chain', pending', module', framePc', refs', state', own')
      BY Zenon, <1>1, <1>2, <1>3, <1>4 DEF StackFits
    <2> QED
      BY <2>1, FitsIs
  <1>5. CASE pending # None /\ chain' = Append(chain, pending) /\ pending' = None /\ own' = Append(own, module)
    <2>1. /\ pending \in Frames!Frame /\ pending.prevMod = None /\ chain \in Seq(Frames!Frame) /\ chain # <<>>
          /\ module \in Frames!All /\ refs \in [Frames!All -> Int]
          /\ OwnFits(own, chain, module) /\ RefsFit(refs, chain, module)
          /\ Held(chain, pending) = Append(chain, pending)
      BY <1>5, <1>2 DEF StackFits, Held
    <2>2. OwnFits(own', chain', module') /\ RefsFit(refs', chain', module')
      <3>1. OwnFits(Append(own, module), Append(chain, pending), module) /\ RefsFit(refs, Append(chain, pending), module)
        BY <2>1, PushOwn, PushRefs
      <3> QED
        BY Zenon, <3>1, <1>1, <1>5
    <2>3. chain' \in Seq(Frames!Frame)
      BY <1>5, <2>1
    <2>4. Held(chain', pending') = Append(chain, pending)
      BY <1>5 DEF Held
    <2>5. pending' \in {g \in Frames!Frame : g.prevMod = None} \cup {None}
      BY <1>5
    <2>6. StackFits(pages', chain', pending', module', framePc', refs', state', own')
      BY Zenon, <1>1, <1>2, <1>3, <1>5, <2>1, <2>2, <2>3, <2>4, <2>5 DEF StackFits
    <2> QED
      BY <2>6, FitsIs
  <1> QED
    BY <1>4, <1>5 DEF Frames!Throw

(* The frame that handles an exception, and what unwinding to it leaves.   *)
LEMMA HandlerFrame ==
    ASSUME FramesFit, chain \in Seq(Frames!Frame), NEW e,
           NEW i, i = Frames!find_exception_handler(e)
    PROVE  /\ i = 0 \/ (i \in 1 .. Len(chain) /\ Frames!Cases(Frames!ModuleOf(i), Frames!PcOf(i), e) # {})
           /\ \A k \in 1 .. Len(chain) :
                  i = 0 \/ k > i => Frames!Cases(Frames!ModuleOf(k), Frames!PcOf(k), e) = {}
  <1> DEFINE S == {k \in 1 .. Len(chain) : Frames!Cases(Frames!ModuleOf(k), Frames!PcOf(k), e) # {}}
  <1>1. i = IF S = {} THEN 0 ELSE Frames!Max(S)
    BY Zenon DEF Frames!find_exception_handler
  <1>2. CASE S = {}
    BY <1>1, <1>2
  <1>3. CASE S # {}
    <2>1. Len(chain) \in Nat /\ S \subseteq 1 .. Len(chain)
      OBVIOUS
    <2> HIDE DEF S
    <2>2. i \in S /\ \A y \in S : i >= y
      BY <1>1, <1>3, <2>1, MaxExists
    <2>3. \A k \in 1 .. Len(chain) : i = 0 \/ k > i => k \notin S
      BY <2>1, <2>2
    <2> USE DEF S
    <2>4. i \in 1 .. Len(chain) /\ Frames!Cases(Frames!ModuleOf(i), Frames!PcOf(i), e) # {}
      BY Zenon, <2>2
    <2>5. ASSUME NEW k \in 1 .. Len(chain), i = 0 \/ k > i
          PROVE  Frames!Cases(Frames!ModuleOf(k), Frames!PcOf(k), e) = {}
      BY Zenon, <2>3, <2>5
    <2> QED
      BY Zenon, <2>4, <2>5
  <1> QED
    BY <1>2, <1>3

LEMMA CutBelow ==
    ASSUME NEW q \in Seq(Frames!Frame), NEW f \in Frames!Frame, NEW i \in 1 .. Len(q)
    PROVE  SubSeq(Append(q, f), 1, i) = SubSeq(q, 1, i)
  <1> DEFINE a == Append(q, f)
             r == SubSeq(q, 1, i)
             t == SubSeq(a, 1, i)
  <1>1. a \in Seq(Frames!Frame) /\ Len(a) = Len(q) + 1 /\ \A k \in 1 .. Len(q) : a[k] = q[k]
    OBVIOUS
  <1>2. r \in Seq(Frames!Frame) /\ Len(r) = i /\ i \in Nat /\ \A k \in 1 .. i : r[k] = q[k]
    OBVIOUS
  <1> HIDE DEF a, r
  <1>3. i \in 0 .. Len(a)
    BY <1>1, <1>2
  <1>4. t \in Seq(Frames!Frame) /\ Len(t) = i /\ \A k \in 1 .. i : t[k] = a[k]
    BY <1>1, <1>3
  <1> HIDE DEF t
  <1>5. \A k \in 1 .. i : t[k] = r[k]
    BY <1>1, <1>2, <1>4
  <1>6. t = r
    BY <1>2, <1>4, <1>5, SeqEqual
  <1> QED
    BY <1>6 DEF t, r, a

LEMMA UnwindKeeps ==
    ASSUME FramesFit, Frames!StackInv, state # "gone",
           NEW e, NEW i \in 1 .. Len(chain), Frames!Cases(Frames!ModuleOf(i), Frames!PcOf(i), e) # {},
           NEW pg, Frames!PagesOf(pg, SubSeq(chain, 1, i))
    PROVE  LET r == SubSeq(chain, 1, i) IN
           /\ Frames!Layout(r)
           /\ StackFits(pg, r, None, Frames!ModuleOf(i), Frames!CaseOf(Frames!ModuleOf(i), Frames!PcOf(i), e).pc,
                        [m \in Frames!All |-> refs[m] - Frames!Dropped(i, m)], "running", SubSeq(own, 1, i))
  <1> DEFINE r == SubSeq(chain, 1, i)
             mod == Frames!ModuleOf(i)
             c == Frames!CaseOf(mod, Frames!PcOf(i), e)
             new == [m \in Frames!All |-> refs[m] - Frames!Dropped(i, m)]
  <1>1. Frames!RegisterInv /\ Frames!OwnInv
    BY DEF Frames!StackInv
  <1>2. StackFits(pages, chain, pending, module, framePc, refs, state, own)
    BY FitsIs
  <1>3. /\ chain \in Seq(Frames!Frame) /\ refs \in [Frames!All -> Int]
        /\ Frames!Layout(Held(chain, pending)) /\ OwnFits(own, chain, module) /\ RefsFit(refs, chain, module)
    BY Zenon, <1>2 DEF StackFits
  <1>4. /\ r \in Seq(Frames!Frame) /\ Len(r) = i /\ i \in Nat
        /\ \A k \in 1 .. i : r[k] = chain[k]
    BY <1>3
  <1>5. r # <<>>
    <2>1. Len(<<>>) = 0 /\ Len(r) # 0
      BY <1>4
    <2> HIDE DEF r
    <2> QED
      BY <2>1
  <1>6. Frames!Layout(r)
    <2>1. CASE pending = None
      <3>1. Frames!Layout(chain) /\ i \in 0 .. Len(chain)
        BY <2>1, <1>3 DEF Held
      <3> QED
        BY <3>1, LayoutBelow
    <2>2. CASE pending # None
      <3> DEFINE q == Append(chain, pending)
      <3>1. Frames!Layout(q)
        BY <2>2, <1>3 DEF Held
      <3>2. pending \in Frames!Frame
        BY <2>2, <1>2 DEF StackFits
      <3>3. i \in 0 .. Len(q)
        BY <3>2, <1>3
      <3>4. Frames!Layout(SubSeq(q, 1, i))
        BY <3>1, <3>3, LayoutBelow
      <3>5. SubSeq(q, 1, i) = r
        BY <3>2, <1>3, CutBelow
      <3> HIDE DEF q, r
      <3> QED
        BY <3>4, <3>5
    <2> QED
      BY <2>1, <2>2
  <1>7. mod = own[i] /\ own[i] \in Frames!All
    <2>1. mod = own[i]
      BY <1>1, RegistersFollow
    <2>2. own[i] \in Frames!All
      BY <1>3 DEF OwnFits
    <2> QED
      BY <2>1, <2>2
  <1>8. OwnFits(SubSeq(own, 1, i), r, mod)
    BY <1>3, <1>7, CutOwn
  <1>9. c.pc \in Int
    <2>1. Frames!CaseSound(c)
      BY <1>7, CaseIs
    <2> HIDE DEF c
    <2> QED
      BY <2>1 DEF Frames!CaseSound
  <1>10. \A m \in Frames!All : new[m] = Cardinality(SavedIn(chain, i, m)) + One(m = mod)
                               /\ new[m] \in Int
    <2> SUFFICES ASSUME NEW m \in Frames!All
                 PROVE  /\ new[m] = Cardinality(SavedIn(chain, i, m)) + One(m = mod)
                        /\ new[m] \in Int
      OBVIOUS
    <2>1. /\ Cardinality(SavedBelow(i, m)) \in Nat /\ Cardinality(OwnedAbove(i, m)) \in Nat
          /\ Cardinality(SavedBelow(Len(chain), m)) + One(m = module)
                = Cardinality(SavedBelow(i, m)) + Cardinality(OwnedAbove(i, m)) + One(m = own[i])
      BY <1>1, CountsMove
    <2>2. Frames!Dropped(i, m) = Cardinality(OwnedAbove(i, m))
      BY <1>1, DroppedIs
    <2>3. refs[m] = Cardinality(SavedBelow(Len(chain), m)) + One(m = module)
      BY <1>3 DEF RefsFit, SavedBelow
    <2>4. new[m] = refs[m] - Cardinality(OwnedAbove(i, m))
      BY <2>2
    <2> DEFINE a == Cardinality(SavedBelow(i, m))
               b == Cardinality(OwnedAbove(i, m))
               x == One(m = own[i])
               y == new[m]
    <2>5. a \in Nat /\ b \in Nat /\ x \in Nat
      BY <2>1 DEF One
    <2>6. y = a + b + x - b
      <3>1. refs[m] = a + b + x
        BY Zenon, <2>1, <2>3
      <3>2. y = refs[m] - b
        BY <2>4
      <3> DEFINE w == refs[m]
      <3>3. w = a + b + x /\ y = w - b
        BY Zenon, <3>1, <3>2
      <3> HIDE DEF a, b, x, y, w
      <3> QED
        BY <2>5, <3>3
    <2> HIDE DEF a, b, x, y
    <2>7. y = a + x /\ y \in Int
      BY <2>5, <2>6
    <2> QED
      BY <2>7, <1>7 DEF a, x, y, SavedBelow
  <1>11. RefsFit(new, r, mod) /\ new \in [Frames!All -> Int]
    <2>1. \A m : SavedIn(r, Len(r), m) = SavedIn(chain, i, m)
      <3> HIDE DEF r
      <3> QED
        BY <1>4 DEF SavedIn
    <2>2. new = [m \in Frames!All |-> new[m]]
      OBVIOUS
    <2> HIDE DEF new, r, mod
    <2>3. new \in [Frames!All -> Int]
      BY <1>10, <2>2
    <2> QED
      BY <1>10, <2>1, <2>3 DEF RefsFit
  <1>12. Held(r, None) = r /\ None \in {f \in Frames!Frame : f.prevMod = None} \cup {None} /\ "running" # "gone"
    BY DEF Held
  <1> HIDE DEF r, mod, c, new
  <1>13. StackFits(pg, r, None, mod, c.pc, new, "running", SubSeq(own, 1, i))
    BY Zenon, <1>4, <1>5, <1>6, <1>7, <1>8, <1>9, <1>11, <1>12 DEF StackFits, r
  <1> QED
    BY Zenon, <1>6, <1>13 DEF r, mod, c, new

LEMMA RaiseKeeps ==
    ASSUME FramesFit, Frames!StackInv, NEW e, Frames!raise(e)
    PROVE  Frames!StackInv'
  <1> DEFINE i == Frames!find_exception_handler(e)
             s == Frames!PopN(Frames!Here, Len(chain) - i)
  <1>1. /\ state = "running" /\ pending = None /\ UNCHANGED pending
        /\ IF i = 0 THEN state' = "broken" /\ UNCHANGED <<pages, chain, module, framePc, refs, own>>
           ELSE /\ pages' = s.pages /\ chain' = s.chain /\ module' = Frames!ModuleOf(i)
                /\ refs' = [m \in Frames!All |-> refs[m] - Frames!Dropped(i, m)]
                /\ framePc' = Frames!CaseOf(Frames!ModuleOf(i), Frames!PcOf(i), e).pc
                /\ own' = SubSeq(own, 1, i)
                /\ UNCHANGED state
    BY Zenon DEF Frames!raise, Frames!Running
  <1>2. StackFits(pages, chain, pending, module, framePc, refs, state, own)
    BY <1>1, FitsIs
  <1>3. chain \in Seq(Frames!Frame) /\ Frames!Layout(chain) /\ Frames!PagesOf(pages, chain)
    BY <1>1, <1>2 DEF StackFits, Held
  <1> HIDE DEF i, s
  <1>4. CASE i = 0
    <2>1. state' # "gone" /\ state' # "running"
      BY <1>1, <1>4
    <2>2. StackFits(pages', chain', pending', module', framePc', refs', state', own')
      BY Zenon, <1>1, <1>2, <1>4, <2>1 DEF StackFits
    <2> QED
      BY <2>2, FitsIs
  <1>5. CASE i # 0
    <2>1. i \in 1 .. Len(chain) /\ Frames!Cases(Frames!ModuleOf(i), Frames!PcOf(i), e) # {}
      BY <1>3, <1>5, HandlerFrame DEF i
    <2>2. Len(chain) - i \in 0 .. Len(chain) /\ Len(chain) - (Len(chain) - i) = i
      BY <2>1, <1>3
    <2>3. s.chain = SubSeq(chain, 1, i) /\ Frames!PagesOf(s.pages, SubSeq(chain, 1, i))
      <3>1. PICK h : h = Frames!Here
        OBVIOUS
      <3>2. h = [pages |-> pages, chain |-> chain] /\ s = Frames!PopN(h, Len(chain) - i)
        BY <3>1 DEF Frames!Here, s
      <3> QED
        BY <1>3, <2>2, <3>2, PopsKeep
    <2>4. StackFits(s.pages, SubSeq(chain, 1, i), None, Frames!ModuleOf(i),
                    Frames!CaseOf(Frames!ModuleOf(i), Frames!PcOf(i), e).pc,
                    [m \in Frames!All |-> refs[m] - Frames!Dropped(i, m)], "running", SubSeq(own, 1, i))
      BY <1>1, <2>1, <2>3, UnwindKeeps
    <2>5. StackFits(pages', chain', pending', module', framePc', refs', state', own')
      BY Zenon, <1>1, <1>5, <2>3, <2>4
    <2> QED
      BY <2>5, FitsIs
  <1> QED
    BY <1>4, <1>5

LEMMA RaiseInBuiltinKeeps ==
    ASSUME FramesFit, Frames!StackInv, NEW e, Frames!RaiseInBuiltin(e)
    PROVE  Frames!StackInv'
  <1> DEFINE i == Frames!find_exception_handler(e)
             h == Frames!push_frame(Frames!Here, pending)
             s == Frames!PopN(h, Len(chain) + 1 - i)
             f == [pending EXCEPT !.prevPc = framePc + 1, !.prevMod = module]
             q == Append(chain, pending)
  <1>1. /\ state = "running" /\ framePc \in PCs /\ pending # None /\ pending' = None
        /\ IF i = 0
           THEN /\ state' = "broken" /\ chain' = Append(chain, f)
                /\ module' = BuiltinRef /\ refs' = [refs EXCEPT ![BuiltinRef] = @ + 1]
                /\ own' = Append(own, BuiltinRef) /\ UNCHANGED <<pages, framePc>>
           ELSE /\ pages' = s.pages /\ chain' = s.chain /\ module' = Frames!ModuleOf(i)
                /\ refs' = [m \in Frames!All |-> refs[m] - Frames!Dropped(i, m)]
                /\ framePc' = Frames!CaseOf(Frames!ModuleOf(i), Frames!PcOf(i), e).pc
                /\ own' = SubSeq(own, 1, i)
                /\ UNCHANGED state
    BY Zenon DEF Frames!RaiseInBuiltin, Frames!find_exception_handler, Frames!AtCode, Frames!Running
  <1>2. StackFits(pages, chain, pending, module, framePc, refs, state, own)
    BY <1>1, FitsIs
  <1>3. /\ pending \in Frames!Frame /\ chain \in Seq(Frames!Frame) /\ chain # <<>>
        /\ module \in Frames!All /\ refs \in [Frames!All -> Int]
        /\ Frames!Layout(q) /\ Frames!PagesOf(pages, q)
        /\ OwnFits(own, chain, module) /\ RefsFit(refs, chain, module)
    BY <1>1, <1>2 DEF StackFits, Held
  <1>4. framePc + 1 \in Int /\ framePc \in Int /\ BuiltinRef \in Frames!All
    BY <1>1 DEF FramesFit, Frames!StackAssumption, Frames!All
  <1> HIDE DEF i, s
  <1>5. CASE i = 0
    <2>1. f \in Frames!Frame /\ f.prevMod = module /\ Frames!Where(f) = Frames!Where(pending)
      <3>1. pending \in Frames!Frame /\ module \in Frames!All /\ framePc + 1 \in Int
        BY <1>3, <1>4
      <3> QED
        BY ONLY <3>1, SavedPc
    <2> HIDE DEF f
    <2>2. Frames!Layout(Append(chain, f)) /\ Frames!PagesOf(pages, Append(chain, f))
      BY <1>3, <2>1, SameSpot
    <2>3. /\ OwnFits(Append(own, BuiltinRef), Append(chain, f), BuiltinRef)
          /\ RefsFit([refs EXCEPT ![BuiltinRef] = @ + 1], Append(chain, f), BuiltinRef)
      BY <1>3, <1>4, <2>1, PushOwn, PushRefs
    <2>4. refs[BuiltinRef] + 1 \in Int
      BY <1>3, <1>4
    <2>5. [refs EXCEPT ![BuiltinRef] = @ + 1] \in [Frames!All -> Int]
      BY ONLY <1>3, <1>4, <2>4
    <2>6. /\ state' # "gone" /\ state' # "running" /\ Held(chain', pending') = chain' /\ chain' \in Seq(Frames!Frame)
          /\ pending' \in {g \in Frames!Frame : g.prevMod = None} \cup {None}
      <3>1. state' = "broken" /\ chain' = Append(chain, f)
        BY Zenon, <1>1, <1>5 DEF f
      <3>2. Append(chain, f) \in Seq(Frames!Frame)
        BY <1>3, <2>1
      <3>3. Held(chain', pending') = chain'
        BY <1>1 DEF Held
      <3> QED
        BY <3>1, <3>2, <3>3, <1>1
    <2>7. StackFits(pages', chain', pending', module', framePc', refs', state', own')
      BY Zenon, <1>1, <1>4, <1>5, <2>2, <2>3, <2>5, <2>6 DEF StackFits
    <2> QED
      BY <2>7, FitsIs
  <1>6. CASE i # 0
    <2>1. i \in 1 .. Len(chain) /\ Frames!Cases(Frames!ModuleOf(i), Frames!PcOf(i), e) # {}
      BY <1>3, <1>6, HandlerFrame DEF i
    <2>2. Len(q) = Len(chain) + 1 /\ Len(chain) + 1 - i \in 0 .. Len(q) /\ Len(q) - (Len(chain) + 1 - i) = i
      BY <2>1, <1>3
    <2>3. SubSeq(q, 1, i) = SubSeq(chain, 1, i)
      BY <1>3, <2>1, CutBelow
    <2>4. h = [pages |-> pages, chain |-> q] /\ s = Frames!PopN(h, Len(chain) + 1 - i)
      BY PushedIs DEF s
    <2> HIDE DEF h, q
    <2>5. s.chain = SubSeq(chain, 1, i) /\ Frames!PagesOf(s.pages, SubSeq(chain, 1, i))
      <3>1. PICK k \in 0 .. Len(q) : k = Len(chain) + 1 - i
        BY <2>2
      <3>2. /\ Frames!PopN(h, k).chain = SubSeq(q, 1, Len(q) - k)
            /\ Frames!PagesOf(Frames!PopN(h, k).pages, SubSeq(q, 1, Len(q) - k))
        BY <1>3, <2>4, PopsKeep
      <3> QED
        BY <3>1, <3>2, <2>2, <2>3, <2>4
    <2>6. StackFits(s.pages, SubSeq(chain, 1, i), None, Frames!ModuleOf(i),
                    Frames!CaseOf(Frames!ModuleOf(i), Frames!PcOf(i), e).pc,
                    [m \in Frames!All |-> refs[m] - Frames!Dropped(i, m)], "running", SubSeq(own, 1, i))
      BY <1>1, <2>1, <2>5, UnwindKeeps
    <2>7. StackFits(pages', chain', pending', module', framePc', refs', state', own')
      BY Zenon, <1>1, <1>6, <2>5, <2>6
    <2> QED
      BY <2>7, FitsIs
  <1> QED
    BY <1>5, <1>6

(* The destructors drop a reference for every frame and the register.      *)
LEMMA DestroyKeeps ==
    ASSUME FramesFit, Frames!StackInv, Frames!Destroy
    PROVE  Frames!StackInv'
  <1>1. /\ state # "gone" /\ state' = "gone" /\ chain' = <<>> /\ own' = <<>> /\ pending' = None
        /\ refs' = [m \in Frames!All |->
                       refs[m] - Frames!Cardinality({i \in Frames!Saved(1, Len(chain)) : chain[i].prevMod = m})
                               - (IF m = module THEN 1 ELSE 0)]
        /\ UNCHANGED <<module, framePc>>
    BY DEF Frames!Destroy
  <1>2. StackFits(pages, chain, pending, module, framePc, refs, state, own)
    BY <1>1, FitsIs
  <1>3. chain \in Seq(Frames!Frame) /\ RefsFit(refs, chain, module) /\ module \in Frames!All /\ framePc \in Int
    BY Zenon, <1>2 DEF StackFits
  <1>4. \A m \in Frames!All : refs'[m] = 0
    <2> SUFFICES ASSUME NEW m \in Frames!All PROVE refs'[m] = 0
      OBVIOUS
    <2> DEFINE c == Cardinality(SavedIn(chain, Len(chain), m))
               x == One(m = module)
    <2>1. {i \in Frames!Saved(1, Len(chain)) : chain[i].prevMod = m} = SavedIn(chain, Len(chain), m)
      BY DEF Frames!Saved, SavedIn
    <2>2. Frames!Cardinality({i \in Frames!Saved(1, Len(chain)) : chain[i].prevMod = m}) = c
      BY <2>1, SameCardinality
    <2>3. refs[m] = c + x
      BY Zenon, <1>3 DEF RefsFit
    <2>4. x = IF m = module THEN 1 ELSE 0
      BY DEF One
    <2>5. refs'[m] = refs[m] - c - x
      BY Zenon, <1>1, <2>2, <2>4
    <2>6. IsFiniteSet(SavedIn(chain, Len(chain), m))
      <3>1. IsFiniteSet(1 .. Len(chain))
        BY <1>3, FS_Interval
      <3>2. SavedIn(chain, Len(chain), m) \subseteq 1 .. Len(chain)
        BY DEF SavedIn
      <3> QED
        BY <3>1, <3>2, FS_Subset
    <2>7. c \in Nat /\ x \in Nat
      BY <2>4, <2>6, FS_CardinalityType
    <2> DEFINE w == refs[m]
               y == refs'[m]
    <2>8. w = c + x /\ y = w - c - x
      BY Zenon, <2>3, <2>5
    <2> HIDE DEF c, x, w, y
    <2>9. y = 0
      BY <2>7, <2>8
    <2> QED
      BY <2>9 DEF y
  <1>5. refs' \in [Frames!All -> Int]
    <2>1. DOMAIN refs' = Frames!All /\ refs' = [m \in Frames!All |-> refs'[m]]
      BY <1>1
    <2>2. refs' = [m \in Frames!All |-> 0]
      BY Zenon, <1>4, <2>1
    <2> QED
      BY <2>2
  <1>6. Frames!RegisterInv'
    <2>1. chain' \in Seq(Frames!Frame)
      BY <1>1
    <2> QED
      BY <1>1, <1>3, <1>5, <2>1 DEF Frames!RegisterInv, Frames!Running
  <1>7. Frames!LayoutInv'
    <2>1. Frames!Stacked' = <<>>
      BY <1>1 DEF Frames!Stacked
    <2>2. Frames!Layout(<<>>)
      BY DEF Frames!Layout
    <2> QED
      BY Zenon, <1>1, <2>1, <2>2 DEF Frames!LayoutInv
  <1>8. Frames!OwnInv'
    <2>1. own' \in Seq(Frames!All) /\ Len(own') = Len(chain') /\ Len(chain') = 0
      BY <1>1
    <2> QED
      BY <1>1, <2>1 DEF Frames!OwnInv
  <1>9. Frames!ReferencesExact'
    BY Zenon, <1>1, <1>4 DEF Frames!ReferencesExact
  <1> QED
    BY <1>6, <1>7, <1>8, <1>9 DEF Frames!StackInv

LEMMA FramesStep ==
    ASSUME FramesFit, Frames!StackInv, [Frames!Next]_stackVars
    PROVE  Frames!StackInv'
  <1>1. CASE Frames!Next
    <2>1. CASE \E sz \in Sizes : Frames!frame(sz)
      BY <2>1, FrameKeeps
    <2>2. CASE \E p \in PCs : Frames!jmp(p) \/ Frames!call(p)
      <3>1. PICK p \in PCs : Frames!jmp(p) \/ Frames!call(p)
        BY <2>2
      <3> QED
        BY <3>1, JmpExitKeep, CallsKeep
    <2>3. CASE \E m \in ModuleRefs, p \in PCs : Frames!mcall(m, p)
      BY <2>3, CallsKeep
    <2>4. CASE Frames!ret \/ Frames!McallBuiltin \/ Frames!spawn \/ Frames!Throw \/ Frames!exit
      BY <2>4, RetKeeps, InlineKeeps, ThrowKeeps, JmpExitKeep
    <2>5. CASE \E e \in Names : Frames!raise(e) \/ Frames!RaiseInBuiltin(e)
      BY <2>5, RaiseKeeps, RaiseInBuiltinKeeps
    <2>6. CASE Frames!Destroy
      BY <2>6, DestroyKeeps
    <2> QED
      BY <1>1, <2>1, <2>2, <2>3, <2>4, <2>5, <2>6 DEF Frames!Next
  <1>2. CASE UNCHANGED stackVars
    BY <1>2 DEF stackVars, Frames!StackInv, Frames!RegisterInv, Frames!LayoutInv, Frames!OwnInv,
       Frames!ReferencesExact, Frames!Stacked, Frames!Running, Frames!Saved
  <1> QED
    BY <1>1, <1>2

-----------------------------------------------------------------------------
(* What the invariant says.                                                *)
LEMMA HeldParts ==
    ASSUME FramesFit, Frames!StackInv
    PROVE  LET q == Held(chain, pending) IN
           /\ q \in Seq(Frames!Frame) /\ Frames!Layout(q)
           /\ Len(q) = Len(chain) + (IF pending = None THEN 0 ELSE 1)
           /\ Frames!Live = {q[i] : i \in 1 .. Len(q)}
           /\ state # "gone" => Frames!PagesOf(pages, q)
           /\ q # <<>> => q[Len(q)] = IF pending = None THEN chain[Len(chain)] ELSE pending
           /\ state = "running" => q # <<>>
  <1> DEFINE q == Held(chain, pending)
  <1>1. /\ chain \in Seq(Frames!Frame) /\ pending \in Frames!Frame \cup {None}
        /\ (state = "running" => chain # <<>>)
    BY DEF Frames!StackInv, Frames!RegisterInv, Frames!Running
  <1>2. Frames!Layout(q) /\ (state # "gone" => Frames!PagesOf(pages, q))
    BY Zenon DEF Frames!StackInv, Frames!LayoutInv, Frames!Stacked, Held
  <1>3. CASE pending = None
    <2>1. q = chain
      BY <1>3 DEF Held
    <2>2. Frames!Live = {chain[i] : i \in 1 .. Len(chain)}
      BY <1>3 DEF Frames!Live
    <2>3. Len(chain) = Len(chain) + (IF pending = None THEN 0 ELSE 1)
      BY <1>1, <1>3
    <2>4. chain[Len(chain)] = IF pending = None THEN chain[Len(chain)] ELSE pending
      BY <1>3
    <2> HIDE DEF q
    <2>5. Len(q) = Len(chain) + (IF pending = None THEN 0 ELSE 1)
      BY Zenon, <2>1, <2>3
    <2>6. Frames!Live = {q[i] : i \in 1 .. Len(q)}
      BY Zenon, <2>1, <2>2
    <2>7. q[Len(q)] = IF pending = None THEN chain[Len(chain)] ELSE pending
      BY Zenon, <2>1, <2>4
    <2>8. q \in Seq(Frames!Frame) /\ (state = "running" => q # <<>>)
      BY <1>1, <2>1
    <2> QED
      BY Zenon, <1>2, <2>5, <2>6, <2>7, <2>8 DEF q
  <1>4. CASE pending # None
    <2>1. q = Append(chain, pending)
      BY <1>4 DEF Held
    <2>2. /\ q \in Seq(Frames!Frame) /\ Len(q) = Len(chain) + 1 /\ q # <<>>
          /\ \A i \in 1 .. Len(chain) : q[i] = chain[i]
          /\ q[Len(chain) + 1] = pending
      BY <1>1, <1>4, <2>1
    <2>3. 1 .. Len(q) = 1 .. Len(chain) \cup {Len(chain) + 1}
      BY <1>1, <2>2
    <2>4. Frames!Live = {chain[i] : i \in 1 .. Len(chain)} \cup {pending}
      BY <1>4 DEF Frames!Live
    <2> HIDE DEF q
    <2>5. {q[i] : i \in 1 .. Len(q)} = {chain[i] : i \in 1 .. Len(chain)} \cup {pending}
      BY <2>2, <2>3
    <2>6. Len(q) = Len(chain) + (IF pending = None THEN 0 ELSE 1)
      BY <1>4, <2>2
    <2>7. q[Len(q)] = IF pending = None THEN chain[Len(chain)] ELSE pending
      BY <1>4, <2>2
    <2> QED
      BY Zenon, <1>2, <2>2, <2>4, <2>5, <2>6, <2>7 DEF q
  <1> QED
    BY <1>3, <1>4

LEMMA DisjointHere ==
    ASSUME FramesFit, Frames!StackInv
    PROVE  Frames!FramesDisjoint
  <1> DEFINE q == Held(chain, pending)
             n == Len(q)
  <1>1. /\ q \in Seq(Frames!Frame) /\ n \in Nat /\ Frames!Layout(q)
        /\ n = Len(chain) + (IF pending = None THEN 0 ELSE 1)
        /\ Frames!Live = {q[i] : i \in 1 .. n}
        /\ state # "gone" => Frames!PagesOf(pages, q)
    BY HeldParts
  <1>2. state = "gone" => chain = <<>> /\ pending = None
    BY DEF Frames!StackInv, Frames!RegisterInv
  <1>3. n # 0 => state # "gone" /\ q # <<>>
    BY <1>2 DEF Held
  <1> HIDE DEF q
  <1>4. \A i \in 1 .. n : q[i] \in Frames!Frame
    BY <1>1
  <1>5. ASSUME NEW i \in 1 .. n, NEW j \in 1 .. n, i < j
        PROVE  /\ q[i].page <= q[j].page
               /\ q[i].page = q[j].page => q[i].off + q[i].size <= q[j].off
               /\ q[i] # q[j]
    <2> DEFINE a == q[i].page
               b == q[j].page
               x == q[i].off
               y == q[i].size
               z == q[j].off
    <2>1. a \in Nat /\ b \in Nat /\ x \in Nat /\ y \in Nat \ {0} /\ z \in Nat
      BY <1>4, FrameParts
    <2>2. a < b \/ (a = b /\ x + y <= z)
      BY Zenon, <1>1, <1>5, FramesInOrder
    <2>3. q[i] = q[j] => a = b /\ x = z
      OBVIOUS
    <2> HIDE DEF a, b, x, y, z
    <2>4. a <= b /\ (a = b => x + y <= z) /\ q[i] # q[j]
      BY <2>1, <2>2, <2>3
    <2> QED
      BY Zenon, <2>4 DEF a, b, x, y, z
  <1>6. ASSUME NEW f \in Frames!Live PROVE f.page <= Len(pages) /\ f.off + f.size <= PageSize
    <2>1. PICK i \in 1 .. n : f = q[i]
      BY <1>1, <1>6
    <2>2. n # 0 /\ n \in 1 .. n
      BY <1>1, <2>1
    <2>3. Len(pages) = q[n].page
      BY <1>1, <1>3, <2>2 DEF Frames!PagesOf
    <2>4. i = n \/ i < n
      BY <1>1, <2>1
    <2>5. q[i].page <= q[n].page
      <3>1. q[i].page \in Nat
        BY <1>4, FrameParts
      <3> QED
        BY <3>1, <2>2, <2>4, <1>5
    <2>6. q[i].off + q[i].size <= PageSize
      BY Zenon, <1>1, <2>1 DEF Frames!Layout
    <2> QED
      BY Zenon, <2>1, <2>3, <2>5, <2>6
  <1>7. ASSUME NEW f \in Frames!Live, NEW g \in Frames!Live, f # g, f.page = g.page
        PROVE  f.off + f.size <= g.off \/ g.off + g.size <= f.off
    <2>1. PICK i \in 1 .. n, j \in 1 .. n : f = q[i] /\ g = q[j]
      BY <1>1, <1>7
    <2>2. i # j
      BY <1>7, <2>1
    <2>3. i < j \/ j < i
      BY <2>2
    <2>4. CASE i < j
      BY Zenon, <1>5, <1>7, <2>1, <2>4
    <2>5. CASE j < i
      BY Zenon, <1>5, <1>7, <2>1, <2>5
    <2> QED
      BY <2>3, <2>4, <2>5
  <1>8. Frames!Cardinality(Frames!Live) = n
    <2> DEFINE h == [i \in 1 .. n |-> q[i]]
    <2>1. h \in [1 .. n -> Frames!Live]
      BY <1>1
    <2>2. \A i, j \in 1 .. n : h[i] = h[j] => i = j
      <3> SUFFICES ASSUME NEW i \in 1 .. n, NEW j \in 1 .. n, q[i] = q[j] PROVE i = j
        OBVIOUS
      <3>1. ~(i < j) /\ ~(j < i)
        BY <1>5
      <3> QED
        BY <3>1
    <2>3. \A f \in Frames!Live : \E i \in 1 .. n : h[i] = f
      BY <1>1
    <2> HIDE DEF h
    <2>4. h \in Bijection(1 .. n, Frames!Live)
      BY <2>1, <2>2, <2>3 DEF Bijection, Injection, Surjection, IsInjective
    <2>5. IsFiniteSet(1 .. n) /\ Cardinality(1 .. n) = n
      <3>1. 1 \in Int /\ n \in Int
        BY <1>1
      <3>2. IsFiniteSet(1 .. n) /\ Cardinality(1 .. n) = IF 1 > n THEN 0 ELSE n - 1 + 1
        BY ONLY <3>1, FS_Interval
      <3>3. (IF 1 > n THEN 0 ELSE n - 1 + 1) = n
        BY <1>1
      <3> QED
        BY <3>2, <3>3
    <2>6. Cardinality(Frames!Live) = n
      <3>1. ExistsBijection(1 .. n, Frames!Live)
        BY Zenon, <2>4 DEF ExistsBijection
      <3>2. PICK S, T : S = 1 .. n /\ T = Frames!Live
        OBVIOUS
      <3>3. Cardinality(T) = Cardinality(S)
        BY ONLY <3>1, <3>2, <2>5, FS_Bijection
      <3> QED
        BY Zenon, <3>2, <3>3, <2>5
    <2> QED
      BY <2>6, SameCardinality
  <1> QED
    BY Zenon, <1>1, <1>6, <1>7, <1>8 DEF Frames!FramesDisjoint

LEMMA TopCurrent ==
    ASSUME FramesFit, Frames!StackInv
    PROVE  Frames!TopFrameCurrent
  <1> SUFFICES ASSUME state = "running"
               PROVE  Frames!Last(pages) = Frames!Where(IF pending = None THEN Frames!Last(chain) ELSE pending)
    BY Zenon DEF Frames!TopFrameCurrent
  <1> DEFINE q == Held(chain, pending)
             n == Len(q)
  <1>1. /\ q \in Seq(Frames!Frame) /\ q # <<>> /\ Frames!PagesOf(pages, q)
        /\ q[n] = IF pending = None THEN chain[Len(chain)] ELSE pending
    BY HeldParts
  <1> HIDE DEF q
  <1>2. n \in Nat /\ n # 0 /\ n \in 1 .. n
    BY <1>1, EmptySeq
  <1>3. Len(pages) = q[n].page /\ pages[q[n].page] = Frames!Where(q[n])
    BY <1>1, <1>2 DEF Frames!PagesOf
  <1> QED
    BY Zenon, <1>1, <1>3 DEF Frames!Last

(* A frame handles an exception if one of the handlers around its call     *)
(* site has a case for it.                                                 *)
LEMMA HasCase ==
    ASSUME FramesFit, NEW m \in Frames!All, NEW p \in Int, NEW e
    PROVE  Frames!Cases(m, p, e) # {} <=>
           \E h \in 1 .. Len(Handlers[m]) :
               /\ p \in Handlers[m][h].lo .. Handlers[m][h].hi - 1
               /\ \E c \in 1 .. Len(Handlers[m][h].cases) : Frames!Matches(Handlers[m][h].cases[c], e)
  <1>1. /\ DOMAIN Handlers[m] = 1 .. Len(Handlers[m])
        /\ \A k \in DOMAIN Handlers[m] : Frames!HandlerSound(Handlers[m][k])
    BY Zenon DEF FramesFit, Frames!StackAssumption
  <1>2. \A h \in 1 .. Len(Handlers[m]) :
           /\ Handlers[m][h].lo \in Int /\ Handlers[m][h].hi \in Int
           /\ DOMAIN Handlers[m][h].cases = 1 .. Len(Handlers[m][h].cases)
    BY Zenon, <1>1 DEF Frames!HandlerSound
  <1>3. \A h \in 1 .. Len(Handlers[m]) :
           p \in Handlers[m][h].lo .. Handlers[m][h].hi - 1 <=> Handlers[m][h].lo <= p /\ p < Handlers[m][h].hi
    BY <1>2
  <1>4. Frames!Cases(m, p, e) # {} <=>
        \E h \in DOMAIN Handlers[m] : \E c \in DOMAIN Handlers[m][h].cases :
            /\ Handlers[m][h].lo <= p /\ p < Handlers[m][h].hi
            /\ Frames!Matches(Handlers[m][h].cases[c], e)
    <2> DEFINE Fits(h, c) == /\ Handlers[m][h].lo <= p /\ p < Handlers[m][h].hi
                             /\ Frames!Matches(Handlers[m][h].cases[c], e)
    <2>1. Frames!Cases(m, p, e)
            = {x \in UNION {{k} \X DOMAIN Handlers[m][k].cases : k \in DOMAIN Handlers[m]} : Fits(x[1], x[2])}
      BY Zenon DEF Frames!Cases
    <2> HIDE DEF Fits
    <2>2. ASSUME NEW x \in Frames!Cases(m, p, e)
          PROVE  \E h \in DOMAIN Handlers[m] : \E c \in DOMAIN Handlers[m][h].cases : Fits(h, c)
      <3>1. PICK k \in DOMAIN Handlers[m] : x \in {k} \X DOMAIN Handlers[m][k].cases /\ Fits(x[1], x[2])
        BY <2>1, <2>2
      <3>2. x[1] = k /\ x[2] \in DOMAIN Handlers[m][k].cases
        BY <3>1
      <3> QED
        BY <3>1, <3>2
    <2>3. ASSUME NEW h \in DOMAIN Handlers[m], NEW c \in DOMAIN Handlers[m][h].cases, Fits(h, c)
          PROVE  <<h, c>> \in Frames!Cases(m, p, e)
      <3>1. <<h, c>> \in {h} \X DOMAIN Handlers[m][h].cases
        BY <2>3
      <3>2. <<h, c>>[1] = h /\ <<h, c>>[2] = c
        OBVIOUS
      <3> QED
        BY <2>1, <2>3, <3>1, <3>2
    <2>4. Frames!Cases(m, p, e) # {} <=>
          \E h \in DOMAIN Handlers[m] : \E c \in DOMAIN Handlers[m][h].cases : Fits(h, c)
      BY Zenon, <2>2, <2>3
    <2> QED
      BY Zenon, <2>4 DEF Fits
  <1> QED
    BY Zenon, <1>1, <1>2, <1>3, <1>4

LEMMA HandlersHere ==
    ASSUME FramesFit, Frames!StackInv
    PROVE  Frames!HandlerIsInnermost /\ Frames!HandlerHasPc
  <1>1. Frames!RegisterInv /\ Frames!OwnInv
    BY DEF Frames!StackInv
  <1>2. chain \in Seq(Frames!Frame) /\ framePc \in Int /\ own \in Seq(Frames!All) /\ Len(own) = Len(chain)
    BY <1>1 DEF Frames!RegisterInv, Frames!OwnInv
  <1>3. \A k \in 1 .. Len(chain) : Frames!ModuleOf(k) = own[k] /\ own[k] \in Frames!All
    BY <1>1, <1>2, RegistersFollow
  <1>4. ASSUME NEW k \in 1 .. Len(chain) PROVE Frames!PcOf(k) \in Int
    <2>1. CASE k = Len(chain)
      BY <2>1, <1>2 DEF Frames!PcOf
    <2>2. CASE k # Len(chain)
      <3>1. k + 1 \in 1 .. Len(chain)
        BY <2>2, <1>2
      <3>2. chain[k + 1] \in Frames!Frame
        BY <3>1, <1>2
      <3>3. chain[k + 1].prevPc \in Int
        BY <3>2, FrameParts
      <3> QED
        BY <2>2, <3>3 DEF Frames!PcOf
    <2> QED
      BY <2>1, <2>2
  <1> DEFINE Has(k, e) ==
                 \E h \in 1 .. Len(Handlers[own[k]]) :
                     /\ Frames!PcOf(k) \in Handlers[own[k]][h].lo .. Handlers[own[k]][h].hi - 1
                     /\ \E c \in 1 .. Len(Handlers[own[k]][h].cases) :
                            Frames!Matches(Handlers[own[k]][h].cases[c], e)
  <1>5. ASSUME NEW e, NEW k \in 1 .. Len(chain)
        PROVE  Has(k, e) <=> Frames!Cases(Frames!ModuleOf(k), Frames!PcOf(k), e) # {}
    BY <1>3, <1>4, HasCase
  <1>6. ASSUME NEW e \in Names, NEW i, i = Frames!find_exception_handler(e)
        PROVE  /\ i # 0 => i \in 1 .. Len(chain) /\ Has(i, e)
               /\ \A k \in i + 1 .. Len(chain) : ~Has(k, e)
    <2> HIDE DEF Has
    <2>1. /\ i = 0 \/ (i \in 1 .. Len(chain) /\ Frames!Cases(Frames!ModuleOf(i), Frames!PcOf(i), e) # {})
          /\ \A k \in 1 .. Len(chain) :
                 i = 0 \/ k > i => Frames!Cases(Frames!ModuleOf(k), Frames!PcOf(k), e) = {}
      BY <1>2, <1>6, HandlerFrame
    <2>2. \A k \in i + 1 .. Len(chain) : k \in 1 .. Len(chain) /\ (i = 0 \/ k > i)
      BY <2>1, <1>2
    <2> QED
      BY Zenon, <2>1, <2>2, <1>5
  <1>7. Frames!HandlerIsInnermost
    BY Zenon, <1>6 DEF Frames!HandlerIsInnermost, Frames!PcOf
  <1>8. ASSUME NEW e \in Names, NEW i, i = Frames!find_exception_handler(e), i # 0
        PROVE  Frames!CaseOf(Frames!ModuleOf(i), Frames!PcOf(i), e).pc # NoPc
    <2>1. i \in 1 .. Len(chain) /\ Frames!Cases(Frames!ModuleOf(i), Frames!PcOf(i), e) # {}
      BY <1>2, <1>8, HandlerFrame
    <2>2. PICK c : c = Frames!CaseOf(Frames!ModuleOf(i), Frames!PcOf(i), e)
      OBVIOUS
    <2>3. Frames!CaseSound(c) /\ Frames!Matches(c, e)
      BY <1>3, <2>1, <2>2, CaseIs
    <2>4. AnyName \notin Names /\ EmptyName \notin Names
      BY Zenon DEF FramesFit, Frames!StackAssumption
    <2>5. c.pc # NoPc
      BY <2>3, <2>4 DEF Frames!CaseSound, Frames!Matches
    <2> QED
      BY <2>2, <2>5
  <1>9. Frames!HandlerHasPc
    BY Zenon, <1>8 DEF Frames!HandlerHasPc
  <1> QED
    BY <1>7, <1>9

LEMMA StackInvSound ==
    ASSUME FramesFit, Frames!StackInv
    PROVE  FramesSound
  <1>1. Frames!RegistersFollowFrames /\ Frames!ReferencesExact
    BY RegistersFollow DEF Frames!StackInv, Frames!RegistersFollowFrames
  <1> QED
    BY <1>1, DisjointHere, TopCurrent, HandlersHere DEF FramesSound

(* For pages and frames of any size, any code, modules, handlers and bound *)
(* on the depth: the frames of a thread never overlap, the top frame is    *)
(* the current one, the registers are those of its function, the           *)
(* references of modules are counted exactly, and an exception is handled  *)
(* in the innermost frame that has a handler for it, at a position of the  *)
(* code (stack.cpp, call, ret, mcall, raise, find_exception_handler).      *)
THEOREM FramesAlwaysSound ==
    ASSUME FramesFit
    PROVE  ProgramSpec => []FramesSound
  <1>1. ProgramInit => Frames!StackInv
    BY FramesStart DEF ProgramInit
  <1>2. Frames!StackInv /\ [ProgramNext]_<<part, vars, stackVars, valueVars>> => Frames!StackInv'
    <2> SUFFICES ASSUME Frames!StackInv, [ProgramNext]_<<part, vars, stackVars, valueVars>>
                 PROVE  Frames!StackInv'
      OBVIOUS
    <2>1. [Frames!Next]_stackVars
      BY DEF ProgramNext, LoaderMoves, StackMoves, StringsMove, Utf8Moves, ArithMoves, TokensMove, stackVars
    <2> QED
      BY <2>1, FramesStep
  <1>3. Frames!StackInv => FramesSound
    BY StackInvSound
  <1> QED
    BY <1>1, <1>2, <1>3, PTL DEF ProgramSpec

=============================================================================
