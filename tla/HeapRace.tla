------------------------------ MODULE HeapRace ------------------------------
(***************************************************************************)
(* movp of VM threads that run on several workers at once (the steps of    *)
(* _mov_<vm_alloc_t> in src/src/vm/execution_table.cpp over the atomic     *)
(* counts of vm_memory.cpp).  A thread moves pointers between its own      *)
(* places and, if Shared is not empty, the module data that threads of a   *)
(* module share.                                                           *)
(***************************************************************************)
EXTENDS Integers, FiniteSets

CONSTANTS
    Threads, Objs,
    Own,        \* Own[t]: the places of thread t
    Shared,     \* places of the module data
    Nil

RaceAssumption ==
    /\ Nil \notin Objs
    /\ \A t \in Threads : Own[t] \cap Shared = {}
    /\ \A t, u \in Threads : t # u => Own[t] \cap Own[u] = {}

VARIABLES
    place,      \* the pointer in each place
    count,      \* _ref_count
    step, src, dst, prev, alloc,    \* of each thread
    freed, bad  \* deleted allocations; whether an assertion failed

vars == <<place, count, step, src, dst, prev, alloc, freed, bad>>

Places == Shared \cup UNION {Own[t] : t \in Threads}

(* Every place starts with a pointer to some allocation or none. *)
Init ==
    /\ place \in [Places -> Objs \cup {Nil}]
    /\ \A o \in Objs : \E p \in Places : place[p] = o
    /\ count = [o \in Objs |-> Cardinality({p \in Places : place[p] = o})]
    /\ step = [t \in Threads |-> "idle"]
    /\ src = [t \in Threads |-> Nil] /\ dst = [t \in Threads |-> Nil]
    /\ prev = [t \in Threads |-> Nil] /\ alloc = [t \in Threads |-> Nil]
    /\ freed = {} /\ bad = FALSE

(* alloc_prev and alloc are read. *)
Load(t, s, d) ==
    /\ step[t] = "idle" /\ ~bad
    /\ step' = [step EXCEPT ![t] = "add"]
    /\ src' = [src EXCEPT ![t] = s] /\ dst' = [dst EXCEPT ![t] = d]
    /\ prev' = [prev EXCEPT ![t] = place[d]]
    /\ alloc' = [alloc EXCEPT ![t] = IF s = Nil THEN Nil ELSE place[s]]
    /\ UNCHANGED <<place, count, freed, bad>>

add_ref(t) ==
    /\ step[t] = "add" /\ ~bad
    /\ step' = [step EXCEPT ![t] = "store"]
    /\ IF alloc[t] = Nil THEN UNCHANGED <<count, bad>>
       ELSE IF count[alloc[t]] = 0 THEN bad' = TRUE /\ UNCHANGED count
       ELSE count' = [count EXCEPT ![alloc[t]] = @ + 1] /\ UNCHANGED bad
    /\ UNCHANGED <<place, src, dst, prev, alloc, freed>>

Store(t) ==
    /\ step[t] = "store" /\ ~bad
    /\ step' = [step EXCEPT ![t] = "release"]
    /\ place' = [place EXCEPT ![dst[t]] = alloc[t]]
    /\ UNCHANGED <<count, src, dst, prev, alloc, freed, bad>>

Done(t) ==
    /\ step' = [step EXCEPT ![t] = "idle"]
    /\ src' = [src EXCEPT ![t] = Nil] /\ dst' = [dst EXCEPT ![t] = Nil]
    /\ prev' = [prev EXCEPT ![t] = Nil] /\ alloc' = [alloc EXCEPT ![t] = Nil]
    /\ UNCHANGED place

(* Fault: the test of the last reference is one too high. *)
ReleaseKeeps(t) ==
    /\ step[t] = "release" /\ ~bad
    /\ Done(t)
    /\ IF prev[t] = Nil THEN UNCHANGED <<count, freed, bad>>
       ELSE /\ count' = [count EXCEPT ![prev[t]] = @ - 1]
            /\ freed' = IF count[prev[t]] = 2 THEN freed \cup {prev[t]} ELSE freed
            /\ UNCHANGED bad

(* The decrement that finds one left deletes the allocation. *)
release(t) ==
    /\ step[t] = "release" /\ ~bad
    /\ Done(t)
    /\ IF prev[t] = Nil THEN UNCHANGED <<count, freed, bad>>
       ELSE IF count[prev[t]] = 0 THEN bad' = TRUE /\ UNCHANGED <<count, freed>>
       ELSE /\ count' = [count EXCEPT ![prev[t]] = @ - 1]
            /\ freed' = IF count[prev[t]] = 1 THEN freed \cup {prev[t]} ELSE freed
            /\ UNCHANGED bad

Reaches(t) == Own[t] \cup Shared

Next ==
    \E t \in Threads :
        \/ \E s \in Reaches(t) \cup {Nil}, d \in Reaches(t) : Load(t, s, d)
        \/ add_ref(t) \/ Store(t) \/ release(t)

Spec == Init /\ [][Next]_vars

-----------------------------------------------------------------------------
(* The assertions of add_ref and release, "assert(_ref_count > 0)". *)
AssertionsHold == ~bad

(* No place holds a pointer to an allocation that was deleted, and every   *)
(* allocation no place and no running move holds has been deleted.         *)
FreedExactly ==
    \A o \in Objs :
        o \in freed <=> /\ \A p \in Places : place[p] # o
                        /\ \A t \in Threads : prev[t] # o \/ step[t] \notin {"release"}

(* The count is the number of places, plus one for a move that has counted *)
(* and not stored, plus one for a move that stored and not released.       *)
CountsMatch ==
    \A o \in Objs :
        count[o] = Cardinality({p \in Places : place[p] = o})
                   + Cardinality({t \in Threads : step[t] = "store" /\ alloc[t] = o})
                   + Cardinality({t \in Threads : step[t] = "release" /\ prev[t] = o})

(* Threads that move pointers to the same allocations at once: counts are  *)
(* right at every step, and an allocation is deleted exactly when the last *)
(* place gives it up (the atomic counts of vm_memory.cpp).                 *)
RaceSound == CountsMatch /\ FreedExactly

-----------------------------------------------------------------------------
(* The inductive invariant behind RaceSound where no place is shared.      *)

TypeOK ==
    /\ place \in [Places -> Objs \cup {Nil}]
    /\ count \in [Objs -> Nat]
    /\ step \in [Threads -> {"idle", "add", "store", "release"}]
    /\ src \in [Threads -> Places \cup {Nil}] /\ dst \in [Threads -> Places \cup {Nil}]
    /\ prev \in [Threads -> Objs \cup {Nil}] /\ alloc \in [Threads -> Objs \cup {Nil}]
    /\ freed \subseteq Objs

(* Until it stores, a move has read what is still in its places: nobody    *)
(* else writes them.                                                       *)
MoveInv ==
    \A t \in Threads : step[t] \in {"add", "store"} =>
        /\ dst[t] \in Own[t] /\ place[dst[t]] = prev[t]
        /\ alloc[t] # Nil => \E p \in Own[t] : place[p] = alloc[t]

(* Deleted is what has no reference left. *)
FreedInv == \A o \in Objs : o \in freed <=> count[o] = 0

RaceInv == TypeOK /\ MoveInv /\ FreedInv /\ CountsMatch /\ AssertionsHold
=============================================================================
