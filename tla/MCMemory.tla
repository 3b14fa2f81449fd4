------------------------------ MODULE MCMemory ------------------------------
(***************************************************************************)
(* HeapRace and Heap for TLC.  They share no state that a property         *)
(* relates, so a behaviour moves one of them, `part', and leaves the       *)
(* other where it begins.                                                  *)
(***************************************************************************)
EXTENDS HeapRace, Sequences

CONSTANTS s1, s2

VARIABLES part,
          h, colour, tracked, epoch, age
heapVars == <<h, colour, tracked, epoch, age>>

(* Heap: records, lists and the collector; arrays and slices as the        *)
(* compiler uses them.                                                     *)
Records == INSTANCE Heap WITH
    Objs <- {1, 2, 3}, Slots <- {s1, s2}, ArrayLen <- 2, Direct <- FALSE, Overlap <- FALSE,
    Ops <- {"new", "movp", "movmp", "collect"}
Lists == INSTANCE Heap WITH
    Objs <- {1, 2, 3}, Slots <- {s1, s2}, ArrayLen <- 2, Direct <- FALSE, Overlap <- FALSE,
    Ops <- {"new", "list", "collect"}
Arrays == INSTANCE Heap WITH
    Objs <- {1, 2, 3}, Slots <- {s1, s2}, ArrayLen <- 2, Direct <- FALSE, Overlap <- FALSE,
    Ops <- {"array", "bytes", "movp", "slicea", "slicela"}

(* HeapRace: two places for each of two threads, and none that is shared.  *)
MCOwn == [t \in Threads |-> IF t = "t1" THEN {"a1", "b1"} ELSE {"a2", "b2"}]
AtRest == [p \in Places |-> IF p = "a1" THEN "o1" ELSE IF p = "a2" THEN "o2" ELSE Nil]

T == INSTANCE TLC
SlotSymmetry == T!Permutations({s1, s2})

ASSUME MemoryAssumption ==
    Lists!HeapAssumption /\ RaceAssumption

MemoryInit ==
    /\ part \in {"records", "lists", "arrays", "race"}
    /\ Lists!Init /\ Init
    /\ part # "race" => place = AtRest

RecordsMove == part = "records" /\ Records!Next /\ UNCHANGED <<part, vars>>
ListsMove == part = "lists" /\ Lists!Next /\ UNCHANGED <<part, vars>>
ArraysMove == part = "arrays" /\ Arrays!Next /\ UNCHANGED <<part, vars>>
RaceMoves == part = "race" /\ Next /\ UNCHANGED <<part, heapVars>>
MemoryNext == RecordsMove \/ ListsMove \/ ArraysMove \/ RaceMoves
allVars == <<part, heapVars, vars>>
MemorySpec == MemoryInit /\ [][MemoryNext]_allVars

-----------------------------------------------------------------------------
(* Through moves, lists, arrays, slices and collections the count of an    *)
(* allocation is the number of references to it, and nothing is used after *)
(* it was freed (vm_memory.cpp, array.cpp, list.cpp).                      *)
CountsExact == Lists!CountsExact /\ Lists!NoUseAfterFree

(* A collection keeps what the frame holds, and what only the collector    *)
(* holds is freed by the third one (garbage_collector.cpp).                *)
CollectorSound == [][part # "arrays" => /\ Lists!FreedInThree'
                                        /\ epoch' # epoch => Lists!KeepsHeld]_allVars
=============================================================================
