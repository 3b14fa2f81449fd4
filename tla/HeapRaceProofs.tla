--------------------------- MODULE HeapRaceProofs ---------------------------
(***************************************************************************)
(* Proofs about module HeapRace: where no place is shared, the atomic      *)
(* counts are right at every step of any number of threads that move       *)
(* pointers to the same allocations at once.                               *)
(***************************************************************************)
EXTENDS HeapRace, FiniteSetTheorems, TLAPS

(* The three kinds of reference that the count of o stands for: places,    *)
(* moves between add_ref and the store, moves between the store and        *)
(* release.                                                                *)
Holders(o) == {p \in Places : place[p] = o}
Storing(o) == {t \in Threads : step[t] = "store" /\ alloc[t] = o}
Releasing(o) == {t \in Threads : step[t] = "release" /\ prev[t] = o}

(* One when x is counted in S. *)
One(x, S) == IF x \in S THEN 1 ELSE 0

(* Finitely many places and threads, and no place of two threads. *)
Private == /\ RaceAssumption /\ Shared = {}
           /\ IsFiniteSet(Places) /\ IsFiniteSet(Threads)

(* Sets that differ in one element at most differ by it in size. *)
LEMMA SizeOfOneChange ==
    ASSUME NEW S, NEW T, NEW x, IsFiniteSet(S),
           \A y : y # x => (y \in S <=> y \in T)
    PROVE  /\ IsFiniteSet(T)
           /\ Cardinality(S) \in Nat /\ Cardinality(T) \in Nat
           /\ Cardinality(T) = Cardinality(S) + One(x, T) - One(x, S)
  <1>1. S \ {x} = T \ {x}
    OBVIOUS
  <1>2. IsFiniteSet(S \ {x})
    BY FS_RemoveElement
  <1>3. T = T \ {x} \/ T = (T \ {x}) \cup {x}
    OBVIOUS
  <1>4. IsFiniteSet(T)
    BY <1>1, <1>2, <1>3, FS_AddElement
  <1>5. Cardinality(S) \in Nat /\ Cardinality(T) \in Nat
    BY <1>4, FS_CardinalityType
  <1>6. Cardinality(S \ {x}) = IF x \in S THEN Cardinality(S) - 1 ELSE Cardinality(S)
    BY FS_RemoveElement
  <1>7. Cardinality(T \ {x}) = IF x \in T THEN Cardinality(T) - 1 ELSE Cardinality(T)
    BY <1>4, FS_RemoveElement
  <1> QED
    BY <1>1, <1>4, <1>5, <1>6, <1>7 DEF One

(* The sets of references are finite, and counted by natural numbers. *)
LEMMA ReferencesFinite ==
    ASSUME Private, NEW o
    PROVE  /\ IsFiniteSet(Holders(o)) /\ IsFiniteSet(Storing(o)) /\ IsFiniteSet(Releasing(o))
           /\ Cardinality(Holders(o)) \in Nat
           /\ Cardinality(Storing(o)) \in Nat
           /\ Cardinality(Releasing(o)) \in Nat
  <1>1. Holders(o) \subseteq Places /\ Storing(o) \subseteq Threads /\ Releasing(o) \subseteq Threads
    BY DEF Holders, Storing, Releasing
  <1>2. IsFiniteSet(Holders(o)) /\ IsFiniteSet(Storing(o)) /\ IsFiniteSet(Releasing(o))
    BY <1>1, FS_Subset DEF Private
  <1> QED
    BY <1>2, FS_CardinalityType

(* CountsMatch in the terms above. *)
LEMMA CountsAre ==
    CountsMatch <=> \A o \in Objs : count[o] = Cardinality(Holders(o))
                                    + Cardinality(Storing(o)) + Cardinality(Releasing(o))
  BY DEF CountsMatch, Holders, Storing, Releasing

(* A member makes a finite set count one at least. *)
LEMMA MemberCounts ==
    ASSUME NEW S, IsFiniteSet(S), NEW x \in S
    PROVE  Cardinality(S) \in Nat \ {0}
  BY FS_CardinalityType, FS_EmptySet

(* A reference keeps the count above zero: what add_ref and release assert. *)
LEMMA ReferencedIsCounted ==
    ASSUME Private, CountsMatch, NEW o \in Objs,
           \/ \E p \in Places : place[p] = o
           \/ \E t \in Threads : step[t] = "store" /\ alloc[t] = o
           \/ \E t \in Threads : step[t] = "release" /\ prev[t] = o
    PROVE  count[o] # 0
  <1>1. count[o] = Cardinality(Holders(o)) + Cardinality(Storing(o)) + Cardinality(Releasing(o))
    BY CountsAre
  <1>2. CASE \E p \in Places : place[p] = o
    <2>1. PICK p \in Places : place[p] = o
      BY <1>2
    <2>2. p \in Holders(o)
      BY <2>1 DEF Holders
    <2> QED
      BY <1>1, <2>2, MemberCounts, ReferencesFinite
  <1>3. CASE \E t \in Threads : step[t] = "store" /\ alloc[t] = o
    <2>1. PICK t \in Threads : step[t] = "store" /\ alloc[t] = o
      BY <1>3
    <2>2. t \in Storing(o)
      BY <2>1 DEF Storing
    <2> QED
      BY <1>1, <2>2, MemberCounts, ReferencesFinite
  <1>4. CASE \E t \in Threads : step[t] = "release" /\ prev[t] = o
    <2>1. PICK t \in Threads : step[t] = "release" /\ prev[t] = o
      BY <1>4
    <2>2. t \in Releasing(o)
      BY <2>1 DEF Releasing
    <2> QED
      BY <1>1, <2>2, MemberCounts, ReferencesFinite
  <1> QED
    BY <1>2, <1>3, <1>4

-----------------------------------------------------------------------------
(* The inductive invariant. *)

(* The places start with what they hold counted. *)
LEMMA RaceStarts ==
    ASSUME Private, Init
    PROVE  RaceInv
  <1>1. \A o \in Objs : Storing(o) = {} /\ Releasing(o) = {}
    BY DEF Init, Storing, Releasing
  <1>2. \A o \in Objs : count[o] = Cardinality(Holders(o))
    BY DEF Init, Holders
  <1>3. \A o \in Objs : Cardinality(Holders(o)) \in Nat
    BY ReferencesFinite
  <1>4. CountsMatch
    BY <1>1, <1>2, <1>3, CountsAre, FS_EmptySet
  <1>5. \A o \in Objs : count[o] # 0
    <2> TAKE o \in Objs
    <2>1. \E p \in Places : place[p] = o
      BY DEF Init
    <2> QED
      BY <1>4, <2>1, ReferencedIsCounted
  <1>6. count \in [Objs -> Nat]
    BY <1>2, <1>3 DEF Init
  <1>7. TypeOK
    BY <1>6 DEF Init, TypeOK
  <1>8. MoveInv /\ AssertionsHold
    BY DEF Init, MoveInv, AssertionsHold
  <1>9. FreedInv
    BY <1>5 DEF FreedInv, Init
  <1> QED
    BY <1>4, <1>7, <1>8, <1>9 DEF RaceInv

(* Reading the operands changes no reference. *)
LEMMA LoadKeeps ==
    ASSUME Private, RaceInv, NEW t \in Threads,
           NEW s \in Reaches(t) \cup {Nil}, NEW d \in Reaches(t), Load(t, s, d)
    PROVE  RaceInv'
  <1> USE DEF RaceInv
  <1>1. d \in Own[t] /\ d \in Places /\ s \in Own[t] \cup {Nil} /\ (s # Nil => s \in Places)
    BY DEF Reaches, Private, Places
  <1>2. TypeOK'
    BY <1>1 DEF Load, TypeOK
  <1>3. MoveInv'
    BY <1>1 DEF Load, MoveInv, TypeOK
  <1>4. \A o \in Objs : Holders(o)' = Holders(o) /\ Storing(o)' = Storing(o)
                        /\ Releasing(o)' = Releasing(o)
    BY DEF Load, TypeOK, Holders, Storing, Releasing
  <1>5. \A o \in Objs : count'[o] = Cardinality(Holders(o)')
                            + Cardinality(Storing(o)') + Cardinality(Releasing(o)')
    BY <1>4, CountsAre DEF Load
  <1>6. CountsMatch'
    BY <1>5, CountsAre DEF CountsMatch, Holders, Storing, Releasing
  <1>7. FreedInv' /\ AssertionsHold'
    BY DEF Load, FreedInv, AssertionsHold
  <1> QED
    BY <1>2, <1>3, <1>6, <1>7

(* add_ref finds a count that is not zero, and the reference it adds is    *)
(* the one that the store will give to a place.                            *)
LEMMA AddRefKeeps ==
    ASSUME Private, RaceInv, NEW t \in Threads, add_ref(t)
    PROVE  RaceInv'
  <1> USE DEF RaceInv
  <1>1. step[t] = "add" /\ (alloc[t] # Nil => \E p \in Own[t] : place[p] = alloc[t])
    BY DEF add_ref, MoveInv
  <1>2. alloc[t] # Nil => alloc[t] \in Objs /\ count[alloc[t]] # 0
    <2> SUFFICES ASSUME alloc[t] # Nil
                 PROVE  alloc[t] \in Objs /\ count[alloc[t]] # 0
      OBVIOUS
    <2>1. alloc[t] \in Objs
      BY DEF TypeOK
    <2>2. \E p \in Places : place[p] = alloc[t]
      BY <1>1 DEF Places
    <2> QED
      BY <2>1, <2>2, ReferencedIsCounted
  <1>3. /\ step' = [step EXCEPT ![t] = "store"]
        /\ count' = IF alloc[t] = Nil THEN count ELSE [count EXCEPT ![alloc[t]] = @ + 1]
        /\ UNCHANGED <<place, src, dst, prev, alloc, freed, bad>>
    BY <1>2 DEF add_ref
  <1>4. TypeOK'
    BY <1>2, <1>3 DEF TypeOK
  <1>5. MoveInv'
    BY <1>1, <1>3 DEF MoveInv, TypeOK
  <1>6. CountsMatch'
    <2> SUFFICES ASSUME NEW o \in Objs
                 PROVE  count'[o] = Cardinality(Holders(o)') + Cardinality(Storing(o)')
                                    + Cardinality(Releasing(o)')
      BY DEF CountsMatch, Holders, Storing, Releasing
    <2>1. Holders(o)' = Holders(o) /\ Releasing(o)' = Releasing(o)
      BY <1>1, <1>3 DEF TypeOK, Holders, Releasing
    <2>2. \A u : u # t => (u \in Storing(o) <=> u \in Storing(o)')
      BY <1>3 DEF TypeOK, Storing
    <2>3. t \notin Storing(o) /\ (t \in Storing(o)' <=> alloc[t] = o)
      BY <1>1, <1>3 DEF TypeOK, Storing
    <2>4. Cardinality(Storing(o)') = Cardinality(Storing(o)) + (IF alloc[t] = o THEN 1 ELSE 0)
          /\ Cardinality(Storing(o)) \in Nat
      BY <2>2, <2>3, ReferencesFinite, SizeOfOneChange DEF One
    <2>5. count'[o] = count[o] + (IF alloc[t] = o THEN 1 ELSE 0)
      BY <1>2, <1>3 DEF TypeOK, Private, RaceAssumption
    <2>6. count[o] = Cardinality(Holders(o)) + Cardinality(Storing(o)) + Cardinality(Releasing(o))
      BY CountsAre
    <2> QED
      BY <2>1, <2>4, <2>5, <2>6, ReferencesFinite
  <1>7. FreedInv'
    BY <1>2, <1>3 DEF FreedInv, TypeOK
  <1>8. AssertionsHold'
    BY <1>3 DEF AssertionsHold
  <1> QED
    BY <1>4, <1>5, <1>6, <1>7, <1>8

(* The store hands the counted reference to the place, and what the place  *)
(* held is a reference until it is released.                               *)
LEMMA StoreKeeps ==
    ASSUME Private, RaceInv, NEW t \in Threads, Store(t)
    PROVE  RaceInv'
  <1> USE DEF RaceInv
  <1>1. /\ step[t] = "store" /\ dst[t] \in Own[t] /\ dst[t] \in Places
        /\ place[dst[t]] = prev[t]
    BY DEF Store, MoveInv, Places
  <1>2. /\ step' = [step EXCEPT ![t] = "release"]
        /\ place' = [place EXCEPT ![dst[t]] = alloc[t]]
        /\ UNCHANGED <<count, src, dst, prev, alloc, freed, bad>>
    BY DEF Store
  <1>3. TypeOK'
    BY <1>1, <1>2 DEF TypeOK
  <1>4. MoveInv'
    <2> SUFFICES ASSUME NEW u \in Threads, step'[u] \in {"add", "store"}
                 PROVE  /\ dst'[u] \in Own[u] /\ place'[dst'[u]] = prev'[u]
                        /\ alloc'[u] # Nil => \E p \in Own[u] : place'[p] = alloc'[u]
      BY DEF MoveInv
    <2>1. u # t /\ step[u] \in {"add", "store"}
      BY <1>2 DEF TypeOK
    <2>2. dst[t] \notin Own[u]
      BY <1>1, <2>1 DEF Private, RaceAssumption
    <2>3. \A p \in Own[u] : p \in Places /\ place'[p] = place[p]
      BY <1>2, <2>2 DEF TypeOK, Places
    <2> QED
      BY <1>2, <2>1, <2>3 DEF MoveInv
  <1>5. CountsMatch'
    <2> SUFFICES ASSUME NEW o \in Objs
                 PROVE  count'[o] = Cardinality(Holders(o)') + Cardinality(Storing(o)')
                                    + Cardinality(Releasing(o)')
      BY DEF CountsMatch, Holders, Storing, Releasing
    <2> DEFINE a == IF alloc[t] = o THEN 1 ELSE 0
               r == IF prev[t] = o THEN 1 ELSE 0
    <2>1. \A p : p # dst[t] => (p \in Holders(o) <=> p \in Holders(o)')
      BY <1>2 DEF TypeOK, Holders
    <2>2. (dst[t] \in Holders(o) <=> prev[t] = o) /\ (dst[t] \in Holders(o)' <=> alloc[t] = o)
      BY <1>1, <1>2 DEF TypeOK, Holders
    <2>3. Cardinality(Holders(o)') = Cardinality(Holders(o)) + a - r
      BY <2>1, <2>2, ReferencesFinite, SizeOfOneChange DEF One
    <2>4. \A u : u # t => (u \in Storing(o) <=> u \in Storing(o)')
      BY <1>2 DEF TypeOK, Storing
    <2>5. (t \in Storing(o) <=> alloc[t] = o) /\ t \notin Storing(o)'
      BY <1>1, <1>2 DEF TypeOK, Storing
    <2>6. Cardinality(Storing(o)') = Cardinality(Storing(o)) - a
      BY <2>4, <2>5, ReferencesFinite, SizeOfOneChange DEF One
    <2>7. \A u : u # t => (u \in Releasing(o) <=> u \in Releasing(o)')
      BY <1>2 DEF TypeOK, Releasing
    <2>8. (t \in Releasing(o)' <=> prev[t] = o) /\ t \notin Releasing(o)
      BY <1>1, <1>2 DEF TypeOK, Releasing
    <2>9. Cardinality(Releasing(o)') = Cardinality(Releasing(o)) + r
      BY <2>7, <2>8, ReferencesFinite, SizeOfOneChange DEF One
    <2>10. count'[o] = Cardinality(Holders(o)) + Cardinality(Storing(o)) + Cardinality(Releasing(o))
      BY <1>2, CountsAre
    <2>11. a \in Nat /\ r \in Nat
      OBVIOUS
    <2> HIDE DEF a, r
    <2> QED
      BY <2>3, <2>6, <2>9, <2>10, <2>11, ReferencesFinite
  <1>6. FreedInv' /\ AssertionsHold'
    BY <1>2 DEF FreedInv, AssertionsHold
  <1> QED
    BY <1>3, <1>4, <1>5, <1>6

(* release finds the reference it gives up still counted, and deletes the  *)
(* allocation when it was the last.                                        *)
LEMMA ReleaseKeepsInv ==
    ASSUME Private, RaceInv, NEW t \in Threads, release(t)
    PROVE  RaceInv'
  <1> USE DEF RaceInv
  <1>1. step[t] = "release"
    BY DEF release
  <1>2. prev[t] # Nil => prev[t] \in Objs /\ count[prev[t]] # 0
    <2> SUFFICES ASSUME prev[t] # Nil
                 PROVE  prev[t] \in Objs /\ count[prev[t]] # 0
      OBVIOUS
    <2>1. prev[t] \in Objs
      BY DEF TypeOK
    <2> QED
      BY <1>1, <2>1, ReferencedIsCounted
  <1>3. /\ step' = [step EXCEPT ![t] = "idle"]
        /\ src' = [src EXCEPT ![t] = Nil] /\ dst' = [dst EXCEPT ![t] = Nil]
        /\ prev' = [prev EXCEPT ![t] = Nil] /\ alloc' = [alloc EXCEPT ![t] = Nil]
        /\ UNCHANGED <<place, bad>>
        /\ count' = IF prev[t] = Nil THEN count ELSE [count EXCEPT ![prev[t]] = @ - 1]
        /\ freed' = IF prev[t] # Nil /\ count[prev[t]] = 1 THEN freed \cup {prev[t]} ELSE freed
    BY <1>2 DEF release, Done
  <1>4. count' \in [Objs -> Nat]
    BY <1>2, <1>3 DEF TypeOK
  <1>5. TypeOK'
    BY <1>2, <1>3, <1>4 DEF TypeOK
  <1>6. MoveInv'
    BY <1>3 DEF MoveInv, TypeOK
  <1>7. CountsMatch'
    <2> SUFFICES ASSUME NEW o \in Objs
                 PROVE  count'[o] = Cardinality(Holders(o)') + Cardinality(Storing(o)')
                                    + Cardinality(Releasing(o)')
      BY DEF CountsMatch, Holders, Storing, Releasing
    <2> DEFINE r == IF prev[t] = o THEN 1 ELSE 0
    <2>1. Holders(o)' = Holders(o)
      BY <1>3 DEF Holders
    <2>2. Storing(o)' = Storing(o)
      BY <1>1, <1>3 DEF TypeOK, Storing
    <2>3. \A u : u # t => (u \in Releasing(o) <=> u \in Releasing(o)')
      BY <1>3 DEF TypeOK, Releasing
    <2>4. (t \in Releasing(o) <=> prev[t] = o) /\ t \notin Releasing(o)'
      BY <1>1, <1>3 DEF TypeOK, Releasing
    <2>5. Cardinality(Releasing(o)') = Cardinality(Releasing(o)) - r
      BY <2>3, <2>4, ReferencesFinite, SizeOfOneChange DEF One
    <2>6. count'[o] = count[o] - r
      BY <1>2, <1>3 DEF TypeOK, Private, RaceAssumption
    <2>7. count[o] = Cardinality(Holders(o)) + Cardinality(Storing(o)) + Cardinality(Releasing(o))
      BY CountsAre
    <2>8. r \in Nat
      OBVIOUS
    <2> HIDE DEF r
    <2> QED
      BY <2>1, <2>2, <2>5, <2>6, <2>7, <2>8, ReferencesFinite
  <1>8. FreedInv'
    <2> SUFFICES ASSUME NEW o \in Objs
                 PROVE  o \in freed' <=> count'[o] = 0
      BY DEF FreedInv
    <2>1. count[o] \in Nat /\ (o \in freed <=> count[o] = 0)
      BY DEF TypeOK, FreedInv
    <2>2. CASE prev[t] = o
      <3>1. count'[o] = count[o] - 1 /\ count[o] # 0
        BY <1>2, <1>3, <2>2 DEF TypeOK, Private, RaceAssumption
      <3>2. o \in freed' <=> count[o] = 1
        BY <1>3, <2>1, <2>2, <3>1 DEF Private, RaceAssumption
      <3> QED
        BY <2>1, <3>1, <3>2
    <2>3. CASE prev[t] # o
      BY <1>3, <2>1, <2>3 DEF TypeOK
    <2> QED
      BY <2>2, <2>3
  <1>9. AssertionsHold'
    BY <1>3 DEF AssertionsHold
  <1> QED
    BY <1>5, <1>6, <1>7, <1>8, <1>9

(* RaceInv holds in every state of every behaviour of threads that move    *)
(* pointers between places of their own (_mov_<vm_alloc_t>).               *)
THEOREM RaceInvariant ==
    ASSUME Private
    PROVE  Spec => []RaceInv
  <1>1. Init => RaceInv
    BY RaceStarts
  <1>2. RaceInv /\ [Next]_vars => RaceInv'
    <2> SUFFICES ASSUME RaceInv, [Next]_vars
                 PROVE  RaceInv'
      OBVIOUS
    <2>1. CASE UNCHANGED vars
      BY <2>1 DEF vars, RaceInv, TypeOK, MoveInv, FreedInv, CountsMatch, AssertionsHold
    <2>2. CASE Next
      BY <2>2, LoadKeeps, AddRefKeeps, StoreKeeps, ReleaseKeepsInv DEF Next
    <2> QED
      BY <2>1, <2>2
  <1> QED
    BY <1>1, <1>2, PTL DEF Spec

-----------------------------------------------------------------------------
(* What the invariant means for the program. *)

(* An allocation is deleted exactly when neither a place nor a move that   *)
(* still has to release it refers to it.                                   *)
LEMMA InvariantFreesExactly ==
    ASSUME Private, RaceInv
    PROVE  FreedExactly
  <1> USE DEF RaceInv
  <1> SUFFICES ASSUME NEW o \in Objs
               PROVE  o \in freed <=>
                        /\ \A p \in Places : place[p] # o
                        /\ \A t \in Threads : prev[t] # o \/ step[t] \notin {"release"}
    BY DEF FreedExactly
  <1>1. o \in freed <=> count[o] = 0
    BY DEF FreedInv
  <1>2. ASSUME count[o] = 0
        PROVE  /\ \A p \in Places : place[p] # o
               /\ \A t \in Threads : prev[t] # o \/ step[t] \notin {"release"}
    BY <1>2, ReferencedIsCounted
  <1>3. ASSUME \A p \in Places : place[p] # o,
               \A t \in Threads : prev[t] # o \/ step[t] \notin {"release"}
        PROVE  count[o] = 0
    <2>1. Holders(o) = {} /\ Releasing(o) = {}
      BY <1>3 DEF Holders, Releasing
    <2>2. \A t \in Threads : step[t] = "store" /\ alloc[t] = o => \E p \in Places : place[p] = o
      BY DEF MoveInv, Places, Private, RaceAssumption
    <2>3. Storing(o) = {}
      BY <1>3, <2>2 DEF Storing
    <2> QED
      BY <2>1, <2>3, CountsAre, FS_EmptySet
  <1> QED
    BY <1>1, <1>2, <1>3

(* Threads on any number of workers that move pointers to the same         *)
(* allocations at once: the atomic counts of vm_memory.cpp are the number  *)
(* of references at every step, and an allocation is deleted exactly when  *)
(* its last reference is given up, neither early nor never.                *)
THEOREM RacingCountsExact ==
    ASSUME Private
    PROVE  Spec => []RaceSound
  <1>1. RaceInv => RaceSound
    BY InvariantFreesExactly DEF RaceInv, RaceSound
  <1> QED
    BY <1>1, RaceInvariant, PTL

(* "assert(_ref_count > 0)" of add_ref and release never fails. *)
THEOREM RefCountAssertionsHold ==
    ASSUME Private
    PROVE  Spec => []AssertionsHold
  <1>1. RaceInv => AssertionsHold
    BY DEF RaceInv
  <1> QED
    BY <1>1, RaceInvariant, PTL
=============================================================================
