-------------------------------- MODULE Heap --------------------------------
(***************************************************************************)
(* Reference counts and the mark-and-sweep collector (src/src/vm/          *)
(* vm_memory.cpp, garbage_collector.cpp, array.cpp, list.cpp and the       *)
(* instructions of execution_table.cpp that move pointers), as one VM      *)
(* thread runs them; HeapRace has the threads that share memory.           *)
(*                                                                         *)
(* An allocation is a record, an array of pointers, an array of bytes, a   *)
(* slice of an array or a list cell; only its pointers are kept.  An       *)
(* identifier is used once, so that a use after free is seen.              *)
(* Definitions marked "Fault:" are not part of the specification.          *)
(***************************************************************************)
EXTENDS Integers, Sequences, FiniteSets, SequencesExt

CONSTANTS
    Objs,           \* bound: allocations of a run
    Slots,          \* pointers of the frame
    ArrayLen,       \* length of arrays
    Ops,            \* the instructions the program uses
    Direct,         \* TRUE: a slice may be sliced in the place that holds it alone
    Overlap,        \* TRUE: a slice may be assigned to a later part of its own array
    Nil

HeapAssumption == ArrayLen \in Nat \ {0} /\ Objs \subseteq Nat /\ Nil \notin Objs

(* The heap: kind, pointers and reference count of every allocation, the   *)
(* pointers of the frame, the allocations the collector tracks with their  *)
(* colours, and whether a freed allocation was used.                       *)
VARIABLES h, colour, tracked, epoch, age

vars == <<h, colour, tracked, epoch, age>>

Ptrs == Objs \cup {Nil}
Gone(o) == h.kind[o] \in {"unused", "freed"}

Init ==
    /\ h = [kind |-> [o \in Objs |-> "unused"], ptr |-> [o \in Objs |-> <<>>],
            off |-> [o \in Objs |-> 0], len |-> [o \in Objs |-> 0], count |-> [o \in Objs |-> 0],
            slot |-> [s \in Slots |-> Nil], bad |-> FALSE]
    /\ colour = [o \in Objs |-> 0]
    /\ tracked = <<>>
    /\ epoch = 0
    /\ age = [o \in Objs |-> 0]

-----------------------------------------------------------------------------
(* Reference counts. *)

(* add_ref asserts that the count is not zero. *)
add_ref(g, o) ==
    IF o = Nil THEN g
    ELSE IF g.count[o] = 0 THEN [g EXCEPT !.bad = TRUE]
    ELSE [g EXCEPT !.count[o] = @ + 1]

inc_ref_count_in_memory(g, q) == FoldLeft(add_ref, g, q)

(* What a destructor releases: the fields of a record, the elements of an  *)
(* array, the original of a slice, the value and then the tail of a cell.  *)
Owned(g, o) == g.ptr[o]
Deleted(g, o) ==
    [g EXCEPT !.count[o] = 0, !.kind[o] = "freed", !.ptr[o] = <<>>, !.off[o] = 0, !.len[o] = 0]

RECURSIVE dec_ref_count_in_memory(_, _)

(* The pointers of q are released in order.  An allocation whose count     *)
(* becomes zero is deleted: its destructor releases its own pointers.      *)
dec_ref_count_in_memory(g, q) ==
    IF q = <<>> \/ g.bad THEN g
    ELSE LET o == Head(q) IN
         IF o = Nil THEN dec_ref_count_in_memory(g, Tail(q))
         ELSE IF g.count[o] = 0 THEN [g EXCEPT !.bad = TRUE]
         ELSE IF g.count[o] > 1 THEN dec_ref_count_in_memory([g EXCEPT !.count[o] = @ - 1], Tail(q))
         ELSE dec_ref_count_in_memory(Deleted(g, o), Owned(g, o) \o Tail(q))

dec_ref_count_and_free(g, o) == dec_ref_count_in_memory(g, <<o>>)

-----------------------------------------------------------------------------
(* Places that hold a pointer: a slot, or an element that a slot reaches.  *)

Held == {h.slot[s] : s \in Slots} \ {Nil}

(* The allocation and index of element i of an array or of a slice. *)
Cell(o, i) == IF h.kind[o] = "slice" THEN <<h.ptr[o][1], h.off[o] + i>> ELSE <<o, i>>

IsBytes(o) == h.kind[o] = "bytes" \/ (h.kind[o] = "slice" /\ h.kind[h.ptr[o][1]] = "bytes")

(* Places a program addresses: slots, fields of records, array elements. *)
Places ==
    Slots \cup UNION {{Cell(o, i) : i \in 1 .. h.len[o]} :
        o \in {p \in Held : h.kind[p] \in {"record", "array", "slice"} /\ ~IsBytes(p)}}

Get(g, p) == IF p \in Slots THEN g.slot[p] ELSE g.ptr[p[1]][p[2]]
Put(g, p, o) == IF p \in Slots THEN [g EXCEPT !.slot[p] = o] ELSE [g EXCEPT !.ptr[p[1]][p[2]] = o]

-----------------------------------------------------------------------------
(* Instructions. *)

Use(op) == op \in Ops /\ ~h.bad

(* Identifiers are taken in order. *)
Fresh == CHOOSE o \in Objs : h.kind[o] = "unused" /\ \A p \in Objs : p < o => h.kind[p] # "unused"
Room == \E o \in Objs : h.kind[o] = "unused"

Made(g, o, k, q, n) == [g EXCEPT !.kind[o] = k, !.ptr[o] = q, !.len[o] = n, !.count[o] = 1]

(* track_allocation takes a reference and gives the current colour. *)
track_allocation(g, o) ==
    /\ h' = add_ref(g, o)
    /\ tracked' = <<o>> \o tracked
    /\ colour' = [colour EXCEPT ![o] = epoch % 3]

Untracked(g) == h' = g /\ UNCHANGED <<tracked, colour>>

(* The destination is released before the allocation is made. *)
new_instance(s) ==
    /\ Use("new") /\ Room
    /\ LET g == dec_ref_count_and_free(h, h.slot[s])
           o == Fresh
       IN track_allocation([Made(g, o, "record", <<Nil>>, 1) EXCEPT !.slot[s] = o], o)
    /\ UNCHANGED <<epoch, age>>

(* An array is tracked when its elements hold pointers. *)
new_array(s, k) ==
    /\ Use(k) /\ Room
    /\ LET g == dec_ref_count_and_free(h, h.slot[s])
           o == Fresh
       IN IF k = "array"
          THEN track_allocation([Made(g, o, k, [i \in 1 .. ArrayLen |-> Nil], ArrayLen) EXCEPT !.slot[s] = o], o)
          ELSE Untracked([Made(g, o, k, <<>>, ArrayLen) EXCEPT !.slot[s] = o])
    /\ UNCHANGED <<epoch, age>>

_mov_(g, d, v) == dec_ref_count_and_free(Put(add_ref(g, v), d, v), Get(g, d))

(* A memory move of a record with its pointers. *)
movmp(s, d) ==
    LET p == h.slot[s]
        q == h.slot[d]
        g == dec_ref_count_in_memory(inc_ref_count_in_memory(h, h.ptr[p]), h.ptr[q])
    IN
    /\ Use("movmp")
    /\ p # Nil /\ q # Nil
    /\ h.kind[p] = "record" /\ h.kind[q] = "record"
    /\ Untracked([g EXCEPT !.ptr[q] = h.ptr[p]])
    /\ UNCHANGED <<epoch, age>>

movp(s, d) ==
    /\ Use("movp")
    /\ Untracked(_mov_(h, d, Get(h, s)))
    /\ UNCHANGED <<epoch, age>>

Clear(d) ==
    /\ Use("movp") /\ Get(h, d) # Nil
    /\ Untracked(_mov_(h, d, Nil))
    /\ UNCHANGED <<epoch, age>>

(* A slice of a slice refers to the original array: the slice is released  *)
(* first, then the original is referenced.                                 *)
Slice(g, o, a, n, len) ==
    IF g.kind[a] = "slice"
    THEN [Made(add_ref(dec_ref_count_and_free(g, a), g.ptr[a][1]), o, "slice", <<g.ptr[a][1]>>, len)
            EXCEPT !.off[o] = g.off[a] + n]
    ELSE [Made(g, o, "slice", <<a>>, len) EXCEPT !.off[o] = n]

(* The new slice takes the reference of the place it is stored in. *)
slicea(s, n, e) ==
    LET a == h.slot[s] IN
    /\ Use("slicea") /\ Room /\ a # Nil
    /\ h.kind[a] \in {"array", "bytes", "slice"} /\ n <= e /\ e <= h.len[a]
    /\ Direct \/ h.kind[a] # "slice" \/ h.count[a] > 1
    /\ Untracked([Slice(h, Fresh, a, n, e - n) EXCEPT !.slot[s] = Fresh])
    /\ UNCHANGED <<epoch, age>>

(* Fault: every element of the destination is released first. *)
CopyReleasesFirst(src, dst) == inc_ref_count_in_memory(dec_ref_count_in_memory(h, dst), src)

(* copy_from references an element of the source and releases one of the   *)
(* destination, element by element.                                        *)
CopyCounts(src, dst) ==
    FoldLeftDomain(LAMBDA g, i : dec_ref_count_and_free(add_ref(g, src[i]), dst[i]), h, src)

copy_from(s, d, n) ==
    LET a == h.slot[s]
        b == h.slot[d]
        from == Cell(a, 1)
        to == Cell(b, 1 + n)
        src == SubSeq(h.ptr[from[1]], from[2], from[2] + h.len[a] - 1)
        dst == SubSeq(h.ptr[to[1]], to[2], to[2] + h.len[a] - 1)
    IN
    /\ Use("slicela") /\ a # Nil /\ b # Nil
    /\ h.kind[a] \in {"array", "slice"} /\ h.kind[b] \in {"array", "slice"}
    /\ ~IsBytes(a) /\ ~IsBytes(b)
    /\ n + h.len[a] <= h.len[b]
    /\ Overlap \/ from[1] # to[1] \/ to[2] <= from[2]
    /\ Untracked([CopyCounts(src, dst) EXCEPT !.ptr[to[1]] =
            [i \in DOMAIN @ |-> IF i \in to[2] .. to[2] + h.len[a] - 1 THEN src[i - to[2] + 1] ELSE @[i]]])
    /\ UNCHANGED <<epoch, age>>

(* A cell takes over the reference of its tail from the place. *)
NewCell(g, o, v, t) == Made(add_ref(g, v), o, "list", <<v, t>>, 0)

(* consp: the cell references its tail, the place gives up its reference;  *)
(* a cell is tracked when its value is not nil.                            *)
consp(s, d) ==
    LET v == h.slot[s]
        o == Fresh
        g == [NewCell(h, o, v, h.slot[d]) EXCEPT !.slot[d] = o]
    IN
    /\ Use("list") /\ Room
    /\ h.slot[d] # Nil => h.kind[h.slot[d]] = "list"
    /\ IF v = Nil THEN Untracked(g) ELSE track_allocation(g, o)
    /\ UNCHANGED <<epoch, age>>

headp(s, d) ==
    LET l == h.slot[s] IN
    /\ Use("list") /\ l # Nil /\ h.kind[l] = "list"
    /\ Untracked(_mov_(h, d, h.ptr[l][1]))
    /\ UNCHANGED <<epoch, age>>

tail(s, d) ==
    LET l == h.slot[s] IN
    /\ Use("list") /\ l # Nil /\ h.kind[l] = "list"
    /\ Untracked(_mov_(h, d, h.ptr[l][2]))
    /\ UNCHANGED <<epoch, age>>

(* The frame returns: its pointers are released. *)
Leave ==
    /\ ~h.bad /\ Held # {}
    /\ LET q == SetToSeq(Slots)
           g == dec_ref_count_in_memory(h, [i \in 1 .. Len(q) |-> h.slot[q[i]]])
       IN Untracked([g EXCEPT !.slot = [s \in Slots |-> Nil]])
    /\ UNCHANGED <<epoch, age>>

-----------------------------------------------------------------------------
(* The collector. *)

get_current_colour == epoch % 3

(* Fault: the colour of this epoch is swept. *)
SweepCurrent == epoch % 3

get_sweeper_colour == (epoch + 1) % 3

(* Only records have a pointer map: arrays, slices, lists and channels     *)
(* have the descriptor of their kind, which has none.                      *)
Traced(o) == IF h.kind[o] = "record" THEN {h.ptr[o][i] : i \in DOMAIN h.ptr[o]} \ {Nil} ELSE {}

(* An allocation that has the current colour is not examined. *)
RECURSIVE mark(_)
mark(S) ==
    LET more == {p \in UNION {Traced(o) : o \in S} : colour[p] # get_current_colour} \ S
    IN IF more = {} THEN S ELSE mark(S \cup more)

Roots == {o \in Held : colour[o] # get_current_colour}

sweep(c) ==
    LET dead == SelectSeq(tracked, LAMBDA o : c[o] = get_sweeper_colour) IN
    /\ h' = dec_ref_count_in_memory(h, dead)
    /\ tracked' = SelectSeq(tracked, LAMBDA o : c[o] # get_sweeper_colour)

collect ==
    LET black == mark(Roots)
        c == [o \in Objs |-> IF o \in black THEN get_current_colour ELSE colour[o]]
    IN
    /\ Use("collect") /\ tracked # <<>>
    /\ sweep(c)
    /\ colour' = [o \in Objs |-> IF h'.kind[o] = "freed" THEN 0 ELSE c[o]]
    /\ epoch' = (epoch + 1) % 3
    /\ age' = [o \in Objs |-> IF h'.kind[o] # "freed" /\ h.count[o] = 1 /\ o \in Range(tracked)
                              THEN age[o] + 1 ELSE 0]

Next ==
    \/ \E s \in Slots : new_instance(s) \/ new_array(s, "array") \/ new_array(s, "bytes")
    \/ \E s, d \in Slots : movmp(s, d) \/ consp(s, d) \/ headp(s, d) \/ tail(s, d)
    \/ \E s, d \in Places : movp(s, d)
    \/ \E d \in Places : Clear(d)
    \/ \E s \in Slots, n, e \in 0 .. ArrayLen : slicea(s, n, e)
    \/ \E s, d \in Slots, n \in 0 .. ArrayLen - 1 : copy_from(s, d, n)
    \/ Leave
    \/ collect

Spec == Init /\ [][Next]_vars

-----------------------------------------------------------------------------
(* Properties *)

Live == {o \in Objs : ~Gone(o)}

References(o) ==
    Cardinality({s \in Slots : h.slot[s] = o})
    + Cardinality({<<p, i>> \in Live \X (1 .. ArrayLen + 2) : i <= Len(h.ptr[p]) /\ h.ptr[p][i] = o})
    + (IF o \in Range(tracked) THEN 1 ELSE 0)

(* The assertions of add_ref and release: no freed allocation is           *)
(* referenced or released again.                                           *)
NoUseAfterFree == ~h.bad

(* The count of an allocation is the number of pointers to it, of slots,   *)
(* elements, slices, tails and the collector; it is freed with the last    *)
(* one and never before.                                                   *)
CountsExact == \A o \in Objs : h.count[o] = References(o)

(* An allocation that only the collector holds is freed by the third       *)
(* collection, whatever colours the epochs gave it.                        *)
FreedInThree == \A o \in Objs : age[o] <= 2

(* A collection: a record the frame holds stays tracked.                   *)
KeepsHeld == \A o \in Held : o \in Range(tracked) => o \in Range(tracked')

RECURSIVE Reach(_)
Reach(S) ==
    LET more == UNION {{h.ptr[o][i] : i \in DOMAIN h.ptr[o]} : o \in S} \ (S \cup {Nil})
    IN IF more = {} THEN S ELSE Reach(S \cup more)

(* "The purpose of the hybrid approach was to mitigate cases where         *)
(* reference counting fails (e.g. cyclic references)": a record that was   *)
(* swept and that the frame does not reach is freed.                       *)
CyclesFreed == \A o \in Live : h.kind[o] = "record" /\ o \notin Range(tracked) => o \in Reach(Held)
=============================================================================
