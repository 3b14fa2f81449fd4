-------------------------------- MODULE Stack --------------------------------
(***************************************************************************)
(* The stack of a VM thread and the instructions that use it: frame,       *)
(* mframe, call, mcall, ret, spawn, mspawn, raise, exit (src/src/vm/       *)
(* stack.cpp, vm_exception_handler.cpp, execution_table.cpp).              *)
(*                                                                         *)
(* A page holds PageSize cells after a header of Header cells; a frame is  *)
(* its place and size, what it saves of the caller, and nothing else.      *)
(* Programs follow the compiler's rule of one uncalled frame at a time     *)
(* (limbo/compiler/ecom.b: "stop nested uncalled frames").  Definitions    *)
(* marked "Fault:" are not part of the specification.                      *)
(***************************************************************************)
EXTENDS Integers, Sequences, FiniteSets, FiniteSetsExt

CONSTANTS
    PageSize, Header,   \* stack_page_size, sizeof(vm_stack_page)
    Sizes,              \* sizes of frames, with sizeof(vm_frame_t)
    Modules, Builtin,   \* module references; the built-in one
    Entry,              \* the module of the thread
    PCs,                \* positions of the code
    Handlers,           \* Handlers[m]: sequence of [lo, hi, cases]
    Names, Any,         \* exception ids, and the nil name of the default case
    Empty,              \* the exception id ""
    NoPc,               \* invalid_program_counter
    MaxDepth,           \* bound: frames of the stack
    Nil

(* A position in the code of a frame, or none.  A case without a position  *)
(* is the default of a handler that has none; the built-in module has no   *)
(* handlers.                                                               *)
All == Modules \cup {Builtin}
CaseSound(c) == DOMAIN c = {"name", "pc"} /\ c.pc \in Int /\ (c.pc = NoPc => c.name = Any)
HandlerSound(x) ==
    /\ DOMAIN x = {"lo", "hi", "cases"} /\ x.lo \in Int /\ x.hi \in Int
    /\ DOMAIN x.cases = 1 .. Len(x.cases) /\ Len(x.cases) \in Nat
    /\ \A k \in DOMAIN x.cases : CaseSound(x.cases[k])

(* vm_frame_t with its place; a page keeps the place of its top frame.     *)
Frame == [page : Nat \ {0}, off : Nat, size : Nat \ {0}, prevPc : Int, prevMod : All \cup {Nil}]
Spot == [page : Nat \ {0}, off : Nat, size : Nat \ {0}]

StackAssumption ==
    /\ Header \in Nat /\ PageSize \in Nat /\ Header < PageSize
    /\ Sizes \subseteq Nat \ {0} /\ MaxDepth \in Nat
    /\ Entry \in Modules /\ Builtin \notin Modules
    /\ Nil \notin All /\ Nil \notin Frame /\ Nil \notin Spot
    /\ PCs \subseteq Nat /\ 0 \notin PCs /\ NoPc \in Int
    /\ Any \notin Names /\ Empty \notin Names
    /\ DOMAIN Handlers = All /\ Handlers[Builtin] = <<>>
    /\ \A m \in All :
        /\ DOMAIN Handlers[m] = 1 .. Len(Handlers[m]) /\ Len(Handlers[m]) \in Nat
        /\ \A k \in DOMAIN Handlers[m] : HandlerSound(Handlers[m][k])

VARIABLES
    pages,      \* page_top_frame of each page, the top page last
    chain,      \* the pushed frames, the top frame last
    pending,    \* the frame that was allocated and not yet called, or Nil
    module, pc, \* registers module_ref and pc
    refs,       \* reference counts of the module references
    state,      \* current_thread_state
    own         \* ghost: module and pc every frame executes at

vars == <<pages, chain, pending, module, pc, refs, state, own>>

Place(pg, off, sz) == [page |-> pg, off |-> off, size |-> sz, prevPc |-> NoPc, prevMod |-> Nil]
Where(f) == [page |-> f.page, off |-> f.off, size |-> f.size]

Init ==
    /\ \E sz \in Sizes :
        /\ sz <= PageSize
        /\ chain = <<Place(1, 0, sz)>>
        /\ pages = <<Where(Place(1, 0, sz))>>
    /\ pending = Nil
    /\ module = Entry /\ pc \in PCs
    /\ refs = [m \in All |-> IF m = Entry THEN 1 ELSE 0]
    /\ state = "running"
    /\ own = <<Entry>>

-----------------------------------------------------------------------------
(* vm_stack_t.  s is a record of pages and chain. *)

Here == [pages |-> pages, chain |-> chain]
Last(q) == q[Len(q)]
Front(q) == SubSeq(q, 1, Len(q) - 1)

(* page_limit_addr, counted from the start of the page's data. *)
Limit == PageSize - Header

(* Fault: the size of the top frame is not counted. *)
OverlappingPlace(sz) ==
    LET n == Len(pages)
        top == Last(pages)
        off == IF top = Nil THEN 0 ELSE top.off + 1
    IN IF top # Nil /\ off + sz >= Limit THEN Place(n + 1, 0, sz) ELSE Place(n, off, sz)

(* alloc_frame: after the top frame of the page, or on a new page. *)
NewPlace(sz) ==
    LET n == Len(pages)
        top == Last(pages)
        off == IF top = Nil THEN 0 ELSE top.off + top.size
    IN IF top # Nil /\ off + sz >= Limit THEN Place(n + 1, 0, sz) ELSE Place(n, off, sz)

contains_frame(n, f) == f.page = n /\ f.off < Limit

push_frame(s, f) == [s EXCEPT !.chain = Append(@, f)]

(* The page of the frame is dropped when the new top frame is on another.  *)
pop_frame(s) ==
    LET rest == Front(s.chain)
        top == IF rest = <<>> THEN Nil ELSE Where(Last(rest))
    IN [chain |-> rest,
        pages |-> IF rest # <<>> /\ ~contains_frame(Len(s.pages), top)
                  THEN Front(s.pages) ELSE Append(Front(s.pages), top)]

PopN(s, k) == LET P[i \in 0 .. k] == IF i = 0 THEN s ELSE pop_frame(P[i - 1]) IN P[k]

Running == state = "running"
AtCode == Running /\ pc \in PCs

-----------------------------------------------------------------------------
(* References: what the frames above and including i give back.            *)

Saved(lo, hi) == {i \in lo .. hi : chain[i].prevMod # Nil}

(* The module a frame executes in, as the stack walk finds it. *)
ModuleOf(i) ==
    LET S == Saved(i + 1, Len(chain)) IN IF S = {} THEN module ELSE chain[Min(S)].prevMod

PcOf(i) == IF i = Len(chain) THEN pc ELSE chain[i + 1].prevPc - 1

(* Unwinding to i replaces the module register once for every frame that   *)
(* saved one, and drops the reference of the module it replaces.           *)
Dropped(i, m) ==
    LET S == Saved(i + 1, Len(chain)) IN
    Cardinality({j \in S : (IF j = Max(S) THEN module
                            ELSE chain[Min({k \in S : k > j})].prevMod) = m})

-----------------------------------------------------------------------------
(* Instructions.  Any of them may be at a position of PCs. *)

jmp(p) ==
    /\ Running /\ pending = Nil
    /\ pc' = p
    /\ UNCHANGED <<pages, chain, pending, module, refs, state, own>>

frame(sz) ==
    /\ Running /\ pending = Nil /\ Len(chain) < MaxDepth
    /\ IF sz > PageSize
       THEN state' = "ended" /\ UNCHANGED <<pages, pending>>   \* vm_system_exception
       ELSE /\ pending' = NewPlace(sz)
            /\ pages' = [i \in 1 .. pending'.page |->
                            IF i = pending'.page THEN Where(pending') ELSE pages[i]]
            /\ UNCHANGED state
    /\ UNCHANGED <<chain, module, pc, refs, own>>

call(p) ==
    /\ AtCode /\ pending # Nil
    /\ chain' = push_frame(Here, [pending EXCEPT !.prevPc = pc + 1]).chain
    /\ pending' = Nil
    /\ pc' = p
    /\ own' = Append(own, module)
    /\ UNCHANGED <<pages, module, refs, state>>

mcall(m, p) ==
    /\ AtCode /\ pending # Nil
    /\ chain' = push_frame(Here, [pending EXCEPT !.prevPc = pc + 1, !.prevMod = module]).chain
    /\ pending' = Nil
    /\ module' = m /\ refs' = [refs EXCEPT ![m] = @ + 1]
    /\ pc' = p
    /\ own' = Append(own, m)
    /\ UNCHANGED <<pages, state>>

(* ret gives the module register back to the caller. *)
ret ==
    LET f == Last(chain) IN
    /\ Running /\ pending = Nil
    /\ IF f.prevMod = Nil THEN UNCHANGED <<module, refs>>
       ELSE module' = f.prevMod /\ refs' = [refs EXCEPT ![module] = @ - 1]
    /\ pages' = pop_frame(Here).pages /\ chain' = pop_frame(Here).chain
    /\ pc' = f.prevPc
    /\ state' = IF chain' = <<>> THEN "empty_stack" ELSE state
    /\ own' = Front(own)
    /\ UNCHANGED pending

(* A built-in function that returns: the frame is pushed and popped. *)
McallBuiltin ==
    LET s == pop_frame(push_frame(Here, pending)) IN
    /\ AtCode /\ pending # Nil
    /\ pages' = s.pages /\ chain' = s.chain
    /\ pending' = Nil
    /\ pc' = pc + 1
    /\ UNCHANGED <<module, refs, state, own>>

(* The frame passes the arguments and is popped after the fork. *)
spawn ==
    LET s == pop_frame(push_frame(Here, pending)) IN
    /\ AtCode /\ pending # Nil
    /\ pages' = s.pages /\ chain' = s.chain
    /\ pending' = Nil
    /\ pc' = pc + 1
    /\ UNCHANGED <<module, refs, state, own>>

(* Any instruction may throw a vm_user_exception, also with a frame that   *)
(* was not called; a failing spawn or built-in leaves its frame pushed.    *)
Throw ==
    /\ Running
    /\ state' = "broken"
    /\ \/ UNCHANGED <<chain, pending, own>>
       \/ /\ pending # Nil
          /\ chain' = Append(chain, pending)
          /\ pending' = Nil
          /\ own' = Append(own, module)
    /\ UNCHANGED <<pages, module, pc, refs>>

exit ==
    /\ Running
    /\ state' = "exiting"
    /\ UNCHANGED <<pages, chain, pending, module, pc, refs, own>>

-----------------------------------------------------------------------------
(* Exceptions. *)

(* The empty string compares equal to the nil name of the default case. *)
Matches(c, e) == c.name = e \/ (c.name = Any /\ (c.pc # NoPc \/ e = Empty))

(* The first case, in the order of the table, of a handler that covers p.  *)
Cases(m, p, e) ==
    {x \in UNION {{k} \X DOMAIN Handlers[m][k].cases : k \in DOMAIN Handlers[m]} :
        /\ Handlers[m][x[1]].lo <= p /\ p < Handlers[m][x[1]].hi
        /\ Matches(Handlers[m][x[1]].cases[x[2]], e)}

FirstCase(S) ==
    CHOOSE x \in S : \A y \in S : x[1] < y[1] \/ (x[1] = y[1] /\ x[2] <= y[2])

CaseOf(m, p, e) == LET x == FirstCase(Cases(m, p, e)) IN Handlers[m][x[1]].cases[x[2]]

(* The frame of the handler, or 0. *)
find_exception_handler(e) ==
    LET S == {i \in 1 .. Len(chain) : Cases(ModuleOf(i), PcOf(i), e) # {}}
    IN IF S = {} THEN 0 ELSE Max(S)

raise(e) ==
    LET i == find_exception_handler(e) IN
    /\ Running /\ pending = Nil
    /\ IF i = 0 THEN state' = "broken" /\ UNCHANGED <<pages, chain, module, pc, refs, own>>
       ELSE LET s == PopN(Here, Len(chain) - i) IN
            /\ pages' = s.pages /\ chain' = s.chain
            /\ module' = ModuleOf(i)
            /\ refs' = [m \in All |-> refs[m] - Dropped(i, m)]
            /\ pc' = CaseOf(ModuleOf(i), PcOf(i), e).pc
            /\ own' = SubSeq(own, 1, i)
            /\ UNCHANGED state
    /\ UNCHANGED pending

(* A built-in function throws a marshallable exception: mcall of the       *)
(* built-in module and raise in its frame, where no handler can be.        *)
RaiseInBuiltin(e) ==
    LET S == {i \in 1 .. Len(chain) : Cases(ModuleOf(i), PcOf(i), e) # {}}
        i == IF S = {} THEN 0 ELSE Max(S)
        s == PopN(push_frame(Here, pending), Len(chain) + 1 - i)
    IN
    /\ AtCode /\ pending # Nil
    /\ pending' = Nil
    /\ IF i = 0
       THEN /\ state' = "broken"
            /\ chain' = Append(chain, [pending EXCEPT !.prevPc = pc + 1, !.prevMod = module])
            /\ module' = Builtin /\ refs' = [refs EXCEPT ![Builtin] = @ + 1]
            /\ own' = Append(own, Builtin)
            /\ UNCHANGED <<pages, pc>>
       ELSE /\ pages' = s.pages /\ chain' = s.chain
            /\ module' = ModuleOf(i)
            /\ refs' = [m \in All |-> refs[m] - Dropped(i, m)]
            /\ pc' = CaseOf(ModuleOf(i), PcOf(i), e).pc
            /\ own' = SubSeq(own, 1, i)
            /\ UNCHANGED state

(* The destructors of the stack and of the registers. *)
Destroy ==
    /\ state \in {"broken", "exiting", "empty_stack"}
    /\ state' = "gone"
    /\ pages' = Front(PopN(Here, Len(chain)).pages)
    /\ chain' = <<>> /\ own' = <<>> /\ pending' = Nil
    /\ refs' = [m \in All |-> refs[m] - Cardinality({i \in Saved(1, Len(chain)) : chain[i].prevMod = m})
                                      - (IF m = module THEN 1 ELSE 0)]
    /\ UNCHANGED <<module, pc>>

Next ==
    \/ \E sz \in Sizes : frame(sz)
    \/ \E p \in PCs : jmp(p) \/ call(p)
    \/ \E m \in Modules, p \in PCs : mcall(m, p)
    \/ ret \/ McallBuiltin \/ spawn \/ Throw \/ exit
    \/ \E e \in Names : raise(e) \/ RaiseInBuiltin(e)
    \/ Destroy

Spec == Init /\ [][Next]_vars

-----------------------------------------------------------------------------
(* Properties *)

Live == {chain[i] : i \in 1 .. Len(chain)} \cup (IF pending = Nil THEN {} ELSE {pending})

(* Frames that are in use lie on an allocated page, inside its memory, and *)
(* do not overlap, whatever was called, returned, spawned and unwound.     *)
FramesDisjoint ==
    /\ \A f \in Live : f.page <= Len(pages) /\ f.off + f.size <= PageSize
    /\ \A f, g \in Live :
        f # g /\ f.page = g.page => f.off + f.size <= g.off \/ g.off + g.size <= f.off
    /\ Cardinality(Live) = Len(chain) + (IF pending = Nil THEN 0 ELSE 1)

(* The assertions of call, mcall and spawn: the frame push_frame takes is  *)
(* the one the program allocated; and after a return it is the caller's.   *)
TopFrameCurrent ==
    state = "running" =>
        Last(pages) = Where(IF pending = Nil THEN Last(chain) ELSE pending)

(* Every frame is found in the module and every one is executing in what   *)
(* the registers say, across calls between modules and unwinding.          *)
RegistersFollowFrames ==
    state = "running" => \A i \in 1 .. Len(chain) : ModuleOf(i) = own[i]

(* A module reference is counted once for the register and for each frame  *)
(* that will restore it; none is left when the thread is gone.             *)
ReferencesExact ==
    \A m \in All :
        refs[m] = IF state = "gone" THEN 0
                  ELSE Cardinality({i \in Saved(1, Len(chain)) : chain[i].prevMod = m})
                       + (IF m = module THEN 1 ELSE 0)

(* The handler chosen is in the innermost frame whose own module and call  *)
(* site have one.                                                          *)
HandlerIsInnermost ==
    state = "running" => \A e \in Names :
        LET i == find_exception_handler(e)
            Has(k) == \E h \in 1 .. Len(Handlers[own[k]]) :
                /\ (IF k = Len(chain) THEN pc ELSE chain[k + 1].prevPc - 1)
                      \in Handlers[own[k]][h].lo .. Handlers[own[k]][h].hi - 1
                /\ \E c \in 1 .. Len(Handlers[own[k]][h].cases) : Matches(Handlers[own[k]][h].cases[c], e)
        IN /\ i # 0 => Has(i)
           /\ \A k \in i + 1 .. Len(chain) : ~Has(k)

(* The assertion of raise: a handler that was found has a position; the    *)
(* default case of a handler without one must not be chosen.               *)
HandlerHasPc ==
    state = "running" => \A e \in Names :
        LET i == find_exception_handler(e) IN i # 0 => CaseOf(ModuleOf(i), PcOf(i), e).pc # NoPc

(* "Free stack memory": no page is left when the thread is gone. *)
PagesFreed == state = "gone" => pages = <<>>

-----------------------------------------------------------------------------
(* The inductive invariant behind the properties, in parts.                *)

(* The frames lie one after the other, a new page begins with one.         *)
Adjacent(f, g) ==
    \/ g.page = f.page /\ g.off = f.off + f.size
    \/ g.page = f.page + 1 /\ g.off = 0
Layout(q) ==
    /\ q \in Seq(Frame)
    /\ Len(q) > 0 => q[1].page = 1 /\ q[1].off = 0
    /\ \A i \in 1 .. Len(q) : q[i].off + q[i].size <= PageSize /\ q[i].off < Limit
    /\ \A i \in 1 .. Len(q) - 1 : Adjacent(q[i], q[i + 1])

(* There is a page for every one that frames begin, and it knows the last  *)
(* frame on it.                                                            *)
PagesOf(pg, q) ==
    IF q = <<>> THEN pg = <<Nil>>
    ELSE /\ pg \in Seq(Spot) /\ Len(pg) = q[Len(q)].page
         /\ \A i \in 1 .. Len(q) :
                i = Len(q) \/ q[i + 1].page # q[i].page => pg[q[i].page] = Where(q[i])
Stacked == IF pending = Nil THEN chain ELSE Append(chain, pending)
LayoutInv == Layout(Stacked) /\ (state # "gone" => PagesOf(pages, Stacked))

(* A frame that saved no module executes in that of the frame above it.    *)
OwnInv ==
    /\ own \in Seq(All) /\ Len(own) = Len(chain)
    /\ chain # <<>> => own[Len(own)] = module
    /\ \A i \in 1 .. Len(chain) - 1 :
           own[i] = IF chain[i + 1].prevMod = Nil THEN own[i + 1] ELSE chain[i + 1].prevMod
RegisterInv ==
    /\ chain \in Seq(Frame) /\ pending \in {f \in Frame : f.prevMod = Nil} \cup {Nil}
    /\ module \in All /\ pc \in Int /\ refs \in [All -> Int]
    /\ Running \/ pending # Nil => chain # <<>>
    /\ state = "gone" => pending = Nil /\ chain = <<>>
StackInv == RegisterInv /\ LayoutInv /\ OwnInv /\ ReferencesExact
=============================================================================
