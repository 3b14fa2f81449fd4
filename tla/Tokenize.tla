------------------------------ MODULE Tokenize ------------------------------
(***************************************************************************)
(* Sys_tokenize (Sysmod.cpp): a string is cut at its delimiters into a     *)
(* list that is built from its head, each node owned by the tail of the    *)
(* one before it (vm_list_t::set_tail), the head by the result record of   *)
(* the caller.  The caller may keep the list before it calls again, into   *)
(* the same record.  Nodes are numbered as they are allocated, so that the *)
(* nodes of one list follow one another.                                   *)
(***************************************************************************)
EXTENDS Integers, Sequences, FiniteSets

CONSTANTS Texts,     \* strings that are cut
          Delims,    \* strings of delimiters
          MaxNodes   \* bound: nodes allocated before the last call starts
Nil == 0

VARIABLES pc, s, delim,         \* the call and its arguments
          begin, end, n,        \* locals; n is also what is returned in t0
          prevNode, currNode,
          ret, kept,            \* t1 of the result, and the caller's own reference
          nodes, made           \* allocated nodes, and how many there ever were
vars == <<pc, s, delim, begin, end, n, prevNode, currNode, ret, kept, nodes, made>>
scan == <<begin, end, n>>
heap == <<ret, kept, nodes, made>>

Init ==
    /\ pc = "idle" /\ s = <<>> /\ delim = <<>>
    /\ begin = 0 /\ end = 0 /\ n = 0
    /\ prevNode = Nil /\ currNode = Nil
    /\ ret = Nil /\ kept = Nil
    /\ nodes = <<>> /\ made = 0

Without(f, gone) == [k \in DOMAIN f \ gone |-> f[k]]
With(f, k, node) == [j \in DOMAIN f \cup {k} |-> IF j = k THEN node ELSE f[j]]
NewNode == [value |-> <<>>, tail |-> Nil, refs |-> 1]
is_delim(c) == \E i \in 1..Len(delim) : delim[i] = c

(***************************************************************************)
(* dec_ref_count_and_free of a head: every node that nobody else refers to *)
(* is freed, and the first one that somebody does loses a reference.       *)
(***************************************************************************)
ListOf(k) == {j \in DOMAIN nodes : j >= k /\ \A i \in k..(j - 1) : nodes[i].tail = i + 1}
FaultReleased(k) == Without(nodes, ListOf(k))
Released(k) ==
    LET freed == {j \in ListOf(k) : \A i \in k..j : nodes[i].refs = 1}
        left == {j \in ListOf(k) \ freed : \A i \in k..(j - 1) : i \in freed}
    IN [j \in DOMAIN nodes \ freed |->
            IF j \in left THEN [nodes[j] EXCEPT !.refs = @ - 1] ELSE nodes[j]]

(***************************************************************************)
(* A call: the earlier result is released; nothing is returned for nil or  *)
(* the empty string; without delimiters the string itself is the only      *)
(* token; otherwise an empty node is the head, and the loop starts.        *)
(***************************************************************************)
Call ==
    /\ pc = "idle" /\ made < MaxNodes
    /\ s' \in Texts /\ delim' \in Delims
    /\ begin' = 0 /\ end' = 0 /\ prevNode' = Nil
    /\ LET rest == IF ret = Nil THEN nodes ELSE Released(ret)
       IN IF s' = <<>>
          THEN /\ nodes' = rest /\ ret' = Nil /\ n' = 0
               /\ UNCHANGED <<pc, currNode, made>>
          ELSE /\ made' = made + 1 /\ ret' = made + 1
               /\ IF delim' = <<>>
                  THEN /\ nodes' = With(rest, made + 1, [NewNode EXCEPT !.value = s'])
                       /\ n' = 1 /\ UNCHANGED <<pc, currNode>>
                  ELSE /\ nodes' = With(rest, made + 1, NewNode)
                       /\ n' = 0 /\ pc' = "delimiters" /\ currNode' = made + 1
    /\ UNCHANGED kept

(* Consume delimiters, then what is not one.                               *)
Delimiters ==
    /\ pc = "delimiters"
    /\ IF begin < Len(s) /\ is_delim(s[begin + 1])
       THEN begin' = begin + 1 /\ UNCHANGED <<pc, end>>
       ELSE end' = begin /\ pc' = "token" /\ UNCHANGED begin
    /\ UNCHANGED <<s, delim, n, prevNode, currNode, heap>>
Token ==
    /\ pc = "token"
    /\ IF end < Len(s) /\ ~is_delim(s[end + 1])
       THEN end' = end + 1 /\ UNCHANGED pc
       ELSE pc' = "node" /\ UNCHANGED end
    /\ UNCHANGED <<s, delim, begin, n, prevNode, currNode, heap>>

(***************************************************************************)
(* The token becomes a node: the head, or a new one behind the previous.   *)
(* set_tail adds a reference; the one of the creation is released.  The    *)
(* delimiters at the end of the string leave nothing to make a node of.    *)
(***************************************************************************)
Linked(prev, k, node) == With(With(nodes, k, node), prev, [nodes[prev] EXCEPT !.tail = k])
Node ==
    /\ pc = "node"
    /\ IF begin = end
       THEN pc' = "idle" /\ UNCHANGED <<begin, n, prevNode, currNode, nodes, made>>
       ELSE /\ LET k == IF currNode = Nil THEN made + 1 ELSE currNode
                   node == [NewNode EXCEPT !.value = SubSeq(s, begin + 1, end)]
               IN /\ nodes' = IF prevNode = Nil THEN With(nodes, k, node)
                                                ELSE Linked(prevNode, k, node)
                  /\ prevNode' = k /\ made' = IF k > made THEN k ELSE made
            /\ currNode' = Nil /\ begin' = end /\ n' = n + 1
            /\ pc' = IF end < Len(s) THEN "delimiters" ELSE "idle"
    /\ UNCHANGED <<s, delim, end, ret, kept>>

(* The caller copies the list into a register of its own.                  *)
Keep ==
    /\ pc = "idle" /\ ret # Nil /\ kept = Nil
    /\ kept' = ret /\ nodes' = [nodes EXCEPT ![ret].refs = @ + 1]
    /\ UNCHANGED <<pc, s, delim, scan, prevNode, currNode, ret, made>>

Step == Delimiters \/ Token \/ Node
Next == Call \/ Step \/ Keep
Spec == Init /\ [][Next]_vars

-----------------------------------------------------------------------------
(* The longest runs of s without a delimiter, as pairs of positions.       *)
Runs == {r \in (1..Len(s)) \X (1..Len(s)) :
            /\ r[1] <= r[2] /\ \A i \in r[1]..r[2] : ~is_delim(s[i])
            /\ r[1] = 1 \/ is_delim(s[r[1] - 1])
            /\ r[2] = Len(s) \/ is_delim(s[r[2] + 1])}

(* What is returned are the runs, all and in their order; a string of      *)
(* delimiters alone returns no token and one node without a string.        *)
TokensExact ==
    pc = "idle" /\ s # <<>> =>
        /\ n = Cardinality(Runs)
        /\ ListOf(ret) = ret..(ret + (IF n = 0 THEN 1 ELSE n) - 1)
        /\ n = 0 => nodes[ret].value = <<>>
        /\ \A r \in Runs : LET before == Cardinality({q \in Runs : q[1] < r[1]})
                           IN nodes[ret + before].value = SubSeq(s, r[1], r[2])

(* A node has one count for each reference to it: the result, the register *)
(* of the caller and the tails of other nodes; none outlives its lists.    *)
RefsExact ==
    \A k \in DOMAIN nodes :
        nodes[k].refs = Cardinality({x \in {"ret"} : ret = k})
                        + Cardinality({x \in {"kept"} : kept = k})
                        + Cardinality({j \in DOMAIN nodes : nodes[j].tail = k})

(* A step leaves the list alone that the caller has kept: none of its     *)
(* nodes is freed, linked elsewhere or given another string.               *)
KeepsList == kept # Nil => /\ ListOf(kept) = ListOf(kept)'
                           /\ \A k \in ListOf(kept) : nodes'[k].value = nodes[k].value
=============================================================================
