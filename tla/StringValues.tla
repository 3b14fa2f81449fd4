---------------------------- MODULE StringValues ----------------------------
(***************************************************************************)
(* What the string instructions promise: every register holds a value of   *)
(* its own, a sequence of runes, nil being the empty one; an instruction   *)
(* changes its destination and nothing else.                               *)
(***************************************************************************)
EXTENDS Integers, Sequences

CONSTANTS Regs,    \* registers that hold strings
          Runes,   \* the characters used
          MaxLen,  \* bound: length of a string
          MaxLiteral \* bound: length of a string read from a module

VARIABLE value
TypeOK == value \in [Regs -> Seq(Runes)]

Init == value = [x \in Regs |-> <<>>]

Set(x, s) == value' = [value EXCEPT ![x] = s]

Literal(x) == \E s \in UNION {[1..n -> Runes] : n \in 0..MaxLiteral} : Set(x, s)
Move(x, y) == Set(x, value[y])
Insert(x, i, c) ==
    /\ i \in 0..Len(value[x])
    /\ Set(x, IF i = Len(value[x]) THEN Append(value[x], c)
                                   ELSE [value[x] EXCEPT ![i + 1] = c])
Concat(x, y, z) == Set(x, value[y] \o value[z])
Slice(x, b, e) ==
    /\ 0 <= b /\ b <= e /\ e <= Len(value[x])
    /\ Set(x, SubSeq(value[x], b + 1, e))

Next ==
    \E x \in Regs :
        \/ Literal(x)
        \/ \E y \in Regs : Move(x, y)
        \/ \E i \in 0..MaxLen, c \in Runes : Insert(x, i, c)
        \/ \E y, z \in Regs : Concat(x, y, z)
        \/ \E b, e \in 0..MaxLen : Slice(x, b, e)

Spec == Init /\ [][Next]_value
=============================================================================
