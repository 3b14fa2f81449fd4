----------------------------- MODULE Arithmetic -----------------------------
(***************************************************************************)
(* Integer instructions of the interpreter (execution_table.cpp) on words  *)
(* of W bits and bigs of 2 W: division, powers, shifts, fixed point and    *)
(* the selection of a case of strings.                                     *)
(*                                                                         *)
(* One behaviour is one instruction on one choice of its operands.  The    *)
(* build wraps a sum or product that overflows and takes a shift count     *)
(* modulo the width; a quotient that does not exist stops the program      *)
(* (pc "trap"); divide_by_zero is an exception of the VM (pc "throws").    *)
(***************************************************************************)
EXTENDS Integers, Sequences

CONSTANTS W,         \* bits of a word
          Ops,       \* instructions
          Powers,    \* values of src
          Scales,    \* powers of two in fpr_2, or in mid for cvtxx
          Residuals, \* values of fpr_1
          Tables     \* case tables: sequences of [low, high], high = NoString or a string
ArithAssumption == W \in Nat \ {0, 1} /\ 0 \notin Residuals

NoString == -1
Words == -(2^(W - 1))..(2^(W - 1) - 1)
MinWord == -(2^(W - 1))
NoTable == <<>>

VARIABLES op, src, mid, scale, residual, table, \* operands
          pc, base, power, result, entry, dest   \* the instruction
operands == <<op, src, mid, scale, residual, table>>
locals == <<base, power, result, entry>>
vars == <<operands, pc, locals, dest>>

Init ==
    /\ op = "none" /\ src = 0 /\ mid = 0 /\ scale = 0 /\ residual = 1 /\ table = NoTable
    /\ pc = "fetch" /\ dest = 0
    /\ base = 0 /\ power = 0 /\ result = 1 /\ entry = 1

(* The instruction is fetched and its operands are decoded.                *)
Decode ==
    /\ pc = "fetch"
    /\ op' \in Ops
    /\ src' \in Powers /\ mid' \in Words
    /\ scale' \in Scales /\ residual' \in Residuals
    /\ table' \in (IF op' = "casec" THEN Tables ELSE {NoTable})
    /\ base' = mid' /\ power' = src'
    /\ pc' = "start"
    /\ UNCHANGED <<result, entry, dest>>

(* Integers of w bits.                                                     *)
Wrap(n, w) == ((n + 2^(w - 1)) % 2^w) - 2^(w - 1)
FitsIn(n, w) == Wrap(n, w) = n
Abs(n) == IF n < 0 THEN -n ELSE n
Quotient(a, b) == IF (a < 0) = (b < 0) THEN Abs(a) \div Abs(b) ELSE -(Abs(a) \div Abs(b))
Shl(n, k, w) == Wrap(n * 2^(k % w), w)
Shr(n, k, w) == n \div 2^(k % w)
Lsr(n, k, w) == Wrap((n % 2^w) \div 2^(k % w), w)

Done(value) == pc' = "done" /\ dest' = value
Stops(how) == pc' = how /\ UNCHANGED dest

(* _div and _mod                                                           *)
Remainder(a, b) == a - b * Quotient(a, b)
DivMod ==
    /\ pc = "start" /\ op \in {"divw", "modw"}
    /\ CASE src = 0 -> Stops("throws")
         [] src # 0 /\ ~FitsIn(Quotient(mid, src), W) -> Stops("trap")
         [] OTHER -> Done(IF op = "divw" THEN Quotient(mid, src) ELSE Remainder(mid, src))
    /\ UNCHANGED <<operands, locals>>

(* shlw, shrw, lsrw                                                        *)
Shifted ==
    CASE op = "shlw" -> Shl(mid, src, W)
      [] op = "shrw" -> Shr(mid, src, W)
      [] OTHER -> Lsr(mid, src, W)
Shift ==
    /\ pc = "start" /\ op \in {"shlw", "shrw", "lsrw"}
    /\ Done(Shifted)
    /\ UNCHANGED <<operands, locals>>

(***************************************************************************)
(* _exp: square and multiply; a negative power is the inverse at the end.  *)
(***************************************************************************)
ExpBegin ==
    /\ pc = "start" /\ op = "expw"
    /\ power' = IF src < 0 THEN Wrap(-src, W) ELSE src
    /\ pc' = "exp"
    /\ UNCHANGED <<operands, base, result, entry, dest>>
Halved(n) == n \div 2
FaultExpLoop ==
    /\ pc = "exp"
    /\ result' = IF power % 2 = 1 THEN Wrap(result * base, W) ELSE result
    /\ power' = Halved(power)
    /\ IF Halved(power) = 0 THEN pc' = "inverse" /\ UNCHANGED base
       ELSE base' = Wrap(base * mid, W) /\ UNCHANGED pc
    /\ UNCHANGED <<operands, entry, dest>>
ExpLoop ==
    /\ pc = "exp"
    /\ result' = IF power % 2 = 1 THEN Wrap(result * base, W) ELSE result
    /\ power' = Halved(power)
    /\ IF Halved(power) = 0 THEN pc' = "inverse" /\ UNCHANGED base
       ELSE base' = Wrap(base * base, W) /\ UNCHANGED pc
    /\ UNCHANGED <<operands, entry, dest>>
ExpEnd ==
    /\ pc = "inverse"
    /\ IF src >= 0 THEN Done(result)
       ELSE IF result = 0 THEN Stops("trap") ELSE Done(Quotient(1, result))
    /\ UNCHANGED <<operands, locals>>

(***************************************************************************)
(* Fixed point: the product or the dividend is scaled by a power of two,   *)
(* left or right, as a big; mulx0, divx0 and cvtxx0 also use the residual. *)
(***************************************************************************)
Scaled(n) == IF scale >= 0 THEN Shl(n, scale, 2 * W) ELSE Shr(n, -scale, 2 * W)
Dividend ==
    CASE op = "mulx" -> Scaled(mid * src)
      [] op = "mulx0" -> Scaled(mid * src)
      [] op = "divx" -> Scaled(mid)
      [] op = "divx0" -> Scaled(Wrap(mid * residual, 2 * W))
      [] OTHER -> Scaled(src)
Divisor ==
    CASE op \in {"mulx", "cvtxx"} -> 1
      [] op \in {"mulx0", "cvtxx0"} -> residual
      [] OTHER -> src
Fixed ==
    /\ pc = "start" /\ op \in {"mulx", "divx", "mulx0", "divx0", "cvtxx", "cvtxx0"}
    /\ CASE Divisor = 0 -> Stops("throws")
         [] Divisor # 0 /\ ~FitsIn(Quotient(Dividend, Divisor), 2 * W) -> Stops("trap")
         [] OTHER -> Done(Wrap(Quotient(Dividend, Divisor), W))
    /\ UNCHANGED <<operands, locals>>

(***************************************************************************)
(* casec: the entries in order; strings are numbers in their order.  An    *)
(* entry that is larger than the value is skipped, too.  dest is the entry *)
(* chosen, 0 the fallback.                                                 *)
(***************************************************************************)
Matches(e) == src = e.low \/ (src > e.low /\ e.high # NoString /\ src = e.high)
Case ==
    /\ pc = "start" /\ op = "casec"
    /\ IF entry > Len(table) THEN Done(0) /\ UNCHANGED entry
       ELSE IF Matches(table[entry]) THEN Done(entry) /\ UNCHANGED entry
       ELSE entry' = entry + 1 /\ UNCHANGED <<pc, dest>>
    /\ UNCHANGED <<operands, base, power, result>>

Ends == pc \in {"done", "throws", "trap"}
Finished == Ends /\ UNCHANGED vars
Step == Decode \/ DivMod \/ Shift \/ ExpBegin \/ ExpLoop \/ ExpEnd \/ Fixed \/ Case
Next == Step \/ Finished
Spec == Init /\ [][Next]_vars
FairSpec == Spec /\ WF_vars(Step)

-----------------------------------------------------------------------------
IsDone(name) == pc = "done" /\ op = name

(* A quotient and its remainder give the dividend back, the remainder is   *)
(* smaller than the divisor and has the sign of the dividend.              *)
DivModExact ==
    /\ IsDone("divw") => Abs(mid - src * dest) < Abs(src) /\ (mid - src * dest) * mid >= 0
    /\ IsDone("modw") => /\ Abs(dest) < Abs(src) /\ dest * mid >= 0
                         /\ \E q \in -(2^W)..2^W : mid = q * src + dest

(* An arithmetic shift keeps the sign and rounds down.                     *)
ShiftKeepsSign ==
    IsDone("shrw") => /\ (mid < 0) = (dest < 0)
                      /\ src \in 0..(W - 1) => dest * 2^src <= mid /\ mid < (dest + 1) * 2^src

(* In every turn of the loop result * base ^ power is the power asked for, *)
(* modulo 2^W; so is what it ends with.                                    *)
Raised(b, n) == LET to[k \in 0..n] == IF k = 0 THEN 1 ELSE Wrap(b * to[k - 1], W) IN to[n]
ExpExact ==
    /\ pc = "exp" /\ power >= 0 => Wrap(result * Raised(base, power), W) = Raised(mid, Abs(src))
    /\ IsDone("expw") /\ src >= 0 => dest = Raised(mid, src)

(* Every instruction ends, for a power that has an opposite.               *)
InstructionEnds == <>Ends

(* When nothing overflows, a fixed point result is less than two units     *)
(* from the exact one, and one that needs no residual less than one.       *)
FixedClose ==
    LET up == IF scale >= 0 THEN 2^scale ELSE 1
        down == IF scale >= 0 THEN 1 ELSE 2^(-scale)
        numerator == up * CASE op \in {"mulx", "mulx0"} -> mid * src
                            [] op = "divx" -> mid
                            [] op = "divx0" -> mid * residual
                            [] OTHER -> src
        unit == down * Divisor
    IN pc = "done" /\ op \in {"mulx", "divx", "mulx0", "divx0", "cvtxx", "cvtxx0"}
       /\ FitsIn(numerator, 2 * W) /\ FitsIn(Quotient(Dividend, Divisor), W)
       => Abs(unit * dest - numerator) < (IF op \in {"mulx", "cvtxx"} THEN 1 ELSE 2) * Abs(unit)

(* A string that an entry names, alone or as a bound of its range, selects *)
(* that entry; one outside of every range selects the fallback.            *)
High(e) == IF table[e].high = NoString THEN table[e].low ELSE table[e].high
CaseNamed ==
    IsDone("casec") =>
        /\ \A e \in 1..Len(table) : src \in {table[e].low, High(e)} => dest = e
        /\ (\A e \in 1..Len(table) : src \notin table[e].low..High(e)) => dest = 0

(* "[low value (inc)][high value (exc)]": a string between the bounds of   *)
(* an entry selects it.                                                    *)
CaseRange ==
    IsDone("casec") => \A e \in 1..Len(table) : src \in table[e].low..High(e) => dest = e

(* "Non integer result (i.e. 0)": a negative power of an integer that is   *)
(* not 1, 0 or -1 is 0.                                                    *)
NegativePower == op = "expw" /\ src < 0 /\ Abs(mid) > 1 => pc # "trap" /\ (pc = "done" => dest = 0)
=============================================================================
