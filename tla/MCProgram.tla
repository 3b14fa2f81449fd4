----------------------------- MODULE MCProgram -----------------------------
(***************************************************************************)
(* What a Limbo program works with, for TLC: the modules it loads          *)
(* (ModuleLoader), the stack of its thread (Stack) and the values its      *)
(* instructions and built-in functions compute (Strings, Utf8, Arithmetic, *)
(* Tokenize).  A behaviour moves one of them, `part', and leaves the       *)
(* others where they begin; a property is evaluated in the behaviours that *)
(* move what it is about.                                                  *)
(***************************************************************************)
EXTENDS ModuleLoader, TLC

CONSTANTS v1, t1, t2,
          r1, r2, \* registers that hold strings
          Regs, Runes, Local, MaxLen, MaxLiteral, \* constants of Strings
          m1, m2, e1, e2, \* modules and exceptions
          \* constants of Stack
          PageSize, Header, Sizes, ModuleRefs, BuiltinRef, Entry, PCs, Handlers, Names,
          AnyName, EmptyName, NoPc, MaxDepth, None

VARIABLES part,
          reg, heap, overflow,
          buf,
          op, src, mid, scale, residual, table, pc, base, power, result, entry, dest,
          pages, chain, pending, module, framePc, refs, state, own,
          callPc, text, delim, begin, end, count, prevNode, currNode, ret, kept, nodes, made
stringVars == <<reg, heap, overflow>>
arithVars == <<op, src, mid, scale, residual, table, pc, base, power, result, entry, dest>>
tokenVars == <<callPc, text, delim, begin, end, count, prevNode, currNode, ret, kept, nodes, made>>
stackVars == <<pages, chain, pending, module, framePc, refs, state, own>>
valueVars == <<stringVars, buf, arithVars, tokenVars>>

(* ModuleLoader itself: two threads of one VM.                             *)
MCVmOf == [t \in Threads |-> v1]

(* Pages of seven cells, which a frame fills exactly or exceeds.  m1       *)
(* handles e1 around position 1 and has a second, wider handler with a     *)
(* default; m2 handles e2 and lets every other exception pass.             *)
MCHandlers ==
    [m \in {m1, m2, BuiltinRef} |->
        CASE m = m1 ->
               <<[lo |-> 1, hi |-> 2, cases |-> <<[name |-> e1, pc |-> 2], [name |-> AnyName, pc |-> 0]>>],
                 [lo |-> 1, hi |-> 2, cases |-> <<[name |-> AnyName, pc |-> 1]>>]>>
          [] m = m2 -> <<[lo |-> 2, hi |-> 3, cases |-> <<[name |-> e2, pc |-> 1]>>]>>
          [] m = BuiltinRef -> <<>>]
Frames == INSTANCE Stack WITH
    Modules <- ModuleRefs, Builtin <- BuiltinRef, Any <- AnyName, Empty <- EmptyName, Nil <- None,
    pc <- framePc

(* One ASCII character and one of two bytes; three bytes are stored in     *)
(* the string itself, so that literals, growth and widening all allocate.  *)
Str == INSTANCE Strings

(* One byte or both bounds of every range of the decoder's table.          *)
BoundaryBytes == {127, 128, 143, 144, 159, 160, 191, 193, 194, 224, 225, 237, 240, 243, 244, 245}
Utf == INSTANCE Utf8 WITH Bytes <- BoundaryBytes, MaxBytes <- 4

(* Words of 4 bits and bigs of 8, every operand.  Strings 1 to 5 are in    *)
(* order; the second case table has a range of two.                        *)
Case(low, high) == [low |-> low, high |-> high]
Arith == INSTANCE Arithmetic WITH
    W <- 4, Powers <- (-7)..7, Scales <- {-2, 0, 1}, Residuals <- {1, 3},
    Ops <- {"divw", "modw", "shlw", "shrw", "lsrw", "expw", "mulx", "divx", "mulx0", "divx0",
            "cvtxx", "cvtxx0", "casec"},
    Tables <- {<<>>, <<Case(1, -1), Case(3, 4), Case(5, -1)>>}

(* Strings of up to four runes, of which "d" is a delimiter in most calls  *)
(* and "a" in some.                                                        *)
Tokens == INSTANCE Tokenize WITH
    Texts <- UNION {[1..k -> {"a", "d"}] : k \in 0..4},
    Delims <- {<<>>, <<"d">>, <<"x", "y", "z", "a">>}, MaxNodes <- 3,
    pc <- callPc, s <- text, n <- count

ASSUME ProgramAssumption ==
    /\ LoaderAssumption /\ Frames!StackAssumption
    /\ Str!StringsAssumption /\ Utf!Utf8Assumption /\ Arith!ArithAssumption

RegSymmetry == Permutations(Regs)

ProgramInit ==
    /\ part \in {"loader", "stack", "strings", "utf8", "arithmetic", "tokens"}
    /\ Init /\ Frames!Init /\ Str!Init /\ Utf!Init /\ Arith!Init /\ Tokens!Init
    /\ part # "stack" => framePc = 1 /\ Len(chain) = 1 /\ chain[1].size = 2

LoaderMoves == part = "loader" /\ Next /\ UNCHANGED <<part, stackVars, valueVars>>
StackMoves == part = "stack" /\ Frames!Next /\ UNCHANGED <<part, vars, valueVars>>
StringsMove == part = "strings" /\ Str!Next /\ UNCHANGED <<part, vars, stackVars, buf, arithVars, tokenVars>>
Utf8Moves == part = "utf8" /\ Utf!Next /\ UNCHANGED <<part, vars, stackVars, stringVars, arithVars, tokenVars>>
ArithMoves == part = "arithmetic" /\ Arith!Next /\ UNCHANGED <<part, vars, stackVars, stringVars, buf, tokenVars>>
TokensMove == part = "tokens" /\ Tokens!Next /\ UNCHANGED <<part, vars, stackVars, stringVars, buf, arithVars>>
ProgramNext == LoaderMoves \/ StackMoves \/ StringsMove \/ Utf8Moves \/ ArithMoves \/ TokensMove
ProgramSpec == ProgramInit /\ [][ProgramNext]_<<part, vars, stackVars, valueVars>>

-----------------------------------------------------------------------------
(* Calls, returns, spawns and unwinding: the frames of a thread never      *)
(* overlap, the top frame is the current one, the registers are those of   *)
(* its function and the references of modules are counted exactly, also    *)
(* when a frame fills a page; an exception is handled in the innermost     *)
(* frame that has a handler for it, at a position of the code (stack.cpp,  *)
(* call, ret, mcall, raise, find_exception_handler).                       *)
FramesSound == part = "stack" =>
    /\ Frames!FramesDisjoint /\ Frames!TopFrameCurrent
    /\ Frames!RegistersFollowFrames /\ Frames!ReferencesExact
    /\ Frames!HandlerIsInnermost /\ Frames!HandlerHasPc

(* A string of one byte per character is ASCII, its cached UTF-8 form is   *)
(* the one of its present characters, and it compares with any other as    *)
(* its characters do (vm_string.cpp set_rune, str, compare).               *)
StringsSound == part = "strings" => Str!TypeOK /\ Str!Narrow /\ Str!CacheFresh /\ Str!ComparesNarrow

(* Every register behaves as if it held a value of its own, though strings *)
(* are shared and change in place: insc copies a string others refer to,   *)
(* and no change of representation changes the characters.                 *)
ValueSemantics == Str!ValueSemantics

(* The decoder accepts exactly RFC 3629, byte2char reads what starts at    *)
(* any offset, the length test of the string constructor finds invalid     *)
(* bytes, what was decoded is encoded in the same bytes, and char2byte     *)
(* writes nothing but them (utf8.cpp, Sysmod.cpp byte2char, char2byte).    *)
Utf8Exact == part = "utf8" =>
    /\ Utf!AcceptsWellFormed /\ Utf!Byte2CharRight /\ Utf!LongStringsChecked
    /\ Utf!EncodesBack /\ Utf!CharsSurvive

(* Quotient and remainder fit the dividend, an arithmetic shift keeps the  *)
(* sign, the loop of exp keeps result * base ^ power, a fixed point result *)
(* is within its rounding of the exact one and casec jumps to the entry    *)
(* that names the string (execution_table.cpp).                            *)
ArithmeticExact == part = "arithmetic" =>
    /\ Arith!DivModExact /\ Arith!ShiftKeepsSign /\ Arith!ExpExact
    /\ Arith!FixedClose /\ Arith!CaseNamed

(* Sys_tokenize returns the longest runs without a delimiter, in order;    *)
(* every node is counted once for each reference, and a later call leaves  *)
(* the list alone that the caller kept (Sysmod.cpp).                       *)
TokensExact == [][part = "tokens" => Tokens!TokensExact' /\ Tokens!RefsExact' /\ Tokens!KeepsList]_tokenVars
=============================================================================
