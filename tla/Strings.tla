------------------------------ MODULE Strings ------------------------------
(***************************************************************************)
(* vm_string_t (string.cpp) and the string instructions (execution_table). *)
(*                                                                         *)
(* A string keeps its characters in one byte each while all are ASCII and  *)
(* in four otherwise, in a buffer of its own (`Local' bytes) or in         *)
(* allocated memory, and caches its UTF-8 form.  Instructions share        *)
(* strings by reference and change one in place only when nothing else     *)
(* refers to it.  A write past the end of the memory ends the behaviour:   *)
(* `overflow'.                                                             *)
(***************************************************************************)
EXTENDS Integers, Sequences, FiniteSets

CONSTANTS Regs,    \* registers that hold references to strings
          Runes,   \* the characters used
          Local,   \* bytes in _mem.local (16)
          MaxLen,  \* bound: length of a string
          MaxLiteral \* bound: length of a string read from a module

StringsAssumption ==
    /\ IsFiniteSet(Regs) /\ Runes \subseteq Nat
    /\ Local \in Nat /\ Local >= 1
    /\ MaxLen \in Nat /\ MaxLiteral \in 0..MaxLen

RuneSize == 4
MaxAscii == 127
Nil == 0
Objects == 1..(Cardinality(Regs) + 1)

VARIABLES
    reg,     \* each register: the string it refers to, or Nil
    heap,    \* the strings: [chars, size, alloc, max, enc]
    overflow \* a write went past the end of a string's memory

vars == <<reg, heap, overflow>>

Cached(kind, text) == [kind |-> kind, text |-> text]
NotCached == Cached("none", <<>>)
String(chars, size, alloc, max, enc) ==
    [chars |-> chars, size |-> size, alloc |-> alloc, max |-> max, enc |-> enc]
StringRecords ==
    [chars : Seq(Runes), size : {1, RuneSize}, alloc : BOOLEAN, max : Nat,
     enc : [kind : {"none", "self", "own"}, text : Seq(Runes)]]

TypeOK ==
    /\ reg \in [Regs -> Objects \cup {Nil}]
    /\ heap \in [Objects -> StringRecords]
    /\ \A o \in Objects : Len(heap[o].chars) <= MaxLen /\ Len(heap[o].enc.text) <= MaxLen
    /\ overflow \in BOOLEAN

-----------------------------------------------------------------------------
(* compute_max_length: the length, a null, and room to grow.               *)
compute_max_length(n) == n + 1 + (n \div 4)

(* The bytes a string has for its characters.                              *)
Capacity(s) == IF s.alloc THEN s.max * s.size ELSE Local
Fits(s) == Len(s.chars) * s.size <= Capacity(s)

(* vm_string_t(): empty, in the local buffer.                              *)
Empty == String(<<>>, 1, FALSE, Local - 1, NotCached)

(***************************************************************************)
(* vm_string_t(encoded_str_len, encoded_str): the number of UTF-8 bytes    *)
(* decides about allocation.  A rune above 127 takes two of them here.     *)
(***************************************************************************)
EncodedLength(text) == Len(text) + Cardinality({i \in DOMAIN text : text[i] > MaxAscii})
CharacterSize(text) == IF EncodedLength(text) # Len(text) THEN RuneSize ELSE 1
FromEncoded(text) ==
    LET size == CharacterSize(text) IN
    IF EncodedLength(text) > Local - 1
    THEN String(text, size, TRUE, compute_max_length(Len(text)), NotCached)
    ELSE String(text, size, FALSE, (Local - 1) \div size, NotCached)

(* vm_string_t(s1, s2)                                                     *)
Wider(m, n) == IF m > n THEN m ELSE n
Combined(s1, s2) ==
    String(s1.chars \o s2.chars, Wider(s1.size, s2.size), TRUE,
           compute_max_length(Len(s1.chars) + Len(s2.chars)), NotCached)

(* vm_string_t(other, begin_index, end_index)                              *)
CanSlice(s, b, e) == 0 <= b /\ b <= e /\ e <= Len(s.chars)
Sliced(s, b, e) ==
    String(SubSeq(s.chars, b + 1, e), s.size, s.alloc, compute_max_length(e - b), NotCached)

(* append: always into new memory, unless there is nothing to append.      *)
Appended(s, other) == IF other.chars = <<>> THEN s ELSE Combined(s, other)

(***************************************************************************)
(* set_rune: the first character that is not ASCII widens the string into  *)
(* new memory; a character past _length_max moves it to larger memory.  An *)
(* ASCII string keeps the low seven bits.                                  *)
(***************************************************************************)
Grown(s) == IF Len(s.chars) = 0 THEN Local - 1 ELSE compute_max_length(Len(s.chars))
PutChar(s, i, c) == IF i = Len(s.chars) THEN Append(s.chars, c) ELSE [s.chars EXCEPT ![i + 1] = c]
Widens(s, c) == c > MaxAscii /\ s.size = 1
FaultNewEnc(s) == s.enc
NewEnc(s) == NotCached
WithRune(s, i, c) ==
    IF Widens(s, c) THEN String(PutChar(s, i, c), RuneSize, TRUE, Grown(s), NewEnc(s))
    ELSE LET kept == IF s.size = 1 THEN c % (MaxAscii + 1) ELSE c IN
         IF s.max <= i THEN String(PutChar(s, i, kept), s.size, TRUE, Grown(s), NewEnc(s))
                       ELSE String(PutChar(s, i, kept), s.size, s.alloc, s.max, NewEnc(s))

(***************************************************************************)
(* str: an ASCII string with room for a null is its own UTF-8 form; any    *)
(* other is copied or encoded once.                                        *)
(***************************************************************************)
RoomForNull(s) == Len(s.chars) < s.max
Encoded(s) ==
    IF s.enc.kind # "none" THEN s
    ELSE IF s.size = 1 /\ RoomForNull(s) THEN [s EXCEPT !.enc = Cached("self", <<>>)]
    ELSE [s EXCEPT !.enc = Cached("own", s.chars)]

-----------------------------------------------------------------------------
(* compare: memory with memory as bytes when both strings have the same    *)
(* character size, character by character otherwise.                       *)
LittleEndian(c) == <<c % 256, (c \div 256) % 256, (c \div 65536) % 256, 0>>
ByteAt(s, k) ==
    IF s.size = 1 THEN s.chars[k]
    ELSE LittleEndian(s.chars[((k - 1) \div RuneSize) + 1])[((k - 1) % RuneSize) + 1]
Sign(a, b) == IF a < b THEN -1 ELSE IF a > b THEN 1 ELSE 0
FirstDifference(n, f, g) ==
    LET D == {k \in 1..n : f[k] # g[k]}
    IN IF D = {} THEN 0
       ELSE LET k == CHOOSE i \in D : \A j \in D : i <= j IN Sign(f[k], g[k])
Shorter(m, n) == IF m < n THEN m ELSE n

CompareLengths(m, n) == Sign(m, n)
compare(s1, s2) ==
    LET n == Shorter(Len(s1.chars), Len(s2.chars))
        Bytes(t) == [k \in 1..n |-> ByteAt(t, k)]
        result == IF s1.size = s2.size THEN FirstDifference(n, Bytes(s1), Bytes(s2))
                                       ELSE FirstDifference(n, s1.chars, s2.chars)
    IN IF result # 0 THEN result ELSE CompareLengths(Len(s1.chars), Len(s2.chars))

-----------------------------------------------------------------------------
RefCount(o) == Cardinality({x \in Regs : reg[x] = o})
Fresh == CHOOSE o \in Objects : RefCount(o) = 0
Deref(x) == IF reg[x] = Nil THEN Empty ELSE heap[reg[x]]
Content(x) == Deref(x).chars

Init ==
    /\ reg = [x \in Regs |-> Nil]
    /\ heap = [o \in Objects |-> Empty]
    /\ overflow = FALSE

(* Strings nothing refers to are freed.                                    *)
Collected(h, r) == [o \in Objects |-> IF \E x \in Regs : r[x] = o THEN h[o] ELSE Empty]
Store(x, o, s) ==
    /\ ~overflow
    /\ reg' = [reg EXCEPT ![x] = o]
    /\ IF o = Nil \/ Fits(s)
       THEN /\ heap' = Collected(IF o = Nil THEN heap ELSE [heap EXCEPT ![o] = s], reg')
            /\ UNCHANGED overflow
       ELSE overflow' = TRUE /\ heap' = heap
NewString(x, s) == Len(s.chars) <= MaxLen /\ Store(x, Fresh, s)

(* A string of the module's data, or one the Sys module formats.           *)
Literal(x) == \E s \in UNION {[1..n -> Runes] : n \in 0..MaxLiteral} : NewString(x, FromEncoded(s))

(* movp: another reference to the same string.                             *)
Move(x, y) == reg[y] # Nil /\ ~overflow /\ Store(x, reg[y], heap[reg[y]])

(* The copy that insc changes: the string itself if nothing else refers to *)
(* it, a new string otherwise.                                             *)
FaultShared(o) == FALSE
Shared(o) == RefCount(o) > 1
insc(x, i, c) ==
    /\ i \in 0..Len(Content(x)) /\ i < MaxLen
    /\ IF reg[x] = Nil THEN NewString(x, WithRune(Empty, i, c))
       ELSE IF Shared(reg[x])
       THEN NewString(x, WithRune(Sliced(Deref(x), 0, Len(Content(x))), i, c))
       ELSE Store(x, reg[x], WithRune(Deref(x), i, c))

(* addc x = y + z, and concat_string; in place when x and y are the same   *)
(* register and the string is not shared.                                  *)
addc(x, y, z) ==
    /\ Len(Content(y)) + Len(Content(z)) <= MaxLen
    /\ IF reg[y] = Nil
       THEN NewString(x, IF reg[z] = Nil THEN Empty ELSE Sliced(Deref(z), 0, Len(Content(z))))
       ELSE IF x = y /\ ~Shared(reg[y])
       THEN Store(x, reg[x], IF reg[z] = Nil THEN Deref(x) ELSE Appended(Deref(x), Deref(z)))
       ELSE NewString(x, IF reg[z] = Nil THEN Sliced(Deref(y), 0, Len(Content(y)))
                                         ELSE Combined(Deref(y), Deref(z)))

(* slicec x = x[b:e]; out of range and nil strings raise and change nothing*)
slicec(x, b, e) ==
    IF reg[x] = Nil THEN b = 0 /\ e = 0 /\ Store(x, Nil, Empty)
    ELSE CanSlice(Deref(x), b, e) /\ NewString(x, Sliced(Deref(x), b, e))

(* Conversions, file names and %s ask for the UTF-8 form.                  *)
str(x) == reg[x] # Nil /\ ~overflow /\ Store(x, reg[x], Encoded(Deref(x)))

Next ==
    \E x \in Regs :
        \/ Literal(x)
        \/ \E y \in Regs : Move(x, y)
        \/ \E i \in 0..MaxLen, c \in Runes : insc(x, i, c)
        \/ \E y, z \in Regs : addc(x, y, z)
        \/ \E b, e \in 0..MaxLen : slicec(x, b, e)
        \/ str(x)

Spec == Init /\ [][Next]_vars

-----------------------------------------------------------------------------
(* Every register behaves as if it held a value of its own: no instruction *)
(* on one register shows through another that shares its string, and no    *)
(* change of representation changes the characters.                        *)
Values == INSTANCE StringValues WITH value <- [x \in Regs |-> Content(x)]
ValueSemantics == [][overflow' \/ Values!Next]_<<[x \in Regs |-> Content(x)]>>

(* The cached UTF-8 form is that of the characters the string has now: a   *)
(* string that is its own form is ASCII, any other form was made from these*)
(* characters.                                                             *)
CacheFresh ==
    \A o \in Objects :
        /\ heap[o].enc.kind = "own" => heap[o].enc.text = heap[o].chars
        /\ heap[o].enc.kind = "self" => heap[o].size = 1

(* A string that is its own UTF-8 form has a byte after its last character,*)
(* the null: "assert(_encoded_str[_length] == '\0')".                      *)
Terminated ==
    \A o \in Objects :
        heap[o].enc.kind = "self" => Len(heap[o].chars) < Capacity(heap[o])

(* A string in one byte per character holds ASCII only.                    *)
Narrow == \A o \in Objects : heap[o].size = 1 =>
    \A i \in DOMAIN heap[o].chars : heap[o].chars[i] <= MaxAscii

(* The order of the first character that differs, else the shorter first.  *)
Lexical(s, t) ==
    LET d == FirstDifference(Shorter(Len(s), Len(t)), s, t)
    IN IF d # 0 THEN d ELSE Sign(Len(s), Len(t))

(* Strings of different character sizes, and ASCII strings, compare as     *)
(* their characters do.                                                    *)
ComparesNarrow ==
    \A x, y \in Regs : (Deref(x).size = 1 \/ Deref(y).size = 1) =>
        compare(Deref(x), Deref(y)) = Lexical(Content(x), Content(y))

(* All strings compare as their characters do.                             *)
ComparesAll ==
    \A x, y \in Regs : reg[x] # reg[y] =>
        compare(Deref(x), Deref(y)) = Lexical(Content(x), Content(y))

(* No string is written past the end of its memory.                        *)
NoOverflow == ~overflow
=============================================================================
