---------------------------- MODULE ModuleReader ----------------------------
(***************************************************************************)
(* read_module of src/src/vm/module_reader.cpp: the sections of a module   *)
(* file in order, an item at a time.  What a file holds is the choice of   *)
(* each action; the stream may end before any item.  Memory is the module  *)
(* data and the arrays that data items create, by cell.                    *)
(* Definitions marked "Fault:" are not part of the specification.          *)
(***************************************************************************)
EXTENDS Integers, Sequences, FiniteSets

CONSTANTS
    MaxCount,   \* bound: instructions, types, exports, imports, handlers
    DataSizes,  \* values of data_size, in cells
    Elements,   \* values of element_type: positions of the type section
    Indices,    \* values of array_index
    MaxArrays,  \* bound: array items of the data section
    Depth       \* array_address_stack_size

ReaderAssumption ==
    /\ MaxCount \in Nat /\ MaxArrays \in Nat /\ Depth \in Nat \ {0}
    /\ DataSizes \subseteq Nat /\ Indices \subseteq Int

ElemSize == 2   \* cells of an array element
ArrayLen == 2   \* elements of an array

VARIABLES
    sec,        \* the section that is read, or "done" or "error"
    ended,      \* the stream has ended
    header,     \* header_t
    left,       \* items of the section that are left
    got,        \* items that were stored, by section
    base, stack,\* where data offsets count from; the addresses set_array saved
    arrays,     \* the allocations of array items: where each is stored
    saved       \* ghost: the element every set_array of the stack asked for

vars == <<sec, ended, header, left, got, base, stack, arrays, saved>>

Origin == [obj |-> 0, off |-> 0]    \* the start of the module data
None == [code |-> 0, types |-> 0, links |-> 0, imports |-> 0, handlers |-> 0, mp |-> FALSE]

Init ==
    /\ sec = "header" /\ ended = FALSE
    /\ header = [code |-> 0, data |-> 0, types |-> 0, exports |-> 0, entry |-> -1,
                 import |-> FALSE, handler |-> FALSE]
    /\ left = 0 /\ got = None
    /\ base = Origin /\ stack = <<>> /\ arrays = <<>> /\ saved = <<>>

DataVars == <<base, stack, arrays, saved>>

Error == sec' = "error" /\ UNCHANGED <<ended, header, left, got, base, stack, arrays, saved>>

(* The stream ends here: every later read fails. *)
EndOfStream ==
    /\ ~ended /\ sec \notin {"done", "error"}
    /\ ended' = TRUE
    /\ UNCHANGED <<sec, header, left, got, base, stack, arrays, saved>>

(* Reads whose result is tested. *)
Truncated ==
    /\ ended /\ sec \notin {"done", "error", "handler count"}
    /\ sec \in {"code", "type", "link"} => left > 0
    /\ Error

Reading(s) == sec = s /\ ~ended

-----------------------------------------------------------------------------
(* The magic number may be wrong, the signature short, the module obsolete. *)
BadHeader == Reading("header") /\ Error

read_header ==
    /\ Reading("header")
    /\ \E c, t, x \in 0 .. MaxCount, d \in DataSizes, e \in -1 .. MaxCount, i, h \in BOOLEAN :
        /\ header' = [code |-> c, data |-> d, types |-> t, exports |-> x, entry |-> e,
                      import |-> i, handler |-> h]
        /\ left' = c
    /\ sec' = "code"
    /\ UNCHANGED <<ended, got, base, stack, arrays, saved>>

ReadInstruction ==
    /\ Reading("code") /\ left > 0
    /\ left' = left - 1 /\ got' = [got EXCEPT !.code = @ + 1]
    /\ UNCHANGED <<sec, ended, header, base, stack, arrays, saved>>

(* The test after the loop reads nothing: it runs also when the stream has ended. *)
read_code_section ==
    /\ sec = "code" /\ left = 0
    /\ IF header.entry # -1 /\ header.entry >= header.code THEN Error
       ELSE /\ sec' = "type" /\ left' = header.types
            /\ UNCHANGED <<ended, header, got, base, stack, arrays, saved>>

ReadType ==
    /\ Reading("type") /\ left > 0
    /\ left' = left - 1 /\ got' = [got EXCEPT !.types = @ + 1]
    /\ UNCHANGED <<sec, ended, header, base, stack, arrays, saved>>

(* A type with a map larger than max_type_pointer_count is refused; the    *)
(* size of the first type must be the size of the data.                    *)
BadType ==
    /\ sec = "type"
    /\ IF left > 0 THEN ~ended ELSE header.data > 0
    /\ Error

read_data_section ==
    /\ sec = "type" /\ left = 0
    /\ header.data > 0 => header.types > 0     \* else: BadType
    /\ got' = [got EXCEPT !.mp = header.data > 0]
    /\ sec' = "data"
    /\ UNCHANGED <<ended, header, left, base, stack, arrays, saved>>

-----------------------------------------------------------------------------
(* Data items.  Values of bytes, words, reals, bigs and strings are stored *)
(* at base + offset and change nothing else that is modelled.              *)

BadDatum == Reading("data") /\ Error

(* An array item: element_type is tested, but the test throws only when    *)
(* the last read failed, which it did not.                                 *)
ReadArray(t) ==
    /\ Reading("data") /\ got.mp /\ Len(arrays) < MaxArrays
    /\ arrays' = Append(arrays, [at |-> base, type |-> t])
    /\ UNCHANGED <<sec, ended, header, left, got, base, stack, saved>>

(* Fault: the full stack is not tested. *)
SetArrayUnbounded(a, i) ==
    /\ Reading("data") /\ a <= Len(arrays) /\ Len(stack) < Depth + 1
    /\ IF i < 0 \/ i >= ArrayLen THEN Error
       ELSE /\ stack' = Append(stack, base)
            /\ saved' = Append(saved, [obj |-> a, off |-> i * ElemSize])
            /\ base' = [obj |-> a, off |-> 0]
            /\ UNCHANGED <<sec, ended, header, left, got, arrays>>

(* set_array: the offset of the element is computed with the size of the   *)
(* type descriptor of the array object, which is zero.                     *)
SetArray(a, i) ==
    /\ Reading("data") /\ a <= Len(arrays)
    /\ IF i < 0 \/ i >= ArrayLen \/ Len(stack) >= Depth THEN Error
       ELSE /\ stack' = Append(stack, base)
            /\ saved' = Append(saved, [obj |-> a, off |-> i * ElemSize])
            /\ base' = [obj |-> a, off |-> i * 0]
            /\ UNCHANGED <<sec, ended, header, left, got, arrays>>

RestoreLoadAddress ==
    /\ Reading("data")
    /\ IF stack = <<>> THEN Error
       ELSE /\ base' = stack[Len(stack)]
            /\ stack' = SubSeq(stack, 1, Len(stack) - 1)
            /\ saved' = SubSeq(saved, 1, Len(saved) - 1)
            /\ UNCHANGED <<sec, ended, header, left, got, arrays>>

EndOfData ==
    /\ Reading("data")
    /\ sec' = "name"
    /\ UNCHANGED <<ended, header, left, got, base, stack, arrays, saved>>

-----------------------------------------------------------------------------
read_module_name ==
    /\ Reading("name")
    /\ sec' = "link" /\ left' = header.exports
    /\ UNCHANGED <<ended, header, got, base, stack, arrays, saved>>

ReadExport ==
    /\ Reading("link") /\ left > 0
    /\ left' = left - 1 /\ got' = [got EXCEPT !.links = @ + 1]
    /\ UNCHANGED <<sec, ended, header, base, stack, arrays, saved>>

(* The section after s. *)
After(s) ==
    IF s = "link" /\ header.import THEN "import count"
    ELSE IF s \in {"link", "import"} /\ header.handler THEN "handler count" ELSE "done"

read_link_section ==
    /\ sec = "link" /\ left = 0
    /\ sec' = After("link")
    /\ UNCHANGED <<ended, header, left, got, base, stack, arrays, saved>>

(* The count of imports is tested, that of handlers is not: at the end of  *)
(* the stream it is zero.                                                  *)
read_import_section ==
    /\ Reading("import count")
    /\ \E n \in 0 .. MaxCount : left' = n
    /\ sec' = "import"
    /\ UNCHANGED <<ended, header, got, base, stack, arrays, saved>>

read_handler_section ==
    /\ sec = "handler count"
    /\ IF ended THEN left' = 0 ELSE \E n \in 0 .. MaxCount : left' = n
    /\ sec' = "handler"
    /\ UNCHANGED <<ended, header, got, base, stack, arrays, saved>>

ReadImport ==
    /\ Reading("import") /\ left > 0
    /\ left' = left - 1 /\ got' = [got EXCEPT !.imports = @ + 1]
    /\ UNCHANGED <<sec, ended, header, base, stack, arrays, saved>>

ReadHandler ==
    /\ Reading("handler") /\ left > 0
    /\ left' = left - 1 /\ got' = [got EXCEPT !.handlers = @ + 1]
    /\ UNCHANGED <<sec, ended, header, base, stack, arrays, saved>>

(* A zero byte ends the section; any other is an error. *)
FinalByte(s) ==
    /\ Reading(s) /\ left = 0
    /\ \/ sec' = After(s) /\ UNCHANGED <<ended, header, left, got, base, stack, arrays, saved>>
       \/ Error

read_module ==
    \/ BadHeader \/ read_header
    \/ ReadInstruction \/ read_code_section
    \/ ReadType \/ BadType \/ read_data_section
    \/ BadDatum \/ EndOfData \/ RestoreLoadAddress
    \/ \E t \in Elements : ReadArray(t)
    \/ \E a \in 1 .. MaxArrays, i \in Indices : SetArray(a, i)
    \/ read_module_name \/ ReadExport \/ read_link_section
    \/ read_import_section \/ ReadImport \/ read_handler_section \/ ReadHandler
    \/ \E s \in {"import", "handler"} : FinalByte(s)

Next == EndOfStream \/ Truncated \/ read_module

Spec == Init /\ [][Next]_vars /\ WF_vars(read_module \/ Truncated)

-----------------------------------------------------------------------------
(* Properties *)

(* A module is returned only when every section its header announces was   *)
(* read to the end before the stream ended.                                *)
CompleteModule ==
    sec = "done" =>
        /\ got.code = header.code /\ got.types = header.types /\ got.links = header.exports
        /\ header.import \/ header.handler => ~ended
        /\ got.mp <=> header.data > 0

(* A returned module starts at one of its instructions or has no entry. *)
EntryInCode == sec = "done" => header.entry = -1 \/ header.entry < got.code

(* The address stack never exceeds its array and a restore returns to the  *)
(* array the enclosing item selected.                                      *)
AddressStackSound ==
    /\ Len(stack) <= Depth
    /\ Len(stack) = Len(saved)
    /\ \A k \in 1 .. Len(stack) : stack[k].obj = IF k = 1 THEN 0 ELSE saved[k - 1].obj

(* set_array moves the base to the element it names, which its index test  *)
(* "array_index < 0 || arr->get_length() <= array_index" is about.         *)
BaseAtElement == saved # <<>> => base = saved[Len(saved)]

(* "Invalid array element type": an array of a type outside the type       *)
(* section is refused.                                                     *)
ElementTypeValid == \A k \in 1 .. Len(arrays) : arrays[k].type < header.types

(* Reading ends: a module or an exception, whatever the file holds. *)
ReaderEnds == [](ended => <>(sec \in {"done", "error"}))

-----------------------------------------------------------------------------
(* The inductive invariant behind CompleteModule, EntryInCode and          *)
(* AddressStackSound. *)

(* The sections after the links, after the types and after the code. *)
LinksRead == {"import count", "import", "handler count", "handler", "done"}
TypesRead == {"data", "name", "link"} \cup LinksRead
CodeRead == {"type"} \cup TypesRead

Addresses == [obj : Nat, off : Int]

TypeOK ==
    /\ sec \in {"header", "code", "error"} \cup CodeRead
    /\ ended \in BOOLEAN
    /\ header \in [code : Nat, data : Nat, types : Nat, exports : Nat, entry : Int,
                   import : BOOLEAN, handler : BOOLEAN]
    /\ left \in Nat
    /\ got \in [code : Nat, types : Nat, links : Nat, imports : Nat, handlers : Nat, mp : BOOLEAN]
    /\ base \in Addresses /\ stack \in Seq(Addresses) /\ saved \in Seq(Addresses)

(* What was read of a section and what is left make up what the header     *)
(* announces; a later section has read nothing yet.                        *)
CountInv ==
    /\ sec = "header" => got = None
    /\ sec = "code" => got.code + left = header.code /\ got.types = 0 /\ got.links = 0
    /\ sec \in CodeRead => /\ got.code = header.code
                           /\ header.entry = -1 \/ header.entry < header.code
    /\ sec = "type" => got.types + left = header.types /\ got.links = 0
    /\ sec \in TypesRead => got.types = header.types /\ (got.mp <=> header.data > 0)
    /\ sec \in {"data", "name"} => got.links = 0
    /\ sec = "link" => got.links + left = header.exports
    /\ sec \in LinksRead => got.links = header.exports

(* An optional section is read only if announced, and its last byte before *)
(* the end of the stream.                                                  *)
EndInv == sec = "done" /\ (header.import \/ header.handler) => ~ended

(* The base is where the innermost set_array put it. *)
BaseInv == base.obj = IF saved = <<>> THEN 0 ELSE saved[Len(saved)].obj

ReaderInv == TypeOK /\ CountInv /\ EndInv /\ AddressStackSound /\ BaseInv
=============================================================================
