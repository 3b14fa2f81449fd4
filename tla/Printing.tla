------------------------------ MODULE Printing ------------------------------
(***************************************************************************)
(* Formatted printing (sys/print.cpp), the calls of the Sys module built   *)
(* on it (print, fprint, sprint, aprint) and the last error message of the *)
(* vm, which %r takes (vm.cpp).                                            *)
(*                                                                         *)
(* A format is a sequence of items: characters, and directives with the    *)
(* number of bytes their argument gives.  A byte of output is named by the *)
(* item it comes from and its place there, a byte of a message by the      *)
(* message; Null is the terminating null.  Cells past the end of a buffer  *)
(* belong to something else: `spilled' says that one was written.          *)
(***************************************************************************)
EXTENDS Integers, Sequences

CONSTANTS Threads,    \* vm threads that print
          Formats,    \* the formats they use
          MsgLens,    \* lengths of the error messages
          StaticSize, \* size of the first buffer
          ErrSize,    \* size of _last_syscall_error_message
          MaxSize,    \* the largest buffer that can be allocated
          MaxErrors   \* bound: error messages ever stored

PrintAssumption ==
    /\ StaticSize \in Nat \ {0} /\ ErrSize \in Nat \ {0}
    /\ MaxSize \in Nat /\ MaxSize >= StaticSize

VARIABLES
    call,   \* the printing call of each thread
    errmsg, \* _last_syscall_error_message
    errors  \* messages stored so far
vars == <<call, errmsg, errors>>

Null == <<0, 0>>
AtMost(n, s) == SubSeq(s, 1, IF Len(s) < n THEN Len(s) ELSE n)
Bytes(id, n) == [k \in 1..n |-> <<id, k>>]
NoCall == [step |-> "idle", fmt |-> <<>>, array |-> FALSE, i |-> 1, curr |-> 0, buf |-> <<>>,
           err |-> <<>>, \* the message each %r took in this try
           taken |-> <<>>, \* all that this call took
           spilled |-> FALSE, out |-> <<>>]
Size(t) == Len(call[t].buf)
End(t) == Size(t) - 1      \* b_end
Item(t) == call[t].fmt[call[t].i]
AtEnd(t) == call[t].i > Len(call[t].fmt)
FaultRoom(t) == call[t].curr <= End(t)
Room(t) == call[t].curr < End(t)
Running == \A t \in Threads : call[t].step # "exhausted"

Init ==
    /\ call = [t \in Threads |-> NoCall]
    /\ errmsg = <<>>
    /\ errors = 0

(* push_syscall_error_message: by werrstr or a system call that failed.    *)
Stored(msg) == AtMost(ErrSize - 1, msg)
push_syscall_error_message(t, n) ==
    /\ call[t].step = "idle" /\ errors < MaxErrors
    /\ errors' = errors + 1
    /\ errmsg' = Stored(Bytes(-errors', n))
    /\ UNCHANGED call

(***************************************************************************)
(* A call begins: the buffer is zeroed.  aprint keeps its first buffer and *)
(* makes it larger; the others have one on the stack and then a new one.   *)
(***************************************************************************)
NoErrors(fmt) == [i \in 1..Len(fmt) |-> <<>>]
Zeroed(n) == [k \in 1..n |-> Null]
Begin(t, fmt, array) ==
    /\ call[t].step = "idle"
    /\ call' = [call EXCEPT ![t] = [NoCall EXCEPT !.step = "format", !.fmt = fmt,
                                    !.array = array, !.buf = Zeroed(StaticSize),
                                    !.err = NoErrors(fmt)]]
    /\ UNCHANGED <<errmsg, errors>>

(* The bytes of text at offset `from' of a buffer; what falls outside it   *)
(* is not kept.                                                            *)
Put(buf, from, text) ==
    [k \in 1..Len(buf) |-> IF k - from \in 1..Len(text) THEN text[k - from] ELSE buf[k]]

(* A character: encoded in place; only b_curr >= b_end was tested.         *)
Char(t) ==
    LET c == call[t] IN
    /\ c.step = "format" /\ ~AtEnd(t) /\ Room(t) /\ Item(t).kind = "char"
    /\ call' = [call EXCEPT ![t] =
           [c EXCEPT !.i = @ + 1,
                     !.curr = @ + Item(t).len,
                     !.buf = Put(@, c.curr, Bytes(c.i, Item(t).len)),
                     !.spilled = @ \/ c.curr + Item(t).len > Size(t)]]
    /\ UNCHANGED <<errmsg, errors>>

(* snprintf: at most the room less one byte, then a null; the result is    *)
(* the length it would have had.                                           *)
Snprintf(t, text) ==
    LET kept == AtMost(End(t) - call[t].curr - 1, text)
    IN [call[t] EXCEPT !.i = @ + 1,
                       !.curr = @ + Len(text),
                       !.buf = Put(@, call[t].curr, Append(kept, Null))]

(* A directive: "%%" gives two bytes; a null string and a directive that   *)
(* the end of the format cuts off give none and write nothing.             *)
TextLen(item) == IF item.kind = "percent" THEN 2 ELSE item.len
Directive(t) ==
    /\ call[t].step = "format" /\ ~AtEnd(t) /\ Room(t)
    /\ Item(t).kind \in {"verb", "percent", "nothing"}
    /\ call' = [call EXCEPT ![t] =
           IF Item(t).kind = "nothing" THEN [call[t] EXCEPT !.i = @ + 1]
           ELSE Snprintf(t, Bytes(call[t].i, TextLen(Item(t))))]
    /\ UNCHANGED <<errmsg, errors>>

(* %r: pop_syscall_error_message takes the message and empties it.         *)
Popped(msg) == <<>>
PopError(t) ==
    /\ call[t].step = "format" /\ ~AtEnd(t) /\ Room(t) /\ Item(t).kind = "error"
    /\ call' = [call EXCEPT ![t] =
           [Snprintf(t, errmsg) EXCEPT !.err[call[t].i] = errmsg, !.taken = @ \o errmsg]]
    /\ errmsg' = Popped(errmsg)
    /\ UNCHANGED errors

(***************************************************************************)
(* -1: the buffer is full and the format goes on, or a directive is        *)
(* refused: snprintf gives a negative result for a field wider than an int *)
(* or for "%lc" with a number that is no character, whatever room there is.*)
(* Either way the format is tried again from its beginning with twice the  *)
(* size.  The buffer on the stack is replaced; a dynamic one is resized    *)
(* and keeps its bytes.                                                    *)
(***************************************************************************)
Refused(t) == Item(t).kind = "refused"
Failed(t) == call[t].step = "format" /\ ~AtEnd(t) /\ (~Room(t) \/ Refused(t))
FaultLarger(t) == call[t].buf
Larger(t) ==
    IF call[t].array THEN call[t].buf \o Zeroed(Size(t)) ELSE Zeroed(2 * Size(t))
Retry(t) ==
    /\ Failed(t) /\ 2 * Size(t) <= MaxSize
    /\ call' = [call EXCEPT ![t] =
           [@ EXCEPT !.i = 1, !.curr = 0, !.err = NoErrors(@), !.array = TRUE, !.buf = Larger(t)]]
    /\ UNCHANGED <<errmsg, errors>>

(* The allocation throws what no caller up to the worker's loop catches:   *)
(* the process ends.                                                       *)
Exhausted(t) ==
    /\ Failed(t) /\ 2 * Size(t) > MaxSize
    /\ call' = [call EXCEPT ![t].step = "exhausted"]
    /\ UNCHANGED <<errmsg, errors>>

(* The end of the format: as many bytes of the buffer as were counted are  *)
(* written, or become the string or the array.  Bytes outside are Null.    *)
Written(t) == [k \in 1..call[t].curr |-> IF k <= Size(t) THEN call[t].buf[k] ELSE Null]
Return(t) ==
    /\ call[t].step = "format" /\ AtEnd(t)
    /\ call' = [call EXCEPT ![t] = [@ EXCEPT !.step = "done", !.out = Written(t)]]
    /\ UNCHANGED <<errmsg, errors>>

Step(t) ==
    /\ Running
    /\ \/ Char(t) \/ Directive(t) \/ PopError(t)
       \/ Retry(t) \/ Exhausted(t) \/ Return(t)
Next ==
    /\ Running
    /\ \E t \in Threads :
        \/ \E fmt \in Formats, array \in BOOLEAN : Begin(t, fmt, array)
        \/ \E n \in MsgLens : push_syscall_error_message(t, n)
        \/ Step(t)
Spec == Init /\ [][Next]_vars
FairSpec == Spec /\ \A t \in Threads : WF_vars(Step(t))

-----------------------------------------------------------------------------
Done(t) == call[t].step = "done"
ItemText(t, i) ==
    CASE call[t].fmt[i].kind \in {"char", "verb"} -> Bytes(i, call[t].fmt[i].len)
      [] call[t].fmt[i].kind = "percent" -> Bytes(i, 1)
      [] call[t].fmt[i].kind = "nothing" -> <<>>
      [] OTHER -> call[t].err[i]
Expected(t) ==
    LET upTo[i \in 0..Len(call[t].fmt)] ==
            IF i = 0 THEN <<>> ELSE upTo[i - 1] \o ItemText(t, i)
    IN upTo[Len(call[t].fmt)]

(* What is printed is the text of every item in order, none cut off, none  *)
(* twice and no null between, whatever the size of the buffer and however  *)
(* many tries it takes.                                                    *)
WholeOutput == \A t \in Threads : Done(t) => call[t].out = Expected(t)

(* No try writes outside its buffer, and there is a null after the text,   *)
(* in the buffer, unless a message that was lost left bytes of an earlier  *)
(* try behind.                                                             *)
InBuffer ==
    \A t \in Threads :
        /\ ~call[t].spilled
        /\ Done(t) => /\ call[t].curr < Size(t)
                      /\ call[t].taken = <<>> => call[t].buf[call[t].curr + 1] = Null

(* The message that one thread took with %r is not printed by another, and *)
(* what is stored ends before the last byte of its array.                  *)
ErrorOnce ==
    /\ Len(errmsg) < ErrSize
    /\ \A t \in Threads : \A k \in 1..Len(call[t].taken) :
           /\ \A j \in 1..Len(errmsg) : errmsg[j] # call[t].taken[k]
           /\ \A u \in Threads \ {t} : \A j \in 1..Len(call[u].taken) :
                  call[u].taken[j] # call[t].taken[k]

(* A call comes to its end, however small the first buffer is, where its   *)
(* text fits the largest one, unless a refused directive ended the process *)
(* first: a call with such a directive tries buffers of every size until   *)
(* there is no memory (printf_to_dynamic_buffer).                          *)
Formatting(t) == call[t].step = "format"
Refuses(t) == \E i \in 1..Len(call[t].fmt) : call[t].fmt[i].kind = "refused"
Ended == \E t \in Threads : call[t].step = "exhausted" /\ Refuses(t)
Prints == \A t \in Threads : Formatting(t) ~> (Done(t) /\ ~Refuses(t)) \/ Ended

(* "Prints the format and arguments to the supplied dynamic buffer."       *)
EveryFormatPrints == \A t \in Threads : Formatting(t) ~> Done(t)

(* "The buffer should be null-terminated", at the end of the format.       *)
NullTerminated ==
    \A t \in Threads : Done(t) => call[t].curr < Size(t) /\ call[t].buf[call[t].curr + 1] = Null

(* "Last system error message": %r prints the message it takes.            *)
ErrorPrinted ==
    \A t \in Threads : Done(t) => \A k \in 1..Len(call[t].taken) :
        \E j \in 1..Len(call[t].out) : call[t].out[j] = call[t].taken[k]

(* "Escaped specifier": "%%" stands for one character.                     *)
PercentOnce ==
    \A t \in Threads : Done(t) => \A j, k \in 1..Len(call[t].out) :
        LET item == call[t].out[j][1] IN
        j # k /\ item > 0 /\ call[t].fmt[item].kind = "percent" => call[t].out[k][1] # item
=============================================================================
