------------------------------- MODULE MCSys -------------------------------
(***************************************************************************)
(* FdTable, FileIO and Printing for TLC: the built-in module Sys.  A       *)
(* behaviour moves one of them, `part', and leaves the others where they   *)
(* begin: the table knows numbers and references, FileIO what a descriptor *)
(* does with its file, Printing the text on its way to one.                *)
(***************************************************************************)
EXTENDS FdTable, TLC

CONSTANTS t1, t2, a1, a2, a3, f1,
          \* constants of FileIO: descriptors, modes and calls of the program
          Fds, Modes, FileCalls, Inputs, Outputs, Source,
          \* and its bounds
          BufSize, MaxPaths, MaxBytes, MaxInodes, MaxFaults

VARIABLES part,
          map2, available2, refs2, created2, adt2, at2, fault2,
          dir, data, made, stream, call, lock, fresh, faults, seen,
          printing, errmsg, errors
secondVars == <<map2, available2, refs2, created2, adt2, at2, fault2>>
fileVars == <<dir, data, made, stream, call, lock, fresh, faults, seen>>
printVars == <<printing, errmsg, errors>>

(* FdTable itself: no call gives up a file.  On a second table one thread  *)
(* replaces records; or two threads give files up and take their numbers   *)
(* again.  Where neither moves, the second table rests.                    *)
Rest == INSTANCE FdTable WITH
    fdMap <- map2, available <- available2, refs <- refs2, created <- created2, adt <- adt2,
    at <- at2, fault <- fault2
Dup == INSTANCE FdTable WITH
    Threads <- {t1}, Adts <- {a1, a2}, MaxFiles <- 4, MaxNumbers <- 4, MaxRefs <- 3,
    Calls <- {"open", "fildes", "dup", "dup2", "print", "use"},
    fdMap <- map2, available <- available2, refs <- refs2, created <- created2, adt <- adt2,
    at <- at2, fault <- fault2
Collect == INSTANCE FdTable WITH
    Threads <- {t1, t2}, Adts <- {a1, a2}, MaxFiles <- 5, MaxNumbers <- 4, MaxRefs <- 2,
    Calls <- {"open", "fildes", "dup", "collect", "use"},
    fdMap <- map2, available <- available2, refs <- refs2, created <- created2, adt <- adt2,
    at <- at2, fault <- fault2

(* One path, every combination of modes that behaves differently.          *)
NoOutputs == <<>>
Streams == INSTANCE FileIO WITH Calls <- FileCalls, fd <- stream

(* A first buffer of four bytes, so that a text fits, just does not, or    *)
(* needs two tries more.                                                   *)
Item(k, n) == [kind |-> k, len |-> n]
Lines ==
    {<<d, e, Item("char", 1)>> : d \in {Item("verb", 3), Item("verb", 9), Item("error", 0)},
                                 e \in {Item("char", 2), Item("nothing", 0), Item("error", 0)}}
    \cup {<<>>}
Prints == INSTANCE Printing WITH
    Threads <- {t1, t2}, Formats <- Lines, MsgLens <- {1, 5}, StaticSize <- 4, ErrSize <- 4,
    MaxSize <- 16, MaxErrors <- 2, call <- printing

ASSUME SysAssumption ==
    /\ FdAssumption /\ Dup!FdAssumption /\ Collect!FdAssumption
    /\ Streams!FileAssumption /\ Prints!PrintAssumption

Interchangeable == Permutations({t1, t2}) \cup Permutations({a1, a2, a3})

SysInit ==
    /\ part \in {"kept", "dup", "collect", "files", "print"}
    /\ IF part = "dup" THEN Dup!Init ELSE IF part = "collect" THEN Collect!Init ELSE Rest!Init
    /\ Init /\ Streams!Init /\ Prints!Init

TableMoves == part = "kept" /\ Next /\ UNCHANGED <<part, secondVars, fileVars, printVars>>
SecondMoves ==
    /\ (part = "dup" /\ Dup!Next) \/ (part = "collect" /\ Collect!Next)
    /\ UNCHANGED <<part, vars, fileVars, printVars>>
FilesMove == part = "files" /\ Streams!Next /\ UNCHANGED <<part, vars, secondVars, printVars>>
PrintMoves == part = "print" /\ Prints!Next /\ UNCHANGED <<part, vars, secondVars, fileVars>>
SysNext == TableMoves \/ SecondMoves \/ FilesMove \/ PrintMoves
SysSpec == SysInit /\ [][SysNext]_<<part, vars, secondVars, fileVars, printVars>>

-----------------------------------------------------------------------------
(* The empty entries are those that can be used again, also while threads *)
(* give files up and take their numbers again; and one thread that         *)
(* replaces records with dup never reaches a file that was freed, through  *)
(* the table or an FD value (fd_manager.cpp, Sysmod.cpp Sys_dup).          *)
SecondTableSound ==
    /\ Collect!EmptyReusable
    /\ part = "dup" => Dup!FilesCounted

(* A stream can do what the mode of its descriptor allows, and after a     *)
(* failure no call on the descriptor succeeds again but a seek             *)
(* (mode_for_fopen, vm_fd.cpp).                                            *)
StreamsObey == []Streams!Permits /\ Streams!ErrorStays

(* A call prints the text of every item in order, in a buffer of its own   *)
(* that it does not overrun, in as many tries as it takes; the message     *)
(* that one thread took with %r is not printed by another (print.cpp).     *)
PrintsWhole == Prints!WholeOutput /\ Prints!InBuffer /\ Prints!ErrorOnce
=============================================================================
