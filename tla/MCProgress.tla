----------------------------- MODULE MCProgress -----------------------------
(***************************************************************************)
(* What must come to an end, for TLC: ToolAttach, ToolDispatch,            *)
(* ModuleReader, FileIO, Printing and Arithmetic with the fairness of      *)
(* their code.  A behaviour moves one of them, `part', and leaves the      *)
(* others where they begin.                                                *)
(***************************************************************************)
EXTENDS ToolAttach, Sequences, TLC

CONSTANTS t1, t2, t3, f1, f2, f3

VARIABLES part,
          code, original, details, cookies, subs, suspended, count,
          suspendLock, resumeLock, trap, pc, at, opcode, toCall, arg, calls,
          sec, ended, header, left, got, base, stack, arrays, saved,
          dir, data, made, fd, call, pathLock, fresh, faults, seen,
          printing, errmsg, errors,
          op, src, mid, scale, residual, table, instr, factor, power, result, entry, dest
dispatchVars == <<code, original, details, cookies, subs, suspended, count,
                  suspendLock, resumeLock, trap, pc, at, opcode, toCall, arg, calls>>
readerVars == <<sec, ended, header, left, got, base, stack, arrays, saved>>
fileVars == <<dir, data, made, fd, call, pathLock, fresh, faults, seen>>
printVars == <<printing, errmsg, errors>>
arithVars == <<op, src, mid, scale, residual, table, instr, factor, power, result, entry, dest>>
toolVars == <<dispatchVars, vars>>
sysVars == <<fileVars, printVars>>

(* A thread of the host suspends and resumes the only worker.              *)
Dispatch == INSTANCE ToolDispatch WITH
    Workers <- {t1}, Outside <- {Main}, PCs <- {1, 2}, MaxCookie <- 3, MaxSubs <- 2, MaxCalls <- 4,
    Nil <- Nobody,
    Calls <- [w \in {t1, Main} |-> {"suspend"}]

(* ToolAttach itself: a tool is loaded and unloaded once while threads run *)
(* and load modules.  And tools are loaded after the first one while       *)
(* threads fork and load modules.                                          *)
Forks == INSTANCE ToolAttach WITH
    Initial <- {t1}, Forkers <- {t1, t2}, Preloaded <- TRUE, MaxLoads <- 2, MaxUnloads <- 0,
    NewPaths <- 1

Reader == INSTANCE ModuleReader WITH
    MaxCount <- 1, DataSizes <- {0, 4}, Elements <- {0}, Indices <- {0, 2}, MaxArrays <- 1, Depth <- 1

(* Two threads read one file and copy it to two others; one write fails.   *)
Copy == INSTANCE FileIO WITH
    Threads <- {t1, t2}, MaxPaths <- 3, Fds <- {f1, f2, f3}, Modes <- {{}, {"OWRITE"}},
    Calls <- {"stream", "read"}, Inputs <- {f1}, Outputs <- f2 :> 2 @@ f3 :> 3,
    Source <- 3, BufSize <- 2, MaxBytes <- 6, MaxInodes <- 3, MaxFaults <- 1, lock <- pathLock

(* A text that needs two tries, one whose message a second try lacks, and  *)
(* one with a directive that is refused.                                   *)
Item(k, n) == [kind |-> k, len |-> n]
Prints == INSTANCE Printing WITH
    Threads <- {t1, t2}, MsgLens <- {1}, StaticSize <- 4, ErrSize <- 4, MaxErrors <- 1, call <- printing,
    MaxSize <- 16,
    Formats <- {<<Item("verb", 9), Item("char", 1)>>, <<Item("error", 0), Item("verb", 3)>>,
                <<Item("char", 1), Item("refused", 0)>>}

Arith == INSTANCE Arithmetic WITH
    W <- 4, Powers <- (-7)..7, Scales <- {0}, Residuals <- {1}, Ops <- {"expw"}, Tables <- {<<>>},
    pc <- instr, base <- factor

ASSUME ProgressAssumption ==
    /\ Dispatch!ToolAssumption /\ AttachAssumption /\ Forks!AttachAssumption
    /\ Reader!ReaderAssumption
    /\ Copy!FileAssumption /\ Prints!PrintAssumption /\ Arith!ArithAssumption

ProgressInit ==
    /\ part \in {"dispatch", "quiet", "forks", "reader", "copy", "print", "arithmetic"}
    /\ Dispatch!Init /\ (part # "dispatch" => at[t1] = 1)
    /\ IF part = "forks" THEN Forks!Init ELSE Init
    /\ Reader!Init /\ Copy!Init /\ Prints!Init /\ Arith!Init

(* What stays while a part moves. *)
OnlyDispatch == part = "dispatch" /\ UNCHANGED <<part, vars, readerVars, sysVars, arithVars>>
OnlyAttach == part \in {"quiet", "forks"} /\ UNCHANGED <<part, dispatchVars, readerVars, sysVars, arithVars>>
OnlyReader == part = "reader" /\ UNCHANGED <<part, toolVars, sysVars, arithVars>>
OnlyCopy == part = "copy" /\ UNCHANGED <<part, toolVars, readerVars, printVars, arithVars>>
OnlyPrint == part = "print" /\ UNCHANGED <<part, toolVars, readerVars, fileVars, arithVars>>
OnlyArith == part = "arithmetic" /\ UNCHANGED <<part, toolVars, readerVars, sysVars>>

ProgressNext ==
    \/ OnlyDispatch /\ Dispatch!Next
    \/ OnlyAttach /\ IF part = "quiet" THEN Next ELSE Forks!Next
    \/ OnlyReader /\ Reader!Next
    \/ OnlyCopy /\ Copy!Next
    \/ OnlyPrint /\ Prints!Next
    \/ OnlyArith /\ Arith!Next
progressVars == <<part, toolVars, readerVars, sysVars, arithVars>>

(* The fairness that the modules state, gathered by thread: a thread goes  *)
(* on with the call it is in (the third one only forks), and so does the   *)
(* thread of the host.                                                     *)
ThreadGoesOn(t) ==
    \/ OnlyAttach /\ IF part = "quiet" THEN ThreadStep(t) ELSE Forks!ThreadStep(t)
    \/ OnlyCopy /\ t # t3 /\ Copy!StreamStep(t)
    \/ OnlyPrint /\ t # t3 /\ Prints!Step(t)
HostGoesOn ==
    \/ OnlyDispatch /\ Dispatch!SuspendReturn(Main)
    \/ OnlyAttach /\ (Register \/ Scan)
    \/ OnlyReader /\ (Reader!read_module \/ Reader!Truncated)
    \/ OnlyArith /\ Arith!Step
(* A mutex that is free again and again is granted to the worker, and the  *)
(* polling of one succeeds some time (strongly fair, as is the thread,     *)
(* which may wait for _tool_dispatch_lock).                                *)
Granted ==
    \/ OnlyDispatch /\ Dispatch!Step(t1)
    \/ OnlyAttach /\ Retry /\ toSet' # toSet
ProgressSpec ==
    /\ ProgressInit /\ [][ProgressNext]_progressVars
    /\ SF_progressVars(ThreadGoesOn(t1)) /\ SF_progressVars(ThreadGoesOn(t2))
    /\ SF_progressVars(ThreadGoesOn(t3))
    /\ WF_progressVars(HostGoesOn) /\ SF_progressVars(Granted)

-----------------------------------------------------------------------------
(* A suspension completes, and a worker that waits for its end goes on and *)
(* is no longer counted; load_tool and unload_tool return while threads    *)
(* run, and a thread that loads a module or forks goes on, except that the *)
(* two may wait for each other (tool_dispatch.cpp suspend_all_threads,     *)
(* resume_all_threads; vm.cpp load_tool, unload_tool, load_module;         *)
(* scheduler.cpp set_tool_dispatch_on_all_threads).                        *)
ToolsProgress ==
    /\ Dispatch!SuspendReturns /\ Dispatch!ResumedRuns
    /\ LoadProgress /\ LockProgress

(* A copy, a printing call, the reading of a module, whatever its file     *)
(* holds, and the loop of an exponentiation end (Sysmod.cpp Sys_stream,    *)
(* print.cpp, module_reader.cpp, execution_table.cpp expw).                *)
CallsReturn ==
    /\ Copy!StreamEnds /\ Prints!Prints /\ Reader!ReaderEnds
    /\ part = "arithmetic" => Arith!InstructionEnds

(* Threads that read and copy from one descriptor take every byte of the   *)
(* file exactly once, and return counts of bytes that were delivered       *)
(* (Sysmod.cpp Sys_stream, Sys_read).                                      *)
BytesConserved == Copy!Conserved /\ Copy!CountTrue
=============================================================================
