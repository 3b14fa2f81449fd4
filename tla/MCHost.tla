------------------------------- MODULE MCHost -------------------------------
(***************************************************************************)
(* ToolDispatch, Debugger and ModuleReader for TLC: what the VM offers its *)
(* tools.  A behaviour moves one of them, `part', and leaves the others    *)
(* where they begin: ToolDispatch is the dispatcher as every tool sees it, *)
(* Debugger one such tool over a dispatcher that behaves, ModuleReader     *)
(* what reads a module for either.                                         *)
(***************************************************************************)
EXTENDS ToolDispatch, Sequences

(* A command of the debugger.                                              *)
Cmd(op, x) == [op |-> op, arg |-> x]

CONSTANTS w1, w2, t1, t2,
          \* the debugger: what it is started with, the entry of the program, and bounds
          Options, Entry, MaxIds, MaxCmds,
          \* files of the reader
          MaxCount, DataSizes, Elements, Indices, MaxArrays, Depth

VARIABLES part, options,
          mode, cur, pos, stage, event, flag, bp, next, mine, opt, saved, last, sel,
          held, loaded, enter, typed, asked, ends, cmdCount,
          sec, ended, header, left, got, base, stack, arrays, chosen
debuggerVars == <<mode, cur, pos, stage, event, flag, bp, next, mine, opt, saved, last,
                  sel, held, loaded, enter, typed, asked, ends, cmdCount>>
readerVars == <<sec, ended, header, left, got, base, stack, arrays, chosen>>

(* ToolDispatch itself: a tool that makes every call, on the only worker.  *)
(* And a tool that sets breakpoints on one worker while another executes.  *)
AllCalls == [w \in Actors |-> CallNames]
Setter == INSTANCE ToolDispatch WITH
    Workers <- {w1, w2}, Outside <- {},
    Calls <- [w \in {w1, w2} |-> IF w = w2 THEN {"set", "events"} ELSE {}]

(* The debugger under each of its options: threads of the program, the     *)
(* automatic commands, where it breaks, and whether it is unloaded.        *)
(* Two threads with one automatic command; one thread with every option.   *)
Debug(o) == INSTANCE Debugger WITH
    Threads <- o.threads, AutoCmds <- o.auto, BreakOnEnter <- o.enter, BreakOnLoad <- o.load,
    BreakOnException <- o.exception, MayUnload <- o.unload,
    MaxCookie <- MaxIds, None <- Nil, at <- pos, trap <- flag
TwoOptions ==
    {[threads |-> {t1, t2}, auto |-> {Cmd("bc*", Nil)},
      enter |-> TRUE, load |-> FALSE, exception |-> FALSE, unload |-> FALSE],
     [threads |-> {t1}, auto |-> {Cmd("show", Nil), Cmd("bc*", Nil), Cmd("c", Nil)},
      enter |-> TRUE, load |-> TRUE, exception |-> TRUE, unload |-> TRUE]}

(* Files of up to MaxCount items per section; a data section with arrays   *)
(* and indices before, in and after them.                                  *)
Reader == INSTANCE ModuleReader WITH saved <- chosen
ItemIndices == {-1, 0, 2}

ASSUME HostAssumption ==
    /\ ToolAssumption /\ Setter!ToolAssumption
    /\ Options # {} /\ \A o \in Options : Debug(o)!DebuggerAssumption
    /\ Reader!ReaderAssumption

HostInit ==
    /\ part \in {"alone", "setter", "debug", "reader"}
    /\ IF part = "setter" THEN Setter!Init ELSE Init
    /\ part \notin {"alone", "setter"} => at[w1] = 1
    /\ \E o \in IF part = "debug" THEN Options ELSE {CHOOSE o \in Options : TRUE} :
            options = o /\ Debug(o)!Init
    /\ Reader!Init

DispatcherMoves ==
    /\ (part = "alone" /\ Next) \/ (part = "setter" /\ Setter!Next)
    /\ UNCHANGED <<part, options, debuggerVars, readerVars>>
DebuggerMoves ==
    /\ part = "debug" /\ \E o \in Options : options = o /\ Debug(o)!Next
    /\ UNCHANGED <<part, options, vars, readerVars>>
ReaderMoves ==
    /\ part = "reader" /\ Reader!Next
    /\ UNCHANGED <<part, options, vars, debuggerVars>>
HostNext == DispatcherMoves \/ DebuggerMoves \/ ReaderMoves
HostSpec == HostInit /\ [][HostNext]_<<part, options, vars, debuggerVars, readerVars>>

-----------------------------------------------------------------------------
(* The debugger's cookies are the dispatcher's, an empty line repeats what *)
(* the user typed, threads are held exactly while the user is prompted, a  *)
(* step is one instruction, whatever other threads do, and no command ends *)
(* the VM by accident (debugger.cpp).                                      *)
DebuggerObeys ==
    \A o \in Options : options = o =>
        /\ Debug(o)!CookiesAgree /\ Debug(o)!RepeatsUserCommand /\ Debug(o)!HeldAtPrompt
        /\ Debug(o)!StepIsOne /\ Debug(o)!EndsOnRequest

(* Whatever the file holds and wherever it ends, a module that is returned *)
(* is complete, starts in its code, and its data was placed with a stack   *)
(* of addresses that stays in its array (module_reader.cpp).               *)
ReaderSound == Reader!CompleteModule /\ Reader!EntryInCode /\ Reader!AddressStackSound
=============================================================================
