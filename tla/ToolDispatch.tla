---------------------------- MODULE ToolDispatch ----------------------------
(***************************************************************************)
(* The tool dispatcher and the workers that call it: event subscriptions,  *)
(* breakpoints, traps, suspension of all threads (src/src/vm/              *)
(* tool_dispatch.cpp, and the interpreter loop of thread.cpp with a tool   *)
(* attached).                                                              *)
(*                                                                         *)
(* A worker is identified with the VM thread it executes.  Between two     *)
(* events a tool's callback makes calls of the controller interface, each  *)
(* one an action; Calls[w] limits which of them the tools make on w.       *)
(* All instructions of the program are the opcode "real".  A thread of the *)
(* embedding program that was handed the controller (on_load) is a thread  *)
(* that is always inside a callback.                                       *)
(*                                                                         *)
(* Definitions marked "Fault:" are not part of the specification.          *)
(***************************************************************************)
EXTENDS Integers, FiniteSets

CONSTANTS
    Workers,
    Outside,    \* threads of the embedding program that use the controller
    PCs,        \* positions of the code section
    Calls,      \* Calls[w] \subseteq CallNames
    MaxCookie,  \* bound: breakpoint cookies given out
    MaxSubs,    \* bound: callbacks of one event
    MaxCalls,   \* bound: calls of the controller
    Nil

VARIABLES
    code,       \* opcode at each position of code_section
    original,   \* _breakpoints.original_opcodes
    details,    \* _breakpoints.cookie_to_details
    cookies,    \* _breakpoints.cookie_counter - 1
    subs,       \* number of callbacks subscribed to each event
    suspended,  \* _threads_suspended
    count,      \* _threads_suspended_count
    suspendLock, resumeLock, \* holder of the two mutexes, or Nil
    trap,       \* trap_flags of each thread
    pc,         \* control point of each worker
    at,         \* register pc of each thread
    opcode,     \* opcode the worker is about to execute
    toCall,     \* callbacks of the event that are still to be called
    arg,        \* position and opcode read by set_breakpoint
    calls       \* calls of the controller so far

bps == <<code, original, details, cookies>>
susp == <<suspended, count, suspendLock, resumeLock>>
vars == <<bps, subs, susp, trap, pc, at, opcode, toCall, arg, calls>>

Events == {"breakpoint", "trap", "other"}
CallNames == {"set", "clear", "suspend", "trap", "events", "term"}

Actors == Workers \cup Outside

(* What the maps hold: of a cookie, and of a position.                     *)
Places == [at : PCs, op : {"real", "brkpt"}]
Records == [op : {"real", "brkpt"}, cookie : 1 .. MaxCookie]

ToolAssumption ==
    /\ Calls \in [Actors -> SUBSET CallNames]
    /\ Nil \notin Actors \cup {"real", "brkpt", "runt"} \cup Places \cup Records
    /\ Workers \cap Outside = {}
    /\ MaxCookie \in Nat

Init ==
    /\ code = [p \in PCs |-> "real"]
    /\ original = [p \in PCs |-> Nil]
    /\ details = [c \in 1 .. MaxCookie |-> Nil] /\ cookies = 0
    /\ subs = [e \in Events |-> 1]
    /\ suspended = FALSE /\ count = 0 /\ suspendLock = Nil /\ resumeLock = Nil
    /\ trap = [w \in Workers |-> FALSE]
    /\ pc = [w \in Actors |-> IF w \in Workers THEN "loop" ELSE "callback"]
    /\ at \in [Workers -> PCs]
    /\ opcode = [w \in Workers |-> Nil]
    /\ toCall = [w \in Workers |-> 0]
    /\ arg = [w \in Actors |-> Nil]
    /\ calls = 0

Goto(w, l) == pc' = [pc EXCEPT ![w] = l]

-----------------------------------------------------------------------------
(* The interpreter loop with a tool attached. *)

(* block_if_thread_suspended reads the flag before it takes the mutex. *)
BeginLoop(w) ==
    /\ pc[w] = "loop"
    /\ Goto(w, IF suspended THEN "block" ELSE "fetch")
    /\ UNCHANGED <<bps, subs, susp, trap, at, opcode, toCall, arg, calls>>

(* With the mutex: count and wait, which releases the mutex. *)
Block(w) ==
    /\ pc[w] = "block"
    /\ resumeLock = Nil
    /\ count' = IF suspended THEN count + 1 ELSE count
    /\ Goto(w, IF suspended THEN "waiting" ELSE "fetch")
    /\ UNCHANGED <<bps, subs, suspended, suspendLock, resumeLock, trap, at, opcode,
                   toCall, arg, calls>>

Unblock(w) ==
    /\ pc[w] = "woken"
    /\ resumeLock = Nil
    /\ count' = IF suspended THEN count ELSE count - 1
    /\ Goto(w, IF suspended THEN "waiting" ELSE "fetch")
    /\ UNCHANGED <<bps, subs, suspended, suspendLock, resumeLock, trap, at, opcode,
                   toCall, arg, calls>>

Fetch(w) ==
    /\ pc[w] = "fetch"
    /\ opcode' = [opcode EXCEPT ![w] = code[at[w]]]
    /\ Goto(w, "exec")
    /\ UNCHANGED <<bps, subs, susp, trap, at, toCall, arg, calls>>

(* fire_event_callbacks copies the callbacks and calls them afterwards;    *)
(* with none the worker goes on where it was.                              *)
Fire(w, e, back) ==
    /\ toCall' = [toCall EXCEPT ![w] = subs[e]]
    /\ Goto(w, IF subs[e] = 0 THEN back ELSE "callback")

(* The position a callback returns to, by what the worker was doing. *)
Back(w) == IF opcode[w] = Nil THEN "loop" ELSE "resumed"

(* get_original_opcode_and_cookie and on_breakpoint. *)
OnBreakpoint(w) ==
    /\ pc[w] = "exec"
    /\ opcode[w] = "brkpt"
    /\ opcode' = [opcode EXCEPT ![w] =
                    IF original[at[w]] = Nil THEN "runt" ELSE original[at[w]].op]
    /\ Fire(w, "breakpoint", "resumed")
    /\ UNCHANGED <<bps, subs, susp, trap, at, arg, calls>>

(* The opcode a breakpoint replaced is executed; another brkpt starts over.*)
Resumed(w) ==
    /\ pc[w] = "resumed"
    /\ Goto(w, "exec")
    /\ UNCHANGED <<bps, subs, susp, trap, at, opcode, toCall, arg, calls>>

(* Execute, go to the next position, and trap if the flag is set.  The     *)
(* instruction may fire an event of its own before.                        *)
Execute(w, p) ==
    /\ pc[w] = "exec"
    /\ opcode[w] # "brkpt"
    /\ at' = [at EXCEPT ![w] = p]
    /\ opcode' = [opcode EXCEPT ![w] = Nil]
    /\ trap' = [trap EXCEPT ![w] = FALSE]
    /\ \/ trap[w] /\ Fire(w, "trap", "loop")
       \/ ~trap[w] /\ Fire(w, "other", "loop")
       \/ ~trap[w] /\ Goto(w, "loop") /\ UNCHANGED toCall
    /\ UNCHANGED <<bps, subs, susp, arg, calls>>

CallbackReturn(w) ==
    /\ pc[w] = "callback"
    /\ toCall' = [toCall EXCEPT ![w] = @ - 1]
    /\ Goto(w, IF toCall[w] = 1 THEN Back(w) ELSE "callback")
    /\ UNCHANGED <<bps, subs, susp, trap, at, opcode, arg, calls>>

-----------------------------------------------------------------------------
(* Calls a callback makes.  Called(w, k) is the common part. *)

Called(w, k) ==
    /\ pc[w] = "callback"
    /\ k \in Calls[w]
    /\ calls < MaxCalls
    /\ calls' = calls + 1
    /\ UNCHANGED <<at, opcode>>

(* An exception out of a callback is not caught by execute: it ends the    *)
(* worker.                                                                 *)
Throw(w) == Goto(w, "ended") /\ UNCHANGED toCall

subscribe_event(w, e) ==
    /\ Called(w, "events")
    /\ subs[e] < MaxSubs
    /\ subs' = [subs EXCEPT ![e] = @ + 1]
    /\ UNCHANGED <<bps, susp, trap, pc, toCall, arg>>

unsubscribe_event(w, e) ==
    /\ Called(w, "events")
    /\ subs[e] > 0
    /\ subs' = [subs EXCEPT ![e] = @ - 1]
    /\ UNCHANGED <<bps, susp, trap, pc, toCall, arg>>

(* set_breakpoint reads the opcode and then takes the lock. *)
SetRead(w, p) ==
    /\ Called(w, "set")
    /\ arg' = [arg EXCEPT ![w] = [at |-> p, op |-> code[p]]]
    /\ Goto(w, "setting")
    /\ UNCHANGED <<bps, subs, susp, trap, toCall>>

Known(a) == a.op = "brkpt" /\ original[a.at] # Nil

(* Fault: a known breakpoint is recorded again. *)
SetAgain(w) ==
    /\ pc[w] = "setting"
    /\ cookies < MaxCookie
    /\ cookies' = cookies + 1
    /\ details' = [details EXCEPT ![cookies'] = arg[w]]
    /\ original' = [original EXCEPT ![arg[w].at] = [op |-> arg[w].op, cookie |-> cookies']]
    /\ code' = [code EXCEPT ![arg[w].at] = "brkpt"]
    /\ arg' = [arg EXCEPT ![w] = Nil]
    /\ Goto(w, "callback")
    /\ UNCHANGED <<subs, susp, trap, at, opcode, toCall, calls>>

SetBreakpoint(w) ==
    /\ pc[w] = "setting"
    /\ IF Known(arg[w]) THEN UNCHANGED bps
       ELSE /\ cookies < MaxCookie
            /\ cookies' = cookies + 1
            /\ details' = [details EXCEPT ![cookies'] = arg[w]]
            /\ original' = [original EXCEPT ![arg[w].at] = [op |-> arg[w].op, cookie |-> cookies']]
            /\ code' = [code EXCEPT ![arg[w].at] = "brkpt"]
    /\ arg' = [arg EXCEPT ![w] = Nil]
    /\ Goto(w, "callback")
    /\ UNCHANGED <<subs, susp, trap, at, opcode, toCall, calls>>

(* An unknown cookie is an exception; a position without a record is an    *)
(* end iterator, and the worker is gone as well.                           *)
clear_breakpoint(w, c) ==
    /\ Called(w, "clear")
    /\ IF details[c] = Nil \/ (details[c] # Nil /\ original[details[c].at] = Nil)
       THEN Throw(w) /\ UNCHANGED <<code, original, details>>
       ELSE /\ code' = [code EXCEPT ![details[c].at] = original[details[c].at].op]
            /\ original' = [original EXCEPT ![details[c].at] = Nil]
            /\ details' = [details EXCEPT ![c] = Nil]
            /\ UNCHANGED <<pc, toCall>>
    /\ UNCHANGED <<cookies, subs, susp, trap, arg>>

(* suspend_all_threads keeps both mutexes until every other worker counted *)
(* itself.                                                                 *)
SuspendTake(w) ==
    /\ Called(w, "suspend")
    /\ suspendLock = Nil /\ resumeLock = Nil
    /\ suspendLock' = w /\ resumeLock' = w
    /\ suspended' = TRUE
    /\ Goto(w, "suspending")
    /\ UNCHANGED <<bps, subs, count, trap, toCall, arg>>

SuspendReturn(w) ==
    /\ pc[w] = "suspending"
    /\ count + 1 >= Cardinality(Workers)
    /\ suspendLock' = Nil /\ resumeLock' = Nil
    /\ Goto(w, "callback")
    /\ UNCHANGED <<bps, subs, suspended, count, trap, at, opcode, toCall, arg, calls>>

Notify == [u \in Actors |-> IF pc[u] = "waiting" THEN "woken" ELSE pc[u]]

(* Fault: the condition variable is not notified. *)
ResumeSilently(w) ==
    /\ pc[w] = "callback" /\ "suspend" \in Calls[w]
    /\ suspendLock = Nil /\ resumeLock = Nil
    /\ suspended /\ suspended' = FALSE
    /\ UNCHANGED <<bps, subs, count, suspendLock, resumeLock, trap, pc, at, opcode, toCall, arg, calls>>

resume_all_threads(w) ==
    /\ pc[w] = "callback" /\ "suspend" \in Calls[w]
    /\ suspendLock = Nil /\ resumeLock = Nil
    /\ suspended
    /\ suspended' = FALSE
    /\ pc' = Notify
    /\ UNCHANGED <<bps, subs, count, suspendLock, resumeLock, trap, at, opcode, toCall, arg, calls>>

set_thread_trap_flag(w, u) ==
    /\ Called(w, "trap")
    /\ resumeLock = Nil
    /\ IF suspended THEN trap' = [trap EXCEPT ![u] = TRUE] /\ UNCHANGED <<pc, toCall>>
       ELSE Throw(w) /\ UNCHANGED trap
    /\ UNCHANGED <<bps, subs, susp, arg>>

(* A tool asks to end the VM. *)
Terminate(w) ==
    /\ Called(w, "term")
    /\ Throw(w)
    /\ UNCHANGED <<bps, subs, susp, trap, arg>>

Interpret(w) ==
    \/ BeginLoop(w) \/ Block(w) \/ Unblock(w) \/ Fetch(w)
    \/ OnBreakpoint(w) \/ Resumed(w) \/ \E p \in PCs : Execute(w, p)

ToolCall(w) ==
    \/ \E e \in Events : subscribe_event(w, e) \/ unsubscribe_event(w, e)
    \/ \E p \in PCs : SetRead(w, p)
    \/ SetBreakpoint(w)
    \/ \E c \in 1 .. cookies : clear_breakpoint(w, c)
    \/ SuspendTake(w) \/ SuspendReturn(w) \/ resume_all_threads(w)
    \/ \E u \in Workers : set_thread_trap_flag(w, u)
    \/ Terminate(w)

Step(w) == Interpret(w) \/ ToolCall(w) \/ CallbackReturn(w)

Next == (\E w \in Workers : Step(w)) \/ (\E u \in Outside : ToolCall(u))

Spec == Init /\ [][Next]_vars

(* Workers run, a mutex that is free again and again is granted, and the   *)
(* loop of a suspension is executed.                                       *)
FairSpec ==
    /\ Spec
    /\ \A w \in Workers : SF_vars(Step(w))
    /\ \A u \in Outside : WF_vars(SuspendReturn(u))

-----------------------------------------------------------------------------
(* Properties *)

(* A breakpoint is transparent: whatever tools set and clear meanwhile,    *)
(* the instruction executed after it is the one of the program.            *)
ExecutesRealOpcode ==
    \A w \in Workers : pc[w] = "exec" /\ opcode[w] # "brkpt" => opcode[w] = "real"

(* The code, the map of original opcodes and the map of cookies tell the   *)
(* same story.                                                             *)
BreakpointsAgree ==
    /\ \A p \in PCs : IF original[p] = Nil THEN code[p] = "real"
                      ELSE /\ code[p] = "brkpt"
                           /\ original[p].op = "real"
                           /\ details[original[p].cookie] = [at |-> p, op |-> "real"]
    /\ \A c \in DOMAIN details : details[c] # Nil => original[details[c].at].cookie = c

(* Breakpoints are transparent, whatever tools set and clear meanwhile,    *)
(* and the code, the original opcodes and the cookies tell the same story  *)
(* (tool_dispatch.cpp set_breakpoint, clear_breakpoint, on_breakpoint).    *)
BreakpointsTransparent == ExecutesRealOpcode /\ BreakpointsAgree

(* The header: on_breakpoint "Returns opcode that was replaced by          *)
(* breakpoint opcode", so what set_breakpoint records is not a breakpoint. *)
OriginalRecorded == \A p \in PCs : original[p] # Nil => original[p].op # "brkpt"

(* The assertion of clear_breakpoint that the position of a cookie has a    *)
(* record of its original opcode.                                          *)
ClearFindsOriginal == \A c \in DOMAIN details : details[c] # Nil => original[details[c].at] # Nil

(* The assertion "Why are we missing this information?": a breakpoint that *)
(* was hit is known.                                                       *)
HitIsKnown == \A w \in Workers : opcode[w] # "runt"

(* "Sleep and check until we account for all system threads": a suspension *)
(* completes.                                                              *)
SuspendReturns == \A w \in Actors : pc[w] = "suspending" ~> pc[w] # "suspending"

(* A worker that waits for the end of a suspension goes on when nobody     *)
(* suspends any more, and then it is no longer counted: a notification is  *)
(* not lost and the count is not left behind for the next suspension.      *)
ResumedRuns ==
    <>[](~suspended) => <>[](count = 0 /\ \A w \in Workers : pc[w] # "waiting")

-----------------------------------------------------------------------------
(* The inductive invariant behind BreakpointsTransparent. *)

(* The types of what breakpoints and the interpreter loop use.             *)
TypeOK ==
    /\ code \in [PCs -> {"real", "brkpt"}]
    /\ original \in [PCs -> Records \cup {Nil}]
    /\ details \in [1 .. MaxCookie -> Places \cup {Nil}]
    /\ cookies \in 0 .. MaxCookie
    /\ pc \in [Actors -> {"loop", "block", "waiting", "woken", "fetch", "exec", "resumed",
                          "callback", "setting", "suspending", "ended"}]
    /\ at \in [Workers -> PCs]
    /\ opcode \in [Workers -> {"real", "brkpt", Nil}]
    /\ arg \in [Actors -> Places \cup {Nil}]

(* Records and cookies belong together, and cookies are given out in turn. *)
RecordInv ==
    /\ BreakpointsAgree
    /\ \A c \in 1 .. MaxCookie :
          details[c] # Nil => c <= cookies /\ original[details[c].at] # Nil

(* What was read for set_breakpoint is still there.                        *)
SetInv ==
    \A a \in Actors : pc[a] = "setting" =>
        "set" \in Calls[a] /\ arg[a] # Nil /\ arg[a].op = code[arg[a].at]

(* A breakpoint that was fetched is known until it was looked up, and a    *)
(* callback of a breakpoint returns to an opcode of the program.           *)
FetchInv ==
    \A w \in Workers :
        /\ pc[w] \in {"exec", "resumed"} =>
              /\ opcode[w] # Nil
              /\ opcode[w] = "brkpt" => original[at[w]] # Nil
        /\ pc[w] \in {"callback", "setting", "suspending"} => opcode[w] # "brkpt"

BreakpointInv == TypeOK /\ RecordInv /\ SetInv /\ FetchInv
=============================================================================
