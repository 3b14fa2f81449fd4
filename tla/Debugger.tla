------------------------------ MODULE Debugger ------------------------------
(***************************************************************************)
(* The command line debugger (src/src/exec/debugger.cpp) with one worker   *)
(* that executes several VM threads.                                       *)
(*                                                                         *)
(* A thread executes an instruction in stages: "fetch", "op" (the opcode   *)
(* is known, a breakpoint has been reported), "after" (the instruction is  *)
(* done, a trap may follow).  Other threads run only between instructions. *)
(* Commands are records; a command that only prints is "show", one whose   *)
(* arguments do not parse is "bad".  Definitions marked "Fault:" are not   *)
(* part of the specification.                                              *)
(***************************************************************************)
EXTENDS Integers, FiniteSets

CONSTANTS
    Threads,
    PCs, Entry,     \* positions of the user module, and its entry
    AutoCmds,       \* values of the options bp-cmd and step-cmd
    BreakOnEnter, BreakOnLoad, BreakOnException,  \* debugger_options
    MayUnload,      \* the embedding program unloads the debugger
    MaxCookie,      \* bound: breakpoint cookies
    MaxCmds,        \* bound: commands typed
    None

Cmd(op, x) == [op |-> op, arg |-> x]
Cmds ==
    {Cmd(o, None) : o \in {"c", "s", "term", "show", "bl", "d", "bad", "bc*"}}
    \cup {Cmd("bs", p) : p \in PCs}
    \cup {Cmd("bc", c) : c \in 1 .. MaxCookie}
    \cup {Cmd("~", t) : t \in Threads}
    \cup {Cmd(o, c) : o \in {"bp-cmd", "step-cmd"}, c \in AutoCmds \cup {None}}

DebuggerAssumption ==
    /\ Entry \in PCs /\ AutoCmds \subseteq Cmds
    /\ {BreakOnEnter, BreakOnLoad, BreakOnException, MayUnload} \subseteq BOOLEAN

VARIABLES
    mode,       \* "run", "event", "prompt", "ended" or "assert"
    cur,        \* the thread the worker executes
    at, stage,  \* pc and stage of every thread
    event,      \* the event being handled
    trap,       \* trap_flags
    bp,         \* cookie of the breakpoint at each position, or 0
    next,       \* the dispatcher's cookie counter
    mine,       \* debugger.breakpoint_cookies
    opt,        \* bp-cmd and step-cmd
    saved,      \* option last_successful_cmd
    last, sel,  \* last_successful_cmd and current_register of the context
    held,       \* threads are suspended
    loaded,     \* the debugger is attached to the threads
    enter,      \* break_on_enter is set
    typed,      \* ghost: the last command of the user that succeeded
    asked,      \* ghost: a step was asked of the thread and not yet made
    ends,       \* ghost: the user asked to terminate
    cmdCount

machine == <<cur, at, stage, event>>
dbg == <<bp, next, mine, opt, trap, enter>>
context == <<saved, last, sel>>
ghost == <<typed, asked, ends, cmdCount>>
vars == <<mode, machine, dbg, context, held, loaded, ghost>>

Init ==
    /\ mode = "run" /\ cur = None /\ event = None
    /\ at = [t \in Threads |-> Entry] /\ stage = [t \in Threads |-> "fetch"]
    /\ trap = [t \in Threads |-> FALSE]
    /\ bp = [p \in PCs |-> 0] /\ next = 1 /\ mine = {}
    /\ opt = [o \in {"bp-cmd", "step-cmd"} |-> None]
    /\ saved = None /\ last = None /\ sel = None
    /\ held = FALSE /\ loaded = TRUE /\ enter = BreakOnEnter
    /\ typed = None /\ asked = [t \in Threads |-> "no"] /\ ends = FALSE /\ cmdCount = 0

Known == {bp[p] : p \in PCs} \ {0}

-----------------------------------------------------------------------------
(* What a command does: the new state of the debugger, and how it ended.   *)

(* set_breakpoint of the dispatcher: a known breakpoint keeps its cookie.  *)
SetBreakpoint(s, p) ==
    IF s.bp[p] # 0 THEN [s EXCEPT !.mine = @ \cup {s.bp[p]}]
    ELSE [s EXCEPT !.bp[p] = s.next, !.mine = @ \cup {s.next}, !.next = @ + 1]

Clear(s, cookies) ==
    [s EXCEPT !.bp = [p \in PCs |-> IF @[p] \in cookies THEN 0 ELSE @[p]],
              !.mine = @ \ cookies]

Now == [bp |-> bp, next |-> next, mine |-> mine, opt |-> opt, trap |-> trap,
        sel |-> sel, exit |-> FALSE, out |-> "ok"]

cmd_breakpoint_set(s, p) ==
    IF s.next > MaxCookie /\ s.bp[p] = 0 THEN [s EXCEPT !.out = "error"] ELSE SetBreakpoint(s, p)

(* An id the debugger does not know is an error. *)
cmd_breakpoint_clear(s, c) ==
    IF c \notin s.mine THEN [s EXCEPT !.out = "error"] ELSE Clear(s, {c})

(* Fault: the trap is set for the thread that caused the prompt. *)
StepCurrent(s) ==
    IF ~held THEN [s EXCEPT !.out = "throw"]
    ELSE [s EXCEPT !.trap[cur] = TRUE, !.exit = TRUE]

(* set_thread_trap_flag throws when the threads are not suspended. *)
cmd_step(s) ==
    IF ~held THEN [s EXCEPT !.out = "throw"]
    ELSE [s EXCEPT !.trap[s.sel] = TRUE, !.exit = TRUE]

(* Listing asks the dispatcher for every cookie of the debugger. *)
cmd_breakpoint_list(s) == IF s.mine \subseteq Known THEN s ELSE [s EXCEPT !.out = "throw"]

(* So does disassembling a range with a breakpoint in it. *)
cmd_disassemble(s) == IF Known = {} THEN s ELSE cmd_breakpoint_list(s)

(* Only a thread the scheduler still has can be selected. *)
cmd_switchthread(s, t) ==
    IF stage[t] = "gone" THEN [s EXCEPT !.out = "error"] ELSE [s EXCEPT !.sel = t]

set_value_cmd(s, o, v) == [s EXCEPT !.opt[o] = v]

(* Registers, threads, modules, symbols, stacks, memory, help. *)
cmd_print(s) == s

Result(c, s) ==
    CASE c.op = "c" -> [s EXCEPT !.exit = TRUE]
      [] c.op = "s" -> cmd_step(s)
      [] c.op = "term" -> [s EXCEPT !.out = "throw"]
      [] c.op = "bs" -> cmd_breakpoint_set(s, c.arg)
      [] c.op = "bc" -> cmd_breakpoint_clear(s, c.arg)
      [] c.op = "bc*" -> Clear(s, s.mine)
      [] c.op = "bl" -> cmd_breakpoint_list(s)
      [] c.op = "d" -> cmd_disassemble(s)
      [] c.op = "~" -> cmd_switchthread(s, c.arg)
      [] c.op \in DOMAIN opt -> set_value_cmd(s, c.op, c.arg)
      [] c.op = "bad" -> [s EXCEPT !.out = "error"]
      [] c.op = "show" -> cmd_print(s)

(* The effects that outlive the context of the command. *)
Effects(c, r) ==
    /\ bp' = r.bp /\ next' = r.next /\ mine' = r.mine /\ opt' = r.opt /\ trap' = r.trap
    /\ UNCHANGED enter
    /\ ends' = (ends \/ c.op = "term")
    /\ asked' = IF c.op = "s" /\ r.exit THEN [asked EXCEPT ![sel] = "asked"] ELSE asked

-----------------------------------------------------------------------------
(* The worker. *)

Report(e) == mode' = "event" /\ event' = e

(* The next instruction of t is fetched; without the dispatcher a          *)
(* breakpoint is an assertion.                                             *)
Fetch(t) ==
    /\ mode = "run" /\ stage[t] = "fetch"
    /\ \A u \in Threads : stage[u] \in {"fetch", "gone"}
    /\ cur' = t
    /\ stage' = [stage EXCEPT ![t] = "op"]
    /\ IF bp[at[t]] = 0 THEN UNCHANGED <<mode, event>>
       ELSE IF loaded THEN Report("breakpoint")
       ELSE mode' = "assert" /\ UNCHANGED event
    /\ UNCHANGED <<at, dbg, context, held, loaded, ghost>>

(* Execute(t, p, e): the instruction moves to p and reports e, or nothing. *)
Execute(t, p, e) ==
    /\ mode = "run" /\ stage[t] = "op"
    /\ at' = [at EXCEPT ![t] = p]
    /\ stage' = [stage EXCEPT ![t] = IF e = "unhandled" THEN "broken" ELSE "after"]
    /\ asked' = [asked EXCEPT ![t] = IF @ = "asked" THEN "made" ELSE @]
    /\ IF e # None /\ loaded THEN Report(e) ELSE UNCHANGED <<mode, event>>
    /\ UNCHANGED <<cur, dbg, context, held, loaded, typed, ends, cmdCount>>

(* A thread with an unhandled exception ends the VM. *)
Broken(t) ==
    /\ mode = "run" /\ stage[t] = "broken"
    /\ mode' = "ended"
    /\ UNCHANGED <<machine, dbg, context, held, loaded, ghost>>

(* after_exec; a trap flag is only looked at by the loop with tools. *)
AfterExec(t) ==
    /\ mode = "run" /\ stage[t] = "after"
    /\ \E s \in {"fetch"} \cup (IF trap[t] THEN {} ELSE {"gone"}) : stage' = [stage EXCEPT ![t] = s]
    /\ IF trap[t] /\ loaded
       THEN Report("trap") /\ trap' = [trap EXCEPT ![t] = FALSE]
       ELSE UNCHANGED <<mode, event, trap>>
    /\ UNCHANGED <<cur, at, bp, next, mine, opt, enter, context, held, loaded, ghost>>

(* on_unload only unsubscribes; the threads are detached between quanta.   *)
on_unload ==
    /\ MayUnload /\ loaded /\ mode = "run"
    /\ \A t \in Threads : stage[t] \in {"fetch", "gone"}
    /\ loaded' = FALSE
    /\ UNCHANGED <<mode, machine, dbg, context, held, ghost>>

-----------------------------------------------------------------------------
(* The callbacks and the prompt. *)

AutoOption == IF event = "breakpoint" THEN "bp-cmd" ELSE "step-cmd"
Auto == IF event \in {"breakpoint", "trap"} THEN opt[AutoOption] ELSE None

(* suspend_all_threads, and a new context. *)
OpenPrompt ==
    /\ mode' = "prompt" /\ held' = TRUE
    /\ last' = saved /\ sel' = cur
    /\ asked' = [asked EXCEPT ![cur] = IF event = "trap" THEN "no" ELSE @]

(* bp-cmd or step-cmd, in a transient context, then the prompt. *)
AutoCommand ==
    /\ mode = "event" /\ Auto # None
    /\ LET r == Result(Auto, [Now EXCEPT !.sel = cur]) IN
       IF r.out = "throw"
       THEN mode' = "ended" /\ ends' = (ends \/ Auto.op = "term")
            /\ UNCHANGED <<dbg, held, last, sel, asked>>
       ELSE /\ bp' = r.bp /\ next' = r.next /\ mine' = r.mine /\ opt' = r.opt /\ trap' = r.trap
            /\ OpenPrompt /\ UNCHANGED <<enter, ends>>
    /\ UNCHANGED <<machine, saved, loaded, typed, cmdCount>>

Breaks == \/ event \in {"breakpoint", "trap", "unhandled"}
          \/ event = "load" /\ BreakOnLoad
          \/ event = "exception" /\ BreakOnException

(* The other callbacks; the first load sets the breakpoint on entry. *)
Callback ==
    /\ mode = "event" /\ Auto = None
    /\ LET s == IF event = "load" /\ enter THEN cmd_breakpoint_set(Now, Entry) ELSE Now IN
       bp' = s.bp /\ mine' = s.mine /\ next' = s.next
    /\ enter' = (enter /\ event # "load")
    /\ IF Breaks THEN OpenPrompt
       ELSE mode' = "run" /\ UNCHANGED <<held, last, sel, asked>>
    /\ UNCHANGED <<machine, opt, trap, saved, loaded, typed, ends, cmdCount>>

(* The context is saved when the prompt is left. *)
Leave(r, c) ==
    /\ mode' = IF r.exit THEN "run" ELSE "prompt"
    /\ held' = ~r.exit
    /\ saved' = IF r.exit THEN c ELSE saved

(* The user types c, or an empty line, which repeats the last command.     *)
(* Without one, and after an error, the prompt stays.                      *)
Type(line) ==
    LET c == IF line = None THEN last ELSE line
        r == Result(c, Now)
    IN
    /\ mode = "prompt" /\ cmdCount < MaxCmds
    /\ cmdCount' = cmdCount + 1
    /\ c # None
    /\ Effects(c, r)
    /\ IF r.out = "throw"
       THEN mode' = "ended" /\ saved' = last /\ UNCHANGED <<held, last, typed, sel>>
       ELSE /\ last' = IF r.out = "ok" THEN c ELSE last
            /\ typed' = IF r.out = "ok" THEN c ELSE typed
            /\ sel' = r.sel
            /\ Leave(r, last')
    /\ UNCHANGED <<machine, loaded>>

InstrEvents == {None, "load", "exception", "unhandled"}

ThreadStep(t) ==
    \/ Fetch(t)
    \/ \E p \in PCs, e \in InstrEvents : Execute(t, p, e)
    \/ AfterExec(t) \/ Broken(t)

Next ==
    \/ \E t \in Threads : ThreadStep(t)
    \/ on_unload \/ AutoCommand \/ Callback
    \/ \E line \in Cmds \cup {None} : Type(line)

Spec == Init /\ [][Next]_vars

-----------------------------------------------------------------------------
(* Properties *)

(* The cookies the debugger keeps are the ones the dispatcher knows: bc,   *)
(* bl and d end the VM with an exception on any other.                     *)
CookiesAgree == mine = Known

(* An empty line repeats the last command the user typed with success in   *)
(* this or an earlier prompt, never an automatic one.                      *)
RepeatsUserCommand ==
    /\ mode = "prompt" => last = typed
    /\ mode = "run" => saved = typed

(* Threads are suspended exactly while the user is prompted. *)
HeldAtPrompt == mode \notin {"ended", "assert"} => (held <=> mode = "prompt")

(* "Step over": a thread that was told to step does not start a second     *)
(* instruction before the prompt, whatever other threads do meanwhile.     *)
StepIsOne ==
    loaded /\ mode = "run" => \A t \in Threads : ~(stage[t] = "fetch" /\ asked[t] = "made")

(* The VM ends under the debugger only when the user terminates it or the  *)
(* program fails: no command of the user ends it by accident.              *)
EndsOnRequest == mode = "ended" => ends \/ \E t \in Threads : stage[t] = "broken"

-----------------------------------------------------------------------------
(* The inductive invariant behind the properties, in parts.                *)
OptionNames == {"bp-cmd", "step-cmd"}
ShapeInv ==
    /\ bp \in [PCs -> Nat] /\ next \in Nat \ {0}
    /\ opt \in [OptionNames -> AutoCmds \cup {None}]
    /\ saved \in Cmds \cup {None} /\ last \in Cmds \cup {None}
    /\ DOMAIN stage = Threads /\ DOMAIN asked = Threads /\ DOMAIN trap = Threads
PromptInv ==
    /\ mode \in {"run", "event", "prompt", "ended", "assert"}
    /\ mode \in {"run", "event"} => saved = typed /\ ~held
    /\ mode = "prompt" => last = typed /\ held

(* Only the worker's thread is inside an instruction; a trap is reported   *)
(* between two.                                                            *)
StageInv ==
    /\ \A t \in Threads : stage[t] \notin {"fetch", "gone"} => cur = t
    /\ mode = "event" => loaded

(* A step that was asked of a thread is kept by its trap flag until the    *)
(* trap is reported.                                                       *)
Trapped(t) == mode = "event" /\ event = "trap" /\ cur = t
StepInv ==
    loaded /\ mode \in {"run", "event", "prompt"} =>
        \A t \in Threads :
            /\ asked[t] # "no" => trap[t] \/ Trapped(t)
            /\ asked[t] = "made" /\ stage[t] = "fetch" => Trapped(t)

DebuggerInv ==
    ShapeInv /\ CookiesAgree /\ PromptInv /\ StageInv /\ StepInv /\ EndsOnRequest

(* The assertion "Breakpoint set but no tool dispatcher found". *)
BreakpointHasTool == mode # "assert"
=============================================================================
