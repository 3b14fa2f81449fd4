# Verification of the Dis VM

TLA+ models, model-checking runs and machine-checked proofs for disvm, a virtual
machine for Dis (the byte code of Inferno's Limbo language) in C++. The models are
translated from the code under `src/src/vm` and `src/src/exec`; `PROJECT.json` gives, for every
definition, the lines it stands for.

## The system

A VM instance (`vm_t`) loads modules, creates VM threads and gives them to a
scheduler. The scheduler owns a pool of one to four system threads (*workers*). A
worker takes a VM thread from the run queue, interprets up to a quantum of its
instructions and gives it back. VM threads share memory (reference-counted
allocations, with a mark-and-sweep collector for cycles) and talk through channels.

| component | state | operations | works with |
|---|---|---|---|
| channels (`channel.cpp`) | queues of send and receive requests, ring buffer, one lock | `send_data`, `receive_data`, `cancel_request` | called by the channel instructions; runs the callback of the request it completes |
| channel instructions (`execution_table.cpp` 1123-1316) | `pending_request` and its lock in each thread, thread state, result register | `send`, `recv`, `alt`, `nbalt`, callbacks, cancel loops | channels; callbacks call `enqueue_blocked_thread` |
| scheduler (`scheduler.cpp`) | run queue, blocked set, map of threads, number of threads running, GC counter, two condition variables, one ownership mutex per VM thread | `schedule_thread`, `next_thread`, `enqueue_blocked_thread`, `perform_gc`, `is_idle`, destructor | executes VM threads; calls the collector |
| VM threads (`thread.cpp`) | registers, quantum, thread state | `execute` | interpreter, tool dispatch |
| VM instance (`vm.cpp`) | modules, resolvers, tool dispatcher | `exec`, `fork`, `load_module`, `load_tool`, `unload_tool` | scheduler, module loader |
| collector (`garbage_collector.cpp`) | tracked allocations, colour per allocation, epoch | `track_allocation`, `collect` | called by one worker while no VM thread runs |
| memory (`vm_memory.cpp`, `array.cpp`, `list.cpp`, `string.cpp`) | reference counts, pointer maps | allocation, copy, release | everything |
| stack (`stack.cpp`) | pages of frames | `alloc_frame`, `push_frame`, `pop_frame` | call, return, raise |
| exceptions (`vm_exception_handler.cpp`) | handler tables of modules | `find_exception_handler`, `raise` | stack |
| tool dispatch (`tool_dispatch.cpp`) | subscriptions, breakpoints, suspension flag and count | suspend, resume, set and clear breakpoints, events | scheduler, debugger |
| modules (`module_reader.cpp`, `module_ref.cpp`, ...) | cache of loaded modules | reading, linking | files |
| Sys (`sys/`) | table of file descriptors with reference counts | create, update, fetch, drop; I/O | operating system |
| debugger (`exec/debugger.cpp`) | breakpoints by cookie, last command, options, stepping | the prompt and its commands, callbacks of events | tool dispatch |
| UTF-8 (`utf8.cpp`) | - | count, decode, encode | strings, Sys |
| Math, assembler library, command line, Limbo sources | - | pure functions, text and I/O | - |

What is hard here: several workers run VM threads at once, and a worker finishes
work on behalf of a thread it does not own. An `alt` has requests in several
channels, any of which may be completed by another worker while the alt is still
queueing the rest; a thread may be woken before it is asleep; a collection needs every
worker out of the interpreter; the embedding program may destroy the scheduler while
workers execute. `PROJECT.json` lists these hazards with their lines.

What makes the components correct:

- *Channels*: each channel is a bounded FIFO; an instruction is completed exactly
  once, on one of its channels; no two requests that could meet sleep side by side; a
  request is gone when its instruction is over.
- *Scheduler*: a thread is in one place and executed by one worker; a completed
  thread is woken; collections see no running thread; shutdown ends.
- *Collector and memory*: nothing reachable is freed, nothing unreachable stays.
- *Stack, exceptions*: frames of one thread never overlap; the innermost matching
  handler is taken.
- *Tool dispatch*: after a suspension no VM thread runs; the original opcode of a
  breakpoint is never lost.
- *Tools*: a loaded tool hears of every thread, an unloaded one of none; loading ends.
- *Modules*: a module is complete or refused; one id per path, one object while used.
- *Strings, UTF-8, integer instructions*: the values the definitions of Limbo and
  RFC 3629 give, with their widths.
- *File descriptors and files*: a descriptor in use is never freed or given out twice;
  bytes are copied once and in order; what is printed is the whole text.

## Modules

`Channel` models channels and the instructions on them. One VM thread is the unit
of control (`pc`), because exactly one worker owns it while it executes. A call of
`send_data`, `receive_data` or `cancel_request` is one step: all it touches is
protected by `_data_lock` and the request locks it holds. The callback of a completed
peer (`CallbackCancel`, `CallbackEnqueue`) and every iteration of a cancel loop
(`CancelOwn`, `Withdraw`) are steps of their own, since `_data_lock` is free then.
`Park` and `Dispatch` are the scheduler reduced to one thread. `pending`, `state`,
`index`, `got` are thread registers; `senders`, `receivers`, `ring` are the channel.
A message is identified with the request that sends it, so that loss, duplication and
reordering are visible. A nil channel breaks the thread (`Break`); in the cancel loops
it is a null dereference that ends the process (`crashed`).

`ChannelAbstract` says what channels promise, without request queues, callbacks or
cancellation: offers on bounded FIFOs, each instruction's offer taken once. `Channel`
implements it with `fifo <-` the contents of the ring and `waiting <- pending`.

`ChannelLocks` is the same system at the grain of its mutexes, for unbuffered channels:
`_data_lock` and `pending_request_lock` are state, and a step ends where a thread may
have to wait for one. `TakeBoth` is `std::lock`, which takes both or waits holding
none; `TakePeer` takes the mutex of the partner found, holding the other two; the
callback runs with only the caller's own request mutex held; `Withdraw` takes channel
locks under the request mutex. It implements `ChannelAbstract` too: what `Channel`
takes for granted by making a call one step, that nobody sees a half-finished
completion, has its counterpart here.

`Scheduler` models the worker pool. A critical section under `_vm_threads_lock` is one
step unless the worker waits inside it or releases it in the middle; then `lock` names
the holder. The ownership mutex of a VM thread is `owner`. A condition variable is the
set of workers asleep on it, and a notification reaches only those. The test of a
predicate and the sleep that follows are separate steps where the notifier does not
take the mutex (`GcTest`/`GcSleep`, `SelectNothing`/`Sleep`). What a VM thread does in
its quantum is a choice among the ways the quantum ends (`Yield`, `Block`, `Exit`,
`Broken`, `Exception`) and the calls it makes (`Fork`, `CompletePeer`).

`ToolDispatch` models the dispatcher with the interpreter loop of a worker (`Fetch`,
the lookup of a breakpoint, execution, trap). What a callback does between two events
is any sequence of controller calls; `SetRead` and `SetBreakpoint` are the two halves of
`set_breakpoint`, because the opcode is read before the lock is taken. The embedding
program may use the controller as a further thread (`Outside`).

`ToolAttach` is the part of `vm_t`, dispatcher and scheduler that attaches a dispatcher
to running threads: `_tool_dispatch_lock` is state, the loop over threads that are not
yet set is polling, a fork tests the dispatcher without the lock, and a running thread
that loads a module for the first time reports it to the tools under the lock (`Notify`).

`Debugger` is the command line debugger on top of the calls of `ToolDispatch`, with one
worker: prompt, commands, automatic commands, repetition by an empty line, stepping,
suspension. A command that only prints is `show`. The command `s` as an automatic
command ends the VM, as in the code, where setting the trap flag throws before the
suspension that it needs.

`Stack` models pages and frames by their sizes, with every instruction that allocates,
pushes or pops a frame, the reference counts of module references that frames save,
and the search for a handler. Programs obey the compiler's rule of one uncalled frame.

`Heap` models allocations with pointers, counts, the collector's colours and epochs, and
every instruction that moves pointers, for one thread. `HeapRace` is `movp` of several
threads, a step for each access to memory or to an atomic count.

`ModuleReader` reads a module section by section; the file is the choice of each
action, and it may end before any item. `ModuleLoader` is the list of loaded modules,
the registry of built-in ones, shared by all VMs of a process, and `load`; how long a load
waits for `_tool_dispatch_lock` is a question of `ToolAttach`.

`FdTable` models the descriptor table, the counts of files and the finalizers of FD
values; an operation under `fd_map_lock` is a step, a call of Sys is several. `FileIO`
follows numbered bytes through files: the modes, `read`, `write`, `seek`, `stream`,
`remove`. The C library is external (`fopen` with a mode, `fread`, ...): its writes are
in the file at once, and the standard streams, which cannot be positioned, are left out.
`Printing` models formatted output item by item into a buffer that grows, with `%r` taking
the one error message of the VM. A directive that `snprintf` refuses (a negative result: `%lc`
with a number that is no character, a field wider than an int) makes the buffer grow until
there is no memory (`Exhausted`). `Tokenize` is `Sys_tokenize` and the list it builds.
A string that has only delimiters gives the count 0 and a list of one nil string;
nothing in the repository says which is meant, so it is recorded and not a finding.

`Strings` models `vm_string_t`: characters of one byte or four, local or allocated
memory, sharing by count, the cached UTF-8 form. `StringValues` says what the string
instructions promise, registers with values; `Strings` implements it. `Utf8` holds the
table of the decoder, the encoder and the Sys calls on them; the state is the bytes
received, and the reference is the table of well-formed sequences of RFC 3629.

`Arithmetic` runs one integer instruction on words of `W` bits and bigs of twice that.
Overflow wraps and a shift count is taken modulo the width, as the x86 builds do; a
quotient that does not exist stops the process.

The `MC` modules give the constants for TLC: `MCChannel`, `MCChannelLocks`, `MCScheduler` and
`MCToolDispatch` those of one module, `MCHost`, `MCMemory`, `MCProgram`, `MCSys` and `MCProgress`
those of several (see Runs):

| module | composes |
|---|---|
| `MCHost` | `ToolDispatch` twice, `Debugger` for each record of `Options`, `ModuleReader` |
| `MCMemory` | `HeapRace`, `Heap` with three sets of instructions |
| `MCProgram` | `ModuleLoader`, `Stack`, `Strings` (with `StringValues`), `Utf8`, `Arithmetic`, `Tokenize` |
| `MCSys` | `FdTable` three times, `FileIO`, `Printing` |
| `MCProgress` | `ToolAttach` twice, `ToolDispatch`, `ModuleReader`, `FileIO`, `Printing`, `Arithmetic` |

The modules named `...Proofs` hold the theorems: `ChannelProofs` (about `Channel` and
`ChannelAbstract`), `ChannelLocksProofs`, `SchedulerProofs`, `HeapRaceProofs` and `ToolAttachProofs`
are about the module they are named after; `HostProofs`, `ProgramProofs` and `SysProofs` are
about the components that `MCHost`, `MCProgram` and `MCSys` compose, so that a theorem states the
very property its run checks. The parameters of the composed components are constants of these modules
(the cfg gives them values), so a theorem is about all their values; bounds that are
written into the composition (such as the two threads of `Printing`) belong to components
that are only model-checked. The inductive invariants are defined at the
end of the component's own module, so that TLC can check them as well; those of `Strings`
and `FileIO`, which say little more than the property, stand beside their proofs.
Definitions marked `Fault:`, or named `Fault...`, are no part of a specification: each
is a plausible mistake in the operation it is named for, used to see that a property
notices.

The models treat assertions as compiled out, as in a release build. Spurious wakeups
of condition variables are left out: the code re-tests its condition after each.

## Runs

| run | question | bounds |
|---|---|---|
| `channel` | are requests of racing `send`, `alt` and `nbalt` completed once, cancelled everywhere, answered rightly and woken; do the operations implement `ChannelAbstract`? | 3 threads, an unbuffered channel, one with a buffer of 2 (so the ring wraps) and nil, 2 instructions each: two are needed for a leftover request to be revived, three threads for two peers to compete for one alt; nil is only the channel of a `send` or `recv` (the theorems about `Channel` allow it in the table of an alt as well); `recv` of a channel, an alt of one position, is in the next run |
| `locks` | does the same system at the grain of its mutexes implement `ChannelAbstract`? | 3 threads, 2 unbuffered channels, 2 instructions each, of every kind |
| `scheduler` | places, ownership, counts, wakeups, collections, with failures and shutdown | 3 workers, 3 VM threads, a collection every 3 dispatches (256 in the code; the counter is kept modulo the period); workers, and VM threads other than the first, are interchangeable |
| `scheduler_fair` | are runnable and completed threads executed, does shutdown find the workers? | 2 workers, 2 VM threads, with failures |
| `host` | do breakpoints stay transparent, does the debugger do what it was told, is a module complete or refused? | dispatcher: 1 worker with every call, or 2 of which one only executes, 2 positions, 3 cookies (a position set twice, cleared and set again); debugger (`TwoOptions`): 2 threads with one automatic command, or 1 with every break and unloading, 3 commands (set, continue, step at a breakpoint); reader: 2 of each item, arrays nested to the depth of the address stack |
| `memory` | are counts exact and is what only the collector holds freed? | 3 allocations and 2 slots: enough for a cell, a slice and its array, a slice of a slice (records, list cells and arrays in behaviours of their own, the first two with collections); 2 threads with 2 allocations |
| `program` | is there one id per path and one object of a module while it is used; are frames disjoint, registers restored, references exact, the innermost handler taken; do strings behave as values, decoder, encoder and Sys calls as RFC 3629 says, integer instructions and `tokenize` as exact arithmetic and the definition of tokens? | 2 threads of one VM, 2 files and the built-in module, 4 module objects, which are used again; pages of 7 cells and frames of 2, 7 and 8, so that one fills a page or exceeds it, depth 4, 2 modules; 2 registers, characters of one byte and of four, a local buffer small enough to be left, literals of one character, so that longer strings come from insertion and concatenation; up to 4 bytes with the bounds of every range of the decoder; words of 4 bits, all operands, powers except the smallest word; strings of up to 4 runes, a list kept over another call |
| `sys` | are files counted and numbers reused, also when records are replaced or values given up, do streams obey their mode and keep their error, is the whole text printed? | 2 threads, up to 5 files and numbers (3 are standard): 2 threads that keep what they open, 1 thread that replaces records with `dup`, 2 threads whose values are finalized; 1 path, every mode that behaves differently, 1 failing write, 2 bytes; texts below, at and above the buffer of 4 and its double |
| `progress` | do suspensions, copies, printing, reading of modules and powers end; do loading and unloading of tools and the module loads and forks of running threads go on, unless they wait for each other; is every thread attached and detached; does a copy deliver every byte once? | 1 worker and the embedding program; loading: 2 threads without forks and 2 new modules, or up to 3 threads that fork and load 1 new module, with a tool loaded before; 2 threads that copy, 3 bytes in blocks of 2, 1 failing write; formats with and without a refused directive, buffers of 4 to 16 bytes; the smallest instances of the others |
| `scheduler_join` | *violation*: the destructor's join returns | 2 workers, 2 VM threads, no failure |
| `locks_polling` | *violation*: `nbalt` ends | 1 `nbalt`, 1 `send` |
| `tool_suspend` | *violation*: a suspension returns | 2 workers |

`host`, `memory`, `program`, `sys` and `progress` each check several
modules. Their MC module instantiates every component with its constants, sometimes
twice with different ones, and a variable `part`, chosen in the initial state and never
changed, says which instance moves; the others stay in their initial state. Every
behaviour is thus a behaviour of one component, and every behaviour of a component
occurs. This loses nothing, because the components of one run have no state in common:
what they exchange at their interfaces is a choice in each of them. One component is
extended instead of instantiated (`ToolDispatch`, `HeapRace`, `ModuleLoader`, `FdTable`,
`ToolAttach`): its constants are in the cfg and its properties are checked under their own
names, so that run and theorem speak of the same definition. The other properties of
such a run are conjunctions of properties of the components, named and explained there.
A conjunct whose bounds only fit one part is guarded by it.

No run checks for deadlock. In the models of threads (channels, scheduler,
tools, debugger, heap, stack) a VM whose threads all wait for each other, or have
ended, really stops; in those of calls (files, printing, strings, UTF-8, tokens) the
program ends when it has made its bounded number of calls, and a use of freed memory
or a write outside a buffer ends the behaviour. Progress is stated as liveness
properties instead.

What the runs show:

- Channels keep their promises for tables that name a channel once. `NoMissedMatch`
  is the reason no separate search is needed when a request is cancelled: a sender
  and a receiver are never queued together.
- The wakeup of a completed thread relies on `enqueue_blocked_thread` waiting for the
  ownership mutex: the peer may be completed before its worker has parked it
  (`NoLostWakeup`, `WakesBlockedThread`, `CompletedRuns`).
- `OwnershipSoonFree` is why waiting for an ownership mutex under `_vm_threads_lock`
  (scheduler.cpp:337) is harmless: whoever owns a queued thread needs no further lock.
- `DeadlockReportSound`: the warning "deadlock detected" is never given while a wakeup
  is on its way.
- *Breakpoints and suspension* are right with one worker (`BreakpointsTransparent`,
  `ToolsProgress`). Loading a tool attaches all threads while nothing forks
  (`ToolsAttached`); that it returns is only true as long as no thread loads a module for
  the first time or forks meanwhile: `ToolsProgress` shows that this mutual wait (`Stuck`)
  is the only thing that holds up a load or unload of a tool, the report of a module and
  the attachment of a new thread, and `ToolAttach!LoadReturns` below that it occurs.
- *Calls end* (`CallsReturn`): a copy, the reading of a module and a power always, a
  printing call unless one of its directives is refused, which ends the process.
- *Frames* never overlap, also when one fills a page exactly; registers and the
  references of modules come back after every return and unwinding (`FramesSound`).
- *Counts* are exact under every pointer instruction of one thread with the slices the
  compiler produces (`CountsExact`), and of several threads as long as places are not
  shared (`RaceSound`). `CollectorSound` bounds the collector's delay to the rotation of
  its three colours; a cycle is given up and not freed.
- *File descriptors*: the number of references that `open`, `fildes` and the finalizer
  of an FD value take and give up differ, so `FilesCounted` holds only while values are
  kept or one thread replaces them, the free list (`EmptyReusable`) always
  (`SecondTableSound` has the two cases that the first table leaves out).
- *Strings* implement values in every order of sharing and change (`ValueSemantics`).
- *UTF-8*: the decoder is exact. *Integer instructions*: exact, except negative powers
  that wrap.
- `scheduler_join`: the collecting worker sets `_gc_complete` and notifies
  without `_gc_wait` (scheduler.cpp:383), so a worker between its test and its sleep
  misses it. If no further collection follows, the destructor waits for that worker
  forever. `ShutdownProgress` shows that waiting for a collection is the only thing
  (besides a crash) that can hold the destructor up; a thread that breaks while
  another worker waits for a collection has the same effect.
- `locks_polling`: `nbalt` cancels under its request mutex
  (execution_table.cpp:1283-1298) and so takes the mutexes in the reverse order. One
  `send` on the channel at that moment is enough. A program that polls a channel
  others send on is exposed to it.
- `tool_suspend`: `suspend_all_threads` holds the mutex that another worker needs to
  count itself as suspended. With one worker, or called by the embedding program for
  one worker, it returns (`ToolsProgress`).

### Other disagreements

The modules state more of what comments, assertions and tests of the repository say than
the runs check. The following statements are not true of the code; each is a definition of
its module, and TLC refutes it with the constants given (as in the MC modules where
nothing is said).

- `Channel!IndexSetOnce` (`Instructions` with an alt whose table is `<<c1, c1>>`): src/src/vm/execution_table.cpp:1192 asserts "Index should only be set once", but nothing checks that the table of an alt names each channel once: an alt that receives twice from one channel and is completed by a sender sets the index for both positions. Without assertions the last position is reported, whichever request was completed, and the request of the other position stays queued (the loop skips the handled channel).
- `Scheduler!QueuedThreadsKnown` (2 workers, 2 VM threads, `Faults = {"broken"}`): src/src/vm/scheduler.cpp:330 asserts iter != _all_vm_threads.cend() for every id of the run queue. After a broken thread sets _terminating, the embedding program sees is_idle and the destructor clears the map (117-118) while another worker is inside a quantum; when that thread yields, enqueue_thread_unsafe appends its id (398) and the next selection dereferences the end iterator.
- `ChannelLocks!CallReturns` (`FairSpec`; 2 threads, one alt each, sending where the other receives): src/src/include/runtime.hpp:324 says of send_data "Returns true if the data was sent, otherwise request is queued and false returned." It may do neither: the call holds _data_lock and its own pending_request_lock while it waits for the pending_request_lock of the thread at the front of the queue (channel.cpp:109, 180). Two threads in alt that have each queued a send in the channel the other now receives from each hold their own request mutex and wait for the other's, forever. std::lock (74) orders only the first two of the three mutexes.
- `ToolDispatch!ClearFindsOriginal` (2 workers with `Calls` "set" and "clear", `PCs = {1}`): src/src/vm/tool_dispatch.cpp:333 and 337 assert that the module and the position of a breakpoint cookie have a record of the original opcode (assert(iter_pc != pc_map.cend())). The opcode is read before the lock is taken (277), so two tools that set a breakpoint at one position both see the original opcode and both register a cookie, while the map of positions has room for one record; clearing the first erases it and clearing the second dereferences the end iterator.
- `ToolDispatch!OriginalRecorded` (the same): src/src/vm/tool_dispatch.hpp:39 says of on_breakpoint "Returns opcode that was replaced by breakpoint opcode." set_breakpoint reads the opcode at 277 and takes the lock at 280; when the breakpoint seen at 277 is cleared in between, it is not known under the lock and brkpt itself is recorded as the original opcode. Executing it calls on_breakpoint again, without end, and clearing it leaves brkpt in the code.
- `ToolDispatch!HitIsKnown` (the same): src/src/vm/tool_dispatch.cpp:426 asserts false with "Why are we missing this information?" A worker reads the opcode (thread.cpp:239), another one clears the breakpoint, and the lookup finds nothing; without assertions runt, a NOP, is executed and the instruction of the program is skipped.
- `ToolAttach!AttachedToAll` (`Forkers` not empty, `Preloaded = FALSE`): src/src/vm/vm.cpp:430 says "Attach to all threads". schedule_thread tests _tool_dispatch without the lock (461): a fork that saw null and is added to the scheduler after the scan of load_tool is never attached, and a breakpoint it reaches ends the VM (execution_table.cpp:1793).
- `ToolAttach!AttachedToAll` (`MaxLoads = 2`, `MaxUnloads = 1`, no forks): src/src/vm/vm.cpp:430 says "Attach to all threads", but only in the branch that creates the dispatcher. unload_tool detaches all threads and keeps the dispatcher (450), so the next load_tool skips the branch and its tool receives no event of the running threads.
- `ToolAttach!DispatchToggles` (`MaxUnloads = 2`): src/src/vm/thread.cpp:342 asserts "Dispatch value should toggle between null and non-null". vm_tool_dispatch_t::unload_tool returns the current count for an unknown id (tool_dispatch.cpp:100), so unloading a tool twice detaches threads that are already detached; the same happens when a tool is unloaded after a reload.
- `ToolAttach!DetachedFromAll` (`Preloaded = TRUE`, forks, `MaxUnloads = 1`): src/src/vm/vm.cpp:447 says "Detach from all threads". The dispatcher is not freed, and schedule_thread attaches every new thread to it whether or not a tool is loaded.
- `ToolAttach!LoadReturns` (`FairSpec`, `Preloaded = FALSE`; `NewPaths = 1` with `Forkers = {}`, or forks): src/src/vm/scheduler.cpp:193 says "Loop until all threads have been set". load_tool and unload_tool hold _tool_dispatch_lock during the loop (vm.cpp:424-431, 439-448), and a thread is only set while no worker owns it. A running thread takes that lock when it loads a module for the first time (vm_t::load_module, vm.cpp:381) and when it executes spawn (schedule_thread, vm.cpp:463), so the loop and the worker wait for each other. The tool then never hears of the module either.
- `Debugger!BreakpointHasTool` (`MayUnload`, `BreakOnLoad`, 1 thread): src/src/vm/execution_table.cpp:1793 asserts false with "Breakpoint set but no tool dispatcher found". debugger::on_unload unsubscribes its events and leaves its breakpoints in the code; unload_tool then detaches the threads, and the first one that reaches a breakpoint fails the assertion, or without assertions ends the VM with a vm_system_exception.
- `Stack!PagesFreed` (`Sizes = {3, 4}`): ~vm_stack_t pops every frame and then frees one page, where the comment at src/src/vm/stack.cpp:202 says "// Free stack memory". When the thread breaks with a frame that alloc_frame placed on a new page and no call pushed, popping the last frame finds no current frame and drops no page (stack.cpp:280-291), so the page before the top one is never freed.
- `Stack!HandlerHasPc` (`Names` with the empty name): raise asserts "assert(target_frame != nullptr && handler_pc != runtime_constants::invalid_program_counter)" (src/src/vm/execution_table.cpp:1739), and find_exception_handler tests the position of a default case only in its second branch (vm_exception_handler.cpp:53): the exception "" compares equal to the nil name, so the first branch returns a default case without a position.
- `Heap!NoUseAfterFree` (`Direct = TRUE`): The constructor of a slice of a slice releases the slice (src/src/vm/array.cpp:62) before it references the original array (array.cpp:65): when the destination held the slice alone and the slice held the array alone, both are deleted first and add_ref then runs on freed memory, against its "assert(_ref_count > 0)" (src/src/vm/vm_memory.cpp:226).
- `Heap!NoUseAfterFree` (`Overlap = TRUE`, `ArrayLen = 3`): copy_from says "Copy data from within the same array is permitted." (src/src/vm/array.cpp:175), but it releases an element of the destination before it references the later elements of the source (array.cpp:165-172): when the slice is assigned to a later overlapping part, an element that only the array holds is deleted and then referenced.
- `Heap!CyclesFreed` (`Ops` "new", "movp", "collect"): readme.md:19 says "The purpose of the hybrid approach was to mitigate cases where reference counting fails (e.g. cyclic references)." sweep only drops the reference of the collector (src/src/vm/garbage_collector.cpp:246): the references of a cycle to itself remain, and the allocations stay, no longer tracked.
- `HeapRace!AssertionsHold` (`Shared` not empty): movp reads the pointer of its source and references it in a second step (src/src/vm/execution_table.cpp:510-514); between them a thread on another worker may replace the pointer in shared module data and delete the allocation, against "assert(_ref_count > 0)" (src/src/vm/vm_memory.cpp:226).
- `ModuleReader!BaseAtElement` (`Indices = {0, 1}`): set_array tests "array_index < 0 || arr->get_length() <= array_index" and then adds "(array_index * arr->alloc_type->size_in_bytes)" to the first element (src/src/vm/module_reader.cpp:494-498): alloc_type is the descriptor of vm_array_t, whose size is 0 (src/src/vm/vm_memory.cpp:261), so items for any element are stored from element 0 on.
- `ModuleReader!ElementTypeValid` (`Elements = {0, 1}`): The test of element_type guards "if (!success) throw module_reader_exception{ \"Invalid array element type\" };" (src/src/vm/module_reader.cpp:468-469); the read before it succeeded, so the exception is never thrown and an element type outside the type section is used as an index.
- `FdTable!StdoutStays` (`Calls` "fildes", "print", "collect"): fildes takes one reference and ~Sys_FD_Impl gives up two, one through drop_fd_record and one through its pointer; the comment says the table is managed by hand for the values that hold a reference: "Manual management of file descriptors, since there is an inherent life time race amoung the enclosing ADT instances that can have a reference." (src/src/vm/sys/fd_manager.cpp:94-95). Dropping the value of fildes(1) closes stdout and leaves it in the table.
- `FdTable!RecordsOpen` (`Calls` "open", "fildes", "collect"): "Returns null if the record does not exist." (src/src/vm/sys/sys_utils.hpp:51): drop_fd_record clears the entry only when its own release was the last one, and after open it never is; the release of the pointer that follows frees the file and the entry keeps pointing to it.
- `FdTable!NoUseAfterFree` (2 threads, `Calls` "open", "dup", "dup2"): create_new publishes the record with one reference and adds the second one after the lock is released, although "assert(vm_fd->get_ref_count() == 1 && "Should be a new FD");" (src/src/vm/sys/Sysmod.cpp:127) says nobody else knows the file: a dup onto that number in between frees it.
- `ModuleLoader!IdMatches` (2 VMs with a thread each): "This is a unique ID assigned to the module by the VM. It is associated with the path of the module and is idempotent with respect to the number of times the module is loaded. It is considered read-only." (src/src/include/runtime.hpp:589-590): a built-in module is one object for all VMs of the process, and each VM that loads it writes its own next id into it.
- `ModuleLoader!BuiltinsReady` (the same): "Called to initialize built-in modules. This will be called once per process hosting a VM." (src/src/include/builtin_module.hpp:23-24): the flag is set before the work is done, so a VM constructed on another thread meanwhile finds it set and runs without the built-in modules; its load of one gives nil.
- `Strings!ComparesAll` (`Local = 16`, `MaxLen = 3`): "Comparing lengths if one string is a proper sub-string of the other." (src/src/vm/string.cpp:115): strings of four-byte characters are compared with memcmp over min_length bytes, a quarter of the characters, so strings that differ later on compare as equal and by their lengths.
- `Strings!NoOverflow` (`Local = 16`, `MaxLen = MaxLiteral = 5`): "Allocate memory based on character count and size" (src/src/vm/string.cpp:219): the test compares the number of UTF-8 bytes with the 16 bytes of the local buffer, and the characters are stored in four bytes each; five characters of which one is outside ASCII do not fit.
- `Strings!Terminated` (`Local = 16`, one ASCII rune, `MaxLen = 18`, `MaxLiteral = 15`): "assert(_encoded_str[_length] == '\0');" (src/src/vm/string.cpp:517): the copy of a string in the local buffer gets _length_max from its length and may take it past the 16 bytes it has; at 16 characters str() finds room for a null that is not there, and the next character is written outside.
- `Utf8!StringsChecked` (`MaxBytes = 2`): "Check if the supplied string is completely valid UTF-8 - only valid UTF-8 strings can be DisVM strings." (src/src/vm/string.cpp:210): count_codepoints returns one more than the offset of the last accepted byte, which is one also when no byte was accepted, so a string of one invalid byte passes, with length zero.
- `Utf8!UtfBytesBounded` (`MaxBytes = 2`): "Code points should not exceed number of bytes processed" (src/src/vm/sys/Sysmod.cpp:982): for n = 0 count_codepoints returns a byte count of 1.
- `Utf8!RunesRoundTrip` (`MaxBytes = 3`): "As defined in http://tools.ietf.org/html/rfc3629" (src/src/include/utf8.hpp:18): encode writes the surrogates D800 to DFFF, which the RFC excludes and decode_step rejects; a string that got one from insc gives text that cannot be read back.
- `Printing!NullTerminated` (a buffer of 4 and a format of a character and a last verb of 3 bytes): "The buffer should be null-terminated" (src/src/vm/sys/print.cpp:192): snprintf returns the length it needed, so a last directive that does not fit moves b_curr past the end, and the count that is returned is larger than the buffer; a character of three or four bytes is written past the end after a test for one byte.
- `Printing!ErrorPrinted` (a buffer of 4 and a format of `%r`, a verb of 4 bytes and a character): "Last system error message" (src/src/vm/sys/print.cpp:158): %r empties the message of the vm; if the buffer is too small the format is printed again from its beginning, and the message is lost.
- `Printing!PercentOnce` (a format with an escaped percent sign): "Escaped specifier" (src/src/vm/sys/print.cpp:103): the format given to snprintf has four percent signs, which print two.
- `Printing!EveryFormatPrints` (`FairSpec`, 1 thread, a format of a character and a refused directive, `StaticSize = 4`, `MaxSize = 16`): "Prints the format and arguments to the supplied dynamic buffer." (src/src/vm/sys/sys_utils.hpp:33): a negative result of snprintf and sprintf is returned as -1 (src/src/vm/sys/print.cpp:91-92, 186-187), which is also the result for a full buffer, so printf_to_dynamic_buffer doubles the buffer and tries again (204) until the allocation throws, and nothing up to the worker catches it. A program reaches it with `%lc` and a number that is no character, or with a field wider than an int.
- `FileIO!KeepsContent` (`Modes` with `{"OWRITE"}`, a file of 2 bytes): "R W T" over the table (src/src/vm/sys/fd_types.cpp:153): the entry for write without truncate, "0 1 0", is "wb", which truncates; opening an existing file with OWRITE loses its content.
- `FileIO!Writable` (`Modes` with `{"ORDWR"}`): "R W T" over the table (src/src/vm/sys/fd_types.cpp:153): the entry for read and write, "1 1 0", is "rwb", which is not a mode of fopen; the file is not opened, or opened only for reading, and then the first write sets the error flag that makes every later call on the descriptor throw.
- `FileIO!OpenFinds` (2 threads, `Calls` with "remove"): "Check if the file already exists/permission to read" (src/src/vm/sys/fd_types.cpp:184), for the mode ensure_exists: the file is looked for in one step and opened in another, and remove does not take the mutex, so open for writing creates a file that was removed in between.
- `Arithmetic!NegativePower` (`Ops = {"expw"}`): "Non integer result (i.e. 0)" for a negative power (src/limbo/basic_limbo_tests.b:678): the result is 1 divided by the positive power, which has wrapped; 2 ** -32 divides by zero and stops the VM, and an odd base whose power wraps to 1 gives 1.
- `Arithmetic!CaseRange` (a table with an entry from string 3 to string 5): "[element count] ([low value (inc)][high value (exc)][program counter])*" (src/src/vm/execution_table.cpp:583): casec takes an entry only if the string is equal to its low or its high string; a string between them goes to the default.

### Fairness

Fairness of `Scheduler` (`FairSpec`): strong fairness for each worker's own steps (the operating
system runs it, and a mutex it wants infinitely often is eventually granted), for the
end of each quantum (`execute` counts instructions down), and for the embedding
program, which polls. Nothing is assumed about what a VM thread chooses to do.
Fairness of `ChannelLocks`: strong fairness for the steps of each thread once it has
started an instruction (its worker runs, and a mutex that is free again and again is
eventually granted); no thread has to start one.
Fairness of the others: in `ToolDispatch`, strong for each worker (as in `Scheduler`)
and weak for the end of a suspension of the embedding program. In `ToolAttach`, strong for
each thread (a worker executes it, its quantum is a number of instructions, and a mutex
that is free again and again is granted some time) and for a turn of the polling loop that
finds a thread it can set, since the loop looks infinitely often and not all the time, and
weak for the rest of a load. Nothing says that `_tool_dispatch_lock` is released: a thread
that waits for it has no enabled step until it is. In `ModuleReader`, `Printing`, `FileIO`
(a copy that has begun) and `Arithmetic`, weak for the call in progress: its thread runs,
and it waits for no lock that is held over a wait. `ModuleLoader` states no fairness: a
load waits for `_tool_dispatch_lock`, and the run checks safety properties only
(`EntryTold`, in `LoaderSound`: each new module was reported, or the thread that read it is
about to do so). No program is assumed to make a call.
`MCProgress` gathers these by thread, since at most one part moves in a behaviour:
`ThreadGoesOn(t)` and `Granted` strongly, `HostGoesOn` weakly.

## Proofs

`ChannelProofs` proves, for every set of threads and channels, all buffer lengths, and
every program whose alt tables name no channel twice (`DistinctTables`, what the code
asserts), that `Spec` implies `[]` of `ChannelInv`, `TypeOK`, `NoMissedMatch`,
`NoRevivedRequest`, `NoLeftover`, `NoLostWakeup` and `AltAnswer`. `MaxOps` is any
natural number, so executions of any length are covered. Nil channels are allowed.

The argument is the inductive invariant `ChannelInv`. The properties themselves are not
inductive: that a thread leaves without leftovers depends on where each cancel loop is
and which requests it has still to pass. The invariant therefore says for every queued
request (`RequestOK`) that it belongs to the current instruction of its thread, that its
position was tried and not chosen, and that no cancel loop, neither of the thread nor of
a worker that runs its callback, has gone past it. `JobInv` says a callback's peer was
completed on the channel it is told, by one worker only; `TodoInv` and `PendingInv` tie
the control point to the flags; `UniqueInv` (one request per thread and queue) makes the
single erase of `cancel_request` enough; `WakeInv` keeps a waker for every completed
thread; `AnswerInv` ties the result register to the choice. There is one lemma per
conjunct (`TypeStep`, `MissedStep`, `PendingStep`, `TodoStep`, `JobStep`, `QueuedStep`,
`UniqueStep`, `WakeStep`, `AnswerStep`) with one case per action. For `QueuedStep`,
`AccountedStep` shows that each request after a step is an old one or the one just
queued, and `StayStep` that old ones stay in order.

It also proves the refinement `ImplementsFifo` under the same condition, from
`ChannelInv`: every step of a worker is one abstract step or a stutter. The abstract
message leaves a FIFO when the concrete one leaves the ring, and an offer is taken when
the call completes the request, so the callback, the cancel loops, `Park` and `Dispatch`
are invisible. What the ring says of its contents is proved once: `Listed` gives the
slots in order, `Wrapped` computes the index that may pass the end, and putting and
taking one message append and drop one element. `PollInv` (a `nbalt` that polls is in
its own instruction) is the only thing added to `ChannelInv`.

`ChannelLocksProofs` proves `ImplementsRendezvous` for any threads, unbuffered channels
and programs with `DistinctTables`: with nothing atomic but the mutexes, completing a
partner (`Complete`) is one `Exchange` of `ChannelAbstract`, the end of a poll (`Poll`)
its `GiveUp`, the start of an instruction its `Issue`, and every other step stutters. So
one message is handed over between two instructions in progress, although the caller has
let go of all mutexes but its own when the callback runs, while requests of the partner
are still in other queues. The inductive invariant `LocksInv` says what a mutex protects
(`LockInv`: a call that searches for a partner holds the channel and its own request
mutex with its request pending; the partner it examines is at the front of the queue and
held too), what a callback may rely on (`CallbackInv`: its peer was completed on the
channel of the call, by this worker only, and is at a point where it waits), which
requests can be queued (`QueuedInv`: of the current instruction, tried, not handled, not
passed by a cancel loop of the thread or of a worker on its behalf), and that each
thread is queued once per channel and direction (`UniqueInv`). Without `UniqueInv` the
erase of one request leaves another; without `QueuedInv` the partner found may belong to
an instruction that is over. `WakeInv` (a completed thread that may be parked has a
worker that will wake it) gives the second conjunct of the property, `NoLostWakeup`. The
deadlocks shown by `locks_polling` and `ChannelLocks!CallReturns` are behaviours of the
specification: safety holds in them.

`SchedulerProofs` proves the safety properties of the run `scheduler` for every finite
set of workers, any VM threads, every collection period and every choice of failures:
`ExclusiveExecution`, `PlacesSound`, `RunningCount`, `WakesBlockedThread`,
`OwnershipSoonFree`, `DeadlockReportSound` and the action property `GcExclusive`. All of
them follow from one inductive invariant, `SchedulerInv`. Exclusive execution needs the
places of a thread (`PlaceInv`: a thread in the queue is executed by nobody), this needs
the owner (`OwnInv`: who owns a thread executes it, gives it up or has just woken it),
and a waker that appends a thread to the queue needs to know that the thread is asleep
and that nobody else wakes it (`WakeInv`). `LockInv` gives the critical sections their
meaning, `ControlInv` and `StateInv` tie the registers of a worker and the state of a
thread to the control point, and `KnownInv` says what holds until the destructor clears
the map; after it a worker may crash, and the remaining conjuncts still hold. There is
one lemma for each conjunct and group of actions.

`HeapRaceProofs`: for any number of threads that move pointers between places of their
own, counts are exact at every step, an allocation is deleted exactly when its last
reference is given up (`RaceSound`), and the assertions of `add_ref` and `release` hold.
`RaceInv` adds to the counts what a move has read: until it stores, its source and
destination still hold what it saw (`MoveInv`). This is where `Shared = {}` is needed;
with shared module data it is false, see `HeapRace!AssertionsHold` above.

`SysProofs` has three parts. `TableInv`, for every set of calls, threads and bounds,
gives `EmptyReusable`: the numbers that can be used again are exactly the empty entries,
so "Reused FD should be null" never fails, also in the behaviours with the
faults listed above.
`CountInv` gives `FilesCounted` under `RecordsKept`: no FD value is finalized, and if
records are replaced, one thread makes the calls. Both conditions are needed: without
the first `fildes` and the finalizer disagree on the number of references, without the
second a `dup` onto a number that `open` has just made frees the file
(`FdTable!RecordsOpen`, `FdTable!NoUseAfterFree` above). The proof is about the
cardinality of the sets of holders: every action adds or removes one holder together
with one reference, and `OpenInv` (the file an `open` holds is still in the table) pays
for the reference that `open` adds later. `StreamsObey`, for any paths, descriptors,
modes, calls and failing writes: a stream can do what the mode of its descriptor allows
(`Permits`: the table of `mode_for_fopen` against what `fopen` gives; `"rwb"`, which is
no mode of `fopen`, is left out, see `FileIO!Writable` above), and after a failure
nothing moves the position but a seek or a call that throws (`ErrorStays`). `CopyInv`
adds that a copy in progress is between two descriptors of the program; `Excused` is the
action to be shown for each call.

`ProgramProofs` proves `LoaderSound`, state properties and `IdsStable`, for one VM, any
threads and finitely many paths. `EntriesInv` says that ids count the entries from the
end of the list; new entries are put in front and none is removed, hence an id is never
given twice. `WeakInv` ties an entry's pointer to the modules that are alive, `CallInv`
says which steps of `load` hold a module, `ToldInv` that each id is announced by the
thread that made it. `EntryTold`, a conjunct of the property, is kept because an id is
never given twice and only the report itself ends the step that is about to make it. One VM is a real condition: the built-in module is shared by all
VMs of a process, which overwrite its id (`ModuleLoader!IdMatches` above).

It proves `StringsSound` and the refinement `ValueSemantics` for any finite set of
registers, any runes, any size of the local buffer and any bound on lengths.
`StringsInv` says of every string, in use or not, what `GoodString` says: one byte per
character only if all are ASCII, and a cached UTF-8 form is the form of the present
characters, so that each instruction has to show that it drops or renews what it makes
stale. For the refinement, a register stands for the characters of the string it refers
to. An instruction that changes a string in place needs that nobody else refers to it:
the count is one, so no other register holds it. One that makes a copy needs a free
object: there are more objects than registers, so one is free by the pigeonhole
principle (`Fresh`). A step that writes past the memory of a string (`overflow`, see
`Strings!NoOverflow`) is excused, as in the property. Comparison is proved with the
lexicographic order the code computes byte by byte, for characters of one byte; for wide
ones it is false (`Strings!ComparesAll`).

It proves `FramesSound` for pages of any size, frames of any sizes that fit one or
exceed it, any code, modules and handlers (`FramesFit` is the assumption of `Stack`;
no exception has the empty name, see `Stack!HandlerHasPc` above).
The property is not inductive: that a register is restored depends on what all frames
below saved, and that a new frame overlaps none depends on where the pages end.
`StackInv` has four parts. `LayoutInv`: frames, with the one that waits for its call,
follow each other without a gap on a page or start the next, and each page knows its
last frame. From this `FramesInOrder` derives that frames do not overlap. `OwnInv`: a
frame that saved no module runs in that of the frame above, so the module of a frame is
determined by those above it (`RegistersFollow`) and popping restores it. `RegisterInv`
ties the state of the thread to the presence of frames. `ReferencesExact`, a conjunct of
the property: the references of a module are the number of frames that saved it and the
register (`PushRefs`, `PopRefs`, `DroppedIs` say how these numbers change when a frame
is pushed, popped, or many are unwound). Where an argument runs along the frames, the
induction is over the least counterexample (`LeastNatural`), since an induction theorem
with an operator parameter cannot be used here. There is one lemma per instruction, and
`HandlersHere` for the search of `raise`.

`ToolAttachProofs` proves for any set of threads that every thread has the dispatcher or
none has once a call returned and that a quantum ends with the dispatcher it began with
(`AttachInv`), and with at most one unload also `DispatchToggles`, thus `ToolsAttached`.
The condition `Calm` is: no thread forks, and after an unload nothing is loaded; or a
tool is there from the start, stays, and threads fork. Under either, threads may load any
number of modules. Each part excludes one
disagreement listed above: a fork that saw no dispatcher during the first load, a load
after the last unload, an unknown id unloaded, a fork after the last unload. The core is
`SetInv`: threads that are not to be set any more have the target value, because only
`main`, which holds `_tool_dispatch_lock`, changes it.

`HostProofs` proves, for any number of workers and positions, that breakpoints are
transparent (`BreakpointsTransparent`) and that the assertions on them hold, if one
actor sets breakpoints, and if it also clears them it is the only worker (`OneCaller`).
Two callers or a worker that executes while another one clears are the disagreements
`ClearFindsOriginal`, `OriginalRecorded` and `HitIsKnown`. `SetInv` says that the opcode
read before the lock is still there under it, `FetchInv` that a breakpoint that was
fetched is known until it was looked up.

It proves `ReaderSound` for every file, any bounds on items and any depth of the address
stack. A module is complete because, in each section, the items read and the items left
make up what the header announces and a later section has read nothing yet (`CountInv`);
`EndInv` says a stream that ended cannot have given an optional section; and `BaseInv`,
that the base is where the innermost `set_array` put it, keeps `restore` inside the
array it returns to.

It proves `DebuggerObeys` for any threads, positions, breaks and automatic commands but
one: `s` as an automatic command sets the trap flag before the threads are held, which
throws and ends the VM, so the property is false with it (`OptionsFit` is this condition
with the assumption of `Debugger`). In `DebuggerInv`, `PromptInv` says that threads are
held exactly at the prompt and that the saved command is what the user typed;
`StageInv`, that only the current thread is inside an instruction; `StepInv`, that a
step asked of a thread is kept by its trap flag until the trap is reported, which
together make a step one instruction. A list of commands is executed in one step of the
model, so the lemmas follow a command through its record: `Agreed` (cookies of the
debugger and of the dispatcher stay the same set) and `Harmless` (only `term`, or a step
while no thread is held, ends the VM, and only a step sets a trap flag).

Bounds are arbitrary in all of these theorems: `MaxOps`, `MaxLoads`, `NewPaths`, `MaxModules`,
`MaxCookie`, `MaxFiles`, `MaxLen`, `MaxDepth` and the like are any natural numbers.

Only model-checked, and why:

- Every liveness property (`RunnableRuns`, `CompletedRuns`, `ShutdownProgress`,
  `ToolsProgress`, `CallsReturn` and the three violations): fairness and ENABLED are
  outside the prover's reach.
- `CountsExact` and `CollectorSound`: the release of a structure in `Heap` follows
  pointers with a RECURSIVE operator, with which the prover loses its arithmetic; and
  that it reaches everything is an induction over data. `RaceSound` proves the counting
  itself, where a release does not cascade.
- `Utf8Exact`, `TokensExact` and `BytesConserved`: what loops compute over every input,
  which is an induction over data that takes an operator parameter.
- `ArithmeticExact`: products, quotients and powers modulo a power of two are nonlinear,
  and the word width is an exponent; TLC tries every operand of a small word.
- `PrintsWhole`: true of the formats in the run and not of all formats
  (`Printing!NullTerminated`, `Printing!ErrorPrinted` and `Printing!PercentOnce` above),
  so there is no general statement without listing formats.
- `SecondTableSound`: instances of `FdTable`, for which `EmptyNumbersReusable` and
  `FilesOutliveTheirUsers` prove what its conjuncts say, for all constants.

## Not modelled, and why

- Math and the floating point instructions: TLC has no floating point, and the
  conversions of text are vendored code.
- The assembler library (symbol files, type signatures, printing of instructions),
  logging and the parsing of options: text processing without state that outlives a
  call.
- Addition, bit operations, comparisons and branches of the interpreter: each is one
  expression; a model would repeat it. Decoding of operand addresses likewise.
- `sleep` and `millisec` of Sys, which only wait or read a clock; the calls that throw
  "Function not implemented".
- The search for a module on probing paths and the buffering of its stream; what is
  found is a choice in `ModuleLoader`.
- Failure of an allocation: the code has no path for it. The exception is a buffer of
  `Printing` that grows without end (`Exhausted`).
- An iterator of the scheduler's map used after its lock is released in
  `enqueue_blocked_thread` (scheduler.cpp:243), which a rehash by a concurrent fork
  invalidates: in the models the map is a set of threads.
- A module without module data as the target of `mcall` (execution_table.cpp:1560, a null
  dereference): `Stack` counts references of modules and has no module data.
- The Limbo compiler and the test programs: not code of the VM.

The composition of `Channel` with `Scheduler` is by their interfaces: `Channel` has
the scheduler reduced to `Park` and `Dispatch`, `Scheduler` has the channels reduced
to `Block` and `CompletePeer`. One module with both is beyond TLC at sizes where the
races of either happen.
