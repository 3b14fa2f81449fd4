------------------------------ MODULE FdTable ------------------------------
(***************************************************************************)
(* The table of file descriptors (sys/fd_manager.cpp) and the calls of the *)
(* Sys module that keep references in it (sys/Sysmod.cpp).                 *)
(*                                                                         *)
(* An open file is a vm_fd_t with a reference count.  A number names it    *)
(* through fd_map, and a Limbo program holds it through FD values (the ADT *)
(* Sys_FD_Impl: a number and a pointer to the file).  fd_map_lock makes    *)
(* each operation on the table one step; the steps between two of them in  *)
(* one call are not covered by it.  Memory that is used after it was freed *)
(* ends the behaviour: `fault' says how.                                   *)
(***************************************************************************)
EXTENDS Integers, Sequences, FiniteSets

CONSTANTS Threads,    \* vm threads that call the Sys module
          Adts,       \* FD values that can exist at a time
          Calls,      \* calls the program makes
          MaxFiles,   \* bound: vm_fd_t instances ever created
          MaxNumbers, \* bound: numbers ever in the table
          MaxRefs     \* bound: reference count of one file

Files == 1..MaxFiles
Nil == 0
Stdin == 1
Stdout == 2
Stderr == 3
AllCalls == {"open", "fildes", "dup", "dup2", "print", "use", "collect"}

FdAssumption ==
    /\ MaxFiles \in Nat /\ MaxFiles >= 3
    /\ MaxNumbers \in Nat /\ MaxNumbers >= 3
    /\ MaxRefs \in Nat /\ MaxRefs >= 1
    /\ Calls \subseteq AllCalls

VARIABLES
    fdMap,     \* fd_map: number + 1 |-> file, or Nil
    available, \* fd_available: numbers to use again
    refs,      \* reference count of each file; 0 before and after its life
    created,   \* files created so far
    adt,       \* FD values: [fd, impl], impl = Nil when there is none
    at,        \* where each thread is, and the file it holds there
    fault      \* "none", or what the program did to end this behaviour

vars == <<fdMap, available, refs, created, adt, at, fault>>

Live(o) == o \in 1..created /\ refs[o] > 0
Idle == [step |-> "idle", file |-> Nil, fd |-> -1]
NoAdt == [fd |-> -1, impl |-> Nil]
Entry(fd) == IF fd \in 0..(Len(fdMap) - 1) THEN fdMap[fd + 1] ELSE Nil
CanRun(t, call) == fault = "none" /\ call \in Calls /\ at[t] = Idle

TypeOK ==
    /\ fdMap \in Seq(Files \cup {Nil}) /\ Len(fdMap) <= MaxNumbers
    /\ available \subseteq 0..(MaxNumbers - 1)
    /\ refs \in [Files -> 0..MaxRefs]
    /\ created \in Files
    /\ adt \in [Adts -> [fd : -1..(MaxNumbers - 1), impl : Files \cup {Nil}]]
    /\ at \in [Threads -> [step : {"idle", "open", "dup", "dup2", "print", "collect"},
                           file : Files \cup {Nil}, fd : -1..(MaxNumbers - 1)]]
    /\ fault \in {"none", "freed", "null", "assert"}

(***************************************************************************)
(* Sysmodinit: the standard streams take the numbers 0, 1 and 2; only the  *)
(* table refers to them.                                                   *)
(***************************************************************************)
Init ==
    /\ fdMap = <<Stdin, Stdout, Stderr>>
    /\ available = {}
    /\ refs = [o \in Files |-> IF o <= 3 THEN 1 ELSE 0]
    /\ created = 3
    /\ adt = [a \in Adts |-> NoAdt]
    /\ at = [t \in Threads |-> Idle]
    /\ fault = "none"

(***************************************************************************)
(* The reference count, add_ref and release; using a file that was freed   *)
(* is a fault.                                                             *)
(***************************************************************************)
AddRef(o) == [refs EXCEPT ![o] = @ + 1]
Release(o) == [refs EXCEPT ![o] = @ - 1]
Faulted(what) == fault' = what /\ UNCHANGED <<fdMap, available, refs, created, adt, at>>

(* create_fd_record: the smallest number given back, or the next one.      *)
Smallest(S) == CHOOSE n \in S : \A m \in S : n <= m
NewNumber == IF available = {} THEN Len(fdMap) ELSE Smallest(available)
CanCreateRecord == available # {} \/ Len(fdMap) < MaxNumbers
create_fd_record(o) ==
    /\ CanCreateRecord
    /\ fdMap' = IF available = {} THEN Append(fdMap, o)
                                  ELSE [fdMap EXCEPT ![NewNumber + 1] = o]
    /\ available' = available \ {NewNumber}

(* The plausible mistake: the entry keeps the deleted file.                *)
FaultKeepsEntry(fd) == fdMap

(***************************************************************************)
(* drop_fd_record: one reference of the entry is given up, and the entry   *)
(* is cleared only if that was the last one.                               *)
(***************************************************************************)
DroppedMap(fd) == IF refs[Entry(fd)] = 1 THEN [fdMap EXCEPT ![fd + 1] = Nil] ELSE fdMap
drop_fd_record(fd) ==
    /\ refs' = Release(Entry(fd))
    /\ fdMap' = DroppedMap(fd)
    /\ available' = IF refs[Entry(fd)] = 1 THEN available \cup {fd} ELSE available

(***************************************************************************)
(* Sys_open and Sys_create: a new file with one reference, the table's; the*)
(* FD value's own reference follows outside of the lock (create_new).  The *)
(* value in the return slot is released first: `collect' by the same       *)
(* thread.  A file that cannot be opened changes nothing here.             *)
(***************************************************************************)
OpenRecord(t) ==
    /\ CanRun(t, "open")
    /\ created < MaxFiles
    /\ created' = created + 1
    /\ refs' = [refs EXCEPT ![created'] = 1]
    /\ create_fd_record(created')
    /\ at' = [at EXCEPT ![t] = [step |-> "open", file |-> created', fd |-> NewNumber]]
    /\ UNCHANGED <<adt, fault>>

NewAdtRefs(o) == AddRef(o)

OpenAdopt(t) ==
    /\ fault = "none" /\ at[t].step = "open"
    /\ LET o == at[t].file IN
       IF ~Live(o) THEN Faulted("freed")
       ELSE \E a \in Adts :
            /\ adt[a] = NoAdt /\ refs[o] < MaxRefs
            /\ adt' = [adt EXCEPT ![a] = [fd |-> at[t].fd, impl |-> o]]
            /\ refs' = NewAdtRefs(o)
            /\ at' = [at EXCEPT ![t] = Idle]
            /\ UNCHANGED <<fdMap, available, created, fault>>

(***************************************************************************)
(* fetch_fd_record: the entry with one more reference, null if the number  *)
(* names none.                                                             *)
(***************************************************************************)
FaultFetch(o) == refs
FetchedRefs(o) == AddRef(o)
fetch_fd_record(fd) ==
    /\ Entry(fd) # Nil
    /\ refs[Entry(fd)] < MaxRefs
    /\ refs' = FetchedRefs(Entry(fd))

(* Sys_fildes: an FD value for a number in use.  A number without an entry *)
(* gives nil and changes nothing.                                          *)
Sys_fildes(t, fd) ==
    /\ CanRun(t, "fildes")
    /\ Entry(fd) # Nil
    /\ IF ~Live(Entry(fd)) THEN Faulted("freed")
       ELSE \E a \in Adts :
            /\ adt[a] = NoAdt
            /\ fetch_fd_record(fd)
            /\ adt' = [adt EXCEPT ![a] = [fd |-> fd, impl |-> Entry(fd)]]
            /\ UNCHANGED <<fdMap, available, created, at, fault>>

(***************************************************************************)
(* Sys_dup(old, new): fetch the old record, then make a new record of it   *)
(* (new = -1) or put it in place of another.  The second half takes the    *)
(* lock again.                                                             *)
(***************************************************************************)
DupFetch(t, fd) ==
    /\ CanRun(t, "dup") \/ CanRun(t, "dup2")
    /\ Entry(fd) # Nil
    /\ IF ~Live(Entry(fd)) THEN Faulted("freed")
       ELSE /\ fetch_fd_record(fd)
            /\ \E s \in {"dup", "dup2"} \cap Calls :
                   at' = [at EXCEPT ![t] = [step |-> s, file |-> Entry(fd), fd |-> fd]]
            /\ UNCHANGED <<fdMap, available, created, adt, fault>>

DupNew(t) ==
    /\ fault = "none" /\ at[t].step = "dup"
    /\ create_fd_record(at[t].file)
    /\ at' = [at EXCEPT ![t] = Idle]
    /\ UNCHANGED <<refs, created, adt, fault>>

(***************************************************************************)
(* try_update_fd_record.  A number outside of the table is refused with an *)
(* exception, and the reference fetched above is not given back.  An entry *)
(* that is empty is released all the same.                                 *)
(***************************************************************************)
DupRefused(t, fd) ==
    /\ fault = "none" /\ at[t].step = "dup2"
    /\ fd \notin 0..(Len(fdMap) - 1)
    /\ at' = [at EXCEPT ![t] = Idle]
    /\ UNCHANGED <<fdMap, available, refs, created, adt, fault>>

try_update_fd_record(t, fd) ==
    /\ fault = "none" /\ at[t].step = "dup2"
    /\ fd \in 0..(Len(fdMap) - 1)
    /\ IF Entry(fd) = Nil THEN Faulted("null")
       ELSE IF ~Live(Entry(fd)) THEN Faulted("freed")
       ELSE /\ refs' = Release(Entry(fd))
            /\ fdMap' = [fdMap EXCEPT ![fd + 1] = at[t].file]
            /\ at' = [at EXCEPT ![t] = Idle]
            /\ UNCHANGED <<available, created, adt, fault>>

(***************************************************************************)
(* Sys_print: fetch the record of stdout, write, give the reference back.  *)
(* A write that throws (an I/O error, or the number 1 now names a file that*)
(* is not open for writing) skips the last part.                           *)
(***************************************************************************)
PrintFetch(t) ==
    /\ CanRun(t, "print")
    /\ Entry(1) # Nil
    /\ IF ~Live(Entry(1)) THEN Faulted("freed")
       ELSE /\ fetch_fd_record(1)
            /\ at' = [at EXCEPT ![t] = [step |-> "print", file |-> Entry(1), fd |-> 1]]
            /\ UNCHANGED <<fdMap, available, created, adt, fault>>

PrintThrows(t) ==
    /\ fault = "none" /\ at[t].step = "print"
    /\ at' = [at EXCEPT ![t] = Idle]
    /\ UNCHANGED <<fdMap, available, refs, created, adt, fault>>

PrintRelease(t) ==
    /\ fault = "none" /\ at[t].step = "print"
    /\ at[t].file # Stdin
    /\ IF ~Live(at[t].file) THEN Faulted("freed")
       ELSE /\ refs' = Release(at[t].file)
            /\ at' = [at EXCEPT ![t] = Idle]
            /\ UNCHANGED <<fdMap, available, created, adt, fault>>

(* Sys_read, Sys_write, Sys_seek, Sys_fprint, Sys_stream: the file is used *)
(* through the pointer in the FD value; the table is not asked.            *)
UseFile(t, a) ==
    /\ CanRun(t, "use")
    /\ adt[a] # NoAdt
    /\ ~Live(adt[a].impl)
    /\ Faulted("freed")

(***************************************************************************)
(* ~Sys_FD_Impl, run when the last reference to an FD value goes or the    *)
(* collector finds it: drop_fd_record for its number, then the release of  *)
(* its pointer.                                                            *)
(***************************************************************************)
FinalizeDrop(t, a) ==
    /\ CanRun(t, "collect")
    /\ adt[a] # NoAdt
    /\ LET fd == adt[a].fd IN
       IF Entry(fd) = Nil THEN Faulted("assert")
       ELSE IF ~Live(Entry(fd)) THEN Faulted("freed")
       ELSE /\ drop_fd_record(fd)
            /\ adt' = [adt EXCEPT ![a] = NoAdt]
            /\ at' = [at EXCEPT ![t] = [step |-> "collect", file |-> adt[a].impl, fd |-> fd]]
            /\ UNCHANGED <<created, fault>>

FinalizeRelease(t) ==
    /\ fault = "none" /\ at[t].step = "collect"
    /\ IF ~Live(at[t].file) THEN Faulted("freed")
       ELSE /\ refs' = Release(at[t].file)
            /\ at' = [at EXCEPT ![t] = Idle]
            /\ UNCHANGED <<fdMap, available, created, adt, fault>>

Numbers == 0..(MaxNumbers - 1)
Next ==
    \/ \E t \in Threads :
        \/ OpenRecord(t) \/ OpenAdopt(t)
        \/ \E fd \in Numbers : Sys_fildes(t, fd) \/ DupFetch(t, fd)
        \/ DupNew(t)
        \/ \E fd \in Numbers : DupRefused(t, fd) \/ try_update_fd_record(t, fd)
        \/ PrintFetch(t) \/ PrintThrows(t) \/ PrintRelease(t)
        \/ \E a \in Adts : UseFile(t, a) \/ FinalizeDrop(t, a)
        \/ FinalizeRelease(t)

Spec == Init /\ [][Next]_vars

-----------------------------------------------------------------------------
(* References a file must have: table entries, FD values, calls under way. *)
Holders(o) ==
    Cardinality({i \in DOMAIN fdMap : fdMap[i] = o})
        + Cardinality({a \in Adts : adt[a].impl = o})
        + Cardinality({t \in Threads : at[t].step \in {"dup", "dup2", "print"} /\ at[t].file = o})

(* No call touches a file that was closed and freed: neither through the   *)
(* table nor through the pointer kept in an FD value.                      *)
NoUseAfterFree == fault # "freed"

(* Every file has at least one reference for each table entry, FD value    *)
(* and call that points to it, so it outlives them all.                    *)
Counted == \A o \in 1..created : refs[o] >= Holders(o)

(* A number in the table names an open file: what fetch_fd_record returns  *)
(* (to fildes, dup and print) is null or a file that still exists.         *)
RecordsOpen == \A i \in DOMAIN fdMap : fdMap[i] # Nil => Live(fdMap[i])

(* fd_available is exactly the set of empty entries: create_fd_record never*)
(* overwrites a record ("Reused FD should be null") and no number is lost. *)
EmptyReusable == available = {i - 1 : i \in {j \in DOMAIN fdMap : fdMap[j] = Nil}}

(* The number 1 names stdout until the program itself puts another file    *)
(* there with dup.                                                         *)
StdoutStays == fdMap[2] = Stdout /\ Live(Stdout)

(* Every file has a reference for each table entry, FD value and call that *)
(* points to it; no file is reached after it was freed, through the table  *)
(* or an FD value; and 1 names stdout (fd_manager.cpp, Sysmod.cpp).        *)
FilesCounted ==
    /\ TypeOK /\ Counted /\ NoUseAfterFree /\ RecordsOpen
    /\ "dup2" \notin Calls => StdoutStays

-----------------------------------------------------------------------------
(* The inductive invariant: the part that holds whatever the calls, and    *)
(* the part that needs every reference to be given up by its owner.        *)

(* The files that are named exist.                                         *)
NamedInv ==
    /\ \A i \in DOMAIN fdMap : fdMap[i] \in 0..created
    /\ \A a \in Adts : adt[a].impl \in 0..created
    /\ \A t \in Threads : at[t].file \in 0..created

(* A call under way is one the program makes, and holds a file, as an FD   *)
(* value does.                                                             *)
CallInv ==
    /\ \A a \in Adts : adt[a] # NoAdt => adt[a].impl # Nil
    /\ \A t \in Threads : at[t].step # "idle" => at[t].step \in Calls /\ at[t].file # Nil

TableInv == TypeOK /\ NamedInv /\ CallInv /\ EmptyReusable

(* No FD value is given up, and no thread replaces a record that another   *)
(* has just made.                                                          *)
RecordsKept ==
    /\ "collect" \notin Calls
    /\ "dup2" \in Calls => \A t, u \in Threads : t = u

(* A new file is in the table until its FD value exists.                   *)
OpenInv ==
    \A t \in Threads : at[t].step = "open" => \E i \in DOMAIN fdMap : fdMap[i] = at[t].file

StdoutInv == "dup2" \notin Calls => Len(fdMap) >= 2 /\ fdMap[2] = Stdout

CountInv ==
    /\ TableInv
    /\ available = {} /\ Counted /\ OpenInv /\ StdoutInv /\ fault = "none"
=============================================================================
