------------------------------- MODULE FileIO -------------------------------
(***************************************************************************)
(* Files behind descriptors (sys/fd_types.cpp) and the calls that open,    *)
(* read, write, position, copy and remove them (sys/Sysmod.cpp).           *)
(*                                                                         *)
(* A path names an inode, which lives on while it is open.  The C library  *)
(* (fopen, fread, fwrite, fseek, remove) is external: a stream can read,   *)
(* write or both, has a position and an error flag, and its writes are in  *)
(* the file at once (its buffers are not modelled).  Bytes are numbered,   *)
(* so that each can be followed.                                           *)
(***************************************************************************)
EXTENDS Integers, Sequences, FiniteSets, FiniteSetsExt

CONSTANTS Threads,  \* vm threads
          MaxPaths, \* paths that may name a file
          Fds,      \* descriptors that can be open at a time
          Modes,    \* the modes the program asks for: sets of Sys_O flags
          Calls,    \* calls the program makes
          Inputs,   \* descriptors that begin open for reading the first file
          Outputs,  \* descriptor |-> path, open for writing a new file
          Source,   \* bytes in the first file
          BufSize,  \* buffer size of read, write and stream
          MaxBytes, \* bound: bytes ever written by Sys_write, size of a file
          MaxInodes,\* bound: files ever created
          MaxFaults \* bound: writes that fail

Paths == 1..MaxPaths
FileAssumption ==
    /\ MaxPaths \in Nat \ {0} /\ MaxInodes >= MaxPaths /\ BufSize \in Nat \ {0}
    /\ Inputs \subseteq Fds /\ DOMAIN Outputs \subseteq Fds \ Inputs

VARIABLES
    dir,    \* path |-> inode, 0 for none
    data,   \* inode |-> bytes
    made,   \* inodes created so far
    fd,     \* descriptors
    call,   \* what each thread is doing
    lock,   \* holder of _create_file_path_mutex, or "free"
    fresh,  \* bytes written by Sys_write so far
    faults, \* writes that failed
    seen    \* bytes of an input that were returned to the program or dropped by an exception
vars == <<dir, data, made, fd, call, lock, fresh, faults, seen>>

Closed == [inode |-> 0, path |-> 0, mode |-> {}, can |-> {}, pos |-> 0, err |-> FALSE]
Idle == [step |-> "idle", path |-> 0, mode |-> {}, src |-> 0, dst |-> 0, buf |-> <<>>, count |-> 0,
         result |-> "none"]
Open(f) == fd[f] # Closed
Busy(f) == \E t \in Threads : f \in {call[t].src, call[t].dst}
CanCall(t, what) == call[t].step = "idle" /\ what \in Calls
Smaller(m, n) == IF m < n THEN m ELSE n
Larger(m, n) == IF m < n THEN n ELSE m

(* The first file exists; so do the outputs, which are empty.              *)
Given == {1} \cup {Outputs[f] : f \in DOMAIN Outputs}
OpenFor(p, what) == [Closed EXCEPT !.inode = p, !.path = p, !.mode = {what}, !.can = {what}]
Init ==
    /\ dir = [p \in Paths |-> IF p \in Given THEN p ELSE 0]
    /\ data = [i \in 1..MaxInodes |-> IF i = 1 THEN [k \in 1..Source |-> k] ELSE <<>>]
    /\ made = MaxPaths
    /\ fd = [f \in Fds |-> IF f \in Inputs THEN OpenFor(1, "read")
                           ELSE IF f \in DOMAIN Outputs THEN OpenFor(Outputs[f], "write") ELSE Closed]
    /\ call = [t \in Threads |-> Idle]
    /\ lock = "free"
    /\ fresh = Source
    /\ faults = 0
    /\ seen = <<>>

-----------------------------------------------------------------------------
(* convert_to_openmode: OREAD is the absence of OWRITE and ORDWR adds both.*)
convert_to_openmode(m) ==
    (IF "OWRITE" \in m THEN {"write"} ELSE {"read"})
    \cup (IF "ORDWR" \in m THEN {"read", "write"} ELSE {})
    \cup (IF "OTRUNC" \in m THEN {"truncate"} ELSE {})
    \cup (IF "OEXCL" \in m THEN {"atomic"} ELSE {})
    \cup (IF "ORCLOSE" \in m THEN {"delete_on_close"} ELSE {})

(* fopen_mode_strings                                                      *)
mode_for_fopen(mode) ==
    LET w == "write" \in mode  r == "read" \in mode  t == "truncate" \in mode IN
    CASE r /\ ~w /\ ~t -> "rb"
      [] ~r /\ w /\ ~t -> "wb"
      [] r /\ w /\ ~t -> "rwb"
      [] r /\ ~w /\ t -> "rb+"
      [] ~r /\ w /\ t -> "wb+"
      [] r /\ w /\ t -> "wb+"

(* The C library: what a stream can do; "rwb" is not a mode of C, and is   *)
(* refused or taken for "rb".                                              *)
Capability(m) ==
    CASE m \in {"rb", "rwb"} -> {"read"}
      [] m = "wb" -> {"write"}
      [] OTHER -> {"read", "write"}
Creates(m) == m \in {"wb", "wb+"}

(* fopen and the new sys_fd_t.                                             *)
Fopened(p, mode) ==
    LET m == mode_for_fopen(mode)
        inode == IF dir[p] # 0 THEN dir[p] ELSE made + 1
    IN \/ /\ dir[p] # 0 \/ (Creates(m) /\ made < MaxInodes)
          /\ \E f \in Fds :
                /\ ~Open(f)
                /\ fd' = [fd EXCEPT ![f] = [Closed EXCEPT !.inode = inode, !.path = p, !.mode = mode,
                                                          !.can = Capability(m)]]
          /\ dir' = [dir EXCEPT ![p] = inode]
          /\ made' = Larger(made, inode)
          /\ data' = IF Creates(m) THEN [data EXCEPT ![inode] = <<>>] ELSE data
       \/ /\ (dir[p] = 0 /\ ~Creates(m)) \/ m = "rwb"
          /\ UNCHANGED <<dir, data, made, fd>>

(***************************************************************************)
(* Sys_open and Sys_create: create_from_file_path takes the mutex for      *)
(* OEXCL; open looks first whether the file exists, create does not.       *)
(***************************************************************************)
Locks(t, mode) ==
    IF "atomic" \in mode THEN lock = "free" /\ lock' = t ELSE UNCHANGED lock
Unlocks(t) == lock' = IF lock = t THEN "free" ELSE lock
Sys_open(t, p, m) ==
    /\ CanCall(t, "open")
    /\ Locks(t, convert_to_openmode(m))
    /\ call' = [call EXCEPT ![t] = [Idle EXCEPT !.step = "check", !.path = p,
                                    !.mode = convert_to_openmode(m)]]
    /\ UNCHANGED <<dir, data, made, fd, fresh, faults, seen>>

Exists(p) == dir[p] # 0
Check(t) ==
    /\ call[t].step = "check"
    /\ IF Exists(call[t].path)
       THEN call' = [call EXCEPT ![t].step = "found"] /\ UNCHANGED lock
       ELSE call' = [call EXCEPT ![t] = Idle] /\ Unlocks(t)
    /\ UNCHANGED <<dir, data, made, fd, fresh, faults, seen>>

OpenFound(t) ==
    /\ call[t].step = "found"
    /\ Fopened(call[t].path, call[t].mode)
    /\ call' = [call EXCEPT ![t] = Idle]
    /\ Unlocks(t)
    /\ UNCHANGED <<fresh, faults, seen>>

Sys_create(t, p, m) ==
    /\ CanCall(t, "create")
    /\ "atomic" \in convert_to_openmode(m) => lock = "free"
    /\ Fopened(p, convert_to_openmode(m))
    /\ UNCHANGED <<call, lock, fresh, faults, seen>>

(* ~sys_fd_t, when the last reference is gone: ORCLOSE removes by path.    *)
Close(t, f) ==
    /\ CanCall(t, "close") /\ Open(f) /\ ~Busy(f)
    /\ fd' = [fd EXCEPT ![f] = Closed]
    /\ dir' = IF "delete_on_close" \in fd[f].mode THEN [dir EXCEPT ![fd[f].path] = 0] ELSE dir
    /\ UNCHANGED <<data, made, call, lock, fresh, faults, seen>>

Sys_remove(t, p) ==
    /\ CanCall(t, "remove") /\ dir[p] # 0
    /\ dir' = [dir EXCEPT ![p] = 0]
    /\ UNCHANGED <<data, made, fd, call, lock, fresh, faults, seen>>

-----------------------------------------------------------------------------
(***************************************************************************)
(* sys_fd_t::read.  fread moves the position also when the error flag of   *)
(* an earlier failure is still set, and ferror then throws: the flag is    *)
(* never cleared.                                                          *)
(***************************************************************************)
FreadTo(f) ==
    IF "read" \notin fd[f].can THEN fd[f].pos
    ELSE Larger(fd[f].pos, Smaller(fd[f].pos + BufSize, Len(data[fd[f].inode])))
Fread(f) == IF FreadTo(f) = fd[f].pos THEN <<>>
            ELSE SubSeq(data[fd[f].inode], fd[f].pos + 1, FreadTo(f))
ReadError(f) == fd[f].err \/ "read" \notin fd[f].can
FaultAfterRead(f) == [fd EXCEPT ![f].err = ReadError(f)]
AfterRead(f) == [fd EXCEPT ![f].pos = FreadTo(f), ![f].err = ReadError(f)]

(* sys_fd_t::write.  A write may fail (`fails'): nothing is written then;  *)
(* with the flag of an earlier failure bytes are written and it throws.    *)
FaultWriteError(f, fails) == fails \/ "write" \notin fd[f].can
WriteError(f, fails) == fails \/ fd[f].err \/ "write" \notin fd[f].can
Fwritten(f, bytes, fails) ==
    LET old == data[fd[f].inode]  pos == fd[f].pos IN
    IF fails \/ "write" \notin fd[f].can THEN old
    ELSE [k \in 1..Larger(Len(old), pos + Len(bytes)) |->
             IF k - pos \in 1..Len(bytes) THEN bytes[k - pos] ELSE IF k <= Len(old) THEN old[k] ELSE 0]
Write(f, bytes, fails) ==
    /\ fd[f].pos + Len(bytes) <= MaxBytes
    /\ fails => faults < MaxFaults
    /\ faults' = IF fails THEN faults + 1 ELSE faults
    /\ data' = [data EXCEPT ![fd[f].inode] = Fwritten(f, bytes, fails)]
    /\ fd' = [fd EXCEPT ![f].err = WriteError(f, fails),
                        ![f].pos = IF fails \/ "write" \notin fd[f].can THEN @ ELSE @ + Len(bytes)]

(* A call that used a stream goes on or ends; only it has a result then.   *)
Goes(t, c) ==
    call' = [u \in Threads |-> IF u = t THEN c ELSE [call[u] EXCEPT !.result = "none"]]
Returned(t, how) == Goes(t, [Idle EXCEPT !.result = how])

Sees(f, bytes) == seen' = IF f \in Inputs THEN seen \o bytes ELSE seen

(* Sys_read and Sys_write: a descriptor of the wrong mode throws at once.  *)
Sys_read(t, f) ==
    /\ CanCall(t, "read") /\ Open(f) /\ "read" \in fd[f].mode
    /\ fd' = AfterRead(f)
    /\ Sees(f, Fread(f))
    /\ Returned(t, IF ReadError(f) THEN "throws" ELSE "read")
    /\ UNCHANGED <<dir, data, made, lock, fresh, faults>>

Sys_write(t, f, fails) ==
    /\ CanCall(t, "write") /\ Open(f) /\ "write" \in fd[f].mode
    /\ fresh + BufSize <= MaxBytes
    /\ fresh' = fresh + BufSize
    /\ Write(f, [k \in 1..BufSize |-> fresh + k], fails)
    /\ Returned(t, IF WriteError(f, fails) THEN "throws" ELSE "written")
    /\ UNCHANGED <<dir, made, lock, seen>>

WrongMode(t, f, what) ==
    /\ CanCall(t, what) /\ Open(f) /\ what \notin fd[f].mode
    /\ Returned(t, "throws")
    /\ UNCHANGED <<dir, data, made, fd, lock, fresh, faults, seen>>

(* Sys_seek: from the start, the position or the end; a place before the   *)
(* start is refused, one past the end is not.                              *)
SeekBase(f, start) ==
    CASE start = "start" -> 0 [] start = "relative" -> fd[f].pos [] OTHER -> Len(data[fd[f].inode])
Sys_seek(t, f, start, off) ==
    /\ CanCall(t, "seek") /\ Open(f)
    /\ SeekBase(f, start) + off <= MaxBytes
    /\ IF SeekBase(f, start) + off < 0 THEN Returned(t, "throws") /\ UNCHANGED fd
       ELSE fd' = [fd EXCEPT ![f].pos = SeekBase(f, start) + off] /\ Returned(t, "sought")
    /\ UNCHANGED <<dir, data, made, lock, fresh, faults, seen>>

(***************************************************************************)
(* Sys_stream: blocks are read from src and written to dst until a read    *)
(* gives none; an exception ends it between any two.                       *)
(***************************************************************************)
Sys_stream(t, s, d) ==
    /\ CanCall(t, "stream") /\ Open(s) /\ Open(d)
    /\ call' = [call EXCEPT ![t] = [Idle EXCEPT !.step = "reading", !.src = s, !.dst = d]]
    /\ UNCHANGED <<dir, data, made, fd, lock, fresh, faults, seen>>

EndOfFile(f) == Fread(f) = <<>>
StreamRead(t) ==
    LET c == call[t] IN
    /\ c.step = "reading" /\ "read" \in fd[c.src].mode
    /\ fd' = AfterRead(c.src)
    /\ CASE ReadError(c.src) -> Returned(t, "throws") /\ Sees(c.src, Fread(c.src))
         [] ~ReadError(c.src) /\ EndOfFile(c.src) ->
                /\ Goes(t, [Idle EXCEPT !.result = "streamed", !.count = c.count])
                /\ UNCHANGED seen
         [] OTHER -> /\ Goes(t, [c EXCEPT !.step = "writing", !.buf = Fread(c.src)])
                     /\ UNCHANGED seen
    /\ UNCHANGED <<dir, data, made, lock, fresh, faults>>

Streamed(c) == Len(c.buf) + c.count
StreamWrite(t, fails) ==
    LET c == call[t] IN
    /\ c.step = "writing" /\ "write" \in fd[c.dst].mode
    /\ Write(c.dst, c.buf, fails)
    /\ IF WriteError(c.dst, fails)
       THEN /\ Returned(t, "throws")
            /\ Sees(c.src, IF fails \/ "write" \notin fd[c.dst].can THEN c.buf ELSE <<>>)
       ELSE /\ Goes(t, [c EXCEPT !.step = "reading", !.buf = <<>>, !.count = Streamed(c)])
            /\ UNCHANGED seen
    /\ UNCHANGED <<dir, made, lock, fresh>>

StreamWrongMode(t) ==
    LET c == call[t] IN
    /\ \/ c.step = "reading" /\ "read" \notin fd[c.src].mode
       \/ c.step = "writing" /\ "write" \notin fd[c.dst].mode
    /\ Returned(t, "throws")
    /\ Sees(c.src, c.buf)
    /\ UNCHANGED <<dir, data, made, fd, lock, fresh, faults>>

StreamStep(t) == StreamRead(t) \/ (\E fails \in BOOLEAN : StreamWrite(t, fails)) \/ StreamWrongMode(t)

Next ==
    \E t \in Threads :
        \/ \E p \in Paths, m \in Modes : Sys_open(t, p, m) \/ Sys_create(t, p, m)
        \/ Check(t) \/ OpenFound(t)
        \/ \E p \in Paths : Sys_remove(t, p)
        \/ \E f \in Fds : Close(t, f) \/ Sys_read(t, f)
        \/ \E f \in Fds, fails \in BOOLEAN : Sys_write(t, f, fails)
        \/ \E f \in Fds, what \in {"read", "write"} : WrongMode(t, f, what)
        \/ \E f \in Fds, start \in {"start", "relative", "end"}, off \in -1..1 :
               Sys_seek(t, f, start, off)
        \/ \E s, d \in Fds : Sys_stream(t, s, d)
        \/ StreamStep(t)
Spec == Init /\ [][Next]_vars
FairSpec == Spec /\ \A t \in Threads : WF_vars(StreamStep(t))

-----------------------------------------------------------------------------
(* How often a byte is in an output, and anywhere: there, in a block on    *)
(* its way, or seen.                                                       *)
InSeq(s, k) == Cardinality({n \in 1..Len(s) : s[n] = k})
InOutputs(k) == MapThenSumSet(LAMBDA f : InSeq(data[Outputs[f]], k), DOMAIN Outputs)
Everywhere(k) == InOutputs(k) + MapThenSumSet(LAMBDA t : InSeq(call[t].buf, k), Threads) + InSeq(seen, k)

(* Threads that read and copy from one descriptor, to one or to several,   *)
(* take every byte of the file exactly once: it is delivered, on its way,  *)
(* returned to the program, or was dropped by a failure; none is taken     *)
(* that the position has not passed.                                       *)
Conserved ==
    \A f \in Inputs : \A k \in 1..Source : Everywhere(k) = IF k <= fd[f].pos THEN 1 ELSE 0

(* The counts that the latest copies returned, or have reached, add up to  *)
(* no more than the bytes delivered.                                       *)
CountTrue ==
    MapThenSumSet(LAMBDA t : call[t].count, Threads) <= MapThenSumSet(InOutputs, 1..Source)

(* A copy comes to its end.                                                *)
StreamEnds == \A t \in Threads : call[t].step = "reading" ~> call[t].step = "idle"

(* The stream of a descriptor can do what its mode allows, whichever flags *)
(* it was opened with, "rwb" excepted.                                     *)
Permits ==
    \A f \in Fds : Open(f) /\ mode_for_fopen(fd[f].mode) # "rwb" =>
        fd[f].mode \cap {"read", "write"} \subseteq fd[f].can

(* After a failure no call on that descriptor succeeds again: the call     *)
(* that moved its position, the one with a result, was a seek, or threw.   *)
ErrorStays ==
    [][\A f \in Fds : Open(f) /\ fd[f].err /\ fd'[f].pos # fd[f].pos /\ fd'[f] # Closed =>
           \E t \in Threads : call'[t].result \in {"throws", "sought"}]_vars

(* "R W T": a file that is opened without truncation keeps its bytes.      *)
KeepsContent ==
    fresh = Source /\ (\A m \in Modes : "OTRUNC" \notin m) => data[1] = [k \in 1..Source |-> k]

(* "R W T": a descriptor for writing can write.                            *)
Writable == \A f \in Fds : Open(f) /\ "write" \in fd[f].mode => "write" \in fd[f].can

(* "Check if the file already exists": open makes no file.                 *)
OpenFinds == "create" \notin Calls => made = MaxPaths
=============================================================================
