----------------------------- MODULE HostProofs -----------------------------
(***************************************************************************)
(* Proofs about ToolDispatch, ModuleReader and Debugger, in the module     *)
(* that composes them: breakpoints are transparent to any number of        *)
(* workers, where one thread sets them, or one that is the only worker     *)
(* sets and clears them; a module that the reader returns is complete,     *)
(* whatever the file; the debugger obeys under any options.                *)
(***************************************************************************)
EXTENDS MCHost, SequenceTheorems, TLAPS

(* One thread makes the calls about breakpoints; where it clears them no   *)
(* other worker executes.  Without either the code disagrees.              *)
OneCaller ==
    /\ ToolAssumption
    /\ \A a, b \in Actors : Calls[a] \cap {"set", "clear"} # {} /\ Calls[b] \cap {"set", "clear"} # {}
                               => a = b
    /\ \A a \in Actors : "clear" \in Calls[a] => Workers \subseteq {a}

ControlPoints == {"loop", "block", "waiting", "woken", "fetch", "exec", "resumed",
                  "callback", "setting", "suspending", "ended"}

(* FetchInv for one worker, at a control point with an opcode.             *)
FetchOf(l, o, p) ==
    /\ l \in {"exec", "resumed"} => o # Nil /\ (o = "brkpt" => original[p] # Nil)
    /\ l \in {"callback", "setting", "suspending"} => o # "brkpt"

-----------------------------------------------------------------------------
LEMMA BreakpointsStart ==
    ASSUME OneCaller, Init
    PROVE  BreakpointInv
  <1>1. TypeOK
    BY DEF OneCaller, ToolAssumption, Init, TypeOK, Actors
  <1>2. RecordInv
    BY DEF Init, RecordInv, BreakpointsAgree
  <1>3. SetInv
    BY DEF Init, SetInv
  <1>4. FetchInv
    BY DEF OneCaller, ToolAssumption, Init, FetchInv, Actors
  <1> QED
    BY <1>1, <1>2, <1>3, <1>4 DEF BreakpointInv

(* A step of one actor that touches no breakpoint and reads none to set.   *)
LEMMA OthersKeep ==
    ASSUME OneCaller, BreakpointInv, NEW a \in Actors, NEW l \in ControlPoints \ {"setting"},
           UNCHANGED <<code, original, details, cookies, arg>>,
           pc' = [pc EXCEPT ![a] = l],
           at' \in [Workers -> PCs], opcode' \in [Workers -> {"real", "brkpt", Nil}],
           \A w \in Workers : w # a => at'[w] = at[w] /\ opcode'[w] = opcode[w],
           a \in Workers => FetchOf(l, opcode'[a], at'[a])
    PROVE  BreakpointInv'
  <1>1. pc'[a] = l /\ \A b \in Actors : b # a => pc'[b] = pc[b]
    BY DEF BreakpointInv, TypeOK
  <1>2. TypeOK'
    <2>1. pc' \in [Actors -> ControlPoints]
      BY DEF BreakpointInv, TypeOK, ControlPoints
    <2> QED
      BY <2>1 DEF BreakpointInv, TypeOK, ControlPoints
  <1>3. RecordInv'
    BY DEF BreakpointInv, RecordInv, BreakpointsAgree
  <1>4. SetInv'
    BY <1>1 DEF BreakpointInv, SetInv
  <1>5. FetchInv'
    <2> SUFFICES ASSUME NEW w \in Workers
                 PROVE  FetchOf(pc'[w], opcode'[w], at'[w])
      BY DEF FetchInv, FetchOf
    <2>1. w \in Actors
      BY DEF Actors
    <2>2. CASE w = a
      BY <1>1, <2>2
    <2>3. CASE w # a
      BY <1>1, <2>1, <2>3 DEF BreakpointInv, FetchInv, FetchOf
    <2> QED
      BY <2>2, <2>3
  <1> QED
    BY <1>2, <1>3, <1>4, <1>5 DEF BreakpointInv

(* A callback leaves its opcode alone, whatever it calls.                  *)
LEMMA CallbackKeeps ==
    ASSUME OneCaller, BreakpointInv, NEW a \in Actors,
           pc[a] \in {"callback", "suspending"},
           NEW l \in {"callback", "suspending", "ended"},
           UNCHANGED <<code, original, details, cookies, arg, at, opcode>>,
           pc' = [pc EXCEPT ![a] = l]
    PROVE  BreakpointInv'
  <1>1. a \in Workers => FetchOf(l, opcode'[a], at'[a])
    BY DEF BreakpointInv, FetchInv, FetchOf
  <1>2. at' \in [Workers -> PCs] /\ opcode' \in [Workers -> {"real", "brkpt", Nil}]
        /\ l \in ControlPoints \ {"setting"}
    BY DEF BreakpointInv, TypeOK, ControlPoints
  <1> QED
    BY <1>1, <1>2, OthersKeep

-----------------------------------------------------------------------------
(* The interpreter loop. *)
LEMMA InterpretKeeps ==
    ASSUME OneCaller, BreakpointInv, NEW w \in Workers, Interpret(w) \/ CallbackReturn(w)
    PROVE  BreakpointInv'
  <1>0. /\ w \in Actors /\ UNCHANGED <<code, original, details, cookies, arg>>
        /\ at \in [Workers -> PCs] /\ opcode \in [Workers -> {"real", "brkpt", Nil}]
        /\ code \in [PCs -> {"real", "brkpt"}]
        /\ at[w] \in PCs /\ opcode[w] \in {"real", "brkpt", Nil}
    BY DEF Interpret, BeginLoop, Block, Unblock, Fetch, OnBreakpoint, Resumed, Execute, CallbackReturn,
           bps, susp, Actors, BreakpointInv, TypeOK
  <1>1. ASSUME NEW l \in {"loop", "block", "waiting", "fetch"}, pc' = [pc EXCEPT ![w] = l],
               UNCHANGED <<at, opcode>>
        PROVE  BreakpointInv'
    <2>1. l \in ControlPoints \ {"setting"} /\ FetchOf(l, opcode'[w], at'[w])
      BY DEF ControlPoints, FetchOf
    <2> QED
      BY <1>0, <1>1, <2>1, OthersKeep
  <1>2. CASE BeginLoop(w) \/ Block(w) \/ Unblock(w)
    <2>1. UNCHANGED <<at, opcode>>
      BY <1>2 DEF BeginLoop, Block, Unblock
    <2>2. \E l \in {"loop", "block", "waiting", "fetch"} : pc' = [pc EXCEPT ![w] = l]
      BY <1>2 DEF BeginLoop, Block, Unblock, Goto
    <2> QED
      BY <1>1, <2>1, <2>2
  <1>3. CASE Fetch(w)
    <2>1. /\ pc' = [pc EXCEPT ![w] = "exec"] /\ at' = at
          /\ opcode' = [opcode EXCEPT ![w] = code[at[w]]]
      BY <1>3 DEF Fetch, Goto
    <2>2. /\ opcode'[w] = code[at[w]] /\ opcode' \in [Workers -> {"real", "brkpt", Nil}]
          /\ \A u \in Workers : u # w => opcode'[u] = opcode[u]
      BY <1>0, <2>1
    <2>3. code[at[w]] = "brkpt" => original[at[w]] # Nil
      BY <1>0 DEF BreakpointInv, RecordInv, BreakpointsAgree
    <2>4. FetchOf("exec", opcode'[w], at'[w])
      BY <1>0, <2>1, <2>2, <2>3 DEF FetchOf, OneCaller, ToolAssumption
    <2>5. "exec" \in ControlPoints \ {"setting"}
      BY DEF ControlPoints
    <2> QED
      BY <1>0, <2>1, <2>2, <2>4, <2>5, OthersKeep
  <1>4. CASE OnBreakpoint(w)
    <2>1. /\ pc[w] = "exec" /\ opcode[w] = "brkpt" /\ at' = at
          /\ opcode' = [opcode EXCEPT ![w] = IF original[at[w]] = Nil THEN "runt"
                                             ELSE original[at[w]].op]
          /\ \E l \in {"resumed", "callback"} : pc' = [pc EXCEPT ![w] = l]
      BY <1>4 DEF OnBreakpoint, Fire, Goto
    <2>2. original[at[w]] # Nil
      BY <2>1 DEF BreakpointInv, FetchInv
    <2>3. original[at[w]].op = "real"
      BY <1>0, <2>2 DEF BreakpointInv, RecordInv, BreakpointsAgree
    <2>4. /\ opcode'[w] = "real" /\ opcode' \in [Workers -> {"real", "brkpt", Nil}]
          /\ \A u \in Workers : u # w => opcode'[u] = opcode[u]
      BY <1>0, <2>1, <2>2, <2>3
    <2>5. PICK l \in {"resumed", "callback"} : pc' = [pc EXCEPT ![w] = l]
      BY <2>1
    <2>6. l \in ControlPoints \ {"setting"} /\ FetchOf(l, opcode'[w], at'[w])
      BY <2>4 DEF ControlPoints, FetchOf, OneCaller, ToolAssumption
    <2> QED
      BY <1>0, <2>1, <2>4, <2>5, <2>6, OthersKeep
  <1>5. CASE Resumed(w)
    <2>1. pc[w] = "resumed" /\ pc' = [pc EXCEPT ![w] = "exec"] /\ UNCHANGED <<at, opcode>>
      BY <1>5 DEF Resumed, Goto
    <2>2. "exec" \in ControlPoints \ {"setting"} /\ FetchOf("exec", opcode'[w], at'[w])
      BY <2>1 DEF ControlPoints, FetchOf, BreakpointInv, FetchInv
    <2> QED
      BY <1>0, <2>1, <2>2, OthersKeep
  <1>6. ASSUME NEW p \in PCs, Execute(w, p)
        PROVE  BreakpointInv'
    <2>1. /\ at' = [at EXCEPT ![w] = p] /\ opcode' = [opcode EXCEPT ![w] = Nil]
          /\ \E l \in {"loop", "callback"} : pc' = [pc EXCEPT ![w] = l]
      BY <1>6 DEF Execute, Fire, Goto
    <2>2. /\ at' \in [Workers -> PCs] /\ opcode' \in [Workers -> {"real", "brkpt", Nil}]
          /\ opcode'[w] = Nil
          /\ \A u \in Workers : u # w => at'[u] = at[u] /\ opcode'[u] = opcode[u]
      BY <1>0, <2>1
    <2>3. PICK l \in {"loop", "callback"} : pc' = [pc EXCEPT ![w] = l]
      BY <2>1
    <2>4. l \in ControlPoints \ {"setting"} /\ FetchOf(l, opcode'[w], at'[w])
      BY <2>2 DEF ControlPoints, FetchOf, OneCaller, ToolAssumption
    <2> QED
      BY <1>0, <2>2, <2>3, <2>4, OthersKeep
  <1>7. CASE CallbackReturn(w)
    <2>1. /\ pc[w] = "callback" /\ UNCHANGED <<at, opcode>>
          /\ pc' = [pc EXCEPT ![w] = IF toCall[w] = 1 THEN Back(w) ELSE "callback"]
      BY <1>7 DEF CallbackReturn, Goto
    <2> DEFINE l == IF toCall[w] = 1 THEN Back(w) ELSE "callback"
    <2>2. opcode[w] # "brkpt"
      BY <2>1 DEF BreakpointInv, FetchInv
    <2>3. l \in ControlPoints \ {"setting"} /\ FetchOf(l, opcode'[w], at'[w])
      BY <2>1, <2>2 DEF ControlPoints, FetchOf, Back
    <2> HIDE DEF l
    <2>4. pc' = [pc EXCEPT ![w] = l]
      BY <2>1 DEF l
    <2> QED
      BY <1>0, <2>1, <2>3, <2>4, OthersKeep
  <1> QED
    BY <1>2, <1>3, <1>4, <1>5, <1>6, <1>7 DEF Interpret

-----------------------------------------------------------------------------
(* Calls that do not touch breakpoints. *)
LEMMA ControllerKeeps ==
    ASSUME OneCaller, BreakpointInv, NEW a \in Actors,
           \/ \E e \in Events : subscribe_event(a, e) \/ unsubscribe_event(a, e)
           \/ SuspendTake(a) \/ SuspendReturn(a)
           \/ \E u \in Workers : set_thread_trap_flag(a, u)
           \/ Terminate(a)
    PROVE  BreakpointInv'
  <1>1. /\ pc[a] \in {"callback", "suspending"}
        /\ UNCHANGED <<code, original, details, cookies, arg, at, opcode>>
    BY DEF subscribe_event, unsubscribe_event, SuspendTake, SuspendReturn, set_thread_trap_flag,
           Terminate, Called, bps
  <1>2. \E l \in {"callback", "suspending", "ended"} : pc' = [pc EXCEPT ![a] = l]
    <2>1. pc \in [Actors -> ControlPoints]
      BY DEF BreakpointInv, TypeOK, ControlPoints
    <2>2. pc[a] = "callback" => pc = [pc EXCEPT ![a] = "callback"]
      BY <2>1
    <2> QED
      BY <2>2 DEF subscribe_event, unsubscribe_event, SuspendTake, SuspendReturn,
                  set_thread_trap_flag, Terminate, Called, Throw, Goto
  <1> QED
    BY <1>1, <1>2, CallbackKeeps

(* resume_all_threads wakes the workers that wait.                         *)
LEMMA ResumeKeeps ==
    ASSUME OneCaller, BreakpointInv, NEW a \in Actors, resume_all_threads(a)
    PROVE  BreakpointInv'
  <1>1. /\ pc' = Notify
        /\ UNCHANGED <<code, original, details, cookies, arg, at, opcode>>
    BY DEF resume_all_threads, bps
  <1>2. /\ pc' \in [Actors -> ControlPoints]
        /\ \A b \in Actors : pc'[b] = pc[b] \/ pc'[b] = "woken"
    BY <1>1 DEF Notify, BreakpointInv, TypeOK, ControlPoints
  <1>3. TypeOK'
    BY <1>1, <1>2 DEF BreakpointInv, TypeOK, ControlPoints
  <1>4. RecordInv' /\ SetInv'
    BY <1>1, <1>2 DEF BreakpointInv, RecordInv, BreakpointsAgree, SetInv
  <1>5. FetchInv'
    BY <1>1, <1>2 DEF BreakpointInv, FetchInv, Actors
  <1> QED
    BY <1>3, <1>4, <1>5 DEF BreakpointInv

-----------------------------------------------------------------------------
(* set_breakpoint: the opcode is read, and still there with the lock: the  *)
(* one caller changes nothing in between.                                  *)
LEMMA SetReadKeeps ==
    ASSUME OneCaller, BreakpointInv, NEW a \in Actors, NEW p \in PCs, SetRead(a, p)
    PROVE  BreakpointInv'
  <1> DEFINE r == [at |-> p, op |-> code[p]]
  <1>1. /\ pc[a] = "callback" /\ "set" \in Calls[a]
        /\ pc' = [pc EXCEPT ![a] = "setting"] /\ arg' = [arg EXCEPT ![a] = r]
        /\ UNCHANGED <<code, original, details, cookies, at, opcode>>
    BY DEF SetRead, Called, Goto, bps
  <1>2. r \in Places /\ r # Nil /\ r.at = p /\ r.op = code[p]
    BY DEF OneCaller, ToolAssumption, BreakpointInv, TypeOK, Places
  <1> HIDE DEF r
  <1>3. /\ pc'[a] = "setting" /\ \A b \in Actors : b # a => pc'[b] = pc[b]
        /\ arg'[a] = r /\ \A b \in Actors : b # a => arg'[b] = arg[b]
    BY <1>1 DEF BreakpointInv, TypeOK
  <1>4. TypeOK'
    BY <1>1, <1>2 DEF BreakpointInv, TypeOK
  <1>5. RecordInv'
    BY <1>1 DEF BreakpointInv, RecordInv, BreakpointsAgree
  <1>6. SetInv'
    BY <1>1, <1>2, <1>3 DEF BreakpointInv, SetInv
  <1>7. FetchInv'
    BY <1>1, <1>3 DEF BreakpointInv, FetchInv, Actors
  <1> QED
    BY <1>4, <1>5, <1>6, <1>7 DEF BreakpointInv

(* With the lock: a new record, or the one that is there.                  *)
LEMMA SetBreakpointKeeps ==
    ASSUME OneCaller, BreakpointInv, NEW a \in Actors, SetBreakpoint(a)
    PROVE  BreakpointInv'
  <1> DEFINE r == arg[a]
             k == cookies + 1
             e == [op |-> "real", cookie |-> k]
  <1>1. /\ pc[a] = "setting" /\ pc' = [pc EXCEPT ![a] = "callback"]
        /\ arg' = [arg EXCEPT ![a] = Nil] /\ UNCHANGED <<at, opcode>>
    BY DEF SetBreakpoint, Goto
  <1>2. /\ "set" \in Calls[a] /\ r \in Places /\ r # Nil /\ r.op = code[r.at]
        /\ r.at \in PCs /\ r.op \in {"real", "brkpt"}
    <2>1. "set" \in Calls[a] /\ r # Nil /\ r.op = code[r.at] /\ r \in Places
      BY <1>1 DEF BreakpointInv, SetInv, TypeOK
    <2> QED
      BY <2>1 DEF Places
  <1>3. /\ pc'[a] = "callback" /\ \A b \in Actors : b # a => pc'[b] = pc[b]
        /\ \A b \in Actors : b # a => arg'[b] = arg[b]
    BY <1>1 DEF BreakpointInv, TypeOK
  <1>4. \A b \in Actors : pc'[b] # "setting"
    BY <1>2, <1>3 DEF OneCaller, BreakpointInv, SetInv
  <1>5. pc' \in [Actors -> ControlPoints] /\ arg' \in [Actors -> Places \cup {Nil}]
    BY <1>1 DEF BreakpointInv, TypeOK, ControlPoints
  <1>6. opcode'[a] # "brkpt" \/ a \notin Workers
    BY <1>1 DEF BreakpointInv, FetchInv
  <1>7. CASE Known(r)
    <2>1. UNCHANGED <<code, original, details, cookies>>
      BY <1>7 DEF SetBreakpoint, bps
    <2>2. TypeOK'
      BY <1>1, <1>5, <2>1 DEF BreakpointInv, TypeOK, ControlPoints
    <2>3. RecordInv' /\ SetInv'
      BY <1>4, <2>1 DEF BreakpointInv, RecordInv, BreakpointsAgree, SetInv
    <2>4. FetchInv'
      BY <1>1, <1>3, <1>6, <2>1 DEF BreakpointInv, FetchInv, Actors
    <2> QED
      BY <2>2, <2>3, <2>4 DEF BreakpointInv
  <1>8. CASE ~Known(r)
    <2>1. r.op = "real" /\ code[r.at] = "real" /\ original[r.at] = Nil
      BY <1>2, <1>8 DEF Known, BreakpointInv, RecordInv, BreakpointsAgree
    <2>2. /\ cookies < MaxCookie /\ cookies' = k
          /\ details' = [details EXCEPT ![k] = r]
          /\ original' = [original EXCEPT ![r.at] = e]
          /\ code' = [code EXCEPT ![r.at] = "brkpt"]
      BY <1>8, <2>1 DEF SetBreakpoint
    <2>3. k \in 1 .. MaxCookie /\ cookies' \in 0 .. MaxCookie
          /\ \A c \in 1 .. MaxCookie : c <= cookies => c # k /\ c <= k
      BY <2>2 DEF OneCaller, ToolAssumption, BreakpointInv, TypeOK
    <2>4. e \in Records /\ e # Nil /\ e.op = "real" /\ e.cookie = k
      BY <2>3 DEF Records, OneCaller, ToolAssumption
    <2>5. r = [at |-> r.at, op |-> "real"]
      BY <1>2, <2>1 DEF Places
    <2> HIDE DEF r, e, k
    <2>6. /\ code'[r.at] = "brkpt" /\ original'[r.at] = e /\ details'[k] = r
          /\ \A p \in PCs : p # r.at => code'[p] = code[p] /\ original'[p] = original[p]
          /\ \A c \in 1 .. MaxCookie : c # k => details'[c] = details[c]
      BY <1>2, <2>2, <2>3 DEF BreakpointInv, TypeOK
    <2>7. TypeOK'
      <3>1. code' \in [PCs -> {"real", "brkpt"}] /\ original' \in [PCs -> Records \cup {Nil}]
        BY <2>2, <2>4 DEF BreakpointInv, TypeOK
      <3>2. details' \in [1 .. MaxCookie -> Places \cup {Nil}]
        BY <1>2, <2>2 DEF BreakpointInv, TypeOK
      <3> QED
        BY <1>1, <1>5, <2>3, <3>1, <3>2 DEF BreakpointInv, TypeOK, ControlPoints
    <2>8. DOMAIN details' = 1 .. MaxCookie /\ DOMAIN details = 1 .. MaxCookie
      BY <2>7 DEF BreakpointInv, TypeOK
    <2>9. \A p \in PCs : original[p] # Nil => original[p].cookie # k
      <3>1. \A c \in 1 .. MaxCookie : details[c] # Nil => c # k
        BY <2>3 DEF BreakpointInv, RecordInv
      <3>2. \A p \in PCs : [at |-> p, op |-> "real"] # Nil
        BY DEF OneCaller, ToolAssumption, Places
      <3>3. \A p \in PCs : original[p] # Nil =>
                original[p].cookie \in 1 .. MaxCookie /\ details[original[p].cookie] # Nil
        <4> SUFFICES ASSUME NEW p \in PCs, original[p] # Nil
                     PROVE  original[p].cookie \in 1 .. MaxCookie /\ details[original[p].cookie] # Nil
          OBVIOUS
        <4>1. original[p] \in Records
          BY DEF BreakpointInv, TypeOK
        <4>2. original[p].cookie \in 1 .. MaxCookie
          BY <4>1 DEF Records
        <4>3. details[original[p].cookie] = [at |-> p, op |-> "real"]
          BY DEF BreakpointInv, RecordInv, BreakpointsAgree
        <4> QED
          BY <3>2, <4>2, <4>3
      <3> QED
        BY <3>1, <3>3
    <2>10. \A p \in PCs : IF original'[p] = Nil THEN code'[p] = "real"
                          ELSE /\ code'[p] = "brkpt" /\ original'[p].op = "real"
                               /\ details'[original'[p].cookie] = [at |-> p, op |-> "real"]
      <3> TAKE p \in PCs
      <3>1. CASE p = r.at
        BY <2>4, <2>5, <2>6, <3>1
      <3>2. CASE p # r.at
        <4>1. original[p] # Nil => original[p].cookie \in 1 .. MaxCookie
          BY DEF BreakpointInv, TypeOK, Records
        <4> QED
          BY <2>6, <2>9, <3>2, <4>1 DEF BreakpointInv, RecordInv, BreakpointsAgree
      <3> QED
        BY <3>1, <3>2
    <2>11. \A c \in 1 .. MaxCookie : details'[c] # Nil =>
              /\ c <= cookies' /\ original'[details'[c].at] # Nil
              /\ original'[details'[c].at].cookie = c
      <3> SUFFICES ASSUME NEW c \in 1 .. MaxCookie, details'[c] # Nil
                   PROVE  /\ c <= cookies' /\ original'[details'[c].at] # Nil
                          /\ original'[details'[c].at].cookie = c
        OBVIOUS
      <3>1. CASE c = k
        BY <2>2, <2>3, <2>4, <2>6, <3>1
      <3>2. CASE c # k
        <4>1. details[c] # Nil /\ details'[c] = details[c]
          BY <2>6, <3>2
        <4>2. /\ c <= cookies /\ original[details[c].at] # Nil
              /\ original[details[c].at].cookie = c
          BY <2>8, <4>1 DEF BreakpointInv, RecordInv, BreakpointsAgree
        <4>3. details[c].at \in PCs
          <5>1. details[c] \in Places
            BY <4>1 DEF BreakpointInv, TypeOK
          <5> QED
            BY <5>1 DEF Places
        <4>4. details[c].at # r.at
          BY <2>1, <4>2
        <4> QED
          BY <2>2, <2>3, <2>6, <4>1, <4>2, <4>3, <4>4
      <3> QED
        BY <3>1, <3>2
    <2>12. RecordInv'
      BY <2>8, <2>10, <2>11 DEF RecordInv, BreakpointsAgree
    <2>13. SetInv'
      BY <1>4 DEF SetInv
    <2>14. FetchInv'
      <3>1. \A p \in PCs : original[p] # Nil => original'[p] # Nil
        BY <2>4, <2>6
      <3>2. \A w \in Workers : at[w] \in PCs /\ w \in Actors
        BY DEF BreakpointInv, TypeOK, Actors
      <3> QED
        BY <1>1, <1>3, <1>6, <3>1, <3>2 DEF BreakpointInv, FetchInv
    <2> QED
      BY <2>7, <2>12, <2>13, <2>14 DEF BreakpointInv
  <1> QED
    BY <1>7, <1>8

(* clear_breakpoint by the only worker, which has fetched nothing.         *)
LEMMA ClearKeeps ==
    ASSUME OneCaller, BreakpointInv, NEW a \in Actors, NEW c \in 1 .. cookies, clear_breakpoint(a, c)
    PROVE  BreakpointInv'
  <1>1. /\ pc[a] = "callback" /\ "clear" \in Calls[a] /\ c \in 1 .. MaxCookie
        /\ UNCHANGED <<cookies, arg, at, opcode>>
    BY DEF clear_breakpoint, Called, BreakpointInv, TypeOK, OneCaller, ToolAssumption
  <1>2. CASE details[c] = Nil
    <2>1. UNCHANGED <<code, original, details>> /\ pc' = [pc EXCEPT ![a] = "ended"]
      BY <1>2 DEF clear_breakpoint, Throw, Goto
    <2> QED
      BY <1>1, <2>1, CallbackKeeps
  <1>3. CASE details[c] # Nil
    <2> DEFINE q == details[c].at
    <2>1. q \in PCs
      <3>1. details[c] \in Places
        BY <1>1, <1>3 DEF BreakpointInv, TypeOK
      <3> QED
        BY <3>1 DEF Places
    <2>2. original[q] # Nil /\ original[q].cookie = c /\ original[q].op = "real"
      BY <1>1, <1>3, <2>1 DEF BreakpointInv, TypeOK, RecordInv, BreakpointsAgree
    <2>3. /\ code' = [code EXCEPT ![q] = "real"] /\ original' = [original EXCEPT ![q] = Nil]
          /\ details' = [details EXCEPT ![c] = Nil] /\ UNCHANGED pc
      BY <1>3, <2>2 DEF clear_breakpoint
    <2> HIDE DEF q
    <2>4. /\ code'[q] = "real" /\ original'[q] = Nil /\ details'[c] = Nil
          /\ \A p \in PCs : p # q => code'[p] = code[p] /\ original'[p] = original[p]
          /\ \A d \in 1 .. MaxCookie : d # c => details'[d] = details[d]
      BY <1>1, <2>1, <2>3 DEF BreakpointInv, TypeOK
    <2>5. TypeOK'
      BY <1>1, <2>3 DEF BreakpointInv, TypeOK
    <2>6. DOMAIN details' = 1 .. MaxCookie /\ DOMAIN details = 1 .. MaxCookie
      BY <2>5 DEF BreakpointInv, TypeOK
    <2>7. details[c].at = q
      BY DEF q
    <2>8. \A p \in PCs : IF original'[p] = Nil THEN code'[p] = "real"
                         ELSE /\ code'[p] = "brkpt" /\ original'[p].op = "real"
                              /\ details'[original'[p].cookie] = [at |-> p, op |-> "real"]
      <3> TAKE p \in PCs
      <3>1. CASE p = q
        BY <2>4, <3>1
      <3>2. CASE p # q /\ original[p] = Nil
        BY <2>4, <3>2 DEF BreakpointInv, RecordInv, BreakpointsAgree
      <3>3. CASE p # q /\ original[p] # Nil
        <4>1. /\ code[p] = "brkpt" /\ original[p].op = "real"
              /\ details[original[p].cookie] = [at |-> p, op |-> "real"]
              /\ original[p].cookie \in 1 .. MaxCookie
          BY <3>3 DEF BreakpointInv, RecordInv, BreakpointsAgree, TypeOK, Records
        <4>2. original[p].cookie # c
          BY <2>7, <3>3, <4>1
        <4> QED
          BY <2>4, <3>3, <4>1, <4>2
      <3> QED
        BY <3>1, <3>2, <3>3
    <2>9. \A d \in 1 .. MaxCookie : details'[d] # Nil =>
              /\ d <= cookies' /\ original'[details'[d].at] # Nil
              /\ original'[details'[d].at].cookie = d
      <3> SUFFICES ASSUME NEW d \in 1 .. MaxCookie, details'[d] # Nil
                   PROVE  /\ d <= cookies' /\ original'[details'[d].at] # Nil
                          /\ original'[details'[d].at].cookie = d
        OBVIOUS
      <3>1. d # c /\ details'[d] = details[d] /\ details[d] # Nil
        BY <2>4
      <3>2. /\ d <= cookies /\ original[details[d].at] # Nil
            /\ original[details[d].at].cookie = d
        BY <2>6, <3>1 DEF BreakpointInv, RecordInv, BreakpointsAgree
      <3>3. details[d].at \in PCs
        <4>1. details[d] \in Places
          BY <3>1 DEF BreakpointInv, TypeOK
        <4> QED
          BY <4>1 DEF Places
      <3>4. details[d].at # q
        BY <2>2, <3>1, <3>2
      <3> QED
        BY <1>1, <2>4, <3>1, <3>2, <3>3, <3>4
    <2>10. RecordInv'
      BY <2>6, <2>8, <2>9 DEF RecordInv, BreakpointsAgree
    <2>11. SetInv'
      <3>1. \A b \in Actors : pc[b] = "setting" => b = a
        BY <1>1 DEF OneCaller, BreakpointInv, SetInv
      <3> QED
        BY <1>1, <2>3, <3>1 DEF SetInv
    <2>12. FetchInv'
      <3>1. \A w \in Workers : w = a
        BY <1>1 DEF OneCaller
      <3> QED
        BY <1>1, <2>3, <3>1 DEF BreakpointInv, FetchInv
    <2> QED
      BY <2>5, <2>10, <2>11, <2>12 DEF BreakpointInv
  <1> QED
    BY <1>2, <1>3

-----------------------------------------------------------------------------
LEMMA BreakpointsKept ==
    ASSUME OneCaller, BreakpointInv, [Next]_vars
    PROVE  BreakpointInv'
  <1>1. CASE UNCHANGED vars
    <2>1. UNCHANGED <<code, original, details, cookies, pc, at, opcode, arg>>
      BY <1>1 DEF vars, bps
    <2> QED
      BY <2>1 DEF BreakpointInv, TypeOK, RecordInv, BreakpointsAgree, SetInv, FetchInv
  <1>2. ASSUME NEW w \in Workers, Interpret(w) \/ CallbackReturn(w)
        PROVE  BreakpointInv'
    BY <1>2, InterpretKeeps
  <1>3. ASSUME NEW a \in Actors, ToolCall(a)
        PROVE  BreakpointInv'
    BY <1>3, ControllerKeeps, ResumeKeeps, SetReadKeeps, SetBreakpointKeeps, ClearKeeps DEF ToolCall
  <1> QED
    BY <1>1, <1>2, <1>3 DEF Next, Step, Actors

(* Whatever one thread sets and clears between the instructions of any     *)
(* number of workers, each executes the opcodes of the program, and the    *)
(* code and the two maps of breakpoints tell the same story                *)
(* (tool_dispatch.cpp set_breakpoint, clear_breakpoint, on_breakpoint).    *)
THEOREM BreakpointsStayTransparent ==
    ASSUME OneCaller
    PROVE  Spec => []BreakpointsTransparent
  <1>1. Init => BreakpointInv
    BY BreakpointsStart
  <1>2. BreakpointInv /\ [Next]_vars => BreakpointInv'
    BY BreakpointsKept
  <1>3. BreakpointInv => BreakpointsTransparent
    <2>1. BreakpointInv => ExecutesRealOpcode
      BY DEF BreakpointInv, TypeOK, FetchInv, ExecutesRealOpcode
    <2> QED
      BY <2>1 DEF BreakpointInv, RecordInv, BreakpointsTransparent
  <1> QED
    BY <1>1, <1>2, <1>3, PTL DEF Spec

(* What set_breakpoint, clear_breakpoint and on_breakpoint assert: an      *)
(* opcode that is recorded is not a breakpoint, a cookie has its record,   *)
(* and a breakpoint that was hit is known.                                 *)
THEOREM BreakpointAssertionsHold ==
    ASSUME OneCaller
    PROVE  Spec => [](OriginalRecorded /\ ClearFindsOriginal /\ HitIsKnown)
  <1>1. Init => BreakpointInv
    BY BreakpointsStart
  <1>2. BreakpointInv /\ [Next]_vars => BreakpointInv'
    BY BreakpointsKept
  <1>3. BreakpointInv => OriginalRecorded
    BY DEF BreakpointInv, RecordInv, BreakpointsAgree, OriginalRecorded
  <1>4. BreakpointInv => ClearFindsOriginal
    BY DEF BreakpointInv, TypeOK, RecordInv, ClearFindsOriginal
  <1>5. BreakpointInv => HitIsKnown
    BY DEF BreakpointInv, TypeOK, HitIsKnown, OneCaller, ToolAssumption
  <1> QED
    BY <1>1, <1>2, <1>3, <1>4, <1>5, PTL DEF Spec

-----------------------------------------------------------------------------
(* The reader of modules. *)

LEMMA ReaderStarts ==
    ASSUME Reader!ReaderAssumption, Reader!Init
    PROVE  Reader!ReaderInv
  <1>1. Reader!TypeOK
    <2>1. Reader!Origin \in Reader!Addresses
      BY DEF Reader!Origin, Reader!Addresses
    <2>2. header \in [code : Nat, data : Nat, types : Nat, exports : Nat, entry : Int,
                      import : BOOLEAN, handler : BOOLEAN]
      BY DEF Reader!Init
    <2>3. got \in [code : Nat, types : Nat, links : Nat, imports : Nat, handlers : Nat, mp : BOOLEAN]
      BY DEF Reader!Init, Reader!None
    <2>4. stack \in Seq(Reader!Addresses) /\ chosen \in Seq(Reader!Addresses) /\ base \in Reader!Addresses
      BY <2>1 DEF Reader!Init
    <2>5. sec \in {"header", "code", "error"} \cup Reader!CodeRead /\ ended \in BOOLEAN /\ left \in Nat
      BY DEF Reader!Init
    <2> QED
      BY ONLY <2>2, <2>3, <2>4, <2>5 DEF Reader!TypeOK
  <1>2. Reader!CountInv /\ Reader!EndInv
    BY DEF Reader!Init, Reader!CountInv, Reader!EndInv, Reader!CodeRead, Reader!TypesRead, Reader!LinksRead
  <1>3. Reader!AddressStackSound /\ Reader!BaseInv
    BY DEF Reader!ReaderAssumption, Reader!Init, Reader!AddressStackSound, Reader!BaseInv, Reader!Origin
  <1> QED
    BY <1>1, <1>2, <1>3 DEF Reader!ReaderInv

(* What is left of a section is read, or the next section begins: every    *)
(* action that leaves the addresses alone.                                 *)
LEMMA SectionsKept ==
    ASSUME Reader!ReaderInv, base' = base, stack' = stack, chosen' = chosen,
           Reader!TypeOK', Reader!CountInv', Reader!EndInv'
    PROVE  Reader!ReaderInv'
  BY DEF Reader!ReaderInv, Reader!AddressStackSound, Reader!BaseInv

(* A step that reads a section or goes on to the next.                     *)
LEMMA SectionKeeps ==
    ASSUME Reader!ReaderInv,
           UNCHANGED <<header, base, stack, chosen>>,
           ended' \in BOOLEAN, left' \in Nat,
           got' \in [code : Nat, types : Nat, links : Nat, imports : Nat, handlers : Nat, mp : BOOLEAN],
           sec' \in {"code", "error"} \cup Reader!CodeRead,
           Reader!CountInv', Reader!EndInv'
    PROVE  Reader!ReaderInv'
  <1>1. Reader!TypeOK'
    BY DEF Reader!ReaderInv, Reader!TypeOK
  <1> QED
    BY <1>1, SectionsKept

LEMMA ReaderError ==
    ASSUME Reader!ReaderInv, Reader!Error
    PROVE  Reader!ReaderInv'
  <1>1. Reader!TypeOK'
    BY DEF Reader!ReaderInv, Reader!TypeOK, Reader!Error
  <1>2. Reader!CountInv' /\ Reader!EndInv'
    BY DEF Reader!ReaderInv, Reader!CountInv, Reader!EndInv, Reader!Error,
           Reader!CodeRead, Reader!TypesRead, Reader!LinksRead
  <1> QED
    BY <1>1, <1>2, SectionsKept DEF Reader!Error

LEMMA HeaderKeeps ==
    ASSUME Reader!ReaderAssumption, Reader!ReaderInv, Reader!read_header
    PROVE  Reader!ReaderInv'
  <1>1. PICK c, t, x \in 0 .. MaxCount, d \in DataSizes, e \in -1 .. MaxCount, i, h \in BOOLEAN :
             /\ header' = [code |-> c, data |-> d, types |-> t, exports |-> x, entry |-> e,
                           import |-> i, handler |-> h]
             /\ left' = c
    BY DEF Reader!read_header
  <1>2. c \in Nat /\ t \in Nat /\ x \in Nat /\ d \in Nat /\ e \in Int
    BY DEF Reader!ReaderAssumption
  <1>3. header' \in [code : Nat, data : Nat, types : Nat, exports : Nat, entry : Int,
                     import : BOOLEAN, handler : BOOLEAN]
    BY <1>1, <1>2
  <1>4. /\ sec = "header" /\ sec' = "code"
        /\ UNCHANGED <<ended, got, base, stack, arrays, chosen>>
    BY DEF Reader!read_header, Reader!Reading
  <1>5. Reader!TypeOK'
    BY <1>1, <1>2, <1>3, <1>4 DEF Reader!ReaderInv, Reader!TypeOK
  <1>6. Reader!CountInv' /\ Reader!EndInv'
    <2>1. got = [code |-> 0, types |-> 0, links |-> 0, imports |-> 0, handlers |-> 0, mp |-> FALSE]
      BY <1>4 DEF Reader!ReaderInv, Reader!CountInv, Reader!None
    <2>2. header'.code = c /\ got'.code = 0 /\ got'.types = 0 /\ got'.links = 0
      BY <1>1, <1>4, <2>1
    <2>3. sec' = "code" /\ left' = c /\ c \in Nat
      BY <1>1, <1>2, <1>4
    <2> QED
      BY ONLY <2>2, <2>3 DEF Reader!CountInv, Reader!EndInv, Reader!CodeRead, Reader!TypesRead, Reader!LinksRead
  <1> QED
    BY <1>4, <1>5, <1>6, SectionsKept

(* The items of a section, and the section after it.                       *)
LEMMA ItemKeeps ==
    ASSUME Reader!ReaderAssumption, Reader!ReaderInv,
           \/ Reader!ReadInstruction \/ Reader!ReadType \/ Reader!ReadExport
           \/ Reader!ReadImport \/ Reader!ReadHandler
    PROVE  Reader!ReaderInv'
  <1> DEFINE Stored == [code : Nat, types : Nat, links : Nat, imports : Nat, handlers : Nat, mp : BOOLEAN]
  <1>1. /\ UNCHANGED <<sec, ended, header, base, stack, arrays, chosen>>
        /\ left > 0 /\ left' = left - 1 /\ left \in Nat /\ ended \in BOOLEAN /\ got \in Stored
        /\ sec' \in {"code", "error"} \cup Reader!CodeRead
    BY DEF Reader!ReadInstruction, Reader!ReadType, Reader!ReadExport, Reader!ReadImport, Reader!ReadHandler,
           Reader!Reading, Reader!ReaderInv, Reader!TypeOK, Reader!CodeRead, Reader!TypesRead, Reader!LinksRead
  <1>2. left' \in Nat
    BY <1>1
  <1>3. CASE Reader!ReadInstruction
    <2>1. sec = "code" /\ got' = [got EXCEPT !.code = @ + 1]
      BY <1>3 DEF Reader!ReadInstruction, Reader!Reading
    <2>2. got' \in Stored /\ got'.code = got.code + 1
      BY <1>1, <2>1
    <2>3. got'.mp = got.mp /\ got'.types = got.types /\ got'.links = got.links
      BY <1>1, <2>1
    <2>4. Reader!CountInv' /\ Reader!EndInv'
      BY <1>1, <2>1, <2>2, <2>3 DEF Reader!ReaderInv, Reader!CountInv, Reader!EndInv, Reader!TypeOK,
         Reader!CodeRead, Reader!TypesRead, Reader!LinksRead
    <2> QED
      BY <1>1, <1>2, <2>2, <2>4, SectionKeeps
  <1>4. CASE Reader!ReadType
    <2>1. sec = "type" /\ got' = [got EXCEPT !.types = @ + 1]
      BY <1>4 DEF Reader!ReadType, Reader!Reading
    <2>2. got' \in Stored /\ got'.types = got.types + 1
      BY <1>1, <2>1
    <2>3. got'.mp = got.mp /\ got'.code = got.code /\ got'.links = got.links
      BY <1>1, <2>1
    <2>4. Reader!CountInv' /\ Reader!EndInv'
      BY <1>1, <2>1, <2>2, <2>3 DEF Reader!ReaderInv, Reader!CountInv, Reader!EndInv, Reader!TypeOK,
         Reader!CodeRead, Reader!TypesRead, Reader!LinksRead
    <2> QED
      BY <1>1, <1>2, <2>2, <2>4, SectionKeeps
  <1>5. CASE Reader!ReadExport
    <2>1. sec = "link" /\ got' = [got EXCEPT !.links = @ + 1]
      BY <1>5 DEF Reader!ReadExport, Reader!Reading
    <2>2. got' \in Stored /\ got'.links = got.links + 1
      BY <1>1, <2>1
    <2>3. got'.mp = got.mp /\ got'.code = got.code /\ got'.types = got.types
      BY <1>1, <2>1
    <2>4. Reader!CountInv' /\ Reader!EndInv'
      BY <1>1, <2>1, <2>2, <2>3 DEF Reader!ReaderInv, Reader!CountInv, Reader!EndInv, Reader!TypeOK,
         Reader!CodeRead, Reader!TypesRead, Reader!LinksRead
    <2> QED
      BY <1>1, <1>2, <2>2, <2>4, SectionKeeps
  <1>6. CASE Reader!ReadImport
    <2>1. sec = "import" /\ got' = [got EXCEPT !.imports = @ + 1]
      BY <1>6 DEF Reader!ReadImport, Reader!Reading
    <2>2. got' \in Stored /\ got'.imports = got.imports + 1
      BY <1>1, <2>1
    <2>3. got'.mp = got.mp /\ got'.code = got.code /\ got'.types = got.types /\ got'.links = got.links
      BY <1>1, <2>1
    <2>4. Reader!CountInv' /\ Reader!EndInv'
      BY <1>1, <2>1, <2>2, <2>3 DEF Reader!ReaderInv, Reader!CountInv, Reader!EndInv, Reader!TypeOK,
         Reader!CodeRead, Reader!TypesRead, Reader!LinksRead
    <2> QED
      BY <1>1, <1>2, <2>2, <2>4, SectionKeeps
  <1>7. CASE Reader!ReadHandler
    <2>1. sec = "handler" /\ got' = [got EXCEPT !.handlers = @ + 1]
      BY <1>7 DEF Reader!ReadHandler, Reader!Reading
    <2>2. got' \in Stored /\ got'.handlers = got.handlers + 1
      BY <1>1, <2>1
    <2>3. got'.mp = got.mp /\ got'.code = got.code /\ got'.types = got.types /\ got'.links = got.links
      BY <1>1, <2>1
    <2>4. Reader!CountInv' /\ Reader!EndInv'
      BY <1>1, <2>1, <2>2, <2>3 DEF Reader!ReaderInv, Reader!CountInv, Reader!EndInv, Reader!TypeOK,
         Reader!CodeRead, Reader!TypesRead, Reader!LinksRead
    <2> QED
      BY <1>1, <1>2, <2>2, <2>4, SectionKeeps
  <1> QED
    BY <1>3, <1>4, <1>5, <1>6, <1>7

LEMMA SectionEnds ==
    ASSUME Reader!ReaderAssumption, Reader!ReaderInv,
           \/ Reader!read_code_section \/ Reader!read_data_section \/ Reader!EndOfData
           \/ Reader!read_module_name \/ Reader!read_link_section
           \/ Reader!read_import_section \/ Reader!read_handler_section
           \/ \E s \in {"import", "handler"} : Reader!FinalByte(s)
    PROVE  Reader!ReaderInv'
  <1> DEFINE Stored == [code : Nat, types : Nat, links : Nat, imports : Nat, handlers : Nat, mp : BOOLEAN]
  <1> DEFINE Same == /\ got.code = header.code /\ got.types = header.types /\ (got.mp <=> header.data > 0)
                     /\ header.entry = -1 \/ header.entry < header.code
  <1>1. CASE Reader!Error
    BY <1>1, ReaderError
  <1>2. ASSUME ~Reader!Error
        PROVE  UNCHANGED <<ended, header, base, stack, arrays, chosen>>
    BY <1>2 DEF Reader!read_code_section, Reader!read_data_section, Reader!EndOfData,
           Reader!read_module_name, Reader!read_link_section, Reader!read_import_section,
           Reader!read_handler_section, Reader!FinalByte
  <1>3. /\ got.code \in Nat /\ got.types \in Nat /\ got.links \in Nat /\ got.mp \in BOOLEAN
        /\ header.code \in Nat /\ header.types \in Nat /\ header.exports \in Nat /\ header.data \in Nat
        /\ header.entry \in Int /\ header.import \in BOOLEAN /\ header.handler \in BOOLEAN
        /\ left \in Nat /\ ended \in BOOLEAN /\ got \in Stored
    BY DEF Reader!ReaderInv, Reader!TypeOK
  <1>4. Reader!CountInv /\ Reader!EndInv
    BY DEF Reader!ReaderInv
  <1>5. CASE ~Reader!Error /\ Reader!read_code_section
    <2>1. /\ sec = "code" /\ sec' = "type" /\ left = 0 /\ left' = header.types /\ got' = got
          /\ header.entry = -1 \/ header.entry < header.code
      BY <1>3, <1>5 DEF Reader!read_code_section
    <2>2. got.code = header.code /\ got.types = 0 /\ got.links = 0
      BY <1>3, <1>4, <2>1 DEF Reader!CountInv
    <2>3. Reader!CountInv' /\ Reader!EndInv'
      BY ONLY <1>2, <1>3, <1>5, <2>1, <2>2 DEF Reader!CountInv, Reader!EndInv,
         Reader!CodeRead, Reader!TypesRead, Reader!LinksRead
    <2> QED
      BY <1>2, <1>3, <1>5, <2>1, <2>3, SectionKeeps DEF Reader!CodeRead
  <1>6. CASE Reader!read_data_section
    <2>1. /\ sec = "type" /\ sec' = "data" /\ left = 0 /\ left' = left
          /\ got' = [got EXCEPT !.mp = header.data > 0]
          /\ UNCHANGED <<ended, header, base, stack, arrays, chosen>>
      BY <1>6 DEF Reader!read_data_section
    <2>2. got' \in Stored /\ got'.code = got.code /\ got'.types = got.types /\ got'.links = got.links
          /\ (got'.mp <=> header.data > 0)
      <3> DEFINE announced == header.data > 0
      <3>1. announced \in BOOLEAN /\ got' = [got EXCEPT !.mp = announced] /\ (announced <=> header.data > 0)
        BY <2>1
      <3> HIDE DEF announced
      <3>2. got' \in Stored
        BY <1>3, <3>1
      <3>3. got'.code = got.code /\ got'.types = got.types /\ got'.links = got.links
        BY <1>3, <3>1
      <3>4. got'.mp = announced
        BY <1>3, <3>1
      <3> QED
        BY <3>1, <3>2, <3>3, <3>4
    <2>3. /\ got.code = header.code /\ got.types = header.types /\ got.links = 0
          /\ header.entry = -1 \/ header.entry < header.code
      BY <1>3, <1>4, <2>1 DEF Reader!CountInv, Reader!CodeRead
    <2>4. Reader!CountInv' /\ Reader!EndInv'
      BY ONLY <1>3, <2>1, <2>2, <2>3 DEF Reader!CountInv, Reader!EndInv,
         Reader!CodeRead, Reader!TypesRead, Reader!LinksRead
    <2>5. sec' \in {"code", "error"} \cup Reader!CodeRead /\ left' \in Nat /\ ended' \in BOOLEAN
      BY <1>3, <2>1 DEF Reader!CodeRead, Reader!TypesRead
    <2> QED
      BY ONLY Reader!ReaderInv, <2>1, <2>2, <2>4, <2>5, SectionKeeps
  <1>7. CASE ~Reader!Error /\ (Reader!EndOfData \/ Reader!read_module_name)
    <2>1. /\ \/ sec = "data" /\ sec' = "name" /\ left' = left
             \/ sec = "name" /\ sec' = "link" /\ left' = header.exports
          /\ got' = got
      BY <1>7 DEF Reader!EndOfData, Reader!read_module_name, Reader!Reading
    <2>2. Same /\ got.links = 0
      BY <1>4, <2>1 DEF Reader!CountInv, Reader!CodeRead, Reader!TypesRead
    <2>3. Reader!CountInv' /\ Reader!EndInv'
      <3>1. UNCHANGED <<ended, header>>
        BY <1>2, <1>7
      <3>2. CASE sec' = "name"
        BY ONLY <1>3, <2>1, <2>2, <3>1, <3>2 DEF Reader!CountInv, Reader!EndInv,
           Reader!CodeRead, Reader!TypesRead, Reader!LinksRead
      <3>3. CASE sec' = "link"
        BY ONLY <1>3, <2>1, <2>2, <3>1, <3>3 DEF Reader!CountInv, Reader!EndInv,
           Reader!CodeRead, Reader!TypesRead, Reader!LinksRead
      <3> QED
        BY <2>1, <3>2, <3>3
    <2> QED
      BY <1>2, <1>3, <1>7, <2>1, <2>3, SectionKeeps DEF Reader!CodeRead, Reader!TypesRead
  <1>8. CASE ~Reader!Error /\ Reader!read_link_section
    <2>1. sec = "link" /\ left = 0 /\ left' = left /\ got' = got /\ sec' = Reader!After("link")
      BY <1>8 DEF Reader!read_link_section
    <2>2. \/ sec' = "import count" \/ sec' = "handler count"
          \/ ~header.import /\ ~header.handler /\ sec' = "done"
      BY <2>1 DEF Reader!After
    <2>3. Same /\ got.links = header.exports
      BY <1>3, <1>4, <2>1 DEF Reader!CountInv, Reader!CodeRead, Reader!TypesRead
    <2>4. Reader!CountInv' /\ Reader!EndInv'
      BY ONLY <1>2, <1>3, <1>8, <2>1, <2>2, <2>3 DEF Reader!CountInv, Reader!EndInv,
         Reader!CodeRead, Reader!TypesRead, Reader!LinksRead
    <2> QED
      BY <1>2, <1>3, <1>8, <2>1, <2>2, <2>4, SectionKeeps DEF Reader!CodeRead, Reader!TypesRead, Reader!LinksRead
  <1>9. CASE ~Reader!Error /\ (Reader!read_import_section \/ Reader!read_handler_section)
    <2>1. /\ (sec = "import count" /\ sec' = "import") \/ (sec = "handler count" /\ sec' = "handler")
          /\ got' = got
      BY <1>9 DEF Reader!read_import_section, Reader!read_handler_section, Reader!Reading
    <2>2. left' \in Nat
      <3>1. \A n \in 0 .. MaxCount : n \in Nat
        BY DEF Reader!ReaderAssumption
      <3>2. CASE Reader!read_import_section
        BY <3>1, <3>2 DEF Reader!read_import_section
      <3>3. CASE Reader!read_handler_section
        <4>1. left' = 0 \/ \E n \in 0 .. MaxCount : left' = n
          BY <3>3 DEF Reader!read_handler_section
        <4> QED
          BY <3>1, <4>1
      <3> QED
        BY <1>9, <3>2, <3>3
    <2>3. Same /\ got.links = header.exports
      BY <1>4, <2>1 DEF Reader!CountInv, Reader!CodeRead, Reader!TypesRead, Reader!LinksRead
    <2>4. Reader!CountInv' /\ Reader!EndInv'
      BY ONLY <1>2, <1>3, <1>9, <2>1, <2>2, <2>3 DEF Reader!CountInv, Reader!EndInv,
         Reader!CodeRead, Reader!TypesRead, Reader!LinksRead
    <2> QED
      BY <1>2, <1>3, <1>9, <2>1, <2>2, <2>4, SectionKeeps DEF Reader!CodeRead, Reader!TypesRead, Reader!LinksRead
  <1>10. ASSUME ~Reader!Error, NEW s \in {"import", "handler"}, Reader!FinalByte(s) PROVE Reader!ReaderInv'
    <2>1. sec = s /\ ~ended /\ left' = left /\ got' = got /\ sec' = Reader!After(s)
      BY <1>10 DEF Reader!FinalByte, Reader!Reading
    <2>2. sec' \in {"handler count", "done"}
      BY <2>1 DEF Reader!After
    <2>3. Same /\ got.links = header.exports
      BY <1>4, <2>1 DEF Reader!CountInv, Reader!CodeRead, Reader!TypesRead, Reader!LinksRead
    <2>4. UNCHANGED <<ended, header>>
      BY <1>2, <1>10
    <2>5. Reader!CountInv' /\ Reader!EndInv'
      BY ONLY <1>3, <2>1, <2>2, <2>3, <2>4 DEF Reader!CountInv, Reader!EndInv,
         Reader!CodeRead, Reader!TypesRead, Reader!LinksRead
    <2> QED
      BY <1>2, <1>3, <1>10, <2>1, <2>2, <2>5, SectionKeeps DEF Reader!CodeRead, Reader!TypesRead, Reader!LinksRead
  <1> QED
    BY <1>1, <1>5, <1>6, <1>7, <1>8, <1>9, <1>10

(* The data section: only set_array and restore move the base.             *)
LEMMA DataKeeps ==
    ASSUME Reader!ReaderAssumption, Reader!ReaderInv,
           \/ \E t \in Elements : Reader!ReadArray(t)
           \/ Reader!RestoreLoadAddress
           \/ \E a \in 1 .. MaxArrays, i \in Indices : Reader!SetArray(a, i)
    PROVE  Reader!ReaderInv'
  <1>1. CASE Reader!Error
    BY <1>1, ReaderError
  <1>2. ASSUME NEW t \in Elements, Reader!ReadArray(t) PROVE Reader!ReaderInv'
    <2>1. UNCHANGED <<sec, ended, header, left, got, base, stack, chosen>>
      BY <1>2 DEF Reader!ReadArray
    <2> QED
      BY <2>1 DEF Reader!ReaderInv, Reader!TypeOK, Reader!CountInv, Reader!EndInv,
         Reader!AddressStackSound, Reader!BaseInv
  <1>3. ASSUME ~Reader!Error, Reader!RestoreLoadAddress PROVE Reader!ReaderInv'
    <2>1. /\ stack # <<>> /\ base' = stack[Len(stack)]
          /\ stack' = SubSeq(stack, 1, Len(stack) - 1)
          /\ chosen' = SubSeq(chosen, 1, Len(chosen) - 1)
          /\ UNCHANGED <<sec, ended, header, left, got, arrays>>
      BY <1>3 DEF Reader!RestoreLoadAddress
    <2>2. /\ stack \in Seq(Reader!Addresses) /\ chosen \in Seq(Reader!Addresses)
          /\ Len(stack) = Len(chosen) /\ Len(stack) <= Depth /\ Depth \in Nat
          /\ \A k \in 1 .. Len(stack) : stack[k].obj = IF k = 1 THEN 0 ELSE chosen[k - 1].obj
      BY DEF Reader!ReaderInv, Reader!TypeOK, Reader!AddressStackSound, Reader!ReaderAssumption
    <2> DEFINE n == Len(stack) - 1
    <2>3. n \in Nat /\ n + 1 \in 1 .. Len(stack)
      BY <2>1, <2>2
    <2>4. /\ stack' \in Seq(Reader!Addresses) /\ chosen' \in Seq(Reader!Addresses)
          /\ Len(stack') = n /\ Len(chosen') = n
          /\ \A k \in 1 .. n : stack'[k] = stack[k] /\ chosen'[k] = chosen[k]
      <3>1. n \in 0 .. Len(stack) /\ n \in 0 .. Len(chosen)
        BY <2>2, <2>3
      <3> QED
        BY <2>1, <2>2, <2>3, <3>1
    <2>5. base' \in Reader!Addresses /\ base'.obj = IF n + 1 = 1 THEN 0 ELSE chosen[n].obj
      BY <2>1, <2>2, <2>3
    <2>6. Reader!TypeOK'
      BY <2>1, <2>4, <2>5 DEF Reader!ReaderInv, Reader!TypeOK
    <2>7. Reader!AddressStackSound'
      <3>1. ASSUME NEW k \in 1 .. n PROVE stack'[k].obj = IF k = 1 THEN 0 ELSE chosen'[k - 1].obj
        <4>1. k \in 1 .. Len(stack) /\ (k # 1 => k - 1 \in 1 .. n)
          BY <2>3
        <4> QED
          BY <2>2, <2>4, <4>1
      <3> QED
        BY <2>2, <2>3, <2>4, <3>1 DEF Reader!AddressStackSound
    <2>8. Reader!BaseInv'
      BY <2>3, <2>4, <2>5 DEF Reader!BaseInv
    <2> QED
      BY <2>1, <2>6, <2>7, <2>8 DEF Reader!ReaderInv, Reader!CountInv, Reader!EndInv
  <1>4. ASSUME ~Reader!Error, NEW a \in 1 .. MaxArrays, NEW i \in Indices, Reader!SetArray(a, i)
        PROVE  Reader!ReaderInv'
    <2> DEFINE there == [obj |-> a, off |-> i * Reader!ElemSize]
               start == [obj |-> a, off |-> i * 0]
               m == Len(stack)
    <2>1. /\ ~(Len(stack) >= Depth)
          /\ stack' = Append(stack, base)
          /\ chosen' = Append(chosen, there)
          /\ base' = start
          /\ UNCHANGED <<sec, ended, header, left, got, arrays>>
      BY <1>4 DEF Reader!SetArray
    <2>2. /\ stack \in Seq(Reader!Addresses) /\ chosen \in Seq(Reader!Addresses)
          /\ Len(stack) = Len(chosen) /\ Depth \in Nat
          /\ \A k \in 1 .. Len(stack) : stack[k].obj = IF k = 1 THEN 0 ELSE chosen[k - 1].obj
          /\ base \in Reader!Addresses /\ base.obj = IF chosen = <<>> THEN 0 ELSE chosen[Len(chosen)].obj
      BY DEF Reader!ReaderInv, Reader!TypeOK, Reader!AddressStackSound, Reader!BaseInv, Reader!ReaderAssumption
    <2>3. a \in Nat /\ i \in Int
      BY DEF Reader!ReaderAssumption
    <2>4. there \in Reader!Addresses /\ start \in Reader!Addresses
      BY <2>3 DEF Reader!Addresses, Reader!ElemSize
    <2>5. /\ m \in Nat /\ stack' \in Seq(Reader!Addresses) /\ chosen' \in Seq(Reader!Addresses)
          /\ Len(stack') = m + 1 /\ Len(chosen') = m + 1
          /\ stack'[m + 1] = base /\ chosen'[m + 1] = there
          /\ \A k \in 1 .. m : stack'[k] = stack[k] /\ chosen'[k] = chosen[k]
      BY <2>1, <2>2, <2>4
    <2>6. m = 0 => chosen = <<>>
      BY <2>2, EmptySeq
    <2>7. Reader!TypeOK'
      BY <2>1, <2>4, <2>5 DEF Reader!ReaderInv, Reader!TypeOK
    <2>8. Reader!AddressStackSound'
      <3>1. m + 1 <= Depth
        BY <2>1, <2>2, <2>5
      <3>2. ASSUME NEW k \in 1 .. m + 1 PROVE stack'[k].obj = IF k = 1 THEN 0 ELSE chosen'[k - 1].obj
        <4>1. CASE k \in 1 .. m
          <5>1. k # 1 => k - 1 \in 1 .. m
            BY <2>5, <4>1
          <5> QED
            BY <2>2, <2>5, <4>1, <5>1
        <4>2. CASE k = m + 1 /\ m = 0
          BY <2>2, <2>5, <2>6, <4>2
        <4>3. CASE k = m + 1 /\ m # 0
          <5>1. chosen # <<>> /\ m \in 1 .. m
            BY <2>2, <2>5, <4>3
          <5> QED
            BY <2>2, <2>5, <4>3, <5>1
        <4> QED
          BY <2>5, <4>1, <4>2, <4>3
      <3> QED
        BY <2>5, <3>1, <3>2 DEF Reader!AddressStackSound
    <2>9. Reader!BaseInv'
      <3>1. chosen' # <<>> /\ chosen'[Len(chosen')] = there
        BY <2>5
      <3> QED
        BY <2>1, <3>1 DEF Reader!BaseInv
    <2> QED
      BY <2>1, <2>7, <2>8, <2>9 DEF Reader!ReaderInv, Reader!CountInv, Reader!EndInv
  <1> QED
    BY <1>1, <1>2, <1>3, <1>4

LEMMA ReaderKept ==
    ASSUME Reader!ReaderAssumption, Reader!ReaderInv, [Reader!Next]_readerVars
    PROVE  Reader!ReaderInv'
  <1>1. CASE Reader!EndOfStream
    <2>1. /\ ended' = TRUE /\ sec # "done"
          /\ UNCHANGED <<sec, header, left, got, base, stack, arrays, chosen>>
      BY <1>1 DEF Reader!EndOfStream
    <2> QED
      BY <2>1 DEF Reader!ReaderInv, Reader!TypeOK, Reader!CountInv, Reader!EndInv,
         Reader!AddressStackSound, Reader!BaseInv
  <1>2. CASE Reader!Truncated \/ Reader!BadHeader \/ Reader!BadType \/ Reader!BadDatum
    BY <1>2, ReaderError DEF Reader!Truncated, Reader!BadHeader, Reader!BadType, Reader!BadDatum
  <1>3. CASE UNCHANGED readerVars
    BY <1>3 DEF readerVars, Reader!ReaderInv, Reader!TypeOK, Reader!CountInv, Reader!EndInv,
       Reader!AddressStackSound, Reader!BaseInv
  <1> QED
    BY <1>1, <1>2, <1>3, HeaderKeeps, ItemKeeps, SectionEnds, DataKeeps DEF Reader!Next, Reader!read_module

(* Whatever the file holds and wherever it ends, a module that read_module *)
(* returns is complete, starts in its code, and its data was placed with a *)
(* stack of addresses that stays in its array (module_reader.cpp).         *)
THEOREM ReaderAlwaysSound ==
    ASSUME Reader!ReaderAssumption
    PROVE  HostSpec => []ReaderSound
  <1>1. HostInit => Reader!ReaderInv
    BY ReaderStarts DEF HostInit
  <1>2. Reader!ReaderInv /\ [HostNext]_<<part, options, vars, debuggerVars, readerVars>>
          => Reader!ReaderInv'
    <2>1. [HostNext]_<<part, options, vars, debuggerVars, readerVars>> => [Reader!Next]_readerVars
      BY DEF HostNext, DispatcherMoves, DebuggerMoves, ReaderMoves
    <2> QED
      BY <2>1, ReaderKept
  <1>3. Reader!ReaderInv => ReaderSound
    <2> SUFFICES ASSUME Reader!ReaderInv PROVE ReaderSound
      OBVIOUS
    <2>1. Reader!CompleteModule
      BY DEF Reader!ReaderInv, Reader!CountInv, Reader!EndInv, Reader!CompleteModule,
         Reader!CodeRead, Reader!TypesRead, Reader!LinksRead
    <2>2. Reader!EntryInCode
      BY DEF Reader!ReaderInv, Reader!CountInv, Reader!EntryInCode,
         Reader!CodeRead, Reader!TypesRead, Reader!LinksRead
    <2> QED
      BY <2>1, <2>2 DEF Reader!ReaderInv, ReaderSound
  <1> QED
    BY <1>1, <1>2, <1>3, PTL DEF HostSpec

-----------------------------------------------------------------------------
(* The debugger, under any options that are well formed and do not step by *)
(* themselves: `s' as an automatic command throws before the threads are   *)
(* held.                                                                   *)
OptionsFit ==
    \A o \in Options : Debug(o)!DebuggerAssumption /\ \A c \in o.auto : c.op # "s"

(* What a command works on, and what it leaves: the cookies the debugger   *)
(* keeps are those of the breakpoints.                                     *)
DebugFields == {"bp", "next", "mine", "opt", "trap", "sel", "exit", "out"}
Agreed(o, s) ==
    /\ DOMAIN s = DebugFields
    /\ s.bp \in [PCs -> Nat] /\ s.next \in Nat \ {0}
    /\ s.mine = {s.bp[p] : p \in PCs} \ {0}
    /\ s.opt \in [{"bp-cmd", "step-cmd"} -> o.auto \cup {Nil}]

LEMMA SetAgrees ==
    ASSUME NEW o \in Options, NEW s, Agreed(o, s), NEW p \in PCs
    PROVE  LET r == Debug(o)!SetBreakpoint(s, p) IN
           Agreed(o, r) /\ r.trap = s.trap /\ r.sel = s.sel /\ r.exit = s.exit /\ r.out = s.out
  <1>1. CASE s.bp[p] # 0
    <2> DEFINE m == s.mine \cup {s.bp[p]}
               r == [s EXCEPT !.mine = m]
    <2>1. Debug(o)!SetBreakpoint(s, p) = r
      BY <1>1 DEF Debug!SetBreakpoint
    <2>2. m = s.mine
      BY <1>1 DEF Agreed
    <2> HIDE DEF m
    <2>3. /\ DOMAIN r = DebugFields /\ r.bp = s.bp /\ r.next = s.next /\ r.mine = m /\ r.opt = s.opt
          /\ r.trap = s.trap /\ r.sel = s.sel /\ r.exit = s.exit /\ r.out = s.out
      BY DEF Agreed, DebugFields
    <2> HIDE DEF r
    <2> QED
      BY <2>1, <2>2, <2>3 DEF Agreed
  <1>2. CASE s.bp[p] = 0
    <2> DEFINE b == [s.bp EXCEPT ![p] = s.next]
               m == s.mine \cup {s.next}
               n == s.next + 1
               r == [s EXCEPT !.bp = b, !.mine = m, !.next = n]
    <2>1. Debug(o)!SetBreakpoint(s, p) = [s EXCEPT !.bp[p] = s.next, !.mine = @ \cup {s.next}, !.next = @ + 1]
      BY <1>2 DEF Debug!SetBreakpoint
    <2>2. Debug(o)!SetBreakpoint(s, p) = r
      BY <2>1 DEF Agreed, DebugFields
    <2>3. b \in [PCs -> Nat] /\ n \in Nat \ {0} /\ b[p] = s.next /\ \A q \in PCs : q # p => b[q] = s.bp[q]
      BY DEF Agreed
    <2>4. m = {b[q] : q \in PCs} \ {0}
      BY <1>2, <2>3 DEF Agreed
    <2> HIDE DEF b, m, n
    <2>5. /\ DOMAIN r = DebugFields /\ r.bp = b /\ r.next = n /\ r.mine = m /\ r.opt = s.opt
          /\ r.trap = s.trap /\ r.sel = s.sel /\ r.exit = s.exit /\ r.out = s.out
      BY DEF Agreed, DebugFields
    <2> HIDE DEF r
    <2> QED
      BY <2>2, <2>3, <2>4, <2>5 DEF Agreed
  <1> QED
    BY <1>1, <1>2

LEMMA ClearAgrees ==
    ASSUME NEW o \in Options, NEW s, Agreed(o, s), NEW cs
    PROVE  LET r == Debug(o)!Clear(s, cs) IN
           Agreed(o, r) /\ r.trap = s.trap /\ r.sel = s.sel /\ r.exit = s.exit /\ r.out = s.out
  <1> DEFINE b == [p \in PCs |-> IF s.bp[p] \in cs THEN 0 ELSE s.bp[p]]
             m == s.mine \ cs
             r == [s EXCEPT !.bp = b, !.mine = m]
  <1>1. Debug(o)!Clear(s, cs) = r
    BY DEF Debug!Clear, Agreed, DebugFields
  <1>2. b \in [PCs -> Nat]
    BY DEF Agreed
  <1>3. m = {b[q] : q \in PCs} \ {0}
    BY <1>2 DEF Agreed
  <1> HIDE DEF b, m
  <1>4. /\ DOMAIN r = DebugFields /\ r.bp = b /\ r.next = s.next /\ r.mine = m /\ r.opt = s.opt
        /\ r.trap = s.trap /\ r.sel = s.sel /\ r.exit = s.exit /\ r.out = s.out
    BY DEF Agreed, DebugFields
  <1> HIDE DEF r
  <1> QED
    BY <1>1, <1>2, <1>3, <1>4 DEF Agreed

(* A command that throws is `term', or a step while no thread is held; only*)
(* a step touches the trap flags.                                          *)
Harmless(c, s, r) ==
    /\ r.out = "throw" => c.op = "term" \/ (c.op = "s" /\ ~held)
    /\ r.trap = IF c.op = "s" /\ r.exit THEN [s.trap EXCEPT ![s.sel] = TRUE] ELSE s.trap

WithOut(s, v) == [s EXCEPT !.out = v]
WithExit(s) == [s EXCEPT !.exit = TRUE]
WithSel(s, v) == [s EXCEPT !.sel = v]
LEMMA OutSet ==
    ASSUME NEW o \in Options, NEW s, Agreed(o, s), NEW v
    PROVE  LET r == WithOut(s, v) IN
           Agreed(o, r) /\ r.trap = s.trap /\ r.out = v /\ r.sel = s.sel /\ r.exit = s.exit
  BY DEF Agreed, DebugFields, WithOut

LEMMA ExitSet ==
    ASSUME NEW o \in Options, NEW s, Agreed(o, s)
    PROVE  LET r == WithExit(s) IN
           Agreed(o, r) /\ r.trap = s.trap /\ r.exit = TRUE /\ r.sel = s.sel /\ r.out = s.out
  BY DEF Agreed, DebugFields, WithExit

LEMMA SelSet ==
    ASSUME NEW o \in Options, NEW s, Agreed(o, s), NEW v
    PROVE  LET r == WithSel(s, v) IN
           Agreed(o, r) /\ r.trap = s.trap /\ r.sel = v /\ r.exit = s.exit /\ r.out = s.out
  BY DEF Agreed, DebugFields, WithSel

LEMMA OtherHarmless ==
    ASSUME NEW c, NEW s, NEW r, c.op # "s", r.out # "throw" \/ c.op = "term", r.trap = s.trap
    PROVE  Harmless(c, s, r)
  BY DEF Harmless

LEMMA StepAgrees ==
    ASSUME NEW o \in Options, NEW s, Agreed(o, s), s.exit = FALSE, s.out = "ok", NEW c, c.op = "s"
    PROVE  LET r == Debug(o)!cmd_step(s) IN Agreed(o, r) /\ Harmless(c, s, r)
  <1>1. CASE ~held
    <2>1. Debug(o)!cmd_step(s) = WithOut(s, "throw")
      BY Zenon, <1>1 DEF Debug!cmd_step, WithOut
    <2> QED
      BY <1>1, <2>1, OutSet DEF Harmless
  <1>2. CASE held
    <2> DEFINE f == [s.trap EXCEPT ![s.sel] = TRUE]
               r == [s EXCEPT !.trap = f, !.exit = TRUE]
    <2>1. Debug(o)!cmd_step(s) = [s EXCEPT !.trap[s.sel] = TRUE, !.exit = TRUE]
      BY <1>2 DEF Debug!cmd_step
    <2>2. Debug(o)!cmd_step(s) = r
      BY <2>1 DEF Agreed, DebugFields
    <2> HIDE DEF f
    <2>3. /\ DOMAIN r = DebugFields /\ r.bp = s.bp /\ r.next = s.next /\ r.mine = s.mine /\ r.opt = s.opt
          /\ r.trap = f /\ r.exit = TRUE /\ r.out = s.out
      BY DEF Agreed, DebugFields
    <2> HIDE DEF r
    <2> QED
      BY <2>2, <2>3 DEF Agreed, Harmless, f
  <1> QED
    BY <1>1, <1>2

LEMMA OptionAgrees ==
    ASSUME NEW o \in Options, NEW s, Agreed(o, s), NEW n \in {"bp-cmd", "step-cmd"},
           NEW v \in o.auto \cup {Nil}
    PROVE  LET r == Debug(o)!set_value_cmd(s, n, v) IN
           Agreed(o, r) /\ r.trap = s.trap /\ r.sel = s.sel /\ r.exit = s.exit /\ r.out = s.out
  <1> DEFINE q == [s.opt EXCEPT ![n] = v]
             r == [s EXCEPT !.opt = q]
  <1>1. Debug(o)!set_value_cmd(s, n, v) = r
    BY DEF Debug!set_value_cmd, Agreed, DebugFields
  <1>2. q \in [{"bp-cmd", "step-cmd"} -> o.auto \cup {Nil}]
    BY DEF Agreed
  <1> HIDE DEF q
  <1>3. /\ DOMAIN r = DebugFields /\ r.bp = s.bp /\ r.next = s.next /\ r.mine = s.mine /\ r.opt = q
        /\ r.trap = s.trap /\ r.sel = s.sel /\ r.exit = s.exit /\ r.out = s.out
    BY DEF Agreed, DebugFields
  <1> HIDE DEF r
  <1> QED
    BY <1>1, <1>2, <1>3 DEF Agreed

LEMMA ListAgrees ==
    ASSUME NEW o \in Options, NEW s, Agreed(o, s), s.bp = bp
    PROVE  Debug(o)!cmd_breakpoint_list(s) = s /\ Debug(o)!cmd_disassemble(s) = s
  BY DEF Debug!cmd_breakpoint_list, Debug!cmd_disassemble, Debug!Known, Agreed

LEMMA CommandArgs ==
    ASSUME NEW o \in Options, NEW c \in Debug(o)!Cmds
    PROVE  /\ c.op \in {"c", "s", "term", "show", "bl", "d", "bad", "bc*", "bs", "bc", "~", "bp-cmd", "step-cmd"}
           /\ c.op = "bs" => c.arg \in PCs
           /\ c.op = "~" => c.arg \in o.threads
           /\ c.op \in {"bp-cmd", "step-cmd"} => c.arg \in o.auto \cup {Nil}
  BY DEF Debug!Cmds, Debug!Cmd

LEMMA ResultAgrees ==
    ASSUME NEW o \in Options, NEW s, Agreed(o, s), s.bp = bp, s.exit = FALSE, s.out = "ok",
           NEW c \in Debug(o)!Cmds, DOMAIN opt = {"bp-cmd", "step-cmd"}
    PROVE  LET r == Debug(o)!Result(c, s) IN Agreed(o, r) /\ Harmless(c, s, r)
  <1>1. CASE c.op = "c"
    <2>1. Debug(o)!Result(c, s) = WithExit(s)
      BY Zenon, <1>1 DEF Debug!Result, WithExit
    <2> QED
      <3>1. LET r == WithExit(s) IN Agreed(o, r) /\ r.trap = s.trap /\ r.out = s.out
        BY ExitSet
      <3>2. WithExit(s).out # "throw"
        BY <3>1
      <3> QED
        BY <1>1, <2>1, <3>1, <3>2, OtherHarmless
  <1>2. CASE c.op = "s"
    <2>1. Debug(o)!Result(c, s) = Debug(o)!cmd_step(s)
      BY Zenon, <1>2 DEF Debug!Result
    <2> QED
      BY <1>2, <2>1, StepAgrees
  <1>3. CASE c.op = "term"
    <2>1. Debug(o)!Result(c, s) = WithOut(s, "throw")
      BY Zenon, <1>3 DEF Debug!Result, WithOut
    <2> QED
      BY <1>3, <2>1, OutSet, OtherHarmless
  <1>4. CASE c.op = "bs"
    <2>1. Debug(o)!Result(c, s) = Debug(o)!cmd_breakpoint_set(s, c.arg)
      BY Zenon, <1>4 DEF Debug!Result
    <2>2. c.arg \in PCs
      BY <1>4, CommandArgs
    <2>3. CASE Debug(o)!cmd_breakpoint_set(s, c.arg) = WithOut(s, "error")
      BY <1>4, <2>1, <2>3, OutSet, OtherHarmless
    <2>4. CASE Debug(o)!cmd_breakpoint_set(s, c.arg) = Debug(o)!SetBreakpoint(s, c.arg)
      BY <1>4, <2>1, <2>2, <2>4, SetAgrees, OtherHarmless
    <2> QED
      BY Zenon, <2>3, <2>4 DEF Debug!cmd_breakpoint_set, WithOut
  <1>5. CASE c.op = "bc"
    <2>1. Debug(o)!Result(c, s) = Debug(o)!cmd_breakpoint_clear(s, c.arg)
      BY Zenon, <1>5 DEF Debug!Result
    <2>2. CASE Debug(o)!cmd_breakpoint_clear(s, c.arg) = WithOut(s, "error")
      BY <1>5, <2>1, <2>2, OutSet, OtherHarmless
    <2>3. CASE Debug(o)!cmd_breakpoint_clear(s, c.arg) = Debug(o)!Clear(s, {c.arg})
      BY <1>5, <2>1, <2>3, ClearAgrees, OtherHarmless
    <2> QED
      BY Zenon, <2>2, <2>3 DEF Debug!cmd_breakpoint_clear, WithOut
  <1>6. CASE c.op = "bc*"
    <2>1. Debug(o)!Result(c, s) = Debug(o)!Clear(s, s.mine)
      BY Zenon, <1>6 DEF Debug!Result
    <2> QED
      BY <1>6, <2>1, ClearAgrees, OtherHarmless
  <1>7. CASE c.op \in {"bl", "d", "show"}
    <2>1. Debug(o)!Result(c, s) = s
      <3>1. CASE c.op = "bl"
        <4>1. Debug(o)!Result(c, s) = Debug(o)!cmd_breakpoint_list(s)
          BY Zenon, <3>1 DEF Debug!Result
        <4> QED
          BY <4>1, ListAgrees
      <3>2. CASE c.op = "d"
        <4>1. Debug(o)!Result(c, s) = Debug(o)!cmd_disassemble(s)
          BY Zenon, <3>2 DEF Debug!Result
        <4> QED
          BY <4>1, ListAgrees
      <3>3. CASE c.op = "show"
        <4>1. Debug(o)!Result(c, s) = Debug(o)!cmd_print(s)
          BY Zenon, <3>3 DEF Debug!Result
        <4> QED
          BY <4>1 DEF Debug!cmd_print
      <3> QED
        BY <1>7, <3>1, <3>2, <3>3
    <2> QED
      BY <1>7, <2>1, OtherHarmless
  <1>8. CASE c.op = "~"
    <2>1. Debug(o)!Result(c, s) = Debug(o)!cmd_switchthread(s, c.arg)
      BY Zenon, <1>8 DEF Debug!Result
    <2>2. CASE Debug(o)!cmd_switchthread(s, c.arg) = WithOut(s, "error")
      BY <1>8, <2>1, <2>2, OutSet, OtherHarmless
    <2>3. CASE Debug(o)!cmd_switchthread(s, c.arg) = WithSel(s, c.arg)
      BY <1>8, <2>1, <2>3, SelSet, OtherHarmless
    <2> QED
      BY Zenon, <2>2, <2>3 DEF Debug!cmd_switchthread, WithOut, WithSel
  <1>9. CASE c.op \in {"bp-cmd", "step-cmd"}
    <2>1. Debug(o)!Result(c, s) = Debug(o)!set_value_cmd(s, c.op, c.arg)
      <3>1. c.op \in DOMAIN opt /\ c.op \notin {"c", "s", "term", "bs", "bc", "bc*", "bl", "d", "~"}
        BY <1>9
      <3> QED
        BY Zenon, <3>1 DEF Debug!Result
    <2>2. c.arg \in o.auto \cup {Nil}
      BY <1>9, CommandArgs
    <2> QED
      BY <1>9, <2>1, <2>2, OptionAgrees, OtherHarmless
  <1>10. CASE c.op = "bad"
    <2>1. Debug(o)!Result(c, s) = WithOut(s, "error")
      BY Zenon, <1>10 DEF Debug!Result, WithOut
    <2> QED
      BY <1>10, <2>1, OutSet, OtherHarmless
  <1> QED
    BY <1>1, <1>2, <1>3, <1>4, <1>5, <1>6, <1>7, <1>8, <1>9, <1>10, CommandArgs

(* The worker: a thread fetches, executes and ends an instruction.         *)
LEMMA FetchObeys ==
    ASSUME NEW o \in Options, Debug(o)!DebuggerInv, NEW t \in o.threads, Debug(o)!Fetch(t)
    PROVE  Debug(o)!DebuggerInv'
  <1>1. /\ mode = "run" /\ stage[t] = "fetch" /\ cur' = t /\ stage' = [stage EXCEPT ![t] = "op"]
        /\ \A u \in o.threads : stage[u] \in {"fetch", "gone"}
        /\ (mode' = "event" /\ loaded) \/ mode' = "assert" \/ mode' = mode
        /\ UNCHANGED <<bp, next, mine, opt, flag, enter, saved, last, sel, held, loaded,
                       typed, asked, ends>>
    BY DEF Debug!Fetch, Debug!Report, Debug!dbg, Debug!context, Debug!ghost
  <1>2. Debug(o)!ShapeInv' /\ Debug(o)!CookiesAgree'
    BY <1>1 DEF Debug!DebuggerInv, Debug!ShapeInv, Debug!CookiesAgree, Debug!Known
  <1>3. Debug(o)!PromptInv' /\ Debug(o)!EndsOnRequest'
    BY <1>1 DEF Debug!DebuggerInv, Debug!PromptInv, Debug!EndsOnRequest
  <1>4. Debug(o)!StageInv'
    BY <1>1 DEF Debug!DebuggerInv, Debug!ShapeInv, Debug!StageInv
  <1>5. Debug(o)!StepInv'
    BY <1>1 DEF Debug!DebuggerInv, Debug!ShapeInv, Debug!StepInv, Debug!Trapped
  <1> QED
    BY <1>2, <1>3, <1>4, <1>5 DEF Debug!DebuggerInv

LEMMA ExecuteObeys ==
    ASSUME NEW o \in Options, Debug(o)!DebuggerInv, NEW t \in o.threads, NEW p, NEW e,
           Debug(o)!Execute(t, p, e)
    PROVE  Debug(o)!DebuggerInv'
  <1> DEFINE l == IF e = "unhandled" THEN "broken" ELSE "after"
             k == IF asked[t] = "asked" THEN "made" ELSE asked[t]
  <1>1. /\ mode = "run" /\ stage[t] = "op" /\ stage' = [stage EXCEPT ![t] = l]
        /\ asked' = [asked EXCEPT ![t] = k]
        /\ (mode' = "event" /\ loaded) \/ mode' = mode
        /\ UNCHANGED <<cur, bp, next, mine, opt, flag, enter, saved, last, sel, held, loaded,
                       typed, ends>>
    BY DEF Debug!Execute, Debug!Report, Debug!dbg, Debug!context
  <1>2. /\ l \notin {"fetch", "gone"} /\ (k = "no" <=> asked[t] = "no")
    OBVIOUS
  <1> HIDE DEF l, k
  <1>3. cur = t
    BY <1>1 DEF Debug!DebuggerInv, Debug!StageInv
  <1>4. Debug(o)!ShapeInv' /\ Debug(o)!CookiesAgree'
    BY <1>1 DEF Debug!DebuggerInv, Debug!ShapeInv, Debug!CookiesAgree, Debug!Known
  <1>5. Debug(o)!PromptInv' /\ Debug(o)!EndsOnRequest'
    BY <1>1 DEF Debug!DebuggerInv, Debug!PromptInv, Debug!EndsOnRequest
  <1>6. Debug(o)!StageInv'
    BY <1>1, <1>3 DEF Debug!DebuggerInv, Debug!ShapeInv, Debug!StageInv
  <1>7. Debug(o)!StepInv'
    BY <1>1, <1>2 DEF Debug!DebuggerInv, Debug!ShapeInv, Debug!StepInv, Debug!Trapped
  <1> QED
    BY <1>4, <1>5, <1>6, <1>7 DEF Debug!DebuggerInv

LEMMA AfterObeys ==
    ASSUME NEW o \in Options, Debug(o)!DebuggerInv, NEW t \in o.threads, Debug(o)!AfterExec(t)
    PROVE  Debug(o)!DebuggerInv'
  <1>1. /\ mode = "run" /\ stage[t] = "after"
        /\ UNCHANGED <<cur, bp, next, mine, opt, enter, saved, last, sel, held, loaded,
                       typed, asked, ends>>
    BY DEF Debug!AfterExec, Debug!context, Debug!ghost
  <1>2. PICK l \in {"fetch", "gone"} : stage' = [stage EXCEPT ![t] = l] /\ (flag[t] => l = "fetch")
    BY DEF Debug!AfterExec
  <1>3. cur = t
    BY <1>1 DEF Debug!DebuggerInv, Debug!StageInv
  <1>4. \/ /\ flag[t] /\ loaded /\ mode' = "event" /\ event' = "trap"
           /\ flag' = [flag EXCEPT ![t] = FALSE]
        \/ ~(flag[t] /\ loaded) /\ mode' = mode /\ flag' = flag
    BY DEF Debug!AfterExec, Debug!Report
  <1>5. Debug(o)!ShapeInv' /\ Debug(o)!CookiesAgree'
    <2>1. DOMAIN flag' = o.threads
      BY <1>4 DEF Debug!DebuggerInv, Debug!ShapeInv
    <2> QED
      BY <1>1, <1>2, <2>1 DEF Debug!DebuggerInv, Debug!ShapeInv, Debug!CookiesAgree, Debug!Known
  <1>6. Debug(o)!PromptInv' /\ Debug(o)!EndsOnRequest'
    BY <1>1, <1>4 DEF Debug!DebuggerInv, Debug!PromptInv, Debug!EndsOnRequest
  <1>7. Debug(o)!StageInv'
    BY <1>1, <1>2, <1>3, <1>4 DEF Debug!DebuggerInv, Debug!ShapeInv, Debug!StageInv
  <1>8. Debug(o)!StepInv'
    <2> SUFFICES ASSUME loaded, NEW u \in o.threads
                 PROVE  /\ asked[u] # "no" => flag'[u] \/ Debug(o)!Trapped(u)'
                        /\ asked[u] = "made" /\ stage'[u] = "fetch" => Debug(o)!Trapped(u)'
      BY <1>1 DEF Debug!StepInv
    <2>1. /\ asked[u] # "no" => flag[u]
          /\ ~(asked[u] = "made" /\ stage[u] = "fetch")
      BY <1>1 DEF Debug!DebuggerInv, Debug!StepInv, Debug!Trapped
    <2>2. CASE u = t
      BY <1>1, <1>3, <1>4, <2>1, <2>2 DEF Debug!Trapped
    <2>3. CASE u # t
      <3>1. stage'[u] = stage[u] /\ flag'[u] = flag[u]
        BY <1>2, <1>4, <2>3 DEF Debug!DebuggerInv, Debug!ShapeInv
      <3> QED
        BY <2>1, <3>1
    <2> QED
      BY <2>2, <2>3
  <1> QED
    BY <1>5, <1>6, <1>7, <1>8 DEF Debug!DebuggerInv

LEMMA BrokenObeys ==
    ASSUME NEW o \in Options, Debug(o)!DebuggerInv, NEW t \in o.threads, Debug(o)!Broken(t)
    PROVE  Debug(o)!DebuggerInv'
  <1>1. /\ mode' = "ended" /\ stage[t] = "broken"
        /\ UNCHANGED <<stage, cur, event, bp, next, mine, opt, flag, saved, last, held, loaded,
                       typed, asked, ends>>
    BY DEF Debug!Broken, Debug!machine, Debug!dbg, Debug!context, Debug!ghost
  <1> QED
    BY <1>1 DEF Debug!DebuggerInv, Debug!ShapeInv, Debug!CookiesAgree, Debug!Known, Debug!PromptInv,
       Debug!StageInv, Debug!StepInv, Debug!EndsOnRequest

LEMMA UnloadObeys ==
    ASSUME NEW o \in Options, Debug(o)!DebuggerInv, Debug(o)!on_unload
    PROVE  Debug(o)!DebuggerInv'
  <1>1. /\ mode = "run" /\ loaded' = FALSE
        /\ UNCHANGED <<mode, stage, cur, event, bp, next, mine, opt, flag, saved, last, held,
                       typed, asked, ends>>
    BY DEF Debug!on_unload, Debug!machine, Debug!dbg, Debug!context, Debug!ghost
  <1> QED
    BY <1>1 DEF Debug!DebuggerInv, Debug!ShapeInv, Debug!CookiesAgree, Debug!Known, Debug!PromptInv,
       Debug!StageInv, Debug!StepInv, Debug!EndsOnRequest

(* What a command works on is what the debugger has, and what it leaves    *)
(* the debugger keeps.                                                     *)
LEMMA NowAgrees ==
    ASSUME NEW o \in Options, Debug(o)!DebuggerInv
    PROVE  LET s == Debug(o)!Now IN
           /\ Agreed(o, s) /\ s.bp = bp /\ s.trap = flag /\ s.sel = sel
           /\ s.exit = FALSE /\ s.out = "ok"
  BY DEF Debug!DebuggerInv, Debug!ShapeInv, Debug!OptionNames, Debug!CookiesAgree, Debug!Known,
     Debug!Now, Agreed, DebugFields

LEMMA TableKept ==
    ASSUME NEW o \in Options, Debug(o)!DebuggerInv, NEW r, Agreed(o, r),
           bp' = r.bp, next' = r.next, mine' = r.mine, opt' = r.opt,
           saved' \in Debug(o)!Cmds \cup {Nil}, last' \in Debug(o)!Cmds \cup {Nil},
           DOMAIN stage' = o.threads, DOMAIN asked' = o.threads, DOMAIN flag' = o.threads
    PROVE  Debug(o)!ShapeInv' /\ Debug(o)!CookiesAgree'
  BY DEF Agreed, Debug!ShapeInv, Debug!OptionNames, Debug!CookiesAgree, Debug!Known

(* The callbacks of an event: the prompt opens, or the worker goes on.     *)
LEMMA CallbackObeys ==
    ASSUME OptionsFit, NEW o \in Options, Debug(o)!DebuggerInv, Debug(o)!Callback
    PROVE  Debug(o)!DebuggerInv'
  <1> DEFINE s == IF event = "load" /\ enter THEN Debug(o)!cmd_breakpoint_set(Debug(o)!Now, Entry)
                  ELSE Debug(o)!Now
  <1>1. Agreed(o, s) /\ s.opt = opt
    <2> DEFINE n == Debug(o)!Now
    <2>1. Agreed(o, n)
      BY NowAgrees
    <2>2. n.opt = opt
      BY DEF Debug!Now
    <2>3. Entry \in PCs
      BY DEF OptionsFit, Debug!DebuggerAssumption
    <2> HIDE DEF n
    <2>4. CASE s = n
      BY <2>1, <2>2, <2>4
    <2>5. CASE s = WithOut(n, "error")
      BY <2>1, <2>2, <2>5, OutSet DEF Agreed, WithOut, DebugFields
    <2>6. CASE s = Debug(o)!SetBreakpoint(n, Entry)
      <3>1. Agreed(o, s)
        BY <2>1, <2>3, <2>6, SetAgrees
      <3>2. s.opt = n.opt
        BY <2>1, <2>6 DEF Debug!SetBreakpoint, Agreed, DebugFields
      <3> QED
        BY <2>2, <3>1, <3>2
    <2> QED
      BY Zenon, <2>4, <2>5, <2>6 DEF Debug!cmd_breakpoint_set, WithOut, n
  <1>2. /\ mode = "event" /\ bp' = s.bp /\ mine' = s.mine /\ next' = s.next
        /\ UNCHANGED <<stage, cur, event, opt, flag, saved, loaded, typed, ends>>
    BY DEF Debug!Callback, Debug!machine
  <1> HIDE DEF s
  <1>3. saved = typed /\ ~held /\ loaded
    BY <1>2 DEF Debug!DebuggerInv, Debug!PromptInv, Debug!StageInv
  <1>4. \/ /\ mode' = "prompt" /\ held' = TRUE /\ last' = saved
           /\ asked' = [asked EXCEPT ![cur] = IF event = "trap" THEN "no" ELSE asked[cur]]
        \/ event # "trap" /\ mode' = "run" /\ UNCHANGED <<held, last, asked>>
    BY DEF Debug!Callback, Debug!Breaks, Debug!OpenPrompt
  <1>5. Debug(o)!ShapeInv' /\ Debug(o)!CookiesAgree'
    <2>1. /\ saved' \in Debug(o)!Cmds \cup {Nil} /\ last' \in Debug(o)!Cmds \cup {Nil}
          /\ DOMAIN stage' = o.threads /\ DOMAIN asked' = o.threads /\ DOMAIN flag' = o.threads
      BY <1>2, <1>4 DEF Debug!DebuggerInv, Debug!ShapeInv
    <2> QED
      BY <1>1, <1>2, <2>1, TableKept
  <1>6. Debug(o)!PromptInv' /\ Debug(o)!EndsOnRequest' /\ Debug(o)!StageInv'
    BY <1>2, <1>3, <1>4 DEF Debug!DebuggerInv, Debug!PromptInv, Debug!EndsOnRequest, Debug!StageInv
  <1>7. Debug(o)!StepInv'
    BY <1>2, <1>3, <1>4 DEF Debug!DebuggerInv, Debug!ShapeInv, Debug!StepInv, Debug!Trapped
  <1> QED
    BY <1>5, <1>6, <1>7 DEF Debug!DebuggerInv

LEMMA AutoObeys ==
    ASSUME OptionsFit, NEW o \in Options, Debug(o)!DebuggerInv, Debug(o)!AutoCommand
    PROVE  Debug(o)!DebuggerInv'
  <1> DEFINE c == Debug(o)!Auto
             s == WithSel(Debug(o)!Now, cur)
             r == Debug(o)!Result(c, s)
  <1>1. c \in o.auto /\ c \in Debug(o)!Cmds /\ c.op # "s" /\ DOMAIN opt = {"bp-cmd", "step-cmd"}
    <2>1. c # Nil
      BY DEF Debug!AutoCommand
    <2>2. c \in o.auto \cup {Nil}
      BY DEF Debug!DebuggerInv, Debug!ShapeInv, Debug!OptionNames, Debug!Auto, Debug!AutoOption
    <2> QED
      BY <2>1, <2>2 DEF OptionsFit, Debug!DebuggerAssumption, Debug!DebuggerInv, Debug!ShapeInv,
         Debug!OptionNames
  <1>2. /\ Agreed(o, s) /\ s.bp = bp /\ s.trap = flag /\ s.exit = FALSE /\ s.out = "ok"
    <2> DEFINE n == Debug(o)!Now
    <2>1. /\ Agreed(o, n) /\ n.bp = bp /\ n.trap = flag /\ n.exit = FALSE /\ n.out = "ok"
      BY NowAgrees
    <2> HIDE DEF n
    <2>2. WithSel(n, cur).bp = n.bp
      BY <2>1 DEF WithSel, Agreed, DebugFields
    <2> QED
      BY <2>1, <2>2, SelSet DEF n
  <1> HIDE DEF s
  <1>3. Agreed(o, r) /\ Harmless(c, s, r)
    BY <1>1, <1>2, ResultAgrees
  <1>4. /\ mode = "event"
        /\ \/ /\ r.out = "throw" /\ mode' = "ended" /\ ends' = (ends \/ c.op = "term")
              /\ UNCHANGED <<bp, next, mine, opt, flag, held, last, asked>>
           \/ /\ bp' = r.bp /\ next' = r.next /\ mine' = r.mine /\ opt' = r.opt /\ flag' = r.trap
              /\ mode' = "prompt" /\ held' = TRUE /\ last' = saved /\ UNCHANGED ends
              /\ asked' = [asked EXCEPT ![cur] = IF event = "trap" THEN "no" ELSE asked[cur]]
        /\ UNCHANGED <<stage, cur, event, saved, loaded, typed>>
    BY DEF Debug!AutoCommand, Debug!OpenPrompt, Debug!machine, Debug!dbg, s, WithSel
  <1> HIDE DEF r, c
  <1>5. saved = typed /\ ~held /\ loaded
    BY <1>4 DEF Debug!DebuggerInv, Debug!PromptInv, Debug!StageInv
  <1>6. r.trap = flag /\ (r.out = "throw" => c.op = "term")
    BY <1>1, <1>2, <1>3 DEF Harmless
  <1>7. Debug(o)!ShapeInv' /\ Debug(o)!CookiesAgree'
    <2>1. /\ saved' \in Debug(o)!Cmds \cup {Nil} /\ last' \in Debug(o)!Cmds \cup {Nil}
          /\ DOMAIN stage' = o.threads /\ DOMAIN asked' = o.threads /\ DOMAIN flag' = o.threads
      BY <1>4, <1>6 DEF Debug!DebuggerInv, Debug!ShapeInv
    <2>2. CASE UNCHANGED <<bp, next, mine, opt>>
      BY <2>1, <2>2 DEF Debug!DebuggerInv, Debug!ShapeInv, Debug!CookiesAgree, Debug!Known
    <2>3. CASE bp' = r.bp /\ next' = r.next /\ mine' = r.mine /\ opt' = r.opt
      BY <1>3, <2>1, <2>3, TableKept
    <2> QED
      BY <1>4, <2>2, <2>3
  <1>8. Debug(o)!PromptInv' /\ Debug(o)!EndsOnRequest' /\ Debug(o)!StageInv'
    BY <1>4, <1>5, <1>6 DEF Debug!DebuggerInv, Debug!PromptInv, Debug!EndsOnRequest, Debug!StageInv
  <1>9. Debug(o)!StepInv'
    BY <1>4, <1>5, <1>6 DEF Debug!DebuggerInv, Debug!ShapeInv, Debug!StepInv, Debug!Trapped
  <1> QED
    BY <1>7, <1>8, <1>9 DEF Debug!DebuggerInv

LEMMA TypeObeys ==
    ASSUME OptionsFit, NEW o \in Options, Debug(o)!DebuggerInv,
           NEW line \in Debug(o)!Cmds \cup {Nil}, Debug(o)!Type(line)
    PROVE  Debug(o)!DebuggerInv'
  <1> DEFINE c == IF line = Nil THEN last ELSE line
             s == Debug(o)!Now
             r == Debug(o)!Result(c, s)
  <1>1. c \in Debug(o)!Cmds /\ DOMAIN opt = {"bp-cmd", "step-cmd"}
    BY DEF Debug!Type, Debug!DebuggerInv, Debug!ShapeInv, Debug!OptionNames
  <1>2. /\ Agreed(o, s) /\ s.bp = bp /\ s.trap = flag /\ s.sel = sel /\ s.exit = FALSE /\ s.out = "ok"
    BY NowAgrees
  <1> HIDE DEF s
  <1>3. Agreed(o, r) /\ Harmless(c, s, r)
    BY <1>1, <1>2, ResultAgrees
  <1>4. /\ mode = "prompt"
        /\ bp' = r.bp /\ next' = r.next /\ mine' = r.mine /\ opt' = r.opt /\ flag' = r.trap
        /\ ends' = (ends \/ c.op = "term")
        /\ asked' = IF c.op = "s" /\ r.exit THEN [asked EXCEPT ![sel] = "asked"] ELSE asked
        /\ UNCHANGED <<stage, cur, event, loaded>>
    BY DEF Debug!Type, Debug!Effects, Debug!machine, s
  <1>5. \/ r.out = "throw" /\ mode' = "ended" /\ saved' = last /\ UNCHANGED last
        \/ /\ last' = (IF r.out = "ok" THEN c ELSE last) /\ typed' = (IF r.out = "ok" THEN c ELSE typed)
           /\ \/ mode' = "run" /\ ~held' /\ saved' = last'
              \/ mode' = "prompt" /\ held' /\ saved' = saved
    BY DEF Debug!Type, Debug!Leave, s
  <1> HIDE DEF r, c
  <1>6. last = typed /\ held
    BY <1>4 DEF Debug!DebuggerInv, Debug!PromptInv
  <1>7. /\ r.out = "throw" => c.op = "term"
        /\ flag' = IF c.op = "s" /\ r.exit THEN [flag EXCEPT ![sel] = TRUE] ELSE flag
    BY <1>2, <1>3, <1>4, <1>6 DEF Harmless
  <1>8. Debug(o)!ShapeInv' /\ Debug(o)!CookiesAgree'
    <2>1. /\ saved' \in Debug(o)!Cmds \cup {Nil} /\ last' \in Debug(o)!Cmds \cup {Nil}
      BY <1>1, <1>5 DEF Debug!DebuggerInv, Debug!ShapeInv
    <2>2. DOMAIN stage' = o.threads /\ DOMAIN asked' = o.threads /\ DOMAIN flag' = o.threads
      BY <1>4, <1>7 DEF Debug!DebuggerInv, Debug!ShapeInv
    <2> QED
      BY <1>3, <1>4, <2>1, <2>2, TableKept
  <1>9. Debug(o)!PromptInv' /\ Debug(o)!EndsOnRequest' /\ Debug(o)!StageInv'
    <2>1. Debug(o)!PromptInv'
      <3>1. CASE r.out = "ok"
        BY <1>5, <1>6, <3>1 DEF Debug!PromptInv
      <3>2. CASE r.out # "ok"
        BY <1>5, <1>6, <3>2 DEF Debug!PromptInv
      <3> QED
        BY <3>1, <3>2
    <2>2. Debug(o)!EndsOnRequest'
      BY <1>4, <1>5, <1>7 DEF Debug!EndsOnRequest
    <2>3. Debug(o)!StageInv'
      BY <1>4, <1>5 DEF Debug!DebuggerInv, Debug!StageInv
    <2> QED
      BY <2>1, <2>2, <2>3
  <1>10. Debug(o)!StepInv'
    BY <1>4, <1>5, <1>7 DEF Debug!DebuggerInv, Debug!ShapeInv, Debug!StepInv, Debug!Trapped
  <1> QED
    BY <1>8, <1>9, <1>10 DEF Debug!DebuggerInv

LEMMA DebuggerStarts ==
    ASSUME NEW o \in Options, Debug(o)!Init
    PROVE  Debug(o)!DebuggerInv
  <1>1. Debug(o)!ShapeInv /\ Debug(o)!CookiesAgree
    BY DEF Debug!Init, Debug!ShapeInv, Debug!OptionNames, Debug!CookiesAgree, Debug!Known
  <1>2. Debug(o)!PromptInv /\ Debug(o)!EndsOnRequest
    BY DEF Debug!Init, Debug!PromptInv, Debug!EndsOnRequest
  <1>3. Debug(o)!StageInv /\ Debug(o)!StepInv
    BY DEF Debug!Init, Debug!StageInv, Debug!StepInv
  <1> QED
    BY <1>1, <1>2, <1>3 DEF Debug!DebuggerInv

LEMMA DebuggerStep ==
    ASSUME OptionsFit, NEW o \in Options, Debug(o)!DebuggerInv, Debug(o)!Next
    PROVE  Debug(o)!DebuggerInv'
  <1>1. CASE \E t \in o.threads : Debug(o)!ThreadStep(t)
    <2>1. PICK t \in o.threads : Debug(o)!ThreadStep(t)
      BY <1>1
    <2> QED
      BY <2>1, FetchObeys, ExecuteObeys, AfterObeys, BrokenObeys DEF Debug!ThreadStep
  <1>2. CASE \E line \in Debug(o)!Cmds \cup {Nil} : Debug(o)!Type(line)
    BY <1>2, TypeObeys
  <1> QED
    BY <1>1, <1>2, UnloadObeys, AutoObeys, CallbackObeys DEF Debug!Next

(* The debugger's cookies are the dispatcher's, an empty line repeats what *)
(* the user typed, threads are held exactly while the user is prompted, a  *)
(* step is one instruction, whatever other threads do, and no command ends *)
(* the VM by accident: for every number of threads, and every options but  *)
(* a step as automatic command (debugger.cpp).                             *)
THEOREM DebuggerAlwaysObeys ==
    ASSUME OptionsFit
    PROVE  HostSpec => []DebuggerObeys
  <1> DEFINE Inv == \A o \in Options : options = o => Debug(o)!DebuggerInv
  <1>1. HostInit => Inv
    BY DebuggerStarts DEF HostInit
  <1>2. Inv /\ [HostNext]_<<part, options, vars, debuggerVars, readerVars>> => Inv'
    <2> SUFFICES ASSUME Inv, [HostNext]_<<part, options, vars, debuggerVars, readerVars>>,
                        NEW o \in Options, options' = o
                 PROVE  Debug(o)!DebuggerInv'
      OBVIOUS
    <2>1. options = o /\ Debug(o)!DebuggerInv
      BY DEF HostNext, DispatcherMoves, DebuggerMoves, ReaderMoves
    <2>2. CASE DebuggerMoves
      BY <2>1, <2>2, DebuggerStep DEF DebuggerMoves
    <2>3. CASE UNCHANGED debuggerVars
      BY <2>1, <2>3 DEF debuggerVars, Debug!DebuggerInv, Debug!ShapeInv, Debug!CookiesAgree,
         Debug!Known, Debug!PromptInv, Debug!StageInv, Debug!StepInv, Debug!Trapped,
         Debug!EndsOnRequest
    <2> QED
      BY <2>2, <2>3 DEF HostNext, DispatcherMoves, ReaderMoves
  <1>3. Inv => DebuggerObeys
    <2> SUFFICES ASSUME NEW o \in Options, Debug(o)!DebuggerInv
                 PROVE  /\ Debug(o)!CookiesAgree /\ Debug(o)!RepeatsUserCommand
                        /\ Debug(o)!HeldAtPrompt /\ Debug(o)!StepIsOne /\ Debug(o)!EndsOnRequest
      BY DEF DebuggerObeys
    <2>1. Debug(o)!RepeatsUserCommand
      BY DEF Debug!DebuggerInv, Debug!PromptInv, Debug!RepeatsUserCommand
    <2>2. Debug(o)!HeldAtPrompt
      BY DEF Debug!DebuggerInv, Debug!PromptInv, Debug!HeldAtPrompt
    <2>3. Debug(o)!StepIsOne
      BY DEF Debug!DebuggerInv, Debug!StepInv, Debug!Trapped, Debug!StepIsOne
    <2> QED
      BY <2>1, <2>2, <2>3 DEF Debug!DebuggerInv
  <1> QED
    BY <1>1, <1>2, <1>3, PTL DEF HostSpec

=============================================================================
