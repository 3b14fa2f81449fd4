----------------------------- MODULE SysProofs -----------------------------
(***************************************************************************)
(* Proofs about FdTable and FileIO, for any number of threads, FD values,  *)
(* files and numbers.  The first part holds for every set of calls; the    *)
(* second, that every file outlives what points to it, for the calls that  *)
(* give up only references of their own (RecordsKept); the third is about  *)
(* the streams behind the descriptors, whatever calls move them.           *)
(***************************************************************************)
EXTENDS MCSys, FiniteSetTheorems, WellFoundedInduction, TLAPS

-----------------------------------------------------------------------------
(* Facts about the operators of the table. *)

(* Numbers that were given back have a smallest one. *)
LEMMA SmallestIsMember ==
    ASSUME NEW S, S \subseteq Nat, S # {}
    PROVE  Smallest(S) \in S
  <1>1. PICK n \in S : \A m \in S : ~(<<m, n>> \in OpToRel(<, Nat))
    BY NatLessThanWellFounded, WFMin
  <1>2. \A m \in S : ~(m < n)
    BY <1>1 DEF OpToRel
  <1>3. \A m \in S : n <= m
    BY <1>2
  <1> QED
    BY <1>3 DEF Smallest

(* The numbers of the empty entries of a table m. *)
LEMMA EmptyNumbers ==
    ASSUME NEW T, NEW m \in Seq(T), NEW S, S \subseteq Int
    PROVE  S = {i - 1 : i \in {j \in DOMAIN m : m[j] = Nil}} <=>
             \A n \in Int : n \in S <=> n + 1 \in 1 .. Len(m) /\ m[n + 1] = Nil
  <1> DEFINE E == {i - 1 : i \in {j \in DOMAIN m : m[j] = Nil}}
  <1>1. DOMAIN m = 1 .. Len(m) /\ Len(m) \in Nat
    OBVIOUS
  <1>2. \A n \in Int : n \in E <=> n + 1 \in 1 .. Len(m) /\ m[n + 1] = Nil
    BY <1>1
  <1>3. E \subseteq Int
    BY <1>1
  <1> HIDE DEF E
  <1>4. S = E <=> \A n \in Int : n \in S <=> n + 1 \in 1 .. Len(m) /\ m[n + 1] = Nil
    BY <1>2, <1>3
  <1> QED
    BY <1>4 DEF E

(* A number that names a file is in the table. *)
LEMMA EntryIsRecord ==
    ASSUME TypeOK, NEW fd \in Int, Entry(fd) # Nil
    PROVE  /\ fd \in 0 .. Len(fdMap) - 1 /\ fd + 1 \in DOMAIN fdMap
           /\ fdMap[fd + 1] = Entry(fd) /\ Entry(fd) \in Files
  BY DEF TypeOK, Entry, Nil

(* A record that is made takes an empty place or the next one, and leaves  *)
(* the others alone.                                                       *)
LEMMA CreateProperties ==
    ASSUME FdAssumption, TypeOK, EmptyReusable, NEW o \in Files, create_fd_record(o)
    PROVE  /\ fdMap' \in Seq(Files \cup {Nil}) /\ Len(fdMap') <= MaxNumbers
           /\ NewNumber \in 0 .. MaxNumbers - 1
           /\ NewNumber + 1 \in DOMAIN fdMap' /\ fdMap'[NewNumber + 1] = o
           /\ DOMAIN fdMap \subseteq DOMAIN fdMap'
           /\ \A i \in DOMAIN fdMap' : i # NewNumber + 1 => i \in DOMAIN fdMap /\ fdMap'[i] = fdMap[i]
           /\ NewNumber + 1 \in DOMAIN fdMap => fdMap[NewNumber + 1] = Nil
           /\ available' \subseteq 0 .. MaxNumbers - 1
           /\ \A n \in Int : n \in available' <=> n + 1 \in 1 .. Len(fdMap') /\ fdMap'[n + 1] = Nil
  <1>1. o # Nil /\ Len(fdMap) \in Nat /\ available \subseteq Nat /\ MaxNumbers \in Nat
    BY DEF TypeOK, Files, Nil, FdAssumption
  <1>2. \A n \in Int : n \in available <=> n + 1 \in 1 .. Len(fdMap) /\ fdMap[n + 1] = Nil
    BY <1>1, EmptyNumbers DEF EmptyReusable, TypeOK
  <1>3. CASE available = {}
    <2>1. /\ fdMap' = Append(fdMap, o) /\ available' = {} /\ NewNumber = Len(fdMap)
          /\ Len(fdMap) < MaxNumbers
      BY <1>3 DEF create_fd_record, CanCreateRecord, NewNumber
    <2>2. /\ Len(fdMap') = Len(fdMap) + 1 /\ fdMap' \in Seq(Files \cup {Nil})
          /\ fdMap'[Len(fdMap) + 1] = o
          /\ \A i \in 1 .. Len(fdMap) : fdMap'[i] = fdMap[i]
          /\ DOMAIN fdMap' = 1 .. Len(fdMap) + 1 /\ DOMAIN fdMap = 1 .. Len(fdMap)
      BY <2>1 DEF TypeOK
    <2> QED
      BY <1>1, <1>2, <1>3, <2>1, <2>2
  <1>4. CASE available # {}
    <2>1. /\ fdMap' = [fdMap EXCEPT ![NewNumber + 1] = o] /\ available' = available \ {NewNumber}
          /\ NewNumber \in available
      BY <1>1, <1>4, SmallestIsMember DEF create_fd_record, NewNumber
    <2>2. NewNumber \in Int /\ NewNumber + 1 \in 1 .. Len(fdMap) /\ fdMap[NewNumber + 1] = Nil
          /\ NewNumber \in 0 .. MaxNumbers - 1
      BY <1>1, <1>2, <2>1 DEF TypeOK
    <2> DEFINE k == NewNumber + 1
    <2>3. k \in 1 .. Len(fdMap) /\ fdMap' = [fdMap EXCEPT ![k] = o]
      BY <2>1, <2>2
    <2> HIDE DEF k
    <2>4. /\ Len(fdMap') = Len(fdMap) /\ fdMap' \in Seq(Files \cup {Nil})
          /\ fdMap'[k] = o
          /\ \A i \in 1 .. Len(fdMap) : i # k => fdMap'[i] = fdMap[i]
          /\ DOMAIN fdMap' = 1 .. Len(fdMap) /\ DOMAIN fdMap = 1 .. Len(fdMap)
      BY <2>3 DEF TypeOK
    <2>5. \A n \in Int : n \in available' <=> n + 1 \in 1 .. Len(fdMap') /\ fdMap'[n + 1] = Nil
      BY <1>1, <1>2, <2>1, <2>2, <2>4 DEF k
    <2> QED
      BY <2>1, <2>2, <2>4, <2>5 DEF k, TypeOK
  <1> QED
    BY <1>3, <1>4

(* Replacing the file of a record changes no other record. *)
LEMMA ReplaceProperties ==
    ASSUME TypeOK, NEW k \in 1 .. Len(fdMap), NEW o \in Files \cup {Nil},
           fdMap' = [fdMap EXCEPT ![k] = o]
    PROVE  /\ fdMap' \in Seq(Files \cup {Nil}) /\ Len(fdMap') = Len(fdMap)
           /\ fdMap'[k] = o /\ DOMAIN fdMap' = DOMAIN fdMap /\ DOMAIN fdMap = 1 .. Len(fdMap)
           /\ \A i \in 1 .. Len(fdMap) : i # k => fdMap'[i] = fdMap[i]
  BY DEF TypeOK

-----------------------------------------------------------------------------
(* The table, whatever the calls. *)

(* The standard streams are the first three records. *)
LEMMA TableStarts ==
    ASSUME FdAssumption, Init
    PROVE  TableInv
  <1>1. fdMap = <<1, 2, 3>> /\ fdMap \in Seq(Files \cup {Nil}) /\ Len(fdMap) = 3
        /\ 1 \in Files /\ 2 \in Files /\ 3 \in Files
    BY DEF Init, Stdin, Stdout, Stderr, Files, FdAssumption
  <1>2. TypeOK
    BY <1>1 DEF Init, TypeOK, FdAssumption, Nil, NoAdt, Idle, Files
  <1>3. NamedInv
    BY <1>1 DEF Init, NamedInv, NoAdt, Idle, Nil
  <1>4. CallInv
    BY DEF Init, CallInv, Idle
  <1>5. \A i \in 1 .. Len(fdMap) : fdMap[i] # Nil
    BY <1>1 DEF Nil
  <1>6. EmptyReusable
    BY <1>1, <1>5, EmptyNumbers DEF Init, EmptyReusable
  <1> QED
    BY <1>2, <1>3, <1>4, <1>6 DEF TableInv

(* Steps that leave the table alone. *)
LEMMA TableUntouched ==
    ASSUME TableInv, UNCHANGED <<fdMap, available>>, TypeOK', NamedInv', CallInv'
    PROVE  TableInv'
  BY DEF TableInv, EmptyReusable

(* A fault changes nothing else. *)
LEMMA FaultKeepsTable ==
    ASSUME TableInv, NEW what \in {"freed", "null", "assert"}, Faulted(what)
    PROVE  TableInv'
  <1>1. TypeOK' /\ NamedInv' /\ CallInv'
    BY DEF Faulted, TableInv, TypeOK, NamedInv, CallInv
  <1> QED
    BY <1>1, TableUntouched DEF Faulted

(* The record of a new file. *)
LEMMA OpenRecordKeepsTable ==
    ASSUME FdAssumption, TableInv, NEW t \in Threads, OpenRecord(t)
    PROVE  TableInv'
  <1> USE DEF TableInv
  <1>1. created' = created + 1 /\ created' \in Files /\ created \in Nat
    BY DEF OpenRecord, TypeOK, Files, FdAssumption
  <1>2. create_fd_record(created')
    BY DEF OpenRecord
  <1>3. /\ fdMap' \in Seq(Files \cup {Nil}) /\ Len(fdMap') <= MaxNumbers
        /\ NewNumber \in 0 .. MaxNumbers - 1
        /\ NewNumber + 1 \in DOMAIN fdMap' /\ fdMap'[NewNumber + 1] = created'
        /\ \A i \in DOMAIN fdMap' : i # NewNumber + 1 => i \in DOMAIN fdMap /\ fdMap'[i] = fdMap[i]
        /\ available' \subseteq 0 .. MaxNumbers - 1
        /\ \A n \in Int : n \in available' <=> n + 1 \in 1 .. Len(fdMap') /\ fdMap'[n + 1] = Nil
    BY <1>1, <1>2, CreateProperties
  <1>4. at' = [at EXCEPT ![t] = [step |-> "open", file |-> created', fd |-> NewNumber]]
        /\ UNCHANGED <<adt, fault>> /\ refs' = [refs EXCEPT ![created'] = 1] /\ "open" \in Calls
    BY DEF OpenRecord, CanRun
  <1>5. refs' \in [Files -> 0 .. MaxRefs]
    BY <1>1, <1>4 DEF TypeOK, FdAssumption
  <1>6. at' \in [Threads -> [step : {"idle", "open", "dup", "dup2", "print", "collect"},
                             file : Files \cup {Nil}, fd : -1..(MaxNumbers - 1)]]
    BY <1>1, <1>3, <1>4 DEF TypeOK, FdAssumption
  <1>7. TypeOK'
    BY <1>1, <1>3, <1>4, <1>5, <1>6 DEF TypeOK
  <1>8. NamedInv'
    BY <1>1, <1>3, <1>4 DEF NamedInv, TypeOK
  <1>9. CallInv'
    BY <1>1, <1>4 DEF CallInv, TypeOK, Nil, Files
  <1>10. EmptyReusable'
    <2>1. available' \subseteq Int
      BY <1>3
    <2> QED
      BY <1>3, <2>1, EmptyNumbers DEF EmptyReusable
  <1> QED
    BY <1>7, <1>8, <1>9, <1>10

(* The FD value of a new file. *)
LEMMA OpenAdoptKeepsTable ==
    ASSUME FdAssumption, TableInv, NEW t \in Threads, OpenAdopt(t)
    PROVE  TableInv'
  <1>1. CASE Faulted("freed")
    BY <1>1, FaultKeepsTable
  <1>2. CASE ~Faulted("freed")
    <2>1. PICK a \in Adts :
            /\ refs[at[t].file] < MaxRefs /\ Live(at[t].file)
            /\ adt' = [adt EXCEPT ![a] = [fd |-> at[t].fd, impl |-> at[t].file]]
            /\ refs' = [refs EXCEPT ![at[t].file] = @ + 1]
            /\ at' = [at EXCEPT ![t] = Idle]
            /\ UNCHANGED <<fdMap, available, created, fault>>
      BY <1>2 DEF OpenAdopt, NewAdtRefs, AddRef
    <2>2. at[t].file \in Files /\ at[t].file \in 0 .. created /\ at[t].fd \in -1 .. MaxNumbers - 1
          /\ created \in Nat
      BY <2>1 DEF OpenAdopt, TableInv, TypeOK, CallInv, NamedInv, Nil, Files, FdAssumption
    <2>3. refs' \in [Files -> 0 .. MaxRefs]
      BY <2>1, <2>2 DEF TableInv, TypeOK, FdAssumption
    <2>4. at' \in [Threads -> [step : {"idle", "open", "dup", "dup2", "print", "collect"},
                               file : Files \cup {Nil}, fd : -1..(MaxNumbers - 1)]]
      BY <2>1 DEF TableInv, TypeOK, FdAssumption, Idle
    <2>5. TypeOK'
      BY <2>1, <2>2, <2>3, <2>4 DEF TableInv, TypeOK
    <2>6. NamedInv'
      BY <2>1, <2>2 DEF TableInv, TypeOK, NamedInv, Idle, Nil
    <2>7. CallInv'
      BY <2>1, <2>2 DEF TableInv, TypeOK, CallInv, Idle, Nil, NoAdt, Files
    <2> QED
      BY <2>1, <2>5, <2>6, <2>7, TableUntouched
  <1> QED
    BY <1>1, <1>2

(* fildes takes a reference for the FD value it returns. *)
LEMMA FildesKeepsTable ==
    ASSUME FdAssumption, TableInv, NEW t \in Threads, NEW n \in Numbers, Sys_fildes(t, n)
    PROVE  TableInv'
  <1>1. CASE Faulted("freed")
    BY <1>1, FaultKeepsTable
  <1>2. CASE ~Faulted("freed")
    <2>1. PICK a \in Adts :
            /\ Entry(n) # Nil /\ refs[Entry(n)] < MaxRefs
            /\ adt' = [adt EXCEPT ![a] = [fd |-> n, impl |-> Entry(n)]]
            /\ refs' = [refs EXCEPT ![Entry(n)] = @ + 1]
            /\ UNCHANGED <<fdMap, available, created, at, fault>>
      BY <1>2 DEF Sys_fildes, fetch_fd_record, FetchedRefs, AddRef
    <2>2. n \in 0 .. MaxNumbers - 1 /\ n + 1 \in DOMAIN fdMap /\ fdMap[n + 1] = Entry(n)
          /\ Entry(n) \in Files
      BY <2>1, EntryIsRecord DEF TableInv, Numbers, FdAssumption
    <2>3. TypeOK'
      BY <2>1, <2>2 DEF TableInv, TypeOK, FdAssumption
    <2>4. NamedInv' /\ CallInv'
      BY <2>1, <2>2 DEF TableInv, TypeOK, NamedInv, CallInv
    <2> QED
      BY <2>1, <2>3, <2>4, TableUntouched
  <1> QED
    BY <1>1, <1>2

(* What DupFetch and PrintFetch have in common: thread t holds the file of *)
(* number n for a call.                                                    *)
LEMMA FetchKeepsTable ==
    ASSUME FdAssumption, TableInv, NEW t \in Threads, NEW n \in Numbers,
           NEW s \in {"dup", "dup2", "print"} \cap Calls, Entry(n) # Nil, fetch_fd_record(n),
           at' = [at EXCEPT ![t] = [step |-> s, file |-> Entry(n), fd |-> n]],
           UNCHANGED <<fdMap, available, created, adt, fault>>
    PROVE  TableInv'
  <1>1. n \in 0 .. MaxNumbers - 1 /\ n + 1 \in DOMAIN fdMap /\ fdMap[n + 1] = Entry(n)
        /\ Entry(n) \in Files
    BY EntryIsRecord DEF TableInv, Numbers, FdAssumption
  <1>2. refs[Entry(n)] < MaxRefs /\ refs' = [refs EXCEPT ![Entry(n)] = @ + 1]
    BY DEF fetch_fd_record, FetchedRefs, AddRef
  <1>3. TypeOK'
    BY <1>1, <1>2 DEF TableInv, TypeOK, FdAssumption
  <1>4. NamedInv' /\ CallInv'
    BY <1>1 DEF TableInv, TypeOK, NamedInv, CallInv
  <1> QED
    BY <1>3, <1>4, TableUntouched

(* dup and print fetch a record. *)
LEMMA DupFetchKeepsTable ==
    ASSUME FdAssumption, TableInv, NEW t \in Threads, NEW n \in Numbers, DupFetch(t, n)
    PROVE  TableInv'
  <1>1. CASE Faulted("freed")
    BY <1>1, FaultKeepsTable
  <1>2. CASE ~Faulted("freed")
    <2>1. PICK s \in {"dup", "dup2"} \cap Calls :
            at' = [at EXCEPT ![t] = [step |-> s, file |-> Entry(n), fd |-> n]]
      BY <1>2 DEF DupFetch
    <2> QED
      BY <1>2, <2>1, FetchKeepsTable DEF DupFetch
  <1> QED
    BY <1>1, <1>2

(* print fetches the record of number 1. *)
LEMMA PrintFetchKeepsTable ==
    ASSUME FdAssumption, TableInv, NEW t \in Threads, PrintFetch(t)
    PROVE  TableInv'
  <1>1. CASE Faulted("freed")
    BY <1>1, FaultKeepsTable
  <1>2. CASE ~Faulted("freed")
    <2>1. 1 \in Numbers /\ "print" \in {"dup", "dup2", "print"} \cap Calls
      BY DEF Numbers, FdAssumption, PrintFetch, CanRun
    <2>2. /\ Entry(1) # Nil /\ fetch_fd_record(1)
          /\ at' = [at EXCEPT ![t] = [step |-> "print", file |-> Entry(1), fd |-> 1]]
          /\ UNCHANGED <<fdMap, available, created, adt, fault>>
      BY <1>2 DEF PrintFetch
    <2> QED
      BY <2>1, <2>2, FetchKeepsTable
  <1> QED
    BY <1>1, <1>2

(* Thread t ends its call, and may release a file that is alive. *)
LEMMA ReturnKeepsTable ==
    ASSUME FdAssumption, TableInv, NEW t \in Threads, at' = [at EXCEPT ![t] = Idle],
           refs' = refs \/ \E o \in Files : refs[o] > 0 /\ refs' = [refs EXCEPT ![o] = @ - 1],
           UNCHANGED <<fdMap, available, created, adt, fault>>
    PROVE  TableInv'
  <1>1. refs' \in [Files -> 0 .. MaxRefs]
    <2>1. CASE refs' = refs
      BY <2>1 DEF TableInv, TypeOK
    <2>2. ASSUME NEW o \in Files, refs[o] > 0, refs' = [refs EXCEPT ![o] = @ - 1]
          PROVE  refs' \in [Files -> 0 .. MaxRefs]
      BY <2>2 DEF TableInv, TypeOK, FdAssumption
    <2> QED
      BY <2>1, <2>2
  <1>2. at' \in [Threads -> [step : {"idle", "open", "dup", "dup2", "print", "collect"},
                             file : Files \cup {Nil}, fd : -1..(MaxNumbers - 1)]]
    BY DEF TableInv, TypeOK, FdAssumption, Idle
  <1>3. TypeOK'
    BY <1>1, <1>2 DEF TableInv, TypeOK
  <1>4. NamedInv' /\ CallInv'
    BY DEF TableInv, TypeOK, NamedInv, CallInv, Idle, Nil, Files, FdAssumption
  <1> QED
    BY <1>3, <1>4, TableUntouched

(* The ends of the calls that leave the table alone. *)
LEMMA ReturnsKeepTable ==
    ASSUME FdAssumption, TableInv, NEW t \in Threads,
           \/ \E n \in Numbers : DupRefused(t, n)
           \/ PrintThrows(t) \/ PrintRelease(t) \/ FinalizeRelease(t)
    PROVE  TableInv'
  <1>1. CASE Faulted("freed")
    BY <1>1, FaultKeepsTable
  <1>2. CASE ~Faulted("freed")
    <2>1. \A o : Live(o) => o \in Files /\ refs[o] > 0
      BY DEF Live, TableInv, TypeOK, Files, FdAssumption
    <2> QED
      BY <1>2, <2>1, ReturnKeepsTable DEF DupRefused, PrintThrows, PrintRelease, FinalizeRelease, Release
  <1> QED
    BY <1>1, <1>2

(* dup puts the file under a new number. *)
LEMMA DupNewKeepsTable ==
    ASSUME FdAssumption, TableInv, NEW t \in Threads, DupNew(t)
    PROVE  TableInv'
  <1> USE DEF TableInv
  <1>1. at[t].file \in Files /\ at[t].file \in 0 .. created
    BY DEF DupNew, TypeOK, CallInv, NamedInv, Nil
  <1>2. create_fd_record(at[t].file)
    BY DEF DupNew
  <1>3. /\ fdMap' \in Seq(Files \cup {Nil}) /\ Len(fdMap') <= MaxNumbers
        /\ fdMap'[NewNumber + 1] = at[t].file
        /\ \A i \in DOMAIN fdMap' : i # NewNumber + 1 => i \in DOMAIN fdMap /\ fdMap'[i] = fdMap[i]
        /\ available' \subseteq 0 .. MaxNumbers - 1
        /\ \A n \in Int : n \in available' <=> n + 1 \in 1 .. Len(fdMap') /\ fdMap'[n + 1] = Nil
    BY <1>1, <1>2, CreateProperties
  <1>4. at' = [at EXCEPT ![t] = Idle] /\ UNCHANGED <<refs, created, adt, fault>>
    BY DEF DupNew
  <1>5. at' \in [Threads -> [step : {"idle", "open", "dup", "dup2", "print", "collect"},
                             file : Files \cup {Nil}, fd : -1..(MaxNumbers - 1)]]
    BY <1>4 DEF TypeOK, FdAssumption, Idle
  <1>6. TypeOK'
    BY <1>3, <1>4, <1>5 DEF TypeOK
  <1>7. NamedInv'
    <2>1. created \in Nat
      BY DEF TypeOK, Files, FdAssumption
    <2>2. \A i \in DOMAIN fdMap' : fdMap'[i] \in 0 .. created
      BY <1>1, <1>3 DEF NamedInv
    <2> QED
      BY <1>4, <2>1, <2>2 DEF NamedInv, TypeOK, Idle, Nil
  <1>8. CallInv'
    BY <1>4 DEF CallInv, TypeOK, Idle
  <1>9. EmptyReusable'
    <2>1. available' \subseteq Int
      BY <1>3
    <2> QED
      BY <1>3, <2>1, EmptyNumbers DEF EmptyReusable
  <1> QED
    BY <1>6, <1>7, <1>8, <1>9

(* dup2 replaces the file of a record that is not empty. *)
LEMMA UpdateKeepsTable ==
    ASSUME FdAssumption, TableInv, NEW t \in Threads, NEW n \in Numbers, try_update_fd_record(t, n)
    PROVE  TableInv'
  <1>1. CASE Faulted("freed") \/ Faulted("null")
    BY <1>1, FaultKeepsTable
  <1>2. CASE ~(Faulted("freed") \/ Faulted("null"))
    <2> USE DEF TableInv
    <2>1. /\ Entry(n) # Nil /\ Live(Entry(n)) /\ n \in 0 .. Len(fdMap) - 1
          /\ refs' = [refs EXCEPT ![Entry(n)] = @ - 1]
          /\ fdMap' = [fdMap EXCEPT ![n + 1] = at[t].file]
          /\ at' = [at EXCEPT ![t] = Idle]
          /\ UNCHANGED <<available, created, adt, fault>>
          /\ at[t].step = "dup2"
      BY <1>2 DEF try_update_fd_record, Release
    <2>2. n + 1 \in 1 .. Len(fdMap) /\ fdMap[n + 1] = Entry(n) /\ Entry(n) \in Files
      BY <2>1, EntryIsRecord DEF Numbers, FdAssumption, TypeOK
    <2>3. at[t].file \in Files /\ at[t].file # Nil /\ at[t].file \in 0 .. created
      BY <2>1 DEF TypeOK, CallInv, NamedInv
    <2> DEFINE k == n + 1
    <2>4. k \in 1 .. Len(fdMap) /\ fdMap' = [fdMap EXCEPT ![k] = at[t].file] /\ fdMap[k] # Nil
      BY <2>1, <2>2
    <2> HIDE DEF k
    <2>5. /\ fdMap' \in Seq(Files \cup {Nil}) /\ Len(fdMap') = Len(fdMap)
          /\ fdMap'[k] = at[t].file /\ DOMAIN fdMap' = DOMAIN fdMap /\ DOMAIN fdMap = 1 .. Len(fdMap)
          /\ \A i \in 1 .. Len(fdMap) : i # k => fdMap'[i] = fdMap[i]
      BY <2>3, <2>4, ReplaceProperties
    <2>6. refs' \in [Files -> 0 .. MaxRefs]
      BY <2>1, <2>2 DEF TypeOK, FdAssumption, Live
    <2>7. at' \in [Threads -> [step : {"idle", "open", "dup", "dup2", "print", "collect"},
                               file : Files \cup {Nil}, fd : -1..(MaxNumbers - 1)]]
      BY <2>1 DEF TypeOK, FdAssumption, Idle
    <2>8. TypeOK'
      BY <2>1, <2>5, <2>6, <2>7 DEF TypeOK
    <2>9. NamedInv'
      BY <2>1, <2>3, <2>5 DEF NamedInv, TypeOK, Idle, Nil, Files, FdAssumption
    <2>10. CallInv'
      BY <2>1 DEF CallInv, TypeOK, Idle
    <2>11. EmptyReusable'
      <3>1. {j \in DOMAIN fdMap' : fdMap'[j] = Nil} = {j \in DOMAIN fdMap : fdMap[j] = Nil}
        BY <2>3, <2>4, <2>5
      <3> QED
        BY <2>1, <3>1 DEF EmptyReusable
    <2> QED
      BY <2>8, <2>9, <2>10, <2>11
  <1> QED
    BY <1>1, <1>2

(* The finalizer clears the entry when it gave up the last reference. *)
LEMMA FinalizeKeepsTable ==
    ASSUME FdAssumption, TableInv, NEW t \in Threads, NEW a \in Adts, FinalizeDrop(t, a)
    PROVE  TableInv'
  <1>1. CASE Faulted("freed") \/ Faulted("assert")
    BY <1>1, FaultKeepsTable
  <1>2. CASE ~(Faulted("freed") \/ Faulted("assert"))
    <2> USE DEF TableInv
    <2> DEFINE n == adt[a].fd
               k == n + 1
               last == refs[Entry(n)] = 1
    <2>1. /\ Entry(n) # Nil /\ Live(Entry(n)) /\ adt[a] # NoAdt /\ "collect" \in Calls
          /\ refs' = [refs EXCEPT ![Entry(n)] = @ - 1]
          /\ fdMap' = IF last THEN [fdMap EXCEPT ![k] = Nil] ELSE fdMap
          /\ available' = IF last THEN available \cup {n} ELSE available
          /\ adt' = [adt EXCEPT ![a] = NoAdt]
          /\ at' = [at EXCEPT ![t] = [step |-> "collect", file |-> adt[a].impl, fd |-> n]]
          /\ UNCHANGED <<created, fault>>
      BY <1>2 DEF FinalizeDrop, drop_fd_record, DroppedMap, Release, CanRun
    <2>2. n \in Int /\ n \in -1 .. MaxNumbers - 1
      BY DEF TypeOK, FdAssumption
    <2>3. /\ n \in 0 .. Len(fdMap) - 1 /\ k \in 1 .. Len(fdMap)
          /\ fdMap[k] = Entry(n) /\ Entry(n) \in Files
      BY <2>1, <2>2, EntryIsRecord DEF TypeOK
    <2>4. n \in 0 .. MaxNumbers - 1
      BY <2>2, <2>3 DEF TypeOK
    <2>5. adt[a].impl \in Files /\ adt[a].impl \in 0 .. created /\ adt[a].impl # Nil
          /\ created \in Nat
      BY <2>1 DEF TypeOK, CallInv, NamedInv, Nil, Files, FdAssumption
    <2>6. refs' \in [Files -> 0 .. MaxRefs]
      BY <2>1, <2>3 DEF TypeOK, FdAssumption, Live
    <2>7. at' \in [Threads -> [step : {"idle", "open", "dup", "dup2", "print", "collect"},
                               file : Files \cup {Nil}, fd : -1..(MaxNumbers - 1)]]
      BY <2>1, <2>2, <2>5 DEF TypeOK
    <2>8. adt' \in [Adts -> [fd : -1..(MaxNumbers - 1), impl : Files \cup {Nil}]]
      BY <2>1 DEF TypeOK, NoAdt, FdAssumption
    <2>9. /\ fdMap' \in Seq(Files \cup {Nil}) /\ Len(fdMap') = Len(fdMap)
          /\ DOMAIN fdMap' = DOMAIN fdMap /\ DOMAIN fdMap = 1 .. Len(fdMap)
          /\ fdMap'[k] = IF last THEN Nil ELSE fdMap[k]
          /\ \A i \in 1 .. Len(fdMap) : i # k => fdMap'[i] = fdMap[i]
      <3>1. CASE last
        <4> HIDE DEF k
        <4> QED
          BY <2>1, <2>3, <3>1, ReplaceProperties
      <3>2. CASE ~last
        BY <2>1, <3>2 DEF TypeOK
      <3> QED
        BY <3>1, <3>2
    <2>10. available' \subseteq 0 .. MaxNumbers - 1
      BY <2>1, <2>4 DEF TypeOK
    <2>11. TypeOK'
      BY <2>1, <2>6, <2>7, <2>8, <2>9, <2>10 DEF TypeOK
    <2>12. NamedInv'
      <3>1. \A i \in DOMAIN fdMap' : fdMap'[i] = fdMap[i] \/ fdMap'[i] = Nil
        BY <2>3, <2>9
      <3> QED
        BY <2>1, <2>5, <2>9, <3>1 DEF NamedInv, TypeOK, NoAdt, Nil
    <2>13. CallInv'
      BY <2>1, <2>5 DEF CallInv, TypeOK
    <2>14. EmptyReusable'
      <3>1. \A i \in Int : i \in available <=> i + 1 \in 1 .. Len(fdMap) /\ fdMap[i + 1] = Nil
        BY EmptyNumbers DEF EmptyReusable, TypeOK
      <3>2. \A i \in Int : i \in available' <=> i + 1 \in 1 .. Len(fdMap') /\ fdMap'[i + 1] = Nil
        <4> SUFFICES ASSUME NEW i \in Int
                     PROVE  i \in available' <=> i + 1 \in 1 .. Len(fdMap') /\ fdMap'[i + 1] = Nil
          OBVIOUS
        <4>1. CASE i = n
          BY <2>1, <2>3, <2>9, <3>1, <4>1
        <4>2. CASE i # n
          <5>1. i + 1 # k /\ (i \in available' <=> i \in available)
            BY <2>1, <2>2, <4>2
          <5> QED
            BY <2>9, <3>1, <5>1
        <4> QED
          BY <4>1, <4>2
      <3>3. available' \subseteq Int
        BY <2>10
      <3> QED
        BY <2>9, <3>2, <3>3, EmptyNumbers DEF EmptyReusable
    <2> QED
      BY <2>11, <2>12, <2>13, <2>14
  <1> QED
    BY <1>1, <1>2

(* The calls that only look at a file. *)
LEMMA UseKeepsTable ==
    ASSUME TableInv, NEW t \in Threads, NEW a \in Adts, UseFile(t, a)
    PROVE  TableInv'
  BY FaultKeepsTable DEF UseFile

(* TableInv holds in every state, whatever the calls. *)
THEOREM TableInvariant ==
    ASSUME FdAssumption
    PROVE  Spec => []TableInv
  <1>1. Init => TableInv
    BY TableStarts
  <1>2. TableInv /\ [Next]_vars => TableInv'
    <2> SUFFICES ASSUME TableInv, [Next]_vars
                 PROVE  TableInv'
      OBVIOUS
    <2>1. CASE UNCHANGED vars
      BY <2>1 DEF vars, TableInv, TypeOK, NamedInv, CallInv, EmptyReusable
    <2>2. CASE Next
      BY <2>2, OpenRecordKeepsTable, OpenAdoptKeepsTable, FildesKeepsTable, DupFetchKeepsTable,
         DupNewKeepsTable, ReturnsKeepTable, UpdateKeepsTable, PrintFetchKeepsTable,
         UseKeepsTable, FinalizeKeepsTable DEF Next
    <2> QED
      BY <2>1, <2>2
  <1> QED
    BY <1>1, <1>2, PTL DEF Spec

(* Exactly the numbers of empty entries can be used again, while threads   *)
(* open, duplicate, replace and give up files in any order: the assertion  *)
(* "Reused FD should be null" of create_fd_record never fails and no       *)
(* number is lost.                                                         *)
THEOREM EmptyNumbersReusable ==
    ASSUME FdAssumption
    PROVE  Spec => []EmptyReusable
  <1>1. TableInv => EmptyReusable
    BY DEF TableInv
  <1> QED
    BY <1>1, TableInvariant, PTL

-----------------------------------------------------------------------------
(* Files outlive what points to them, where records are kept. *)

(* The three kinds of reference. *)
Records(o) == {i \in DOMAIN fdMap : fdMap[i] = o}
Values(o) == {a \in Adts : adt[a].impl = o}
HoldSteps == {"dup", "dup2", "print"}
Held(o) == {t \in Threads : at[t].step \in HoldSteps /\ at[t].file = o}

(* The assumptions of this part. *)
Kept == /\ FdAssumption /\ RecordsKept
        /\ IsFiniteSet(Adts) /\ IsFiniteSet(Threads)

(* One for a reference that is there. *)
Bit(p) == IF p THEN 1 ELSE 0

(* Sets that differ in one element at most differ by it in size. *)
LEMMA SizeOfOneChange ==
    ASSUME NEW S, NEW T, NEW x, IsFiniteSet(S),
           \A y : y # x => (y \in S <=> y \in T)
    PROVE  /\ Cardinality(S) \in Nat /\ Cardinality(T) \in Nat
           /\ Cardinality(T) = Cardinality(S) + Bit(x \in T) - Bit(x \in S)
  <1>1. S \ {x} = T \ {x}
    OBVIOUS
  <1>2. IsFiniteSet(S \ {x})
    BY FS_RemoveElement
  <1>3. T = T \ {x} \/ T = (T \ {x}) \cup {x}
    OBVIOUS
  <1>4. IsFiniteSet(T)
    BY <1>1, <1>2, <1>3, FS_AddElement
  <1>5. Cardinality(S) \in Nat /\ Cardinality(T) \in Nat
    BY <1>4, FS_CardinalityType
  <1>6. Cardinality(S \ {x}) = IF x \in S THEN Cardinality(S) - 1 ELSE Cardinality(S)
    BY FS_RemoveElement
  <1>7. Cardinality(T \ {x}) = IF x \in T THEN Cardinality(T) - 1 ELSE Cardinality(T)
    BY <1>4, FS_RemoveElement
  <1> QED
    BY <1>1, <1>5, <1>6, <1>7 DEF Bit

(* Holders in the terms above. *)
LEMMA HoldersAre ==
    ASSUME Kept, TypeOK, NEW o
    PROVE  /\ Holders(o) = Cardinality(Records(o)) + Cardinality(Values(o)) + Cardinality(Held(o))
           /\ IsFiniteSet(Records(o)) /\ IsFiniteSet(Values(o)) /\ IsFiniteSet(Held(o))
           /\ Cardinality(Records(o)) \in Nat
           /\ Cardinality(Values(o)) \in Nat
           /\ Cardinality(Held(o)) \in Nat
  <1>1. IsFiniteSet(DOMAIN fdMap)
    <2>1. DOMAIN fdMap = 1 .. Len(fdMap) /\ Len(fdMap) \in Nat
      BY DEF TypeOK
    <2> QED
      BY <2>1, FS_Interval
  <1>2. Records(o) \subseteq DOMAIN fdMap /\ Values(o) \subseteq Adts /\ Held(o) \subseteq Threads
    BY DEF Records, Values, Held
  <1>3. IsFiniteSet(Records(o)) /\ IsFiniteSet(Values(o)) /\ IsFiniteSet(Held(o))
    BY <1>1, <1>2, FS_Subset DEF Kept
  <1>4. Holders(o) = Cardinality(Records(o)) + Cardinality(Values(o)) + Cardinality(Held(o))
    BY DEF Holders, Records, Values, Held, HoldSteps
  <1> QED
    BY <1>3, <1>4, FS_CardinalityType

(* A file that something names is alive. *)
LEMMA NamedIsLive ==
    ASSUME Kept, CountInv, NEW o \in Files,
           \/ \E i \in DOMAIN fdMap : fdMap[i] = o
           \/ \E a \in Adts : adt[a].impl = o
           \/ \E t \in Threads : at[t].step \in HoldSteps /\ at[t].file = o
    PROVE  o \in 1 .. created /\ refs[o] > 0 /\ Live(o)
  <1>1. o \in 1 .. created /\ refs[o] \in Nat
    BY DEF CountInv, TableInv, NamedInv, TypeOK, Files, Nil, FdAssumption, Kept
  <1>2. refs[o] >= Holders(o)
    BY <1>1 DEF CountInv, Counted
  <1>3. Records(o) # {} \/ Values(o) # {} \/ Held(o) # {}
    BY DEF Records, Values, Held
  <1>4. \/ Cardinality(Records(o)) # 0 \/ Cardinality(Values(o)) # 0 \/ Cardinality(Held(o)) # 0
    BY <1>3, HoldersAre, FS_EmptySet DEF CountInv, TableInv
  <1>5. Holders(o) \in Nat /\ Holders(o) > 0
    BY <1>4, HoldersAre DEF CountInv, TableInv
  <1> QED
    BY <1>1, <1>2, <1>5 DEF Live

(* One thread goes on: what it holds changes. *)
LEMMA HeldChange ==
    ASSUME Kept, TypeOK, NEW t \in Threads, NEW r, at' = [at EXCEPT ![t] = r], NEW o
    PROVE  Cardinality(Held(o)') = Cardinality(Held(o)) + Bit(r.step \in HoldSteps /\ r.file = o)
                                   - Bit(at[t].step \in HoldSteps /\ at[t].file = o)
  <1>1. \A u : u # t => (u \in Held(o) <=> u \in Held(o)')
    BY DEF Held, TypeOK
  <1>2. /\ t \in Held(o) <=> at[t].step \in HoldSteps /\ at[t].file = o
        /\ t \in Held(o)' <=> r.step \in HoldSteps /\ r.file = o
    BY DEF Held, TypeOK
  <1>3. Cardinality(Held(o)') = Cardinality(Held(o)) + Bit(t \in Held(o)') - Bit(t \in Held(o))
    BY <1>1, HoldersAre, SizeOfOneChange
  <1> QED
    BY <1>2, <1>3 DEF Bit

(* One record is made or replaced. *)
LEMMA RecordChange ==
    ASSUME Kept, TypeOK, NEW k \in DOMAIN fdMap', NEW o,
           DOMAIN fdMap \subseteq DOMAIN fdMap',
           \A i \in DOMAIN fdMap' : i # k => i \in DOMAIN fdMap /\ fdMap'[i] = fdMap[i]
    PROVE  Cardinality(Records(o)') = Cardinality(Records(o)) + Bit(fdMap'[k] = o)
                                      - Bit(k \in DOMAIN fdMap /\ fdMap[k] = o)
  <1>1. \A i : i # k => (i \in Records(o) <=> i \in Records(o)')
    BY DEF Records
  <1>2. /\ k \in Records(o)' <=> fdMap'[k] = o
        /\ k \in Records(o) <=> k \in DOMAIN fdMap /\ fdMap[k] = o
    BY DEF Records
  <1>3. Cardinality(Records(o)') = Cardinality(Records(o)) + Bit(k \in Records(o)') - Bit(k \in Records(o))
    BY <1>1, HoldersAre, SizeOfOneChange
  <1> QED
    BY <1>2, <1>3 DEF Bit

(* What does not change. *)
LEMMA SameReferences ==
    ASSUME NEW o
    PROVE  /\ fdMap' = fdMap => Cardinality(Records(o)') = Cardinality(Records(o))
           /\ adt' = adt => Cardinality(Values(o)') = Cardinality(Values(o))
           /\ at' = at => Cardinality(Held(o)') = Cardinality(Held(o))
           /\ Holders(o)' = Cardinality(Records(o)') + Cardinality(Values(o)') + Cardinality(Held(o)')
  <1>1. /\ fdMap' = fdMap => Records(o)' = Records(o)
        /\ adt' = adt => Values(o)' = Values(o)
        /\ at' = at => Held(o)' = Held(o)
    BY DEF Records, Values, Held
  <1>2. Holders(o)' = Cardinality(Records(o)') + Cardinality(Values(o)') + Cardinality(Held(o)')
    BY DEF Holders, Records, Values, Held, HoldSteps
  <1> QED
    BY <1>1, <1>2

-----------------------------------------------------------------------------
(* Each call keeps the counts.  TableInv' is known from the first part.    *)

(* The standard streams have one reference, the table's. *)
LEMMA CountStarts ==
    ASSUME Kept, Init
    PROVE  CountInv
  <1>1. TableInv
    BY TableStarts DEF Kept
  <1>2. fdMap = <<1, 2, 3>> /\ Len(fdMap) = 3 /\ DOMAIN fdMap = 1 .. 3
    BY DEF Init, Stdin, Stdout, Stderr
  <1>3. ASSUME NEW o \in 1 .. created
        PROVE  refs[o] >= Holders(o)
    <2>1. o \in 1 .. 3 /\ o \in Files /\ refs[o] = 1
      BY DEF Init, Files, Kept, FdAssumption
    <2>2. Records(o) = {o}
      BY <1>2, <2>1 DEF Records
    <2>3. Values(o) = {} /\ Held(o) = {}
      BY <2>1 DEF Values, Held, HoldSteps, Init, NoAdt, Idle, Nil
    <2>4. Cardinality(Records(o)) = 1 /\ Cardinality(Values(o)) = 0 /\ Cardinality(Held(o)) = 0
      BY <2>2, <2>3, FS_Singleton, FS_EmptySet
    <2> QED
      BY <1>1, <2>1, <2>4, HoldersAre DEF TableInv
  <1>4. Counted
    BY <1>3 DEF Counted
  <1>5. OpenInv
    BY DEF Init, OpenInv, Idle
  <1>6. StdoutInv
    BY <1>2 DEF StdoutInv, Stdout
  <1> QED
    BY <1>1, <1>4, <1>5, <1>6 DEF CountInv, Init

(* A new file has one reference, the table's. *)
LEMMA OpenRecordCounts ==
    ASSUME Kept, CountInv, TableInv', NEW t \in Threads, OpenRecord(t)
    PROVE  CountInv'
  <1> USE DEF CountInv, TableInv, Kept
  <1> DEFINE k == NewNumber + 1
             r == [step |-> "open", file |-> created', fd |-> NewNumber]
  <1>1. created' = created + 1 /\ created' \in Files /\ created \in Nat
    BY DEF OpenRecord, TypeOK, Files, FdAssumption
  <1>2. /\ create_fd_record(created') /\ at' = [at EXCEPT ![t] = r] /\ at[t] = Idle
        /\ UNCHANGED <<adt, fault>> /\ refs' = [refs EXCEPT ![created'] = 1]
    BY DEF OpenRecord, CanRun
  <1>3. /\ k \in DOMAIN fdMap' /\ fdMap'[k] = created'
        /\ DOMAIN fdMap \subseteq DOMAIN fdMap'
        /\ \A i \in DOMAIN fdMap' : i # k => i \in DOMAIN fdMap /\ fdMap'[i] = fdMap[i]
        /\ k \in DOMAIN fdMap => fdMap[k] = Nil
    BY <1>1, <1>2, CreateProperties
  <1>4. k = Len(fdMap) + 1 /\ available' = {} /\ fdMap' = Append(fdMap, created')
    BY <1>2 DEF create_fd_record, NewNumber
  <1> HIDE DEF k
  <1>5. ASSUME NEW o \in 1 .. created'
        PROVE  refs'[o] >= Holders(o)'
    <2>1. o \in Files /\ o # Nil
      BY <1>1 DEF Files, Nil, FdAssumption
    <2>2. /\ Cardinality(Records(o)') = Cardinality(Records(o)) + Bit(created' = o)
          /\ Cardinality(Held(o)') = Cardinality(Held(o))
          /\ Cardinality(Values(o)') = Cardinality(Values(o))
      <3>1. Cardinality(Records(o)') = Cardinality(Records(o)) + Bit(created' = o)
        BY <1>3, <2>1, RecordChange, HoldersAre DEF Bit
      <3>2. Cardinality(Held(o)') = Cardinality(Held(o))
        <4> HIDE DEF r
        <4>1. Cardinality(Held(o)') = Cardinality(Held(o)) + Bit(r.step \in HoldSteps /\ r.file = o)
                                      - Bit(at[t].step \in HoldSteps /\ at[t].file = o)
          BY <1>2, HeldChange
        <4>2. r.step = "open" /\ at[t].step = "idle"
          BY <1>2 DEF r, Idle
        <4> QED
          BY <4>1, <4>2, HoldersAre DEF Bit, HoldSteps
      <3> QED
        BY <1>2, <3>1, <3>2, SameReferences
    <2>3. CASE o = created'
      <3>1. Records(o) = {} /\ Values(o) = {} /\ Held(o) = {}
        BY <1>1, <2>3 DEF Records, Values, Held, NamedInv, TypeOK
      <3>2. Cardinality(Records(o)) = 0 /\ Cardinality(Values(o)) = 0 /\ Cardinality(Held(o)) = 0
        BY <3>1, FS_EmptySet
      <3>3. refs'[o] = 1
        BY <1>1, <1>2, <2>3 DEF TypeOK
      <3> QED
        BY <2>2, <2>3, <3>2, <3>3, SameReferences DEF Bit
    <2>4. CASE o # created'
      <3>1. o \in 1 .. created /\ refs'[o] = refs[o] /\ refs[o] >= Holders(o)
        BY <1>1, <1>2, <2>1, <2>4 DEF TypeOK, Counted
      <3> QED
        BY <2>2, <2>4, <3>1, HoldersAre, SameReferences DEF Bit
    <2> QED
      BY <2>3, <2>4
  <1>6. Counted'
    BY <1>5 DEF Counted
  <1>7. OpenInv'
    <2> SUFFICES ASSUME NEW u \in Threads, at'[u].step = "open"
                 PROVE  \E i \in DOMAIN fdMap' : fdMap'[i] = at'[u].file
      BY DEF OpenInv
    <2>1. CASE u = t
      <3>1. at'[t].file = created'
        BY <1>2 DEF TypeOK
      <3> QED
        BY <1>3, <2>1, <3>1
    <2>2. CASE u # t
      <3>1. at'[u] = at[u]
        BY <1>2, <2>2 DEF TypeOK
      <3>2. PICK i \in DOMAIN fdMap : fdMap[i] = at[u].file
        BY <3>1 DEF OpenInv
      <3>3. i # k
        BY <1>4, <3>2 DEF TypeOK
      <3>4. i \in DOMAIN fdMap' /\ fdMap'[i] = fdMap[i]
        BY <1>3, <1>4, <3>2, <3>3 DEF TypeOK
      <3> QED
        BY <3>1, <3>2, <3>4
    <2> QED
      BY <2>1, <2>2
  <1>8. StdoutInv'
    BY <1>1, <1>4 DEF StdoutInv, TypeOK
  <1> QED
    BY <1>2, <1>4, <1>6, <1>7, <1>8

(* An FD value is made with a reference of its own. *)
LEMMA NewValueCounts ==
    ASSUME Kept, CountInv, TableInv', NEW a \in Adts, NEW r, NEW f \in Files,
           adt[a] = NoAdt, adt' = [adt EXCEPT ![a] = r], r.impl = f,
           refs' = [refs EXCEPT ![f] = @ + 1],
           UNCHANGED <<fdMap, available, created, fault>>,
           at' = at \/ \E t \in Threads : at[t].step = "open" /\ at' = [at EXCEPT ![t] = Idle]
    PROVE  CountInv'
  <1> USE DEF CountInv, TableInv, Kept
  <1>1. ASSUME NEW o \in 1 .. created
        PROVE  refs'[o] >= Holders(o)'
    <2>1. o \in Files /\ o # Nil /\ refs[o] >= Holders(o) /\ refs[o] \in Nat
      BY DEF Files, Nil, TypeOK, Counted, FdAssumption
    <2>2. Cardinality(Records(o)') = Cardinality(Records(o))
      BY SameReferences
    <2>3. Cardinality(Held(o)') = Cardinality(Held(o))
      <3>1. ASSUME NEW t \in Threads, at[t].step = "open", at' = [at EXCEPT ![t] = Idle]
            PROVE  Cardinality(Held(o)') = Cardinality(Held(o))
        <4>1. Cardinality(Held(o)') = Cardinality(Held(o)) + Bit(Idle.step \in HoldSteps /\ Idle.file = o)
                                      - Bit(at[t].step \in HoldSteps /\ at[t].file = o)
          BY ONLY <3>1, Kept, TypeOK, t \in Threads, HeldChange
        <4> QED
          BY <3>1, <4>1, HoldersAre DEF Bit, HoldSteps, Idle
      <3> QED
        BY <3>1, SameReferences
    <2>4. Cardinality(Values(o)') = Cardinality(Values(o)) + Bit(f = o)
      <3>1. \A b : b # a => (b \in Values(o) <=> b \in Values(o)')
        BY DEF Values, TypeOK
      <3>2. a \notin Values(o) /\ (a \in Values(o)' <=> f = o)
        BY <2>1 DEF Values, TypeOK, NoAdt
      <3>3. IsFiniteSet(Values(o))
        BY HoldersAre
      <3>4. /\ Cardinality(Values(o)) \in Nat
            /\ Cardinality(Values(o)') = Cardinality(Values(o)) + Bit(a \in Values(o)') - Bit(a \in Values(o))
        BY ONLY <3>1, <3>3, SizeOfOneChange
      <3> QED
        BY <3>2, <3>4 DEF Bit
    <2>5. refs'[o] = refs[o] + Bit(f = o)
      BY <2>1 DEF TypeOK, Bit
    <2> QED
      BY <2>1, <2>2, <2>3, <2>4, <2>5, HoldersAre, SameReferences DEF Bit
  <1>2. Counted'
    BY <1>1 DEF Counted
  <1>3. OpenInv'
    BY DEF OpenInv, TypeOK, Idle
  <1>4. StdoutInv'
    BY DEF StdoutInv
  <1> QED
    BY <1>2, <1>3, <1>4

(* A new file is still in the table when its FD value is made. *)
LEMMA OpenAdoptCounts ==
    ASSUME Kept, CountInv, TableInv', NEW t \in Threads, OpenAdopt(t)
    PROVE  CountInv'
  <1>1. at[t].step = "open" /\ at[t].file \in Files
    BY DEF OpenAdopt, CountInv, TableInv, CallInv, TypeOK, Nil
  <1>2. Live(at[t].file)
    BY <1>1, NamedIsLive DEF CountInv, OpenInv
  <1>3. PICK a \in Adts :
          /\ adt[a] = NoAdt
          /\ adt' = [adt EXCEPT ![a] = [fd |-> at[t].fd, impl |-> at[t].file]]
          /\ refs' = [refs EXCEPT ![at[t].file] = @ + 1]
          /\ at' = [at EXCEPT ![t] = Idle]
          /\ UNCHANGED <<fdMap, available, created, fault>>
    BY <1>2 DEF OpenAdopt, NewAdtRefs, AddRef
  <1> QED
    BY <1>1, <1>3, NewValueCounts

(* fildes. *)
LEMMA FildesCounts ==
    ASSUME Kept, CountInv, TableInv', NEW t \in Threads, NEW n \in Numbers, Sys_fildes(t, n)
    PROVE  CountInv'
  <1>1. n + 1 \in DOMAIN fdMap /\ fdMap[n + 1] = Entry(n) /\ Entry(n) \in Files
    BY EntryIsRecord DEF CountInv, TableInv, Numbers, FdAssumption, Kept, Sys_fildes
  <1>2. Live(Entry(n))
    BY <1>1, NamedIsLive
  <1>3. PICK a \in Adts :
          /\ adt[a] = NoAdt
          /\ adt' = [adt EXCEPT ![a] = [fd |-> n, impl |-> Entry(n)]]
          /\ refs' = [refs EXCEPT ![Entry(n)] = @ + 1]
          /\ UNCHANGED <<fdMap, available, created, at, fault>>
    BY <1>2 DEF Sys_fildes, fetch_fd_record, FetchedRefs, AddRef
  <1> QED
    BY <1>1, <1>3, NewValueCounts

(* A call holds a reference for the record it fetched. *)
LEMMA FetchCounts ==
    ASSUME Kept, CountInv, TableInv', NEW t \in Threads, NEW r, NEW f \in Files,
           at[t] = Idle, at' = [at EXCEPT ![t] = r], r.step \in HoldSteps, r.file = f,
           refs' = [refs EXCEPT ![f] = @ + 1],
           UNCHANGED <<fdMap, available, created, adt, fault>>
    PROVE  CountInv'
  <1> USE DEF CountInv, TableInv, Kept
  <1>1. ASSUME NEW o \in 1 .. created
        PROVE  refs'[o] >= Holders(o)'
    <2>1. o \in Files /\ o # Nil /\ refs[o] >= Holders(o) /\ refs[o] \in Nat
      BY DEF Files, Nil, TypeOK, Counted, FdAssumption
    <2>2. /\ Cardinality(Records(o)') = Cardinality(Records(o))
          /\ Cardinality(Values(o)') = Cardinality(Values(o))
      BY SameReferences
    <2>3. Cardinality(Held(o)') = Cardinality(Held(o)) + Bit(f = o)
      <3>1. Cardinality(Held(o)') = Cardinality(Held(o)) + Bit(r.step \in HoldSteps /\ r.file = o)
                                    - Bit(at[t].step \in HoldSteps /\ at[t].file = o)
        BY ONLY Kept, TypeOK, t \in Threads, at' = [at EXCEPT ![t] = r], HeldChange
      <3> QED
        BY <3>1, HoldersAre DEF Bit, HoldSteps, Idle
    <2>4. refs'[o] = refs[o] + Bit(f = o)
      BY <2>1 DEF TypeOK, Bit
    <2> QED
      BY <2>1, <2>2, <2>3, <2>4, HoldersAre, SameReferences DEF Bit
  <1>2. Counted'
    BY <1>1 DEF Counted
  <1>3. OpenInv'
    BY DEF OpenInv, TypeOK, HoldSteps
  <1>4. StdoutInv'
    BY DEF StdoutInv
  <1> QED
    BY <1>2, <1>3, <1>4

(* dup and print. *)
LEMMA FetchesCount ==
    ASSUME Kept, CountInv, TableInv', NEW t \in Threads, NEW n \in Numbers,
           DupFetch(t, n) \/ (n = 1 /\ PrintFetch(t))
    PROVE  CountInv'
  <1>1. Entry(n) # Nil
    BY DEF DupFetch, PrintFetch
  <1>2. n + 1 \in DOMAIN fdMap /\ fdMap[n + 1] = Entry(n) /\ Entry(n) \in Files
    BY <1>1, EntryIsRecord DEF CountInv, TableInv, Numbers, FdAssumption, Kept
  <1>3. Live(Entry(n))
    BY <1>2, NamedIsLive
  <1>4. /\ refs' = [refs EXCEPT ![Entry(n)] = @ + 1]
        /\ UNCHANGED <<fdMap, available, created, adt, fault>> /\ at[t] = Idle
    BY <1>3 DEF DupFetch, PrintFetch, fetch_fd_record, FetchedRefs, AddRef, CanRun
  <1>5. PICK s \in HoldSteps : at' = [at EXCEPT ![t] = [step |-> s, file |-> Entry(n), fd |-> n]]
    BY <1>3 DEF DupFetch, PrintFetch, HoldSteps
  <1> QED
    <2> DEFINE r == [step |-> s, file |-> Entry(n), fd |-> n]
    <2>1. r.step \in HoldSteps /\ r.file = Entry(n) /\ at' = [at EXCEPT ![t] = r]
      BY <1>5
    <2> HIDE DEF r
    <2> QED
      BY <1>2, <1>4, <2>1, FetchCounts

(* dup: the call's reference becomes the one of the new record. *)
LEMMA DupNewCounts ==
    ASSUME Kept, CountInv, TableInv', NEW t \in Threads, DupNew(t)
    PROVE  CountInv'
  <1> USE DEF CountInv, TableInv, Kept
  <1> DEFINE k == NewNumber + 1
             f == at[t].file
  <1>1. at[t].step = "dup" /\ f \in Files
    BY DEF DupNew, TypeOK, CallInv, Nil
  <1>2. /\ create_fd_record(f) /\ at' = [at EXCEPT ![t] = Idle]
        /\ UNCHANGED <<refs, created, adt, fault>>
    BY DEF DupNew
  <1>3. /\ k \in DOMAIN fdMap' /\ fdMap'[k] = f
        /\ DOMAIN fdMap \subseteq DOMAIN fdMap'
        /\ \A i \in DOMAIN fdMap' : i # k => i \in DOMAIN fdMap /\ fdMap'[i] = fdMap[i]
        /\ k \in DOMAIN fdMap => fdMap[k] = Nil
    BY <1>1, <1>2, CreateProperties
  <1>4. k = Len(fdMap) + 1 /\ available' = {} /\ fdMap' = Append(fdMap, f)
    BY <1>2 DEF create_fd_record, NewNumber
  <1> HIDE DEF k
  <1>5. ASSUME NEW o \in 1 .. created
        PROVE  refs'[o] >= Holders(o)'
    <2>1. o \in Files /\ o # Nil /\ refs[o] >= Holders(o) /\ refs[o] \in Nat
      BY DEF Files, Nil, TypeOK, Counted, FdAssumption
    <2>2. Cardinality(Values(o)') = Cardinality(Values(o))
      BY <1>2, SameReferences
    <2>3. Cardinality(Held(o)') = Cardinality(Held(o)) - Bit(f = o)
      <3>1. Cardinality(Held(o)') = Cardinality(Held(o)) + Bit(Idle.step \in HoldSteps /\ Idle.file = o)
                                    - Bit(at[t].step \in HoldSteps /\ at[t].file = o)
        BY <1>2, HeldChange
      <3> QED
        BY <1>1, <3>1, HoldersAre DEF Bit, HoldSteps, Idle
    <2>4. Cardinality(Records(o)') = Cardinality(Records(o)) + Bit(f = o)
      BY <1>3, <2>1, RecordChange, HoldersAre DEF Bit
    <2> QED
      BY <1>2, <2>1, <2>2, <2>3, <2>4, HoldersAre, SameReferences DEF Bit
  <1>6. Counted'
    BY <1>2, <1>5 DEF Counted
  <1>7. OpenInv'
    BY <1>2, <1>3, <1>4 DEF OpenInv, TypeOK, Idle
  <1>8. StdoutInv'
    BY <1>1, <1>4 DEF StdoutInv, TypeOK
  <1> QED
    BY <1>2, <1>4, <1>6, <1>7, <1>8

(* A call ends: it gives its reference back, or leaves it (a refused dup,  *)
(* a write that throws).                                                   *)
LEMMA ReturnCounts ==
    ASSUME Kept, CountInv, TableInv', NEW t \in Threads,
           at[t].step \in HoldSteps, at' = [at EXCEPT ![t] = Idle],
           refs' = refs \/ refs' = [refs EXCEPT ![at[t].file] = @ - 1],
           UNCHANGED <<fdMap, available, created, adt, fault>>
    PROVE  CountInv'
  <1> USE DEF CountInv, TableInv, Kept
  <1>1. ASSUME NEW o \in 1 .. created
        PROVE  refs'[o] >= Holders(o)'
    <2>1. o \in Files /\ o # Nil /\ refs[o] >= Holders(o) /\ refs[o] \in Nat
      BY DEF Files, Nil, TypeOK, Counted, FdAssumption
    <2>2. /\ Cardinality(Records(o)') = Cardinality(Records(o))
          /\ Cardinality(Values(o)') = Cardinality(Values(o))
      BY SameReferences
    <2>3. Cardinality(Held(o)') = Cardinality(Held(o)) - Bit(at[t].file = o)
      <3>1. Cardinality(Held(o)') = Cardinality(Held(o)) + Bit(Idle.step \in HoldSteps /\ Idle.file = o)
                                    - Bit(at[t].step \in HoldSteps /\ at[t].file = o)
        BY HeldChange
      <3> QED
        BY <3>1, HoldersAre DEF Bit, HoldSteps, Idle
    <2>4. refs'[o] = refs[o] \/ refs'[o] = refs[o] - Bit(at[t].file = o)
      BY <2>1 DEF TypeOK, Bit
    <2> QED
      BY <2>1, <2>2, <2>3, <2>4, HoldersAre, SameReferences DEF Bit
  <1>2. Counted'
    BY <1>1 DEF Counted
  <1>3. OpenInv'
    BY DEF OpenInv, TypeOK, Idle
  <1>4. StdoutInv'
    BY DEF StdoutInv
  <1> QED
    BY <1>2, <1>3, <1>4

(* The ends of the calls; the file that print gives back is alive. *)
LEMMA ReturnsCount ==
    ASSUME Kept, CountInv, TableInv', NEW t \in Threads,
           \/ \E n \in Numbers : DupRefused(t, n)
           \/ PrintThrows(t) \/ PrintRelease(t)
    PROVE  CountInv'
  <1>1. at[t].step \in HoldSteps
    BY DEF DupRefused, PrintThrows, PrintRelease, HoldSteps
  <1>2. at[t].file \in Files
    BY <1>1 DEF CountInv, TableInv, CallInv, TypeOK, Nil, HoldSteps
  <1>3. Live(at[t].file)
    BY <1>1, <1>2, NamedIsLive
  <1>4. /\ at' = [at EXCEPT ![t] = Idle]
        /\ refs' = refs \/ refs' = [refs EXCEPT ![at[t].file] = @ - 1]
        /\ UNCHANGED <<fdMap, available, created, adt, fault>>
    BY <1>3 DEF DupRefused, PrintThrows, PrintRelease, Release
  <1> QED
    BY <1>1, <1>4, ReturnCounts

(* dup2: the reference of the record goes to the file that was there, the  *)
(* call's reference becomes the record's.                                  *)
LEMMA UpdateCounts ==
    ASSUME Kept, CountInv, TableInv', NEW t \in Threads, NEW n \in Numbers,
           try_update_fd_record(t, n)
    PROVE  CountInv'
  <1> USE DEF CountInv, TableInv, Kept
  <1> DEFINE k == n + 1
             f == at[t].file
  <1>1. /\ at[t].step = "dup2" /\ f \in Files /\ "dup2" \in Calls
        /\ n \in 0 .. Len(fdMap) - 1 /\ Len(fdMap) \in Nat
    BY DEF try_update_fd_record, TypeOK, CallInv, Nil
  <1>2. k \in 1 .. Len(fdMap) /\ k \in DOMAIN fdMap /\ fdMap[k] = Entry(n)
    BY <1>1 DEF TypeOK, Entry
  <1>3. Entry(n) # Nil
    <2>1. available = {i - 1 : i \in {j \in DOMAIN fdMap : fdMap[j] = Nil}}
      BY DEF EmptyReusable
    <2> QED
      BY <1>2, <2>1
  <1>4. Entry(n) \in Files /\ Live(Entry(n))
    BY <1>1, <1>2, <1>3, EntryIsRecord, NamedIsLive
  <1>5. /\ refs' = [refs EXCEPT ![Entry(n)] = @ - 1]
        /\ fdMap' = [fdMap EXCEPT ![k] = f] /\ at' = [at EXCEPT ![t] = Idle]
        /\ UNCHANGED <<available, created, adt, fault>>
    BY <1>3, <1>4 DEF try_update_fd_record, Release
  <1> HIDE DEF k
  <1>6. /\ fdMap'[k] = f /\ k \in DOMAIN fdMap' /\ DOMAIN fdMap' = DOMAIN fdMap
        /\ \A i \in DOMAIN fdMap' : i # k => i \in DOMAIN fdMap /\ fdMap'[i] = fdMap[i]
    BY <1>1, <1>2, <1>5, ReplaceProperties
  <1>7. ASSUME NEW o \in 1 .. created
        PROVE  refs'[o] >= Holders(o)'
    <2>1. o \in Files /\ o # Nil /\ refs[o] >= Holders(o) /\ refs[o] \in Nat
      BY DEF Files, Nil, TypeOK, Counted, FdAssumption
    <2>2. Cardinality(Values(o)') = Cardinality(Values(o))
      BY <1>5, SameReferences
    <2>3. Cardinality(Held(o)') = Cardinality(Held(o)) - Bit(f = o)
      <3>1. Cardinality(Held(o)') = Cardinality(Held(o)) + Bit(Idle.step \in HoldSteps /\ Idle.file = o)
                                    - Bit(at[t].step \in HoldSteps /\ at[t].file = o)
        BY <1>5, HeldChange
      <3> QED
        BY <1>1, <3>1, HoldersAre DEF Bit, HoldSteps, Idle
    <2>4. Cardinality(Records(o)') = Cardinality(Records(o)) + Bit(f = o) - Bit(Entry(n) = o)
      <3>1. Cardinality(Records(o)') = Cardinality(Records(o)) + Bit(fdMap'[k] = o)
                                        - Bit(k \in DOMAIN fdMap /\ fdMap[k] = o)
        BY <1>6, RecordChange
      <3> QED
        BY <1>2, <1>6, <3>1 DEF Bit
    <2>5. refs'[o] = refs[o] - Bit(Entry(n) = o)
      BY <1>4, <1>5, <2>1 DEF TypeOK, Bit
    <2>6. Bit(f = o) \in Nat /\ Bit(Entry(n) = o) \in Nat
      BY DEF Bit
    <2> QED
      BY <2>1, <2>2, <2>3, <2>4, <2>5, <2>6, HoldersAre, SameReferences
  <1>8. Counted'
    BY <1>5, <1>7 DEF Counted
  <1>9. OpenInv'
    <2>1. \A u \in Threads : u = t
      BY <1>1 DEF RecordsKept
    <2> QED
      BY <1>5, <2>1 DEF OpenInv, TypeOK, Idle
  <1>10. StdoutInv'
    BY <1>1 DEF StdoutInv
  <1> QED
    BY <1>5, <1>8, <1>9, <1>10

(* Where records are kept, no FD value is given up and none is stale. *)
LEMMA OthersDisabled ==
    ASSUME Kept, CountInv, NEW t \in Threads, NEW a \in Adts
    PROVE  ~UseFile(t, a) /\ ~FinalizeDrop(t, a) /\ ~FinalizeRelease(t)
  <1>1. "collect" \notin Calls
    BY DEF Kept, RecordsKept
  <1>2. ~FinalizeDrop(t, a) /\ ~FinalizeRelease(t)
    BY <1>1 DEF FinalizeDrop, FinalizeRelease, CanRun, CountInv, TableInv, CallInv
  <1>3. adt[a] # NoAdt => adt[a].impl \in Files
    BY DEF CountInv, TableInv, CallInv, TypeOK, Nil
  <1>4. adt[a] # NoAdt => Live(adt[a].impl)
    BY <1>3, NamedIsLive
  <1> QED
    BY <1>2, <1>4 DEF UseFile

(* CountInv holds in every state. *)
THEOREM CountInvariant ==
    ASSUME Kept
    PROVE  Spec => []CountInv
  <1>1. Init => CountInv
    BY CountStarts
  <1>2. TableInv /\ TableInv' /\ CountInv /\ [Next]_vars => CountInv'
    <2> SUFFICES ASSUME TableInv', CountInv, [Next]_vars
                 PROVE  CountInv'
      OBVIOUS
    <2>1. CASE UNCHANGED vars
      BY <2>1 DEF vars, CountInv, Counted, Holders, OpenInv, StdoutInv
    <2>2. CASE Next
      <3>1. PICK t \in Threads :
              \/ OpenRecord(t) \/ OpenAdopt(t) \/ DupNew(t)
              \/ \E n \in Numbers : Sys_fildes(t, n) \/ DupFetch(t, n)
              \/ \E n \in Numbers : DupRefused(t, n) \/ try_update_fd_record(t, n)
              \/ PrintFetch(t) \/ PrintThrows(t) \/ PrintRelease(t)
              \/ \E a \in Adts : UseFile(t, a) \/ FinalizeDrop(t, a)
              \/ FinalizeRelease(t)
        BY <2>2 DEF Next
      <3>2. ~FinalizeRelease(t)
        BY DEF CountInv, TableInv, CallInv, FinalizeRelease, Kept, RecordsKept
      <3>3. 1 \in Numbers
        BY DEF Numbers, Kept, FdAssumption
      <3> QED
        BY <3>1, <3>2, <3>3, OpenRecordCounts, OpenAdoptCounts, DupNewCounts, FildesCounts,
           FetchesCount, ReturnsCount, UpdateCounts, OthersDisabled
    <2> QED
      BY <2>1, <2>2
  <1>3. Spec => []TableInv
    BY TableInvariant DEF Kept
  <1> QED
    BY <1>1, <1>2, <1>3, PTL DEF Spec

(* Every file has a reference for each table entry, FD value and call that *)
(* points to it, and none is reached after it was freed, through the table *)
(* or an FD value: for threads that open, look up, duplicate and print at  *)
(* once, and for one thread that also replaces records (fd_manager.cpp,    *)
(* Sysmod.cpp).                                                            *)
THEOREM FilesOutliveTheirUsers ==
    ASSUME Kept
    PROVE  Spec => []FilesCounted
  <1>1. CountInv => FilesCounted
    <2> SUFFICES ASSUME CountInv
                 PROVE  FilesCounted
      OBVIOUS
    <2>1. TypeOK /\ Counted /\ NoUseAfterFree
      BY DEF CountInv, TableInv, NoUseAfterFree
    <2>2. RecordsOpen
      <3> SUFFICES ASSUME NEW i \in DOMAIN fdMap, fdMap[i] # Nil
                   PROVE  Live(fdMap[i])
        BY DEF RecordsOpen
      <3>1. fdMap[i] \in Files
        BY <2>1 DEF TypeOK
      <3> QED
        BY <3>1, NamedIsLive
    <2>3. "dup2" \notin Calls => StdoutStays
      <3> SUFFICES ASSUME "dup2" \notin Calls
                   PROVE  StdoutStays
        OBVIOUS
      <3>1. 2 \in DOMAIN fdMap /\ fdMap[2] = Stdout
        BY <2>1 DEF CountInv, StdoutInv, TypeOK
      <3>2. Stdout \in Files
        BY DEF Stdout, Files, Kept, FdAssumption
      <3> QED
        BY <3>1, <3>2, NamedIsLive DEF StdoutStays
    <2> QED
      BY <2>1, <2>2, <2>3 DEF FilesCounted
  <1> QED
    BY <1>1, CountInvariant, PTL

-----------------------------------------------------------------------------
(* Streams: descriptors and calls have the fields the code gives them, and *)
(* a copy is between two descriptors of the program.                       *)
StreamFields == {"inode", "path", "mode", "can", "pos", "err"}
StreamShape ==
    DOMAIN stream = Fds /\ \A f \in Fds : DOMAIN stream[f] = StreamFields
CallFields == {"step", "path", "mode", "src", "dst", "buf", "count", "result"}
Between(c) == c.step \in {"reading", "writing"} => c.src \in Fds /\ c.dst \in Fds
CopyInv ==
    DOMAIN call = Threads /\ \A t \in Threads : DOMAIN call[t] = CallFields /\ Between(call[t])
StreamInv == StreamShape /\ Streams!Permits

(* What fopen is asked for, it gives, "rwb" excepted.                      *)
LEMMA FopenPermits ==
    ASSUME NEW mode, Streams!mode_for_fopen(mode) # "rwb"
    PROVE  mode \cap {"read", "write"} \subseteq Streams!Capability(Streams!mode_for_fopen(mode))
  <1>1. /\ Streams!Capability("rb") = {"read"} /\ Streams!Capability("wb") = {"write"}
        /\ Streams!Capability("rb+") = {"read", "write"} /\ Streams!Capability("wb+") = {"read", "write"}
    BY Zenon DEF Streams!Capability
  <1>2. CASE "read" \in mode /\ "write" \notin mode
    <2>1. Streams!mode_for_fopen(mode) \in {"rb", "rb+"}
      BY Zenon, <1>2 DEF Streams!mode_for_fopen
    <2> QED
      BY <1>1, <1>2, <2>1
  <1>3. CASE "read" \notin mode /\ "write" \in mode
    <2>1. Streams!mode_for_fopen(mode) \in {"wb", "wb+"}
      BY Zenon, <1>3 DEF Streams!mode_for_fopen
    <2> QED
      BY <1>1, <1>3, <2>1
  <1>4. CASE "read" \in mode /\ "write" \in mode
    <2>1. CASE "truncate" \in mode
      <3>1. Streams!mode_for_fopen(mode) = "wb+"
        BY Zenon, <1>4, <2>1 DEF Streams!mode_for_fopen
      <3> QED
        BY <1>1, <3>1
    <2>2. CASE "truncate" \notin mode
      BY Zenon, <1>4, <2>2 DEF Streams!mode_for_fopen
    <2> QED
      BY <2>1, <2>2
  <1>5. CASE "read" \notin mode /\ "write" \notin mode
    BY <1>5
  <1> QED
    BY <1>2, <1>3, <1>4, <1>5

LEMMA ClosedFields == DOMAIN Streams!Closed = StreamFields
  BY DEF Streams!Closed, StreamFields

LEMMA FopenedKeeps ==
    ASSUME StreamInv, NEW p, NEW mode, Streams!Fopened(p, mode)
    PROVE  /\ StreamInv'
           /\ \A f \in Fds : Streams!Open(f) => stream'[f] = stream[f]
  <1>1. CASE UNCHANGED stream
    BY <1>1 DEF StreamInv, StreamShape, Streams!Permits, Streams!Open
  <1>2. CASE \E f \in Fds : ~Streams!Open(f) /\ \E inode :
               stream' = [stream EXCEPT ![f] =
                 [Streams!Closed EXCEPT !.inode = inode, !.path = p, !.mode = mode,
                                        !.can = Streams!Capability(Streams!mode_for_fopen(mode))]]
    <2>0. PICK f \in Fds : ~Streams!Open(f) /\ \E inode :
               stream' = [stream EXCEPT ![f] =
                 [Streams!Closed EXCEPT !.inode = inode, !.path = p, !.mode = mode,
                                        !.can = Streams!Capability(Streams!mode_for_fopen(mode))]]
      BY <1>2
    <2>1. PICK inode : ~Streams!Open(f) /\
               stream' = [stream EXCEPT ![f] =
                 [Streams!Closed EXCEPT !.inode = inode, !.path = p, !.mode = mode,
                                        !.can = Streams!Capability(Streams!mode_for_fopen(mode))]]
      BY <2>0
    <2> DEFINE new == [Streams!Closed EXCEPT !.inode = inode, !.path = p, !.mode = mode,
                                             !.can = Streams!Capability(Streams!mode_for_fopen(mode))]
    <2>2. /\ DOMAIN new = StreamFields /\ new.mode = mode
          /\ new.can = Streams!Capability(Streams!mode_for_fopen(mode))
      BY DEF Streams!Closed, StreamFields
    <2>3. DOMAIN stream = Fds /\ stream' = [stream EXCEPT ![f] = new]
      BY <2>1 DEF StreamInv, StreamShape
    <2> HIDE DEF new
    <2>4. stream'[f] = new /\ DOMAIN stream' = Fds /\ \A g \in Fds : g # f => stream'[g] = stream[g]
      BY <2>3
    <2>5. StreamShape'
      BY <2>2, <2>4 DEF StreamInv, StreamShape
    <2>6. Streams!Permits'
      BY <2>2, <2>4, FopenPermits DEF StreamInv, Streams!Permits, Streams!Open
    <2>7. \A g \in Fds : Streams!Open(g) => stream'[g] = stream[g]
      BY <2>1, <2>4
    <2> QED
      BY <2>5, <2>6, <2>7 DEF StreamInv
  <1> QED
    BY <1>1, <1>2 DEF Streams!Fopened

(* A step of one call, which leaves the other descriptors alone.           *)
LEMMA OneStream ==
    ASSUME StreamInv, NEW f \in Fds, Streams!Open(f),
           NEW p, NEW e, stream' = [stream EXCEPT ![f].pos = p, ![f].err = e]
    PROVE  /\ StreamInv' /\ \A g \in Fds : g # f => stream'[g] = stream[g]
           /\ stream'[f].pos = p
  <1>1. /\ DOMAIN stream' = Fds /\ \A g \in Fds : g # f => stream'[g] = stream[g]
        /\ DOMAIN stream'[f] = StreamFields
        /\ stream'[f].mode = stream[f].mode /\ stream'[f].can = stream[f].can
        /\ stream'[f].pos = p
    BY DEF StreamInv, StreamShape, StreamFields
  <1>2. StreamShape'
    BY <1>1 DEF StreamInv, StreamShape
  <1>3. Streams!Permits'
    BY <1>1 DEF StreamInv, Streams!Permits, Streams!Open
  <1> QED
    BY <1>1, <1>2, <1>3 DEF StreamInv

(* A call that returns, and what it returns.                               *)
LEMMA CallKept ==
    ASSUME CopyInv, NEW t \in Threads, NEW c, DOMAIN c = CallFields, Between(c),
           call' = [call EXCEPT ![t] = c]
    PROVE  CopyInv' /\ call'[t] = c
  BY DEF CopyInv

LEMMA GoesKept ==
    ASSUME CopyInv, NEW t \in Threads, NEW c, DOMAIN c = CallFields, Between(c),
           Streams!Goes(t, c)
    PROVE  CopyInv' /\ call'[t] = c
  <1>1. DOMAIN call' = Threads /\ call'[t] = c
    BY DEF Streams!Goes
  <1>2. ASSUME NEW u \in Threads, u # t
        PROVE  DOMAIN call'[u] = CallFields /\ Between(call'[u])
    <2>1. call'[u] = [call[u] EXCEPT !.result = "none"]
      BY <1>2 DEF Streams!Goes
    <2>2. DOMAIN call[u] = CallFields /\ Between(call[u])
      BY DEF CopyInv
    <2> QED
      BY <2>1, <2>2 DEF CallFields, Between
  <1> QED
    BY <1>1, <1>2 DEF CopyInv

LEMMA IdleFields == DOMAIN Streams!Idle = CallFields /\ Streams!Idle.step = "idle"
  BY DEF Streams!Idle, CallFields

LEMMA ReturnedIs ==
    ASSUME CopyInv, NEW t \in Threads, NEW how, Streams!Returned(t, how)
    PROVE  CopyInv' /\ call'[t].result = how
  <1> DEFINE c == [Streams!Idle EXCEPT !.result = how]
  <1>1. DOMAIN c = CallFields /\ c.step = "idle" /\ c.result = how
    BY IdleFields DEF CallFields
  <1>2. Streams!Goes(t, c)
    BY DEF Streams!Returned
  <1> HIDE DEF c
  <1> QED
    BY <1>1, <1>2, GoesKept DEF Between

(* What moves the position of a descriptor after a failure.                *)
Excused ==
    \A f \in Fds :
        Streams!Open(f) /\ stream[f].err /\ stream'[f].pos # stream[f].pos /\ stream'[f] # Streams!Closed =>
            \E t \in Threads : call'[t].result \in {"throws", "sought"}

LEMMA ReadKeeps ==
    ASSUME StreamInv, NEW t \in Threads, NEW f \in Fds, Streams!Open(f),
           stream' = Streams!AfterRead(f),
           Streams!ReadError(f) => call'[t].result = "throws"
    PROVE  StreamInv' /\ Excused
  <1>1. StreamInv' /\ \A g \in Fds : g # f => stream'[g] = stream[g]
    <2> DEFINE p == Streams!FreadTo(f)
               e == Streams!ReadError(f)
    <2>1. stream' = [stream EXCEPT ![f].pos = p, ![f].err = e]
      BY DEF Streams!AfterRead
    <2> HIDE DEF p, e
    <2> QED
      BY ZenonT(30), <2>1, OneStream
  <1>2. stream[f].err => Streams!ReadError(f)
    BY DEF Streams!ReadError
  <1> QED
    BY <1>1, <1>2 DEF Excused

LEMMA WriteKeeps ==
    ASSUME StreamInv, NEW t \in Threads, NEW f \in Fds, Streams!Open(f), NEW bytes, NEW fails,
           Streams!Write(f, bytes, fails),
           Streams!WriteError(f, fails) => call'[t].result = "throws"
    PROVE  StreamInv' /\ Excused
  <1>1. StreamInv' /\ \A g \in Fds : g # f => stream'[g] = stream[g]
    <2> DEFINE p == IF fails \/ "write" \notin stream[f].can THEN stream[f].pos
                    ELSE stream[f].pos + Len(bytes)
               e == Streams!WriteError(f, fails)
    <2>1. stream' = [stream EXCEPT ![f].pos = p, ![f].err = e]
      BY DEF Streams!Write, StreamInv, StreamShape, StreamFields
    <2> HIDE DEF p, e
    <2> QED
      BY ZenonT(30), <2>1, OneStream
  <1>2. stream[f].err => Streams!WriteError(f, fails)
    BY DEF Streams!WriteError
  <1> QED
    BY <1>1, <1>2 DEF Excused

LEMMA StreamsUntouched ==
    ASSUME StreamInv, UNCHANGED stream
    PROVE  StreamInv' /\ Excused
  BY DEF StreamInv, StreamShape, Streams!Permits, Streams!Open, Excused

(* A descriptor that allows something is open.                             *)
LEMMA ModeIsOpen ==
    ASSUME NEW f \in Fds, NEW what, what \in stream[f].mode
    PROVE  Streams!Open(f)
  BY DEF Streams!Open, Streams!Closed

(* The calls that do not return to where they began: a path to open, a     *)
(* copy and its next step.                                                 *)
LEMMA OpenKeeps ==
    ASSUME StreamInv, CopyInv, NEW t \in Threads, NEW p, NEW m, Streams!Sys_open(t, p, m)
    PROVE  StreamInv' /\ CopyInv' /\ Excused
  <1> DEFINE mode == Streams!convert_to_openmode(m)
             c == [Streams!Idle EXCEPT !.step = "check", !.path = p, !.mode = mode]
  <1>1. call' = [call EXCEPT ![t] = c] /\ UNCHANGED stream
    BY DEF Streams!Sys_open
  <1> HIDE DEF mode
  <1>2. DOMAIN c = CallFields /\ c.step = "check"
    BY IdleFields DEF CallFields
  <1> HIDE DEF c
  <1> QED
    BY <1>1, <1>2, CallKept, StreamsUntouched DEF Between

LEMMA CheckKeeps ==
    ASSUME StreamInv, CopyInv, NEW t \in Threads, Streams!Check(t)
    PROVE  StreamInv' /\ CopyInv' /\ Excused
  <1>1. UNCHANGED stream
    BY DEF Streams!Check
  <1>2. CASE call' = [call EXCEPT ![t].step = "found"]
    <2> DEFINE c == [call[t] EXCEPT !.step = "found"]
    <2>1. DOMAIN c = CallFields /\ c.step = "found"
      BY DEF CopyInv, CallFields
    <2>2. call' = [call EXCEPT ![t] = c]
      BY <1>2
    <2> HIDE DEF c
    <2> QED
      BY <1>1, <2>1, <2>2, CallKept, StreamsUntouched DEF Between
  <1>3. CASE call' = [call EXCEPT ![t] = Streams!Idle]
    BY <1>1, <1>3, IdleFields, CallKept, StreamsUntouched DEF Between
  <1> QED
    BY <1>2, <1>3 DEF Streams!Check

LEMMA FoundKeeps ==
    ASSUME StreamInv, CopyInv, NEW t \in Threads, Streams!OpenFound(t)
    PROVE  StreamInv' /\ CopyInv' /\ Excused
  <1>1. StreamInv' /\ \A f \in Fds : Streams!Open(f) => stream'[f] = stream[f]
    BY FopenedKeeps DEF Streams!OpenFound
  <1>2. CopyInv'
    BY IdleFields, CallKept DEF Streams!OpenFound, Between
  <1> QED
    BY <1>1, <1>2 DEF Excused

LEMMA CreateKeeps ==
    ASSUME StreamInv, CopyInv, NEW t \in Threads, NEW p, NEW m, Streams!Sys_create(t, p, m)
    PROVE  StreamInv' /\ CopyInv' /\ Excused
  <1>1. StreamInv' /\ \A f \in Fds : Streams!Open(f) => stream'[f] = stream[f]
    BY FopenedKeeps DEF Streams!Sys_create
  <1>2. CopyInv'
    BY DEF Streams!Sys_create, CopyInv, Between
  <1> QED
    BY <1>1, <1>2 DEF Excused

LEMMA CloseKeeps ==
    ASSUME StreamInv, CopyInv, NEW t \in Threads, NEW f \in Fds, Streams!Close(t, f)
    PROVE  StreamInv' /\ CopyInv' /\ Excused
  <1>1. stream' = [stream EXCEPT ![f] = Streams!Closed] /\ UNCHANGED call
    BY DEF Streams!Close
  <1>2. /\ DOMAIN stream' = Fds /\ stream'[f] = Streams!Closed
        /\ \A g \in Fds : g # f => stream'[g] = stream[g]
    BY <1>1 DEF StreamInv, StreamShape
  <1>3. StreamInv'
    BY <1>2, ClosedFields DEF StreamInv, StreamShape, Streams!Permits, Streams!Open
  <1>4. CopyInv'
    BY <1>1 DEF CopyInv, Between
  <1> QED
    BY <1>2, <1>3, <1>4 DEF Excused

(* Calls that return at once and leave the descriptors alone.              *)
LEMMA RefusedKeeps ==
    ASSUME StreamInv, CopyInv, NEW t \in Threads, NEW how, Streams!Returned(t, how),
           UNCHANGED stream
    PROVE  StreamInv' /\ CopyInv' /\ Excused
  BY ReturnedIs, StreamsUntouched

LEMMA RemoveKeeps ==
    ASSUME StreamInv, CopyInv, NEW t \in Threads, NEW p, Streams!Sys_remove(t, p)
    PROVE  StreamInv' /\ CopyInv' /\ Excused
  <1>1. UNCHANGED <<stream, call>>
    BY DEF Streams!Sys_remove
  <1> QED
    BY <1>1, StreamsUntouched DEF CopyInv, Between

LEMMA SysReadKeeps ==
    ASSUME StreamInv, CopyInv, NEW t \in Threads, NEW f \in Fds, Streams!Sys_read(t, f)
    PROVE  StreamInv' /\ CopyInv' /\ Excused
  <1> DEFINE how == IF Streams!ReadError(f) THEN "throws" ELSE "read"
  <1>1. Streams!Returned(t, how) /\ Streams!Open(f) /\ stream' = Streams!AfterRead(f)
    BY DEF Streams!Sys_read
  <1>2. CopyInv' /\ call'[t].result = how
    BY <1>1, ReturnedIs
  <1> QED
    BY <1>1, <1>2, ReadKeeps

LEMMA SysWriteKeeps ==
    ASSUME StreamInv, CopyInv, NEW t \in Threads, NEW f \in Fds, NEW fails,
           Streams!Sys_write(t, f, fails)
    PROVE  StreamInv' /\ CopyInv' /\ Excused
  <1> DEFINE how == IF Streams!WriteError(f, fails) THEN "throws" ELSE "written"
             bytes == [k \in 1..BufSize |-> fresh + k]
  <1>1. Streams!Returned(t, how) /\ Streams!Open(f) /\ Streams!Write(f, bytes, fails)
    BY DEF Streams!Sys_write
  <1>2. CopyInv' /\ call'[t].result = how
    BY <1>1, ReturnedIs
  <1>3. Streams!WriteError(f, fails) => call'[t].result = "throws"
    BY <1>2
  <1> HIDE DEF bytes, how
  <1> QED
    BY <1>1, <1>2, <1>3, WriteKeeps

LEMMA SeekKeeps ==
    ASSUME StreamInv, CopyInv, NEW t \in Threads, NEW f \in Fds, NEW start, NEW off,
           Streams!Sys_seek(t, f, start, off)
    PROVE  StreamInv' /\ CopyInv' /\ Excused
  <1> DEFINE p == Streams!SeekBase(f, start) + off
  <1>1. CASE Streams!Returned(t, "throws") /\ UNCHANGED stream
    BY <1>1, RefusedKeeps
  <1>2. CASE Streams!Returned(t, "sought") /\ stream' = [stream EXCEPT ![f].pos = p]
    <2>1. CopyInv' /\ call'[t].result = "sought"
      BY <1>2, ReturnedIs
    <2> HIDE DEF p
    <2>2. stream' = [stream EXCEPT ![f].pos = p, ![f].err = stream[f].err]
      BY <1>2 DEF StreamInv, StreamShape, StreamFields
    <2>3. Streams!Open(f)
      BY DEF Streams!Sys_seek
    <2> DEFINE e == stream[f].err
    <2> HIDE DEF e
    <2>4. StreamInv' /\ \A g \in Fds : g # f => stream'[g] = stream[g]
      BY ZenonT(30), <2>2, <2>3, OneStream DEF e
    <2> QED
      BY <2>1, <2>4 DEF Excused
  <1> QED
    BY <1>1, <1>2 DEF Streams!Sys_seek

(* A copy reads a block, or writes the block it holds.                     *)
LEMMA StreamCallKeeps ==
    ASSUME StreamInv, CopyInv, NEW t \in Threads, NEW s \in Fds, NEW d \in Fds,
           Streams!Sys_stream(t, s, d)
    PROVE  StreamInv' /\ CopyInv' /\ Excused
  <1> DEFINE c == [Streams!Idle EXCEPT !.step = "reading", !.src = s, !.dst = d]
  <1>1. call' = [call EXCEPT ![t] = c] /\ UNCHANGED stream
    BY DEF Streams!Sys_stream
  <1>2. DOMAIN c = CallFields /\ c.src = s /\ c.dst = d
    BY IdleFields DEF CallFields
  <1> HIDE DEF c
  <1> QED
    BY <1>1, <1>2, CallKept, StreamsUntouched DEF Between

LEMMA StreamReadKeeps ==
    ASSUME StreamInv, CopyInv, NEW t \in Threads, Streams!StreamRead(t)
    PROVE  StreamInv' /\ CopyInv' /\ Excused
  <1> DEFINE src == call[t].src
  <1>1. /\ call[t].step = "reading" /\ "read" \in stream[src].mode
        /\ stream' = Streams!AfterRead(src)
    BY DEF Streams!StreamRead
  <1>2. src \in Fds /\ call[t].dst \in Fds /\ DOMAIN call[t] = CallFields
    BY <1>1 DEF CopyInv, Between
  <1>3. Streams!Open(src)
    BY <1>1, <1>2, ModeIsOpen
  <1>4. CASE Streams!ReadError(src)
    <2>1. Streams!Returned(t, "throws")
      BY Zenon, <1>4 DEF Streams!StreamRead
    <2>2. CopyInv' /\ call'[t].result = "throws"
      BY <2>1, ReturnedIs
    <2> HIDE DEF src
    <2> QED
      BY <1>1, <1>2, <1>3, <2>2, ReadKeeps
  <1>5. CASE ~Streams!ReadError(src)
    <2>1. StreamInv' /\ Excused
      <3> HIDE DEF src
      <3> QED
        BY <1>1, <1>2, <1>3, <1>5, ReadKeeps
    <2>2. CASE Streams!EndOfFile(src)
      <3> DEFINE c == [Streams!Idle EXCEPT !.result = "streamed", !.count = call[t].count]
      <3>1. Streams!Goes(t, c)
        BY Zenon, <1>5, <2>2 DEF Streams!StreamRead
      <3>2. DOMAIN c = CallFields /\ c.step = "idle"
        BY IdleFields DEF CallFields
      <3> HIDE DEF c
      <3> QED
        BY <2>1, <3>1, <3>2, GoesKept DEF Between
    <2>3. CASE ~Streams!EndOfFile(src)
      <3> DEFINE b == Streams!Fread(src)
                 c == [call[t] EXCEPT !.step = "writing", !.buf = b]
      <3>1. Streams!Goes(t, c)
        BY Zenon, <1>5, <2>3 DEF Streams!StreamRead
      <3> HIDE DEF b
      <3>2. DOMAIN c = CallFields /\ c.src = src /\ c.dst = call[t].dst
        BY <1>2 DEF CallFields
      <3> HIDE DEF c
      <3> QED
        BY <1>2, <2>1, <3>1, <3>2, GoesKept DEF Between
    <2> QED
      BY <2>2, <2>3
  <1> QED
    BY <1>4, <1>5

LEMMA StreamWriteKeeps ==
    ASSUME StreamInv, CopyInv, NEW t \in Threads, NEW fails, Streams!StreamWrite(t, fails)
    PROVE  StreamInv' /\ CopyInv' /\ Excused
  <1> DEFINE dst == call[t].dst
             bytes == call[t].buf
  <1>1. /\ call[t].step = "writing" /\ "write" \in stream[dst].mode
        /\ Streams!Write(dst, bytes, fails)
    BY DEF Streams!StreamWrite
  <1>2. dst \in Fds /\ call[t].src \in Fds /\ DOMAIN call[t] = CallFields
    BY <1>1 DEF CopyInv, Between
  <1>3. Streams!Open(dst)
    BY <1>1, <1>2, ModeIsOpen
  <1>4. CASE Streams!WriteError(dst, fails)
    <2>1. Streams!Returned(t, "throws")
      BY <1>4 DEF Streams!StreamWrite
    <2>2. CopyInv' /\ call'[t].result = "throws"
      BY <2>1, ReturnedIs
    <2> HIDE DEF dst, bytes
    <2> QED
      BY <1>1, <1>2, <1>3, <2>2, WriteKeeps
  <1>5. CASE ~Streams!WriteError(dst, fails)
    <2>1. StreamInv' /\ Excused
      <3> HIDE DEF dst, bytes
      <3> QED
        BY <1>1, <1>2, <1>3, <1>5, WriteKeeps
    <2> DEFINE n == Streams!Streamed(call[t])
               c == [call[t] EXCEPT !.step = "reading", !.buf = <<>>, !.count = n]
    <2>2. Streams!Goes(t, c)
      BY <1>5 DEF Streams!StreamWrite
    <2> HIDE DEF n
    <2>3. DOMAIN c = CallFields /\ c.src = call[t].src /\ c.dst = dst
      BY <1>2 DEF CallFields
    <2> HIDE DEF c
    <2> QED
      BY <1>2, <2>1, <2>2, <2>3, GoesKept DEF Between
  <1> QED
    BY <1>4, <1>5

LEMMA FilesStep ==
    ASSUME StreamInv, CopyInv, Streams!Next
    PROVE  StreamInv' /\ CopyInv' /\ Excused
  <1>1. PICK t \in Threads :
           \/ \E p \in Streams!Paths, m \in Modes : Streams!Sys_open(t, p, m) \/ Streams!Sys_create(t, p, m)
           \/ Streams!Check(t) \/ Streams!OpenFound(t)
           \/ \E p \in Streams!Paths : Streams!Sys_remove(t, p)
           \/ \E f \in Fds : Streams!Close(t, f) \/ Streams!Sys_read(t, f)
           \/ \E f \in Fds, fails \in BOOLEAN : Streams!Sys_write(t, f, fails)
           \/ \E f \in Fds, what \in {"read", "write"} : Streams!WrongMode(t, f, what)
           \/ \E f \in Fds, start \in {"start", "relative", "end"}, off \in -1..1 :
                  Streams!Sys_seek(t, f, start, off)
           \/ \E s, d \in Fds : Streams!Sys_stream(t, s, d)
           \/ Streams!StreamStep(t)
    BY Zenon DEF Streams!Next
  <1>2. CASE \E p \in Streams!Paths, m \in Modes : Streams!Sys_open(t, p, m) \/ Streams!Sys_create(t, p, m)
    BY <1>2, OpenKeeps, CreateKeeps
  <1>3. CASE Streams!Check(t) \/ Streams!OpenFound(t)
    BY <1>3, CheckKeeps, FoundKeeps
  <1>4. CASE \E p \in Streams!Paths : Streams!Sys_remove(t, p)
    BY <1>4, RemoveKeeps
  <1>5. CASE \E f \in Fds : Streams!Close(t, f) \/ Streams!Sys_read(t, f)
    BY <1>5, CloseKeeps, SysReadKeeps
  <1>6. CASE \E f \in Fds, fails \in BOOLEAN : Streams!Sys_write(t, f, fails)
    BY <1>6, SysWriteKeeps
  <1>7. CASE \E f \in Fds, what \in {"read", "write"} : Streams!WrongMode(t, f, what)
    BY <1>7, RefusedKeeps DEF Streams!WrongMode
  <1>8. CASE \E f \in Fds, start \in {"start", "relative", "end"}, off \in -1..1 :
                 Streams!Sys_seek(t, f, start, off)
    BY <1>8, SeekKeeps
  <1>9. CASE \E s, d \in Fds : Streams!Sys_stream(t, s, d)
    BY <1>9, StreamCallKeeps
  <1>10. CASE Streams!StreamStep(t)
    <2>1. CASE Streams!StreamRead(t)
      BY <2>1, StreamReadKeeps
    <2>2. CASE \E fails \in BOOLEAN : Streams!StreamWrite(t, fails)
      BY <2>2, StreamWriteKeeps
    <2>3. CASE Streams!StreamWrongMode(t)
      BY <2>3, RefusedKeeps DEF Streams!StreamWrongMode
    <2> QED
      BY <1>10, <2>1, <2>2, <2>3 DEF Streams!StreamStep
  <1> QED
    BY <1>1, <1>2, <1>3, <1>4, <1>5, <1>6, <1>7, <1>8, <1>9, <1>10

LEMMA FilesStart ==
    ASSUME Streams!Init
    PROVE  StreamInv /\ CopyInv
  <1>1. ASSUME NEW p, NEW what
        PROVE  LET s == Streams!OpenFor(p, what) IN
               DOMAIN s = StreamFields /\ s.mode = {what} /\ s.can = {what}
    BY DEF Streams!OpenFor, Streams!Closed, StreamFields
  <1>2. /\ DOMAIN stream = Fds
        /\ \A f \in Fds : \/ stream[f] = Streams!Closed
                          \/ \E p, what : stream[f] = Streams!OpenFor(p, what)
    BY DEF Streams!Init
  <1>3. StreamInv
    BY <1>1, <1>2, ClosedFields DEF StreamInv, StreamShape, Streams!Permits, Streams!Open
  <1>4. CopyInv
    BY IdleFields DEF Streams!Init, CopyInv, Between
  <1> QED
    BY <1>3, <1>4

(* The stream behind a descriptor can do what the descriptor's mode        *)
(* allows, and once a call on it failed none moves its position but one    *)
(* that throws, or a seek: whatever paths, modes, calls, threads and       *)
(* faults there are (mode_for_fopen and sys_fd_t::read and write,          *)
(* fd_types.cpp).                                                          *)
THEOREM StreamsAlwaysObey == SysSpec => StreamsObey
  <1>1. SysInit => StreamInv /\ CopyInv
    BY FilesStart DEF SysInit
  <1>2. ASSUME StreamInv /\ CopyInv, [SysNext]_<<part, vars, secondVars, fileVars, printVars>>
        PROVE  (StreamInv /\ CopyInv)' /\ [Excused]_Streams!vars
    <2>1. CASE Streams!Next
      BY <1>2, <2>1, FilesStep
    <2>2. CASE UNCHANGED fileVars
      <3>1. UNCHANGED <<stream, call>> /\ UNCHANGED Streams!vars
        BY <2>2 DEF fileVars, Streams!vars
      <3> QED
        BY <1>2, <3>1, StreamsUntouched DEF CopyInv, Between
    <2> QED
      BY <1>2, <2>1, <2>2 DEF SysNext, TableMoves, SecondMoves, FilesMove, PrintMoves
  <1>3. StreamInv => Streams!Permits
    BY DEF StreamInv
  <1> QED
    BY <1>1, <1>2, <1>3, PTL DEF SysSpec, StreamsObey, Streams!ErrorStays, Excused

=============================================================================
