------------------------- MODULE FileWatcherProofs --------------------------
(***************************************************************************)
(* For any files, callbacks and writes: a change that the thread has seen  *)
(* is not lost between the two mutexes before the first callback of the    *)
(* file was called.  That it is called at all is liveness, for TLC.        *)
(***************************************************************************)
EXTENDS FileWatcher, TLAPS

(* What the program guarantees of the constants                            *)
Registrations ==
    /\ Paths # {} /\ MaxWrites \in Nat
    /\ PathOf \in [Callbacks -> Paths]

(* The thread looks at files that it watches, and adds entries that it     *)
(* took; the list that waits for the flush starts like the watched one.    *)
FilesInOrder ==
    /\ toScan \subseteq Entries(watched)
    /\ tpc = "insert" => watched[file] # <<>>
    /\ tpc = "add time" => taken[file] # <<>>
    /\ \A f \in Paths : changedFiles[f] # <<>> =>
          watched[f] # <<>> /\ Head(changedFiles[f]) = Head(watched[f])

Inv == TypeOK /\ FilesInOrder

First(c) == watched[PathOf[c]] # <<>> /\ Head(watched[PathOf[c]]) = c

(* The thread is about to insert the change, or has inserted it and the    *)
(* flush has still to call c.                                              *)
Noted(c) ==
    \/ tpc = "insert" /\ file = PathOf[c]
    \/ changedFiles[PathOf[c]] # <<>> /\ (mpc = "flush" => c \in toCall)

(* A change of a file stays noted until its first callback has created the *)
(* resource from the newest contents, unless the file is gone by then.     *)
NotedUntilTold ==
    [][\A c \in Callbacks : First(c) /\ Noted(c) /\ ~Noted(c)' =>
          told'[c] = writes[PathOf[c]] \/ PathOf[c] \notin present]_vars

-----------------------------------------------------------------------------
LEMMA InsertType ==
    ASSUME NEW map \in [Paths -> Seq(Callbacks)], NEW f \in Paths, NEW cs \in Seq(Callbacks)
    PROVE  Insert(map, f, cs) \in [Paths -> Seq(Callbacks)]
  BY DEF Insert

LEMMA ForgetType ==
    ASSUME NEW map \in [Paths -> Seq(Callbacks)], NEW f \in Paths
    PROVE  Forget(map, f) \in [Paths -> Seq(Callbacks)]
  <1>1. ASSUME NEW cs \in Seq(Callbacks) PROVE [map EXCEPT ![f] = cs] \in [Paths -> Seq(Callbacks)]
    OBVIOUS
  <1>2. <<>> \in Seq(Callbacks)
    OBVIOUS
  <1> QED BY <1>1, <1>2 DEF Forget

LEMMA InvInit == Registrations /\ Init => Inv
  <1> SUFFICES ASSUME Registrations, Init PROVE Inv
    OBVIOUS
  <1> USE DEF Registrations, Init
  <1>1. NoFiles \in [Paths -> Seq(Callbacks)]
    BY DEF NoFiles
  <1>2. file \in Paths
    OBVIOUS
  <1>3. TypeOK
    BY <1>1, <1>2 DEF TypeOK
  <1>4. FilesInOrder
    BY DEF FilesInOrder, Entries, NoFiles
  <1> QED BY <1>3, <1>4 DEF Inv

(* The main thread and the files                                           *)
LEMMA InvMain ==
    ASSUME Registrations, Inv,
           \/ FlushChangedFiles \/ Stop \/ StopJoin
           \/ \E c \in Callbacks : WatchFile(c)
           \/ \E f \in Paths : WriteFile(f) \/ RemoveFile(f)
    PROVE  Inv'
  <1> USE DEF Registrations, Inv, files, main, thread
  <1>1. CASE FlushChangedFiles
    <2>1. NoFiles \in [Paths -> Seq(Callbacks)]
      BY DEF NoFiles
    <2>2. CASE FlushLock
      BY <2>2 DEF FlushLock, TypeOK, FilesInOrder, Entries
    <2>3. ASSUME NEW c \in Callbacks, FlushCall(c) PROVE Inv'
      BY <2>3 DEF FlushCall, TypeOK, FilesInOrder, Entries
    <2>4. CASE FlushClear
      BY <2>1, <2>4 DEF FlushClear, TypeOK, FilesInOrder, Entries, NoFiles
    <2> QED BY <1>1, <2>2, <2>3, <2>4 DEF FlushChangedFiles
  <1>2. CASE Stop \/ StopJoin
    BY <1>2 DEF Stop, StopJoin, TypeOK, FilesInOrder, Entries
  <1>3. ASSUME NEW c \in Callbacks, WatchFile(c) PROVE Inv'
    <2>1. PathOf[c] \in Paths /\ <<c>> \in Seq(Callbacks)
      OBVIOUS
    <2>2. filesToWatch' \in [Paths -> Seq(Callbacks)]
      BY <1>3, <2>1, InsertType DEF WatchFile, TypeOK
    <2> QED BY <1>3, <2>2 DEF WatchFile, TypeOK, FilesInOrder, Entries
  <1>4. ASSUME NEW f \in Paths, WriteFile(f) \/ RemoveFile(f) PROVE Inv'
    <2>1. writes' \in [Paths -> 0..MaxWrites] /\ present' \subseteq Paths
      <3>1. writes \in [Paths -> 0..MaxWrites] /\ present \subseteq Paths /\ writes[f] \in Nat
        <4>1. writes \in [Paths -> 0..MaxWrites] /\ present \subseteq Paths
          BY DEF TypeOK
        <4>2. writes[f] \in 0..MaxWrites
          BY <4>1
        <4> QED BY <4>1, <4>2
      <3>2. CASE WriteFile(f)
        <4>1. writes[f] + 1 \in 0..MaxWrites
          BY <3>1, <3>2 DEF WriteFile
        <4> QED BY <3>1, <3>2, <4>1 DEF WriteFile
      <3> QED BY <1>4, <3>1, <3>2 DEF RemoveFile
    <2>2. UNCHANGED <<main, thread, filesToWatch, changedFiles, told>>
      BY <1>4 DEF WriteFile, RemoveFile
    <2> QED BY <2>1, <2>2 DEF TypeOK, FilesInOrder, Entries
  <1> QED BY <1>1, <1>2, <1>3, <1>4

LEMMA InvThread == Registrations /\ Inv /\ WatchThread => Inv'
  <1> SUFFICES ASSUME Registrations, Inv, WatchThread PROVE Inv'
    OBVIOUS
  <1> USE DEF Registrations, Inv, files, main, thread
  <1>1. CASE Take
    <2>1. NoFiles \in [Paths -> Seq(Callbacks)]
      BY DEF NoFiles
    <2> QED BY <1>1, <2>1 DEF Take, TypeOK, FilesInOrder, Entries
  <1>2. CASE AddExists
    <2>1. PICK f \in Entries(taken) :
             IF f \in present
             THEN tpc' = "add time" /\ file' = f /\ UNCHANGED taken
             ELSE taken' = Forget(taken, f) /\ UNCHANGED <<tpc, file>>
      BY <1>2 DEF AddExists
    <2>2. f \in Paths /\ taken[f] # <<>> /\ taken' \in [Paths -> Seq(Callbacks)]
      <3>1. taken \in [Paths -> Seq(Callbacks)]
        BY DEF TypeOK
      <3>2. f \in Paths /\ taken[f] # <<>>
        BY DEF Entries
      <3> QED BY <2>1, <3>1, <3>2, ForgetType
    <2>3. tpc = "add" /\ UNCHANGED <<files, main, watched, lastWrite, toScan, filesToWatch,
                                     changedFiles, told>>
      BY <1>2 DEF AddExists
    <2> QED BY <2>1, <2>2, <2>3 DEF TypeOK, FilesInOrder, Entries
  <1>3. CASE AddTime
    <2>1. CASE file \in present
      <3>1. /\ file \in Paths /\ taken[file] \in Seq(Callbacks) /\ taken[file] # <<>>
            /\ watched[file] \in Seq(Callbacks)
        BY <1>3 DEF AddTime, TypeOK, FilesInOrder
      <3>2. /\ Append(watched[file], Head(taken[file])) \in Seq(Callbacks)
            /\ Append(watched[file], Head(taken[file])) # <<>>
            /\ watched[file] # <<>> =>
                 Head(Append(watched[file], Head(taken[file]))) = Head(watched[file])
        BY <3>1
      <3>3. TypeOK'
        <4>1. /\ watched' \in [Paths -> Seq(Callbacks)] /\ taken' \in [Paths -> Seq(Callbacks)]
              /\ lastWrite' \in [Paths -> 0..MaxWrites] /\ tpc' = "add"
          <5>1. /\ watched \in [Paths -> Seq(Callbacks)] /\ taken \in [Paths -> Seq(Callbacks)]
                /\ lastWrite \in [Paths -> 0..MaxWrites] /\ writes[file] \in 0..MaxWrites
            BY <3>1 DEF TypeOK
          <5>2. /\ watched' = [watched EXCEPT ![file] = Append(@, Head(taken[file]))]
                /\ lastWrite' \in {lastWrite, [lastWrite EXCEPT ![file] = writes[file]]}
                /\ taken' = Forget(taken, file)
                /\ tpc' = "add"
            BY <1>3, <2>1 DEF AddTime
          <5>3. Forget(taken, file) \in [Paths -> Seq(Callbacks)]
            BY <3>1, <5>1, ForgetType
          <5> QED BY <3>1, <3>2, <5>1, <5>2, <5>3
        <4> QED BY <1>3, <4>1 DEF AddTime, TypeOK
      <3>4. FilesInOrder'
        BY <1>3, <2>1, <3>1, <3>2 DEF AddTime, TypeOK, FilesInOrder, Entries
      <3> QED BY <3>3, <3>4
    <2>2. CASE file \notin present
      BY <1>3, <2>2 DEF AddTime, TypeOK, FilesInOrder, Entries
    <2> QED BY <2>1, <2>2
  <1>4. CASE AddEnd \/ Scan \/ ScanEnd
    BY <1>4 DEF AddEnd, Scan, ScanEnd, TypeOK, FilesInOrder, Entries
  <1>5. CASE InsertChanged
    <2>1. changedFiles' \in [Paths -> Seq(Callbacks)]
      BY <1>5, InsertType DEF InsertChanged, TypeOK
    <2>2. TypeOK'
      BY <1>5, <2>1 DEF InsertChanged, TypeOK
    <2>3. FilesInOrder'
      BY <1>5 DEF InsertChanged, Insert, TypeOK, FilesInOrder, Entries
    <2> QED BY <2>2, <2>3
  <1> QED BY <1>1, <1>2, <1>3, <1>4, <1>5 DEF WatchThread

LEMMA InvNext == Registrations /\ Inv /\ [Next]_vars => Inv'
  <1>1. Inv /\ UNCHANGED vars => Inv'
    BY DEF Inv, TypeOK, FilesInOrder, Entries, vars, files, main, thread
  <1> QED BY <1>1, InvMain, InvThread DEF Next, Program

-----------------------------------------------------------------------------
(* The variables of the file watcher keep their types.                     *)
THEOREM WatcherTyped == Registrations => (Spec => []TypeOK)
  <1> SUFFICES ASSUME Registrations PROVE Spec => []TypeOK
    OBVIOUS
  <1>1. Init => Inv
    BY InvInit
  <1>2. Inv /\ [Next]_vars => Inv'
    BY InvNext
  <1>3. Inv => TypeOK
    BY DEF Inv
  <1> QED BY <1>1, <1>2, <1>3, PTL DEF Spec

(* FlushChangedFiles and WatchThread: what the thread inserts while the    *)
(* flush goes on is not cleared before the first callback was called.      *)
THEOREM NoNotedChangeIsLost == Registrations => (Spec => NotedUntilTold)
  <1> SUFFICES ASSUME Registrations PROVE Spec => NotedUntilTold
    OBVIOUS
  <1> DEFINE Told(c) == told'[c] = writes[PathOf[c]] \/ PathOf[c] \notin present
             Kept == \A c \in Callbacks : First(c) /\ Noted(c) /\ ~Noted(c)' => Told(c)
  <1>1. Inv /\ [Next]_vars => [Kept]_vars
    <2> SUFFICES ASSUME Inv, Next, NEW c \in Callbacks, First(c), Noted(c), ~Noted(c)'
                 PROVE  Told(c)
      OBVIOUS
    <2> DEFINE f == PathOf[c]
    <2> USE DEF Registrations, files, main, thread
    <2>1. f \in Paths /\ changedFiles \in [Paths -> Seq(Callbacks)] /\ told \in [Callbacks -> 0..MaxWrites]
      BY DEF Inv, TypeOK
    <2>2. ASSUME NEW d \in Callbacks, FlushCall(d) PROVE Told(c)
      <3>1. d = c
        BY <2>2 DEF FlushCall, Noted
      <3> QED BY <2>1, <2>2, <3>1 DEF FlushCall
    <2>3. ~FlushLock
      <3>1. CASE FlushLock /\ changedFiles[f] # <<>>
        <4>1. Head(changedFiles[f]) = c
          BY <2>1, <3>1 DEF Inv, FilesInOrder, First
        <4>2. changedFiles[f][1] = c /\ 1 \in DOMAIN changedFiles[f]
          BY <2>1, <3>1, <4>1
        <4>3. c \in ToSet(changedFiles[f])
          BY <4>2 DEF ToSet
        <4> QED BY <3>1, <4>3 DEF FlushLock, Noted
      <3>2. CASE changedFiles[f] = <<>>
        BY <3>2 DEF FlushLock, Noted
      <3> QED BY <3>1, <3>2
    <2>4. ~FlushClear /\ ~InsertChanged
      BY <2>1 DEF FlushClear, InsertChanged, ChangedFilesFree, Insert, Inv, FilesInOrder, Noted
    <2>5. /\ ~Stop /\ ~StopJoin
          /\ ~Take /\ ~AddExists /\ ~AddTime /\ ~AddEnd /\ ~Scan /\ ~ScanEnd
          /\ \A d \in Callbacks : ~WatchFile(d)
          /\ \A g \in Paths : ~WriteFile(g) /\ ~RemoveFile(g)
      BY DEF Stop, StopJoin, Take, AddExists, AddTime, AddEnd, Scan, ScanEnd, WatchFile, WriteFile,
             RemoveFile, Noted
    <2> QED BY <2>2, <2>3, <2>4, <2>5 DEF Next, Program, FlushChangedFiles, WatchThread
  <1>2. Init => Inv
    BY InvInit
  <1>3. Inv /\ [Next]_vars => Inv'
    BY InvNext
  <1> QED BY <1>1, <1>2, <1>3, PTL DEF Spec, NotedUntilTold, Told, Kept
=============================================================================
