----------------------------- MODULE FileWatcher -----------------------------
(***************************************************************************)
(* Common/FileWatcher: a thread that polls the files it was asked to watch *)
(* and collects those that changed; once per frame the main thread calls   *)
(* the callbacks of the collected files, which create their resource from  *)
(* the file anew.                                                          *)
(*                                                                         *)
(* The write time of a file is the number of times it was written.  The    *)
(* thread alone uses myWatchedFiles, so its mutex is left out; the other   *)
(* two mutexes are held for one action, except myChangedFilesMutex, which  *)
(* the main thread holds while it calls back.                              *)
(***************************************************************************)
EXTENDS Naturals, SequencesExt

CONSTANTS
    Paths, Callbacks,
    PathOf,         \* the file each callback is registered for
    MaxWrites       \* bound: how often each file is written

VARIABLES
    writes, present,    \* of each file: its write time, and does it exist
    filesToWatch,       \* myFilesToWatch: path -> callbacks, <<>> is no entry
    taken,              \* the thread's local copy of it
    watched,            \* myWatchedFiles: path -> callbacks, in order
    lastWrite,          \* myLastWriteTime of the watched files
    changedFiles,       \* myChangedFiles: path -> callbacks
    tpc, file, toScan,  \* where the thread is, at which file, and the files
                        \* that it has not looked at yet
    toCall,             \* callbacks the main thread has still to call
    mpc,                \* "frame", "flush" (with the mutex), "join" or "gone"
    running,            \* myRunning
    registered,         \* callbacks for which WatchFile returned
    told                \* write time of the file when last created from it

files == <<writes, present>>
main == <<toCall, mpc, running, registered>>
thread == <<taken, watched, lastWrite, tpc, file, toScan>>
vars == <<files, main, thread, filesToWatch, changedFiles, told>>

NoFiles == [f \in Paths |-> <<>>]
Entries(map) == {f \in Paths : map[f] # <<>>}

Forget(map, f) == [map EXCEPT ![f] = <<>>]

(* std::unordered_map::insert keeps an entry that is there already.        *)
Insert(map, f, cs) == IF map[f] # <<>> THEN map ELSE [map EXCEPT ![f] = cs]

Init ==
    /\ writes = [f \in Paths |-> 0] /\ present = Paths
    /\ filesToWatch = NoFiles /\ taken = NoFiles
    /\ watched = NoFiles /\ changedFiles = NoFiles
    /\ lastWrite = [f \in Paths |-> 0]
    /\ tpc = "take" /\ file = (CHOOSE f \in Paths : TRUE) /\ toScan = {}
    /\ toCall = {} /\ mpc = "frame" /\ running = TRUE
    /\ registered = {}
    /\ told = [c \in Callbacks |-> 0]

-----------------------------------------------------------------------------
(* Other programs write, remove and restore files.                         *)
WriteFile(f) ==
    /\ writes[f] < MaxWrites
    /\ writes' = [writes EXCEPT ![f] = @ + 1]
    /\ present' = present \cup {f}
    /\ UNCHANGED <<main, thread, filesToWatch, changedFiles, told>>

RemoveFile(f) ==
    /\ f \in present
    /\ present' = present \ {f}
    /\ UNCHANGED <<writes, main, thread, filesToWatch, changedFiles, told>>

-----------------------------------------------------------------------------
(* WatchFile, from the main thread or a thread that loads a resource.      *)
WatchFile(c) ==
    /\ c \notin registered /\ mpc # "gone"
    /\ registered' = registered \cup {c}
    /\ filesToWatch' = Insert(filesToWatch, PathOf[c], <<c>>)
    /\ UNCHANGED <<files, thread, changedFiles, toCall, mpc, running, told>>

(* FlushChangedFiles: lock, call every callback of every entry, clear.     *)
FlushLock ==
    /\ mpc = "frame"
    /\ mpc' = "flush"
    /\ toCall' = {c \in Callbacks : c \in ToSet(changedFiles[PathOf[c]])}
    /\ UNCHANGED <<files, thread, filesToWatch, changedFiles, running, registered, told>>

FlushCall(c) ==
    /\ c \in toCall
    /\ toCall' = toCall \ {c}
    /\ told' = IF PathOf[c] \in present THEN [told EXCEPT ![c] = writes[PathOf[c]]] ELSE told
    /\ UNCHANGED <<files, thread, filesToWatch, changedFiles, mpc, running, registered>>

FlushClear ==
    /\ mpc = "flush" /\ toCall = {}
    /\ mpc' = "frame"
    /\ changedFiles' = NoFiles
    /\ UNCHANGED <<files, thread, filesToWatch, toCall, running, registered, told>>

FlushChangedFiles == FlushLock \/ FlushClear \/ \E c \in Callbacks : FlushCall(c)

(* Stop                                                                    *)
Stop ==
    /\ mpc = "frame"
    /\ mpc' = "join" /\ running' = FALSE
    /\ UNCHANGED <<files, thread, filesToWatch, changedFiles, toCall, registered, told>>

StopJoin ==
    /\ mpc = "join" /\ tpc = "exited"
    /\ mpc' = "gone"
    /\ UNCHANGED <<files, thread, filesToWatch, changedFiles, toCall, running, registered, told>>

-----------------------------------------------------------------------------
(* WatchThread: take the new entries, unless the watcher was stopped.      *)
Take ==
    /\ tpc = "take"
    /\ IF running
       THEN tpc' = "add" /\ taken' = filesToWatch /\ filesToWatch' = NoFiles
       ELSE tpc' = "exited" /\ UNCHANGED <<taken, filesToWatch>>
    /\ UNCHANGED <<files, main, watched, lastWrite, file, toScan, changedFiles, told>>

(* An entry whose file does not exist is dropped.                          *)
AddExists ==
    /\ tpc = "add"
    /\ \E f \in Entries(taken) :
          IF f \in present
          THEN tpc' = "add time" /\ file' = f /\ UNCHANGED taken
          ELSE taken' = Forget(taken, f) /\ UNCHANGED <<tpc, file>>
    /\ UNCHANGED <<files, main, watched, lastWrite, toScan, filesToWatch, changedFiles, told>>

(* last_write_time throws if the file is gone by now, and nobody catches.  *)
AddTime ==
    /\ tpc = "add time"
    /\ IF file \in present
       THEN /\ tpc' = "add"
            /\ watched' = [watched EXCEPT ![file] = Append(@, Head(taken[file]))]
            /\ lastWrite' = IF watched[file] = <<>>
                            THEN [lastWrite EXCEPT ![file] = writes[file]] ELSE lastWrite
            /\ taken' = Forget(taken, file)
       ELSE tpc' = "terminated" /\ UNCHANGED <<watched, lastWrite, taken>>
    /\ UNCHANGED <<files, main, file, toScan, filesToWatch, changedFiles, told>>

AddEnd ==
    /\ tpc = "add" /\ Entries(taken) = {}
    /\ tpc' = "scan" /\ toScan' = Entries(watched)
    /\ UNCHANGED <<files, main, taken, watched, lastWrite, file, filesToWatch, changedFiles, told>>

(* Look at one watched file.  The new time is noted here and not after the *)
(* insertion below: nobody reads it in between.                            *)
IsChanged(f) == writes[f] # lastWrite[f]

Scan ==
    /\ tpc = "scan"
    /\ \E f \in toScan :
          /\ toScan' = toScan \ {f}
          /\ IF f \in present /\ IsChanged(f)
             THEN tpc' = "insert" /\ file' = f /\ lastWrite' = [lastWrite EXCEPT ![f] = writes[f]]
             ELSE UNCHANGED <<tpc, file, lastWrite>>
    /\ UNCHANGED <<files, main, taken, watched, filesToWatch, changedFiles, told>>

(* A definition whose name ends in Bug is the next one with a plausible    *)
(* mistake in it; no specification uses it.                                *)
ChangedFilesFreeBug == TRUE
ChangedFilesFree == mpc # "flush"

InsertChanged ==
    /\ tpc = "insert" /\ ChangedFilesFree
    /\ tpc' = "scan"
    /\ changedFiles' = Insert(changedFiles, file, watched[file])
    /\ UNCHANGED <<files, main, taken, watched, lastWrite, file, toScan, filesToWatch, told>>

ScanEnd ==
    /\ tpc = "scan" /\ toScan = {}
    /\ tpc' = "take"
    /\ UNCHANGED <<files, main, taken, watched, lastWrite, file, toScan, filesToWatch,
                   changedFiles, told>>

WatchThread ==
    \/ Take \/ AddExists \/ AddTime \/ AddEnd \/ Scan \/ InsertChanged \/ ScanEnd

-----------------------------------------------------------------------------
(* An exception that leaves the thread ends the program.                   *)
Program ==
    /\ tpc # "terminated"
    /\ \/ FlushChangedFiles \/ WatchThread \/ Stop \/ StopJoin
       \/ \E c \in Callbacks : WatchFile(c)

Next == Program \/ \E f \in Paths : WriteFile(f) \/ RemoveFile(f)

(* The thread polls, and gets a mutex that is free again and again; the    *)
(* main thread flushes in every frame.                                     *)
Spec ==
    /\ Init /\ [][Next]_vars
    /\ SF_vars(WatchThread)
    /\ WF_vars(tpc # "terminated" /\ FlushChangedFiles)

-----------------------------------------------------------------------------
TypeOK ==
    /\ writes \in [Paths -> 0..MaxWrites] /\ present \subseteq Paths
    /\ \A map \in {filesToWatch, taken, watched, changedFiles} :
          map \in [Paths -> Seq(Callbacks)]
    /\ lastWrite \in [Paths -> 0..MaxWrites]
    /\ tpc \in {"take", "add", "add time", "scan", "insert", "exited", "terminated"}
    /\ file \in Paths /\ toScan \subseteq Paths
    /\ toCall \subseteq Callbacks /\ registered \subseteq Callbacks
    /\ mpc \in {"frame", "flush", "join", "gone"}
    /\ running \in BOOLEAN
    /\ told \in [Callbacks -> 0..MaxWrites]

Over(f) == f \notin present \/ ~running \/ tpc = "terminated"

(* When a watched file was written, the callback that has been registered  *)
(* for it longest is called, and creates its resource from what the file   *)
(* holds now, however writes, polls and flushes overlap.                   *)
FirstSeesChanges ==
    \A c \in Callbacks :
        LET f == PathOf[c]
        IN  watched[f] # <<>> /\ Head(watched[f]) = c /\ IsChanged(f)
                ~> Over(f) \/ told[c] = writes[f]
=============================================================================
