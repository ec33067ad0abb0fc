----------------------------- MODULE MCServices ------------------------------
(* Four components that do not meet in these instances: each behaviour is   *)
(* about one of them, named by part, while the variables of the others keep *)
(* their initial values.                                                    *)
(*   pool     two callers push two tasks, wait and stop.                    *)
(*   loop     Main calls MaxLoops loops with every iteration count up to a  *)
(*            maximum, on a pool of fewer and of more workers.              *)
(*   files    the file watcher, with two callbacks for one file.            *)
(*   objects  the game objects of MCGameObjects.                            *)
EXTENDS ParallellLoop, MCGameObjects

CONSTANTS Paths, PathCallbacks, MaxWrites

VARIABLES
    part,
    writes, present, filesToWatch, taken, watched, lastWrite, changedFiles,
    tpc, file, toScan, toCall, mpc, running, registered, told

MCTasks == (1..MaxLoops) \X (1..Cardinality(Workers))

(* The callers of the pool push the tasks of the first loop.                *)
CallersNext == Next /\ UNCHANGED loopVars /\ \A t \in Tasks : t[1] > 1 => status'[t] = "new"

(* All callbacks are registered for the same file.                          *)
File == INSTANCE FileWatcher
    WITH Callbacks <- PathCallbacks,
         PathOf <- [c \in PathCallbacks |-> CHOOSE f \in Paths : TRUE]

fileVars == <<writes, present, filesToWatch, taken, watched, lastWrite, changedFiles,
              tpc, file, toScan, toCall, mpc, running, registered, told>>

ServicesInit ==
    /\ part \in {"pool", "loop", "files", "objects"}
    /\ LoopInit /\ File!Init /\ ObjectsInit
    /\ part # "objects" => MayBeOff \subseteq active

ServicesNext ==
    /\ UNCHANGED part
    /\ CASE part = "pool" -> CallersNext /\ UNCHANGED <<fileVars, objectsVars>>
         [] part = "loop" -> LoopNext /\ UNCHANGED <<fileVars, objectsVars>>
         [] part = "files" -> File!Next /\ UNCHANGED <<allVars, objectsVars>>
         [] part = "objects" -> ObjectsNext /\ UNCHANGED <<allVars, fileVars>>

(* What a thread does by itself: the steps that FairSpec, LoopFairSpec and  *)
(* FileWatcher!Spec are fair to.                                            *)
WorkerGoesOn(w) ==
    \/ part \in {"pool", "loop"} /\ WorkerStep(w) /\ UNCHANGED loopVars
    \/ part = "pool" /\ RunTask(w) /\ UNCHANGED loopVars
    \/ part = "loop" /\ (CallFunc(w) \/ Decrement(w) \/ NotifyLoop(w))

CallerGoesOn(c) ==
    \/ /\ part = "pool" /\ UNCHANGED <<loopVars, fileVars>>
       /\ PushNotify(c) \/ WaitEval(c) \/ WaitBlock(c) \/ StopNotify(c) \/ JoinAll(c)
    \/ /\ part = "loop" /\ UNCHANGED fileVars
       /\ PushRange \/ NotifyRange \/ LoopEval \/ LoopBlock
    \/ part = "files" /\ File!WatchThread /\ UNCHANGED allVars

MainGoesOn ==
    \/ part = "files" /\ tpc # "terminated" /\ File!FlushChangedFiles /\ UNCHANGED objectsVars
    \/ part = "objects" /\ MainStep /\ UNCHANGED fileVars

(* Their fairness, and that of ObjectsFairSpec.  A strong condition for     *)
(* each thread of a pool says the same as one for each of its steps, since  *)
(* a thread has only one step to take next.                                 *)
ServicesSpec ==
    /\ ServicesInit /\ [][ServicesNext]_<<part, allVars, fileVars, objectsVars>>
    /\ \A w \in Workers : SF_allVars(WorkerGoesOn(w))
    /\ \A c \in Callers : SF_<<allVars, fileVars>>(CallerGoesOn(c))
    /\ WF_<<fileVars, objectsVars>>(MainGoesOn)
    /\ WF_objectsVars(part = "objects" /\ UserReturns)

-----------------------------------------------------------------------------
(* The variables of all components have their types.                        *)
ServicesTypeOK == LoopTypeOK /\ File!TypeOK /\ ObjectTypeOK

(* ParallellLoop: a lambda never touches a counter whose stack frame is     *)
(* gone.  The tasks of the part "pool" are no lambdas of a loop.            *)
LambdasCounterAlive == part = "loop" => CounterFrameAlive

(* FileWatcher: the oldest callback of a file sees what was last written.   *)
FirstSeesChanges == File!FirstSeesChanges

(* GameObjects, where it runs: active objects and components get started,   *)
(* unless they are deactivated or destroyed.                                *)
ActiveStarts == part = "objects" => ActiveGetsStarted
=============================================================================
