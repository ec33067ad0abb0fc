----------------------------- MODULE ThreadPool -----------------------------
(***************************************************************************)
(* Common/Common/ThreadPool: a fixed set of worker threads that take       *)
(* std::function tasks from one FIFO queue.                                *)
(*                                                                         *)
(* Every action is one critical section of myMutex, or one atomic access   *)
(* made outside of it.  myMutex is not a variable: it is held exactly      *)
(* while some thread is at a program point of LockedAt, so that acquiring  *)
(* it is the guard MutexFree.                                              *)
(*                                                                         *)
(* Program points of a worker (wpc):                                       *)
(*   lock     about to lock myMutex and evaluate the wait predicate        *)
(*   block    predicate was false; still holds myMutex, not yet waiting    *)
(*   waiting  in the wait set of myConditionVariable                       *)
(*   take     predicate was true; holds myMutex                            *)
(*   recheck  popped a task (or saw the exit flag); holds myMutex          *)
(*   run      runs its task without the mutex                              *)
(*   finish   task returned; about to lock myMutex and count down          *)
(*   exited   left the thread function                                     *)
(***************************************************************************)
EXTENDS Naturals, Sequences, FiniteSets

CONSTANTS
    Workers,    \* the threads the constructor starts
    Callers,    \* threads that use the pool
    Tasks,      \* tasks that may be pushed, each at most once
    NoTask      \* an empty std::function

ASSUME PoolAssumption ==
    /\ IsFiniteSet(Workers)
    /\ NoTask \notin Tasks

VARIABLES
    myTasks,        \* the queue
    working,        \* totalWorkersCurrentWorking
    myShouldExit,   \* the atomic exit flag
    wpc, task,      \* program point and local task of each worker
    cpc,            \* program point of each caller
    status          \* what became of each task, seen by its future

vars == <<myTasks, working, myShouldExit, wpc, task, cpc, status>>

WorkerPoints ==
    {"lock", "block", "waiting", "take", "recheck", "run", "finish", "exited"}
CallerPoints ==
    {"idle", "pushNotify", "wait", "waitBlock", "waitSleep",
     "stopNotify", "join", "stopped"}

TypeOK ==
    /\ myTasks \in Seq(Tasks)
    /\ working \in Nat
    /\ myShouldExit \in BOOLEAN
    /\ wpc \in [Workers -> WorkerPoints]
    /\ task \in [Workers -> Tasks \cup {NoTask}]
    /\ cpc \in [Callers -> CallerPoints]
    /\ status \in [Tasks -> {"new", "queued", "taken", "running", "done", "dropped"}]

Init ==
    /\ myTasks = <<>>
    /\ working = 0
    /\ myShouldExit = FALSE
    /\ wpc = [w \in Workers |-> "lock"]
    /\ task = [w \in Workers |-> NoTask]
    /\ cpc = [c \in Callers |-> "idle"]
    /\ status = [t \in Tasks |-> "new"]

-----------------------------------------------------------------------------
WorkerHolds(w) == wpc[w] \in {"block", "take", "recheck"}
CallerHolds(c) == cpc[c] = "waitBlock"
MutexFree == /\ \A w \in Workers : ~WorkerHolds(w)
             /\ \A c \in Callers : ~CallerHolds(c)

GoTo(w, pc) == wpc' = [wpc EXCEPT ![w] = pc]
CallerGoTo(c, pc) == cpc' = [cpc EXCEPT ![c] = pc]

(* Below, a definition whose name ends in Bug is the next one with a       *)
(* plausible mistake in it; no specification uses it.                      *)

(* myConditionVariable.notify_one(): some waiter, if there is one          *)
WakeOneWorkerBug == UNCHANGED wpc
WakeOneWorker ==
    \/ \E w \in Workers : wpc[w] = "waiting" /\ GoTo(w, "lock")
    \/ (\A w \in Workers : wpc[w] # "waiting") /\ UNCHANGED wpc

(* myConditionVariable.notify_all()                                        *)
WakeAllWorkersBug == WakeOneWorker
WakeAllWorkers ==
    wpc' = [w \in Workers |-> IF wpc[w] = "waiting" THEN "lock" ELSE wpc[w]]

(* myConditionVariableFinished.notify_all()                                *)
WakeWaitersBug == UNCHANGED cpc
WakeWaiters ==
    cpc' = [c \in Callers |-> IF cpc[c] = "waitSleep" THEN "wait" ELSE cpc[c]]

(* ++totalWorkersCurrentWorking and --totalWorkersCurrentWorking           *)
CountUpBug == UNCHANGED working
CountUp == working' = working + 1

CountDownBug == working' = IF myShouldExit THEN working ELSE working - 1
CountDown == working' = working - 1

(* myTasks.pop()                                                           *)
PopBug == UNCHANGED myTasks
Pop == myTasks' = Tail(myTasks)

(* myTasks.push()                                                          *)
PushBug(t) == myTasks' = <<t>> \o myTasks
Push(t) == myTasks' = Append(myTasks, t)

(* The predicate of WaitForTasks                                           *)
AllDoneBug == myTasks = <<>>
AllDone == myTasks = <<>> /\ working = 0

(* What the joins of StopJoinAll wait for                                  *)
AllExitedBug == \E w \in Workers : wpc[w] = "exited"
AllExited == \A w \in Workers : wpc[w] = "exited"

-----------------------------------------------------------------------------
(* LookingForTasksThread.  The predicate of the wait reads the exit flag   *)
(* under the mutex, but the flag is set without it.                        *)
EvalPredicate(w) ==
    /\ wpc[w] = "lock"
    /\ MutexFree
    /\ GoTo(w, IF myShouldExit \/ myTasks # <<>> THEN "take" ELSE "block")
    /\ UNCHANGED <<myTasks, working, myShouldExit, task, cpc, status>>

(* The wait gives the mutex back and joins the wait set in one step.       *)
Block(w) ==
    /\ wpc[w] = "block"
    /\ GoTo(w, "waiting")
    /\ UNCHANGED <<myTasks, working, myShouldExit, task, cpc, status>>

SpuriousWakeup(w) ==
    /\ wpc[w] = "waiting"
    /\ GoTo(w, "lock")
    /\ UNCHANGED <<myTasks, working, myShouldExit, task, cpc, status>>

(* First test of the flag: count this worker and pop the front task.       *)
Take(w) ==
    /\ wpc[w] = "take"
    /\ GoTo(w, "recheck")
    /\ IF myShouldExit
       THEN UNCHANGED <<myTasks, working, task, status>>
       ELSE /\ CountUp
            /\ task' = [task EXCEPT ![w] = Head(myTasks)]
            /\ Pop
            /\ status' = [status EXCEPT ![Head(myTasks)] = "taken"]
    /\ UNCHANGED <<myShouldExit, cpc>>

(* Second test of the flag: a worker that sees it set breaks out of the    *)
(* loop, and the task it may have popped is destroyed without having run.  *)
Recheck(w) ==
    /\ wpc[w] = "recheck"
    /\ IF myShouldExit
       THEN /\ GoTo(w, "exited")
            /\ task' = [task EXCEPT ![w] = NoTask]
            /\ status' = IF task[w] = NoTask THEN status
                         ELSE [status EXCEPT ![task[w]] = "dropped"]
       ELSE /\ GoTo(w, "run")
            /\ status' = [status EXCEPT ![task[w]] = "running"]
            /\ UNCHANGED task
    /\ UNCHANGED <<myTasks, working, myShouldExit, cpc>>

(* task(): runs to its end and fulfils the promise of PushTaskFuture.      *)
RunTask(w) ==
    /\ wpc[w] = "run"
    /\ GoTo(w, "finish")
    /\ status' = [status EXCEPT ![task[w]] = "done"]
    /\ UNCHANGED <<myTasks, working, myShouldExit, task, cpc>>

(* Lock, count down, notify everyone in WaitForTasks, unlock, loop.        *)
Finish(w) ==
    /\ wpc[w] = "finish"
    /\ MutexFree
    /\ GoTo(w, "lock")
    /\ CountDown
    /\ task' = [task EXCEPT ![w] = NoTask]
    /\ WakeWaiters
    /\ UNCHANGED <<myTasks, myShouldExit, status>>

-----------------------------------------------------------------------------
(* PushTask: push under the mutex, notify one worker after unlocking.      *)
PushTask(c, t) ==
    /\ cpc[c] = "idle"
    /\ status[t] = "new"
    /\ MutexFree
    /\ Push(t)
    /\ status' = [status EXCEPT ![t] = "queued"]
    /\ CallerGoTo(c, "pushNotify")
    /\ UNCHANGED <<working, myShouldExit, wpc, task>>

PushNotify(c) ==
    /\ cpc[c] = "pushNotify"
    /\ WakeOneWorker
    /\ CallerGoTo(c, "idle")
    /\ UNCHANGED <<myTasks, working, myShouldExit, task, status>>

(* WaitForTasks: entered from idle, re-evaluated each time it is notified. *)
WaitForTasks(c) ==
    /\ cpc[c] = "idle"
    /\ CallerGoTo(c, "wait")
    /\ UNCHANGED <<myTasks, working, myShouldExit, wpc, task, status>>

WaitEval(c) ==
    /\ cpc[c] = "wait"
    /\ MutexFree
    /\ CallerGoTo(c, IF AllDone THEN "idle" ELSE "waitBlock")
    /\ UNCHANGED <<myTasks, working, myShouldExit, wpc, task, status>>

WaitBlock(c) ==
    /\ cpc[c] = "waitBlock"
    /\ CallerGoTo(c, "waitSleep")
    /\ UNCHANGED <<myTasks, working, myShouldExit, wpc, task, status>>

(* StopJoinAll: sets the flag without the mutex, notifies, joins.          *)
StopJoinAll(c) ==
    /\ cpc[c] = "idle"
    /\ ~myShouldExit
    /\ myShouldExit' = TRUE
    /\ CallerGoTo(c, "stopNotify")
    /\ UNCHANGED <<myTasks, working, wpc, task, status>>

StopNotify(c) ==
    /\ cpc[c] = "stopNotify"
    /\ WakeAllWorkers
    /\ CallerGoTo(c, "join")
    /\ UNCHANGED <<myTasks, working, myShouldExit, task, status>>

JoinAll(c) ==
    /\ cpc[c] = "join"
    /\ AllExited
    /\ CallerGoTo(c, "stopped")
    /\ UNCHANGED <<myTasks, working, myShouldExit, wpc, task, status>>

-----------------------------------------------------------------------------
WorkerStep(w) ==
    \/ EvalPredicate(w) \/ Block(w) \/ Take(w) \/ Recheck(w) \/ Finish(w)

Caller(c) ==
    \/ \E t \in Tasks : PushTask(c, t)
    \/ PushNotify(c)
    \/ WaitForTasks(c) \/ WaitEval(c) \/ WaitBlock(c)
    \/ StopJoinAll(c) \/ StopNotify(c) \/ JoinAll(c)

Next ==
    \/ \E w \in Workers : WorkerStep(w) \/ RunTask(w) \/ SpuriousWakeup(w)
    \/ \E c \in Callers : Caller(c)

Spec == Init /\ [][Next]_vars

(* Threads that can run do run, tasks return, and a thread that wants the  *)
(* mutex gets it some time when it is free again and again.  Nobody has to *)
(* call the pool, and nothing wakes up by itself.                          *)
Fairness ==
    /\ \A w \in Workers : SF_vars(WorkerStep(w)) /\ WF_vars(RunTask(w))
    /\ \A c \in Callers : /\ WF_vars(PushNotify(c))
                          /\ SF_vars(WaitEval(c)) /\ WF_vars(WaitBlock(c))
                          /\ WF_vars(StopNotify(c)) /\ WF_vars(JoinAll(c))

FairSpec == Spec /\ Fairness

-----------------------------------------------------------------------------
(* Workers that the counter counts: they hold a task they popped, or they  *)
(* dropped one on their way out and never counted down again.              *)
Busy == {w \in Workers : task[w] # NoTask}
Dropped == {t \in Tasks : status[t] = "dropped"}

(* The counter of busy workers equals the tasks popped and not finished,   *)
(* plus the tasks dropped at exit: LookingForTasksThread counts up with    *)
(* the pop and down after the task, but never down on the exit path.       *)
CounterIsExact == working = Cardinality(Busy) + Cardinality(Dropped)

(* A task is in the queue at most once and is in one place: queued, in the *)
(* hands of exactly one worker, or over.                                   *)
OnePlace ==
    /\ \A i, j \in 1..Len(myTasks) : myTasks[i] = myTasks[j] => i = j
    /\ \A t \in Tasks : status[t] = "queued" <=> \E i \in 1..Len(myTasks) : myTasks[i] = t
    /\ \A v, w \in Workers : task[v] = task[w] /\ task[v] # NoTask => v = w

(* WaitForTasks returns only at a moment when every task that was ever     *)
(* pushed has run to its end.                                              *)
WaitReturnsWhenDone ==
    [][\A c \in Callers : cpc[c] = "wait" /\ cpc'[c] = "idle" =>
            \A t \in Tasks : status[t] \in {"new", "done"}]_vars

(* After StopJoinAll returned no task runs any more, so that its caller    *)
(* may destroy what the tasks refer to.                                    *)
NothingRunsAfterJoin ==
    \A c \in Callers : cpc[c] = "stopped" =>
        \A t \in Tasks : status[t] \notin {"taken", "running"}

(* While nobody stops the pool every pushed task gets run: no push is lost *)
(* between the predicate of a worker and its wait.  As each task is pushed *)
(* at most once, that is: again and again no pushed task is left.          *)
PushedTasksRun == []<>(myShouldExit \/ \A t \in Tasks : status[t] \in {"new", "done"})

(* While nobody stops the pool WaitForTasks returns.                       *)
WaitTerminates ==
    \A c \in Callers : cpc[c] \in {"wait", "waitSleep"} ~> cpc[c] = "idle" \/ myShouldExit

(* StopJoinAll returns if its notify_all finds no worker between the       *)
(* predicate and the wait: that window is the only way to miss it.  Only   *)
(* one caller ever stops the pool.                                         *)
StopReturns ==
    (\E c \in Callers : cpc[c] = "stopNotify") /\ (\A w \in Workers : wpc[w] # "block")
        ~> \E c \in Callers : cpc[c] = "stopped"

-----------------------------------------------------------------------------
Stage == [t \in Tasks |->
            IF status[t] \in {"taken", "running"} THEN "started" ELSE status[t]]

Promise == INSTANCE TaskQueue
    WITH queue <- myTasks, stage <- Stage, stopped <- myShouldExit

(* The pool keeps the promise of TaskQueue: tasks start in push order, at  *)
(* most once, and only a stopped pool throws a started task away.          *)
KeepsPromise == Promise!Spec
=============================================================================
