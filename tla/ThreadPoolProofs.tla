-------------------------- MODULE ThreadPoolProofs --------------------------
(***************************************************************************)
(* Proofs about ThreadPool for any number of workers, callers and tasks,   *)
(* and in the second part about its ParallellLoop, for any number of       *)
(* workers, calls and iterations.  What is proved of the pool holds of     *)
(* Spec and rests on PoolAssumption alone; LoopUsesPool carries *)
(* it over to the loop.                                                    *)
(***************************************************************************)
EXTENDS ParallellLoop, SequenceProofs, FiniteSetTheorems

(* Inductive typing: besides TypeOK it knows which workers hold a task and *)
(* that a worker that is about to take one finds the queue non-empty       *)
(* unless the pool is being stopped.                                       *)
Holding(w) == task[w] # NoTask

Carrying ==
    \A w \in Workers :
        /\ wpc[w] \in {"run", "finish"} => Holding(w)
        /\ wpc[w] = "recheck" /\ ~myShouldExit => Holding(w)
        /\ Holding(w) => wpc[w] \in {"recheck", "run", "finish"}
        /\ wpc[w] = "take" /\ ~myShouldExit => myTasks # <<>>

OneHolder ==
    /\ \A v, w \in Workers : WorkerHolds(v) /\ WorkerHolds(w) => v = w
    /\ \A c, d \in Callers : CallerHolds(c) /\ CallerHolds(d) => c = d
    /\ \A w \in Workers, c \in Callers : ~(WorkerHolds(w) /\ CallerHolds(c))

Typing == TypeOK /\ Carrying /\ OneHolder

(* The status of a task says where it is.                                  *)
StatusTells ==
    /\ \A w \in Workers : Holding(w) =>
         status[task[w]] = CASE wpc[w] = "recheck" -> "taken"
                             [] wpc[w] = "run" -> "running"
                             [] OTHER -> "done"
    /\ \A t \in Tasks : status[t] \in {"taken", "running"} => \E w \in Workers : task[w] = t

Places == OnePlace /\ StatusTells

Counting == CounterIsExact /\ IsFiniteSet(Dropped)

JoinedIsExited ==
    \A c \in Callers : cpc[c] = "stopped" => \A w \in Workers : wpc[w] = "exited"

Inv == Typing /\ Places /\ Counting /\ JoinedIsExited

LEMMA TypingInit == Init => Typing
<1> SUFFICES ASSUME Init PROVE Typing
  OBVIOUS
<1>1. TypeOK
  <2>1. myTasks \in Seq(Tasks)
    BY DEF Init
  <2> QED
    BY <2>1 DEF Init, TypeOK, WorkerPoints, CallerPoints
<1>2. Carrying /\ OneHolder
  BY DEF Init, Carrying, OneHolder, Holding, WorkerHolds, CallerHolds
<1> QED
  BY <1>1, <1>2 DEF Typing

LEMMA TypingNext == Typing /\ Counting /\ [Next]_vars => Typing'
<1> SUFFICES ASSUME Typing, Counting, [Next]_vars PROVE Typing'
  OBVIOUS
<1> USE PoolAssumption DEF Typing, WorkerPoints, CallerPoints, GoTo, CallerGoTo
<1>1. ASSUME NEW w \in Workers, EvalPredicate(w) PROVE Typing'
  BY <1>1 DEF EvalPredicate, TypeOK, Carrying, OneHolder, Holding, MutexFree, WorkerHolds, CallerHolds
<1>2. ASSUME NEW w \in Workers, Block(w) PROVE Typing'
  BY <1>2 DEF Block, TypeOK, Carrying, OneHolder, Holding, WorkerHolds, CallerHolds
<1>3. ASSUME NEW w \in Workers, SpuriousWakeup(w) PROVE Typing'
  BY <1>3 DEF SpuriousWakeup, TypeOK, Carrying, OneHolder, Holding, WorkerHolds, CallerHolds
<1>4. ASSUME NEW w \in Workers, Take(w) PROVE Typing'
  <2>1. CASE myShouldExit
    BY <1>4, <2>1 DEF Take, TypeOK, Carrying, OneHolder, Holding, WorkerHolds, CallerHolds
  <2>2. CASE ~myShouldExit
    <3>1. myTasks # <<>> /\ myTasks \in Seq(Tasks)
      BY <1>4, <2>2 DEF Take, TypeOK, Carrying
    <3>2. Head(myTasks) \in Tasks /\ Tail(myTasks) \in Seq(Tasks)
      BY <3>1
    <3>3. \A v \in Workers : v # w => wpc[v] # "take"
      BY <1>4 DEF Take, OneHolder, WorkerHolds
    <3>4. TypeOK'
      <4>4. myTasks' = Tail(myTasks)
        BY <1>4, <2>2 DEF Take, Pop
      <4>5. working' = working + 1
        BY <1>4, <2>2 DEF Take, CountUp
      <4>1. myTasks' \in Seq(Tasks) /\ working' \in Nat
        BY <4>4, <4>5, <3>2 DEF TypeOK
      <4>2. wpc' \in [Workers -> WorkerPoints] /\ task' \in [Workers -> Tasks \cup {NoTask}]
        BY <1>4, <2>2, <3>2 DEF Take, TypeOK
      <4>3. status' \in [Tasks -> {"new", "queued", "taken", "running", "done", "dropped"}]
        BY <1>4, <2>2, <3>2 DEF Take, TypeOK
      <4> QED
        BY <1>4, <4>1, <4>2, <4>3 DEF Take, TypeOK
    <3>5. Carrying'
      BY <1>4, <2>2, <3>2, <3>3 DEF Take, TypeOK, Carrying, Holding
    <3>6. OneHolder'
      BY <1>4 DEF Take, TypeOK, OneHolder, WorkerHolds, CallerHolds
    <3> QED
      BY <3>4, <3>5, <3>6
  <2> QED
    BY <2>1, <2>2
<1>5. ASSUME NEW w \in Workers, Recheck(w) PROVE Typing'
  BY <1>5 DEF Recheck, TypeOK, Carrying, OneHolder, Holding, WorkerHolds, CallerHolds
<1>6. ASSUME NEW w \in Workers, RunTask(w) PROVE Typing'
  BY <1>6 DEF RunTask, TypeOK, Carrying, OneHolder, Holding, WorkerHolds, CallerHolds
<1>7. ASSUME NEW w \in Workers, Finish(w) PROVE Typing'
  <2>1. working > 0
    <3>1. w \in Busy /\ IsFiniteSet(Busy)
      BY <1>7, FS_Subset DEF Finish, Busy, Carrying, Holding
    <3>2. Cardinality(Busy) \in Nat /\ Cardinality(Busy) # 0
      BY <3>1, FS_CardinalityType, FS_EmptySet
    <3>3. Cardinality(Dropped) \in Nat
      BY FS_CardinalityType DEF Counting
    <3> QED
      BY <3>2, <3>3 DEF Counting, CounterIsExact
  <2> QED
    BY <1>7, <2>1 DEF Finish, CountDown, WakeWaiters, TypeOK, Carrying, OneHolder, Holding,
       MutexFree, WorkerHolds, CallerHolds
<1>8. ASSUME NEW c \in Callers, NEW t \in Tasks, PushTask(c, t) PROVE Typing'
  BY <1>8 DEF PushTask, Push, TypeOK, Carrying, OneHolder, Holding, MutexFree, WorkerHolds, CallerHolds
<1>9. ASSUME NEW c \in Callers, PushNotify(c) PROVE Typing'
  BY <1>9 DEF PushNotify, WakeOneWorker, TypeOK, Carrying, OneHolder, Holding, WorkerHolds, CallerHolds
<1>10. ASSUME NEW c \in Callers, WaitForTasks(c) \/ WaitEval(c) \/ WaitBlock(c) PROVE Typing'
  BY <1>10 DEF WaitForTasks, WaitEval, WaitBlock, AllDone, TypeOK, Carrying, OneHolder, Holding,
     MutexFree, WorkerHolds, CallerHolds
<1>11. ASSUME NEW c \in Callers, StopJoinAll(c) \/ StopNotify(c) \/ JoinAll(c) PROVE Typing'
  <2>1. CASE StopJoinAll(c)
    BY <2>1 DEF StopJoinAll, TypeOK, Carrying, OneHolder, Holding, WorkerHolds, CallerHolds
  <2>3. CASE JoinAll(c)
    BY <2>3 DEF JoinAll, TypeOK, Carrying, OneHolder, Holding, WorkerHolds, CallerHolds
  <2>2. CASE StopNotify(c)
    BY <2>2 DEF StopNotify, WakeAllWorkers, TypeOK, Carrying, OneHolder, Holding, WorkerHolds, CallerHolds
  <2> QED
    BY <1>11, <2>1, <2>2, <2>3
<1>12. CASE UNCHANGED vars
  BY <1>12 DEF vars, TypeOK, Carrying, OneHolder, Holding, WorkerHolds, CallerHolds
<1> QED
  BY <1>1, <1>2, <1>3, <1>4, <1>5, <1>6, <1>7, <1>8, <1>9, <1>10, <1>11, <1>12
  DEF Next, WorkerStep, Caller

-----------------------------------------------------------------------------
LEMMA PlacesInit == Init => Places
  BY PoolAssumption DEF Init, Places, OnePlace, StatusTells, Holding

LEMMA PlacesNext == Typing /\ Places /\ [Next]_vars => Places'
<1> SUFFICES ASSUME Typing, Places, [Next]_vars PROVE Places'
  OBVIOUS
<1> USE PoolAssumption DEF Typing, WorkerPoints, CallerPoints, GoTo, CallerGoTo
<1> DEFINE Same == UNCHANGED <<myTasks, task, status>>
<1>1. ASSUME Same,
             \A w \in Workers : Holding(w) => wpc'[w] = wpc[w]
      PROVE  Places'
  BY <1>1 DEF Places, OnePlace, StatusTells, Holding, TypeOK
<1>2. ASSUME NEW w \in Workers, EvalPredicate(w) \/ Block(w) \/ SpuriousWakeup(w) PROVE Places'
  <2>1. Same /\ \A v \in Workers : Holding(v) => wpc'[v] = wpc[v]
    BY <1>2 DEF EvalPredicate, Block, SpuriousWakeup, Carrying, Holding, TypeOK
  <2> QED BY <2>1, <1>1
<1>3. ASSUME NEW w \in Workers, Take(w) PROVE Places'
  <2>1. CASE myShouldExit
    <3>1. Same /\ \A v \in Workers : Holding(v) => wpc'[v] = wpc[v]
      BY <1>3, <2>1 DEF Take, Carrying, Holding, TypeOK
    <3> QED BY <3>1, <1>1
  <2>2. CASE ~myShouldExit
    <3> DEFINE h == Head(myTasks)
    <3>1. /\ myTasks # <<>> /\ myTasks \in Seq(Tasks) /\ h \in Tasks /\ h = myTasks[1]
          /\ wpc[w] = "take" /\ wpc' = [wpc EXCEPT ![w] = "recheck"]
          /\ task' = [task EXCEPT ![w] = h] /\ status' = [status EXCEPT ![h] = "taken"]
      BY <1>3, <2>2 DEF Take, TypeOK, Carrying
    <3>2. myTasks' = Tail(myTasks)
      BY <1>3, <2>2 DEF Take, Pop
    <3>3. /\ Len(myTasks') = Len(myTasks) - 1 /\ Len(myTasks) \in Nat
          /\ \A i \in 1..Len(myTasks') : myTasks'[i] = myTasks[i + 1]
      BY <3>1, <3>2
    <3>4. status[h] = "queued"
      BY <3>1, <3>3 DEF Places, OnePlace
    <3>5. \A v \in Workers : Holding(v) => v # w /\ task[v] # h
      BY <3>1, <3>4 DEF Places, StatusTells, Carrying, Holding
    <3>6. StatusTells'
      BY <3>1, <3>4, <3>5 DEF Places, StatusTells, Holding, TypeOK
    <3>7. \A v, u \in Workers : task'[v] = task'[u] /\ task'[v] # NoTask => v = u
      BY <3>1, <3>5 DEF Places, OnePlace, Holding, TypeOK
    <3>8. \A i, j \in 1..Len(myTasks') : myTasks'[i] = myTasks'[j] => i = j
      BY <3>3 DEF Places, OnePlace
    <3>9. \A t \in Tasks : status'[t] = "queued" <=> \E i \in 1..Len(myTasks') : myTasks'[i] = t
      <4> SUFFICES ASSUME NEW t \in Tasks
                   PROVE  status'[t] = "queued" <=> \E i \in 1..Len(myTasks') : myTasks'[i] = t
        OBVIOUS
      <4>1. CASE t = h
        <5>1. \A i \in 1..Len(myTasks') : myTasks'[i] # h
          BY <3>1, <3>3, SMTT(30) DEF Places, OnePlace
        <5> QED
          BY <4>1, <5>1, <3>1 DEF TypeOK
      <4>2. CASE t # h
        <5>1. status'[t] = status[t]
          BY <4>2, <3>1 DEF TypeOK
        <5>2. ASSUME NEW i \in 1..Len(myTasks), myTasks[i] = t
              PROVE  i - 1 \in 1..Len(myTasks') /\ myTasks'[i - 1] = t
          BY <4>2, <5>2, <3>1, <3>3
        <5> QED
          BY <5>1, <5>2, <3>3 DEF Places, OnePlace
      <4> QED
        BY <4>1, <4>2
    <3> QED
      BY <3>6, <3>7, <3>8, <3>9 DEF Places, OnePlace
  <2> QED
    BY <2>1, <2>2
<1>4. ASSUME NEW w \in Workers, Recheck(w) PROVE Places'
  BY <1>4 DEF Recheck, Places, OnePlace, StatusTells, Holding, TypeOK, Carrying
<1>5. ASSUME NEW w \in Workers, RunTask(w) PROVE Places'
  BY <1>5 DEF RunTask, Places, OnePlace, StatusTells, Holding, TypeOK, Carrying
<1>6. ASSUME NEW w \in Workers, Finish(w) PROVE Places'
  BY <1>6 DEF Finish, Places, OnePlace, StatusTells, Holding, TypeOK, Carrying
<1>7. ASSUME NEW c \in Callers, NEW t \in Tasks, PushTask(c, t) PROVE Places'
  <2>1. /\ myTasks \in Seq(Tasks) /\ myTasks' = Append(myTasks, t) /\ status[t] = "new"
        /\ status' = [status EXCEPT ![t] = "queued"] /\ UNCHANGED <<wpc, task>>
    BY <1>7 DEF PushTask, Push, TypeOK
  <2>2. /\ Len(myTasks') = Len(myTasks) + 1 /\ Len(myTasks) \in Nat
        /\ \A i \in 1..Len(myTasks) : myTasks'[i] = myTasks[i]
        /\ myTasks'[Len(myTasks) + 1] = t
    BY <2>1
  <2>3. StatusTells'
    BY <2>1 DEF Places, StatusTells, Holding, TypeOK
  <2>4. \A i \in 1..Len(myTasks) : myTasks[i] # t
    BY <2>1 DEF Places, OnePlace
  <2>5. \A i, j \in 1..Len(myTasks') : myTasks'[i] = myTasks'[j] => i = j
    BY <2>2, <2>4 DEF Places, OnePlace
  <2>6. ASSUME NEW u \in Tasks
        PROVE  status'[u] = "queued" <=> \E i \in 1..Len(myTasks') : myTasks'[i] = u
    <3>1. CASE u = t
      BY <3>1, <2>1, <2>2 DEF TypeOK
    <3>2. CASE u # t
      BY <3>2, <2>1, <2>2 DEF Places, OnePlace, TypeOK
    <3> QED
      BY <3>1, <3>2
  <2> QED
    BY <2>1, <2>3, <2>5, <2>6 DEF Places, OnePlace
<1>8. ASSUME NEW c \in Callers,
             \/ PushNotify(c) \/ WaitForTasks(c) \/ WaitEval(c) \/ WaitBlock(c)
             \/ StopJoinAll(c) \/ StopNotify(c) \/ JoinAll(c)
      PROVE  Places'
  <2>1. Same /\ \A v \in Workers : Holding(v) => wpc'[v] = wpc[v]
    BY <1>8 DEF PushNotify, WaitForTasks, WaitEval, WaitBlock, StopJoinAll, StopNotify, JoinAll,
       WakeOneWorker, WakeAllWorkers, Carrying, Holding, TypeOK
  <2> QED BY <2>1, <1>1
<1>9. CASE UNCHANGED vars
  BY <1>9, <1>1 DEF vars
<1> QED
  BY <1>2, <1>3, <1>4, <1>5, <1>6, <1>7, <1>8, <1>9 DEF Next, WorkerStep, Caller

-----------------------------------------------------------------------------
LEMMA CountingInit == Init => Counting
<1> SUFFICES ASSUME Init PROVE Counting
  OBVIOUS
<1>1. Busy = {} /\ Dropped = {} /\ working = 0
  BY DEF Init, Busy, Dropped
<1> QED
  BY <1>1, FS_EmptySet DEF Counting, CounterIsExact

LEMMA CountingNext == Typing /\ Places /\ Counting /\ [Next]_vars => Counting'
<1> SUFFICES ASSUME Typing, Places, Counting, [Next]_vars PROVE Counting'
  OBVIOUS
<1> USE PoolAssumption DEF Typing, WorkerPoints, CallerPoints, GoTo, CallerGoTo
<1>1. /\ IsFiniteSet(Busy) /\ Cardinality(Busy) \in Nat
      /\ IsFiniteSet(Dropped) /\ Cardinality(Dropped) \in Nat
  BY FS_Subset, FS_CardinalityType DEF Busy, Counting
<1>2. ASSUME Busy' = Busy, Dropped' = Dropped, working' = working PROVE Counting'
  BY <1>2 DEF Counting, CounterIsExact
<1>3. ASSUME NEW w \in Workers, EvalPredicate(w) \/ Block(w) \/ SpuriousWakeup(w) PROVE Counting'
  BY <1>2, <1>3 DEF EvalPredicate, Block, SpuriousWakeup, Busy, Dropped
<1>4. ASSUME NEW w \in Workers, Take(w) PROVE Counting'
  <2>1. CASE myShouldExit
    BY <1>2, <1>4, <2>1 DEF Take, Busy, Dropped
  <2>2. CASE ~myShouldExit
    <3>1. Head(myTasks) \in Tasks /\ Head(myTasks) = myTasks[1] /\ Len(myTasks) \in Nat \ {0}
      BY <1>4, <2>2 DEF Take, TypeOK, Carrying
    <3>2. status[Head(myTasks)] = "queued"
      BY <3>1 DEF Places, OnePlace
    <3>3. Dropped' = Dropped
      BY <1>4, <2>2, <3>1, <3>2 DEF Take, Dropped, TypeOK
    <3>4. w \notin Busy /\ Busy' = Busy \cup {w}
      BY <1>4, <2>2, <3>1 DEF Take, Busy, TypeOK, Carrying, Holding
    <3>5. working' = working + 1
      BY <1>4, <2>2 DEF Take, CountUp
    <3>6. Cardinality(Busy') = Cardinality(Busy) + 1
      BY <1>1, <3>4, FS_AddElement
    <3> QED
      BY <1>1, <3>3, <3>5, <3>6 DEF Counting, CounterIsExact
  <2> QED
    BY <2>1, <2>2
<1>5. ASSUME NEW w \in Workers, Recheck(w) PROVE Counting'
  <2>1. CASE myShouldExit /\ Holding(w)
    <3>1. task[w] \in Tasks /\ status[task[w]] = "taken"
      BY <1>5, <2>1 DEF Recheck, TypeOK, Places, StatusTells, Holding
    <3>2. task[w] \notin Dropped /\ Dropped' = Dropped \cup {task[w]}
      BY <1>5, <2>1, <3>1 DEF Recheck, Dropped, TypeOK, Holding
    <3>3. w \in Busy /\ Busy' = Busy \ {w} /\ working' = working
      BY <1>5, <2>1 DEF Recheck, Busy, TypeOK, Holding
    <3>4. /\ IsFiniteSet(Dropped') /\ Cardinality(Dropped') = Cardinality(Dropped) + 1
          /\ Cardinality(Busy') = Cardinality(Busy) - 1
      BY <1>1, <3>2, <3>3, FS_AddElement, FS_RemoveElement
    <3> QED
      BY <1>1, <3>3, <3>4 DEF Counting, CounterIsExact
  <2>2. CASE myShouldExit /\ ~Holding(w)
    BY <1>2, <1>5, <2>2 DEF Recheck, Busy, Dropped, TypeOK, Holding
  <2>3. CASE ~myShouldExit
    <3>1. task[w] \in Tasks /\ status[task[w]] = "taken"
      BY <1>5, <2>3 DEF Recheck, TypeOK, Carrying, Places, StatusTells, Holding
    <3>2. Dropped' = Dropped
      BY <1>5, <2>3, <3>1 DEF Recheck, Dropped, TypeOK
    <3> QED
      BY <1>2, <1>5, <2>3, <3>2 DEF Recheck, Busy
  <2> QED
    BY <2>1, <2>2, <2>3
<1>6. ASSUME NEW w \in Workers, RunTask(w) PROVE Counting'
  <2>1. task[w] \in Tasks /\ status[task[w]] = "running"
    BY <1>6 DEF RunTask, TypeOK, Carrying, Places, StatusTells, Holding
  <2>2. Dropped' = Dropped
    BY <1>6, <2>1 DEF RunTask, Dropped, TypeOK
  <2> QED
    BY <1>2, <1>6, <2>2 DEF RunTask, Busy
<1>7. ASSUME NEW w \in Workers, Finish(w) PROVE Counting'
  <2>1. w \in Busy /\ Busy' = Busy \ {w} /\ Dropped' = Dropped
    BY <1>7 DEF Finish, Busy, Dropped, TypeOK, Carrying, Holding
  <2>2. Cardinality(Busy') = Cardinality(Busy) - 1
    BY <1>1, <2>1, FS_RemoveElement
  <2>3. working' = working - 1
    BY <1>7 DEF Finish, CountDown
  <2> QED
    BY <1>1, <2>1, <2>2, <2>3 DEF Counting, CounterIsExact
<1>8. ASSUME NEW c \in Callers, NEW t \in Tasks, PushTask(c, t) PROVE Counting'
  <2>1. Dropped' = Dropped
    BY <1>8 DEF PushTask, Dropped, TypeOK
  <2> QED
    BY <1>2, <1>8, <2>1 DEF PushTask, Busy
<1>9. ASSUME NEW c \in Callers,
             \/ PushNotify(c) \/ WaitForTasks(c) \/ WaitEval(c) \/ WaitBlock(c)
             \/ StopJoinAll(c) \/ StopNotify(c) \/ JoinAll(c)
      PROVE  Counting'
  BY <1>2, <1>9 DEF PushNotify, WaitForTasks, WaitEval, WaitBlock, StopJoinAll, StopNotify, JoinAll,
     Busy, Dropped
<1>10. CASE UNCHANGED vars
  BY <1>2, <1>10 DEF vars, Busy, Dropped
<1> QED
  BY <1>3, <1>4, <1>5, <1>6, <1>7, <1>8, <1>9, <1>10 DEF Next, WorkerStep, Caller

LEMMA JoinedNext == Typing /\ JoinedIsExited /\ [Next]_vars => JoinedIsExited'
<1> SUFFICES ASSUME Typing, JoinedIsExited, [Next]_vars,
                    NEW c \in Callers, cpc'[c] = "stopped", NEW w \in Workers
             PROVE  wpc'[w] = "exited"
  BY DEF JoinedIsExited
<1> USE DEF Typing, TypeOK, WorkerPoints, CallerPoints, GoTo, CallerGoTo
<1>1. wpc[w] = "exited" => wpc'[w] = "exited"
  BY DEF Next, WorkerStep, Caller, EvalPredicate, Block, SpuriousWakeup, Take, Recheck, RunTask, Finish,
     PushTask, PushNotify, WaitForTasks, WaitEval, WaitBlock, StopJoinAll, StopNotify, JoinAll,
     WakeOneWorker, WakeAllWorkers, vars
<1>2. cpc[c] = "stopped" \/ \A v \in Workers : wpc[v] = "exited"
  BY DEF Next, WorkerStep, Caller, EvalPredicate, Block, SpuriousWakeup, Take, Recheck, RunTask, Finish,
     PushTask, PushNotify, WaitForTasks, WaitEval, WaitBlock, StopJoinAll, StopNotify, JoinAll,
     WakeWaiters, AllExited, vars
<1> QED
  BY <1>1, <1>2 DEF JoinedIsExited

LEMMA InvInit == Init => Inv
<1>1. Init => JoinedIsExited
  BY DEF Init, JoinedIsExited
<1> QED
  BY <1>1, TypingInit, PlacesInit, CountingInit DEF Inv

LEMMA InvNext == Inv /\ [Next]_vars => Inv'
  BY TypingNext, PlacesNext, CountingNext, JoinedNext DEF Inv

-----------------------------------------------------------------------------
(* The inductive invariant: typing needs the counter (it is never counted  *)
(* below zero), the counter needs the places (a dropped task was held by   *)
(* one worker), and the places need typing.                                *)
THEOREM PoolInvariant == Spec => []Inv
  BY InvInit, InvNext, PTL DEF Spec

(* The variables of ThreadPool keep their types; in particular             *)
(* totalWorkersCurrentWorking never becomes negative.                      *)
THEOREM TypeCorrect == Spec => []TypeOK
<1>1. Inv => TypeOK
  BY DEF Inv, Typing
<1> QED
  BY <1>1, PoolInvariant, PTL

(* totalWorkersCurrentWorking counts the tasks popped and not finished,    *)
(* and those dropped at exit, whatever the number of workers.              *)
THEOREM CounterCorrect == Spec => []CounterIsExact
<1>1. Inv => CounterIsExact
  BY DEF Inv, Counting
<1> QED
  BY <1>1, PoolInvariant, PTL

(* A pushed task is in one place: no worker runs a task of another one,    *)
(* and none that is still in the queue.                                    *)
THEOREM TasksInOnePlace == Spec => []OnePlace
<1>1. Inv => OnePlace
  BY DEF Inv, Places
<1> QED
  BY <1>1, PoolInvariant, PTL

(* When StopJoinAll has returned no worker of the pool runs a task.        *)
THEOREM JoinIsFinal == Spec => []NothingRunsAfterJoin
<1>1. Inv => NothingRunsAfterJoin
  <2> SUFFICES ASSUME Inv, NEW c \in Callers, cpc[c] = "stopped", NEW t \in Tasks,
                      status[t] \in {"taken", "running"}
               PROVE  FALSE
    BY DEF NothingRunsAfterJoin
  <2>1. PICK w \in Workers : task[w] = t
    BY DEF Inv, Places, StatusTells
  <2>2. wpc[w] # "exited"
    BY <2>1, PoolAssumption DEF Inv, Typing, Carrying, Holding
  <2> QED
    BY <2>2 DEF Inv, JoinedIsExited
<1> QED
  BY <1>1, PoolInvariant, PTL

(* WaitForTasks returns only when every task ever pushed has run.          *)
THEOREM WaitIsSound == Spec => WaitReturnsWhenDone
<1> DEFINE Returns == \A c \in Callers : cpc[c] = "wait" /\ cpc'[c] = "idle" =>
                          \A t \in Tasks : status[t] \in {"new", "done"}
<1>1. Inv /\ [Next]_vars => [Returns]_vars
  <2> SUFFICES ASSUME Inv, Next, NEW c \in Callers, cpc[c] = "wait", cpc'[c] = "idle",
                      NEW t \in Tasks
               PROVE  status[t] \in {"new", "done"}
    OBVIOUS
  <2>1. AllDone
    BY DEF Inv, Typing, TypeOK, CallerPoints, Next, WorkerStep, Caller, EvalPredicate, Block,
       SpuriousWakeup, Take, Recheck, RunTask, Finish, PushTask, PushNotify, WaitForTasks, WaitEval,
       WaitBlock, StopJoinAll, StopNotify, JoinAll, WakeWaiters, CallerGoTo
  <2>2. /\ IsFiniteSet(Busy) /\ Cardinality(Busy) \in Nat
        /\ IsFiniteSet(Dropped) /\ Cardinality(Dropped) \in Nat
    BY PoolAssumption, FS_Subset, FS_CardinalityType DEF Busy, Inv, Counting
  <2>3. Busy = {} /\ Dropped = {}
    BY <2>1, <2>2, FS_EmptySet DEF AllDone, Inv, Counting, CounterIsExact
  <2>4. status[t] \notin {"taken", "running", "dropped"}
    BY <2>3, PoolAssumption DEF Busy, Dropped, Inv, Places, StatusTells
  <2>5. status[t] # "queued"
    BY <2>1 DEF AllDone, Inv, Places, OnePlace
  <2> QED
    BY <2>4, <2>5 DEF Inv, Typing, TypeOK
<1> QED
  BY <1>1, PoolInvariant, PTL DEF Spec, WaitReturnsWhenDone

(* The pool implements TaskQueue: FIFO start, at most once, and tasks are  *)
(* thrown away only once the pool is being stopped.                        *)
THEOREM PoolKeepsPromise == Spec => KeepsPromise
<1>1. Init => Promise!Init
  BY DEF Init, Promise!Init, Stage
<1>2. Inv /\ [Next]_vars => [Promise!Next]_Promise!queueVars
  <2> SUFFICES ASSUME Inv, [Next]_vars PROVE [Promise!Next]_Promise!queueVars
    OBVIOUS
  <2> USE PoolAssumption DEF Inv, Typing, Promise!queueVars
  <2>1. ASSUME UNCHANGED <<myTasks, myShouldExit, status>> PROVE UNCHANGED Promise!queueVars
    BY <2>1 DEF Stage
  <2>2. ASSUME NEW w \in Workers, EvalPredicate(w) \/ Block(w) \/ SpuriousWakeup(w) \/ Finish(w)
        PROVE  UNCHANGED Promise!queueVars
    BY <2>1, <2>2 DEF EvalPredicate, Block, SpuriousWakeup, Finish
  <2>3. ASSUME NEW w \in Workers, Take(w) PROVE Promise!Start \/ UNCHANGED Promise!queueVars
    <3>1. CASE myShouldExit
      BY <2>1, <2>3, <3>1 DEF Take
    <3>2. CASE ~myShouldExit
      <4>1. myTasks # <<>> /\ Head(myTasks) \in Tasks
        BY <2>3, <3>2 DEF Take, TypeOK, Carrying
      <4>2. myTasks' = Tail(myTasks) /\ UNCHANGED myShouldExit
        BY <2>3, <3>2 DEF Take, Pop
      <4>3. Stage' = [Stage EXCEPT ![Head(myTasks)] = "started"]
        BY <2>3, <3>2, <4>1 DEF Take, Stage, TypeOK
      <4> QED
        BY <3>2, <4>1, <4>2, <4>3 DEF Promise!Start
    <3> QED
      BY <3>1, <3>2
  <2>4. ASSUME NEW w \in Workers, Recheck(w)
        PROVE  (\E t \in Tasks : Promise!Discard(t)) \/ UNCHANGED Promise!queueVars
    <3>1. CASE myShouldExit /\ Holding(w)
      <4>1. task[w] \in Tasks /\ status[task[w]] = "taken"
        BY <2>4, <3>1 DEF Recheck, TypeOK, Places, StatusTells, Holding
      <4>2. Stage[task[w]] = "started" /\ Stage' = [Stage EXCEPT ![task[w]] = "dropped"]
        BY <2>4, <3>1, <4>1 DEF Recheck, Stage, TypeOK, Holding
      <4> QED
        BY <2>4, <3>1, <4>1, <4>2 DEF Recheck, Promise!Discard
    <3>2. CASE myShouldExit /\ ~Holding(w)
      BY <2>1, <2>4, <3>2 DEF Recheck, Holding
    <3>3. CASE ~myShouldExit
      <4>1. task[w] \in Tasks /\ status[task[w]] = "taken"
        BY <2>4, <3>3 DEF Recheck, TypeOK, Carrying, Places, StatusTells, Holding
      <4>2. Stage' = Stage
        BY <2>4, <3>3, <4>1 DEF Recheck, Stage, TypeOK
      <4> QED
        BY <2>4, <3>3, <4>2 DEF Recheck
    <3> QED
      BY <3>1, <3>2, <3>3
  <2>5. ASSUME NEW w \in Workers, RunTask(w) PROVE \E t \in Tasks : Promise!Complete(t)
    <3>1. task[w] \in Tasks /\ status[task[w]] = "running"
      BY <2>5 DEF RunTask, TypeOK, Carrying, Places, StatusTells, Holding
    <3>2. Stage[task[w]] = "started" /\ Stage' = [Stage EXCEPT ![task[w]] = "done"]
      BY <2>5, <3>1 DEF RunTask, Stage, TypeOK
    <3> QED
      BY <2>5, <3>1, <3>2 DEF RunTask, Promise!Complete
  <2>6. ASSUME NEW c \in Callers, NEW t \in Tasks, PushTask(c, t) PROVE Promise!Submit(t)
    <3>1. Stage[t] = "new" /\ Stage' = [Stage EXCEPT ![t] = "queued"]
      BY <2>6 DEF PushTask, Stage, TypeOK
    <3> QED
      BY <2>6, <3>1 DEF PushTask, Push, Promise!Submit
  <2>7. ASSUME NEW c \in Callers, StopJoinAll(c) PROVE Promise!Stop
    BY <2>7 DEF StopJoinAll, Promise!Stop, Stage
  <2>8. ASSUME NEW c \in Callers,
               \/ PushNotify(c) \/ WaitForTasks(c) \/ WaitEval(c) \/ WaitBlock(c)
               \/ StopNotify(c) \/ JoinAll(c)
        PROVE  UNCHANGED Promise!queueVars
    BY <2>1, <2>8 DEF PushNotify, WaitForTasks, WaitEval, WaitBlock, StopNotify, JoinAll
  <2>9. CASE UNCHANGED vars
    BY <2>1, <2>9 DEF vars
  <2> QED
    BY <2>2, <2>3, <2>4, <2>5, <2>6, <2>7, <2>8, <2>9 DEF Next, WorkerStep, Caller, Promise!Next
<1> QED
  BY <1>1, <1>2, PoolInvariant, PTL DEF Spec, KeepsPromise, Promise!Spec

-----------------------------------------------------------------------------
(***************************************************************************)
(* ParallellLoop uses the pool as the pool may be used, no lambda that it  *)
(* has pushed refers to a counter that is gone, and on a pool with a       *)
(* worker each index is handed to the caller's function exactly once.      *)
(***************************************************************************)

(* A range is open from its push to the countdown of its lambda.           *)
Uncounted(w) == wpc[w] = "run" /\ body[w] # "notify"

OpenRanges ==
    {t \in Tasks : \/ status[t] \in {"queued", "taken"}
                   \/ \E w \in Workers : task[w] = t /\ Uncounted(w)}

(* What the invariant adds to that of the pool: nobody stops the pool,     *)
(* a lambda begins at its start, ranges are pushed in order and only while *)
(* their call lasts, and the counter is the number of ranges that are open *)
(* or not pushed yet.                                                      *)
LoopTyping ==
    /\ LoopTypeOK
    /\ ~myShouldExit
    /\ \A w \in Workers : wpc[w] # "run" => body[w] = "f"

PushedInOrder ==
    /\ \A t \in Tasks : t[1] > loop \/ (t[1] = loop /\ t[2] > pushed) => status[t] = "new"
    /\ loopPc # "idle" => /\ loop > 0 /\ pushed <= ThreadsFor(size)
                          /\ loopPc # "push" => pushed = ThreadsFor(size)

OnlyThisCall == \A t \in OpenRanges : loopPc # "idle" /\ t[1] = loop

CounterCounts ==
    /\ IsFiniteSet(OpenRanges)
    /\ loopPc # "idle" =>
          threadsRunning = Cardinality(OpenRanges) + (ThreadsFor(size) - pushed)

LoopInv == Inv /\ LoopTyping /\ PushedInOrder /\ OnlyThisCall /\ CounterCounts

LEMMA ThreadsForType ==
    ASSUME NEW n \in Nat
    PROVE  ThreadsFor(n) \in 0..Cardinality(Workers)
  <1>1. Cardinality(Workers) \in Nat
    BY PoolAssumption, FS_CardinalityType
  <1> QED BY <1>1 DEF ThreadsFor, SmallerOf

-----------------------------------------------------------------------------
LEMMA LoopInvInit == LoopInit => LoopInv
  <1> SUFFICES ASSUME LoopInit PROVE LoopInv
    OBVIOUS
  <1> USE PoolAssumption, LoopAssumption DEF LoopInit
  <1>1. Inv
    BY InvInit
  <1>2. LoopTyping
    <2>1. TypeOK
      BY <1>1 DEF Inv, Typing
    <2>2. Cardinality(Workers) \in Nat
      BY FS_CardinalityType
    <2> QED BY <2>1, <2>2 DEF LoopTyping, LoopTypeOK, Init
  <1>3. OpenRanges = {}
    BY DEF OpenRanges, Uncounted, Init
  <1>4. PushedInOrder
    BY DEF PushedInOrder, Init
  <1> QED BY <1>1, <1>2, <1>3, <1>4, FS_EmptySet DEF LoopInv, OnlyThisCall, CounterCounts

(* Every step of ParallellLoop is one that the pool allows.                *)
LEMMA LoopStepIsPoolStep == LoopInv /\ [LoopNext]_allVars => [Next]_vars
  <1> SUFFICES ASSUME LoopInv, [LoopNext]_allVars PROVE [Next]_vars
    OBVIOUS
  <1>1. ASSUME PushRange PROVE Next
    <2>1. ThreadsFor(size) \in 0..Cardinality(Workers)
      BY ThreadsForType DEF LoopInv, LoopTyping, LoopTypeOK
    <2>2. Cardinality(Workers) \in Nat
      BY PoolAssumption, FS_CardinalityType
    <2>3. <<loop, pushed + 1>> \in Tasks
      BY <1>1, <2>1, <2>2, LoopAssumption DEF PushRange, LoopInv, LoopTyping, LoopTypeOK, PushedInOrder
    <2> QED BY <1>1, <2>3, LoopAssumption DEF PushRange, Next, Caller
  <1>2. ASSUME NotifyRange PROVE Next
    BY <1>2, LoopAssumption DEF NotifyRange, Next, Caller
  <1>3. ASSUME NEW w \in Workers, NotifyLoop(w) \/ PoolStep(w) PROVE Next
    BY <1>3 DEF NotifyLoop, PoolStep, Next
  <1>4. ASSUME (\E n \in 1..MaxIterations : CallLoop(n)) \/ LoopEval \/ LoopBlock \/ LoopSpurious
               \/ \E w \in Workers : CallFunc(w) \/ Decrement(w)
        PROVE  UNCHANGED vars
    BY <1>4 DEF CallLoop, LoopEval, LoopBlock, LoopSpurious, CallFunc, Decrement
  <1> QED BY <1>1, <1>2, <1>3, <1>4 DEF LoopNext, LoopStep, allVars

-----------------------------------------------------------------------------
(* The ranges that are open after a step of the pool or of the loop.       *)
LEMMA OpenKept ==
    ASSUME UNCHANGED status, UNCHANGED task,
           \A w \in Workers : Uncounted(w)' <=> Uncounted(w)
    PROVE  OpenRanges' = OpenRanges
  BY DEF OpenRanges

LEMMA OpenAfterPoolStep ==
    ASSUME LoopInv, NEW w \in Workers, PoolStep(w)
    PROVE  OpenRanges' = OpenRanges /\ LoopTyping'
  <1> USE PoolAssumption DEF LoopInv, Inv, Typing, WorkerPoints, GoTo
  <1>0. TypeOK'
    BY LoopStepIsPoolStep, InvNext DEF LoopNext
  <1>1. CASE EvalPredicate(w) \/ Block(w) \/ SpuriousWakeup(w)
    <2>1. \A v \in Workers : Uncounted(v)' <=> Uncounted(v)
      BY <1>1 DEF EvalPredicate, Block, SpuriousWakeup, PoolStep, loopVars, Uncounted, TypeOK
    <2>2. OpenRanges' = OpenRanges
      BY <1>1, <2>1, OpenKept DEF EvalPredicate, Block, SpuriousWakeup
    <2>3. LoopTyping'
      BY <1>0, <1>1 DEF EvalPredicate, Block, SpuriousWakeup, PoolStep, loopVars, LoopTyping,
                        LoopTypeOK, TypeOK
    <2> QED BY <2>2, <2>3
  <1>2. CASE Take(w)
    <2>1. Head(myTasks) \in Tasks /\ status[Head(myTasks)] = "queued"
      <3>1. Len(myTasks) \in Nat \ {0} /\ Head(myTasks) = myTasks[1] /\ Head(myTasks) \in Tasks
        BY <1>2 DEF Take, TypeOK, Carrying, LoopTyping
      <3> QED BY <3>1 DEF Places, OnePlace
    <2>2. \A v \in Workers : Uncounted(v)' <=> Uncounted(v)
      BY <1>2 DEF Take, PoolStep, loopVars, Uncounted, TypeOK
    <2>3. \A v \in Workers : Uncounted(v) => task'[v] = task[v]
      BY <1>2 DEF Take, Uncounted, TypeOK
    <2>4. status' = [status EXCEPT ![Head(myTasks)] = "taken"]
      BY <1>2 DEF Take, LoopTyping
    <2>5. OpenRanges' = OpenRanges
      BY <2>1, <2>2, <2>3, <2>4 DEF OpenRanges, TypeOK
    <2>6. LoopTyping'
      BY <1>0, <1>2 DEF Take, PoolStep, loopVars, LoopTyping, LoopTypeOK, TypeOK
    <2> QED BY <2>5, <2>6
  <1>3. CASE Recheck(w)
    <2>1. task[w] \in Tasks /\ status[task[w]] = "taken" /\ body[w] = "f"
      BY <1>3 DEF Recheck, LoopTyping, Carrying, Holding, Places, StatusTells, TypeOK
    <2>2. status' = [status EXCEPT ![task[w]] = "running"] /\ UNCHANGED task
      BY <1>3 DEF Recheck, LoopTyping
    <2>3. Uncounted(w)' /\ \A v \in Workers : v # w => (Uncounted(v)' <=> Uncounted(v))
      BY <1>3, <2>1 DEF Recheck, PoolStep, loopVars, LoopTyping, Uncounted, TypeOK
    <2>4. ~Uncounted(w)
      BY <1>3 DEF Recheck, Uncounted
    <2>5. OpenRanges' = OpenRanges
      BY <2>1, <2>2, <2>3, <2>4 DEF OpenRanges, TypeOK
    <2>6. LoopTyping'
      BY <1>0, <1>3 DEF Recheck, PoolStep, loopVars, LoopTyping, LoopTypeOK, TypeOK
    <2> QED BY <2>5, <2>6
  <1>4. CASE Finish(w)
    <2>1. \A v \in Workers : Uncounted(v)' <=> Uncounted(v)
      BY <1>4 DEF Finish, PoolStep, loopVars, Uncounted, TypeOK
    <2>2. \A v \in Workers : Uncounted(v) => task'[v] = task[v]
      BY <1>4 DEF Finish, Uncounted, TypeOK
    <2>3. OpenRanges' = OpenRanges
      BY <1>4, <2>1, <2>2 DEF Finish, OpenRanges
    <2>4. LoopTyping'
      BY <1>0, <1>4 DEF Finish, PoolStep, loopVars, LoopTyping, LoopTypeOK, TypeOK
    <2> QED BY <2>3, <2>4
  <1> QED BY <1>1, <1>2, <1>3, <1>4 DEF PoolStep, WorkerStep

(* The steps of the lambda: its end and the caller's function keep a range *)
(* open or closed, the countdown closes one.                               *)
LEMMA RunningRange ==
    ASSUME LoopInv, NEW w \in Workers, wpc[w] = "run"
    PROVE  /\ task[w] \in Tasks /\ status[task[w]] = "running"
           /\ \A v \in Workers : task[v] = task[w] => v = w
  BY PoolAssumption DEF LoopInv, Inv, Typing, TypeOK, Carrying, Holding, Places, OnePlace, StatusTells

LEMMA OpenAfterNotifyLoop ==
    ASSUME LoopInv, NEW w \in Workers, NotifyLoop(w)
    PROVE  OpenRanges' = OpenRanges /\ LoopTyping'
  <1> USE DEF NotifyLoop, RunTask, GoTo, NextBody
  <1>0. TypeOK'
    BY LoopStepIsPoolStep, InvNext DEF LoopNext, LoopInv, Inv, Typing
  <1>1. /\ task[w] \in Tasks /\ status[task[w]] = "running"
        /\ \A v \in Workers : task[v] = task[w] => v = w
    BY RunningRange
  <1>2. \A v \in Workers : Uncounted(v)' <=> Uncounted(v)
    BY DEF Uncounted, LoopInv, LoopTyping, LoopTypeOK, TypeOK
  <1>3. task[w] \notin OpenRanges /\ task[w] \notin OpenRanges'
    <2>1. ~Uncounted(w) /\ ~Uncounted(w)'
      BY <1>2 DEF Uncounted
    <2>2. status'[task[w]] = "done"
      BY <1>1 DEF LoopInv, Inv, Typing, TypeOK
    <2> QED BY <1>1, <2>1, <2>2, <1>2 DEF OpenRanges
  <1>4. \A t \in Tasks : t # task[w] => (t \in OpenRanges' <=> t \in OpenRanges)
    BY <1>2 DEF OpenRanges, LoopInv, Inv, Typing, TypeOK
  <1>5. OpenRanges' = OpenRanges
    BY <1>3, <1>4 DEF OpenRanges
  <1>6. LoopTyping'
    BY <1>0 DEF LoopInv, LoopTyping, LoopTypeOK, TypeOK
  <1> QED BY <1>5, <1>6

LEMMA OpenAfterDecrement ==
    ASSUME LoopInv, NEW w \in Workers, Decrement(w)
    PROVE  task[w] \in OpenRanges /\ OpenRanges' = OpenRanges \ {task[w]}
  <1> USE DEF Decrement, NextBody
  <1>1. /\ task[w] \in Tasks /\ status[task[w]] = "running"
        /\ \A v \in Workers : task[v] = task[w] => v = w
    BY RunningRange
  <1>2. \A v \in Workers : v # w => (Uncounted(v)' <=> Uncounted(v))
    BY DEF Uncounted, vars, LoopInv, LoopTyping, LoopTypeOK
  <1>3. Uncounted(w) /\ ~Uncounted(w)'
    BY DEF Uncounted, vars, LoopInv, LoopTyping, LoopTypeOK
  <1>4. UNCHANGED <<status, task>>
    BY DEF vars
  <1> QED BY <1>1, <1>2, <1>3, <1>4 DEF OpenRanges

LEMMA OpenAfterPush ==
    ASSUME LoopInv, PushRange
    PROVE  /\ <<loop, pushed + 1>> \in Tasks \ OpenRanges
           /\ OpenRanges' = OpenRanges \cup {<<loop, pushed + 1>>}
           /\ status' = [status EXCEPT ![<<loop, pushed + 1>>] = "queued"]
  <1> USE DEF PushRange, PushTask
  <1>1. <<loop, pushed + 1>> \in Tasks
    <2>1. ThreadsFor(size) \in 0..Cardinality(Workers) /\ Cardinality(Workers) \in Nat
      BY ThreadsForType, PoolAssumption, FS_CardinalityType DEF LoopInv, LoopTyping, LoopTypeOK
    <2> QED
      BY <2>1, LoopAssumption DEF LoopInv, LoopTyping, LoopTypeOK, PushedInOrder
  <1>2. \A w \in Workers : Uncounted(w) => status[task[w]] = "running"
    BY RunningRange DEF Uncounted
  <1>3. \A w \in Workers : Uncounted(w)' <=> Uncounted(w)
    BY DEF Uncounted
  <1> QED BY <1>1, <1>2, <1>3 DEF OpenRanges, LoopInv, Inv, Typing, TypeOK

-----------------------------------------------------------------------------
LEMMA CountType ==
    ASSUME LoopInv
    PROVE  Cardinality(OpenRanges) \in Nat /\ Cardinality(Workers) \in Nat
  BY PoolAssumption, FS_CardinalityType DEF LoopInv, CounterCounts

(* A step that leaves the ranges and Main's place in the call as they are  *)
LEMMA SameRanges ==
    ASSUME LoopInv, Inv', LoopTyping', OpenRanges' = OpenRanges,
           UNCHANGED <<loopPc, loop, size, pushed, threadsRunning>>,
           \A t \in Tasks : status[t] = "new" => status'[t] = "new"
    PROVE  LoopInv'
  <1>1. PushedInOrder'
    BY DEF LoopInv, PushedInOrder, ThreadsFor
  <1>2. OnlyThisCall' /\ CounterCounts'
    BY DEF LoopInv, OnlyThisCall, CounterCounts, ThreadsFor
  <1> QED BY <1>1, <1>2 DEF LoopInv

LEMMA LoopInvWorker ==
    ASSUME LoopInv, Inv', NEW w \in Workers,
           CallFunc(w) \/ Decrement(w) \/ NotifyLoop(w) \/ PoolStep(w)
    PROVE  LoopInv'
  <1>0. TypeOK /\ TypeOK'
    BY DEF LoopInv, Inv, Typing
  <1>1. CASE CallFunc(w)
    <2>1. OpenRanges' = OpenRanges
      <3>1. \A v \in Workers : Uncounted(v)' <=> Uncounted(v)
        BY <1>1 DEF CallFunc, NextBody, Uncounted, vars, LoopInv, LoopTyping, LoopTypeOK
      <3> QED BY <1>1, <3>1, OpenKept DEF CallFunc, vars
    <2>2. LoopTyping'
      BY <1>0, <1>1 DEF CallFunc, NextBody, vars, LoopInv, LoopTyping, LoopTypeOK
    <2> QED BY <1>1, <2>1, <2>2, SameRanges DEF CallFunc, vars
  <1>2. CASE Decrement(w)
    <2>1. task[w] \in OpenRanges /\ OpenRanges' = OpenRanges \ {task[w]}
      BY <1>2, OpenAfterDecrement
    <2>2. /\ IsFiniteSet(OpenRanges') /\ Cardinality(OpenRanges') = Cardinality(OpenRanges) - 1
          /\ Cardinality(OpenRanges') \in Nat
      BY <2>1, FS_RemoveElement, FS_CardinalityType DEF LoopInv, CounterCounts
    <2>3. loopPc # "idle"
      BY <2>1 DEF LoopInv, OnlyThisCall
    <2>4. ThreadsFor(size) \in 0..Cardinality(Workers)
      BY ThreadsForType DEF LoopInv, LoopTyping, LoopTypeOK
    <2>5. CounterCounts'
      BY <1>2, <2>2, <2>3, <2>4, CountType DEF Decrement, LoopInv, LoopTyping, LoopTypeOK,
         CounterCounts, ThreadsFor
    <2>6. threadsRunning - 1 \in 0..Cardinality(Workers)
      BY <2>2, <2>3, <2>4, CountType DEF LoopInv, LoopTyping, LoopTypeOK, CounterCounts, PushedInOrder
    <2>7. LoopTyping'
      BY <1>0, <1>2, <2>6 DEF Decrement, NextBody, vars, LoopInv, LoopTyping, LoopTypeOK
    <2>8. PushedInOrder' /\ OnlyThisCall'
      BY <1>2, <2>1 DEF Decrement, vars, LoopInv, PushedInOrder, OnlyThisCall, ThreadsFor
    <2> QED BY <2>5, <2>7, <2>8 DEF LoopInv
  <1>3. CASE NotifyLoop(w)
    <2>1. OpenRanges' = OpenRanges /\ LoopTyping'
      BY <1>3, OpenAfterNotifyLoop
    <2>2. task[w] \in Tasks /\ status[task[w]] = "running"
      BY <1>3, RunningRange DEF NotifyLoop, RunTask
    <2>3. \A t \in Tasks : status[t] = "new" => status'[t] = "new"
      BY <1>0, <1>3, <2>2 DEF NotifyLoop, RunTask, TypeOK
    <2>4. loopPc' = loopPc \/ (loopPc = "sleep" /\ loopPc' = "woken")
      BY <1>3 DEF NotifyLoop
    <2>5. UNCHANGED <<loop, size, pushed, threadsRunning>>
      BY <1>3 DEF NotifyLoop
    <2> QED
      BY <2>1, <2>3, <2>4, <2>5 DEF LoopInv, PushedInOrder, OnlyThisCall, CounterCounts, ThreadsFor
  <1>4. CASE PoolStep(w)
    <2>1. \A t \in Tasks : status[t] = "new" => status'[t] = "new"
      <3>1. Take(w) => Head(myTasks) \in Tasks /\ status[Head(myTasks)] = "queued"
        <4> SUFFICES ASSUME Take(w) PROVE Head(myTasks) \in Tasks /\ status[Head(myTasks)] = "queued"
          OBVIOUS
        <4>1. Len(myTasks) \in Nat \ {0} /\ Head(myTasks) = myTasks[1] /\ Head(myTasks) \in Tasks
          BY DEF Take, TypeOK, Carrying, LoopTyping, LoopInv, Inv, Typing
        <4> QED BY <4>1 DEF LoopInv, Inv, Places, OnePlace
      <3>2. Recheck(w) => task[w] \in Tasks /\ status[task[w]] = "taken"
        BY DEF Recheck, LoopInv, Inv, Typing, LoopTyping, Carrying, Holding, Places, StatusTells, TypeOK
      <3> QED
        BY <1>0, <1>4, <3>1, <3>2 DEF PoolStep, WorkerStep, EvalPredicate, Block, SpuriousWakeup,
           Take, Recheck, Finish, LoopInv, LoopTyping, TypeOK
    <2>2. OpenRanges' = OpenRanges /\ LoopTyping'
      BY <1>4, OpenAfterPoolStep
    <2> QED BY <1>4, <2>1, <2>2, SameRanges DEF PoolStep, loopVars
  <1> QED BY <1>1, <1>2, <1>3, <1>4

LEMMA LoopInvMain ==
    ASSUME LoopInv, Inv', LoopStep \/ LoopSpurious
    PROVE  LoopInv'
  <1>0. TypeOK /\ TypeOK'
    BY DEF LoopInv, Inv, Typing
  <1>1. ASSUME NEW n \in 1..MaxIterations, CallLoop(n) PROVE LoopInv'
    <2> USE <1>1 DEF CallLoop, vars
    <2>1. OpenRanges = {} /\ OpenRanges' = {}
      <3>1. OpenRanges' = OpenRanges
        BY OpenKept DEF Uncounted
      <3> QED BY <3>1 DEF LoopInv, OnlyThisCall
    <2>2. n \in Nat /\ n <= MaxIterations /\ ThreadsFor(n) \in 0..Cardinality(Workers)
      BY ThreadsForType, LoopAssumption
    <2>3. LoopTyping'
      BY <1>0, <2>2, CountType, LoopAssumption DEF LoopInv, LoopTyping, LoopTypeOK
    <2>4. PushedInOrder'
      <3>1. ASSUME NEW t \in Tasks, t[1] > loop PROVE status[t] = "new"
        BY <3>1 DEF LoopInv, PushedInOrder
      <3>2. \A t \in Tasks : t[1] \in Nat
        BY LoopAssumption
      <3>3. ASSUME NEW t \in Tasks, t[1] > loop + 1 \/ t[1] = loop + 1 PROVE status[t] = "new"
        BY <3>1, <3>2, <3>3 DEF LoopInv, LoopTyping, LoopTypeOK
      <3> QED BY <2>2, <3>3 DEF LoopInv, LoopTyping, LoopTypeOK, PushedInOrder, ThreadsFor
    <2>5. CounterCounts'
      BY <2>1, <2>2, FS_EmptySet DEF CounterCounts, ThreadsFor
    <2> QED BY <2>1, <2>3, <2>4, <2>5 DEF LoopInv, OnlyThisCall
  <1>2. CASE PushRange
    <2> DEFINE range == <<loop, pushed + 1>>
    <2>1. /\ range \in Tasks \ OpenRanges
          /\ OpenRanges' = OpenRanges \cup {range}
          /\ status' = [status EXCEPT ![range] = "queued"]
      BY <1>2, OpenAfterPush
    <2>2. IsFiniteSet(OpenRanges') /\ Cardinality(OpenRanges') = Cardinality(OpenRanges) + 1
      BY <2>1, FS_AddElement DEF LoopInv, CounterCounts
    <2>3. ThreadsFor(size) \in 0..Cardinality(Workers)
      BY ThreadsForType DEF LoopInv, LoopTyping, LoopTypeOK
    <2>4. UNCHANGED <<loopPc, loop, size, threadsRunning, body, ran, wpc, myShouldExit>>
          /\ loopPc = "push" /\ pushed' = pushed + 1 /\ pushed < ThreadsFor(size)
      BY <1>2 DEF PushRange, PushTask
    <2>5. LoopTyping'
      BY <1>0, <2>3, <2>4, CountType DEF LoopInv, LoopTyping, LoopTypeOK
    <2>6. PushedInOrder'
      <3>1. \A t \in Tasks : t[1] \in Nat /\ t[2] \in Nat /\ t = <<t[1], t[2]>>
        BY LoopAssumption, CountType
      <3>2. ASSUME NEW t \in Tasks, t[1] > loop \/ (t[1] = loop /\ t[2] > pushed + 1)
            PROVE  status'[t] = "new"
        <4>1. t # range /\ status[t] = "new"
          BY <3>1, <3>2 DEF LoopInv, LoopTyping, LoopTypeOK, PushedInOrder
        <4> QED BY <1>0, <2>1, <4>1 DEF TypeOK
      <3> QED
        BY <2>3, <2>4, <3>2, CountType DEF LoopInv, LoopTyping, LoopTypeOK, PushedInOrder, ThreadsFor
    <2>7. CounterCounts'
      BY <2>2, <2>3, <2>4, CountType DEF LoopInv, LoopTyping, LoopTypeOK, CounterCounts, ThreadsFor
    <2>8. OnlyThisCall'
      BY <2>1, <2>4 DEF LoopInv, OnlyThisCall
    <2> QED BY <2>5, <2>6, <2>7, <2>8 DEF LoopInv
  <1>3. CASE NotifyRange
    <2> USE <1>3 DEF NotifyRange, PushNotify, WakeOneWorker, GoTo, loopVars
    <2>1. OpenRanges' = OpenRanges
      BY <1>0, OpenKept DEF Uncounted, TypeOK
    <2>2. LoopTyping'
      BY <1>0 DEF LoopInv, LoopTyping, LoopTypeOK, TypeOK
    <2> QED BY <2>1, <2>2, SameRanges
  <1>4. CASE LoopEval \/ LoopBlock \/ LoopSpurious
    <2> USE <1>4 DEF LoopEval, LoopBlock, LoopSpurious, LoopDone, vars
    <2>1. OpenRanges' = OpenRanges
      BY OpenKept DEF Uncounted
    <2>2. ThreadsFor(size) \in 0..Cardinality(Workers)
      BY ThreadsForType DEF LoopInv, LoopTyping, LoopTypeOK
    <2>3. loopPc' = "idle" => OpenRanges = {}
      <3>1. loopPc' = "idle" => pushed = ThreadsFor(size) /\ threadsRunning = 0 /\ loopPc # "idle"
        BY DEF LoopInv, PushedInOrder
      <3>2. loopPc' = "idle" => Cardinality(OpenRanges) = 0
        BY <2>2, <3>1, CountType DEF LoopInv, CounterCounts
      <3> QED BY <3>2, FS_EmptySet DEF LoopInv, CounterCounts
    <2>4. LoopTyping'
      BY <1>0 DEF LoopInv, LoopTyping, LoopTypeOK
    <2>5. PushedInOrder' /\ OnlyThisCall' /\ CounterCounts'
      BY <2>1, <2>3 DEF LoopInv, PushedInOrder, OnlyThisCall, CounterCounts, ThreadsFor
    <2> QED BY <2>4, <2>5 DEF LoopInv
  <1> QED BY <1>1, <1>2, <1>3, <1>4 DEF LoopStep

LEMMA LoopInvNext == LoopInv /\ [LoopNext]_allVars => LoopInv'
  <1> SUFFICES ASSUME LoopInv, [LoopNext]_allVars PROVE LoopInv'
    OBVIOUS
  <1>1. Inv'
    BY LoopStepIsPoolStep, InvNext DEF LoopInv
  <1>2. CASE UNCHANGED allVars
    BY <1>2 DEF allVars, loopVars, vars, LoopInv, Inv, Typing, TypeOK, Carrying, OneHolder, Holding,
       WorkerHolds, CallerHolds, Places, OnePlace, StatusTells, Counting, CounterIsExact, Busy,
       Dropped, JoinedIsExited, LoopTyping, LoopTypeOK, PushedInOrder, OnlyThisCall, OpenRanges,
       Uncounted, CounterCounts, ThreadsFor
  <1> QED BY <1>1, <1>2, LoopInvWorker, LoopInvMain DEF LoopNext

LEMMA LoopSpecInv == LoopSpec => []LoopInv
  BY LoopInvInit, LoopInvNext, PTL DEF LoopSpec

-----------------------------------------------------------------------------
(* The ranges: range i ends at i times the normal length, plus one for     *)
(* each of the first ranges that is longer.                                *)
LEMMA DivisionFacts ==
    ASSUME NEW n \in Nat, NEW m \in Nat \ {0}, m <= n
    PROVE  /\ n \div m \in Nat \ {0} /\ n - (n \div m) * m \in 0..(m - 1)
  <1>1. n \div m \in Nat /\ n = m * (n \div m) + (n % m) /\ n % m \in 0..(m - 1)
    OBVIOUS
  <1> DEFINE d == n \div m
             e == n % m
  <1> HIDE DEF d, e
  <1>2. d \in Nat /\ n = m * d + e /\ e \in 0..(m - 1)
    BY <1>1 DEF d, e
  <1>3. d # 0
    BY <1>2
  <1>4. d * m = m * d
    BY <1>2
  <1>5. n - d * m = e
    BY <1>2, <1>4
  <1> QED BY <1>2, <1>3, <1>5 DEF d

LEMMA RangeEndRecursion ==
    ASSUME NEW n, ThreadsFor(n) \in Nat, n \div ThreadsFor(n) \in Nat,
           n - (n \div ThreadsFor(n)) * ThreadsFor(n) \in Nat
    PROVE  \A i \in 1..ThreadsFor(n) :
              RangeEnd(n)[i] = i * (n \div ThreadsFor(n))
                  + SmallerOf(i, n - (n \div ThreadsFor(n)) * ThreadsFor(n))
  <1> DEFINE m == ThreadsFor(n)
             nb == n \div m
             rem == n - nb * m
             K == RangeEnd(n)
  <1>unfolded. K = CHOOSE F : F = [i \in 1..m |-> (IF i = 1 THEN 0 ELSE F[i - 1])
                                 + (IF LongRange(i, rem) THEN nb + 1 ELSE nb)]
    BY DEF RangeEnd
  <1>numbers. m \in Nat /\ nb \in Nat /\ rem \in Nat
    OBVIOUS
  <1> HIDE DEF m, nb, rem, K
  <1> SUFFICES \A i \in 1..m : K[i] = i * nb + SmallerOf(i, rem)
    BY DEF m, nb, rem, K
  <1> USE <1>numbers
  <1> DEFINE Body(F, i) == (IF i = 1 THEN 0 ELSE F[i - 1]) + (IF LongRange(i, rem) THEN nb + 1 ELSE nb)
             G == [i \in 1..m |-> i * nb + SmallerOf(i, rem)]
  <1>1. ASSUME NEW i \in 1..m PROVE G[i] = Body(G, i)
    <2>1. G[i] = i * nb + SmallerOf(i, rem)
      OBVIOUS
    <2>2. CASE i = 1
      BY <2>1, <2>2 DEF SmallerOf, LongRange
    <2>3. CASE i # 1
      <3>1. G[i - 1] = (i - 1) * nb + SmallerOf(i - 1, rem)
        BY <2>3
      <3>2. (i - 1) * nb + nb = i * nb
        OBVIOUS
      <3>3. SmallerOf(i, rem) = SmallerOf(i - 1, rem) + (IF LongRange(i, rem) THEN 1 ELSE 0)
        BY DEF SmallerOf, LongRange
      <3>4. (i - 1) * nb \in Nat /\ SmallerOf(i - 1, rem) \in Nat
        BY <2>3 DEF SmallerOf
      <3> HIDE DEF G
      <3>5. Body(G, i) = G[i - 1] + (IF LongRange(i, rem) THEN nb + 1 ELSE nb)
        BY <2>3
      <3>6. i * nb \in Nat /\ SmallerOf(i, rem) \in Nat
        BY DEF SmallerOf
      <3> DEFINE extra == IF LongRange(i, rem) THEN 1 ELSE 0
      <3>7. (IF LongRange(i, rem) THEN nb + 1 ELSE nb) = nb + extra /\ extra \in Nat
        OBVIOUS
      <3>8. Body(G, i) = G[i - 1] + (nb + extra)
        <4> HIDE DEF Body, extra
        <4> QED BY <3>5, <3>7
      <3>9. SmallerOf(i, rem) = SmallerOf(i - 1, rem) + extra
        BY <3>3
      <3> HIDE DEF Body, extra, SmallerOf
      <3> QED BY <2>1, <3>1, <3>2, <3>4, <3>6, <3>7, <3>8, <3>9
    <2> QED BY <2>2, <2>3
  <1>2. G = [i \in 1..m |-> Body(G, i)]
    <2>1. G = [i \in 1..m |-> G[i]]
      OBVIOUS
    <2> HIDE DEF G, Body
    <2> QED BY <1>1, <2>1
  <1>3. K = [i \in 1..m |-> Body(K, i)]
    <2>1. K = CHOOSE F : F = [i \in 1..m |-> Body(F, i)]
      BY <1>unfolded
    <2> HIDE DEF Body, G
    <2> QED BY <1>2, <2>1
  <1>4. \A i \in 1..m : K[i] = Body(K, i)
    <2> HIDE DEF Body
    <2> QED BY <1>3
  <1> DEFINE S == {i \in Nat : i \in 1..m => K[i] = G[i]}
  <1>5. 0 \in S
    OBVIOUS
  <1>6. ASSUME NEW i \in Nat, i \in S PROVE i + 1 \in S
    <2> SUFFICES ASSUME i + 1 \in 1..m PROVE K[i + 1] = G[i + 1]
      OBVIOUS
    <2>1. K[i + 1] = Body(K, i + 1) /\ G[i + 1] = Body(G, i + 1)
      <3> HIDE DEF Body, G
      <3> QED BY <1>1, <1>4
    <2>2. CASE i = 0
      <3>1. Body(K, i + 1) = Body(G, i + 1)
        BY <2>2
      <3> QED BY <2>1, <3>1
    <2>3. CASE i # 0
      <3>1. i \in 1..m /\ (i + 1) - 1 = i /\ i + 1 # 1
        BY <2>3
      <3>2. K[i] = G[i]
        BY <1>6, <3>1
      <3> HIDE DEF G
      <3>3. Body(K, i + 1) = Body(G, i + 1)
        BY <3>1, <3>2
      <3> QED BY <2>1, <3>3
    <2> QED BY <2>2, <2>3
  <1>7. Nat \subseteq S
    <2> HIDE DEF S
    <2> QED BY <1>5, <1>6, SetInduction
  <1>8. ASSUME NEW i \in 1..m PROVE K[i] = G[i]
    <2>1. i \in S
      <3> HIDE DEF S
      <3> QED BY <1>7
    <2> HIDE DEF G
    <2> QED BY <2>1
  <1> QED BY <1>8

LEMMA RangeEndIs ==
    ASSUME Workers # {}, NEW n \in Nat \ {0}
    PROVE  LET m == ThreadsFor(n)
               nb == n \div m
               rem == n - nb * m
           IN  /\ m \in 1..n /\ nb \in Nat \ {0} /\ rem \in 0..(m - 1) /\ n = m * nb + rem
               /\ \A i \in 1..m : RangeEnd(n)[i] = i * nb + SmallerOf(i, rem)
  <1> DEFINE m == ThreadsFor(n)
             nb == n \div m
             rem == n - nb * m
  <1>1. m \in 1..n
    <2>1. Cardinality(Workers) \in Nat /\ Cardinality(Workers) # 0
      BY PoolAssumption, FS_CardinalityType, FS_EmptySet
    <2> QED BY <2>1 DEF ThreadsFor, SmallerOf
  <1>2. nb \in Nat \ {0} /\ rem \in 0..(m - 1)
    <2> HIDE DEF m
    <2>1. m \in Nat \ {0} /\ m <= n /\ n \in Nat
      BY <1>1
    <2> QED BY <2>1, DivisionFacts
  <1>4. \A i \in 1..m : RangeEnd(n)[i] = i * nb + SmallerOf(i, rem)
    <2>1. m \in Nat /\ nb \in Nat /\ rem \in Nat
      <3> HIDE DEF m, nb, rem
      <3> QED BY <1>1, <1>2
    <2> QED BY <2>1, RangeEndRecursion
  <1>5. n = m * nb + rem
    <2> HIDE DEF m, nb
    <2>1. m * nb \in Nat /\ nb * m = m * nb
      BY <1>1, <1>2
    <2> QED BY <2>1
  <1> QED BY <1>1, <1>2, <1>4, <1>5

(* Each index is in exactly one range.                                     *)
LEMMA OneRange ==
    ASSUME Workers # {}, NEW n \in Nat \ {0}, NEW x \in 0..(n - 1)
    PROVE  /\ \E i \in 1..ThreadsFor(n) : x \in IndicesOf(n, i)
           /\ \A i, j \in 1..ThreadsFor(n) : x \in IndicesOf(n, i) /\ x \in IndicesOf(n, j) => i = j
  <1> DEFINE m == ThreadsFor(n)
             nb == n \div m
             rem == n - nb * m
             end == RangeEnd(n)
  <1>1. /\ m \in 1..n /\ nb \in Nat \ {0} /\ rem \in 0..(m - 1) /\ n = m * nb + rem
        /\ \A i \in 1..m : end[i] = i * nb + SmallerOf(i, rem)
    BY RangeEndIs
  <1>2. \A i \in 1..m : x \in IndicesOf(n, i) <=> x < end[i] /\ (i > 1 => x >= end[i - 1])
    BY DEF IndicesOf
  <1> HIDE DEF m, nb, rem, end
  <1>3. \A i \in 1..m : end[i] \in Nat /\ i \in Nat /\ i * nb \in Nat
    BY <1>1 DEF SmallerOf
  <1>4. end[m] = n
    <2>1. m \in 1..m /\ SmallerOf(m, rem) = rem
      BY <1>1 DEF SmallerOf
    <2> QED BY <1>1, <2>1
  <1>5. ASSUME NEW i \in 1..m, NEW j \in 1..m, i <= j PROVE end[i] <= end[j]
    <2>1. i * nb <= j * nb /\ i * nb \in Nat /\ j * nb \in Nat
      <3>1. PICK k \in Nat : j = i + k
        BY <1>1, <1>5, j - i \in Nat
      <3>2. j * nb = i * nb + k * nb /\ k * nb \in Nat /\ i * nb \in Nat
        BY <1>1, <3>1
      <3> QED BY <3>2
    <2>2. SmallerOf(i, rem) <= SmallerOf(j, rem) /\ SmallerOf(i, rem) \in Nat /\ SmallerOf(j, rem) \in Nat
      BY <1>1, <1>3, <1>5 DEF SmallerOf
    <2> HIDE DEF SmallerOf
    <2> QED BY <1>1, <2>1, <2>2
  <1>6. \E i \in 1..m : x \in IndicesOf(n, i)
    <2> DEFINE S == {i \in 1..m : x < end[i]}
    <2>1. S \subseteq Nat /\ S # {}
      <3>1. m \in S
        BY <1>1, <1>4
      <3> QED BY <3>1
    <2>2. PICK i \in S : \A j \in S : i <= j
      <3> HIDE DEF S
      <3> QED BY <2>1, LeastNumber
    <2>3. ASSUME i > 1 PROVE x >= end[i - 1]
      <3>1. i - 1 \in 1..m /\ i - 1 \notin S
        BY <1>1, <2>2, <2>3
      <3> QED BY <1>3, <3>1
    <2> QED BY <1>2, <2>2, <2>3
  <1>7. ASSUME NEW i \in 1..m, NEW j \in 1..m, x \in IndicesOf(n, i), x \in IndicesOf(n, j), i < j
        PROVE  FALSE
    <2>1. j - 1 \in 1..m /\ i <= j - 1 /\ j > 1
      BY <1>1, <1>7
    <2>2. end[i] <= end[j - 1] /\ end[i] \in Nat /\ end[j - 1] \in Nat
      BY <1>3, <1>5, <2>1
    <2>3. x < end[i] /\ x >= end[j - 1]
      BY <1>2, <1>7, <2>1
    <2> QED BY <2>2, <2>3
  <1>8. ASSUME NEW i \in 1..m, NEW j \in 1..m, x \in IndicesOf(n, i), x \in IndicesOf(n, j) PROVE i = j
    <2>1. i < j \/ j < i \/ i = j
      BY <1>1
    <2> QED BY <1>7, <1>8, <2>1
  <1> QED BY <1>6, <1>8 DEF m

-----------------------------------------------------------------------------
(* The ranges whose lambda has called the function.                        *)
CalledRanges ==
    {t \in Tasks : status[t] = "done" \/ \E w \in Workers : task[w] = t /\ body[w] # "f"}

(* No range is thrown away, a call has pushed its ranges in order, and the *)
(* function ran once for the indices of the ranges whose lambda called it. *)
NoneDropped == \A t \in Tasks : status[t] # "dropped"

PushedAreKnown == \A i \in 1..pushed : status[<<loop, i>>] # "new"

RanIsCalled ==
    \A x \in DOMAIN ran :
        /\ x >= size => ran[x] = 0
        /\ \A i \in 1..ThreadsFor(size) : x \in IndicesOf(size, i) =>
              ran[x] = IF <<loop, i>> \in CalledRanges THEN 1 ELSE 0

RanOnce ==
    /\ NoneDropped
    /\ loopPc # "idle" => size \in 1..MaxIterations /\ PushedAreKnown /\ RanIsCalled

LEMMA RangesAreTasks ==
    ASSUME LoopInv, loopPc # "idle", NEW i \in 1..ThreadsFor(size)
    PROVE  <<loop, i>> \in Tasks
  <1>1. ThreadsFor(size) \in 0..Cardinality(Workers) /\ Cardinality(Workers) \in Nat
    BY ThreadsForType, PoolAssumption, FS_CardinalityType DEF LoopInv, LoopTyping, LoopTypeOK
  <1> QED BY <1>1, LoopAssumption DEF LoopInv, LoopTyping, LoopTypeOK, PushedInOrder

(* A step that calls nobody's function and ends no range.                  *)
LEMMA RanOnceKept ==
    ASSUME RanOnce, UNCHANGED <<loop, size, ran>>, loopPc' # "idle" => loopPc # "idle",
           CalledRanges' = CalledRanges, NoneDropped',
           loopPc' # "idle" => PushedAreKnown'
    PROVE  RanOnce'
  <1>1. RanIsCalled => RanIsCalled'
    BY DEF RanIsCalled, ThreadsFor, IndicesOf, RangeEnd
  <1> QED BY <1>1 DEF RanOnce

LEMMA CalledKept ==
    ASSUME UNCHANGED <<status, task, body>>
    PROVE  CalledRanges' = CalledRanges
  BY DEF CalledRanges

LEMMA RanOnceInit == LoopInit => RanOnce
  BY DEF LoopInit, Init, RanOnce, NoneDropped

LEMMA RanOnceMain ==
    ASSUME LoopInv, RanOnce, LoopStep \/ LoopSpurious
    PROVE  RanOnce'
  <1>1. ASSUME NEW n \in 1..MaxIterations, CallLoop(n) PROVE RanOnce'
    <2> USE <1>1 DEF CallLoop, vars
    <2>1. NoneDropped' /\ size' \in 1..MaxIterations
      BY LoopAssumption DEF RanOnce, NoneDropped
    <2>2. PushedAreKnown'
      BY DEF PushedAreKnown
    <2>3. \A i : <<loop', i>> \notin CalledRanges'
      <3>1. ASSUME NEW i, <<loop', i>> \in Tasks PROVE status[<<loop', i>>] = "new"
        BY <3>1 DEF LoopInv, LoopTyping, LoopTypeOK, PushedInOrder
      <3>2. ASSUME NEW w \in Workers, body[w] # "f" PROVE task[w] \in Tasks /\ status[task[w]] = "running"
        BY <3>2, RunningRange DEF LoopInv, LoopTyping
      <3> QED BY <3>1, <3>2 DEF CalledRanges
    <2>4. RanIsCalled'
      <3>1. \A x \in DOMAIN ran' : ran'[x] = 0
        OBVIOUS
      <3> QED BY <2>3, <3>1 DEF RanIsCalled
    <2> QED BY <2>1, <2>2, <2>4 DEF RanOnce
  <1>2. CASE PushRange
    <2> DEFINE range == <<loop, pushed + 1>>
    <2>1. range \in Tasks \ OpenRanges /\ status' = [status EXCEPT ![range] = "queued"]
      BY <1>2, OpenAfterPush
    <2>2. UNCHANGED <<loopPc, loop, size, ran, task, body>> /\ pushed' = pushed + 1 /\ status[range] = "new"
      BY <1>2 DEF PushRange, PushTask
    <2>3. status \in [Tasks -> {"new", "queued", "taken", "running", "done", "dropped"}] /\ pushed \in Nat
      BY PoolAssumption, FS_CardinalityType
         DEF LoopInv, Inv, Typing, TypeOK, LoopTyping, LoopTypeOK
    <2>4. CalledRanges' = CalledRanges
      BY <2>1, <2>2, <2>3 DEF CalledRanges
    <2>5. NoneDropped'
      BY <2>1, <2>3 DEF RanOnce, NoneDropped
    <2>6. ASSUME loopPc' # "idle" PROVE PushedAreKnown'
      <3> SUFFICES ASSUME NEW i \in 1..(pushed + 1) PROVE status'[<<loop, i>>] # "new"
        BY <2>2 DEF PushedAreKnown
      <3>1. CASE i = pushed + 1
        BY <2>1, <2>3, <3>1
      <3>2. CASE i # pushed + 1
        <4>1. i \in 1..pushed /\ <<loop, i>> # range
          BY <2>3, <3>2
        <4>2. status[<<loop, i>>] # "new"
          BY <2>2, <2>6, <4>1 DEF RanOnce, PushedAreKnown
        <4> QED BY <2>1, <2>3, <4>1, <4>2
      <3> QED BY <3>1, <3>2
    <2> QED BY <2>2, <2>4, <2>5, <2>6, RanOnceKept
  <1>3. ASSUME NotifyRange \/ LoopEval \/ LoopBlock \/ LoopSpurious PROVE RanOnce'
    <2>1. UNCHANGED <<loop, size, pushed, ran, status, task, body>>
          /\ (loopPc' # "idle" => loopPc # "idle")
      BY <1>3 DEF NotifyRange, PushNotify, LoopEval, LoopBlock, LoopSpurious, loopVars, vars
    <2>2. CalledRanges' = CalledRanges
      BY <2>1, CalledKept
    <2>3. NoneDropped' /\ (loopPc' # "idle" => PushedAreKnown')
      BY <2>1 DEF RanOnce, NoneDropped, PushedAreKnown
    <2> QED BY <2>1, <2>2, <2>3, RanOnceKept
  <1> QED BY <1>1, <1>2, <1>3 DEF LoopStep

LEMMA RanOnceWorker ==
    ASSUME Workers # {}, LoopInv, RanOnce, NEW w \in Workers,
           CallFunc(w) \/ Decrement(w) \/ NotifyLoop(w) \/ PoolStep(w)
    PROVE  RanOnce'
  <1>0. /\ status \in [Tasks -> {"new", "queued", "taken", "running", "done", "dropped"}]
        /\ task \in [Workers -> Tasks \cup {NoTask}]
        /\ body \in [Workers -> {"f", "dec", "notify"}] /\ NoTask \notin Tasks
    BY PoolAssumption DEF LoopInv, Inv, Typing, TypeOK, LoopTyping, LoopTypeOK
  <1>1. CASE CallFunc(w)
    <2> DEFINE range == task[w]
    <2>1. /\ range \in Tasks /\ status[range] = "running"
          /\ \A v \in Workers : task[v] = range => v = w
      BY <1>1, RunningRange DEF CallFunc
    <2>2. range \in OpenRanges /\ loopPc # "idle" /\ range[1] = loop
      BY <1>1, <2>1 DEF CallFunc, OpenRanges, Uncounted, LoopInv, OnlyThisCall
    <2>3. /\ UNCHANGED <<status, task, loopPc, loop, size, pushed>>
          /\ body' = [body EXCEPT ![w] = "dec"] /\ body[w] = "f"
          /\ ran' = [x \in DOMAIN ran |-> IF x \in IndicesOf(size, range[2]) THEN ran[x] + 1 ELSE ran[x]]
      BY <1>1 DEF CallFunc, NextBody, vars
    <2>4. range \notin CalledRanges /\ CalledRanges' = CalledRanges \cup {range}
      BY <1>0, <2>1, <2>3 DEF CalledRanges
    <2>5. range[2] \in 1..ThreadsFor(size) /\ range = <<loop, range[2]>>
      <3>1. range = <<range[1], range[2]>> /\ range[2] \in 1..Cardinality(Workers)
        BY <2>1, LoopAssumption
      <3>2. ~(range[2] > pushed)
        BY <2>1, <2>2 DEF LoopInv, PushedInOrder
      <3>3. pushed <= ThreadsFor(size) /\ pushed \in Nat /\ ThreadsFor(size) \in Nat
        BY <2>2, ThreadsForType, PoolAssumption, FS_CardinalityType
           DEF LoopInv, PushedInOrder, LoopTyping, LoopTypeOK
      <3> QED BY <2>2, <3>1, <3>2, <3>3, CountType
    <2>6. size \in 1..MaxIterations /\ size \in Nat \ {0} /\ RanIsCalled
      BY <2>2, LoopAssumption DEF RanOnce
    <2>7. RanIsCalled'
      <3> SUFFICES ASSUME NEW x \in DOMAIN ran
                   PROVE  /\ x >= size => ran'[x] = 0
                          /\ \A i \in 1..ThreadsFor(size) : x \in IndicesOf(size, i) =>
                                ran'[x] = IF <<loop, i>> \in CalledRanges' THEN 1 ELSE 0
        BY <2>3 DEF RanIsCalled
      <3>1. x \in Nat
        BY LoopAssumption DEF LoopInv, LoopTyping, LoopTypeOK
      <3>2. ASSUME NEW i, x \in IndicesOf(size, i) PROVE x < size /\ x \in 0..(size - 1)
        BY <2>6, <3>1, <3>2 DEF IndicesOf
      <3>3. x >= size => ran'[x] = 0
        BY <2>3, <2>6, <3>1, <3>2 DEF RanIsCalled
      <3>4. ASSUME NEW i \in 1..ThreadsFor(size), x \in IndicesOf(size, i)
            PROVE  ran'[x] = IF <<loop, i>> \in CalledRanges' THEN 1 ELSE 0
        <4>1. x \in IndicesOf(size, range[2]) <=> i = range[2]
          BY <2>5, <2>6, <3>2, <3>4, OneRange
        <4>2. ran[x] = IF <<loop, i>> \in CalledRanges THEN 1 ELSE 0
          BY <2>6, <3>4 DEF RanIsCalled
        <4>3. CASE i = range[2]
          BY <2>3, <2>4, <2>5, <4>1, <4>2, <4>3
        <4>4. CASE i # range[2]
          <5>1. <<loop, i>> # range
            BY <2>5, <4>4
          <5> QED BY <2>3, <2>4, <4>1, <4>2, <4>4, <5>1
        <4> QED BY <4>3, <4>4
      <3> QED BY <3>3, <3>4
    <2>8. NoneDropped' /\ PushedAreKnown'
      BY <2>2, <2>3 DEF RanOnce, NoneDropped, PushedAreKnown
    <2> QED BY <2>3, <2>6, <2>7, <2>8 DEF RanOnce
  <1>2. CASE Decrement(w)
    <2>1. UNCHANGED <<loopPc, loop, size, pushed, ran, status, task>>
          /\ body' = [body EXCEPT ![w] = "notify"] /\ body[w] = "dec"
      BY <1>2 DEF Decrement, NextBody, vars
    <2>2. CalledRanges' = CalledRanges
      BY <1>0, <2>1 DEF CalledRanges
    <2>3. NoneDropped' /\ (loopPc' # "idle" => PushedAreKnown')
      BY <2>1 DEF RanOnce, NoneDropped, PushedAreKnown
    <2> QED BY <2>1, <2>2, <2>3, RanOnceKept
  <1>3. CASE NotifyLoop(w)
    <2>1. /\ task[w] \in Tasks /\ status[task[w]] = "running"
          /\ \A v \in Workers : task[v] = task[w] => v = w
      BY <1>3, RunningRange DEF NotifyLoop, RunTask
    <2>2. /\ UNCHANGED <<loop, size, pushed, ran, task>> /\ (loopPc' # "idle" => loopPc # "idle")
          /\ body' = [body EXCEPT ![w] = "f"] /\ body[w] = "notify"
          /\ status' = [status EXCEPT ![task[w]] = "done"]
      BY <1>3 DEF NotifyLoop, NextBody, RunTask
    <2>3. CalledRanges' = CalledRanges
      BY <1>0, <2>1, <2>2 DEF CalledRanges
    <2>4. NoneDropped' /\ (loopPc' # "idle" => PushedAreKnown')
      BY <1>0, <2>1, <2>2 DEF RanOnce, NoneDropped, PushedAreKnown
    <2> QED BY <2>2, <2>3, <2>4, RanOnceKept
  <1>4. CASE PoolStep(w)
    <2>1. UNCHANGED loopVars /\ ~myShouldExit
      BY <1>4 DEF PoolStep, LoopInv, LoopTyping
    <2>2. ASSUME Take(w) PROVE /\ Head(myTasks) \in Tasks /\ status[Head(myTasks)] = "queued"
                               /\ status' = [status EXCEPT ![Head(myTasks)] = "taken"]
                               /\ \A v \in Workers : body[v] # "f" => task'[v] = task[v]
                               /\ task[w] = NoTask /\ body[w] = "f"
                               /\ task' = [task EXCEPT ![w] = Head(myTasks)]
      <3>1. Len(myTasks) \in Nat \ {0} /\ Head(myTasks) = myTasks[1] /\ Head(myTasks) \in Tasks
        BY <2>1, <2>2 DEF Take, TypeOK, Carrying, LoopInv, Inv, Typing
      <3>2. status[Head(myTasks)] = "queued"
        BY <3>1 DEF LoopInv, Inv, Places, OnePlace
      <3>3. body[w] = "f" /\ task[w] = NoTask
        BY <2>2 DEF Take, LoopInv, LoopTyping, Inv, Typing, Carrying, Holding
      <3> QED BY <1>0, <2>1, <2>2, <3>1, <3>2, <3>3 DEF Take
    <2>3. ASSUME Recheck(w) PROVE /\ task[w] \in Tasks /\ status[task[w]] = "taken"
                                  /\ status' = [status EXCEPT ![task[w]] = "running"]
                                  /\ UNCHANGED task
      BY <2>1, <2>3 DEF Recheck, LoopInv, Inv, Typing, Carrying, Holding, Places, StatusTells, TypeOK
    <2>4. ASSUME Finish(w) PROVE /\ body[w] = "f" /\ UNCHANGED status
                                 /\ task' = [task EXCEPT ![w] = NoTask]
      BY <2>4 DEF Finish, LoopInv, LoopTyping
    <2>5. ASSUME EvalPredicate(w) \/ Block(w) \/ SpuriousWakeup(w) PROVE UNCHANGED <<status, task>>
      BY <2>5 DEF EvalPredicate, Block, SpuriousWakeup
    <2>6. Take(w) \/ Recheck(w) \/ Finish(w) \/ EvalPredicate(w) \/ Block(w) \/ SpuriousWakeup(w)
      BY <1>4 DEF PoolStep, WorkerStep
    <2>7. CalledRanges' = CalledRanges
      <3>1. CASE Take(w)
        BY <1>0, <2>1, <2>2, <3>1 DEF CalledRanges, loopVars
      <3>2. CASE Recheck(w)
        BY <1>0, <2>1, <2>3, <3>2 DEF CalledRanges, loopVars
      <3>3. CASE Finish(w)
        BY <1>0, <2>1, <2>4, <3>3 DEF CalledRanges, loopVars
      <3>4. CASE EvalPredicate(w) \/ Block(w) \/ SpuriousWakeup(w)
        BY <2>1, <2>5, <3>4, CalledKept DEF loopVars
      <3> QED BY <2>6, <3>1, <3>2, <3>3, <3>4
    <2>8. \A t \in Tasks : status'[t] = status[t] \/ status'[t] \in {"taken", "running"}
      BY <1>0, <2>2, <2>3, <2>4, <2>5, <2>6
    <2>9. NoneDropped'
      BY <2>8 DEF RanOnce, NoneDropped
    <2>10. ASSUME loopPc' # "idle" PROVE PushedAreKnown'
      <3> SUFFICES ASSUME NEW i \in 1..pushed PROVE status'[<<loop, i>>] # "new"
        BY <2>1 DEF PushedAreKnown, loopVars
      <3>1. loopPc # "idle" /\ status[<<loop, i>>] # "new"
        BY <2>1, <2>10 DEF RanOnce, PushedAreKnown, loopVars
      <3>2. pushed <= ThreadsFor(size) /\ pushed \in Nat /\ ThreadsFor(size) \in Nat
        BY <3>1, ThreadsForType, PoolAssumption, FS_CardinalityType
           DEF LoopInv, PushedInOrder, LoopTyping, LoopTypeOK
      <3>3. <<loop, i>> \in Tasks
        BY <3>1, <3>2, RangesAreTasks
      <3> QED BY <2>8, <3>1, <3>3
    <2> QED BY <2>1, <2>7, <2>9, <2>10, RanOnceKept DEF loopVars
  <1> QED BY <1>1, <1>2, <1>3, <1>4

LEMMA RanOnceNext == Workers # {} /\ LoopInv /\ RanOnce /\ [LoopNext]_allVars => RanOnce'
  <1> SUFFICES ASSUME Workers # {}, LoopInv, RanOnce, [LoopNext]_allVars PROVE RanOnce'
    OBVIOUS
  <1>1. CASE UNCHANGED allVars
    <2>1. UNCHANGED <<loopPc, loop, size, pushed, ran, status, task, body>>
      BY <1>1 DEF allVars, loopVars, vars
    <2>2. CalledRanges' = CalledRanges
      BY <2>1, CalledKept
    <2>3. NoneDropped' /\ (loopPc' # "idle" => PushedAreKnown')
      BY <2>1 DEF RanOnce, NoneDropped, PushedAreKnown
    <2> QED BY <2>1, <2>2, <2>3, RanOnceKept
  <1> QED BY <1>1, RanOnceMain, RanOnceWorker DEF LoopNext

(* When ParallellLoop returns, all its ranges are pushed and closed.       *)
LEMMA ReturnIsComplete ==
    ASSUME Workers # {}, LoopInv, RanOnce, [LoopNext]_allVars, loopPc # "idle", loopPc' = "idle"
    PROVE  \A x \in DOMAIN ran : ran[x] = IF x < size THEN 1 ELSE 0
  <1>1. LoopEval /\ LoopDone
    BY DEF LoopNext, LoopStep, CallLoop, PushRange, NotifyRange, LoopEval, LoopBlock, LoopSpurious,
           CallFunc, Decrement, NotifyLoop, PoolStep, allVars, loopVars
  <1>2. threadsRunning = 0 /\ pushed = ThreadsFor(size)
    BY <1>1 DEF LoopDone, LoopEval, LoopInv, PushedInOrder
  <1>3. OpenRanges = {}
    <2>1. ThreadsFor(size) \in Nat
      BY ThreadsForType DEF LoopInv, LoopTyping, LoopTypeOK
    <2>2. Cardinality(OpenRanges) = 0
      BY <1>2, <2>1, CountType DEF LoopInv, CounterCounts
    <2> QED BY <2>2, FS_EmptySet DEF LoopInv, CounterCounts
  <1>4. ASSUME NEW i \in 1..ThreadsFor(size) PROVE <<loop, i>> \in CalledRanges
    <2>1. <<loop, i>> \in Tasks
      BY RangesAreTasks
    <2>2. status[<<loop, i>>] # "new" /\ status[<<loop, i>>] # "dropped"
      BY <1>2, <2>1 DEF RanOnce, PushedAreKnown, NoneDropped
    <2>3. status[<<loop, i>>] \notin {"queued", "taken"}
      BY <1>3, <2>1 DEF OpenRanges
    <2>4. status[<<loop, i>>] \in {"running", "done"}
      BY <2>1, <2>2, <2>3 DEF LoopInv, Inv, Typing, TypeOK
    <2>5. ASSUME status[<<loop, i>>] = "running" PROVE <<loop, i>> \in CalledRanges
      <3>1. PICK w \in Workers : task[w] = <<loop, i>>
        BY <2>1, <2>5 DEF LoopInv, Inv, Places, StatusTells
      <3>2. wpc[w] = "run"
        BY <2>1, <2>5, <3>1, PoolAssumption DEF LoopInv, Inv, Typing, Carrying, Places, StatusTells, Holding
      <3>3. ~Uncounted(w)
        BY <1>3, <2>1, <3>1 DEF OpenRanges
      <3> QED BY <2>1, <3>1, <3>2, <3>3 DEF Uncounted, CalledRanges
    <2> QED BY <2>1, <2>4, <2>5 DEF CalledRanges
  <1>5. size \in 1..MaxIterations /\ size \in Nat \ {0} /\ RanIsCalled
    BY LoopAssumption DEF RanOnce
  <1> SUFFICES ASSUME NEW x \in DOMAIN ran PROVE ran[x] = IF x < size THEN 1 ELSE 0
    OBVIOUS
  <1>6. x \in Nat
    BY LoopAssumption DEF LoopInv, LoopTyping, LoopTypeOK
  <1>7. CASE x >= size
    BY <1>5, <1>6, <1>7 DEF RanIsCalled
  <1>8. CASE x < size
    <2>1. x \in 0..(size - 1)
      BY <1>5, <1>6, <1>8
    <2>2. PICK i \in 1..ThreadsFor(size) : x \in IndicesOf(size, i)
      BY <1>5, <2>1, OneRange
    <2>3. ran[x] = 1
      BY <1>4, <1>5, <2>2 DEF RanIsCalled
    <2> QED BY <1>8, <2>3
  <1> QED BY <1>5, <1>6, <1>7, <1>8

-----------------------------------------------------------------------------
(* ParallellLoop pushes each range once and through PushTask only, so that *)
(* everything the pool promises holds while loops run on it.               *)
THEOREM LoopUsesPool == LoopSpec => Spec
  <1>1. LoopInit => Init
    BY DEF LoopInit
  <1> QED BY <1>1, LoopStepIsPoolStep, LoopSpecInv, PTL DEF LoopSpec, Spec

(* The local counter threadsRunning of a call never falls below zero and   *)
(* never exceeds the number of workers.                                    *)
THEOREM LoopTyped == LoopSpec => []LoopTypeOK
  <1>1. LoopInv => LoopTypeOK
    BY DEF LoopInv, LoopTyping
  <1> QED BY <1>1, LoopSpecInv, PTL

(* ParallellLoop never returns while a lambda that it pushed has still to  *)
(* count threadsRunning down: no lambda writes to a stack frame that is    *)
(* gone.                                                                   *)
THEOREM CounterOutlivesLambdas == LoopSpec => []CounterFrameAlive
  <1>1. LoopInv => CounterFrameAlive
    <2> SUFFICES ASSUME LoopInv, NEW w \in Workers, wpc[w] = "run", body[w] # "notify"
                 PROVE  loopPc # "idle" /\ task[w][1] = loop
      BY DEF CounterFrameAlive
    <2>1. task[w] \in OpenRanges
      BY RunningRange DEF OpenRanges, Uncounted
    <2> QED BY <2>1 DEF LoopInv, OnlyThisCall
  <1> QED BY <1>1, LoopSpecInv, PTL
(* With at least one worker, ParallellLoop returns only after its function *)
(* ran exactly once for each index: the ranges it cuts neither overlap nor *)
(* leave a gap, none of them is lost, and it waits for all of them.        *)
THEOREM EachIndexRunsOnce == Workers # {} => (LoopSpec => EachIndexOnce)
  <1> SUFFICES ASSUME Workers # {} PROVE LoopSpec => EachIndexOnce
    OBVIOUS
  <1>1. LoopInv /\ RanOnce /\ [LoopNext]_allVars =>
          [loopPc # "idle" /\ loopPc' = "idle" =>
             \A x \in DOMAIN ran : ran[x] = IF x < size THEN 1 ELSE 0]_allVars
    BY ReturnIsComplete
  <1>2. LoopInv /\ RanOnce /\ [LoopNext]_allVars => RanOnce'
    BY RanOnceNext
  <1> QED BY <1>1, <1>2, RanOnceInit, LoopSpecInv, PTL DEF LoopSpec, EachIndexOnce
=============================================================================
