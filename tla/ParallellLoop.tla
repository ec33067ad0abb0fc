--------------------------- MODULE ParallellLoop ----------------------------
(***************************************************************************)
(* ThreadPool::ParallellLoop on top of the pool: the engine's main thread  *)
(* cuts 0 .. n-1 into one range per worker, pushes one task per range and  *)
(* waits on cond until its local counter threadsRunning is down to zero.   *)
(*                                                                         *)
(* The tasks of the pool are <<k, i>>: range i of the k-th call.  Each has *)
(* the three steps of the lambda that ParallellLoop pushes (body): "f" the *)
(* caller's function, "dec" the countdown, "notify" the notification under *)
(* myMutexParallell.  That mutex is held exactly when loopPc = "block".    *)
(***************************************************************************)
EXTENDS ThreadPool

CONSTANTS
    Main,           \* the thread that calls ParallellLoop
    MaxLoops,       \* bound: number of calls
    MaxIterations   \* bound: largest iteration count

ASSUME LoopAssumption ==
    /\ Main \in Callers
    /\ MaxLoops \in Nat /\ MaxIterations \in Nat
    /\ Tasks = (1..MaxLoops) \X (1..Cardinality(Workers))

VARIABLES
    loopPc,         \* where Main is in ParallellLoop
    loop,           \* number of the current or last call
    size,           \* its aIterationCount
    pushed,         \* how many ranges it has pushed
    threadsRunning, \* the atomic counter on the stack of that call
    body,           \* step of the lambda each worker runs
    ran             \* how often the function was called for each index

loopVars == <<loopPc, loop, size, pushed, threadsRunning, body, ran>>
allVars == <<vars, loopVars>>

-----------------------------------------------------------------------------
SmallerOf(a, b) == IF a < b THEN a ELSE b

ThreadsFor(n) == SmallerOf(n, Cardinality(Workers))

(* Is the i-th range, counted from 1, one longer than the others?          *)
LongRangeBug(i, remainder) == i < remainder
LongRange(i, remainder) == i <= remainder

(* Where the i-th range ends: the first n % threads ranges are one longer. *)
RangeEnd(n) ==
    LET threads == ThreadsFor(n)
        normalBatch == n \div threads
        remainder == n - normalBatch * threads
        end[i \in 1..threads] ==
            (IF i = 1 THEN 0 ELSE end[i - 1])
                + (IF LongRange(i, remainder) THEN normalBatch + 1 ELSE normalBatch)
    IN  end

IndicesOf(n, i) == {x \in 0..(n - 1) :
                       /\ x < RangeEnd(n)[i]
                       /\ i > 1 => x >= RangeEnd(n)[i - 1]}

-----------------------------------------------------------------------------
LoopInit ==
    /\ Init
    /\ loopPc = "idle" /\ loop = 0 /\ size = 0 /\ pushed = 0 /\ threadsRunning = 0
    /\ body = [w \in Workers |-> "f"]
    /\ ran = [x \in 0..(MaxIterations - 1) |-> 0]

(* An iteration count of 0 returns at once and changes nothing.            *)
CallLoop(n) ==
    /\ loopPc = "idle"
    /\ loop < MaxLoops
    /\ loopPc' = "push"
    /\ loop' = loop + 1
    /\ size' = n
    /\ pushed' = 0
    /\ threadsRunning' = ThreadsFor(n)
    /\ ran' = [x \in DOMAIN ran |-> 0]
    /\ UNCHANGED <<vars, body>>

PushRange ==
    /\ loopPc = "push"
    /\ pushed < ThreadsFor(size)
    /\ PushTask(Main, <<loop, pushed + 1>>)
    /\ pushed' = pushed + 1
    /\ UNCHANGED <<loopPc, loop, size, threadsRunning, body, ran>>

NotifyRange ==
    /\ PushNotify(Main)
    /\ UNCHANGED loopVars

LoopDoneBug == threadsRunning <= 1
LoopDone == threadsRunning = 0

(* cond.wait: lock myMutexParallell, test, and block in a second step.     *)
LoopEval ==
    /\ \/ loopPc = "push" /\ pushed = ThreadsFor(size) /\ cpc[Main] = "idle"
       \/ loopPc = "woken"
    /\ loopPc' = IF LoopDone THEN "idle" ELSE "block"
    /\ UNCHANGED <<vars, loop, size, pushed, threadsRunning, body, ran>>

LoopBlock ==
    /\ loopPc = "block"
    /\ loopPc' = "sleep"
    /\ UNCHANGED <<vars, loop, size, pushed, threadsRunning, body, ran>>

LoopSpurious ==
    /\ loopPc = "sleep"
    /\ loopPc' = "woken"
    /\ UNCHANGED <<vars, loop, size, pushed, threadsRunning, body, ran>>

-----------------------------------------------------------------------------
NextBody(w, step) == body' = [body EXCEPT ![w] = step]

CallFunc(w) ==
    /\ wpc[w] = "run" /\ body[w] = "f"
    /\ NextBody(w, "dec")
    /\ ran' = [x \in DOMAIN ran |->
                 IF x \in IndicesOf(size, task[w][2]) THEN ran[x] + 1 ELSE ran[x]]
    /\ UNCHANGED <<vars, loopPc, loop, size, pushed, threadsRunning>>

Decrement(w) ==
    /\ wpc[w] = "run" /\ body[w] = "dec"
    /\ NextBody(w, "notify")
    /\ threadsRunning' = threadsRunning - 1
    /\ UNCHANGED <<vars, loopPc, loop, size, pushed, ran>>

ParallellMutexFreeBug == TRUE
ParallellMutexFree == loopPc # "block"

NotifyLoop(w) ==
    /\ body[w] = "notify"
    /\ ParallellMutexFree
    /\ NextBody(w, "f")
    /\ loopPc' = IF loopPc = "sleep" THEN "woken" ELSE loopPc
    /\ RunTask(w)
    /\ UNCHANGED <<loop, size, pushed, threadsRunning, ran>>

PoolStep(w) ==
    /\ WorkerStep(w) \/ SpuriousWakeup(w)
    /\ UNCHANGED loopVars

LoopStep ==
    \/ \E n \in 1..MaxIterations : CallLoop(n)
    \/ PushRange \/ NotifyRange \/ LoopEval \/ LoopBlock

LoopNext ==
    \/ LoopStep \/ LoopSpurious
    \/ \E w \in Workers : CallFunc(w) \/ Decrement(w) \/ NotifyLoop(w) \/ PoolStep(w)

LoopSpec == LoopInit /\ [][LoopNext]_allVars

LoopFairSpec ==
    /\ LoopSpec
    /\ SF_allVars(PushRange) /\ WF_allVars(NotifyRange)
    /\ WF_allVars(LoopEval) /\ WF_allVars(LoopBlock)
    /\ \A w \in Workers : /\ SF_allVars(WorkerStep(w) /\ UNCHANGED loopVars)
                          /\ WF_allVars(CallFunc(w)) /\ WF_allVars(Decrement(w))
                          /\ SF_allVars(NotifyLoop(w))

-----------------------------------------------------------------------------
LoopTypeOK ==
    /\ TypeOK
    /\ loopPc \in {"idle", "push", "block", "sleep", "woken"}
    /\ loop \in 0..MaxLoops
    /\ size \in 0..MaxIterations
    /\ pushed \in 0..Cardinality(Workers)
    /\ threadsRunning \in 0..Cardinality(Workers)
    /\ body \in [Workers -> {"f", "dec", "notify"}]
    /\ ran \in [0..(MaxIterations - 1) -> Nat]

(* ParallellLoop returns only when its function was called exactly once    *)
(* for each index below the iteration count: the ranges neither overlap    *)
(* nor leave a gap, and no worker still runs one.                          *)
EachIndexOnce ==
    [][loopPc # "idle" /\ loopPc' = "idle" =>
         \A x \in DOMAIN ran : ran[x] = IF x < size THEN 1 ELSE 0]_allVars

(* A lambda that has not counted down yet belongs to the call in progress: *)
(* it never touches a threadsRunning whose stack frame is gone.            *)
CounterFrameAlive ==
    \A w \in Workers : wpc[w] = "run" /\ body[w] # "notify" =>
        loopPc # "idle" /\ task[w][1] = loop

(* Every call of ParallellLoop returns.                                    *)
LoopReturns == loopPc = "push" ~> loopPc = "idle"
=============================================================================
