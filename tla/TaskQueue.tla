----------------------------- MODULE TaskQueue ------------------------------
(***************************************************************************)
(* What a thread pool promises to the code that pushes tasks: tasks start  *)
(* in the order they were pushed, each at most once, and only tasks that   *)
(* start before or while the pool is being stopped may be thrown away.     *)
(***************************************************************************)
EXTENDS Sequences

CONSTANT Tasks

VARIABLES queue, stage, stopped

queueVars == <<queue, stage, stopped>>

Init ==
    /\ queue = <<>>
    /\ stage = [t \in Tasks |-> "new"]
    /\ stopped = FALSE

Submit(t) ==
    /\ stage[t] = "new"
    /\ queue' = Append(queue, t)
    /\ stage' = [stage EXCEPT ![t] = "queued"]
    /\ UNCHANGED stopped

Start ==
    /\ ~stopped
    /\ queue # <<>>
    /\ queue' = Tail(queue)
    /\ stage' = [stage EXCEPT ![Head(queue)] = "started"]
    /\ UNCHANGED stopped

Complete(t) ==
    /\ stage[t] = "started"
    /\ stage' = [stage EXCEPT ![t] = "done"]
    /\ UNCHANGED <<queue, stopped>>

Discard(t) ==
    /\ stopped
    /\ stage[t] = "started"
    /\ stage' = [stage EXCEPT ![t] = "dropped"]
    /\ UNCHANGED <<queue, stopped>>

Stop ==
    /\ stopped' = TRUE
    /\ UNCHANGED <<queue, stage>>

Next ==
    \/ \E t \in Tasks : Submit(t) \/ Complete(t) \/ Discard(t)
    \/ Start
    \/ Stop

Spec == Init /\ [][Next]_queueVars
=============================================================================
