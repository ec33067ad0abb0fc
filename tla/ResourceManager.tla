-------------------------- MODULE ResourceManager ---------------------------
(***************************************************************************)
(* Engine/ResourceManagement: resources that any thread may request or     *)
(* load, loader threads that create requested resources in the background, *)
(* and the main thread that publishes the results once per frame.          *)
(*                                                                         *)
(* Four mutexes protect the queues: A myLoadedResourcesMutex, B            *)
(* myGlobalResourceMutex, C myResourcesToLoadMutex and D                   *)
(* myGlobalResourcesToLoadMutex.  One action is one critical section, or   *)
(* the unlocked accesses up to the next one, where no other thread reads   *)
(* or writes the same variables under another mutex.  Three are kept from  *)
(* one action to the next: C by a loader between the predicate of its wait *)
(* and the wait itself, D by a Load between the result and the payload     *)
(* that it writes to the shared object, and A (with B, which only Main     *)
(* holds in this model) by Main while it writes the same variables one by  *)
(* one.  A Swap of two payloads is one action.                             *)
(*                                                                         *)
(* calls[t] is the call stack of thread t, innermost call first: frames    *)
(* [op, res, at], where "at" is the next step of that call.                *)
(*                                                                         *)
(* myIsResourceLoadingAllowed is TRUE for ever: nothing in the program     *)
(* calls SetIsResourceLoadingAllowed, so the early returns of              *)
(* RequestLoading and Load on it are never taken and are left out.         *)
(***************************************************************************)
EXTENDS Naturals, FiniteSets, SequenceParts

CONSTANTS
    Resources, Main, Others, Loaders,
    Types,          \* indices of the per-type queues, an interval from 1
    TypeOf,         \* the type of each resource
    Needs,          \* what its Create loads synchronously
    Kids,           \* what GetChildren returns after its Create
    Setups,         \* [uses, threads, stops]: the calls <<thread, op, resource>>
                    \* made from outside, the threads there are (a loader per
                    \* processor of the machine), and whether it is destroyed
    MaxUnloads      \* bound: number of Unload calls

Threads == {Main} \cup Others \cup Loaders

ASSUME ResourceAssumption ==
    /\ Main \notin Others \cup Loaders
    /\ Others \cap Loaders = {}
    /\ TypeOf \in [Resources -> Types]
    /\ Types \subseteq Nat
    /\ Needs \in [Resources -> Seq(Resources)]
    /\ Kids \in [Resources -> Seq(Resources)]
    /\ \A s \in Setups :
          /\ s.uses \subseteq Threads \X {"Request", "Load", "LoadNow", "Unload"} \X Resources
          /\ Main \in s.threads /\ s.threads \subseteq Threads

VARIABLES
    setup,                      \* the one of Setups that this behaviour runs
    state, result, payload,     \* of the shared resource objects
    shared,                     \* myShare.myResourcesToLoad, per type
    toLoad,                     \* LoaderThread.myResourcesToLoad, per type
    loaded,                     \* LoaderThread.myLoadedResources: outcome or "None"
    toRemove,                   \* per thread: myResourceToRemoveFromLoadQueue
    allLoaded,                  \* myIsAllResourcesLoaded
    running,                    \* myRunning
    calls,                      \* call stack per thread
    lpc,                        \* where each loader is in LoadingThread
    mpc, pruneLeft,             \* where Main is in a frame, contexts to visit
    publishing,                 \* the resource that Main is just publishing
    unloads

data == <<state, result, payload>>
queues == <<shared, toLoad, loaded, toRemove, allLoaded>>
control == <<running, lpc, mpc, pruneLeft, publishing>>
moving == <<data, queues, control, calls, unloads>>
vars == <<setup, moving>>

-----------------------------------------------------------------------------
Frame(op, r, at) == [op |-> op, res |-> r, at |-> at]
Frames(op, rs) == [i \in 1..Len(rs) |-> Frame(op, rs[i], "enter")]

At(t, op, at) == calls[t] # <<>> /\ Head(calls[t]).op = op /\ Head(calls[t]).at = at
Res(t) == Head(calls[t]).res

Return(t) == calls' = [calls EXCEPT ![t] = Tail(@)]

(* Go on at step "at", after the calls in frames returned.                 *)
Continue(t, at, frames) ==
    calls' = [calls EXCEPT ![t] = frames \o <<Frame(Head(@).op, Head(@).res, at)>> \o Tail(@)]

AFree == mpc \notin {"publish", "publishResult", "publishMark"}
CFree == \A l \in Loaders : lpc[l] # "block"
DFree == \A t \in Threads : ~At(t, "Load", "swap") /\ ~At(t, "Load", "swapFailed")

(* Below, a definition whose name ends in Bug is the next one with a       *)
(* plausible mistake in it; no specification uses it.                      *)

(* The early returns of RequestLoading and Load                            *)
MustRequestBug(r) == state[r] # "Requested"
MustRequest(r) == state[r] = "Unloaded"

MustLoad(r) == state[r] # "Loaded"

(* myLoadResult after Create                                               *)
OutcomeBug(ok) == IF ok THEN "Loaded" ELSE "Failed"
OutcomeIgnored(ok) == "Succeeded"
Outcome(ok) == IF ok THEN "Succeeded" ELSE "Failed"

(* The first non-empty queue of the loaders, and taking its front          *)
TypesWaiting == {y \in Types : toLoad[y] # <<>>}
FirstType == CHOOSE y \in TypesWaiting : \A z \in TypesWaiting : y <= z

PopFrontBug == UNCHANGED toLoad
PopFront == toLoad' = [toLoad EXCEPT ![FirstType] = Tail(@)]

(* The requests of the frame move behind those the loaders already have    *)
HandOverBug == toLoad' = shared
HandOver == toLoad' = [y \in Types |-> toLoad[y] \o shared[y]]

(* What TransferResourceToRenderThread looks at for myIsAllResourcesLoaded *)
NothingLeftBug == \A y \in Types : toLoad[y] = <<>> /\ shared[y] = <<>>
NothingLeft == /\ \A y \in Types : toLoad[y] = <<>> /\ shared[y] = <<>>
               /\ \A r \in Resources : loaded[r] = "None"

(* myResourcesToLoaderCv.notify_all()                                      *)
WakeLoadersBug == UNCHANGED lpc
WakeLoaders == lpc' = [l \in Loaders |-> IF lpc[l] = "waiting" THEN "loop" ELSE lpc[l]]

Init ==
    /\ setup \in Setups
    /\ state = [r \in Resources |-> "Unloaded"]
    /\ result = [r \in Resources |-> "None"]
    /\ payload = [r \in Resources |-> FALSE]
    /\ shared = [y \in Types |-> <<>>]
    /\ toLoad = [y \in Types |-> <<>>]
    /\ loaded = [r \in Resources |-> "None"]
    /\ toRemove = [t \in Threads |-> {}]
    /\ allLoaded = TRUE
    /\ running = TRUE
    /\ calls = [t \in Threads |-> <<>>]
    /\ lpc = [l \in Loaders |-> IF l \in setup.threads THEN "loop" ELSE "exited"]
    /\ mpc = "frame"
    /\ pruneLeft = {}
    /\ publishing = {}
    /\ unloads = 0

-----------------------------------------------------------------------------
(* Calls from outside: Main between two transfers, the scene loading       *)
(* thread at any time.                                                     *)
Call(t, op, r) ==
    /\ <<t, op, r>> \in setup.uses
    /\ t \notin Loaders /\ calls[t] = <<>>
    /\ t = Main => mpc = "frame"
    /\ op = "Unload" => unloads < MaxUnloads
    /\ unloads' = IF op = "Unload" THEN unloads + 1 ELSE unloads
    /\ calls' = [calls EXCEPT ![t] = <<Frame(op, r, "enter")>>]
    /\ UNCHANGED <<data, queues, control>>

(* ResourceBase::RequestLoading: test the state, queue a copy, and mark,   *)
(* in three steps that no mutex joins.  The second looks the resource up   *)
(* under B before it pushes under D; the model lets it do so also while    *)
(* Main publishes, where the code may have to wait a little longer.        *)
RequestTest(t) ==
    /\ At(t, "Request", "enter")
    /\ IF MustRequest(Res(t)) THEN Continue(t, "push", <<>>) ELSE Return(t)
    /\ UNCHANGED <<data, queues, control, unloads>>

RequestPush(t) ==
    /\ At(t, "Request", "push") /\ DFree
    /\ shared' = [shared EXCEPT ![TypeOf[Res(t)]] = Append(@, Res(t))]
    /\ Continue(t, "mark", <<>>)
    /\ UNCHANGED <<data, toLoad, loaded, toRemove, allLoaded, control, unloads>>

RequestMark(t) ==
    /\ At(t, "Request", "mark")
    /\ state' = [state EXCEPT ![Res(t)] = "Requested"]
    /\ Return(t)
    /\ UNCHANGED <<result, payload, queues, control, unloads>>

(* ResourceBase::Load: test, note under D that a queued copy is to be      *)
(* removed, create a copy with all that its Create loads, write the result *)
(* and swap the copy in under D, load the children, and mark.              *)
LoadTest(t) ==
    /\ At(t, "Load", "enter")
    /\ IF MustLoad(Res(t)) THEN Continue(t, "copy", <<>>) ELSE Return(t)
    /\ UNCHANGED <<data, queues, control, unloads>>

LoadCopy(t) ==
    /\ At(t, "Load", "copy") /\ DFree
    /\ toRemove' = IF state[Res(t)] = "Requested"
                   THEN [toRemove EXCEPT ![t] = @ \cup {Res(t)}]
                   ELSE toRemove
    /\ Continue(t, "result", Frames("Load", Needs[Res(t)]))
    /\ UNCHANGED <<data, shared, toLoad, loaded, allLoaded, control, unloads>>

(* Create returned: take D again and write its result.                     *)
LoadResult(t, ok) ==
    /\ At(t, "Load", "result") /\ DFree
    /\ result' = [result EXCEPT ![Res(t)] = Outcome(ok)]
    /\ Continue(t, IF ok THEN "swap" ELSE "swapFailed", <<>>)
    /\ UNCHANGED <<state, payload, queues, control, unloads>>

(* Still under D, swap the copy in; one whose Create failed is swapped in  *)
(* as well, and may have left a half-built payload behind.                 *)
LoadSwap(t) ==
    /\ \/ /\ At(t, "Load", "swap")
          /\ payload' = [payload EXCEPT ![Res(t)] = TRUE]
          /\ Continue(t, "mark", Frames("Load", Kids[Res(t)]))
       \/ /\ At(t, "Load", "swapFailed")
          /\ \E half \in BOOLEAN : payload' = [payload EXCEPT ![Res(t)] = half]
          /\ Continue(t, "mark", <<>>)
    /\ UNCHANGED <<state, result, queues, control, unloads>>

LoadMark(t) ==
    /\ At(t, "Load", "mark")
    /\ state' = [state EXCEPT ![Res(t)] = "Loaded"]
    /\ Return(t)
    /\ UNCHANGED <<result, payload, queues, control, unloads>>

(* The deserializer loads a resource at once unless it is requested.       *)
LoadNow(t) ==
    /\ At(t, "LoadNow", "enter")
    /\ calls' = [calls EXCEPT ![t] =
         <<Frame(IF state[Res(t)] # "Requested" THEN "Load" ELSE "Request", Res(t), "enter")>>
            \o Tail(@)]
    /\ UNCHANGED <<data, queues, control, unloads>>

(* ResourceBase::Unload: drop the payload, then reset state and result.    *)
UnloadDrop(t) ==
    /\ At(t, "Unload", "enter")
    /\ IF state[Res(t)] = "Unloaded"
       THEN Return(t) /\ UNCHANGED payload
       ELSE Continue(t, "reset", <<>>) /\ payload' = [payload EXCEPT ![Res(t)] = FALSE]
    /\ UNCHANGED <<state, result, queues, control, unloads>>

UnloadReset(t) ==
    /\ At(t, "Unload", "reset")
    /\ state' = [state EXCEPT ![Res(t)] = "Unloaded"]
    /\ result' = [result EXCEPT ![Res(t)] = "None"]
    /\ Return(t)
    /\ UNCHANGED <<payload, queues, control, unloads>>

ResourceCall(t) ==
    \/ RequestTest(t) \/ RequestPush(t) \/ RequestMark(t)
    \/ LoadTest(t) \/ LoadCopy(t) \/ LoadSwap(t) \/ LoadMark(t) \/ LoadNow(t)
    \/ \E ok \in BOOLEAN : LoadResult(t, ok)
    \/ UnloadDrop(t) \/ UnloadReset(t)

-----------------------------------------------------------------------------
(* LoadingThread.  "loop" is the test of myRunning and the lock of C.      *)
LoaderGoTo(l, pc) == lpc' = [lpc EXCEPT ![l] = pc]

LoaderBlock(l) ==
    /\ \/ lpc[l] = "loop" /\ calls[l] = <<>> /\ CFree
          /\ running /\ TypesWaiting = {} /\ LoaderGoTo(l, "block")
       \/ lpc[l] = "block" /\ LoaderGoTo(l, "waiting")
    /\ UNCHANGED <<data, queues, running, mpc, pruneLeft, publishing, calls, unloads>>

LoaderSpurious(l) ==
    /\ lpc[l] = "waiting"
    /\ LoaderGoTo(l, "loop")
    /\ UNCHANGED <<data, queues, running, mpc, pruneLeft, publishing, calls, unloads>>

LoaderExit(l) ==
    /\ lpc[l] = "loop" /\ calls[l] = <<>> /\ ~running
    /\ LoaderGoTo(l, "exited")
    /\ UNCHANGED <<data, queues, running, mpc, pruneLeft, publishing, calls, unloads>>

(* Take the front of the first non-empty queue and enter its Create.       *)
LoaderTake(l) ==
    /\ lpc[l] = "loop" /\ calls[l] = <<>> /\ CFree
    /\ running /\ TypesWaiting # {}
    /\ LET r == Head(toLoad[FirstType])
       IN  calls' = [calls EXCEPT ![l] = Frames("Load", Needs[r]) \o <<Frame("Job", r, "store")>>]
    /\ PopFront
    /\ UNCHANGED <<data, shared, loaded, toRemove, allLoaded, control, unloads>>

(* Create returned: leave the copy for Main, then request its children.    *)
LoaderStore(l, ok) ==
    /\ At(l, "Job", "store") /\ AFree
    /\ loaded' = [loaded EXCEPT ![Res(l)] = Outcome(ok)]
    /\ calls' = [calls EXCEPT ![l] =
         (IF ok THEN Frames("Request", Kids[Res(l)]) ELSE <<>>) \o Tail(@)]
    /\ UNCHANGED <<data, shared, toLoad, toRemove, allLoaded, control, unloads>>

Loader(l) ==
    \/ LoaderBlock(l) \/ LoaderExit(l) \/ LoaderTake(l)
    \/ \E ok \in BOOLEAN : LoaderStore(l, ok)

-----------------------------------------------------------------------------
(* TransferResourceToRenderThread on Main.  First, under A and B, publish  *)
(* resource after resource, in the order of a hash table: swap the copy    *)
(* in, then write the result, then the state.  No Load waits for these     *)
(* mutexes.  The entries are erased in a second loop under A, where nobody *)
(* sees them any more.                                                     *)
TransferLoaded ==
    /\ mpc = "frame" /\ calls[Main] = <<>>
    /\ mpc' = "publish"
    /\ UNCHANGED <<data, queues, running, lpc, pruneLeft, publishing, calls, unloads>>

PublishSwap(r) ==
    /\ mpc = "publish"
    /\ loaded[r] # "None"
    /\ \E full \in IF loaded[r] = "Succeeded" THEN {TRUE} ELSE BOOLEAN :
          payload' = [payload EXCEPT ![r] = full]
    /\ publishing' = {r}
    /\ mpc' = "publishResult"
    /\ UNCHANGED <<state, result, queues, running, lpc, pruneLeft, calls, unloads>>

PublishResult ==
    /\ mpc = "publishResult"
    /\ result' = [r \in Resources |-> IF r \in publishing THEN loaded[r] ELSE result[r]]
    /\ mpc' = "publishMark"
    /\ UNCHANGED <<state, payload, queues, running, lpc, pruneLeft, publishing, calls, unloads>>

PublishMark ==
    /\ mpc = "publishMark"
    /\ state' = [r \in Resources |-> IF r \in publishing THEN "Loaded" ELSE state[r]]
    /\ loaded' = [r \in Resources |-> IF r \in publishing THEN "None" ELSE loaded[r]]
    /\ publishing' = {}
    /\ mpc' = "publish"
    /\ UNCHANGED <<result, payload, shared, toLoad, toRemove, allLoaded>>
    /\ UNCHANGED <<running, lpc, pruneLeft, calls, unloads>>

PublishEnd ==
    /\ mpc = "publish"
    /\ \A r \in Resources : loaded[r] = "None"
    /\ mpc' = "queue"
    /\ UNCHANGED <<data, queues, running, lpc, pruneLeft, publishing, calls, unloads>>

Publish == (\E r \in Resources : PublishSwap(r)) \/ PublishResult \/ PublishMark \/ PublishEnd

(* Then, under C and D, hand the requests to the loaders and update the    *)
(* flag that the loading screen looks at.                                  *)
TransferQueues ==
    /\ mpc = "queue"
    /\ CFree /\ DFree
    /\ HandOver
    /\ shared' = [y \in Types |-> <<>>]
    /\ allLoaded' = NothingLeft
    /\ mpc' = "prune"
    /\ pruneLeft' = setup.threads
    /\ UNCHANGED <<data, loaded, toRemove, running, lpc, publishing, calls, unloads>>

(* Then, context by context, drop the copies of what Load has loaded since *)
(* they were queued.  The list of a context is never cleared.              *)
TransferContext(t) ==
    /\ mpc = "prune" /\ t \in pruneLeft
    /\ CFree /\ DFree
    /\ shared' = [y \in Types |-> Only(shared[y], Resources \ toRemove[t])]
    /\ toLoad' = [y \in Types |-> Only(toLoad[y], Resources \ toRemove[t])]
    /\ pruneLeft' = pruneLeft \ {t}
    /\ UNCHANGED <<data, loaded, toRemove, allLoaded>>
    /\ UNCHANGED <<running, lpc, mpc, publishing, calls, unloads>>

TransferNotify ==
    /\ mpc = "prune" /\ pruneLeft = {}
    /\ WakeLoaders
    /\ mpc' = "frame"
    /\ UNCHANGED <<data, queues, running, pruneLeft, publishing, calls, unloads>>

Transfer ==
    \/ TransferLoaded \/ Publish \/ TransferQueues \/ TransferNotify
    \/ \E t \in Threads : TransferContext(t)

(* ~ResourceManager: clear the flag without C, notify, then notify again   *)
(* before each join.                                                       *)
Stop ==
    /\ setup.stops
    /\ mpc = "frame" /\ calls[Main] = <<>>
    /\ running' = FALSE
    /\ mpc' = "stop"
    /\ pruneLeft' = setup.threads \cap Loaders
    /\ UNCHANGED <<data, queues, lpc, publishing, calls, unloads>>

StopNotify ==
    /\ \/ mpc = "stop" /\ mpc' = "joinNext"
       \/ mpc = "joinNext" /\ mpc' = IF pruneLeft = {} THEN "gone" ELSE "join"
    /\ WakeLoaders
    /\ UNCHANGED <<data, queues, running, pruneLeft, publishing, calls, unloads>>

StopJoin(l) ==
    /\ mpc = "join" /\ l \in pruneLeft
    /\ lpc[l] = "exited"
    /\ pruneLeft' = pruneLeft \ {l}
    /\ mpc' = "joinNext"
    /\ UNCHANGED <<data, queues, running, lpc, publishing, calls, unloads>>

Shutdown == Stop \/ StopNotify \/ \E l \in Loaders : StopJoin(l)

-----------------------------------------------------------------------------
Next ==
    /\ \/ \E use \in setup.uses : Call(use[1], use[2], use[3])
       \/ \E t \in Threads : ResourceCall(t)
       \/ \E l \in Loaders : Loader(l) \/ LoaderSpurious(l)
       \/ Transfer
       \/ Shutdown
    /\ UNCHANGED setup

Spec == Init /\ [][Next]_vars

(* Main runs a transfer every frame; loaders and calls in progress run.  A *)
(* mutex that is free again and again is granted to Main and to a loader;  *)
(* a call that waits for D needs no such promise, as Loads come to an end. *)
Fairness ==
    /\ SF_moving(Transfer) /\ WF_moving(StopNotify \/ \E l \in Loaders : StopJoin(l))
    /\ \A t \in Threads : WF_moving(ResourceCall(t))
    /\ \A l \in Loaders : SF_moving(Loader(l))

FairSpec == Spec /\ Fairness

-----------------------------------------------------------------------------
Ops == {"Request", "Load", "LoadNow", "Unload", "Job"}
Steps == {"enter", "push", "mark", "copy", "result", "swap", "swapFailed", "reset", "store"}
Outcomes == {"None", "Succeeded", "Failed"}

TypeOK ==
    /\ setup \in Setups
    /\ state \in [Resources -> {"Unloaded", "Requested", "Loaded"}]
    /\ result \in [Resources -> Outcomes]
    /\ payload \in [Resources -> BOOLEAN]
    /\ shared \in [Types -> Seq(Resources)]
    /\ toLoad \in [Types -> Seq(Resources)]
    /\ loaded \in [Resources -> Outcomes]
    /\ toRemove \in [Threads -> SUBSET Resources]
    /\ allLoaded \in BOOLEAN
    /\ running \in BOOLEAN
    /\ calls \in [Threads -> Seq([op : Ops, res : Resources, at : Steps])]
    /\ lpc \in [Loaders -> {"loop", "block", "waiting", "exited"}]
    /\ mpc \in {"frame", "publish", "publishResult", "publishMark", "queue", "prune",
               "stop", "joinNext", "join", "gone"}
    /\ pruneLeft \subseteq Threads
    /\ publishing \subseteq Resources
    /\ unloads \in Nat

IsValid(r) == state[r] = "Loaded" /\ result[r] = "Succeeded"

LoadedByCreate(r) == \E s \in Resources : \E i \in DOMAIN Needs[s] : Needs[s][i] = r

(* What IsValid promises to Main, which uses the payload without a lock    *)
(* between two transfers: there is one.  It is true of resources that no   *)
(* Create loads, as long as only Main loads and unloads.                   *)
ValidHasPayload ==
    mpc = "frame" /\ calls[Main] = <<>> =>
        \A r \in Resources : IsValid(r) => payload[r] \/ LoadedByCreate(r)

(* The same, of any resource and whoever loads it, when no call is in      *)
(* progress: a Load that fails while Main publishes a good copy leaves its *)
(* own payload behind the published result.                                *)
ValidAtRest ==
    mpc = "frame" /\ (\A t \in Threads : calls[t] = <<>>) =>
        \A r \in Resources : IsValid(r) => payload[r]

InQueue(q, r) == \E i \in 1..Len(q[TypeOf[r]]) : q[TypeOf[r]][i] = r
InCreate(r) == \E t \in Threads : \E i \in 1..Len(calls[t]) :
                  /\ calls[t][i].res = r
                  /\ calls[t][i].op \in {"Job", "Load"}
                  /\ calls[t][i].at \in {"store", "result", "swap", "swapFailed", "mark"}

(* No request is forgotten: a resource that says Requested is in a queue,  *)
(* being created, or waits for Main to publish it.                         *)
RequestedIsPending ==
    \A r \in Resources : state[r] = "Requested" =>
        InQueue(shared, r) \/ InQueue(toLoad, r) \/ InCreate(r) \/ loaded[r] # "None"

(* The copy constructors assert that the resource they copy has not been   *)
(* created yet.  RequestLoading and Load copy only such resources, as long *)
(* as no Create of another resource loads them at once.                    *)
CopiesOnlyUncreated ==
    [][\A t \in Threads :
         (At(t, "Request", "push") \/ At(t, "Load", "copy")) /\ calls'[t] # calls[t]
             => ~payload[Res(t)] \/ LoadedByCreate(Res(t))]_vars

(* TransferResourceToRenderThread publishes a resource at most once: it    *)
(* never finds the shared object loaded already, with the same exception.  *)
PublishedOnce ==
    [][\A r \in Resources : PublishSwap(r) =>
         state[r] # "Loaded" \/ LoadedByCreate(r)]_vars

(* When TransferResourceToRenderThread sets myIsAllResourcesLoaded, every  *)
(* resource that is still only requested is in the hands of a loader: the  *)
(* flag overlooks what a loader has in its Create, and nothing else.       *)
FlagMeansNoneQueued ==
    [][mpc = "queue" /\ mpc' = "prune" /\ allLoaded' =>
         \A r \in Resources : state[r] = "Requested" => InCreate(r)]_vars

(* What the comments there say of the flag: it is set when all resources   *)
(* are loaded, for the loading screen to end.  A loader in Create makes it *)
(* false.                                                                  *)
FlagMeansAllLoaded ==
    [][mpc = "queue" /\ mpc' = "prune" /\ allLoaded' =>
         \A r \in Resources : state[r] # "Requested"]_vars

(* A resource that was requested becomes loaded.                           *)
RequestedGetsLoaded ==
    \A r \in Resources : state[r] = "Requested" ~> state[r] = "Loaded" \/ ~running

(* The destructor joins every loading thread, provided that none was       *)
(* between the predicate of its wait and the wait when myRunning was       *)
(* cleared: the only way to miss every notification.                       *)
ShutdownEnds ==
    mpc = "stop" /\ (\A l \in Loaders : lpc[l] # "block") ~> mpc = "gone"
=============================================================================
