----------------------- MODULE ResourceManagerProofs ------------------------
(***************************************************************************)
(* For any resources, threads and types: the variables of the resource     *)
(* manager keep their types.  If only Main loads and unloads (LoadsOnMain  *)
(* and LoadsAreClosed), a resource that is reported valid has its payload. *)
(* In the programs of OnlyRequests no request is lost, and if              *)
(* LoadsAreClosed holds as well, what no Create loads at once is copied    *)
(* before it is created only and published once.                           *)
(***************************************************************************)
EXTENDS ResourceManager, SequenceProofs

FrameType == [op : Ops, res : Resources, at : Steps]

-----------------------------------------------------------------------------
(* Call stacks: the frames of several calls, the return from the innermost *)
(* call, and going on with it behind other calls.                          *)
LEMMA FrameTyped ==
    ASSUME NEW op \in Ops, NEW r \in Resources, NEW at \in Steps
    PROVE  /\ Frame(op, r, at) \in FrameType
           /\ Frame(op, r, at).op = op /\ Frame(op, r, at).res = r /\ Frame(op, r, at).at = at
  BY DEF Frame, FrameType

LEMMA FramesTyped ==
    ASSUME NEW op \in Ops, NEW rs \in Seq(Resources)
    PROVE  /\ Frames(op, rs) \in Seq(FrameType)
           /\ \A f \in ToSet(Frames(op, rs)) :
                 f.op = op /\ f.res \in ToSet(rs) /\ f.at = "enter"
  <1> DEFINE fs == Frames(op, rs)
             n == Len(rs)
  <1>1. n \in Nat /\ \A i \in 1..n : rs[i] \in Resources
    OBVIOUS
  <1>2. fs = [i \in 1..n |-> Frame(op, rs[i], "enter")]
    BY DEF Frames
  <1> HIDE DEF fs, n
  <1>3. \A i \in 1..n : fs[i] = Frame(op, rs[i], "enter")
    BY <1>2
  <1>4. "enter" \in Steps
    BY DEF Steps
  <1>5. \A i \in 1..n : fs[i] \in FrameType
    BY <1>1, <1>3, <1>4, FrameTyped
  <1>6. fs \in Seq(FrameType) /\ Len(fs) = n
    BY <1>1, <1>2, <1>5
  <1>7. ASSUME NEW f \in ToSet(fs) PROVE f.op = op /\ f.res \in ToSet(rs) /\ f.at = "enter"
    <2>1. PICK i \in 1..n : fs[i] = f
      BY <1>6, ToSetIs
    <2>2. rs[i] \in ToSet(rs)
      BY ToSetIs DEF n
    <2>3. f.op = op /\ f.res = rs[i] /\ f.at = "enter"
      BY <1>1, <1>3, <1>4, <2>1, FrameTyped
    <2> QED BY <2>2, <2>3
  <1> QED BY <1>6, <1>7 DEF fs

LEMMA HeadAndTail ==
    ASSUME NEW T, NEW s \in Seq(T), s # <<>>
    PROVE  /\ Head(s) \in T /\ Tail(s) \in Seq(T)
           /\ ToSet(s) = {Head(s)} \cup ToSet(Tail(s))
  <1> DEFINE n == Len(s)
             w == Tail(s)
  <1>1. /\ n \in Nat /\ n # 0 /\ w \in Seq(T) /\ Len(w) = n - 1 /\ Head(s) = s[1] /\ s[1] \in T
        /\ \A i \in 1..(n - 1) : w[i] = s[i + 1]
    OBVIOUS
  <1> HIDE DEF n, w
  <1>2. \A x : x \in ToSet(s) <=> \E i \in 1..n : s[i] = x
    BY ToSetIs DEF n
  <1>3. \A x : x \in ToSet(w) <=> \E i \in 1..(n - 1) : w[i] = x
    BY <1>1, ToSetIs
  <1>4. ASSUME NEW x \in ToSet(s) PROVE x = s[1] \/ x \in ToSet(w)
    <2>1. PICK i \in 1..n : s[i] = x
      BY <1>2
    <2>2. CASE i = 1
      BY <2>1, <2>2
    <2>3. CASE i # 1
      <3>1. i - 1 \in 1..(n - 1) /\ (i - 1) + 1 = i
        BY <1>1, <2>3
      <3> QED BY <1>1, <1>3, <2>1, <3>1
    <2> QED BY <2>2, <2>3
  <1>5. ASSUME NEW x, x = s[1] \/ x \in ToSet(w) PROVE x \in ToSet(s)
    <2>1. CASE x = s[1]
      BY <1>1, <1>2, <2>1, 1 \in 1..n
    <2>2. CASE x \in ToSet(w)
      <3>1. PICK i \in 1..(n - 1) : w[i] = x
        BY <1>3, <2>2
      <3> QED BY <1>1, <1>2, <3>1, i + 1 \in 1..n
    <2> QED BY <1>5, <2>1, <2>2
  <1> QED BY <1>1, <1>4, <1>5 DEF w

(* A stack that goes on with the frame h behind the frames fs.             *)
LEMMA Stacked ==
    ASSUME NEW T, NEW fs \in Seq(T), NEW h \in T, NEW rest \in Seq(T)
    PROVE  LET w == fs \o <<h>> \o rest IN
           /\ w \in Seq(T) /\ w # <<>>
           /\ ToSet(w) = ToSet(fs) \cup {h} \cup ToSet(rest)
           /\ ToSet(Tail(w)) \subseteq ToSet(w)
           /\ IF fs = <<>> THEN Head(w) = h /\ Tail(w) = rest ELSE Head(w) \in ToSet(fs)
  <1> DEFINE g == <<h>> \o rest
             w == fs \o <<h>> \o rest
  <1>1. g \in Seq(T) /\ g # <<>> /\ Head(g) = h /\ Tail(g) = rest
    OBVIOUS
  <1>2. w = fs \o g
    OBVIOUS
  <1>3. ToSet(g) = {h} \cup ToSet(rest)
    BY <1>1, HeadAndTail
  <1> HIDE DEF g, w
  <1>4. w \in Seq(T) /\ w # <<>> /\ ToSet(w) = ToSet(fs) \cup ToSet(g)
    BY <1>1, <1>2, ToSetConcat
  <1>5. ToSet(Tail(w)) \subseteq ToSet(w)
    BY <1>4, HeadAndTail
  <1>6. CASE fs = <<>>
    <2>1. w = g
      BY <1>1, <1>2, <1>6
    <2> QED BY <1>1, <1>3, <1>4, <1>6, <2>1 DEF w
  <1>7. CASE fs # <<>>
    <2>1. Head(w) = Head(fs)
      BY <1>1, <1>2, <1>7
    <2>2. Head(w) \in ToSet(fs)
      BY <1>7, <2>1, HeadAndTail
    <2> QED BY <1>3, <1>4, <1>5, <1>7, <2>2 DEF w
  <1> QED BY <1>6, <1>7

Stacks == [Threads -> Seq(FrameType)]

LEMMA TopTyped ==
    ASSUME TypeOK, NEW t \in Threads, calls[t] # <<>>
    PROVE  /\ Head(calls[t]) \in FrameType /\ Head(calls[t]) \in ToSet(calls[t])
           /\ Res(t) \in Resources
  <1>1. calls[t] \in Seq(FrameType)
    BY DEF TypeOK, FrameType
  <1>2. Head(calls[t]) \in FrameType /\ Head(calls[t]) \in ToSet(calls[t])
    BY <1>1, HeadAndTail
  <1> QED BY <1>2 DEF Res, FrameType

LEMMA StackChange ==
    ASSUME calls \in Stacks, NEW t \in Threads, NEW w \in Seq(FrameType),
           calls' = [calls EXCEPT ![t] = w]
    PROVE  calls' \in Stacks /\ calls'[t] = w /\ \A u \in Threads \ {t} : calls'[u] = calls[u]
  BY DEF Stacks

LEMMA Returns ==
    ASSUME calls \in Stacks, NEW t \in Threads, calls[t] # <<>>, Return(t)
    PROVE  /\ calls' \in Stacks /\ calls'[t] = Tail(calls[t])
           /\ \A u \in Threads \ {t} : calls'[u] = calls[u]
  <1>1. Tail(calls[t]) \in Seq(FrameType)
    BY HeadAndTail DEF Stacks
  <1> QED BY <1>1, StackChange DEF Return

LEMMA Continues ==
    ASSUME calls \in Stacks, NEW t \in Threads, calls[t] # <<>>, NEW at \in Steps,
           NEW fs \in Seq(FrameType), Continue(t, at, fs)
    PROVE  LET h == Frame(Head(calls[t]).op, Res(t), at) IN
           /\ calls' \in Stacks /\ calls'[t] = fs \o <<h>> \o Tail(calls[t])
           /\ h \in FrameType
           /\ \A u \in Threads \ {t} : calls'[u] = calls[u]
  <1> DEFINE h == Frame(Head(calls[t]).op, Res(t), at)
             w == fs \o <<h>> \o Tail(calls[t])
  <1>1. Head(calls[t]) \in FrameType /\ Tail(calls[t]) \in Seq(FrameType)
    BY HeadAndTail DEF Stacks
  <1>2. h \in FrameType
    BY <1>1, FrameTyped DEF FrameType, Res
  <1>3. w \in Seq(FrameType)
    <2> HIDE DEF h
    <2> QED BY <1>1, <1>2, Stacked
  <1>4. calls' = [calls EXCEPT ![t] = w]
    BY DEF Continue, Res
  <1> HIDE DEF w, h
  <1>5. calls' \in Stacks /\ calls'[t] = w /\ \A u \in Threads \ {t} : calls'[u] = calls[u]
    BY <1>3, <1>4, StackChange
  <1> QED BY <1>2, <1>5 DEF w, h

-----------------------------------------------------------------------------
(* The first type whose queue is not empty.                                *)
LEMMA FirstTyped ==
    ASSUME TypesWaiting # {}
    PROVE  FirstType \in TypesWaiting
  <1>1. TypesWaiting \subseteq Nat
    BY ResourceAssumption DEF TypesWaiting
  <1>2. \E y \in TypesWaiting : \A z \in TypesWaiting : y <= z
    BY <1>1, LeastNumber
  <1> QED BY <1>2 DEF FirstType

LEMMA TypeInit == Init => TypeOK
  <1> SUFFICES ASSUME Init PROVE TypeOK
    OBVIOUS
  <1>1. /\ setup \in Setups
        /\ state \in [Resources -> {"Unloaded", "Requested", "Loaded"}]
        /\ result \in [Resources -> Outcomes] /\ payload \in [Resources -> BOOLEAN]
        /\ loaded \in [Resources -> Outcomes]
        /\ toRemove \in [Threads -> SUBSET Resources]
        /\ allLoaded \in BOOLEAN /\ running \in BOOLEAN
        /\ mpc = "frame"
        /\ pruneLeft \subseteq Threads /\ publishing \subseteq Resources /\ unloads \in Nat
    BY DEF Init, Outcomes
  <1>2. shared \in [Types -> Seq(Resources)] /\ toLoad \in [Types -> Seq(Resources)]
    BY DEF Init
  <1>3. calls \in [Threads -> Seq(FrameType)]
    BY DEF Init
  <1>4. lpc \in [Loaders -> {"loop", "block", "waiting", "exited"}]
    BY DEF Init
  <1> QED BY <1>1, <1>2, <1>3, <1>4 DEF TypeOK, FrameType

-----------------------------------------------------------------------------
(* What a call does to the stacks, and to nothing but the stack of its     *)
(* thread: the stack of a thread that calls is not empty.                  *)
LEMMA CallTypes ==
    ASSUME TypeOK, NEW t \in Threads, ResourceCall(t), UNCHANGED setup
    PROVE  TypeOK'
  <1> USE DEF TypeOK
  <1>1. calls \in Stacks
    BY DEF Stacks, FrameType
  <1>2. calls[t] # <<>> /\ Head(calls[t]) \in FrameType /\ Res(t) \in Resources
    <2>1. calls[t] # <<>>
      BY DEF ResourceCall, At, RequestTest, RequestPush, RequestMark, LoadTest, LoadCopy,
             LoadResult,
             LoadSwap, LoadMark, LoadNow, UnloadDrop, UnloadReset
    <2>2. Head(calls[t]) \in FrameType
      BY <1>1, <2>1, HeadAndTail DEF Stacks
    <2> QED BY <2>1, <2>2 DEF FrameType, Res
  <1>3. Return(t) => calls' \in Stacks
    BY <1>1, <1>2, Returns
  <1>4. ASSUME NEW at \in Steps, NEW fs \in Seq(FrameType), Continue(t, at, fs)
        PROVE  calls' \in Stacks
    BY <1>1, <1>2, <1>4, Continues
  <1>5. <<>> \in Seq(FrameType) /\ "Load" \in Ops /\ "Request" \in Ops
    BY DEF Ops
  <1>6. {"push", "mark", "copy", "result", "swap", "swapFailed", "reset"} \subseteq Steps
    BY DEF Steps
  <1>7. Frames("Load", Needs[Res(t)]) \in Seq(FrameType) /\ Frames("Load", Kids[Res(t)]) \in Seq(FrameType)
    <2>1. Needs[Res(t)] \in Seq(Resources) /\ Kids[Res(t)] \in Seq(Resources)
      BY <1>2, ResourceAssumption
    <2> QED BY <1>5, <2>1, FramesTyped
  <1>8. calls' \in Stacks => calls' \in [Threads -> Seq([op : Ops, res : Resources, at : Steps])]
    BY DEF Stacks, FrameType
  <1> HIDE DEF TypeOK
  <1>9. CASE RequestTest(t)
    <2>1. calls' \in Stacks
      BY <1>3, <1>4, <1>5, <1>6, <1>9 DEF RequestTest
    <2> QED BY <1>8, <1>9, <2>1 DEF TypeOK, RequestTest, data, queues, control
  <1>10. CASE RequestPush(t)
    <2>1. calls' \in Stacks
      BY <1>4, <1>5, <1>6, <1>10 DEF RequestPush
    <2>2. shared' \in [Types -> Seq(Resources)]
      <3>1. TypeOf[Res(t)] \in Types /\ shared \in [Types -> Seq(Resources)]
        BY <1>2, ResourceAssumption DEF TypeOK
      <3>2. Append(shared[TypeOf[Res(t)]], Res(t)) \in Seq(Resources)
        BY <1>2, <3>1
      <3> QED BY <1>10, <3>1, <3>2 DEF RequestPush
    <2> QED BY <1>8, <1>10, <2>1, <2>2 DEF TypeOK, RequestPush, data, control
  <1>11. CASE RequestMark(t)
    <2>1. calls' \in Stacks
      BY <1>3, <1>11 DEF RequestMark
    <2> QED BY <1>2, <1>8, <1>11, <2>1 DEF TypeOK, RequestMark, queues, control
  <1>12. CASE LoadTest(t)
    <2>1. calls' \in Stacks
      BY <1>3, <1>4, <1>5, <1>6, <1>12 DEF LoadTest
    <2> QED BY <1>8, <1>12, <2>1 DEF TypeOK, LoadTest, data, queues, control
  <1>13. CASE LoadCopy(t)
    <2>1. calls' \in Stacks
      BY <1>4, <1>6, <1>7, <1>13 DEF LoadCopy
    <2>2. toRemove' \in [Threads -> SUBSET Resources]
      BY <1>2, <1>13 DEF LoadCopy, TypeOK
    <2> QED BY <1>8, <1>13, <2>1, <2>2 DEF TypeOK, LoadCopy, data, control
  <1>14. CASE LoadSwap(t)
    <2>1. calls' \in Stacks
      BY <1>4, <1>5, <1>6, <1>7, <1>14 DEF LoadSwap
    <2>2. payload' \in [Resources -> BOOLEAN]
      BY <1>2, <1>14 DEF LoadSwap, TypeOK
    <2> QED BY <1>8, <1>14, <2>1, <2>2 DEF TypeOK, LoadSwap, queues, control
  <1>15. CASE LoadMark(t)
    <2>1. calls' \in Stacks
      BY <1>3, <1>15 DEF LoadMark
    <2> QED BY <1>2, <1>8, <1>15, <2>1 DEF TypeOK, LoadMark, queues, control
  <1>16. CASE LoadNow(t)
    <2> DEFINE op == IF state[Res(t)] # "Requested" THEN "Load" ELSE "Request"
               w == <<Frame(op, Res(t), "enter")>> \o Tail(calls[t])
    <2>1. calls' = [calls EXCEPT ![t] = w]
      BY <1>16 DEF LoadNow
    <2>2. Frame(op, Res(t), "enter") \in FrameType /\ Tail(calls[t]) \in Seq(FrameType)
      BY <1>1, <1>2, FrameTyped, HeadAndTail DEF Stacks, Ops, Steps
    <2> HIDE DEF op
    <2>3. w \in Seq(FrameType)
      BY <2>2
    <2>4. calls' \in Stacks
      <3> HIDE DEF w
      <3> QED BY <1>1, <2>1, <2>3, StackChange
    <2> QED BY <1>8, <1>16, <2>4 DEF TypeOK, LoadNow, data, queues, control
  <1>17. CASE UnloadDrop(t)
    <2>1. calls' \in Stacks
      BY <1>3, <1>4, <1>5, <1>6, <1>17 DEF UnloadDrop
    <2> QED BY <1>2, <1>8, <1>17, <2>1 DEF TypeOK, UnloadDrop, queues, control
  <1>18. CASE UnloadReset(t)
    <2>1. calls' \in Stacks
      BY <1>3, <1>18 DEF UnloadReset
    <2> QED BY <1>2, <1>8, <1>18, <2>1 DEF TypeOK, UnloadReset, queues, control, Outcomes
  <1>19. ASSUME NEW ok \in BOOLEAN, LoadResult(t, ok) PROVE TypeOK'
    <2>1. calls' \in Stacks
      BY <1>4, <1>5, <1>6, <1>19 DEF LoadResult
    <2>2. result' \in [Resources -> Outcomes]
      BY <1>2, <1>19 DEF LoadResult, TypeOK, Outcome, Outcomes
    <2> QED BY <1>8, <1>19, <2>1, <2>2 DEF TypeOK, LoadResult, queues, control
  <1> QED BY <1>9, <1>10, <1>11, <1>12, <1>13, <1>14, <1>15, <1>16, <1>17, <1>18, <1>19 DEF ResourceCall

LEMMA LoaderTypes ==
    ASSUME TypeOK, NEW l \in Loaders, Loader(l) \/ LoaderSpurious(l), UNCHANGED setup
    PROVE  TypeOK'
  <1> USE DEF LoaderGoTo
  <1>1. calls \in Stacks /\ l \in Threads
    BY DEF Stacks, FrameType, TypeOK, Threads
  <1>2. {"Load", "Request", "Job"} \subseteq Ops /\ {"store"} \subseteq Steps
    BY DEF Ops, Steps
  <1>3. calls' \in Stacks => calls' \in [Threads -> Seq([op : Ops, res : Resources, at : Steps])]
    BY DEF Stacks, FrameType
  <1>4. CASE LoaderBlock(l)
    BY <1>4 DEF TypeOK, LoaderBlock, data, queues
  <1>5. CASE LoaderExit(l)
    BY <1>5 DEF TypeOK, LoaderExit, data, queues
  <1>6. CASE LoaderSpurious(l)
    BY <1>6 DEF TypeOK, LoaderSpurious, data, queues
  <1>7. CASE LoaderTake(l)
    <2> DEFINE q == toLoad[FirstType]
               r == Head(q)
               w == Frames("Load", Needs[r]) \o <<Frame("Job", r, "store")>>
    <2>1. q \in Seq(Resources) /\ q # <<>> /\ FirstType \in Types
      BY <1>7, FirstTyped DEF LoaderTake, TypeOK, TypesWaiting
    <2>2. r \in Resources /\ Tail(q) \in Seq(Resources)
      BY <2>1
    <2>3. toLoad' = [toLoad EXCEPT ![FirstType] = Tail(q)] /\ calls' = [calls EXCEPT ![l] = w]
      BY <1>7 DEF LoaderTake, PopFront
    <2> HIDE DEF q
    <2>4. toLoad' \in [Types -> Seq(Resources)]
      BY <2>1, <2>2, <2>3 DEF TypeOK
    <2>5. Frames("Load", Needs[r]) \in Seq(FrameType)
      <3>1. Needs[r] \in Seq(Resources)
        BY <2>2, ResourceAssumption
      <3> QED BY <1>2, <3>1, FramesTyped
    <2>6. Frame("Job", r, "store") \in FrameType
      BY <1>2, <2>2, FrameTyped
    <2>7. w \in Seq(FrameType)
      BY <2>5, <2>6
    <2>8. calls' \in Stacks
      <3> HIDE DEF w
      <3> QED BY <1>1, <2>3, <2>7, StackChange
    <2> QED BY <1>3, <1>7, <2>4, <2>8 DEF TypeOK, LoaderTake, data, control
  <1>8. ASSUME NEW ok \in BOOLEAN, LoaderStore(l, ok) PROVE TypeOK'
    <2> DEFINE fs == IF ok THEN Frames("Request", Kids[Res(l)]) ELSE <<>>
               w == fs \o Tail(calls[l])
    <2>1. calls[l] # <<>> /\ calls' = [calls EXCEPT ![l] = w]
      BY <1>8 DEF LoaderStore, At
    <2>2. Head(calls[l]) \in FrameType /\ Tail(calls[l]) \in Seq(FrameType)
      BY <1>1, <2>1, HeadAndTail DEF Stacks
    <2>3. Res(l) \in Resources
      BY <2>2 DEF Res, FrameType
    <2>4. fs \in Seq(FrameType)
      <3>1. Kids[Res(l)] \in Seq(Resources)
        BY <2>3, ResourceAssumption
      <3>2. Frames("Request", Kids[Res(l)]) \in Seq(FrameType)
        BY <1>2, <3>1, FramesTyped
      <3> QED BY <3>2
    <2> HIDE DEF fs
    <2>5. w \in Seq(FrameType)
      BY <2>2, <2>4
    <2>6. calls' \in Stacks
      <3> HIDE DEF w
      <3> QED BY <1>1, <2>1, <2>5, StackChange
    <2>7. loaded' \in [Resources -> Outcomes]
      BY <1>8, <2>3 DEF LoaderStore, TypeOK, Outcome, Outcomes
    <2> QED BY <1>3, <1>8, <2>6, <2>7 DEF TypeOK, LoaderStore, data, control
  <1> QED BY <1>4, <1>5, <1>6, <1>7, <1>8 DEF Loader

LEMMA TransferTypes ==
    ASSUME TypeOK, Transfer \/ Shutdown, UNCHANGED setup
    PROVE  TypeOK'
  <1>1. CASE TransferLoaded \/ Publish
    <2>1. CASE TransferLoaded \/ PublishEnd
      BY <2>1 DEF TypeOK, TransferLoaded, PublishEnd, data, queues
    <2>2. ASSUME NEW r \in Resources, PublishSwap(r) PROVE TypeOK'
      BY <2>2 DEF TypeOK, PublishSwap, queues
    <2>3. CASE PublishResult
      BY <2>3 DEF TypeOK, PublishResult, queues, Outcomes
    <2>4. CASE PublishMark
      BY <2>4 DEF TypeOK, PublishMark, Outcomes
    <2> QED BY <1>1, <2>1, <2>2, <2>3, <2>4 DEF Publish
  <1>2. CASE TransferQueues
    <2>1. toLoad' \in [Types -> Seq(Resources)]
      <3>1. ASSUME NEW y \in Types PROVE toLoad[y] \o shared[y] \in Seq(Resources)
        BY DEF TypeOK
      <3> QED BY <1>2, <3>1 DEF TransferQueues, HandOver
    <2>2. shared' \in [Types -> Seq(Resources)]
      BY <1>2 DEF TransferQueues
    <2>3. allLoaded' \in BOOLEAN
      BY <1>2 DEF TransferQueues, NothingLeft
    <2>4. pruneLeft' \subseteq Threads
      BY <1>2, ResourceAssumption DEF TransferQueues, TypeOK
    <2> QED BY <1>2, <2>1, <2>2, <2>3, <2>4 DEF TypeOK, TransferQueues, data
  <1>3. ASSUME NEW t \in Threads, TransferContext(t) PROVE TypeOK'
    <2>1. ASSUME NEW q, q \in [Types -> Seq(Resources)], NEW y \in Types, NEW S
          PROVE  Only(q[y], S) \in Seq(Resources)
      BY <2>1, OnlyIs
    <2>2. shared' \in [Types -> Seq(Resources)] /\ toLoad' \in [Types -> Seq(Resources)]
      BY <1>3, <2>1 DEF TransferContext, TypeOK
    <2>3. pruneLeft' \subseteq Threads
      BY <1>3 DEF TransferContext, TypeOK
    <2> QED BY <1>3, <2>2, <2>3 DEF TypeOK, TransferContext, data
  <1>4. CASE TransferNotify
    BY <1>4 DEF TypeOK, TransferNotify, WakeLoaders, data, queues
  <1>5. CASE Stop
    BY <1>5 DEF TypeOK, Stop, data, queues, Threads
  <1>6. CASE StopNotify
    BY <1>6 DEF TypeOK, StopNotify, WakeLoaders, data, queues
  <1>7. ASSUME NEW l \in Loaders, StopJoin(l) PROVE TypeOK'
    BY <1>7 DEF TypeOK, StopJoin, data, queues
  <1> QED BY <1>1, <1>2, <1>3, <1>4, <1>5, <1>6, <1>7 DEF Transfer, Shutdown

LEMMA OutsideTypes ==
    ASSUME TypeOK, NEW use \in setup.uses, Call(use[1], use[2], use[3]), UNCHANGED setup
    PROVE  TypeOK'
  <1> DEFINE t == use[1]
             w == <<Frame(use[2], use[3], "enter")>>
  <1>1. t \in Threads /\ use[2] \in Ops /\ use[3] \in Resources
    BY ResourceAssumption DEF TypeOK, Ops
  <1>2. calls' = [calls EXCEPT ![t] = w]
    BY DEF Call
  <1>3. w \in Seq(FrameType)
    <2>1. Frame(use[2], use[3], "enter") \in FrameType
      BY <1>1, FrameTyped DEF Steps
    <2> QED BY <2>1
  <1>4. calls' \in Stacks
    <2>1. calls \in Stacks
      BY DEF Stacks, FrameType, TypeOK
    <2> HIDE DEF w, t
    <2> QED BY <1>1, <1>2, <1>3, <2>1, StackChange
  <1>5. calls' \in [Threads -> Seq([op : Ops, res : Resources, at : Steps])]
    BY <1>4 DEF Stacks, FrameType
  <1>6. unloads' \in Nat
    BY DEF Call, TypeOK
  <1> QED BY <1>5, <1>6 DEF Call, TypeOK, data, queues, control

LEMMA TypeStep == TypeOK /\ [Next]_vars => TypeOK'
  <1> SUFFICES ASSUME TypeOK, [Next]_vars PROVE TypeOK'
    OBVIOUS
  <1>1. CASE Next
    BY <1>1, OutsideTypes, CallTypes, LoaderTypes, TransferTypes DEF Next
  <1>2. CASE UNCHANGED vars
    BY <1>2 DEF TypeOK, vars, moving, data, queues, control
  <1> QED BY <1>1, <1>2

(* Every variable of the resource manager keeps its type: the queues hold  *)
(* resources, and the frames of every stack are calls at steps they have.  *)
THEOREM ResourcesTyped == Spec => []TypeOK
  <1>1. Init => TypeOK
    BY TypeInit
  <1>2. TypeOK /\ [Next]_vars => TypeOK'
    BY TypeStep
  <1> QED BY <1>1, <1>2, PTL DEF Spec

-----------------------------------------------------------------------------
(* What the steps of a call do to the stack of its thread, in any program. *)
LEMMA CallFrames ==
    ASSUME TypeOK, NEW t \in Threads, ResourceCall(t)
    PROVE  /\ calls[t] \in Seq(FrameType) /\ calls[t] # <<>>
           /\ Head(calls[t]) \in ToSet(calls[t]) /\ Res(t) \in Resources
           /\ \A u \in Threads \ {t} : calls'[u] = calls[u]
           /\ UNCHANGED <<loaded, mpc, publishing>>
           /\ \A f \in ToSet(calls'[t]) :
                 \/ f \in ToSet(calls[t])
                 \/ f.res = Res(t) /\ (f.op = Head(calls[t]).op \/ Head(calls[t]).op = "LoadNow")
                 \/ /\ f.op = "Load" /\ Head(calls[t]).op = "Load"
                    /\ f.res \in ToSet(Needs[Res(t)]) \cup ToSet(Kids[Res(t)])
           /\ \A f \in ToSet(Tail(calls'[t])) : f \in ToSet(Tail(calls[t])) \/ f.at # "swapFailed"
           /\ At(t, "Load", "swapFailed")' =>
                 \/ LoadResult(t, FALSE) /\ Res(t)' = Res(t)
                 \/ \E f \in ToSet(Tail(calls[t])) : f.at = "swapFailed"
           /\ \A ok \in BOOLEAN : LoadResult(t, ok) =>
                 At(t, "Load", IF ok THEN "swap" ELSE "swapFailed")' /\ Res(t)' = Res(t)
           /\ At(t, "Unload", "enter") /\ ~UNCHANGED payload =>
                 At(t, "Unload", "reset")' /\ Res(t)' = Res(t)
  <1> DEFINE old == Head(calls[t])
             rest == Tail(calls[t])
             new == calls'[t]
  <1>1. calls \in Stacks
    BY DEF TypeOK, Stacks, FrameType
  <1>2. calls[t] # <<>>
    BY DEF ResourceCall, At, RequestTest, RequestPush, RequestMark, LoadTest, LoadCopy, LoadResult,
           LoadSwap, LoadMark, LoadNow, UnloadDrop, UnloadReset
  <1>3. /\ calls[t] \in Seq(FrameType) /\ old \in ToSet(calls[t]) /\ old \in FrameType
        /\ rest \in Seq(FrameType) /\ ToSet(calls[t]) = {old} \cup ToSet(rest) /\ Res(t) \in Resources
    <2>1. calls[t] \in Seq(FrameType)
      BY <1>1 DEF Stacks
    <2>2. /\ old \in ToSet(calls[t]) /\ old \in FrameType
          /\ rest \in Seq(FrameType) /\ ToSet(calls[t]) = {old} \cup ToSet(rest)
      BY <1>2, <2>1, HeadAndTail
    <2>3. Res(t) \in Resources
      BY <2>2 DEF Res, FrameType
    <2> QED BY <2>1, <2>2, <2>3
  <1>4. \A u \in Threads \ {t} : calls'[u] = calls[u]
    BY <1>1 DEF ResourceCall, RequestTest, RequestPush, RequestMark, LoadTest, LoadCopy, LoadResult,
           LoadSwap, LoadMark, LoadNow, UnloadDrop, UnloadReset, Return, Continue, Stacks
  <1>5. UNCHANGED <<loaded, mpc, publishing>>
    BY DEF ResourceCall, RequestTest, RequestPush, RequestMark, LoadTest, LoadCopy, LoadResult,
           LoadSwap, LoadMark, LoadNow, UnloadDrop, UnloadReset, queues, control
  <1>6. Needs[Res(t)] \in Seq(Resources) /\ Kids[Res(t)] \in Seq(Resources)
    BY <1>3, ResourceAssumption
  <1>7. <<>> \in Seq(FrameType) /\ ToSet(<<>>) = {} /\ "Load" \in Ops
    BY DEF ToSet, Ops
  <1>8. \A x \in {"push", "mark", "copy", "result", "swap", "swapFailed", "reset"} : x \in Steps
    BY DEF Steps
  <1> DEFINE Kin(f) == \/ f \in ToSet(calls[t])
                       \/ f.res = Res(t) /\ (f.op = old.op \/ old.op = "LoadNow")
                       \/ /\ f.op = "Load" /\ old.op = "Load"
                          /\ f.res \in ToSet(Needs[Res(t)]) \cup ToSet(Kids[Res(t)])
             Deep(f) == f \in ToSet(rest) \/ f.at # "swapFailed"
             Hidden == \E f \in ToSet(rest) : f.at = "swapFailed"
  <1>9. ASSUME Return(t)
        PROVE  /\ \A f \in ToSet(new) : Kin(f)
               /\ \A f \in ToSet(Tail(new)) : Deep(f)
               /\ At(t, "Load", "swapFailed")' => Hidden
    <2>1. new = rest
      BY <1>1, <1>2, <1>9, Returns
    <2>2. \A f \in ToSet(new) : Kin(f)
      BY <1>3, <2>1
    <2>3. CASE rest = <<>>
      <3>1. Tail(new) = <<>>
        BY <2>1, <2>3
      <3> QED BY <1>7, <2>1, <2>2, <2>3, <3>1 DEF At
    <2>4. CASE rest # <<>>
      <3>1. Head(rest) \in ToSet(rest) /\ ToSet(Tail(rest)) \subseteq ToSet(rest)
        BY <1>3, <2>4, HeadAndTail
      <3> QED BY <2>1, <2>2, <3>1 DEF At
    <2> QED BY <2>3, <2>4
  <1>10. ASSUME NEW at \in Steps, NEW fs \in Seq(FrameType), Continue(t, at, fs),
                \/ fs = <<>>
                \/ /\ fs \in {Frames("Load", Needs[Res(t)]), Frames("Load", Kids[Res(t)])}
                   /\ old.op = "Load" /\ at # "swapFailed"
         PROVE  /\ \A f \in ToSet(new) : Kin(f)
                /\ \A f \in ToSet(Tail(new)) : Deep(f)
                /\ At(t, "Load", "swapFailed")' => at = "swapFailed" /\ Res(t)' = Res(t)
                /\ \A op : fs = <<>> /\ op = old.op => At(t, op, at)' /\ Res(t)' = Res(t)
    <2> DEFINE h == Frame(old.op, Res(t), at)
               w == fs \o <<h>> \o rest
    <2>1. new = w /\ h \in FrameType
      BY <1>1, <1>2, <1>10, Continues
    <2>2. h.op = old.op /\ h.res = Res(t) /\ h.at = at
      BY DEF Frame
    <2>3. \A f \in ToSet(fs) : /\ f.op = "Load" /\ f.at = "enter" /\ old.op = "Load"
                              /\ f.res \in ToSet(Needs[Res(t)]) \cup ToSet(Kids[Res(t)])
      BY <1>6, <1>7, <1>10, FramesTyped
    <2> HIDE DEF h, rest, old
    <2>4. /\ w \in Seq(FrameType) /\ w # <<>>
          /\ ToSet(w) = ToSet(fs) \cup {h} \cup ToSet(rest)
          /\ ToSet(Tail(w)) \subseteq ToSet(w)
          /\ IF fs = <<>> THEN Head(w) = h /\ Tail(w) = rest ELSE Head(w) \in ToSet(fs)
      BY <1>3, <1>10, <2>1, Stacked
    <2> HIDE DEF w
    <2>5. \A f \in ToSet(new) : Kin(f)
      BY <1>3, <2>1, <2>2, <2>3, <2>4
    <2>6. \A f \in ToSet(Tail(new)) : Deep(f)
      <3>1. CASE fs = <<>>
        BY <2>1, <2>4, <3>1
      <3>2. CASE fs # <<>>
        BY <1>10, <2>1, <2>2, <2>3, <2>4, <3>2
      <3> QED BY <3>1, <3>2
    <2>7. \A op : fs = <<>> /\ op = old.op => At(t, op, at)' /\ Res(t)' = Res(t)
      BY <2>1, <2>2, <2>4 DEF At, Res, new
    <2>8. At(t, "Load", "swapFailed")' => fs = <<>>
      BY <2>1, <2>3, <2>4 DEF At
    <2>9. At(t, "Load", "swapFailed")' => at = "swapFailed" /\ Res(t)' = Res(t)
      BY <2>7, <2>8 DEF At
    <2> QED BY <2>5, <2>6, <2>7, <2>9
  <1>11. ASSUME LoadNow(t)
         PROVE  /\ \A f \in ToSet(new) : Kin(f)
                /\ \A f \in ToSet(Tail(new)) : Deep(f)
                /\ ~At(t, "Load", "swapFailed")'
    <2> DEFINE op == IF state[Res(t)] # "Requested" THEN "Load" ELSE "Request"
               h == Frame(op, Res(t), "enter")
               fs == <<>>
               w == fs \o <<h>> \o rest
    <2>1. calls' = [calls EXCEPT ![t] = <<h>> \o rest] /\ old.op = "LoadNow"
      BY <1>11 DEF LoadNow, At
    <2>2. h \in FrameType /\ h.res = Res(t) /\ h.at = "enter"
      BY <1>3, FrameTyped DEF Ops, Steps
    <2> HIDE DEF h, rest, old
    <2>3. w = <<h>> \o rest /\ fs = <<>> /\ ToSet(fs) = {}
      BY <1>3, <1>7, <2>2
    <2>4. fs \in Seq(FrameType)
      OBVIOUS
    <2> HIDE DEF fs
    <2>5. /\ w \in Seq(FrameType) /\ ToSet(w) = ToSet(fs) \cup {h} \cup ToSet(rest)
          /\ IF fs = <<>> THEN Head(w) = h /\ Tail(w) = rest ELSE Head(w) \in ToSet(fs)
      BY <1>3, <2>2, <2>4, Stacked
    <2> HIDE DEF w
    <2>6. w \in Seq(FrameType) /\ ToSet(w) = {h} \cup ToSet(rest) /\ Head(w) = h /\ Tail(w) = rest
      BY <2>3, <2>5
    <2>7. new = w
      BY <1>1, <2>1, <2>3, <2>6, StackChange
    <2> QED BY <1>3, <2>1, <2>2, <2>6, <2>7 DEF At
  <1> DEFINE Goal == /\ \A f \in ToSet(new) : Kin(f)
                     /\ \A f \in ToSet(Tail(new)) : Deep(f)
                     /\ At(t, "Load", "swapFailed")' => (LoadResult(t, FALSE) /\ Res(t)' = Res(t)) \/ Hidden
                     /\ \A ok \in BOOLEAN : LoadResult(t, ok) =>
                           At(t, "Load", IF ok THEN "swap" ELSE "swapFailed")' /\ Res(t)' = Res(t)
                     /\ At(t, "Unload", "enter") /\ ~UNCHANGED payload =>
                           At(t, "Unload", "reset")' /\ Res(t)' = Res(t)
  <1> HIDE DEF Kin, Deep, Hidden, new
  <1>12. ASSUME RequestTest(t) \/ RequestPush(t) \/ RequestMark(t) \/ LoadTest(t) \/ LoadCopy(t)
                \/ LoadSwap(t) \/ LoadMark(t)
         PROVE  Goal
    <2>1. ~At(t, "Load", "result") /\ ~At(t, "Unload", "enter")
      BY <1>12 DEF RequestTest, RequestPush, RequestMark, LoadTest, LoadCopy, LoadSwap, LoadMark, At
    <2>2. \A ok \in BOOLEAN : ~LoadResult(t, ok)
      BY <2>1 DEF LoadResult
    <2>3. \/ Return(t)
          \/ \E at \in {"push", "mark", "copy", "result"} :
             \E fs \in {<<>>, Frames("Load", Needs[Res(t)]), Frames("Load", Kids[Res(t)])} :
                Continue(t, at, fs) /\ (fs # <<>> => old.op = "Load")
      BY <1>12 DEF RequestTest, RequestPush, RequestMark, LoadTest, LoadCopy, LoadSwap, LoadMark, At
    <2>4. CASE Return(t)
      BY <1>9, <2>1, <2>2, <2>4
    <2>5. ASSUME NEW at \in {"push", "mark", "copy", "result"},
                 NEW fs \in {<<>>, Frames("Load", Needs[Res(t)]), Frames("Load", Kids[Res(t)])},
                 Continue(t, at, fs), fs # <<>> => old.op = "Load"
          PROVE  Goal
      <3>1. at \in Steps /\ at # "swapFailed"
        BY <1>8
      <3>2. fs \in Seq(FrameType)
        <4>1. Frames("Load", Needs[Res(t)]) \in Seq(FrameType) /\ Frames("Load", Kids[Res(t)]) \in Seq(FrameType)
          BY <1>6, <1>7, FramesTyped
        <4> QED BY <1>7, <4>1
      <3> QED BY <1>10, <2>1, <2>2, <2>5, <3>1, <3>2
    <2> QED BY <2>3, <2>4, <2>5
  <1>13. ASSUME LoadNow(t) PROVE Goal
    <2>1. ~At(t, "Load", "result") /\ ~At(t, "Unload", "enter")
      BY <1>13 DEF LoadNow, At
    <2> QED BY <1>11, <1>13, <2>1 DEF LoadResult
  <1>14. ASSUME NEW ok \in BOOLEAN, LoadResult(t, ok) PROVE Goal
    <2> DEFINE at == IF ok THEN "swap" ELSE "swapFailed"
    <2>1. Continue(t, at, <<>>) /\ old.op = "Load" /\ ~At(t, "Unload", "enter")
      BY <1>14 DEF LoadResult, At
    <2>2. at \in Steps
      BY <1>8
    <2> HIDE DEF at
    <2>3. /\ \A f \in ToSet(new) : Kin(f)
          /\ \A f \in ToSet(Tail(new)) : Deep(f)
          /\ At(t, "Load", at)' /\ Res(t)' = Res(t)
      BY <1>7, <1>10, <2>1, <2>2
    <2>4. ASSUME NEW ok2 \in BOOLEAN, LoadResult(t, ok2)
          PROVE  At(t, "Load", IF ok2 THEN "swap" ELSE "swapFailed")'
      <3>1. Continue(t, IF ok2 THEN "swap" ELSE "swapFailed", <<>>)
        BY <2>4 DEF LoadResult
      <3>2. (IF ok2 THEN "swap" ELSE "swapFailed") \in Steps
        BY <1>8
      <3> QED BY <1>7, <1>10, <2>1, <3>1, <3>2
    <2>5. At(t, "Load", "swapFailed")' => LoadResult(t, FALSE)
      <3>1. CASE ok
        BY <2>3, <3>1 DEF At, at
      <3>2. CASE ~ok
        BY <1>14, <3>2
      <3> QED BY <3>1, <3>2
    <2> QED BY <2>1, <2>3, <2>4, <2>5
  <1>15. ASSUME UnloadDrop(t) \/ UnloadReset(t) PROVE Goal
    <2>1. ~At(t, "Load", "result") /\ ~At(t, "Load", "swapFailed") /\ old.op = "Unload"
      BY <1>15 DEF UnloadDrop, UnloadReset, At
    <2>2. CASE Return(t)
      <3>1. At(t, "Unload", "enter") => UNCHANGED payload
        <4>1. CASE UnloadReset(t)
          BY <4>1 DEF UnloadReset
        <4>2. CASE UnloadDrop(t) /\ state[Res(t)] = "Unloaded"
          BY <4>2 DEF UnloadDrop
        <4>3. CASE UnloadDrop(t) /\ state[Res(t)] # "Unloaded"
          <5>1. Continue(t, "reset", <<>>) /\ "reset" \in Steps
            BY <1>8, <4>3 DEF UnloadDrop
          <5> DEFINE h == Frame(old.op, Res(t), "reset")
                     w == <<>> \o <<h>> \o rest
          <5>2. calls'[t] = w /\ h \in FrameType
            BY <1>1, <1>2, <1>7, <5>1, Continues
          <5>3. calls'[t] = rest
            BY <1>1, <1>2, <2>2, Returns
          <5> HIDE DEF h, rest
          <5>4. Len(w) = Len(rest) + 1 /\ Len(rest) \in Nat
            BY <1>3, <5>2
          <5> HIDE DEF w
          <5> QED BY <5>2, <5>3, <5>4
        <4> QED BY <1>15, <4>1, <4>2, <4>3
      <3> QED BY <1>9, <2>1, <2>2, <3>1 DEF LoadResult
    <2>3. CASE Continue(t, "reset", <<>>)
      <3>1. "reset" \in Steps /\ "reset" # "swapFailed"
        BY <1>8
      <3> QED BY <1>7, <1>10, <2>1, <2>3, <3>1 DEF LoadResult
    <2> QED BY <1>15, <2>2, <2>3 DEF UnloadDrop, UnloadReset
  <1>16. Goal
    BY <1>12, <1>13, <1>14, <1>15 DEF ResourceCall
  <1> QED BY <1>2, <1>3, <1>4, <1>5, <1>16 DEF Kin, Deep, Hidden, new

(* Programs in which only Main calls Load and Unload, and in which the     *)
(* children of what a Create loads at once are loaded by a Create          *)
(* themselves.                                                             *)
LoadsOnMain == \A s \in Setups : \A use \in s.uses : use[2] # "Request" => use[1] = Main

LoadsAreClosed ==
    \A r \in Resources : LoadedByCreate(r) => \A k \in ToSet(Kids[r]) : LoadedByCreate(k)

(* What the other threads do: they request, take jobs, and load what some  *)
(* Create loads.                                                           *)
Elsewhere(f) == f.op \in {"Request", "Job"} \/ (f.op = "Load" /\ LoadedByCreate(f.res))

OthersRequest == \A t \in Threads \ {Main} : \A f \in ToSet(calls[t]) : Elsewhere(f)

(* The moments in which Main has written one of the two, result and        *)
(* payload, and not yet the other.                                         *)
Halfway(r) ==
    \/ Res(Main) = r /\ (At(Main, "Unload", "reset") \/ At(Main, "Load", "swap"))
    \/ mpc = "publishResult" /\ r \in publishing

(* A result that says that Create succeeded comes with a payload, except   *)
(* halfway; what Main is about to publish as a success has been swapped    *)
(* in; and a failed Load has written its result when it comes to its swap. *)
(* (ValidHasPayload asks this of loaded resources only, which is not       *)
(* inductive: a resource that is not marked yet may have its result.)      *)
Backed ==
    /\ OthersRequest
    /\ mpc # "frame" => calls[Main] = <<>>
    /\ \A f \in ToSet(Tail(calls[Main])) : f.at # "swapFailed"
    /\ At(Main, "Load", "swapFailed") =>
          result[Res(Main)] # "Succeeded" \/ LoadedByCreate(Res(Main))
    /\ mpc = "publishResult" =>
          \A r \in publishing : loaded[r] = "Succeeded" => payload[r] \/ LoadedByCreate(r)
    /\ \A r \in Resources : result[r] = "Succeeded" =>
          payload[r] \/ Halfway(r) \/ LoadedByCreate(r)

(* A step of another thread touches the result and the payload only of     *)
(* what some Create loads.                                                 *)
LEMMA OthersStayAway ==
    ASSUME LoadsAreClosed, TypeOK, Backed, NEW t \in Threads \ {Main}, ResourceCall(t)
    PROVE  /\ OthersRequest'
           /\ \A r \in Resources : ~LoadedByCreate(r) =>
                 result'[r] = result[r] /\ payload'[r] = payload[r]
  <1>1. /\ calls[t] # <<>> /\ Head(calls[t]) \in ToSet(calls[t]) /\ Res(t) \in Resources
        /\ \A u \in Threads \ {t} : calls'[u] = calls[u]
        /\ \A f \in ToSet(calls'[t]) :
              \/ f \in ToSet(calls[t])
              \/ f.res = Res(t) /\ (f.op = Head(calls[t]).op \/ Head(calls[t]).op = "LoadNow")
              \/ /\ f.op = "Load" /\ Head(calls[t]).op = "Load"
                 /\ f.res \in ToSet(Needs[Res(t)]) \cup ToSet(Kids[Res(t)])
    BY CallFrames
  <1>2. Elsewhere(Head(calls[t])) /\ \A f \in ToSet(calls[t]) : Elsewhere(f)
    BY <1>1 DEF Backed, OthersRequest
  <1>3. Head(calls[t]).op = "Load" => LoadedByCreate(Res(t))
    BY <1>2 DEF Elsewhere, Res
  <1>4. \A k \in ToSet(Needs[Res(t)]) : LoadedByCreate(k)
    <2>1. Needs[Res(t)] \in Seq(Resources)
      BY <1>1, ResourceAssumption
    <2>2. ASSUME NEW k \in ToSet(Needs[Res(t)]) PROVE \E i \in DOMAIN Needs[Res(t)] : Needs[Res(t)][i] = k
      BY <2>1, ToSetIs
    <2> QED BY <1>1, <2>2 DEF LoadedByCreate
  <1>5. Head(calls[t]).op = "Load" => \A k \in ToSet(Kids[Res(t)]) : LoadedByCreate(k)
    BY <1>1, <1>3 DEF LoadsAreClosed
  <1>6. \A f \in ToSet(calls'[t]) : Elsewhere(f)
    BY <1>1, <1>2, <1>4, <1>5 DEF Elsewhere, Res
  <1>7. OthersRequest'
    <2>1. ASSUME NEW u \in Threads \ {Main}, NEW f \in ToSet(calls'[u]) PROVE Elsewhere(f)
      <3>1. CASE u = t
        BY <1>6, <2>1, <3>1
      <3>2. CASE u # t
        BY <1>1, <2>1, <3>2 DEF Backed, OthersRequest
      <3> QED BY <3>1, <3>2
    <2> QED BY <2>1 DEF OthersRequest, Elsewhere
  <1>8. ~At(t, "Unload", "enter") /\ ~At(t, "Unload", "reset")
    BY <1>2 DEF Elsewhere, At
  <1>9. \/ UNCHANGED <<result, payload>>
        \/ (\E ok \in BOOLEAN : LoadResult(t, ok)) \/ LoadSwap(t)
    BY <1>8 DEF ResourceCall, RequestTest, RequestPush, RequestMark, LoadTest, LoadCopy, LoadMark,
           LoadNow, UnloadDrop, UnloadReset, data
  <1>10. ASSUME NEW r \in Resources, ~LoadedByCreate(r)
         PROVE  result'[r] = result[r] /\ payload'[r] = payload[r]
    <2>1. Head(calls[t]).op = "Load" => r # Res(t)
      BY <1>3, <1>10
    <2>2. CASE \E ok \in BOOLEAN : LoadResult(t, ok)
      BY <2>1, <2>2 DEF LoadResult, At, TypeOK
    <2>3. CASE LoadSwap(t)
      BY <2>1, <2>3 DEF LoadSwap, At, TypeOK
    <2> QED BY <1>9, <2>2, <2>3
  <1> QED BY <1>7, <1>10

(* The invariant, for a step in which Main stays where it is and its       *)
(* results and payloads stay what they are.                                *)
LEMMA BackedElsewhere ==
    ASSUME TypeOK, Backed, OthersRequest', UNCHANGED <<mpc, publishing>>, calls'[Main] = calls[Main],
           mpc = "publishResult" => loaded' = loaded,
           \A r \in Resources : ~LoadedByCreate(r) => result'[r] = result[r] /\ payload'[r] = payload[r]
    PROVE  Backed'
  <1>1. /\ \A at : At(Main, "Load", at)' <=> At(Main, "Load", at)
        /\ \A at : At(Main, "Unload", at)' <=> At(Main, "Unload", at)
        /\ Res(Main)' = Res(Main)
    BY DEF At, Res
  <1>2. \A r : LoadedByCreate(r)' = LoadedByCreate(r)
    BY DEF LoadedByCreate
  <1>3. At(Main, "Load", "swapFailed") => Res(Main) \in Resources
    <2>1. Main \in Threads
      BY DEF Threads
    <2> QED BY <2>1, TopTyped DEF At
  <1>4. publishing \subseteq Resources
    BY DEF TypeOK
  <1>5. \A r : Halfway(r)' <=> Halfway(r)
    BY <1>1 DEF Halfway
  <1> QED BY <1>1, <1>2, <1>3, <1>4, <1>5 DEF Backed

LEMMA MainCallBacks ==
    ASSUME TypeOK, Backed, ResourceCall(Main)
    PROVE  Backed'
  <1>1. Main \in Threads
    BY DEF Threads
  <1>2. /\ calls[Main] # <<>> /\ Res(Main) \in Resources
        /\ \A u \in Threads \ {Main} : calls'[u] = calls[u]
        /\ UNCHANGED <<loaded, mpc, publishing>>
        /\ \A f \in ToSet(Tail(calls'[Main])) : f \in ToSet(Tail(calls[Main])) \/ f.at # "swapFailed"
        /\ At(Main, "Load", "swapFailed")' =>
              \/ LoadResult(Main, FALSE) /\ Res(Main)' = Res(Main)
              \/ \E f \in ToSet(Tail(calls[Main])) : f.at = "swapFailed"
        /\ \A ok \in BOOLEAN : LoadResult(Main, ok) =>
              At(Main, "Load", IF ok THEN "swap" ELSE "swapFailed")' /\ Res(Main)' = Res(Main)
        /\ At(Main, "Unload", "enter") /\ ~UNCHANGED payload =>
              At(Main, "Unload", "reset")' /\ Res(Main)' = Res(Main)
    BY <1>1, CallFrames
  <1>3. /\ mpc = "frame" /\ mpc' = "frame"
        /\ \A f \in ToSet(Tail(calls[Main])) : f.at # "swapFailed"
    BY <1>2 DEF Backed
  <1>4. OthersRequest'
    BY <1>2 DEF Backed, OthersRequest, Elsewhere
  <1>5. result \in [Resources -> Outcomes] /\ payload \in [Resources -> BOOLEAN]
    BY DEF TypeOK
  <1>6. At(Main, "Load", "swapFailed")' => result'[Res(Main)'] # "Succeeded"
    BY <1>2, <1>3, <1>5 DEF LoadResult, Outcome
  <1>7. ASSUME NEW r \in Resources, result'[r] = "Succeeded", ~payload'[r], ~LoadedByCreate(r)
        PROVE  Halfway(r)'
    <2>1. result[r] = "Succeeded" /\ ~payload[r] =>
             Res(Main) = r /\ (At(Main, "Unload", "reset") \/ At(Main, "Load", "swap"))
      BY <1>3, <1>7 DEF Backed, Halfway
    <2>2. CASE UNCHANGED <<result, payload>>
      <3>1. Res(Main) = r /\ (At(Main, "Unload", "reset") \/ At(Main, "Load", "swap"))
        BY <1>7, <2>1, <2>2
      <3>2. UnloadReset(Main) \/ LoadSwap(Main)
        BY <3>1 DEF ResourceCall, RequestTest, RequestPush, RequestMark, LoadTest, LoadCopy,
               LoadResult,
               LoadMark, LoadNow, UnloadDrop, At
      <3> QED BY <1>2, <1>5, <1>7, <2>2, <3>1, <3>2 DEF UnloadReset, LoadSwap, At
    <2>3. ASSUME NEW ok \in BOOLEAN, LoadResult(Main, ok) PROVE Halfway(r)'
      <3>1. ~At(Main, "Unload", "reset") /\ ~At(Main, "Load", "swap") /\ UNCHANGED payload
        BY <2>3 DEF LoadResult, At
      <3>2. r = Res(Main)
        BY <1>5, <1>7, <2>1, <2>3, <3>1 DEF LoadResult
      <3>3. ok
        BY <1>2, <1>5, <1>7, <2>3, <3>2 DEF LoadResult, Outcome
      <3> QED BY <1>2, <2>3, <3>2, <3>3 DEF Halfway
    <2>4. CASE LoadSwap(Main)
      <3>1. result[r] = "Succeeded"
        BY <1>7, <2>4 DEF LoadSwap
      <3>2. CASE At(Main, "Load", "swap")
        BY <1>2, <1>5, <1>7, <2>1, <2>4, <3>1, <3>2 DEF LoadSwap, At
      <3>3. CASE At(Main, "Load", "swapFailed")
        <4>1. r # Res(Main)
          BY <1>7, <3>1, <3>3 DEF Backed
        <4> QED BY <1>2, <1>5, <1>7, <2>1, <2>4, <3>1, <3>3, <4>1 DEF LoadSwap, At
      <3> QED BY <2>4, <3>2, <3>3 DEF LoadSwap
    <2>5. CASE UnloadDrop(Main)
      <3>1. result[r] = "Succeeded" /\ At(Main, "Unload", "enter")
        BY <1>7, <2>5 DEF UnloadDrop
      <3>2. payload[r]
        BY <1>7, <2>1, <3>1 DEF At
      <3>3. ~UNCHANGED payload /\ r = Res(Main)
        BY <1>2, <1>5, <1>7, <2>5, <3>2 DEF UnloadDrop
      <3> QED BY <1>2, <3>1, <3>3 DEF Halfway
    <2>6. CASE UnloadReset(Main)
      BY <1>2, <1>5, <1>7, <2>1, <2>6 DEF UnloadReset
    <2>7. \/ UNCHANGED <<result, payload>> \/ (\E ok \in BOOLEAN : LoadResult(Main, ok))
          \/ LoadSwap(Main) \/ UnloadDrop(Main) \/ UnloadReset(Main)
      BY DEF ResourceCall, RequestTest, RequestPush, RequestMark, LoadTest, LoadCopy, LoadMark, LoadNow, data
    <2> QED BY <2>2, <2>3, <2>4, <2>5, <2>6, <2>7
  <1>8. \A r : LoadedByCreate(r)' = LoadedByCreate(r)
    BY DEF LoadedByCreate
  <1> QED BY <1>2, <1>3, <1>4, <1>6, <1>7, <1>8 DEF Backed

LEMMA PublishBacks ==
    ASSUME TypeOK, Backed, TransferLoaded \/ Publish
    PROVE  Backed'
  <1>1. /\ result \in [Resources -> Outcomes] /\ payload \in [Resources -> BOOLEAN]
        /\ loaded \in [Resources -> Outcomes] /\ publishing \subseteq Resources
    BY DEF TypeOK
  <1>2. calls' = calls /\ calls[Main] = <<>>
    BY DEF Backed, TransferLoaded, Publish, PublishSwap, PublishResult, PublishMark, PublishEnd
  <1>3. /\ OthersRequest' /\ Tail(calls[Main])' = Tail(calls[Main])
        /\ \A op, at : ~At(Main, op, at) /\ ~At(Main, op, at)'
    BY <1>2 DEF Backed, OthersRequest, Elsewhere, At
  <1>4. \A r : LoadedByCreate(r)' = LoadedByCreate(r)
    BY DEF LoadedByCreate
  <1>5. \A r : Halfway(r) <=> mpc = "publishResult" /\ r \in publishing
    BY <1>3 DEF Halfway
  <1>6. \A r : Halfway(r)' <=> mpc' = "publishResult" /\ r \in publishing'
    BY <1>3 DEF Halfway
  <1>7. /\ mpc' = "publishResult" =>
              \A r \in publishing' : loaded'[r] = "Succeeded" => payload'[r] \/ LoadedByCreate(r)
        /\ \A r \in Resources : result'[r] = "Succeeded" =>
              payload'[r] \/ Halfway(r)' \/ LoadedByCreate(r)
    <2>1. CASE TransferLoaded \/ PublishEnd
      BY <1>5, <2>1 DEF Backed, TransferLoaded, PublishEnd, data, queues
    <2>2. ASSUME NEW r \in Resources, PublishSwap(r)
          PROVE  /\ \A s \in publishing' : loaded'[s] = "Succeeded" => payload'[s]
                 /\ \A s \in Resources : result'[s] = "Succeeded" =>
                       payload'[s] \/ Halfway(s)' \/ LoadedByCreate(s)
      <3>1. /\ mpc = "publish" /\ mpc' = "publishResult" /\ publishing' = {r}
            /\ loaded' = loaded /\ result' = result
            /\ \A s \in Resources \ {r} : payload'[s] = payload[s]
            /\ loaded[r] = "Succeeded" => payload'[r]
        BY <1>1, <2>2 DEF PublishSwap, queues
      <3> QED BY <1>5, <1>6, <3>1 DEF Backed
    <2>3. CASE PublishResult
      <3>1. /\ mpc = "publishResult" /\ mpc' = "publishMark" /\ payload' = payload
            /\ \A s \in Resources : result'[s] = IF s \in publishing THEN loaded[s] ELSE result[s]
        BY <2>3 DEF PublishResult
      <3> QED BY <1>5, <3>1 DEF Backed
    <2>4. CASE PublishMark
      BY <1>5, <2>4 DEF Backed, PublishMark
    <2> QED BY <2>1, <2>2, <2>3, <2>4 DEF Publish
  <1>8. At(Main, "Load", "swapFailed")' => FALSE
    BY <1>3
  <1> QED BY <1>2, <1>3, <1>4, <1>7, <1>8 DEF Backed

LEMMA BackedStep ==
    ASSUME LoadsOnMain, LoadsAreClosed, TypeOK, Backed, [Next]_vars
    PROVE  Backed'
  <1>1. calls \in Stacks /\ Main \in Threads
    BY DEF TypeOK, Stacks, FrameType, Threads
  <1>2. CASE \E t \in Threads : ResourceCall(t)
    <2>1. ASSUME NEW t \in Threads \ {Main}, ResourceCall(t) PROVE Backed'
      <3>1. UNCHANGED <<loaded, mpc, publishing>> /\ calls'[Main] = calls[Main]
        BY <1>1, <2>1, CallFrames
      <3>2. OthersRequest' /\ \A r \in Resources : ~LoadedByCreate(r) =>
               result'[r] = result[r] /\ payload'[r] = payload[r]
        BY <2>1, OthersStayAway
      <3> QED BY <3>1, <3>2, BackedElsewhere
    <2> QED BY <1>2, <2>1, MainCallBacks
  <1>3. ASSUME NEW use \in setup.uses, Call(use[1], use[2], use[3]) PROVE Backed'
    <2> DEFINE t == use[1]
               h == Frame(use[2], use[3], "enter")
               w == <<h>>
    <2>1. /\ t \in Threads /\ use[2] \in Ops /\ use[3] \in Resources
          /\ use[2] # "Request" => t = Main
      BY ResourceAssumption DEF TypeOK, Ops, LoadsOnMain
    <2>2. h \in FrameType /\ h.op = use[2] /\ h.at = "enter"
      BY <2>1, FrameTyped DEF Steps
    <2>3. /\ calls' = [calls EXCEPT ![t] = w] /\ calls[t] = <<>> /\ (t = Main => mpc = "frame")
          /\ UNCHANGED <<result, payload, loaded, mpc, publishing>>
      BY <1>3 DEF Call, data, queues, control
    <2> HIDE DEF h, t
    <2>4. w \in Seq(FrameType) /\ w # <<>> /\ Head(w) = h /\ Tail(w) = <<>> /\ ToSet(w) = {h}
      <3>1. w \in Seq(FrameType) /\ w # <<>> /\ Head(w) = h /\ Tail(w) = <<>>
        BY <2>2
      <3>2. ToSet(<<>>) = {}
        BY DEF ToSet
      <3> HIDE DEF w
      <3>3. ToSet(w) = {Head(w)} \cup ToSet(Tail(w))
        BY <3>1, HeadAndTail
      <3> QED BY <3>1, <3>2, <3>3
    <2> HIDE DEF w
    <2>5. calls'[t] = w /\ \A u \in Threads \ {t} : calls'[u] = calls[u]
      BY <1>1, <2>1, <2>3, <2>4, StackChange
    <2>6. OthersRequest'
      <3>1. ASSUME NEW u \in Threads \ {Main}, NEW f \in ToSet(calls'[u]) PROVE Elsewhere(f)
        <4>1. CASE u = t
          BY <2>1, <2>2, <2>4, <2>5, <3>1, <4>1 DEF Elsewhere
        <4>2. CASE u # t
          BY <2>5, <3>1, <4>2 DEF Backed, OthersRequest
        <4> QED BY <4>1, <4>2
      <3> QED BY <3>1 DEF OthersRequest, Elsewhere
    <2>7. CASE t # Main
      BY <1>1, <2>3, <2>5, <2>6, <2>7, BackedElsewhere
    <2>8. CASE t = Main
      <3>1. ~At(Main, "Load", "swapFailed")' /\ ToSet(Tail(calls'[Main])) = {}
        BY <2>2, <2>4, <2>5, <2>8 DEF At, ToSet
      <3>2. \A r : ~Halfway(r)
        BY <2>3, <2>8 DEF Halfway, At
      <3>3. \A r : LoadedByCreate(r)' = LoadedByCreate(r)
        BY DEF LoadedByCreate
      <3> QED BY <2>3, <2>6, <2>8, <3>1, <3>2, <3>3 DEF Backed
    <2> QED BY <2>7, <2>8
  <1>4. ASSUME NEW l \in Loaders, Loader(l) \/ LoaderSpurious(l) PROVE Backed'
    <2>1. l \in Threads \ {Main}
      BY ResourceAssumption DEF Threads
    <2>2. \A u \in Threads \ {l} : calls'[u] = calls[u]
      BY <1>1, <1>4 DEF Loader, LoaderBlock, LoaderExit, LoaderTake, LoaderStore, LoaderSpurious, Stacks
    <2>3. UNCHANGED <<result, payload, mpc, publishing>> /\ (mpc = "publishResult" => loaded' = loaded)
      BY <1>4 DEF Loader, LoaderBlock, LoaderExit, LoaderTake, LoaderStore, LoaderSpurious, AFree,
             data, queues, control
    <2>4. \A f \in ToSet(calls'[l]) : Elsewhere(f)
      <3>1. \A f \in ToSet(calls[l]) : Elsewhere(f)
        BY <2>1 DEF Backed, OthersRequest
      <3>2. CASE calls' = calls
        BY <3>1, <3>2
      <3>3. CASE LoaderTake(l)
        <4> DEFINE q == toLoad[FirstType]
                   r == Head(q)
                   fs == Frames("Load", Needs[r])
                   g == <<Frame("Job", r, "store")>>
        <4>1. r \in Resources
          <5>1. q \in Seq(Resources) /\ q # <<>>
            BY <3>3, FirstTyped DEF LoaderTake, TypeOK, TypesWaiting
          <5> QED BY <5>1
        <4>2. calls'[l] = fs \o g
          BY <1>1, <2>1, <3>3 DEF LoaderTake, Stacks
        <4>3. Needs[r] \in Seq(Resources)
          BY <4>1, ResourceAssumption
        <4>4. fs \in Seq(FrameType) /\ \A f \in ToSet(fs) : f.op = "Load" /\ f.res \in ToSet(Needs[r])
          BY <4>3, FramesTyped DEF Ops
        <4>5. Frame("Job", r, "store") \in FrameType /\ Frame("Job", r, "store").op = "Job"
          BY <4>1, FrameTyped DEF Ops, Steps
        <4>6. \A k \in ToSet(Needs[r]) : LoadedByCreate(k)
          BY <4>1, <4>3, ToSetIs DEF LoadedByCreate
        <4> HIDE DEF fs, r
        <4>7. g \in Seq(FrameType) /\ \A f \in ToSet(g) : f = Frame("Job", r, "store")
          <5>1. g \in Seq(FrameType) /\ Len(g) = 1 /\ g[1] = Frame("Job", r, "store")
            BY <4>5
          <5> HIDE DEF g
          <5>2. \A f \in ToSet(g) : \E i \in 1..1 : g[i] = f
            BY <5>1, ToSetIs
          <5> QED BY <5>1, <5>2
        <4> HIDE DEF g
        <4>8. ToSet(fs \o g) = ToSet(fs) \cup ToSet(g)
          BY <4>4, <4>7, ToSetConcat
        <4> QED BY <4>2, <4>4, <4>5, <4>6, <4>7, <4>8 DEF Elsewhere
      <3>4. ASSUME NEW ok \in BOOLEAN, LoaderStore(l, ok) PROVE \A f \in ToSet(calls'[l]) : Elsewhere(f)
        <4> DEFINE fs == IF ok THEN Frames("Request", Kids[Res(l)]) ELSE <<>>
                   rest == Tail(calls[l])
        <4>1. calls[l] # <<>> /\ calls[l] \in Seq(FrameType)
          BY <1>1, <2>1, <3>4 DEF LoaderStore, At, Stacks
        <4>2. Res(l) \in Resources /\ rest \in Seq(FrameType) /\ ToSet(rest) \subseteq ToSet(calls[l])
          BY <2>1, <4>1, TopTyped, HeadAndTail
        <4>3. calls'[l] = fs \o rest
          BY <1>1, <2>1, <3>4 DEF LoaderStore, Stacks
        <4>4. fs \in Seq(FrameType) /\ \A f \in ToSet(fs) : f.op = "Request"
          <5>1. Kids[Res(l)] \in Seq(Resources) /\ "Request" \in Ops
            BY <4>2, ResourceAssumption DEF Ops
          <5>2. /\ Frames("Request", Kids[Res(l)]) \in Seq(FrameType)
                /\ \A f \in ToSet(Frames("Request", Kids[Res(l)])) : f.op = "Request"
            BY <5>1, FramesTyped
          <5> QED BY <5>2 DEF ToSet
        <4> HIDE DEF fs, rest
        <4>5. ToSet(fs \o rest) = ToSet(fs) \cup ToSet(rest)
          BY <4>2, <4>4, ToSetConcat
        <4> QED BY <3>1, <4>2, <4>3, <4>4, <4>5 DEF Elsewhere
      <3> QED BY <1>4, <3>2, <3>3, <3>4 DEF Loader, LoaderBlock, LoaderExit, LoaderSpurious
    <2>5. OthersRequest'
      <3>1. ASSUME NEW u \in Threads \ {Main}, NEW f \in ToSet(calls'[u]) PROVE Elsewhere(f)
        BY <2>2, <2>4, <3>1 DEF Backed, OthersRequest
      <3> QED BY <3>1 DEF OthersRequest, Elsewhere
    <2> QED BY <1>1, <2>1, <2>2, <2>3, <2>5, BackedElsewhere
  <1>5. CASE TransferQueues \/ TransferNotify \/ (\E t \in Threads : TransferContext(t)) \/ Shutdown
    <2>1. UNCHANGED <<calls, result, payload, loaded, publishing>>
      BY <1>5 DEF TransferQueues, TransferNotify, TransferContext, Shutdown, Stop, StopNotify, StopJoin,
             data, queues
    <2>2. calls[Main] = <<>> /\ mpc # "publishResult" /\ mpc' # "publishResult"
      BY <1>5 DEF Backed, TransferQueues, TransferNotify, TransferContext, Shutdown, Stop, StopNotify, StopJoin
    <2>3. \A r : ~Halfway(r) /\ LoadedByCreate(r)' = LoadedByCreate(r)
      BY <2>2 DEF Halfway, At, LoadedByCreate
    <2>4. OthersRequest'
      BY <2>1 DEF Backed, OthersRequest, Elsewhere
    <2>5. ~At(Main, "Load", "swapFailed")'
      BY <2>1, <2>2 DEF At
    <2> QED BY <2>1, <2>2, <2>3, <2>4, <2>5 DEF Backed
  <1>6. CASE UNCHANGED vars
    <2>1. UNCHANGED <<calls, result, payload, loaded, publishing, mpc>>
      BY <1>6 DEF vars, moving, data, queues, control
    <2>2. OthersRequest'
      BY <2>1 DEF Backed, OthersRequest, Elsewhere
    <2> QED BY <2>1, <2>2, BackedElsewhere
  <1> QED BY <1>2, <1>3, <1>4, <1>5, <1>6, PublishBacks DEF Next, Transfer

(* Where Main looks, a resource that is reported valid has its payload:    *)
(* for any mixture of requests, loads and unloads on Main with requests    *)
(* and loaders on other threads.                                           *)
THEOREM PayloadBehindValid == LoadsOnMain /\ LoadsAreClosed => (Spec => []ValidHasPayload)
  <1> SUFFICES ASSUME LoadsOnMain, LoadsAreClosed PROVE Spec => []ValidHasPayload
    OBVIOUS
  <1>1. Init => Backed
    <2> SUFFICES ASSUME Init PROVE Backed
      OBVIOUS
    <2>1. \A t \in Threads : calls[t] = <<>>
      BY DEF Init
    <2>2. Main \in Threads /\ ToSet(<<>>) = {} /\ ToSet(Tail(calls[Main])) = {}
      <3>1. Main \in Threads /\ ToSet(<<>>) = {}
        BY DEF Threads, ToSet
      <3>2. Tail(calls[Main]) = <<>>
        BY <2>1, <3>1
      <3> QED BY <3>1, <3>2
    <2>3. OthersRequest
      BY <2>1, <2>2 DEF OthersRequest
    <2>4. mpc = "frame" /\ \A r \in Resources : result[r] # "Succeeded"
      BY DEF Init
    <2> QED BY <2>1, <2>2, <2>3, <2>4 DEF Backed, At
  <1>2. Backed => ValidHasPayload
    BY DEF Backed, ValidHasPayload, IsValid, Halfway, At
  <1>3. TypeOK /\ Backed /\ [Next]_vars => Backed'
    BY BackedStep
  <1> QED BY <1>1, <1>2, <1>3, ResourcesTyped, PTL DEF Spec

-----------------------------------------------------------------------------
(* The programs in which no request is lost: Main requests resources that  *)
(* no other one in play has as its child, and either nothing in play has   *)
(* children or there is one loader.  (ResourceReload and ResourceLostMark  *)
(* show what happens in others.)                                           *)
Fits(s, R) ==
    /\ \A r \in R : ToSet(Needs[r]) \cup ToSet(Kids[r]) \subseteq R
    /\ s.uses \subseteq {Main} \X {"Request"} \X {r \in R : \A o \in R : r \notin ToSet(Kids[o])}
    /\ \/ \A r \in R : Kids[r] = <<>>
       \/ \E l \in Loaders : s.threads \cap Loaders \subseteq {l}

OnlyRequests == \A s \in Setups : \E R \in SUBSET Resources : Fits(s, R)

InPlay == CHOOSE R \in SUBSET Resources : Fits(setup, R)
KidsInPlay == UNION {ToSet(Kids[r]) : r \in InPlay}

(* Who calls what: Main requests between two transfers, loaders request    *)
(* children, and only the innermost call can be past its test.             *)
GoodFrame(t, f) ==
    /\ f.res \in InPlay
    /\ f.op \in {"Request", "Load", "Job"}
    /\ f.op = "Request" => (t = Main <=> f.res \notin KidsInPlay)

GoodStack(t) ==
    calls[t] # <<>> =>
        /\ t \in setup.threads /\ t \in {Main} \cup Loaders
        /\ t = Main => mpc = "frame"
        /\ \A f \in ToSet(calls[t]) : GoodFrame(t, f)
        /\ \A f \in ToSet(Tail(calls[t])) : f.op = "Request" => f.at = "enter"

Shape == \A t \in Threads : GoodStack(t)

Around ==
    /\ \A y \in Types : ToSet(shared[y]) \subseteq InPlay /\ ToSet(toLoad[y]) \subseteq InPlay
    /\ \A l \in Loaders : lpc[l] # "exited" => l \in setup.threads

(* A request that is past its test finds the resource not requested, and   *)
(* on no list of what is to be removed from the queues: nobody else        *)
(* requests it.                                                            *)
PastTest(t) == At(t, "Request", "push") \/ At(t, "Request", "mark")

Tested ==
    \A t \in Threads : PastTest(t) =>
        state[Res(t)] # "Requested" /\ \A u \in Threads : Res(t) \notin toRemove[u]

(* A copy is removed only if a Load has loaded it or is about to.          *)
Copying == {"result", "swap", "swapFailed", "mark"}
Making == Copying \cup {"store"}

Creating(t, op, r) ==
    \E f \in ToSet(calls[t]) : f.op = op /\ f.res = r /\ f.at \in Making

InLoad(r) == \E t \in Threads : Creating(t, "Load", r)

Removed ==
    \A u \in Threads : \A r \in toRemove[u] :
        state[r] = "Loaded" \/ (state[r] = "Requested" /\ InLoad(r))

(* What is about to be marked has been pushed, and no loader took it yet.  *)
Waits(q, r) == r \in ToSet(q[TypeOf[r]])

Pushed ==
    \A t \in Threads : At(t, "Request", "mark") =>
        Waits(shared, Res(t)) \/ (t # Main /\ Waits(toLoad, Res(t)))

InJob(r) == \E t \in Threads : Creating(t, "Job", r)

Pending ==
    \A r \in Resources : state[r] = "Requested" =>
        Waits(shared, r) \/ Waits(toLoad, r) \/ InJob(r) \/ InLoad(r) \/ loaded[r] # "None"

RequestInv == Shape /\ Around /\ Tested /\ Removed /\ Pushed /\ Pending

LEMMA PlayFits ==
    ASSUME OnlyRequests, TypeOK
    PROVE  InPlay \subseteq Resources /\ Fits(setup, InPlay)
  <1>1. \E R \in SUBSET Resources : Fits(setup, R)
    BY DEF OnlyRequests, TypeOK
  <1> QED BY <1>1 DEF InPlay

LEMMA PlayStays == UNCHANGED setup => InPlay' = InPlay /\ KidsInPlay' = KidsInPlay
  <1> SUFFICES ASSUME UNCHANGED setup PROVE InPlay' = InPlay /\ KidsInPlay' = KidsInPlay
    OBVIOUS
  <1>1. InPlay' = InPlay
    BY DEF InPlay, Fits
  <1> QED BY <1>1 DEF KidsInPlay

LEMMA KidsAndNeeds ==
    ASSUME OnlyRequests, TypeOK, NEW r \in InPlay
    PROVE  /\ r \in Resources
           /\ Needs[r] \in Seq(Resources) /\ ToSet(Needs[r]) \subseteq InPlay
           /\ Kids[r] \in Seq(Resources) /\ ToSet(Kids[r]) \subseteq InPlay
           /\ ToSet(Kids[r]) \subseteq KidsInPlay
  BY PlayFits, ResourceAssumption DEF Fits, KidsInPlay

(* Only one thread can be about to request a resource.                     *)
LEMMA OneRequester ==
    ASSUME OnlyRequests, TypeOK, Shape, NEW t \in Threads, NEW u \in Threads,
           calls[t] # <<>>, Head(calls[t]).op = "Request",
           calls[u] # <<>>, Head(calls[u]).op = "Request", Res(t) = Res(u)
    PROVE  t = u
  <1>1. Head(calls[t]) \in ToSet(calls[t]) /\ Head(calls[u]) \in ToSet(calls[u])
    <2>1. calls \in Stacks
      BY DEF TypeOK, Stacks, FrameType
    <2> QED BY <2>1, HeadAndTail DEF Stacks
  <1>2. /\ t \in setup.threads /\ t \in {Main} \cup Loaders /\ (t = Main <=> Res(t) \notin KidsInPlay)
        /\ u \in setup.threads /\ u \in {Main} \cup Loaders /\ (u = Main <=> Res(u) \notin KidsInPlay)
    BY <1>1 DEF Shape, GoodStack, GoodFrame, Res
  <1>3. CASE Res(t) \in KidsInPlay
    <2>1. PICK l \in Loaders : setup.threads \cap Loaders \subseteq {l}
      <3>1. ~(\A r \in InPlay : Kids[r] = <<>>)
        BY <1>3 DEF KidsInPlay, ToSet
      <3> QED BY <3>1, PlayFits DEF Fits
    <2> QED BY <1>2, <1>3, <2>1
  <1> QED BY <1>2, <1>3

-----------------------------------------------------------------------------
(* What the steps of a call do to the stack of its thread.                 *)
LEMMA PopEffect ==
    ASSUME TypeOK, Shape, NEW t \in Threads, calls[t] # <<>>, Return(t), UNCHANGED <<setup, mpc>>
    PROVE  /\ GoodStack(t)' /\ ~PastTest(t)'
           /\ \A op, r : Creating(t, op, r) =>
                 Creating(t, op, r)' \/ (At(t, op, "mark") /\ Res(t) = r)
                 \/ Head(calls[t]).at \in Making \ {"mark"}
  <1> DEFINE h == Head(calls[t])
             w == Tail(calls[t])
  <1>1. calls \in Stacks
    BY DEF TypeOK, Stacks, FrameType
  <1>2. calls'[t] = w /\ h \in FrameType /\ w \in Seq(FrameType) /\ ToSet(calls[t]) = {h} \cup ToSet(w)
    BY <1>1, Returns, HeadAndTail DEF Stacks
  <1>3. InPlay' = InPlay /\ KidsInPlay' = KidsInPlay
    BY PlayStays
  <1>4. /\ t \in setup.threads /\ t \in {Main} \cup Loaders /\ (t = Main => mpc = "frame")
        /\ \A f \in ToSet(calls[t]) : GoodFrame(t, f)
        /\ \A f \in ToSet(w) : f.op = "Request" => f.at = "enter"
    BY DEF Shape, GoodStack
  <1> HIDE DEF w
  <1>5. ASSUME w # <<>>
        PROVE  Head(w) \in ToSet(w) /\ \A f \in ToSet(Tail(w)) : f \in ToSet(w)
    BY <1>2, <1>5, HeadAndTail
  <1>6. GoodStack(t)'
    <2>1. ASSUME w # <<>>
          PROVE  /\ \A f \in ToSet(w) : GoodFrame(t, f)
                 /\ \A f \in ToSet(Tail(w)) : f.op = "Request" => f.at = "enter"
      BY <1>2, <1>4, <1>5, <2>1
    <2> QED BY <1>2, <1>3, <1>4, <2>1 DEF GoodStack, GoodFrame
  <1>7. ~PastTest(t)'
    BY <1>2, <1>4, <1>5 DEF PastTest, At
  <1>8. ASSUME NEW op, NEW r, Creating(t, op, r)
        PROVE  Creating(t, op, r)' \/ (At(t, op, "mark") /\ Res(t) = r)
               \/ Head(calls[t]).at \in Making \ {"mark"}
    <2>1. PICK f \in ToSet(calls[t]) : f.op = op /\ f.res = r /\ f.at \in Making
      BY <1>8 DEF Creating
    <2>2. CASE f \in ToSet(w)
      BY <1>2, <2>1, <2>2 DEF Creating
    <2>3. CASE f = h
      BY <2>1, <2>3 DEF At, Res
    <2> QED BY <1>2, <2>1, <2>2, <2>3
  <1> QED BY <1>6, <1>7, <1>8

LEMMA GoEffect ==
    ASSUME TypeOK, Shape, NEW t \in Threads, calls[t] # <<>>, NEW at \in Steps,
           NEW fs \in Seq(FrameType), Continue(t, at, fs), UNCHANGED <<setup, mpc>>,
           \A f \in ToSet(fs) : f.op = "Load" /\ f.res \in InPlay /\ f.at = "enter",
           fs # <<>> => Head(calls[t]).op = "Load"
    PROVE  /\ GoodStack(t)'
           /\ PastTest(t)' => /\ Head(calls[t]).op = "Request" /\ at \in {"push", "mark"}
                              /\ Res(t)' = Res(t)
                              /\ At(t, "Request", "mark")' => at = "mark"
           /\ \A op, r : Head(calls[t]).op = op /\ Res(t) = r /\ at \in Copying =>
                 Creating(t, op, r)'
           /\ \A op, r : Creating(t, op, r) =>
                 \/ Creating(t, op, r)'
                 \/ Head(calls[t]).at \in Making /\ at \notin Copying
  <1> DEFINE old == Head(calls[t])
             rest == Tail(calls[t])
             h == Frame(old.op, Res(t), at)
             w == fs \o <<h>> \o rest
  <1>1. calls \in Stacks
    BY DEF TypeOK, Stacks, FrameType
  <1>2. old \in FrameType /\ rest \in Seq(FrameType) /\ ToSet(calls[t]) = {old} \cup ToSet(rest)
    BY <1>1, HeadAndTail DEF Stacks
  <1>3. calls'[t] = w /\ h \in FrameType
    BY <1>1, Continues
  <1>4. h.op = old.op /\ h.res = old.res /\ h.at = at /\ Res(t) = old.res
    BY DEF Frame, Res
  <1>5. InPlay' = InPlay /\ KidsInPlay' = KidsInPlay
    BY PlayStays
  <1>6. /\ t \in setup.threads /\ t \in {Main} \cup Loaders /\ (t = Main => mpc = "frame")
        /\ \A f \in ToSet(calls[t]) : GoodFrame(t, f)
        /\ \A f \in ToSet(rest) : f.op = "Request" => f.at = "enter"
    BY DEF Shape, GoodStack
  <1> HIDE DEF h, rest, old
  <1>7. /\ w \in Seq(FrameType) /\ w # <<>>
        /\ ToSet(w) = ToSet(fs) \cup {h} \cup ToSet(rest)
        /\ ToSet(Tail(w)) \subseteq ToSet(w)
        /\ IF fs = <<>> THEN Head(w) = h /\ Tail(w) = rest ELSE Head(w) \in ToSet(fs)
    BY <1>2, <1>3, Stacked
  <1> HIDE DEF w
  <1>8. GoodStack(t)'
    <2>1. GoodFrame(t, h)
      BY <1>2, <1>4, <1>6 DEF GoodFrame
    <2>2. \A f \in ToSet(fs) : GoodFrame(t, f)
      BY DEF GoodFrame
    <2>3. \A f \in ToSet(w) : GoodFrame(t, f)
      BY <1>2, <1>6, <1>7, <2>1, <2>2
    <2>4. \A f \in ToSet(Tail(w)) : f.op = "Request" => f.at = "enter"
      <3>1. CASE fs = <<>>
        BY <1>6, <1>7, <3>1
      <3>2. CASE fs # <<>>
        <4>1. h.op # "Request"
          BY <1>4, <3>2 DEF old
        <4> QED BY <1>6, <1>7, <4>1
      <3> QED BY <3>1, <3>2
    <2> QED BY <1>3, <1>5, <1>6, <2>3, <2>4 DEF GoodStack, GoodFrame
  <1>9. ASSUME PastTest(t)'
        PROVE  /\ old.op = "Request" /\ at \in {"push", "mark"} /\ Res(t)' = Res(t)
               /\ At(t, "Request", "mark")' => at = "mark"
    <2>1. Head(w).op = "Request" /\ Head(w).at \in {"push", "mark"}
      BY <1>3, <1>9 DEF PastTest, At
    <2>2. Head(w) = h
      BY <1>7, <2>1
    <2> QED BY <1>3, <1>4, <2>1, <2>2 DEF Res, At
  <1>10. ASSUME NEW op, NEW r, old.op = op, Res(t) = r, at \in Copying
         PROVE  Creating(t, op, r)'
    BY <1>3, <1>4, <1>7, <1>10 DEF Creating, Making
  <1>11. ASSUME NEW op, NEW r, Creating(t, op, r)
         PROVE  \/ Creating(t, op, r)'
                \/ old.at \in Making /\ at \notin Copying
    <2>1. PICK f \in ToSet(calls[t]) : f.op = op /\ f.res = r /\ f.at \in Making
      BY <1>11 DEF Creating
    <2>2. CASE f \in ToSet(rest)
      BY <1>3, <1>7, <2>1, <2>2 DEF Creating
    <2>3. CASE f = old
      BY <1>3, <1>4, <1>7, <2>1, <2>3 DEF Creating, Making
    <2> QED BY <1>2, <2>1, <2>2, <2>3
  <1> QED BY <1>8, <1>9, <1>10, <1>11 DEF old

LEMMA CallEffect ==
    ASSUME OnlyRequests, TypeOK, Shape, NEW t \in Threads, ResourceCall(t), UNCHANGED setup
    PROVE  /\ Shape' /\ \A u \in Threads \ {t} : calls'[u] = calls[u]
           /\ ~(LoadNow(t) \/ UnloadDrop(t) \/ UnloadReset(t))
           /\ PastTest(t)' => /\ Res(t)' = Res(t)
                              /\ \/ RequestTest(t) /\ MustRequest(Res(t)) /\ ~At(t, "Request", "mark")'
                                 \/ RequestPush(t)
           /\ LoadCopy(t) => \A r : Res(t) = r => Creating(t, "Load", r)'
           /\ \A op \in {"Load", "Job"} : \A r : Creating(t, op, r) =>
                 Creating(t, op, r)' \/ (LoadMark(t) /\ op = "Load" /\ Res(t) = r)
  <1>1. calls \in Stacks
    BY DEF TypeOK, Stacks, FrameType
  <1>2. calls[t] # <<>>
    BY DEF ResourceCall, At, RequestTest, RequestPush, RequestMark, LoadTest, LoadCopy, LoadResult,
           LoadSwap,
           LoadMark, LoadNow, UnloadDrop, UnloadReset
  <1>3. Head(calls[t]) \in FrameType /\ Head(calls[t]) \in ToSet(calls[t])
    BY <1>1, <1>2, HeadAndTail DEF Stacks
  <1>4. Head(calls[t]).op \in {"Request", "Load", "Job"} /\ Res(t) \in InPlay
    BY <1>2, <1>3 DEF Shape, GoodStack, GoodFrame, Res
  <1>5. ~(LoadNow(t) \/ UnloadDrop(t) \/ UnloadReset(t))
    BY <1>4 DEF LoadNow, UnloadDrop, UnloadReset, At
  <1>6. UNCHANGED mpc
    BY DEF ResourceCall, RequestTest, RequestPush, RequestMark, LoadTest, LoadCopy, LoadResult,
           LoadSwap,
           LoadMark, LoadNow, UnloadDrop, UnloadReset, control
  <1>7. \A u \in Threads \ {t} : calls'[u] = calls[u]
    BY <1>1 DEF ResourceCall, RequestTest, RequestPush, RequestMark, LoadTest, LoadCopy,
           LoadResult, LoadSwap,
           LoadMark, LoadNow, UnloadDrop, UnloadReset, Return, Continue, Stacks
  <1>8. GoodStack(t)' => Shape'
    <2>1. ASSUME NEW u \in Threads \ {t} PROVE GoodStack(u)'
      <3>1. GoodStack(u) /\ calls'[u] = calls[u]
        BY <1>7 DEF Shape
      <3>2. InPlay' = InPlay /\ KidsInPlay' = KidsInPlay
        BY PlayStays
      <3> QED BY <1>6, <3>1, <3>2 DEF GoodStack, GoodFrame
    <2> QED BY <2>1 DEF Shape
  <1>9. <<>> \in Seq(FrameType) /\ ToSet(<<>>) = {}
    BY DEF ToSet
  <1>10. {"push", "copy"} \cup Copying \subseteq Steps /\ "Load" \in Ops
    BY DEF Steps, Ops, Copying
  <1>11. CASE RequestTest(t) \/ LoadTest(t)
    <2>1. CASE Return(t)
      <3>1. GoodStack(t)' /\ ~PastTest(t)' /\ \A op : ~At(t, op, "mark") /\ Head(calls[t]).at \notin Making
        BY <1>2, <1>6, <1>11, <2>1, PopEffect DEF RequestTest, LoadTest, At, Making, Copying
      <3>2. \A op, r : Creating(t, op, r) => Creating(t, op, r)'
        BY <1>2, <1>6, <2>1, <3>1, PopEffect
      <3> QED BY <1>5, <1>7, <1>8, <1>11, <3>1, <3>2 DEF RequestTest, LoadTest, LoadCopy, At
    <2>2. ASSUME NEW at \in {"push", "copy"}, Continue(t, at, <<>>),
                 at = "push" => RequestTest(t) /\ MustRequest(Res(t))
          PROVE  /\ GoodStack(t)'
                 /\ PastTest(t)' => /\ Res(t)' = Res(t) /\ RequestTest(t) /\ MustRequest(Res(t))
                                    /\ ~At(t, "Request", "mark")'
                 /\ \A op, r : Creating(t, op, r) => Creating(t, op, r)'
      <3>1. Head(calls[t]).at = "enter" /\ at \in Steps
        BY <1>10, <1>11 DEF RequestTest, LoadTest, At
      <3>2. \A f \in ToSet(<<>>) : f.op = "Load" /\ f.res \in InPlay /\ f.at = "enter"
        BY <1>9
      <3>3. UNCHANGED <<setup, mpc>>
        BY <1>6
      <3>4. /\ GoodStack(t)'
            /\ PastTest(t)' => /\ at \in {"push", "mark"} /\ Res(t)' = Res(t)
                               /\ At(t, "Request", "mark")' => at = "mark"
            /\ \A op, r : Creating(t, op, r) =>
                  Creating(t, op, r)' \/ Head(calls[t]).at \in Making
        BY <1>2, <1>9, <2>2, <3>1, <3>2, <3>3, GoEffect
      <3> QED BY <2>2, <3>1, <3>4 DEF Making, Copying
    <2>3. ~LoadCopy(t) /\ ~LoadMark(t)
      BY <1>11 DEF RequestTest, LoadTest, LoadCopy, LoadMark, At
    <2>4. \/ Return(t)
          \/ RequestTest(t) /\ MustRequest(Res(t)) /\ Continue(t, "push", <<>>)
          \/ LoadTest(t) /\ Continue(t, "copy", <<>>)
      BY <1>11 DEF RequestTest, LoadTest
    <2> QED BY <1>5, <1>7, <1>8, <2>1, <2>2, <2>3, <2>4
  <1>12. CASE RequestMark(t) \/ LoadMark(t)
    <2>1. Return(t) /\ Head(calls[t]).at = "mark" /\ Head(calls[t]).op = (IF LoadMark(t) THEN "Load" ELSE "Request")
      BY <1>12 DEF RequestMark, LoadMark, At
    <2>2. /\ GoodStack(t)' /\ ~PastTest(t)'
          /\ \A op, r : Creating(t, op, r) =>
                 Creating(t, op, r)' \/ (At(t, op, "mark") /\ Res(t) = r)
                 \/ Head(calls[t]).at \in Making \ {"mark"}
      BY <1>2, <1>6, <2>1, PopEffect
    <2>3. ASSUME NEW op \in {"Load", "Job"}, NEW r, Creating(t, op, r)
          PROVE  Creating(t, op, r)' \/ (LoadMark(t) /\ op = "Load" /\ Res(t) = r)
      <3>1. CASE LoadMark(t)
        BY <2>1, <2>2, <2>3, <3>1 DEF At
      <3>2. CASE ~LoadMark(t)
        BY <2>1, <2>2, <2>3, <3>2 DEF At
      <3> QED BY <3>1, <3>2
    <2>4. ~LoadCopy(t)
      BY <1>12 DEF RequestMark, LoadMark, LoadCopy, At
    <2> QED BY <1>5, <1>7, <1>8, <2>2, <2>3, <2>4
  <1>13. CASE RequestPush(t)
    <2>1. Continue(t, "mark", <<>>) /\ Head(calls[t]).op = "Request"
      BY <1>13 DEF RequestPush, At
    <2>2. \A f \in ToSet(<<>>) : f.op = "Load" /\ f.res \in InPlay /\ f.at = "enter"
      BY <1>9
    <2>3. /\ GoodStack(t)' /\ (PastTest(t)' => Res(t)' = Res(t))
          /\ \A op, r : Creating(t, op, r) => Creating(t, op, r)'
      BY <1>2, <1>6, <1>9, <1>10, <2>1, <2>2, GoEffect DEF Making, Copying
    <2>4. ~LoadCopy(t)
      BY <1>13 DEF RequestPush, LoadCopy, At
    <2> QED BY <1>5, <1>7, <1>8, <1>13, <2>3, <2>4
  <1>14. ASSUME NEW at \in Copying, NEW fs \in Seq(FrameType), Continue(t, at, fs),
                fs = <<>> \/ fs = Frames("Load", Needs[Res(t)]) \/ fs = Frames("Load", Kids[Res(t)]),
                Head(calls[t]).op = "Load"
         PROVE  /\ GoodStack(t)' /\ ~PastTest(t)'
                /\ \A r : Res(t) = r => Creating(t, "Load", r)'
                /\ \A op, r : Creating(t, op, r) => Creating(t, op, r)'
    <2>1. \A f \in ToSet(fs) : f.op = "Load" /\ f.res \in InPlay /\ f.at = "enter"
      BY <1>4, <1>9, <1>10, <1>14, KidsAndNeeds, FramesTyped
    <2>2. at \in Steps
      BY <1>10
    <2> QED BY <1>2, <1>6, <1>14, <2>1, <2>2, GoEffect
  <1>15. CASE LoadCopy(t) \/ LoadSwap(t) \/ \E ok \in BOOLEAN : LoadResult(t, ok)
    <2>1. \E at \in Copying : \E fs \in {<<>>, Frames("Load", Needs[Res(t)]), Frames("Load", Kids[Res(t)])} :
             Continue(t, at, fs) /\ Head(calls[t]).op = "Load"
      BY <1>15 DEF LoadCopy, LoadResult, LoadSwap, At, Copying
    <2>2. {<<>>, Frames("Load", Needs[Res(t)]), Frames("Load", Kids[Res(t)])} \subseteq Seq(FrameType)
      BY <1>4, <1>9, <1>10, KidsAndNeeds, FramesTyped
    <2> QED BY <1>5, <1>7, <1>8, <1>14, <2>1, <2>2
  <1> QED BY <1>5, <1>11, <1>12, <1>13, <1>15 DEF ResourceCall

-----------------------------------------------------------------------------
(* RequestInv is inductive, step by step.                                  *)
LEMMA CallKeeps ==
    ASSUME OnlyRequests, TypeOK, RequestInv, NEW t \in Threads, ResourceCall(t), UNCHANGED setup
    PROVE  RequestInv'
  <1> USE DEF RequestInv
  <1>1. /\ Shape' /\ \A u \in Threads \ {t} : calls'[u] = calls[u]
        /\ ~(LoadNow(t) \/ UnloadDrop(t) \/ UnloadReset(t))
        /\ PastTest(t)' => /\ Res(t)' = Res(t)
                           /\ \/ RequestTest(t) /\ MustRequest(Res(t)) /\ ~At(t, "Request", "mark")'
                              \/ RequestPush(t)
        /\ LoadCopy(t) => \A r : Res(t) = r => Creating(t, "Load", r)'
        /\ \A op \in {"Load", "Job"} : \A r : Creating(t, op, r) =>
              Creating(t, op, r)' \/ (LoadMark(t) /\ op = "Load" /\ Res(t) = r)
    BY CallEffect
  <1>2. Res(t) \in InPlay /\ Res(t) \in Resources /\ InPlay' = InPlay
    <2>1. calls[t] # <<>> /\ calls[t] \in Seq(FrameType)
      BY DEF TypeOK, FrameType, ResourceCall, At, RequestTest, RequestPush, RequestMark, LoadTest,
             LoadCopy, LoadResult,
             LoadSwap, LoadMark, LoadNow, UnloadDrop, UnloadReset
    <2>2. Head(calls[t]) \in ToSet(calls[t])
      BY <2>1, HeadAndTail
    <2> QED BY <2>1, <2>2, PlayFits, PlayStays DEF Shape, GoodStack, GoodFrame, Res
  <1>3. /\ UNCHANGED <<toLoad, loaded, lpc>>
        /\ ~RequestPush(t) => UNCHANGED shared
        /\ ~LoadCopy(t) => UNCHANGED toRemove
        /\ ~RequestMark(t) /\ ~LoadMark(t) => UNCHANGED state
    BY <1>1 DEF ResourceCall, RequestTest, RequestPush, RequestMark, LoadTest, LoadCopy,
           LoadResult, LoadSwap, LoadMark,
           data, queues, control
  <1>4. /\ RequestPush(t) => /\ \A y \in Types : ToSet(shared'[y]) \subseteq ToSet(shared[y]) \cup {Res(t)}
                             /\ \A y \in Types : ToSet(shared[y]) \subseteq ToSet(shared'[y])
                             /\ Res(t) \in ToSet(shared'[TypeOf[Res(t)]])
        /\ RequestMark(t) => state' = [state EXCEPT ![Res(t)] = "Requested"] /\ At(t, "Request", "mark")
        /\ LoadMark(t) => state' = [state EXCEPT ![Res(t)] = "Loaded"]
        /\ LoadCopy(t) => /\ \A u \in Threads : toRemove'[u] \subseteq toRemove[u] \cup {Res(t)}
                          /\ state[Res(t)] # "Requested" => toRemove' = toRemove
    <2>1. ASSUME RequestPush(t)
          PROVE  /\ \A y \in Types : ToSet(shared'[y]) \subseteq ToSet(shared[y]) \cup {Res(t)}
                 /\ \A y \in Types : ToSet(shared[y]) \subseteq ToSet(shared'[y])
                 /\ Res(t) \in ToSet(shared'[TypeOf[Res(t)]])
      <3> DEFINE y0 == TypeOf[Res(t)]
      <3>1. y0 \in Types /\ shared \in [Types -> Seq(Resources)] /\ shared[y0] \in Seq(Resources)
        BY <1>2, ResourceAssumption DEF TypeOK
      <3>2. shared' = [shared EXCEPT ![y0] = Append(shared[y0], Res(t))]
        BY <2>1 DEF RequestPush
      <3>3. ToSet(Append(shared[y0], Res(t))) = ToSet(shared[y0]) \cup {Res(t)}
        BY <1>2, <3>1, ToSetAppend
      <3>4. shared'[y0] = Append(shared[y0], Res(t)) /\ \A y \in Types : y # y0 => shared'[y] = shared[y]
        BY <3>1, <3>2
      <3> HIDE DEF y0
      <3>5. ToSet(shared'[y0]) = ToSet(shared[y0]) \cup {Res(t)}
        BY <3>3, <3>4
      <3>6. ASSUME NEW y \in Types PROVE ToSet(shared'[y]) \subseteq ToSet(shared[y]) \cup {Res(t)}
                                         /\ ToSet(shared[y]) \subseteq ToSet(shared'[y])
        <4>1. CASE y = y0
          BY <3>5, <4>1
        <4>2. CASE y # y0
          BY <3>4, <4>2
        <4> QED BY <4>1, <4>2
      <3> QED BY <3>5, <3>6 DEF y0
    <2>2. LoadCopy(t) => /\ \A u \in Threads : toRemove'[u] \subseteq toRemove[u] \cup {Res(t)}
                         /\ state[Res(t)] # "Requested" => toRemove' = toRemove
      BY DEF LoadCopy, TypeOK
    <2> QED BY <2>1, <2>2 DEF RequestMark, LoadMark
  <1>5. state \in [Resources -> {"Unloaded", "Requested", "Loaded"}]
    BY DEF TypeOK
  <1>6. ~(RequestTest(t) /\ (RequestPush(t) \/ RequestMark(t) \/ LoadMark(t) \/ LoadCopy(t)))
        /\ ~(RequestPush(t) /\ (RequestMark(t) \/ LoadMark(t) \/ LoadCopy(t)))
        /\ ~(RequestMark(t) /\ (LoadMark(t) \/ LoadCopy(t))) /\ ~(LoadMark(t) /\ LoadCopy(t))
    BY DEF RequestTest, RequestPush, RequestMark, LoadMark, LoadCopy, At
  <1>7. ASSUME NEW r \in Resources
        PROVE  /\ Waits(shared, r) => Waits(shared, r)'
               /\ Waits(toLoad, r) => Waits(toLoad, r)'
               /\ InJob(r) => InJob(r)'
               /\ InLoad(r) => InLoad(r)' \/ (LoadMark(t) /\ r = Res(t))
    <2>1. TypeOf[r] \in Types
      BY ResourceAssumption
    <2>2. ASSUME NEW op \in {"Load", "Job"}, NEW u \in Threads, Creating(u, op, r)
          PROVE  (\E v \in Threads : Creating(v, op, r)') \/ (LoadMark(t) /\ op = "Load" /\ r = Res(t))
      <3>1. CASE u = t
        BY <1>1, <2>2, <3>1
      <3>2. CASE u # t
        <4>1. Creating(u, op, r)'
          BY <1>1, <2>2, <3>2 DEF Creating
        <4> QED BY <4>1
      <3> QED BY <3>1, <3>2
    <2>3. Waits(shared, r) => Waits(shared, r)'
      BY <1>3, <1>4, <2>1 DEF Waits
    <2>4. Waits(toLoad, r) => Waits(toLoad, r)'
      BY <1>3 DEF Waits
    <2>5. InJob(r) => InJob(r)'
      BY <2>2 DEF InJob
    <2>6. InLoad(r) => InLoad(r)' \/ (LoadMark(t) /\ r = Res(t))
      BY <2>2 DEF InLoad
    <2> QED BY <2>3, <2>4, <2>5, <2>6
  <1>8. Around'
    BY <1>2, <1>3, <1>4 DEF Around
  <1>9. ASSUME NEW u \in Threads, u # t, PastTest(u)'
        PROVE  PastTest(u) /\ Res(u)' = Res(u) /\ (At(u, "Request", "mark")' => At(u, "Request", "mark"))
    BY <1>1, <1>9 DEF PastTest, At, Res
  <1>10. Tested'
    <2>1. ASSUME NEW u \in Threads, PastTest(u)'
          PROVE  state'[Res(u)'] # "Requested" /\ \A v \in Threads : Res(u)' \notin toRemove'[v]
      <3>1. CASE u = t
        <4>1. Res(t)' = Res(t) /\ UNCHANGED <<state, toRemove>>
          BY <1>1, <1>3, <1>6, <2>1, <3>1
        <4>2. CASE RequestTest(t) /\ MustRequest(Res(t))
          BY <3>1, <4>1, <4>2 DEF MustRequest, Removed
        <4>3. CASE RequestPush(t)
          <5>1. PastTest(t)
            BY <4>3 DEF RequestPush, PastTest
          <5> QED BY <3>1, <4>1, <5>1 DEF Tested
        <4> QED BY <1>1, <2>1, <3>1, <4>2, <4>3
      <3>2. CASE u # t
        <4>1. PastTest(u) /\ Res(u)' = Res(u)
          BY <1>9, <2>1, <3>2
        <4>2. state[Res(u)] # "Requested" /\ \A v \in Threads : Res(u) \notin toRemove[v]
          BY <4>1 DEF Tested
        <4>3. RequestMark(t) => Res(u) # Res(t)
          <5>1. RequestMark(t) => calls[t] # <<>> /\ Head(calls[t]).op = "Request"
            BY DEF RequestMark, At
          <5>2. calls[u] # <<>> /\ Head(calls[u]).op = "Request"
            BY <4>1 DEF PastTest, At
          <5> QED BY <3>2, <5>1, <5>2, OneRequester
        <4>4. state'[Res(u)] # "Requested"
          <5>1. Res(u) \in Resources
            BY <4>1, TopTyped DEF PastTest, At
          <5> QED BY <1>3, <1>4, <1>5, <4>2, <4>3, <5>1
        <4>5. \A v \in Threads : Res(u) \notin toRemove'[v]
          BY <1>3, <1>4, <4>2
        <4> QED BY <4>1, <4>4, <4>5
      <3> QED BY <3>1, <3>2
    <2> QED BY <2>1 DEF Tested
  <1>11. Removed'
    <2>1. ASSUME NEW u \in Threads, NEW r \in toRemove'[u]
          PROVE  state'[r] = "Loaded" \/ (state'[r] = "Requested" /\ InLoad(r)')
      <3>1. CASE r \in toRemove[u]
        <4>1. r \in Resources /\ (state[r] = "Loaded" \/ (state[r] = "Requested" /\ InLoad(r)))
          BY <3>1 DEF Removed, TypeOK
        <4>2. RequestMark(t) => r # Res(t)
          BY <1>4, <3>1 DEF Tested, PastTest
        <4>3. CASE LoadMark(t) /\ r = Res(t)
          BY <1>2, <1>4, <1>5, <4>3
        <4>4. CASE ~(LoadMark(t) /\ r = Res(t))
          <5>1. state'[r] = state[r]
            BY <1>3, <1>4, <1>5, <4>1, <4>2, <4>4
          <5> QED BY <1>7, <4>1, <4>4, <5>1
        <4> QED BY <4>3, <4>4
      <3>2. CASE r \notin toRemove[u]
        <4>1. LoadCopy(t) /\ r = Res(t) /\ state[r] = "Requested"
          BY <1>3, <1>4, <2>1, <3>2
        <4>2. UNCHANGED state
          BY <1>3, <1>6, <4>1
        <4>3. Creating(t, "Load", r)'
          BY <1>1, <4>1
        <4> QED BY <4>1, <4>2, <4>3 DEF InLoad
      <3> QED BY <3>1, <3>2
    <2> QED BY <2>1 DEF Removed
  <1>12. Pushed'
    <2>1. ASSUME NEW u \in Threads, At(u, "Request", "mark")', NEW r, r = Res(u)'
          PROVE  Waits(shared, r)' \/ (u # Main /\ Waits(toLoad, r)')
      <3>1. CASE u = t
        <4>1. RequestPush(t) /\ r = Res(t)
          BY <1>1, <2>1, <3>1 DEF PastTest
        <4> QED BY <1>4, <4>1 DEF Waits
      <3>2. CASE u # t
        <4>1. At(u, "Request", "mark") /\ r = Res(u)
          BY <1>9, <2>1, <3>2 DEF PastTest
        <4>2. r \in Resources
          BY <4>1, TopTyped DEF At
        <4> QED BY <1>7, <4>1, <4>2 DEF Pushed
      <3> QED BY <3>1, <3>2
    <2> QED BY <2>1 DEF Pushed, Waits
  <1>13. Pending'
    <2>1. ASSUME NEW r \in Resources, state'[r] = "Requested"
          PROVE  Waits(shared, r)' \/ Waits(toLoad, r)' \/ InJob(r)' \/ InLoad(r)' \/ loaded'[r] # "None"
      <3>1. CASE RequestMark(t) /\ r = Res(t)
        <4>1. Waits(shared, r) \/ Waits(toLoad, r)
          BY <1>4, <3>1 DEF Pushed
        <4> QED BY <1>7, <4>1
      <3>2. CASE ~(RequestMark(t) /\ r = Res(t))
        <4>1. ~(LoadMark(t) /\ r = Res(t))
          BY <1>4, <1>5, <2>1
        <4>2. state[r] = "Requested"
          BY <1>3, <1>4, <1>5, <2>1, <3>2
        <4> QED BY <1>3, <1>7, <4>1, <4>2 DEF Pending
      <3> QED BY <3>1, <3>2
    <2> QED BY <2>1 DEF Pending
  <1> QED BY <1>1, <1>8, <1>10, <1>11, <1>12, <1>13

(* What a step that changes the stack of t alone, and nothing that the     *)
(* other parts of RequestInv are about, leaves as it is.                   *)
LEMMA OtherStacks ==
    ASSUME Shape, UNCHANGED <<setup, mpc>>, NEW t \in Threads,
           \A u \in Threads \ {t} : calls'[u] = calls[u], GoodStack(t)'
    PROVE  Shape'
  <1>1. InPlay' = InPlay /\ KidsInPlay' = KidsInPlay
    BY PlayStays
  <1>2. ASSUME NEW u \in Threads \ {t} PROVE GoodStack(u)'
    BY <1>1 DEF Shape, GoodStack, GoodFrame
  <1> QED BY <1>2 DEF Shape

LEMMA OutsideKeeps ==
    ASSUME OnlyRequests, TypeOK, RequestInv, NEW use \in setup.uses,
           Call(use[1], use[2], use[3]), UNCHANGED setup
    PROVE  RequestInv'
  <1> USE DEF RequestInv
  <1> DEFINE f == Frame("Request", use[3], "enter")
  <1>1. /\ use[1] = Main /\ use[2] = "Request" /\ use[3] \in InPlay /\ use[3] \notin KidsInPlay
        /\ InPlay \subseteq Resources
    <2>1. InPlay \subseteq Resources /\ setup.uses \subseteq
             {Main} \X {"Request"} \X {r \in InPlay : \A o \in InPlay : r \notin ToSet(Kids[o])}
      BY PlayFits DEF Fits
    <2>2. use[1] = Main /\ use[2] = "Request"
          /\ use[3] \in {r \in InPlay : \A o \in InPlay : r \notin ToSet(Kids[o])}
      BY <2>1
    <2> QED BY <2>1, <2>2 DEF KidsInPlay
  <1>2. calls' = [calls EXCEPT ![Main] = <<f>>] /\ calls[Main] = <<>> /\ mpc = "frame"
    BY <1>1 DEF Call
  <1>3. f \in FrameType /\ f.op = "Request" /\ f.res = use[3] /\ f.at = "enter"
    BY <1>1, FrameTyped DEF Ops, Steps
  <1> HIDE DEF f
  <1>4. Main \in Threads /\ <<f>> \in Seq(FrameType) /\ calls \in Stacks
    <2>1. <<f>> \in Seq(FrameType)
      BY <1>3
    <2> QED BY <2>1 DEF Threads, TypeOK, Stacks, FrameType
  <1>5. calls'[Main] = <<f>> /\ \A u \in Threads \ {Main} : calls'[u] = calls[u]
    BY <1>2, <1>4, StackChange
  <1>6. Head(<<f>>) = f /\ ToSet(<<f>>) = {f} /\ ToSet(Tail(<<f>>)) = {} /\ <<f>> # <<>>
    BY <1>4, HeadAndTail DEF ToSet
  <1>7. UNCHANGED <<state, shared, toLoad, loaded, toRemove, lpc, mpc>>
    BY DEF Call, data, queues, control
  <1>8. InPlay' = InPlay /\ KidsInPlay' = KidsInPlay
    BY PlayStays
  <1>9. Shape'
    <2>1. Main \in setup.threads
      BY ResourceAssumption DEF TypeOK
    <2>2. GoodStack(Main)'
      BY <1>1, <1>2, <1>3, <1>5, <1>6, <1>7, <1>8, <2>1 DEF GoodStack, GoodFrame
    <2> QED BY <1>4, <1>5, <1>7, <2>2, OtherStacks
  <1>10. ASSUME NEW u \in Threads, PastTest(u)'
         PROVE  /\ PastTest(u) /\ Res(u)' = Res(u)
                /\ At(u, "Request", "mark")' => At(u, "Request", "mark")
    <2>1. u # Main
      BY <1>3, <1>5, <1>6, <1>10 DEF PastTest, At
    <2> QED BY <1>5, <1>10, <2>1 DEF PastTest, At, Res
  <1>11. \A op, r : \A u \in Threads : Creating(u, op, r) => Creating(u, op, r)'
    <2>1. ASSUME NEW op, NEW r, NEW u \in Threads, Creating(u, op, r) PROVE Creating(u, op, r)'
      <3>1. u # Main
        BY <1>2, <2>1 DEF Creating, ToSet
      <3> QED BY <1>5, <2>1, <3>1 DEF Creating
    <2> QED BY <2>1
  <1>12. Around' /\ Tested' /\ Pushed'
    <2>1. Around'
      BY <1>7, <1>8 DEF Around
    <2>2. Tested'
      BY <1>7, <1>10 DEF Tested
    <2>3. Pushed'
      BY <1>7, <1>10 DEF Pushed, Waits, PastTest
    <2> QED BY <2>1, <2>2, <2>3
  <1>13. Removed' /\ Pending'
    BY <1>7, <1>11 DEF Removed, Pending, InLoad, InJob, Waits
  <1> QED BY <1>9, <1>12, <1>13

LEMMA StacksSame ==
    ASSUME OnlyRequests, TypeOK, RequestInv,
           UNCHANGED <<setup, calls, state, toRemove, shared, toLoad, loaded>>,
           mpc' = mpc \/ mpc # "frame" \/ calls[Main] = <<>>, Around'
    PROVE  RequestInv'
  <1> USE DEF RequestInv
  <1>1. InPlay' = InPlay /\ KidsInPlay' = KidsInPlay
    BY PlayStays
  <1>2. Shape'
    BY <1>1 DEF Shape, GoodStack, GoodFrame
  <1>3. Tested' /\ Pushed'
    BY DEF Tested, Pushed, PastTest, At, Res, Waits
  <1>4. Removed' /\ Pending'
    BY DEF Removed, Pending, InLoad, InJob, Creating, Waits
  <1> QED BY <1>2, <1>3, <1>4

LEMMA TakeKeeps ==
    ASSUME OnlyRequests, TypeOK, RequestInv, NEW l \in Loaders, LoaderTake(l), UNCHANGED setup
    PROVE  RequestInv'
  <1> USE DEF RequestInv
  <1> DEFINE y0 == FirstType
             r0 == Head(toLoad[y0])
             fs == Frames("Load", Needs[r0])
             h == Frame("Job", r0, "store")
             none == <<>>
             w == fs \o <<h>> \o none
  <1>1. /\ y0 \in Types /\ toLoad \in [Types -> Seq(Resources)] /\ toLoad[y0] \in Seq(Resources)
        /\ toLoad[y0] # <<>> /\ ToSet(toLoad[y0]) \subseteq InPlay
    BY FirstTyped DEF LoaderTake, TypeOK, TypesWaiting, Around
  <1>2. /\ Tail(toLoad[y0]) \in Seq(Resources) /\ r0 \in InPlay /\ r0 \in Resources
        /\ ToSet(toLoad[y0]) = {r0} \cup ToSet(Tail(toLoad[y0]))
    BY <1>1, HeadAndTail
  <1>3. toLoad' = [toLoad EXCEPT ![y0] = Tail(toLoad[y0])]
    BY DEF LoaderTake, PopFront
  <1> HIDE DEF y0, r0
  <1>4. /\ \A y \in Types : ToSet(toLoad'[y]) \subseteq ToSet(toLoad[y])
        /\ \A y \in Types : \A r \in ToSet(toLoad[y]) : r = r0 \/ r \in ToSet(toLoad'[y])
    <2>1. toLoad'[y0] = Tail(toLoad[y0]) /\ \A y \in Types : y # y0 => toLoad'[y] = toLoad[y]
      BY <1>1, <1>3
    <2>2. ASSUME NEW y \in Types
          PROVE  /\ ToSet(toLoad'[y]) \subseteq ToSet(toLoad[y])
                 /\ \A r \in ToSet(toLoad[y]) : r = r0 \/ r \in ToSet(toLoad'[y])
      <3>1. CASE y = y0
        <4>1. ToSet(toLoad'[y]) = ToSet(Tail(toLoad[y0])) /\ ToSet(toLoad[y]) = ToSet(toLoad[y0])
          BY <2>1, <3>1
        <4> QED BY <1>2, <4>1
      <3>2. CASE y # y0
        BY <2>1, <3>2
      <3> QED BY <3>1, <3>2
    <2> QED BY <2>2
  <1>5. /\ fs \in Seq(FrameType) /\ h \in FrameType
        /\ \A f \in ToSet(fs) : f.op = "Load" /\ f.res \in InPlay /\ f.at = "enter"
        /\ h.op = "Job" /\ h.res = r0 /\ h.at = "store"
    <2>1. Needs[r0] \in Seq(Resources) /\ ToSet(Needs[r0]) \subseteq InPlay
      BY <1>2, KidsAndNeeds
    <2>2. {"Load", "Job"} \subseteq Ops /\ "store" \in Steps
      BY DEF Ops, Steps
    <2> QED BY <1>2, <2>1, <2>2, FramesTyped, FrameTyped
  <1>6. calls[l] = <<>> /\ calls' = [calls EXCEPT ![l] = w] /\ lpc[l] = "loop"
    <2>1. calls' = [calls EXCEPT ![l] = fs \o <<h>>]
      BY DEF LoaderTake, r0, y0
    <2>2. w = fs \o <<h>>
      <3> HIDE DEF fs, h
      <3> QED BY <1>5
    <2> QED BY <2>1, <2>2 DEF LoaderTake
  <1>7. none \in Seq(FrameType) /\ ToSet(none) = {}
    BY DEF ToSet
  <1> HIDE DEF fs, h, none
  <1>8. /\ w \in Seq(FrameType) /\ w # <<>> /\ ToSet(w) = ToSet(fs) \cup {h}
        /\ ToSet(Tail(w)) \subseteq ToSet(w) /\ Head(w) \in ToSet(w)
    <2>1. /\ w \in Seq(FrameType) /\ w # <<>> /\ ToSet(w) = ToSet(fs) \cup {h} \cup ToSet(none)
          /\ ToSet(Tail(w)) \subseteq ToSet(w)
      BY <1>5, <1>7, Stacked
    <2> HIDE DEF w
    <2> QED BY <1>7, <2>1, HeadAndTail
  <1> HIDE DEF w
  <1>9. l \in Threads /\ l # Main /\ calls'[l] = w /\ \A u \in Threads \ {l} : calls'[u] = calls[u]
    <2>1. l \in Threads /\ l # Main /\ calls \in Stacks
      BY ResourceAssumption DEF Threads, TypeOK, Stacks, FrameType
    <2> QED BY <1>6, <1>8, <2>1, StackChange
  <1>10. UNCHANGED <<state, shared, loaded, toRemove, lpc, mpc>>
    BY DEF LoaderTake, data, control
  <1>11. InPlay' = InPlay /\ KidsInPlay' = KidsInPlay
    BY PlayStays
  <1>12. l \in setup.threads
    BY <1>6 DEF Around
  <1>13. Shape'
    <2>1. \A f \in ToSet(w) : GoodFrame(l, f) /\ f.op # "Request"
      BY <1>2, <1>5, <1>8 DEF GoodFrame
    <2>2. GoodStack(l)'
      BY <1>8, <1>9, <1>11, <1>12, <2>1 DEF GoodStack, GoodFrame
    <2> QED BY <1>9, <1>10, <2>2, OtherStacks
  <1>14. ASSUME NEW u \in Threads, PastTest(u)'
         PROVE  /\ u # l /\ PastTest(u) /\ Res(u)' = Res(u)
                /\ At(u, "Request", "mark")' => At(u, "Request", "mark")
    <2>1. u # l
      BY <1>5, <1>8, <1>9, <1>14 DEF PastTest, At
    <2> QED BY <1>9, <1>14, <2>1 DEF PastTest, At, Res
  <1>15. ASSUME NEW op, NEW r, NEW u \in Threads, Creating(u, op, r) PROVE Creating(u, op, r)'
    <2>1. u # l
      BY <1>6, <1>15 DEF Creating, ToSet
    <2> QED BY <1>9, <1>15, <2>1 DEF Creating
  <1>16. Around' /\ Tested'
    BY <1>4, <1>10, <1>11, <1>14 DEF Around, Tested
  <1>17. Pushed'
    <2>1. ASSUME NEW u \in Threads, At(u, "Request", "mark")', NEW r, r = Res(u)'
          PROVE  Waits(shared, r)' \/ (u # Main /\ Waits(toLoad, r)')
      <3>1. u # l /\ At(u, "Request", "mark") /\ r = Res(u) /\ calls[u] # <<>>
        BY <1>14, <2>1 DEF PastTest, At
      <3>2. u = Main
        <4>1. Head(calls[u]) \in ToSet(calls[u]) /\ Head(calls[u]).op = "Request"
          BY <3>1, TopTyped DEF At
        <4>2. u \in setup.threads /\ u \in {Main} \cup Loaders /\ (u = Main <=> Res(u) \notin KidsInPlay)
          BY <3>1, <4>1 DEF Shape, GoodStack, GoodFrame, Res
        <4>3. ASSUME u # Main PROVE FALSE
          <5>1. ~(\A o \in InPlay : Kids[o] = <<>>)
            BY <4>2, <4>3 DEF KidsInPlay, ToSet
          <5>2. PICK k \in Loaders : setup.threads \cap Loaders \subseteq {k}
            BY <5>1, PlayFits DEF Fits
          <5> QED BY <1>12, <3>1, <4>2, <4>3, <5>2
        <4> QED BY <4>3
      <3> QED BY <1>10, <3>1, <3>2 DEF Pushed, Waits
    <2> QED BY <2>1 DEF Pushed, Waits
  <1>18. Removed'
    BY <1>10, <1>15 DEF Removed, InLoad
  <1>19. Pending'
    <2>1. ASSUME NEW r \in Resources, state'[r] = "Requested"
          PROVE  Waits(shared, r)' \/ Waits(toLoad, r)' \/ InJob(r)' \/ InLoad(r)' \/ loaded'[r] # "None"
      <3>1. CASE r = r0
        <4>1. Creating(l, "Job", r)'
          BY <1>5, <1>8, <1>9, <3>1 DEF Creating, Making
        <4> QED BY <1>9, <4>1 DEF InJob
      <3>2. CASE r # r0
        <4>1. TypeOf[r] \in Types
          BY ResourceAssumption
        <4>2. Waits(toLoad, r) => Waits(toLoad, r)'
          BY <1>4, <3>2, <4>1 DEF Waits
        <4> QED BY <1>10, <1>15, <2>1, <4>2 DEF Pending, InJob, InLoad, Waits
      <3> QED BY <3>1, <3>2
    <2> QED BY <2>1 DEF Pending
  <1> QED BY <1>13, <1>16, <1>17, <1>18, <1>19

LEMMA StoreKeeps ==
    ASSUME OnlyRequests, TypeOK, RequestInv, NEW l \in Loaders, NEW ok \in BOOLEAN,
           LoaderStore(l, ok), UNCHANGED setup
    PROVE  RequestInv'
  <1> USE DEF RequestInv
  <1> DEFINE h == Head(calls[l])
             rest == Tail(calls[l])
             r0 == Res(l)
             fs == IF ok THEN Frames("Request", Kids[r0]) ELSE <<>>
             w == fs \o rest
  <1>1. calls[l] # <<>> /\ h.op = "Job" /\ h.at = "store" /\ h.res = r0
    BY DEF LoaderStore, At, Res
  <1>2. l \in Threads /\ l # Main /\ calls \in Stacks
    BY ResourceAssumption DEF Threads, TypeOK, Stacks, FrameType
  <1>3. /\ h \in FrameType /\ rest \in Seq(FrameType) /\ ToSet(calls[l]) = {h} \cup ToSet(rest)
    BY <1>1, <1>2, HeadAndTail DEF Stacks
  <1>4. /\ l \in setup.threads /\ r0 \in InPlay
        /\ \A f \in ToSet(rest) : GoodFrame(l, f) /\ (f.op = "Request" => f.at = "enter")
    BY <1>1, <1>2, <1>3 DEF Shape, GoodStack, GoodFrame
  <1>5. calls' = [calls EXCEPT ![l] = w]
    BY DEF LoaderStore
  <1> HIDE DEF h, rest, r0
  <1>6. /\ fs \in Seq(FrameType)
        /\ \A f \in ToSet(fs) : f.op = "Request" /\ f.res \in ToSet(Kids[r0]) /\ f.at = "enter"
    <2>1. Kids[r0] \in Seq(Resources) /\ "Request" \in Ops
      BY <1>4, KidsAndNeeds DEF Ops
    <2>2. CASE ok
      BY <2>1, <2>2, FramesTyped
    <2>3. CASE ~ok
      BY <2>3 DEF ToSet
    <2> QED BY <2>2, <2>3
  <1> HIDE DEF fs
  <1>7. w \in Seq(FrameType) /\ ToSet(w) = ToSet(fs) \cup ToSet(rest)
    BY <1>3, <1>6, ToSetConcat
  <1> HIDE DEF w
  <1>8. calls'[l] = w /\ \A u \in Threads \ {l} : calls'[u] = calls[u]
    BY <1>2, <1>5, <1>7, StackChange
  <1>9. \A f \in ToSet(w) : GoodFrame(l, f) /\ (f.op = "Request" => f.at = "enter")
    <2>1. ToSet(Kids[r0]) \subseteq InPlay /\ ToSet(Kids[r0]) \subseteq KidsInPlay
      BY <1>4, KidsAndNeeds
    <2>2. ASSUME NEW f \in ToSet(fs) PROVE GoodFrame(l, f) /\ f.at = "enter"
      BY <1>2, <1>6, <2>1 DEF GoodFrame
    <2> QED BY <1>4, <1>7, <2>2
  <1>10. w # <<>> => Head(w) \in ToSet(w) /\ ToSet(Tail(w)) \subseteq ToSet(w)
    BY <1>7, HeadAndTail
  <1>11. UNCHANGED <<state, shared, toLoad, toRemove, lpc, mpc>>
    BY DEF LoaderStore, data, control
  <1>12. /\ \A r \in Resources : loaded[r] # "None" => loaded'[r] # "None"
         /\ r0 \in Resources => loaded'[r0] # "None"
    BY DEF LoaderStore, TypeOK, Outcome, r0
  <1>13. InPlay' = InPlay /\ KidsInPlay' = KidsInPlay
    BY PlayStays
  <1>14. Shape'
    <2>1. GoodStack(l)'
      BY <1>2, <1>4, <1>8, <1>9, <1>10, <1>13 DEF GoodStack, GoodFrame
    <2> QED BY <1>2, <1>8, <1>11, <2>1, OtherStacks
  <1>15. ASSUME NEW u \in Threads, PastTest(u)'
         PROVE  /\ u # l /\ PastTest(u) /\ Res(u)' = Res(u)
                /\ At(u, "Request", "mark")' => At(u, "Request", "mark")
    <2>1. u # l
      BY <1>8, <1>9, <1>10, <1>15 DEF PastTest, At
    <2> QED BY <1>8, <1>15, <2>1 DEF PastTest, At, Res
  <1>16. ASSUME NEW op, NEW r, NEW u \in Threads, Creating(u, op, r)
         PROVE  Creating(u, op, r)' \/ (op = "Job" /\ r = r0)
    <2>1. PICK f \in ToSet(calls[u]) : f.op = op /\ f.res = r /\ f.at \in Making
      BY <1>16 DEF Creating
    <2>2. CASE u = l
      <3>1. f = h \/ f \in ToSet(w)
        BY <1>3, <1>7, <2>1, <2>2
      <3> QED BY <1>1, <1>8, <2>1, <2>2, <3>1 DEF Creating
    <2>3. CASE u # l
      BY <1>8, <2>1, <2>3 DEF Creating
    <2> QED BY <2>2, <2>3
  <1>17. Around' /\ Tested' /\ Pushed'
    <2>1. Around'
      BY <1>11, <1>13 DEF Around
    <2>2. Tested'
      BY <1>11, <1>15 DEF Tested
    <2>3. Pushed'
      BY <1>11, <1>15 DEF Pushed, Waits, PastTest
    <2> QED BY <2>1, <2>2, <2>3
  <1>18. Removed'
    BY <1>11, <1>16 DEF Removed, InLoad
  <1>19. Pending'
    <2>1. ASSUME NEW r \in Resources, state'[r] = "Requested"
          PROVE  Waits(shared, r)' \/ Waits(toLoad, r)' \/ InJob(r)' \/ InLoad(r)' \/ loaded'[r] # "None"
      <3>1. CASE r = r0
        BY <1>12, <3>1
      <3>2. CASE r # r0
        BY <1>11, <1>12, <1>16, <2>1, <3>2 DEF Pending, InJob, InLoad, Waits
      <3> QED BY <3>1, <3>2
    <2> QED BY <2>1 DEF Pending
  <1> QED BY <1>14, <1>17, <1>18, <1>19

LEMMA LoaderKeeps ==
    ASSUME OnlyRequests, TypeOK, RequestInv, NEW l \in Loaders, Loader(l) \/ LoaderSpurious(l),
           UNCHANGED setup
    PROVE  RequestInv'
  <1>1. CASE LoaderBlock(l) \/ LoaderExit(l) \/ LoaderSpurious(l)
    <2>1. UNCHANGED <<calls, state, toRemove, shared, toLoad, loaded, mpc>>
      BY <1>1 DEF LoaderBlock, LoaderExit, LoaderSpurious, data, queues
    <2>2. \A k \in Loaders : lpc'[k] # "exited" => lpc[k] # "exited"
      BY <1>1 DEF LoaderBlock, LoaderExit, LoaderSpurious, LoaderGoTo, TypeOK
    <2>3. Around'
      BY <2>1, <2>2, PlayStays DEF RequestInv, Around
    <2> QED BY <2>1, <2>3, StacksSame
  <1> QED BY <1>1, TakeKeeps, StoreKeeps DEF Loader

LEMMA PublishKeeps ==
    ASSUME OnlyRequests, TypeOK, RequestInv, TransferLoaded \/ Publish, UNCHANGED setup
    PROVE  RequestInv'
  <1>1. CASE TransferLoaded \/ PublishResult \/ PublishEnd \/ \E r \in Resources : PublishSwap(r)
    <2>1. /\ UNCHANGED <<calls, state, toRemove, shared, toLoad, loaded, lpc>>
          /\ mpc # "frame" \/ calls[Main] = <<>>
      BY <1>1 DEF TransferLoaded, PublishResult, PublishEnd, PublishSwap, data, queues
    <2>2. Around'
      BY <2>1, PlayStays DEF RequestInv, Around
    <2> QED BY <2>1, <2>2, StacksSame
  <1>2. CASE PublishMark
    <2> USE DEF RequestInv
    <2>1. /\ UNCHANGED <<calls, shared, toLoad, toRemove, lpc>>
          /\ mpc # "frame"
          /\ \A r \in Resources : r \in publishing => state'[r] = "Loaded"
          /\ \A r \in Resources : r \notin publishing =>
                state'[r] = state[r] /\ loaded'[r] = loaded[r]
      BY <1>2 DEF PublishMark
    <2>2. InPlay' = InPlay /\ KidsInPlay' = KidsInPlay
      BY PlayStays
    <2>3. calls[Main] = <<>>
      BY <2>1 DEF Shape, GoodStack, Threads
    <2>4. Shape' /\ Around'
      BY <2>1, <2>2, <2>3 DEF Shape, GoodStack, GoodFrame, Around
    <2>5. Tested'
      <3>1. ASSUME NEW u \in Threads, PastTest(u)', NEW r, r = Res(u)'
            PROVE  state'[r] # "Requested" /\ \A v \in Threads : r \notin toRemove'[v]
        <4>1. PastTest(u) /\ r = Res(u) /\ r \in Resources
          BY <2>1, <3>1, TopTyped DEF PastTest, At, Res
        <4> QED BY <2>1, <4>1 DEF Tested
      <3> QED BY <3>1 DEF Tested
    <2>6. Pushed'
      BY <2>1 DEF Pushed, At, Res, Waits
    <2>7. Removed'
      BY <2>1 DEF Removed, InLoad, Creating, TypeOK
    <2>8. Pending'
      BY <2>1 DEF Pending, InLoad, InJob, Creating, Waits
    <2> QED BY <2>4, <2>5, <2>6, <2>7, <2>8
  <1> QED BY <1>1, <1>2 DEF Publish

(* A step that moves copies between the queues and loses none that is not  *)
(* being loaded keeps the invariant.                                       *)
LEMMA QueuesKeep ==
    ASSUME OnlyRequests, TypeOK, RequestInv, mpc # "frame",
           UNCHANGED <<setup, calls, state, loaded, toRemove, lpc>>,
           \A y \in Types : \A r \in ToSet(shared'[y]) \cup ToSet(toLoad'[y]) :
               r \in ToSet(shared[y]) \cup ToSet(toLoad[y]),
           \A r \in Resources : Waits(shared, r) \/ Waits(toLoad, r) =>
               Waits(shared, r)' \/ Waits(toLoad, r)' \/ \E t \in Threads : r \in toRemove[t]
    PROVE  RequestInv'
  <1> USE DEF RequestInv
  <1>1. InPlay' = InPlay /\ KidsInPlay' = KidsInPlay
    BY PlayStays
  <1>2. calls[Main] = <<>>
    BY DEF Shape, GoodStack, Threads
  <1>3. Shape'
    BY <1>1, <1>2 DEF Shape, GoodStack, GoodFrame
  <1>4. Around'
    BY <1>1 DEF Around
  <1>5. Tested' /\ Removed'
    BY DEF Tested, PastTest, At, Res, Removed, InLoad, Creating
  <1>6. Pushed'
    <2>1. ASSUME NEW u \in Threads, At(u, "Request", "mark")', NEW r, r = Res(u)'
          PROVE  Waits(shared, r)' \/ (u # Main /\ Waits(toLoad, r)')
      <3>1. At(u, "Request", "mark") /\ r = Res(u) /\ r \in Resources
        BY <2>1, TopTyped DEF At, Res
      <3>2. u # Main /\ \A v \in Threads : r \notin toRemove[v]
        BY <1>2, <3>1 DEF Tested, PastTest, At
      <3> QED BY <3>1, <3>2 DEF Pushed
    <2> QED BY <2>1 DEF Pushed, Waits
  <1>7. Pending'
    <2>1. ASSUME NEW r \in Resources, state'[r] = "Requested"
          PROVE  Waits(shared, r)' \/ Waits(toLoad, r)' \/ InJob(r)' \/ InLoad(r)' \/ loaded'[r] # "None"
      <3>1. \/ Waits(shared, r) \/ Waits(toLoad, r) \/ InJob(r) \/ InLoad(r) \/ loaded[r] # "None"
        BY <2>1 DEF Pending
      <3>2. (\E t \in Threads : r \in toRemove[t]) => InLoad(r)
        BY <2>1 DEF Removed
      <3>3. (InJob(r) => InJob(r)') /\ (InLoad(r) => InLoad(r)')
        BY DEF InJob, InLoad, Creating
      <3> QED BY <3>1, <3>2, <3>3
    <2> QED BY <2>1 DEF Pending
  <1> QED BY <1>3, <1>4, <1>5, <1>6, <1>7

LEMMA TransferKeeps ==
    ASSUME OnlyRequests, TypeOK, RequestInv, Transfer \/ Shutdown, UNCHANGED setup
    PROVE  RequestInv'
  <1>1. shared \in [Types -> Seq(Resources)] /\ toLoad \in [Types -> Seq(Resources)]
    BY DEF TypeOK
  <1>2. CASE TransferQueues
    <2>1. ASSUME NEW y \in Types
          PROVE  ToSet(toLoad'[y]) = ToSet(toLoad[y]) \cup ToSet(shared[y]) /\ ToSet(shared'[y]) = {}
      <3>1. toLoad'[y] = toLoad[y] \o shared[y] /\ shared'[y] = <<>>
        BY <1>2 DEF TransferQueues, HandOver
      <3>2. ToSet(toLoad[y] \o shared[y]) = ToSet(toLoad[y]) \cup ToSet(shared[y])
        BY <1>1, ToSetConcat
      <3>3. ToSet(<<>>) = {}
        BY DEF ToSet
      <3> QED BY <3>1, <3>2, <3>3
    <2>2. \A r \in Resources : Waits(shared, r) \/ Waits(toLoad, r) => Waits(toLoad, r)'
      BY <2>1, ResourceAssumption DEF Waits
    <2> QED BY <1>2, <2>1, <2>2, QueuesKeep DEF TransferQueues, data
  <1>3. ASSUME NEW t \in Threads, TransferContext(t) PROVE RequestInv'
    <2>1. ASSUME NEW y \in Types
          PROVE  /\ ToSet(shared'[y]) = ToSet(shared[y]) \cap (Resources \ toRemove[t])
                 /\ ToSet(toLoad'[y]) = ToSet(toLoad[y]) \cap (Resources \ toRemove[t])
      <3>1. /\ shared'[y] = Only(shared[y], Resources \ toRemove[t])
            /\ toLoad'[y] = Only(toLoad[y], Resources \ toRemove[t])
        BY <1>3 DEF TransferContext
      <3>2. shared[y] \in Seq(Resources) /\ toLoad[y] \in Seq(Resources)
        BY <1>1
      <3> QED BY <3>1, <3>2, OnlyIs
    <2>2. ASSUME NEW r \in Resources, Waits(shared, r) \/ Waits(toLoad, r)
          PROVE  Waits(shared, r)' \/ Waits(toLoad, r)' \/ r \in toRemove[t]
      BY <2>1, <2>2, ResourceAssumption DEF Waits
    <2>3. /\ mpc # "frame" /\ UNCHANGED <<calls, state, loaded, toRemove, lpc>>
          /\ \A y \in Types : \A r \in ToSet(shared'[y]) \cup ToSet(toLoad'[y]) :
                r \in ToSet(shared[y]) \cup ToSet(toLoad[y])
      BY <1>3, <2>1 DEF TransferContext, data
    <2> QED BY <2>2, <2>3, QueuesKeep
  <1>4. CASE TransferNotify \/ Shutdown
    <2>1. /\ UNCHANGED <<calls, state, toRemove, shared, toLoad, loaded>>
          /\ mpc # "frame" \/ calls[Main] = <<>>
      BY <1>4 DEF TransferNotify, Shutdown, Stop, StopNotify, StopJoin, data, queues
    <2>2. \A k \in Loaders : lpc'[k] # "exited" => lpc[k] # "exited"
      BY <1>4 DEF TransferNotify, Shutdown, Stop, StopNotify, StopJoin, WakeLoaders, TypeOK
    <2>3. Around'
      BY <2>1, <2>2, PlayStays DEF RequestInv, Around
    <2> QED BY <2>1, <2>3, StacksSame
  <1> QED BY <1>2, <1>3, <1>4, PublishKeeps DEF Transfer

LEMMA RequestInit == Init /\ OnlyRequests => RequestInv
  <1> SUFFICES ASSUME Init PROVE RequestInv
    OBVIOUS
  <1>1. Shape /\ Tested /\ Pushed
    BY DEF Init, Shape, GoodStack, Tested, Pushed, PastTest, At
  <1>2. Around
    BY DEF Init, Around, ToSet
  <1>3. Removed /\ Pending
    BY DEF Init, Removed, Pending
  <1> QED BY <1>1, <1>2, <1>3 DEF RequestInv

LEMMA RequestStep == OnlyRequests /\ TypeOK /\ RequestInv /\ [Next]_vars => RequestInv'
  <1> SUFFICES ASSUME OnlyRequests, TypeOK, RequestInv, [Next]_vars PROVE RequestInv'
    OBVIOUS
  <1>1. CASE Next
    BY <1>1, OutsideKeeps, CallKeeps, LoaderKeeps, TransferKeeps DEF Next
  <1>2. CASE UNCHANGED vars
    <2>1. UNCHANGED <<setup, calls, state, toRemove, shared, toLoad, loaded, mpc, lpc>>
      BY <1>2 DEF vars, moving, data, queues, control
    <2>2. Around'
      BY <2>1, PlayStays DEF RequestInv, Around
    <2> QED BY <2>1, <2>2, StacksSame
  <1> QED BY <1>1, <1>2

(* Pending says of sets of frames and elements what RequestedIsPending     *)
(* says of indices.                                                        *)
LEMMA PendingIs ==
    ASSUME TypeOK, Pending
    PROVE  RequestedIsPending
  <1>1. ASSUME NEW r \in Resources, NEW q \in [Types -> Seq(Resources)], Waits(q, r) PROVE InQueue(q, r)
    <2>1. q[TypeOf[r]] \in Seq(Resources)
      BY ResourceAssumption
    <2> QED BY <1>1, <2>1, ToSetIs DEF Waits, InQueue
  <1>2. ASSUME NEW r \in Resources, InJob(r) \/ InLoad(r) PROVE InCreate(r)
    <2>1. PICK t \in Threads : \E f \in ToSet(calls[t]) :
             f.op \in {"Job", "Load"} /\ f.res = r /\ f.at \in Making
      BY <1>2 DEF InJob, InLoad, Creating
    <2>2. PICK f \in ToSet(calls[t]) :
             f.op \in {"Job", "Load"} /\ f.res = r /\ f.at \in Making
      BY <2>1
    <2>3. calls[t] \in Seq(FrameType)
      BY DEF TypeOK, FrameType
    <2>4. PICK i \in 1..Len(calls[t]) : calls[t][i] = f
      BY <2>2, <2>3, ToSetIs
    <2> QED BY <2>2, <2>4 DEF InCreate, Making, Copying
  <1>3. ASSUME NEW r \in Resources, state[r] = "Requested"
        PROVE  InQueue(shared, r) \/ InQueue(toLoad, r) \/ InCreate(r) \/ loaded[r] # "None"
    <2>1. Waits(shared, r) \/ Waits(toLoad, r) \/ InJob(r) \/ InLoad(r) \/ loaded[r] # "None"
      BY <1>3 DEF Pending
    <2>2. shared \in [Types -> Seq(Resources)] /\ toLoad \in [Types -> Seq(Resources)]
      BY DEF TypeOK
    <2> QED BY <1>1, <1>2, <2>1, <2>2
  <1> QED BY <1>3 DEF RequestedIsPending

(* In the programs of OnlyRequests no request is lost: what is requested   *)
(* is in a queue, being created, or about to be published, whatever the    *)
(* loaders, the transfers and the lists of what is to be removed do.       *)
THEOREM NoRequestLost == OnlyRequests => (Spec => []RequestedIsPending)
  <1> SUFFICES ASSUME OnlyRequests PROVE Spec => []RequestedIsPending
    OBVIOUS
  <1>1. Init => RequestInv
    BY RequestInit
  <1>2. TypeOK /\ RequestInv /\ [Next]_vars => RequestInv'
    BY RequestStep
  <1>3. TypeOK /\ RequestInv => RequestedIsPending
    BY PendingIs DEF RequestInv
  <1> QED BY <1>1, <1>2, <1>3, ResourcesTyped, PTL DEF Spec

(* When Main sets myIsAllResourcesLoaded in such a program, everything     *)
(* that is still only requested is inside of a Create.                     *)
THEOREM FlagIsSound == OnlyRequests => (Spec => FlagMeansNoneQueued)
  <1> SUFFICES ASSUME OnlyRequests PROVE Spec => FlagMeansNoneQueued
    OBVIOUS
  <1> DEFINE Flag == mpc = "queue" /\ mpc' = "prune" /\ allLoaded' =>
                         \A r \in Resources : state[r] = "Requested" => InCreate(r)
  <1>1. TypeOK /\ RequestedIsPending /\ [Next]_vars => Flag
    <2> SUFFICES ASSUME TypeOK, RequestedIsPending, [Next]_vars, mpc = "queue", mpc' = "prune", allLoaded',
                        NEW r \in Resources, state[r] = "Requested"
                 PROVE  InCreate(r)
      OBVIOUS
    <2>1. TransferQueues
      BY DEF Next, Call, ResourceCall, RequestTest, RequestPush, RequestMark, LoadTest, LoadCopy,
             LoadResult, LoadSwap,
             LoadMark, LoadNow, UnloadDrop, UnloadReset, Loader, LoaderBlock, LoaderExit, LoaderTake,
             LoaderStore, LoaderSpurious, Transfer, TransferLoaded, Publish, PublishSwap,
             PublishResult, PublishMark, PublishEnd, TransferNotify, TransferContext, Shutdown, Stop, StopNotify, StopJoin, control, vars, moving
    <2>2. NothingLeft
      BY <2>1 DEF TransferQueues
    <2>3. toLoad[TypeOf[r]] = <<>> /\ shared[TypeOf[r]] = <<>> /\ loaded[r] = "None"
      BY <2>2, ResourceAssumption DEF NothingLeft
    <2>4. ~InQueue(shared, r) /\ ~InQueue(toLoad, r)
      BY <2>3 DEF InQueue
    <2> QED BY <2>3, <2>4 DEF RequestedIsPending
  <1>2. Spec => []RequestedIsPending
    BY NoRequestLost
  <1> HIDE DEF Flag
  <1>3. Spec => [][Flag]_vars
    BY <1>1, <1>2, ResourcesTyped, PTL DEF Spec
  <1> QED BY <1>3 DEF FlagMeansNoneQueued, Flag

-----------------------------------------------------------------------------
(* One copy.  In the programs of OnlyRequests in which the children of     *)
(* what a Create loads at once are loaded by a Create themselves, a        *)
(* resource that no Create loads has one copy at a time: in one place of   *)
(* one queue, with one loader, or waiting to be published.                 *)
(*                                                                         *)
(* A loader's job is its outermost call, and Load is called only on what   *)
(* some Create loads.                                                      *)
Ordered(q) ==
    \A i \in 1..Len(q) : /\ q[i].op = "Job" => i = Len(q)
                         /\ q[i].op = "Load" => LoadedByCreate(q[i].res)

JobsIn(q) == {f.res : f \in {g \in ToSet(q) : g.op = "Job"}}

HasJob(r) == \E t \in Threads : r \in JobsIn(calls[t])

Clean(r) == ~Waits(shared, r) /\ ~Waits(toLoad, r) /\ ~HasJob(r) /\ loaded[r] = "None"

FramesInOrder == \A t \in Threads : Ordered(calls[t])

InOneQueue ==
    \A y \in Types : /\ IsInjective(toLoad[y] \o shared[y])
                     /\ \A r \in ToSet(toLoad[y]) \cup ToSet(shared[y]) : TypeOf[r] = y

InOnePlace ==
    \A r \in Resources :
        /\ state[r] = "Unloaded" =>
               Clean(r) \/ \E t \in Threads : At(t, "Request", "mark") /\ Res(t) = r
        /\ Waits(shared, r) \/ Waits(toLoad, r) => ~HasJob(r) /\ loaded[r] = "None"
        /\ HasJob(r) => loaded[r] = "None"
        /\ \A t, u \in Threads : r \in JobsIn(calls[t]) /\ r \in JobsIn(calls[u]) => t = u

AfterLoad ==
    \A r \in Resources : ~LoadedByCreate(r) =>
        /\ state[r] = "Loaded" => Clean(r)
        /\ payload[r] => state[r] = "Loaded" \/ r \in publishing

RequestOnce ==
    \A t \in Threads :
        /\ At(t, "Request", "push") => Clean(Res(t))
        /\ PastTest(t) /\ ~LoadedByCreate(Res(t)) => state[Res(t)] = "Unloaded"

OnceInv == FramesInOrder /\ InOneQueue /\ InOnePlace /\ AfterLoad /\ RequestOnce

(* What Main is publishing is finished, and has not been marked yet.       *)
UnderWay ==
    /\ publishing # {} => mpc \in {"publishResult", "publishMark"}
    /\ \A r \in publishing : loaded[r] # "None"

LEMMA UnderWayStep ==
    ASSUME TypeOK, UnderWay, [Next]_vars
    PROVE  UnderWay'
  <1> USE DEF UnderWay
  <1>1. \A t \in Threads : ResourceCall(t) => UNCHANGED <<loaded, mpc, publishing>>
    BY CallFrames
  <1>2. ASSUME NEW l \in Loaders, Loader(l) \/ LoaderSpurious(l)
        PROVE  UNCHANGED <<mpc, publishing>> /\ \A r \in publishing : loaded'[r] # "None"
    <2>1. CASE LoaderBlock(l) \/ LoaderExit(l) \/ LoaderTake(l) \/ LoaderSpurious(l)
      BY <2>1 DEF LoaderBlock, LoaderExit, LoaderTake, LoaderSpurious, queues, control
    <2>2. ASSUME NEW ok \in BOOLEAN, LoaderStore(l, ok)
          PROVE  UNCHANGED <<mpc, publishing>> /\ \A r \in publishing : loaded'[r] # "None"
      BY <2>2 DEF LoaderStore, Outcome, TypeOK, control
    <2> QED BY <1>2, <2>1, <2>2 DEF Loader
  <1>3. ASSUME NEW r \in Resources, PublishSwap(r) PROVE UnderWay'
    BY <1>3 DEF PublishSwap, queues
  <1>4. CASE PublishResult \/ PublishMark \/ PublishEnd
    BY <1>4 DEF PublishResult, PublishMark, PublishEnd, queues
  <1>5. CASE TransferLoaded \/ TransferQueues \/ TransferNotify \/ Shutdown
             \/ \E t \in Threads : TransferContext(t)
    BY <1>5 DEF TransferLoaded, TransferQueues, TransferNotify, TransferContext, Shutdown, Stop,
           StopNotify, StopJoin, queues
  <1>6. CASE \E use \in setup.uses : Call(use[1], use[2], use[3])
    BY <1>6 DEF Call, queues, control
  <1>7. CASE UNCHANGED vars
    BY <1>7 DEF vars, moving, queues, control
  <1> QED BY <1>1, <1>2, <1>3, <1>4, <1>5, <1>6, <1>7 DEF Next, Transfer, Publish

LEMMA PopOrdered ==
    ASSUME NEW q \in Seq(FrameType), q # <<>>, Ordered(q)
    PROVE  /\ Ordered(Tail(q))
           /\ Head(q).op # "Job" => JobsIn(Tail(q)) = JobsIn(q)
           /\ Head(q).op = "Job" => Tail(q) = <<>> /\ JobsIn(q) = {Head(q).res}
           /\ Head(q).op = "Load" => LoadedByCreate(Head(q).res)
  <1> DEFINE w == Tail(q)
  <1>1. /\ w \in Seq(FrameType) /\ Len(w) = Len(q) - 1 /\ Head(q) = q[1] /\ 1 \in 1..Len(q)
        /\ \A i \in 1..Len(w) : w[i] = q[i + 1] /\ i + 1 \in 1..Len(q)
        /\ Len(q) = 1 => w = <<>>
    OBVIOUS
  <1>2. ToSet(q) = {Head(q)} \cup ToSet(w)
    BY HeadAndTail
  <1>3. ToSet(<<>>) = {}
    BY DEF ToSet
  <1> HIDE DEF w
  <1>4. Ordered(w)
    <2> SUFFICES ASSUME NEW i \in 1..Len(w)
                 PROVE  (w[i].op = "Job" => i = Len(w)) /\ (w[i].op = "Load" => LoadedByCreate(w[i].res))
      BY DEF Ordered
    <2>1. w[i] = q[i + 1] /\ i + 1 \in 1..Len(q)
      BY <1>1
    <2>2. (q[i + 1].op = "Job" => i + 1 = Len(q)) /\ (q[i + 1].op = "Load" => LoadedByCreate(q[i + 1].res))
      BY <2>1 DEF Ordered
    <2>3. i + 1 = Len(q) => i = Len(w)
      BY <1>1
    <2> QED BY <2>1, <2>2, <2>3
  <1>5. Head(q).op = "Job" => w = <<>>
    BY <1>1 DEF Ordered
  <1>6. Head(q).op = "Load" => LoadedByCreate(Head(q).res)
    BY <1>1 DEF Ordered
  <1>7. Head(q).op # "Job" => JobsIn(w) = JobsIn(q)
    BY <1>2 DEF JobsIn
  <1>8. Head(q).op = "Job" => JobsIn(q) = {Head(q).res}
    BY <1>2, <1>3, <1>5 DEF JobsIn
  <1> QED BY <1>4, <1>5, <1>6, <1>7, <1>8 DEF w

(* Going on behind loads of what some Create loads                         *)
LEMMA GoOrdered ==
    ASSUME NEW q \in Seq(FrameType), q # <<>>, Ordered(q),
           NEW fs \in Seq(FrameType), NEW h \in FrameType, h.op = Head(q).op, h.res = Head(q).res,
           \A f \in ToSet(fs) : f.op = "Load" /\ LoadedByCreate(f.res)
    PROVE  LET w == fs \o <<h>> \o Tail(q) IN Ordered(w) /\ JobsIn(w) = JobsIn(q)
  <1> DEFINE rest == Tail(q)
             w == fs \o <<h>> \o rest
             n == Len(fs)
  <1>1. /\ rest \in Seq(FrameType) /\ Len(rest) = Len(q) - 1 /\ Head(q) = q[1] /\ 1 \in 1..Len(q)
        /\ \A i \in 1..Len(rest) : rest[i] = q[i + 1] /\ i + 1 \in 1..Len(q)
    OBVIOUS
  <1>2. /\ Len(w) = n + 1 + Len(rest) /\ n \in Nat /\ Len(rest) \in Nat
        /\ \A i \in 1..n : w[i] = fs[i]
        /\ w[n + 1] = h
        /\ \A i \in 1..Len(rest) : w[n + 1 + i] = rest[i]
    BY <1>1
  <1>3. ToSet(q) = {Head(q)} \cup ToSet(rest)
    BY HeadAndTail
  <1>4. ToSet(w) = ToSet(fs) \cup {h} \cup ToSet(rest)
    BY <1>1, Stacked
  <1>5. \A i \in 1..n : fs[i] \in ToSet(fs)
    BY ToSetIs
  <1> HIDE DEF w, rest, n
  <1>6. ASSUME NEW i \in 1..Len(w)
        PROVE  (w[i].op = "Job" => i = Len(w)) /\ (w[i].op = "Load" => LoadedByCreate(w[i].res))
    <2>1. CASE i \in 1..n
      BY <1>2, <1>5, <2>1
    <2>2. CASE i = n + 1
      BY <1>1, <1>2, <2>2 DEF Ordered
    <2>3. CASE i > n + 1
      <3>1. i - n - 1 \in 1..Len(rest) /\ n + 1 + (i - n - 1) = i
        BY <1>2, <2>3
      <3>2. w[i] = rest[i - n - 1]
        BY <1>2, <3>1
      <3>3. rest[i - n - 1] = q[(i - n - 1) + 1] /\ (i - n - 1) + 1 \in 1..Len(q)
        BY <1>1, <3>1
      <3>4. (i - n - 1) + 1 = i - n
        BY <1>2
      <3>5. w[i] = q[i - n] /\ i - n \in 1..Len(q)
        BY <3>2, <3>3, <3>4
      <3>6. (q[i - n].op = "Job" => i - n = Len(q)) /\ (q[i - n].op = "Load" => LoadedByCreate(q[i - n].res))
        BY <3>5 DEF Ordered
      <3>7. i - n = Len(q) => i = Len(w)
        BY <1>1, <1>2
      <3> QED BY <3>5, <3>6, <3>7
    <2> QED BY <1>2, <2>1, <2>2, <2>3
  <1>7. Ordered(w)
    BY <1>6 DEF Ordered
  <1>8. JobsIn(w) = JobsIn(q)
    BY <1>3, <1>4 DEF JobsIn
  <1> QED BY <1>7, <1>8 DEF w, rest

LEMMA NeedsAreLoaded ==
    ASSUME TypeOK, NEW r \in Resources
    PROVE  \A k \in ToSet(Needs[r]) : LoadedByCreate(k)
  <1>1. Needs[r] \in Seq(Resources)
    BY ResourceAssumption
  <1>2. ASSUME NEW k \in ToSet(Needs[r]) PROVE \E i \in DOMAIN Needs[r] : Needs[r][i] = k
    BY <1>1, <1>2, ToSetIs
  <1> QED BY <1>2 DEF LoadedByCreate

(* The calls neither begin nor end a job.                                  *)
LEMMA CallOrder ==
    ASSUME OnlyRequests, LoadsAreClosed, TypeOK, RequestInv, FramesInOrder,
           NEW t \in Threads, ResourceCall(t), UNCHANGED setup
    PROVE  /\ Ordered(calls'[t]) /\ JobsIn(calls'[t]) = JobsIn(calls[t])
           /\ Head(calls[t]).op = "Load" => LoadedByCreate(Res(t))
           /\ RequestPush(t) => At(t, "Request", "mark")' /\ Res(t)' = Res(t)
  <1>1. calls \in Stacks
    BY DEF TypeOK, Stacks, FrameType
  <1>2. calls[t] # <<>> /\ calls[t] \in Seq(FrameType) /\ Ordered(calls[t])
    BY <1>1 DEF ResourceCall, At, RequestTest, RequestPush, RequestMark, LoadTest, LoadCopy,
           LoadResult, LoadSwap,
           LoadMark, LoadNow, UnloadDrop, UnloadReset, FramesInOrder, Stacks
  <1>3. Head(calls[t]).op = "Load" => LoadedByCreate(Res(t))
    BY <1>2, PopOrdered DEF Res
  <1>4. ~(LoadNow(t) \/ UnloadDrop(t) \/ UnloadReset(t))
    BY CallEffect DEF RequestInv
  <1>5. Res(t) \in Resources /\ Head(calls[t]).res = Res(t)
    BY <1>2, TopTyped DEF Res
  <1>6. Head(calls[t]).op \in {"Request", "Load"}
    BY <1>4 DEF ResourceCall, RequestTest, RequestPush, RequestMark, LoadTest, LoadCopy,
           LoadResult, LoadSwap, LoadMark, At
  <1>7. ASSUME Return(t)
        PROVE  Ordered(calls'[t]) /\ JobsIn(calls'[t]) = JobsIn(calls[t])
    BY <1>1, <1>2, <1>6, <1>7, PopOrdered, Returns
  <1>8. ASSUME NEW at \in Steps, NEW fs \in Seq(FrameType), Continue(t, at, fs),
               \A f \in ToSet(fs) : f.op = "Load" /\ LoadedByCreate(f.res)
        PROVE  Ordered(calls'[t]) /\ JobsIn(calls'[t]) = JobsIn(calls[t])
    <2> DEFINE h == Frame(Head(calls[t]).op, Res(t), at)
    <2>1. h \in FrameType /\ calls'[t] = fs \o <<h>> \o Tail(calls[t])
      BY <1>1, <1>2, <1>8, Continues
    <2>2. h.op = Head(calls[t]).op /\ h.res = Head(calls[t]).res
      BY <1>5 DEF Frame
    <2> HIDE DEF h
    <2> QED BY <1>2, <1>8, <2>1, <2>2, GoOrdered
  <1>9. <<>> \in Seq(FrameType) /\ ToSet(<<>>) = {}
    BY DEF ToSet
  <1>10. {"push", "copy"} \cup Copying \subseteq Steps /\ "Load" \in Ops
    BY DEF Steps, Ops, Copying
  <1>11. ASSUME Head(calls[t]).op = "Load"
         PROVE  \A fs \in {Frames("Load", Needs[Res(t)]), Frames("Load", Kids[Res(t)])} :
                   fs \in Seq(FrameType) /\ \A f \in ToSet(fs) : f.op = "Load" /\ LoadedByCreate(f.res)
    <2>1. /\ Needs[Res(t)] \in Seq(Resources) /\ Kids[Res(t)] \in Seq(Resources)
          /\ \A k \in ToSet(Needs[Res(t)]) \cup ToSet(Kids[Res(t)]) : LoadedByCreate(k)
      BY <1>3, <1>5, <1>11, NeedsAreLoaded, ResourceAssumption DEF LoadsAreClosed
    <2> QED BY <1>10, <2>1, FramesTyped
  <1>12. ASSUME RequestTest(t) \/ RequestPush(t) \/ RequestMark(t) \/ LoadTest(t) \/ LoadMark(t)
         PROVE  Ordered(calls'[t]) /\ JobsIn(calls'[t]) = JobsIn(calls[t])
    <2>1. Return(t) \/ \E at \in {"push", "mark", "copy"} : Continue(t, at, <<>>)
      BY <1>12 DEF RequestTest, RequestPush, RequestMark, LoadTest, LoadMark
    <2> QED BY <1>7, <1>8, <1>9, <1>10, <2>1 DEF Copying
  <1>13. ASSUME LoadCopy(t) \/ LoadSwap(t) \/ \E ok \in BOOLEAN : LoadResult(t, ok)
         PROVE  Ordered(calls'[t]) /\ JobsIn(calls'[t]) = JobsIn(calls[t])
    <2>1. /\ Head(calls[t]).op = "Load"
          /\ \E at \in Copying :
                \/ Continue(t, at, <<>>)
                \/ \E fs \in {Frames("Load", Needs[Res(t)]), Frames("Load", Kids[Res(t)])} : Continue(t, at, fs)
      BY <1>13 DEF LoadCopy, LoadResult, LoadSwap, At, Copying
    <2> QED BY <1>8, <1>9, <1>10, <1>11, <2>1
  <1>14. ASSUME RequestPush(t) PROVE At(t, "Request", "mark")' /\ Res(t)' = Res(t)
    <2> DEFINE h == Frame(Head(calls[t]).op, Res(t), "mark")
    <2>1. Continue(t, "mark", <<>>) /\ Head(calls[t]).op = "Request"
      BY <1>14 DEF RequestPush, At
    <2>2. h \in FrameType /\ calls'[t] = <<>> \o <<h>> \o Tail(calls[t])
      BY <1>1, <1>2, <1>9, <1>10, <2>1, Continues DEF Copying
    <2>3. h.op = "Request" /\ h.res = Res(t) /\ h.at = "mark"
      BY <2>1 DEF Frame
    <2>4. Tail(calls[t]) \in Seq(FrameType)
      BY <1>2, HeadAndTail
    <2> HIDE DEF h
    <2>5. calls'[t] # <<>> /\ Head(calls'[t]) = h
      BY <1>9, <2>2, <2>4, Stacked
    <2> QED BY <2>3, <2>5 DEF At, Res
  <1> QED BY <1>3, <1>4, <1>12, <1>13, <1>14 DEF ResourceCall

(* What a call leaves as it was                                            *)
LEMMA CallFrame ==
    ASSUME OnlyRequests, LoadsAreClosed, TypeOK, RequestInv, OnceInv,
           NEW t \in Threads, ResourceCall(t), UNCHANGED setup
    PROVE  /\ UNCHANGED <<toLoad, loaded>> /\ Res(t) \in Resources /\ calls[t] # <<>>
           /\ ~RequestPush(t) => UNCHANGED shared
           /\ RequestPush(t) => /\ shared' = [shared EXCEPT ![TypeOf[Res(t)]] = Append(@, Res(t))]
                                /\ Clean(Res(t)) /\ PastTest(t) /\ Head(calls[t]).op = "Request"
           /\ \A r \in Resources : ~LoadedByCreate(r) =>
                 /\ payload'[r] = payload[r]
                 /\ state'[r] = IF RequestMark(t) /\ r = Res(t) THEN "Requested" ELSE state[r]
           /\ \A r \in Resources : state'[r] = "Unloaded" =>
                 state[r] = "Unloaded" /\ ~(RequestMark(t) /\ r = Res(t))
           /\ RequestMark(t) => At(t, "Request", "mark") /\ PastTest(t) /\ Head(calls[t]).op = "Request"
           /\ UNCHANGED publishing
  <1>1. calls[t] # <<>>
    BY DEF ResourceCall, At, RequestTest, RequestPush, RequestMark, LoadTest, LoadCopy, LoadResult,
           LoadSwap,
           LoadMark, LoadNow, UnloadDrop, UnloadReset
  <1>2. Res(t) \in Resources
    BY <1>1, TopTyped
  <1>3. ~(LoadNow(t) \/ UnloadDrop(t) \/ UnloadReset(t))
    BY CallEffect DEF RequestInv
  <1>4. Head(calls[t]).op = "Load" => LoadedByCreate(Res(t))
    BY CallOrder DEF OnceInv
  <1>5. UNCHANGED <<toLoad, loaded>> /\ (~RequestPush(t) => UNCHANGED shared)
    BY <1>3 DEF ResourceCall, RequestTest, RequestPush, RequestMark, LoadTest, LoadCopy,
           LoadResult, LoadSwap, LoadMark,
           data, queues
  <1>6. RequestPush(t) => /\ shared' = [shared EXCEPT ![TypeOf[Res(t)]] = Append(@, Res(t))]
                          /\ Clean(Res(t)) /\ PastTest(t) /\ Head(calls[t]).op = "Request"
    BY DEF RequestPush, OnceInv, RequestOnce, PastTest, At
  <1>7. RequestMark(t) => /\ At(t, "Request", "mark") /\ PastTest(t) /\ Head(calls[t]).op = "Request"
                          /\ state' = [state EXCEPT ![Res(t)] = "Requested"] /\ UNCHANGED payload
    BY DEF RequestMark, PastTest, At
  <1>8. LoadMark(t) => /\ Head(calls[t]).op = "Load" /\ UNCHANGED payload
                       /\ state' = [state EXCEPT ![Res(t)] = "Loaded"]
    BY DEF LoadMark, At
  <1>9. ASSUME LoadSwap(t)
        PROVE  /\ Head(calls[t]).op = "Load" /\ UNCHANGED state
               /\ \E p \in BOOLEAN : payload' = [payload EXCEPT ![Res(t)] = p]
    BY <1>9 DEF LoadSwap, At
  <1>10. /\ RequestTest(t) \/ RequestPush(t) \/ LoadTest(t) \/ LoadCopy(t) => UNCHANGED <<state, payload>>
         /\ \A ok \in BOOLEAN : LoadResult(t, ok) => UNCHANGED <<state, payload>>
    BY DEF RequestTest, RequestPush, LoadTest, LoadCopy, LoadResult, data
  <1>11. payload \in [Resources -> BOOLEAN] /\ state \in [Resources -> {"Unloaded", "Requested", "Loaded"}]
    BY DEF TypeOK
  <1>12. ASSUME NEW r \in Resources, ~LoadedByCreate(r)
         PROVE  /\ payload'[r] = payload[r]
                /\ state'[r] = IF RequestMark(t) /\ r = Res(t) THEN "Requested" ELSE state[r]
    <2>1. CASE RequestMark(t)
      BY <1>7, <1>11, <2>1
    <2>2. CASE ~RequestMark(t) /\ LoadMark(t)
      <3>1. r # Res(t)
        BY <1>4, <1>8, <1>12, <2>2
      <3> QED BY <1>8, <1>11, <2>2, <3>1
    <2>3. ASSUME ~RequestMark(t), LoadSwap(t)
          PROVE  payload'[r] = payload[r] /\ state'[r] = state[r]
      <3>1. r # Res(t)
        BY <1>4, <1>9, <1>12, <2>3
      <3> QED BY <1>9, <1>11, <2>3, <3>1
    <2> QED BY <1>3, <1>10, <2>1, <2>2, <2>3 DEF ResourceCall
  <1>13. ASSUME NEW r \in Resources, state'[r] = "Unloaded"
         PROVE  state[r] = "Unloaded" /\ ~(RequestMark(t) /\ r = Res(t))
    BY <1>2, <1>3, <1>7, <1>8, <1>9, <1>10, <1>11, <1>13 DEF ResourceCall
  <1> QED BY <1>1, <1>2, <1>5, <1>6, <1>7, <1>12, <1>13, CallFrames

LEMMA CallOnce ==
    ASSUME OnlyRequests, LoadsAreClosed, TypeOK, RequestInv, OnceInv,
           NEW t \in Threads, ResourceCall(t), UNCHANGED setup
    PROVE  OnceInv'
  <1> USE DEF OnceInv
  <1> DEFINE r0 == Res(t)
             y0 == TypeOf[r0]
  <1>1. /\ UNCHANGED <<toLoad, loaded>> /\ Res(t) \in Resources /\ calls[t] # <<>>
        /\ ~RequestPush(t) => UNCHANGED shared
        /\ RequestPush(t) => /\ shared' = [shared EXCEPT ![y0] = Append(@, r0)]
                             /\ Clean(r0) /\ PastTest(t) /\ Head(calls[t]).op = "Request"
        /\ \A r \in Resources : ~LoadedByCreate(r) =>
              /\ payload'[r] = payload[r]
              /\ state'[r] = IF RequestMark(t) /\ r = r0 THEN "Requested" ELSE state[r]
        /\ \A r \in Resources : state'[r] = "Unloaded" =>
              state[r] = "Unloaded" /\ ~(RequestMark(t) /\ r = r0)
        /\ RequestMark(t) => At(t, "Request", "mark") /\ PastTest(t) /\ Head(calls[t]).op = "Request"
        /\ UNCHANGED publishing
    BY CallFrame
  <1>2. /\ Ordered(calls'[t]) /\ JobsIn(calls'[t]) = JobsIn(calls[t])
        /\ RequestPush(t) => At(t, "Request", "mark")' /\ Res(t)' = r0
    BY CallOrder
  <1>3. /\ \A u \in Threads \ {t} : calls'[u] = calls[u]
        /\ PastTest(t)' => /\ Res(t)' = r0
                           /\ \/ RequestTest(t) /\ MustRequest(r0) /\ ~At(t, "Request", "mark")'
                              \/ RequestPush(t)
    BY CallEffect DEF RequestInv
  <1>4. \A u \in Threads : JobsIn(calls'[u]) = JobsIn(calls[u])
    BY <1>2, <1>3
  <1>5. FramesInOrder'
    BY <1>2, <1>3 DEF FramesInOrder
  <1>6. /\ y0 \in Types /\ shared \in [Types -> Seq(Resources)] /\ toLoad \in [Types -> Seq(Resources)]
        /\ \A r \in Resources : TypeOf[r] \in Types
    BY <1>1, ResourceAssumption DEF TypeOK
  <1>0. shared[y0] \in Seq(Resources) /\ toLoad[y0] \in Seq(Resources) /\ r0 \in Resources
    BY <1>1, <1>6
  <1>7. RequestPush(t) => /\ ToSet(shared'[y0]) = ToSet(shared[y0]) \cup {r0}
                          /\ shared'[y0] = Append(shared[y0], r0)
                          /\ \A y \in Types : y # y0 => shared'[y] = shared[y]
    <2> HIDE DEF r0, y0
    <2>1. RequestPush(t) => /\ shared'[y0] = Append(shared[y0], r0)
                            /\ \A y \in Types : y # y0 => shared'[y] = shared[y]
      BY <1>1, <1>6
    <2>2. ToSet(Append(shared[y0], r0)) = ToSet(shared[y0]) \cup {r0}
      BY <1>0, ToSetAppend
    <2> QED BY <2>1, <2>2
  <1>8. \A r \in Resources : Waits(toLoad, r)' = Waits(toLoad, r)
    BY <1>1 DEF Waits
  <1>9. ASSUME NEW r \in Resources
        PROVE  /\ Waits(shared, r)' => Waits(shared, r) \/ (RequestPush(t) /\ r = r0)
               /\ (HasJob(r)' <=> HasJob(r))
    <2>1. HasJob(r)' <=> HasJob(r)
      BY <1>4 DEF HasJob
    <2>2. CASE RequestPush(t)
      BY <1>6, <1>7, <2>1, <2>2 DEF Waits
    <2>3. CASE ~RequestPush(t)
      BY <1>1, <2>1, <2>3 DEF Waits
    <2> QED BY <2>2, <2>3
  <1>10. InOneQueue'
    <2>1. CASE ~RequestPush(t)
      BY <1>1, <2>1 DEF InOneQueue
    <2>2. CASE RequestPush(t)
      <3>1. r0 \notin ToSet(shared[y0]) /\ r0 \notin ToSet(toLoad[y0])
        BY <1>1, <2>2 DEF Clean, Waits
      <3>2. IsInjective(toLoad[y0] \o Append(shared[y0], r0))
        <4> HIDE DEF r0, y0
        <4> DEFINE w == Append(shared[y0], r0)
        <4>1. /\ IsInjective(toLoad[y0]) /\ IsInjective(shared[y0])
              /\ ToSet(toLoad[y0]) \cap ToSet(shared[y0]) = {}
          BY <1>6, <1>0, InjectiveConcat DEF InOneQueue
        <4>2. IsInjective(w) /\ w \in Seq(Resources) /\ ToSet(w) = ToSet(shared[y0]) \cup {r0}
          BY <1>0, <3>1, <4>1, InjectiveAppend, ToSetAppend
        <4> HIDE DEF w
        <4>3. IsInjective(toLoad[y0] \o w)
          BY <1>0, <3>1, <4>1, <4>2, InjectiveConcat
        <4> QED BY <4>3 DEF w
      <3>3. ASSUME NEW y \in Types
            PROVE  /\ IsInjective(toLoad'[y] \o shared'[y])
                   /\ \A r \in ToSet(toLoad'[y]) \cup ToSet(shared'[y]) : TypeOf[r] = y
        <4>1. CASE y = y0
          BY <1>1, <1>7, <2>2, <3>2, <4>1 DEF InOneQueue
        <4>2. CASE y # y0
          BY <1>1, <1>7, <2>2, <4>2 DEF InOneQueue
        <4> QED BY <4>1, <4>2
      <3> QED BY <3>3 DEF InOneQueue
    <2> QED BY <2>1, <2>2
  <1>11. \A r \in Resources : Clean(r) => Clean(r)' \/ (RequestPush(t) /\ r = r0)
    BY <1>1, <1>8, <1>9 DEF Clean
  <1>12. InOnePlace'
    <2> SUFFICES ASSUME NEW r \in Resources
                 PROVE  /\ state'[r] = "Unloaded" =>
                              Clean(r)' \/ \E u \in Threads : At(u, "Request", "mark")' /\ Res(u)' = r
                        /\ Waits(shared, r)' \/ Waits(toLoad, r)' => ~HasJob(r)' /\ loaded'[r] = "None"
                        /\ HasJob(r)' => loaded'[r] = "None"
                        /\ \A u, v \in Threads : r \in JobsIn(calls'[u]) /\ r \in JobsIn(calls'[v]) => u = v
      BY DEF InOnePlace
    <2>1. ASSUME state'[r] = "Unloaded"
          PROVE  Clean(r)' \/ \E u \in Threads : At(u, "Request", "mark")' /\ Res(u)' = r
      <3>1. CASE Clean(r)
        BY <1>2, <1>11, <3>1
      <3>2. ASSUME NEW u \in Threads, At(u, "Request", "mark"), Res(u) = r
            PROVE  At(u, "Request", "mark")' /\ Res(u)' = r
        <4>1. u # t
          <5>1. ASSUME u = t PROVE RequestMark(t)
            BY <3>2, <5>1 DEF ResourceCall, RequestTest, RequestPush, LoadTest, LoadCopy,
                   LoadResult, LoadSwap, LoadMark,
               LoadNow, UnloadDrop, UnloadReset, At
          <5> QED BY <1>1, <2>1, <3>2, <5>1
        <4> QED BY <1>3, <3>2, <4>1 DEF At, Res
      <3>3. state[r] = "Unloaded"
        BY <1>1, <2>1
      <3> QED BY <3>1, <3>2, <3>3 DEF InOnePlace
    <2>2. Waits(shared, r)' \/ Waits(toLoad, r)' => ~HasJob(r)' /\ loaded'[r] = "None"
      BY <1>1, <1>8, <1>9 DEF InOnePlace, Clean
    <2>3. HasJob(r)' => loaded'[r] = "None"
      BY <1>1, <1>9 DEF InOnePlace
    <2>4. \A u, v \in Threads : r \in JobsIn(calls'[u]) /\ r \in JobsIn(calls'[v]) => u = v
      BY <1>4 DEF InOnePlace
    <2> QED BY <2>1, <2>2, <2>3, <2>4
  <1>13. ASSUME NEW r \in Resources, ~LoadedByCreate(r)
         PROVE  /\ state'[r] = "Loaded" => Clean(r)'
                /\ payload'[r] => state'[r] = "Loaded" \/ r \in publishing'
    <2>1. (RequestPush(t) \/ RequestMark(t)) /\ r = r0 => state[r] = "Unloaded"
      BY <1>1, <1>13 DEF RequestOnce
    <2>2. state'[r] = "Loaded" => state[r] = "Loaded" /\ ~(RequestPush(t) /\ r = r0)
      BY <1>1, <1>13, <2>1
    <2>3. payload'[r] => r \in publishing' \/ (state[r] = "Loaded" /\ state'[r] = state[r])
      BY <1>1, <1>13, <2>1 DEF AfterLoad
    <2> QED BY <1>11, <1>13, <2>2, <2>3 DEF AfterLoad
  <1>14. AfterLoad'
    BY <1>13 DEF AfterLoad
  <1>15. ASSUME NEW u \in Threads, u # t, PastTest(u)'
         PROVE  /\ PastTest(u) /\ Res(u)' = Res(u) /\ Res(u) \in Resources
                /\ At(u, "Request", "push")' => At(u, "Request", "push")
                /\ ~((RequestPush(t) \/ RequestMark(t)) /\ Res(u) = r0)
    <2>1. calls'[u] = calls[u]
      BY <1>3, <1>15
    <2>2. /\ PastTest(u) /\ Res(u)' = Res(u) /\ (At(u, "Request", "push")' => At(u, "Request", "push"))
          /\ calls[u] # <<>> /\ Head(calls[u]).op = "Request"
      BY <1>15, <2>1 DEF PastTest, At, Res
    <2>3. Res(u) \in Resources
      BY <2>2, TopTyped
    <2>4. ~((RequestPush(t) \/ RequestMark(t)) /\ Res(u) = r0)
      BY <1>1, <1>15, <2>2, OneRequester DEF RequestInv
    <2> QED BY <2>2, <2>3, <2>4
  <1>16. ASSUME NEW r \in Resources, r = Res(t), RequestTest(t), MustRequest(r)
         PROVE  Clean(r)' /\ state'[r] = "Unloaded"
    <2>1. /\ UNCHANGED state /\ state[r] = "Unloaded" /\ ~RequestPush(t)
          /\ Head(calls[t]).op = "Request" /\ ~At(t, "Request", "mark")
      BY <1>16 DEF RequestTest, RequestPush, MustRequest, data, At
    <2>2. ASSUME NEW u \in Threads, At(u, "Request", "mark"), Res(u) = r PROVE FALSE
      <3>1. calls[u] # <<>> /\ Head(calls[u]).op = "Request"
        BY <2>2 DEF At
      <3>2. t = u
        BY <1>1, <1>16, <2>1, <2>2, <3>1, OneRequester DEF RequestInv
      <3> QED BY <2>1, <2>2, <3>2
    <2>3. Clean(r)
      BY <2>1, <2>2 DEF InOnePlace
    <2> QED BY <1>11, <2>1, <2>3
  <1>17. RequestOnce'
    <2> SUFFICES ASSUME NEW u \in Threads, PastTest(u)', NEW r, r = Res(u)'
                 PROVE  /\ At(u, "Request", "push")' => Clean(r)'
                        /\ ~LoadedByCreate(r) => state'[r] = "Unloaded"
      BY DEF RequestOnce, PastTest
    <2>1. CASE u # t
      <3>1. /\ PastTest(u) /\ r = Res(u) /\ Res(u) \in Resources
            /\ At(u, "Request", "push")' => At(u, "Request", "push")
            /\ ~((RequestPush(t) \/ RequestMark(t)) /\ r = r0)
        BY <1>15, <2>1
      <3>2. At(u, "Request", "push")' => Clean(r)'
        BY <1>11, <3>1 DEF RequestOnce
      <3>3. ~LoadedByCreate(r) => state'[r] = "Unloaded"
        BY <1>1, <3>1 DEF RequestOnce
      <3> QED BY <3>2, <3>3
    <2>2. CASE u = t
      <3>1. r = r0
        BY <1>3, <2>2
      <3>2. CASE RequestPush(t)
        <4>1. ~At(t, "Request", "push")'
          BY <1>2, <3>2 DEF At
        <4>2. ~LoadedByCreate(r) => state[r] = "Unloaded"
          BY <1>1, <3>1, <3>2 DEF RequestOnce
        <4>3. ~RequestMark(t)
          BY <3>2 DEF RequestPush, RequestMark, At
        <4> QED BY <1>1, <2>2, <3>1, <4>1, <4>2, <4>3
      <3>3. CASE ~RequestPush(t)
        BY <1>1, <1>3, <1>16, <2>2, <3>1, <3>3
      <3> QED BY <3>2, <3>3
    <2> QED BY <2>1, <2>2
  <1> QED BY <1>5, <1>10, <1>12, <1>14, <1>17

LEMMA TailInjective ==
    ASSUME NEW T, NEW q \in Seq(T), q # <<>>, IsInjective(q)
    PROVE  IsInjective(Tail(q)) /\ Head(q) \notin ToSet(Tail(q))
  <1> DEFINE w == Tail(q)
  <1>1. /\ w \in Seq(T) /\ Len(w) = Len(q) - 1 /\ Head(q) = q[1] /\ Len(q) \in Nat /\ 1 \in 1..Len(q)
        /\ \A i \in 1..Len(w) : w[i] = q[i + 1] /\ i + 1 \in 1..Len(q) /\ i + 1 # 1
    OBVIOUS
  <1> HIDE DEF w
  <1>2. \A i, j \in 1..Len(q) : q[i] = q[j] => i = j
    BY InjectiveIs
  <1>3. ASSUME NEW i \in 1..Len(w), NEW j \in 1..Len(w), w[i] = w[j] PROVE i = j
    <2>1. q[i + 1] = q[j + 1] /\ i + 1 \in 1..Len(q) /\ j + 1 \in 1..Len(q)
      BY <1>1, <1>3
    <2>2. i + 1 = j + 1
      BY <1>2, <2>1
    <2> QED BY <2>2
  <1>4. ASSUME Head(q) \in ToSet(w) PROVE FALSE
    <2>1. PICK i \in 1..Len(w) : w[i] = Head(q)
      BY <1>1, <1>4, ToSetIs
    <2>2. q[i + 1] = q[1] /\ i + 1 \in 1..Len(q) /\ i + 1 # 1
      BY <1>1, <2>1
    <2> QED BY <1>1, <1>2, <2>2
  <1>5. IsInjective(w)
    BY <1>1, <1>3, InjectiveIs
  <1> QED BY <1>4, <1>5 DEF w

LEMMA TakeOnce ==
    ASSUME TypeOK, OnceInv, NEW l \in Loaders, LoaderTake(l)
    PROVE  OnceInv'
  <1> USE DEF OnceInv
  <1> DEFINE y0 == FirstType
             q == toLoad[y0]
             r0 == Head(q)
             fs == Frames("Load", Needs[r0])
             h == Frame("Job", r0, "store")
             w == fs \o <<h>>
  <1>1. /\ y0 \in Types /\ toLoad \in [Types -> Seq(Resources)] /\ q \in Seq(Resources) /\ q # <<>>
        /\ shared[y0] \in Seq(Resources)
    BY FirstTyped DEF LoaderTake, TypeOK, TypesWaiting
  <1>2. /\ toLoad' = [toLoad EXCEPT ![y0] = Tail(q)] /\ calls[l] = <<>>
        /\ calls' = [calls EXCEPT ![l] = w] /\ UNCHANGED <<state, payload, shared, loaded, publishing>>
    BY DEF LoaderTake, PopFront, data, control
  <1>3. /\ toLoad'[y0] = Tail(q) /\ \A y \in Types : y # y0 => toLoad'[y] = toLoad[y]
    BY <1>1, <1>2
  <1> HIDE DEF y0
  <1>4. /\ IsInjective(q) /\ IsInjective(shared[y0]) /\ ToSet(q) \cap ToSet(shared[y0]) = {}
        /\ \A r \in ToSet(q) \cup ToSet(shared[y0]) : TypeOf[r] = y0
    BY <1>1, InjectiveConcat DEF InOneQueue
  <1> HIDE DEF q
  <1>5. /\ r0 \in Resources /\ Tail(q) \in Seq(Resources) /\ ToSet(q) = {r0} \cup ToSet(Tail(q))
        /\ IsInjective(Tail(q)) /\ r0 \notin ToSet(Tail(q))
    BY <1>1, <1>4, HeadAndTail, TailInjective
  <1> HIDE DEF r0
  <1>6. TypeOf[r0] = y0 /\ Waits(toLoad, r0) /\ ~Waits(shared, r0)
    BY <1>4, <1>5 DEF Waits, q
  <1>7. \A r \in Resources : Waits(toLoad, r)' <=> Waits(toLoad, r) /\ r # r0
    <2>1. r0 \notin ToSet(toLoad'[y0])
      BY <1>3, <1>5
    <2>2. ASSUME NEW r \in Resources PROVE Waits(toLoad, r)' <=> Waits(toLoad, r) /\ r # r0
      <3>1. TypeOf[r] \in Types
        BY ResourceAssumption
      <3>2. CASE TypeOf[r] = y0
        <4>1. ToSet(toLoad'[y0]) = ToSet(Tail(q)) /\ ToSet(toLoad[y0]) = ToSet(q)
          BY <1>3 DEF q
        <4> QED BY <1>5, <2>1, <3>2, <4>1 DEF Waits
      <3>3. CASE TypeOf[r] # y0
        BY <1>3, <1>6, <3>1, <3>3 DEF Waits
      <3> QED BY <3>2, <3>3
    <2> QED BY <2>2
  <1>8. \A r : Waits(shared, r)' <=> Waits(shared, r)
    BY <1>2 DEF Waits
  <1>9. /\ fs \in Seq(FrameType) /\ h \in FrameType /\ h.op = "Job" /\ h.res = r0
        /\ \A f \in ToSet(fs) : f.op = "Load" /\ LoadedByCreate(f.res)
    <2>1. Needs[r0] \in Seq(Resources) /\ \A k \in ToSet(Needs[r0]) : LoadedByCreate(k)
      BY <1>5, NeedsAreLoaded, ResourceAssumption
    <2>2. {"Load", "Job"} \subseteq Ops /\ "store" \in Steps
      BY DEF Ops, Steps
    <2> QED BY <1>5, <2>1, <2>2, FramesTyped, FrameTyped
  <1> HIDE DEF fs, h
  <1>10. /\ w \in Seq(FrameType) /\ Len(w) = Len(fs) + 1 /\ Len(fs) \in Nat
         /\ \A i \in 1..Len(fs) : w[i] = fs[i] /\ fs[i] \in ToSet(fs)
         /\ w[Len(fs) + 1] = h
    <2>1. \A i \in 1..Len(fs) : fs[i] \in ToSet(fs)
      BY <1>9, ToSetIs
    <2> QED BY <1>9, <2>1
  <1> HIDE DEF w
  <1>11. l \in Threads /\ calls'[l] = w /\ \A u \in Threads \ {l} : calls'[u] = calls[u]
    <2>1. l \in Threads /\ calls \in Stacks
      BY DEF Threads, TypeOK, Stacks, FrameType
    <2> QED BY <1>2, <1>10, <2>1, StackChange
  <1>12. Ordered(w)
    <2> SUFFICES ASSUME NEW i \in 1..Len(w)
                 PROVE  (w[i].op = "Job" => i = Len(w)) /\ (w[i].op = "Load" => LoadedByCreate(w[i].res))
      BY DEF Ordered
    <2>1. CASE i \in 1..Len(fs)
      BY <1>9, <1>10, <2>1
    <2>2. CASE i = Len(fs) + 1
      BY <1>9, <1>10, <2>2
    <2> QED BY <1>10, <2>1, <2>2
  <1>13. JobsIn(w) = {r0}
    <2>1. \A f : f \in ToSet(w) <=> \E i \in 1..Len(w) : w[i] = f
      BY <1>10, ToSetIs
    <2>2. h \in ToSet(w)
      BY <1>10, <2>1, Len(fs) + 1 \in 1..Len(w)
    <2>3. ASSUME NEW f \in ToSet(w), f.op = "Job" PROVE f = h
      <3>1. PICK i \in 1..Len(w) : w[i] = f
        BY <2>1
      <3>2. i \notin 1..Len(fs)
        BY <1>9, <1>10, <2>3, <3>1
      <3> QED BY <1>10, <3>1, <3>2
    <2> QED BY <1>9, <2>2, <2>3 DEF JobsIn
  <1>14. JobsIn(calls[l]) = {}
    BY <1>2 DEF JobsIn, ToSet
  <1>15. \A r \in Resources : HasJob(r)' <=> HasJob(r) \/ r = r0
    BY <1>11, <1>13, <1>14 DEF HasJob
  <1>16. ~HasJob(r0) /\ loaded[r0] = "None"
    BY <1>5, <1>6 DEF InOnePlace
  <1>17. \A r \in Resources : Clean(r) => Clean(r)' /\ r # r0
    BY <1>2, <1>6, <1>7, <1>8, <1>15 DEF Clean
  <1>18. ASSUME NEW u \in Threads, PastTest(u)'
         PROVE  /\ PastTest(u) /\ Res(u)' = Res(u) /\ Res(u) \in Resources
                /\ At(u, "Request", "push")' => At(u, "Request", "push")
    <2>1. u # l
      <3>1. 1 \in 1..Len(w) /\ Head(w) = w[1]
        BY <1>10
      <3>2. w[1].op # "Request"
        BY <1>9, <1>10, <3>1
      <3> QED BY <1>11, <1>18, <3>1, <3>2 DEF PastTest, At
    <2>2. /\ PastTest(u) /\ Res(u)' = Res(u) /\ (At(u, "Request", "push")' => At(u, "Request", "push"))
          /\ calls[u] # <<>>
      BY <1>11, <1>18, <2>1 DEF PastTest, At, Res
    <2> QED BY <2>2, TopTyped
  <1>19. ASSUME NEW u \in Threads, At(u, "Request", "mark")
         PROVE  At(u, "Request", "mark")' /\ Res(u)' = Res(u)
    <2>1. u # l
      BY <1>2, <1>19 DEF At
    <2> QED BY <1>11, <1>19, <2>1 DEF At, Res
  <1>20. FramesInOrder'
    BY <1>11, <1>12 DEF FramesInOrder
  <1>21. InOneQueue'
    <2>1. IsInjective(Tail(q) \o shared[y0])
      <3> DEFINE v == Tail(q)
      <3>1. /\ v \in Seq(Resources) /\ IsInjective(v) /\ ToSet(v) \subseteq ToSet(q)
        BY <1>5
      <3> HIDE DEF v
      <3>2. ToSet(v) \cap ToSet(shared[y0]) = {}
        BY <1>4, <3>1
      <3>3. IsInjective(v \o shared[y0])
        BY <1>1, <1>4, <3>1, <3>2, InjectiveConcat
      <3> QED BY <3>3 DEF v
    <2>2. ASSUME NEW y \in Types
          PROVE  /\ IsInjective(toLoad'[y] \o shared'[y])
                 /\ \A r \in ToSet(toLoad'[y]) \cup ToSet(shared'[y]) : TypeOf[r] = y
      <3>1. CASE y = y0
        <4>1. toLoad'[y] = Tail(q) /\ shared'[y] = shared[y0]
          BY <1>2, <1>3, <3>1
        <4> QED BY <1>4, <1>5, <2>1, <3>1, <4>1
      <3>2. CASE y # y0
        BY <1>2, <1>3, <3>2 DEF InOneQueue
      <3> QED BY <3>1, <3>2
    <2> QED BY <2>2 DEF InOneQueue
  <1>22. InOnePlace'
    <2> SUFFICES ASSUME NEW r \in Resources
                 PROVE  /\ state'[r] = "Unloaded" =>
                              Clean(r)' \/ \E u \in Threads : At(u, "Request", "mark")' /\ Res(u)' = r
                        /\ Waits(shared, r)' \/ Waits(toLoad, r)' => ~HasJob(r)' /\ loaded'[r] = "None"
                        /\ HasJob(r)' => loaded'[r] = "None"
                        /\ \A u, v \in Threads : r \in JobsIn(calls'[u]) /\ r \in JobsIn(calls'[v]) => u = v
      BY DEF InOnePlace
    <2>1. state'[r] = "Unloaded" =>
              Clean(r)' \/ \E u \in Threads : At(u, "Request", "mark")' /\ Res(u)' = r
      BY <1>2, <1>17, <1>19 DEF InOnePlace
    <2>2. Waits(shared, r)' \/ Waits(toLoad, r)' => ~HasJob(r)' /\ loaded'[r] = "None"
      BY <1>2, <1>6, <1>7, <1>8, <1>15 DEF InOnePlace
    <2>3. HasJob(r)' => loaded'[r] = "None"
      BY <1>2, <1>15, <1>16 DEF InOnePlace
    <2>4. \A u, v \in Threads : r \in JobsIn(calls'[u]) /\ r \in JobsIn(calls'[v]) => u = v
      BY <1>11, <1>13, <1>16 DEF InOnePlace, HasJob
    <2> QED BY <2>1, <2>2, <2>3, <2>4
  <1>23. AfterLoad'
    BY <1>2, <1>17 DEF AfterLoad
  <1>24. RequestOnce'
    <2> SUFFICES ASSUME NEW u \in Threads, PastTest(u)', NEW r, r = Res(u)'
                 PROVE  /\ At(u, "Request", "push")' => Clean(r)'
                        /\ ~LoadedByCreate(r) => state'[r] = "Unloaded"
      BY DEF RequestOnce, PastTest
    <2> QED BY <1>2, <1>17, <1>18 DEF RequestOnce
  <1> QED BY <1>20, <1>21, <1>22, <1>23, <1>24

LEMMA StoreOnce ==
    ASSUME TypeOK, OnceInv, NEW l \in Loaders, NEW ok \in BOOLEAN, LoaderStore(l, ok)
    PROVE  OnceInv'
  <1> USE DEF OnceInv
  <1> DEFINE r0 == Res(l)
             fs == IF ok THEN Frames("Request", Kids[r0]) ELSE <<>>
  <1>1. l \in Threads /\ calls \in Stacks /\ calls[l] # <<>> /\ Head(calls[l]).op = "Job" /\ calls[l] \in Seq(FrameType)
    BY DEF LoaderStore, At, Threads, TypeOK, Stacks, FrameType
  <1>2. r0 \in Resources /\ Tail(calls[l]) = <<>> /\ JobsIn(calls[l]) = {r0}
    BY <1>1, TopTyped, PopOrdered DEF FramesInOrder, Res
  <1>3. /\ calls' = [calls EXCEPT ![l] = fs \o Tail(calls[l])] /\ loaded' = [loaded EXCEPT ![r0] = Outcome(ok)]
        /\ UNCHANGED <<state, payload, shared, toLoad, publishing>>
    BY DEF LoaderStore, data, control
  <1>4. \A u \in Threads : At(u, "Request", "mark") => u # l
    BY <1>1 DEF At
  <1>5. HasJob(r0)
    BY <1>1, <1>2 DEF HasJob
  <1>6. fs \in Seq(FrameType) /\ \A f \in ToSet(fs) : f.op = "Request" /\ f.at = "enter"
    <2>1. Kids[r0] \in Seq(Resources) /\ "Request" \in Ops
      BY <1>2, ResourceAssumption DEF Ops
    <2>2. CASE ok
      BY <2>1, <2>2, FramesTyped
    <2>3. CASE ~ok
      BY <2>3 DEF ToSet
    <2> QED BY <2>2, <2>3
  <1> HIDE DEF fs
  <1>7. fs \o Tail(calls[l]) = fs
    <2>1. fs \o <<>> = fs
      BY <1>6
    <2> QED BY <1>2, <2>1
  <1>8. calls'[l] = fs /\ \A u \in Threads \ {l} : calls'[u] = calls[u]
    BY <1>1, <1>3, <1>6, <1>7, StackChange
  <1>9. JobsIn(fs) = {}
    BY <1>6 DEF JobsIn
  <1>10. Ordered(fs)
    BY <1>6, ToSetIs DEF Ordered
  <1>11. fs # <<>> => Head(fs) \in ToSet(fs)
    BY <1>6, HeadAndTail
  <1> HIDE DEF r0
  <1>12. \A r \in Resources : /\ Waits(shared, r)' <=> Waits(shared, r)
                              /\ Waits(toLoad, r)' <=> Waits(toLoad, r)
                              /\ r # r0 => loaded'[r] = loaded[r]
                              /\ r # r0 => (HasJob(r)' <=> HasJob(r))
                              /\ r = r0 => ~HasJob(r)'
    <2>1. ASSUME NEW r \in Resources
          PROVE  (Waits(shared, r)' <=> Waits(shared, r)) /\ (Waits(toLoad, r)' <=> Waits(toLoad, r))
      BY <1>3 DEF Waits
    <2>2. \A r \in Resources : r # r0 => loaded'[r] = loaded[r]
      BY <1>3 DEF TypeOK
    <2>3. \A r \in Resources : r # r0 => (HasJob(r)' <=> HasJob(r))
      BY <1>2, <1>8, <1>9 DEF HasJob
    <2>4. \A u \in Threads : r0 \in JobsIn(calls[u]) => u = l
      BY <1>1, <1>2 DEF InOnePlace
    <2>5. ASSUME NEW r \in Resources, r = r0, HasJob(r)' PROVE FALSE
      <3>1. PICK u \in Threads : r0 \in JobsIn(calls'[u])
        BY <2>5 DEF HasJob
      <3>2. u # l
        BY <1>8, <1>9, <3>1
      <3> QED BY <1>8, <2>4, <3>1, <3>2
    <2> QED BY <2>1, <2>2, <2>3, <2>5
  <1>13. \A r \in Resources : Clean(r) => Clean(r)'
    BY <1>5, <1>12 DEF Clean
  <1>14. ASSUME NEW u \in Threads, PastTest(u)'
         PROVE  /\ PastTest(u) /\ Res(u)' = Res(u) /\ Res(u) \in Resources
                /\ At(u, "Request", "push")' => At(u, "Request", "push")
    <2>1. u # l
      BY <1>6, <1>8, <1>11, <1>14 DEF PastTest, At
    <2>2. /\ PastTest(u) /\ Res(u)' = Res(u) /\ (At(u, "Request", "push")' => At(u, "Request", "push"))
          /\ calls[u] # <<>>
      BY <1>8, <1>14, <2>1 DEF PastTest, At, Res
    <2> QED BY <2>2, TopTyped
  <1>15. ASSUME NEW u \in Threads, At(u, "Request", "mark")
         PROVE  At(u, "Request", "mark")' /\ Res(u)' = Res(u)
    BY <1>4, <1>8, <1>15 DEF At, Res
  <1>16. FramesInOrder'
    BY <1>8, <1>10 DEF FramesInOrder
  <1>17. InOneQueue'
    BY <1>3 DEF InOneQueue
  <1>18. InOnePlace'
    <2> SUFFICES ASSUME NEW r \in Resources
                 PROVE  /\ state'[r] = "Unloaded" =>
                              Clean(r)' \/ \E u \in Threads : At(u, "Request", "mark")' /\ Res(u)' = r
                        /\ Waits(shared, r)' \/ Waits(toLoad, r)' => ~HasJob(r)' /\ loaded'[r] = "None"
                        /\ HasJob(r)' => loaded'[r] = "None"
                        /\ \A u, v \in Threads : r \in JobsIn(calls'[u]) /\ r \in JobsIn(calls'[v]) => u = v
      BY DEF InOnePlace
    <2>1. state'[r] = "Unloaded" =>
              Clean(r)' \/ \E u \in Threads : At(u, "Request", "mark")' /\ Res(u)' = r
      BY <1>3, <1>13, <1>15 DEF InOnePlace
    <2>2. Waits(shared, r)' \/ Waits(toLoad, r)' => ~HasJob(r)' /\ loaded'[r] = "None"
      BY <1>5, <1>12 DEF InOnePlace
    <2>3. HasJob(r)' => loaded'[r] = "None"
      BY <1>12 DEF InOnePlace
    <2>4. \A u, v \in Threads : r \in JobsIn(calls'[u]) /\ r \in JobsIn(calls'[v]) => u = v
      BY <1>8, <1>9 DEF InOnePlace
    <2> QED BY <2>1, <2>2, <2>3, <2>4
  <1>19. AfterLoad'
    BY <1>3, <1>13 DEF AfterLoad
  <1>20. RequestOnce'
    <2> SUFFICES ASSUME NEW u \in Threads, PastTest(u)', NEW r, r = Res(u)'
                 PROVE  /\ At(u, "Request", "push")' => Clean(r)'
                        /\ ~LoadedByCreate(r) => state'[r] = "Unloaded"
      BY DEF RequestOnce, PastTest
    <2> QED BY <1>3, <1>13, <1>14 DEF RequestOnce
  <1> QED BY <1>16, <1>17, <1>18, <1>19, <1>20

LEMMA MarkOnce ==
    ASSUME TypeOK, RequestInv, OnceInv, UnderWay, PublishMark
    PROVE  OnceInv'
  <1> USE DEF OnceInv
  <1>1. /\ UNCHANGED <<calls, shared, toLoad, payload>>
        /\ \A r \in publishing : loaded[r] # "None"
        /\ \A r \in Resources : r \in publishing => loaded'[r] = "None" /\ state'[r] = "Loaded"
        /\ \A r \in Resources : r \notin publishing =>
              loaded'[r] = loaded[r] /\ state'[r] = state[r]
    BY DEF PublishMark, UnderWay
  <1>2. \A r \in Resources : /\ Waits(shared, r)' <=> Waits(shared, r)
                             /\ Waits(toLoad, r)' <=> Waits(toLoad, r)
                             /\ HasJob(r)' <=> HasJob(r)
    BY <1>1 DEF Waits, HasJob
  <1>3. \A r \in Resources : (Clean(r) => Clean(r)') /\ (r \in publishing => Clean(r)')
    BY <1>1, <1>2 DEF Clean, InOnePlace
  <1>4. \A u \in Threads : /\ At(u, "Request", "mark") <=> At(u, "Request", "mark")'
                           /\ At(u, "Request", "push") <=> At(u, "Request", "push")'
                           /\ Res(u)' = Res(u)
    BY <1>1 DEF At, Res
  <1>5. FramesInOrder' /\ InOneQueue'
    BY <1>1 DEF FramesInOrder, InOneQueue
  <1>6. InOnePlace'
    <2> SUFFICES ASSUME NEW r \in Resources
                 PROVE  /\ state'[r] = "Unloaded" =>
                              Clean(r)' \/ \E u \in Threads : At(u, "Request", "mark")' /\ Res(u)' = r
                        /\ Waits(shared, r)' \/ Waits(toLoad, r)' => ~HasJob(r)' /\ loaded'[r] = "None"
                        /\ HasJob(r)' => loaded'[r] = "None"
                        /\ \A u, v \in Threads : r \in JobsIn(calls'[u]) /\ r \in JobsIn(calls'[v]) => u = v
      BY DEF InOnePlace
    <2>1. state'[r] = "Unloaded" =>
              Clean(r)' \/ \E u \in Threads : At(u, "Request", "mark")' /\ Res(u)' = r
      BY <1>1, <1>3, <1>4 DEF InOnePlace
    <2>2. /\ Waits(shared, r)' \/ Waits(toLoad, r)' => ~HasJob(r)' /\ loaded'[r] = "None"
          /\ HasJob(r)' => loaded'[r] = "None"
      BY <1>1, <1>2 DEF InOnePlace
    <2>3. \A u, v \in Threads : r \in JobsIn(calls'[u]) /\ r \in JobsIn(calls'[v]) => u = v
      BY <1>1 DEF InOnePlace
    <2> QED BY <2>1, <2>2, <2>3
  <1>7. AfterLoad'
    BY <1>1, <1>3 DEF AfterLoad
  <1>8. RequestOnce'
    <2> SUFFICES ASSUME NEW u \in Threads, PastTest(u)', NEW r, r = Res(u)'
                 PROVE  /\ At(u, "Request", "push")' => Clean(r)'
                        /\ ~LoadedByCreate(r) => state'[r] = "Unloaded"
      BY DEF RequestOnce, PastTest
    <2>1. PastTest(u) /\ r = Res(u)
      BY <1>4 DEF PastTest
    <2>2. r \in Resources
      BY <2>1, TopTyped DEF PastTest, At
    <2>3. At(u, "Request", "push") => Clean(r)
      BY <2>1 DEF RequestOnce
    <2>4. At(u, "Request", "mark") => Waits(shared, r) \/ Waits(toLoad, r)
      BY <2>1 DEF RequestInv, Pushed
    <2>5. loaded[r] = "None"
      BY <2>1, <2>2, <2>3, <2>4 DEF PastTest, Clean, InOnePlace
    <2> QED BY <1>1, <1>3, <1>4, <2>1, <2>2, <2>3, <2>5 DEF RequestOnce
  <1> QED BY <1>5, <1>6, <1>7, <1>8

(* A step that only moves copies between the queues of their type, or      *)
(* drops some, or puts a payload into what Main is publishing.             *)
LEMMA QueuesOnce ==
    ASSUME TypeOK, OnceInv, UNCHANGED <<calls, state, loaded>>, InOneQueue',
           \A r \in Resources :
               payload'[r] => r \in publishing' \/ (payload[r] /\ r \notin publishing),
           \A r \in Resources : Waits(shared, r)' \/ Waits(toLoad, r)' => Waits(shared, r) \/ Waits(toLoad, r)
    PROVE  OnceInv'
  <1> USE DEF OnceInv
  <1>1. \A r \in Resources : HasJob(r)' <=> HasJob(r)
    BY DEF HasJob
  <1>2. \A r \in Resources : Clean(r) => Clean(r)'
    BY <1>1 DEF Clean
  <1>3. \A u \in Threads : /\ At(u, "Request", "mark") <=> At(u, "Request", "mark")'
                           /\ At(u, "Request", "push") <=> At(u, "Request", "push")'
                           /\ Res(u)' = Res(u)
    BY DEF At, Res
  <1>4. FramesInOrder'
    BY DEF FramesInOrder
  <1>5. InOnePlace'
    <2> SUFFICES ASSUME NEW r \in Resources
                 PROVE  /\ state'[r] = "Unloaded" =>
                              Clean(r)' \/ \E u \in Threads : At(u, "Request", "mark")' /\ Res(u)' = r
                        /\ Waits(shared, r)' \/ Waits(toLoad, r)' => ~HasJob(r)' /\ loaded'[r] = "None"
                        /\ HasJob(r)' => loaded'[r] = "None"
                        /\ \A u, v \in Threads : r \in JobsIn(calls'[u]) /\ r \in JobsIn(calls'[v]) => u = v
      BY DEF InOnePlace
    <2>1. state'[r] = "Unloaded" =>
              Clean(r)' \/ \E u \in Threads : At(u, "Request", "mark")' /\ Res(u)' = r
      BY <1>2, <1>3 DEF InOnePlace
    <2>2. /\ Waits(shared, r)' \/ Waits(toLoad, r)' => ~HasJob(r)' /\ loaded'[r] = "None"
          /\ HasJob(r)' => loaded'[r] = "None"
      BY <1>1 DEF InOnePlace
    <2>3. \A u, v \in Threads : r \in JobsIn(calls'[u]) /\ r \in JobsIn(calls'[v]) => u = v
      BY DEF InOnePlace
    <2> QED BY <2>1, <2>2, <2>3
  <1>6. AfterLoad'
    BY <1>2 DEF AfterLoad
  <1>7. RequestOnce'
    <2> SUFFICES ASSUME NEW u \in Threads, PastTest(u)', NEW r, r = Res(u)'
                 PROVE  /\ At(u, "Request", "push")' => Clean(r)'
                        /\ ~LoadedByCreate(r) => state'[r] = "Unloaded"
      BY DEF RequestOnce, PastTest
    <2>1. PastTest(u) /\ r = Res(u)
      BY <1>3 DEF PastTest
    <2>2. r \in Resources
      BY <2>1, TopTyped DEF PastTest, At
    <2> QED BY <1>2, <1>3, <2>1, <2>2 DEF RequestOnce
  <1> QED BY <1>4, <1>5, <1>6, <1>7

LEMMA TransferOnce ==
    ASSUME TypeOK, RequestInv, OnceInv, UnderWay, Transfer \/ Shutdown
    PROVE  OnceInv'
  <1>1. shared \in [Types -> Seq(Resources)] /\ toLoad \in [Types -> Seq(Resources)]
    BY DEF TypeOK
  <1>2. CASE TransferQueues
    <2>1. ASSUME NEW y \in Types
          PROVE  /\ ToSet(toLoad'[y]) = ToSet(toLoad[y]) \cup ToSet(shared[y]) /\ ToSet(shared'[y]) = {}
                 /\ IsInjective(toLoad'[y] \o shared'[y])
      <3> DEFINE w == toLoad[y] \o shared[y]
      <3>1. toLoad'[y] = w /\ shared'[y] = <<>>
        BY <1>2 DEF TransferQueues, HandOver
      <3>2. w \in Seq(Resources) /\ ToSet(w) = ToSet(toLoad[y]) \cup ToSet(shared[y]) /\ IsInjective(w)
        BY <1>1, ToSetConcat DEF OnceInv, InOneQueue
      <3>3. ToSet(<<>>) = {}
        BY DEF ToSet
      <3> HIDE DEF w
      <3>4. w \o <<>> = w
        BY <3>2
      <3> QED BY <3>1, <3>2, <3>3, <3>4
    <2>2. InOneQueue'
      BY <2>1 DEF OnceInv, InOneQueue
    <2>3. \A r \in Resources : Waits(shared, r)' \/ Waits(toLoad, r)' => Waits(shared, r) \/ Waits(toLoad, r)
      BY <2>1, ResourceAssumption DEF Waits
    <2> QED BY <1>2, <2>2, <2>3, QueuesOnce DEF TransferQueues, data
  <1>3. ASSUME NEW t \in Threads, TransferContext(t) PROVE OnceInv'
    <2> DEFINE keep == Resources \ toRemove[t]
    <2>1. ASSUME NEW y \in Types
          PROVE  /\ ToSet(shared'[y]) \subseteq ToSet(shared[y]) /\ ToSet(toLoad'[y]) \subseteq ToSet(toLoad[y])
                 /\ IsInjective(toLoad'[y] \o shared'[y])
      <3> DEFINE s == shared[y]
                 q == toLoad[y]
                 s1 == Only(s, keep)
                 q1 == Only(q, keep)
      <3>1. shared'[y] = s1 /\ toLoad'[y] = q1
        BY <1>3 DEF TransferContext
      <3>2. /\ s \in Seq(Resources) /\ q \in Seq(Resources)
            /\ IsInjective(q) /\ IsInjective(s) /\ ToSet(q) \cap ToSet(s) = {}
        BY <1>1, InjectiveConcat DEF OnceInv, InOneQueue
      <3> HIDE DEF s, q, keep
      <3>3. /\ s1 \in Seq(Resources) /\ ToSet(s1) = ToSet(s) \cap keep /\ IsInjective(s1)
            /\ q1 \in Seq(Resources) /\ ToSet(q1) = ToSet(q) \cap keep /\ IsInjective(q1)
        BY <3>2, OnlyIs
      <3> HIDE DEF s1, q1
      <3>4. IsInjective(q1 \o s1)
        BY <3>2, <3>3, InjectiveConcat
      <3> QED BY <3>1, <3>3, <3>4 DEF s, q
    <2>2. InOneQueue'
      BY <2>1 DEF OnceInv, InOneQueue
    <2>3. \A r \in Resources : Waits(shared, r)' \/ Waits(toLoad, r)' => Waits(shared, r) \/ Waits(toLoad, r)
      BY <2>1, ResourceAssumption DEF Waits
    <2> QED BY <1>3, <2>2, <2>3, QueuesOnce DEF TransferContext, data
  <1>4. CASE TransferLoaded \/ PublishResult \/ PublishEnd \/ TransferNotify \/ Shutdown
             \/ \E r \in Resources : PublishSwap(r)
    <2>1. /\ UNCHANGED <<calls, state, loaded, shared, toLoad>>
          /\ \A r \in Resources :
                payload'[r] => r \in publishing' \/ (payload[r] /\ r \notin publishing)
      <3>1. CASE TransferLoaded \/ PublishResult \/ PublishEnd \/ TransferNotify \/ Shutdown
        BY <3>1 DEF TransferLoaded, PublishResult, PublishEnd, TransferNotify, Shutdown, Stop,
               StopNotify, StopJoin, data, queues
      <3>2. ASSUME NEW r \in Resources, PublishSwap(r)
            PROVE  /\ UNCHANGED <<calls, state, loaded, shared, toLoad>> /\ publishing = {}
                   /\ publishing' = {r}
                   /\ \A s \in Resources : s # r => payload'[s] = payload[s]
        BY <3>2 DEF PublishSwap, UnderWay, queues, TypeOK
      <3> QED BY <1>4, <3>1, <3>2
    <2>2. InOneQueue' /\ \A r \in Resources : Waits(shared, r)' \/ Waits(toLoad, r)' => Waits(shared, r) \/ Waits(toLoad, r)
      BY <2>1 DEF OnceInv, InOneQueue, Waits
    <2> QED BY <2>1, <2>2, QueuesOnce
  <1> QED BY <1>2, <1>3, <1>4, MarkOnce DEF Transfer, Publish

LEMMA OutsideOnce ==
    ASSUME OnlyRequests, TypeOK, OnceInv, NEW use \in setup.uses, Call(use[1], use[2], use[3])
    PROVE  OnceInv'
  <1> USE DEF OnceInv
  <1> DEFINE f == Frame("Request", use[3], "enter")
             w == <<f>>
  <1>1. use[1] = Main /\ use[2] = "Request" /\ use[3] \in Resources
    <2>1. InPlay \subseteq Resources /\ setup.uses \subseteq
             {Main} \X {"Request"} \X {r \in InPlay : \A o \in InPlay : r \notin ToSet(Kids[o])}
      BY PlayFits DEF Fits
    <2> QED BY <2>1
  <1>2. /\ calls' = [calls EXCEPT ![Main] = w] /\ calls[Main] = <<>>
        /\ UNCHANGED <<state, payload, shared, toLoad, loaded, publishing>>
    BY <1>1 DEF Call, data, queues, control
  <1>3. f \in FrameType /\ f.op = "Request" /\ f.res = use[3] /\ f.at = "enter"
    BY <1>1, FrameTyped DEF Ops, Steps
  <1> HIDE DEF f
  <1>4. Main \in Threads /\ w \in Seq(FrameType) /\ calls \in Stacks
    <2>1. w \in Seq(FrameType)
      BY <1>3
    <2> QED BY <2>1 DEF Threads, TypeOK, Stacks, FrameType
  <1>5. ToSet(w) = {f} /\ Head(w) = f /\ Len(w) = 1 /\ w[1] = f
    BY <1>4, HeadAndTail DEF ToSet
  <1> HIDE DEF w
  <1>6. calls'[Main] = w /\ \A u \in Threads \ {Main} : calls'[u] = calls[u]
    BY <1>2, <1>4, StackChange
  <1>7. JobsIn(w) = {} /\ Ordered(w) /\ JobsIn(calls[Main]) = {}
    <2>1. JobsIn(w) = {}
      BY <1>3, <1>5 DEF JobsIn
    <2>2. Ordered(w)
      BY <1>3, <1>5 DEF Ordered
    <2>3. JobsIn(calls[Main]) = {}
      BY <1>2 DEF JobsIn, ToSet
    <2> QED BY <2>1, <2>2, <2>3
  <1>8. \A u \in Threads : JobsIn(calls'[u]) = JobsIn(calls[u])
    BY <1>6, <1>7
  <1>9. \A r \in Resources : /\ HasJob(r)' <=> HasJob(r)
                             /\ Waits(shared, r)' <=> Waits(shared, r)
                             /\ Waits(toLoad, r)' <=> Waits(toLoad, r)
    BY <1>2, <1>8 DEF HasJob, Waits
  <1>10. \A r \in Resources : Clean(r) => Clean(r)'
    BY <1>2, <1>9 DEF Clean
  <1>11. ASSUME NEW u \in Threads, PastTest(u)'
         PROVE  /\ PastTest(u) /\ Res(u)' = Res(u) /\ Res(u) \in Resources
                /\ At(u, "Request", "push")' => At(u, "Request", "push")
    <2>1. u # Main
      BY <1>3, <1>5, <1>6, <1>11 DEF PastTest, At
    <2>2. /\ PastTest(u) /\ Res(u)' = Res(u) /\ (At(u, "Request", "push")' => At(u, "Request", "push"))
          /\ calls[u] # <<>>
      BY <1>6, <1>11, <2>1 DEF PastTest, At, Res
    <2> QED BY <2>2, TopTyped
  <1>12. ASSUME NEW u \in Threads, At(u, "Request", "mark")
         PROVE  At(u, "Request", "mark")' /\ Res(u)' = Res(u)
    <2>1. u # Main
      BY <1>2, <1>12 DEF At
    <2> QED BY <1>6, <1>12, <2>1 DEF At, Res
  <1>13. FramesInOrder'
    BY <1>6, <1>7 DEF FramesInOrder
  <1>14. InOneQueue'
    BY <1>2 DEF InOneQueue
  <1>15. InOnePlace'
    <2> SUFFICES ASSUME NEW r \in Resources
                 PROVE  /\ state'[r] = "Unloaded" =>
                              Clean(r)' \/ \E u \in Threads : At(u, "Request", "mark")' /\ Res(u)' = r
                        /\ Waits(shared, r)' \/ Waits(toLoad, r)' => ~HasJob(r)' /\ loaded'[r] = "None"
                        /\ HasJob(r)' => loaded'[r] = "None"
                        /\ \A u, v \in Threads : r \in JobsIn(calls'[u]) /\ r \in JobsIn(calls'[v]) => u = v
      BY DEF InOnePlace
    <2>1. state'[r] = "Unloaded" =>
              Clean(r)' \/ \E u \in Threads : At(u, "Request", "mark")' /\ Res(u)' = r
      BY <1>2, <1>10, <1>12 DEF InOnePlace
    <2>2. /\ Waits(shared, r)' \/ Waits(toLoad, r)' => ~HasJob(r)' /\ loaded'[r] = "None"
          /\ HasJob(r)' => loaded'[r] = "None"
      BY <1>2, <1>9 DEF InOnePlace
    <2>3. \A u, v \in Threads : r \in JobsIn(calls'[u]) /\ r \in JobsIn(calls'[v]) => u = v
      BY <1>8 DEF InOnePlace
    <2> QED BY <2>1, <2>2, <2>3
  <1>16. AfterLoad'
    BY <1>2, <1>10 DEF AfterLoad
  <1>17. RequestOnce'
    <2> SUFFICES ASSUME NEW u \in Threads, PastTest(u)', NEW r, r = Res(u)'
                 PROVE  /\ At(u, "Request", "push")' => Clean(r)'
                        /\ ~LoadedByCreate(r) => state'[r] = "Unloaded"
      BY DEF RequestOnce, PastTest
    <2> QED BY <1>2, <1>10, <1>11 DEF RequestOnce
  <1> QED BY <1>13, <1>14, <1>15, <1>16, <1>17

LEMMA OnceInit == Init => OnceInv /\ UnderWay
  <1> SUFFICES ASSUME Init PROVE OnceInv /\ UnderWay
    OBVIOUS
  <1>1. ToSet(<<>>) = {} /\ IsInjective(<<>> \o <<>>) /\ Ordered(<<>>) /\ JobsIn(<<>>) = {}
    <2>1. ToSet(<<>>) = {}
      BY DEF ToSet
    <2>2. IsInjective(<<>> \o <<>>)
      BY DEF IsInjective
    <2> QED BY <2>1, <2>2 DEF Ordered, JobsIn
  <1>2. FramesInOrder /\ InOneQueue
    BY <1>1 DEF Init, FramesInOrder, InOneQueue
  <1>3. \A r \in Resources : Clean(r)
    BY <1>1, ResourceAssumption DEF Init, Clean, Waits, HasJob
  <1>4. InOnePlace
    BY <1>1, <1>3 DEF Init, InOnePlace, Clean
  <1>5. AfterLoad /\ RequestOnce
    BY <1>3 DEF Init, AfterLoad, RequestOnce, PastTest, At
  <1>6. UnderWay
    BY DEF Init, UnderWay
  <1> QED BY <1>2, <1>4, <1>5, <1>6 DEF OnceInv

LEMMA OnceStep ==
    ASSUME OnlyRequests, LoadsAreClosed, TypeOK, RequestInv, OnceInv, UnderWay, [Next]_vars
    PROVE  OnceInv' /\ UnderWay'
  <1> SUFFICES OnceInv'
    BY UnderWayStep
  <1>1. ASSUME UNCHANGED <<calls, state, payload, loaded, shared, toLoad, publishing>> PROVE OnceInv'
    <2>1. InOneQueue' /\ \A r \in Resources : Waits(shared, r)' \/ Waits(toLoad, r)' => Waits(shared, r) \/ Waits(toLoad, r)
      BY <1>1 DEF OnceInv, InOneQueue, Waits
    <2> QED BY <1>1, <2>1, QueuesOnce
  <1>2. ASSUME NEW l \in Loaders, Loader(l) \/ LoaderSpurious(l) PROVE OnceInv'
    <2>1. CASE LoaderBlock(l) \/ LoaderExit(l) \/ LoaderSpurious(l)
      BY <1>1, <2>1 DEF LoaderBlock, LoaderExit, LoaderSpurious, data, queues
    <2> QED BY <1>2, <2>1, TakeOnce, StoreOnce DEF Loader
  <1>3. CASE Next
    BY <1>2, <1>3, OutsideOnce, CallOnce, TransferOnce DEF Next
  <1>4. CASE UNCHANGED vars
    BY <1>1, <1>4 DEF vars, moving, data, queues, control
  <1> QED BY <1>3, <1>4

(* In such a program a transfer never finds a copy to publish for a        *)
(* resource that is loaded already, unless some Create loads it at once:   *)
(* a resource is published once.                                           *)
THEOREM PublishedOnlyOnce == OnlyRequests /\ LoadsAreClosed => (Spec => PublishedOnce)
  <1> SUFFICES ASSUME OnlyRequests, LoadsAreClosed PROVE Spec => PublishedOnce
    OBVIOUS
  <1> DEFINE Once == \A r \in Resources : PublishSwap(r) => state[r] # "Loaded" \/ LoadedByCreate(r)
  <1>1. OnceInv => Once
    BY DEF OnceInv, AfterLoad, Clean, PublishSwap
  <1> HIDE DEF Once
  <1>2. Spec => [](TypeOK /\ RequestInv /\ OnceInv /\ UnderWay)
    BY RequestInit, RequestStep, OnceInit, OnceStep, ResourcesTyped, PTL DEF Spec
  <1>3. Spec => [][Once]_vars
    BY <1>1, <1>2, PTL
  <1> QED BY <1>3 DEF PublishedOnce, Once

(* And nobody copies a resource, to queue or to load the copy, that has a  *)
(* payload already, with the same exception: what the copy constructors    *)
(* assert.                                                                 *)
THEOREM CopiesAreFresh == OnlyRequests /\ LoadsAreClosed => (Spec => CopiesOnlyUncreated)
  <1> SUFFICES ASSUME OnlyRequests, LoadsAreClosed PROVE Spec => CopiesOnlyUncreated
    OBVIOUS
  <1> DEFINE Copies == \A t \in Threads :
                           (At(t, "Request", "push") \/ At(t, "Load", "copy")) /\ calls'[t] # calls[t]
                               => ~payload[Res(t)] \/ LoadedByCreate(Res(t))
  <1>1. TypeOK /\ RequestInv /\ OnceInv /\ UnderWay => Copies
    <2> SUFFICES ASSUME TypeOK, RequestInv, OnceInv, UnderWay, NEW t \in Threads,
                        At(t, "Request", "push") \/ At(t, "Load", "copy"), ~LoadedByCreate(Res(t))
                 PROVE  ~payload[Res(t)]
      OBVIOUS
    <2>1. calls[t] # <<>> /\ calls[t] \in Seq(FrameType) /\ Ordered(calls[t])
      BY DEF At, OnceInv, FramesInOrder, TypeOK, FrameType
    <2>2. Head(calls[t]).op # "Load"
      BY <2>1, PopOrdered DEF Res
    <2>3. state[Res(t)] = "Unloaded"
      BY <2>2 DEF At, PastTest, OnceInv, RequestOnce
    <2>4. Res(t) \in Resources
      BY <2>1, TopTyped
    <2>5. At(t, "Request", "push")
      BY <2>2 DEF At
    <2>6. Res(t) \notin publishing
      BY <2>5 DEF OnceInv, RequestOnce, Clean, UnderWay
    <2> QED BY <2>3, <2>4, <2>6 DEF OnceInv, AfterLoad
  <1> HIDE DEF Copies
  <1>2. Spec => [](TypeOK /\ RequestInv /\ OnceInv /\ UnderWay)
    BY RequestInit, RequestStep, OnceInit, OnceStep, ResourcesTyped, PTL DEF Spec
  <1>3. Spec => [][Copies]_vars
    BY <1>1, <1>2, PTL
  <1> QED BY <1>3 DEF CopiesOnlyUncreated, Copies

=============================================================================
