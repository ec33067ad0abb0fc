----------------------------- MODULE GameObjects -----------------------------
(***************************************************************************)
(* Engine/GameObject: the objects of one scene that is ready, their        *)
(* components, and the handlers that run the components type by type.      *)
(*                                                                         *)
(* Everything runs on Main, but every Awake, Start and Execute is code of  *)
(* the game that calls back into the engine.  stack holds the calls in     *)
(* progress, innermost first; a frame "user" is code of the game, which    *)
(* makes calls and returns at any time.                                    *)
(***************************************************************************)
EXTENDS Naturals, FiniteSets, SequenceParts

CONSTANTS
    Objects, Components, Types,     \* Types: an interval from 1
    TypeOf, OwnerOf,    \* of each component
    Kids,               \* of each object, the children in its transform
    Prefab,             \* of each object, the components it is cloned with
    Loaded,             \* the roots that the loaded scene starts with, in order
    Singletons,         \* the objects of mySingletonComponentEntries, in order
    MayBeOff,           \* objects and components that may be created inactive
    UserOps,            \* the calls that code of the game makes in this instance
    MaxCalls            \* bound: number of these calls

ASSUME ObjectAssumption ==
    /\ IsFiniteSet(Objects) /\ Objects \cap Components = {}
    /\ IsFiniteSet(Types) /\ Types = 1..Cardinality(Types)
    /\ TypeOf \in [Components -> Types] /\ OwnerOf \in [Components -> Objects]
    /\ Kids \in [Objects -> Seq(Objects)] /\ Prefab \in [Objects -> Seq(Components)]
    /\ Loaded \in Seq(Objects) /\ Singletons \in Seq(Objects)
    /\ MayBeOff \subseteq Objects \cup Components /\ MaxCalls \in Nat

(* The transforms form a forest, Loaded has roots of it, each once, and a  *)
(* prefab has its components once and owns them.                           *)
ASSUME ForestAssumption ==
    /\ \E rank \in [Objects -> 0..Cardinality(Objects)] :
          \A g \in Objects : \A k \in ToSet(Kids[g]) : rank[k] < rank[g]
    /\ \A g \in Objects : IsInjective(Kids[g])
    /\ \A g, h \in Objects : g # h => ToSet(Kids[g]) \cap ToSet(Kids[h]) = {}
    /\ IsInjective(Loaded)
    /\ \A g \in Objects : ToSet(Kids[g]) \cap ToSet(Loaded) = {}
    /\ \A g \in Objects : IsInjective(Prefab[g]) /\ \A c \in ToSet(Prefab[g]) : OwnerOf[c] = g

VARIABLES
    list, toAdd,        \* myGameObjects, myGameObjectsToAdd
    comps, handler,     \* myComponents per object, myActiveComponents per type
    active, awaked, started, destroyed,     \* flags of objects and of components
    made,               \* what was ever constructed
    stack, phase,
    todo,               \* objects that a loop of Update has still to visit
    at,                 \* the handler and the index where Execute is
    userCalls

lists == <<list, toAdd, comps, handler>>
flags == <<active, awaked, started, destroyed, made>>
objectsVars == <<lists, flags, stack, phase, todo, at, userCalls>>

-----------------------------------------------------------------------------
Exists(g) == g \in ToSet(list) \cup ToSet(toAdd)
Alive(c) == Exists(OwnerOf[c]) /\ c \in ToSet(comps[OwnerOf[c]])

(* An object and everything below it, parents first                        *)
Tree[g \in Objects] ==
    <<g>> \o FlattenSeq([i \in 1..Len(Kids[g]) |-> Tree[Kids[g][i]]])

PrefabSeq(gs) == FlattenSeq([i \in 1..Len(gs) |-> Prefab[gs[i]]])

(* A call on x in progress; on is the argument of SetActive, n the index   *)
(* of a loop, 0 before it.                                                 *)
Frame(op, x, on, n) == [op |-> op, x |-> x, on |-> on, n |-> n]
Top == Head(stack)
At(op) == stack # <<>> /\ Top.op = op
Return == stack' = Tail(stack)
Goto(frames) == stack' = frames \o Tail(stack)
Call(frames) == stack' = frames \o stack

(* Below, a definition whose name ends in Bug is the next one with a       *)
(* plausible mistake in it; no specification uses it.                      *)

(* The components that register with the handler of type y                 *)
OfType(y, cs) == Only(cs, {c \in Components : TypeOf[c] = y})

(* Whether SetActive(true) awakes and starts the object                    *)
MustBeginBug(g) == g \notin started
MustBegin(g) == g \notin started /\ g \notin awaked

(* The objects that a loop of Update starts                                *)
MustStartBug(g) == g \notin awaked
MustStart(g) == g \notin started

(* The components a handler runs                                           *)
Runs(c) == {c, OwnerOf[c]} \subseteq active /\ c \in started \ destroyed

(* What remains of a handler without the components of released objects    *)
ReleasedBug(y, dead) == handler[y]
Released(y, dead) == Only(handler[y], {c \in Components : OwnerOf[c] \notin dead})

(* What remains of myComponents without the components Execute deletes     *)
RemainingBug(g, dead) == comps[g]
Remaining(g, dead) == Only(comps[g], Components \ dead)

(* What RemoveDestroyedGameObjects leaves of the list: it collects what is *)
(* destroyed and then erases each by index.                                *)
KeptBug == EraseInLoop(list, destroyed)
KeptButLastBug == EraseEach(list, Only(SubSeq(list, 1, Len(list) - 1), destroyed))
Kept == EraseEach(list, Only(list, destroyed))

ObjectsInit ==
    LET roots == FlattenSeq([i \in 1..Len(Loaded) |-> Tree[Loaded[i]]])
    IN  /\ list = <<>> /\ toAdd = roots
        /\ comps = [g \in Objects |-> IF g \in ToSet(roots) THEN Prefab[g] ELSE <<>>]
        /\ handler = [y \in Types |-> OfType(y, PrefabSeq(roots))]
        /\ made = ToSet(roots) \cup ToSet(PrefabSeq(roots))
        /\ active \in {(Objects \cup Components) \ off : off \in SUBSET MayBeOff}
        /\ awaked = {} /\ started = {} /\ destroyed = {}
        /\ stack = <<>> /\ phase = "frame" /\ todo = <<>> /\ at = <<1, 0>>
        /\ userCalls = 0

-----------------------------------------------------------------------------
(* GameObject::InternalAwake and InternalStart: flag the object, then loop  *)
(* over myComponents, which skips the inactive and returns at the first    *)
(* one that is through already.                                            *)
InternalLoop(op, through) ==
    /\ At(op)
    /\ LET cs == comps[Top.x]
           c == cs[Top.n]
           next == Frame(op, Top.x, TRUE, Top.n + 1)
       IN  IF Top.n = 0 THEN through' = through \cup {Top.x} /\ Goto(<<next>>)
           ELSE IF Top.n > Len(cs) THEN Return /\ UNCHANGED through
           ELSE IF c \notin active THEN Goto(<<next>>) /\ UNCHANGED through
           ELSE IF c \in through THEN Return /\ UNCHANGED through
           ELSE through' = through \cup {c} /\ Goto(<<Frame("user", c, TRUE, 0), next>>)
    /\ UNCHANGED <<lists, active, destroyed, made, phase, todo, at, userCalls>>

InternalAwake == InternalLoop("awake", awaked) /\ UNCHANGED started
InternalStart == InternalLoop("start", started) /\ UNCHANGED awaked

(* Component::InternalAwake and InternalStart                              *)
ComponentOnce(op, through) ==
    /\ At(op)
    /\ IF Top.x \in through THEN Return ELSE Goto(<<Frame("user", Top.x, TRUE, 0)>>)
    /\ through' = through \cup {Top.x}
    /\ UNCHANGED <<lists, active, destroyed, made, phase, todo, at, userCalls>>

ComponentAwake == ComponentOnce("componentAwake", awaked) /\ UNCHANGED started
ComponentStart == ComponentOnce("componentStart", started) /\ UNCHANGED awaked

SetFlag(x, on) == active' = IF on THEN active \cup {x} ELSE active \ {x}

(* Component::SetActive, after what the call pushed before it              *)
ComponentSetActive ==
    /\ At("componentSetActive")
    /\ IF Top.n = 0 /\ Top.on /\ Top.x \notin started
       THEN /\ Goto(<<Frame("componentAwake", Top.x, TRUE, 0), Frame("componentStart", Top.x, TRUE, 0),
                      Frame("componentSetActive", Top.x, TRUE, 1)>>)
            /\ UNCHANGED active
       ELSE Return /\ SetFlag(Top.x, Top.on)
    /\ UNCHANGED <<lists, awaked, started, destroyed, made, phase, todo, at, userCalls>>

(* GameObject::SetActive: begin the object first, then set the flag and    *)
(* do the same with the children.                                          *)
SetActive ==
    /\ At("setActive")
    /\ IF Top.n = 0
       THEN /\ Goto((IF Top.on /\ MustBegin(Top.x)
                     THEN <<Frame("awake", Top.x, TRUE, 0), Frame("start", Top.x, TRUE, 0)>>
                     ELSE <<>>) \o <<Frame("setActive", Top.x, Top.on, 1)>>)
            /\ UNCHANGED active
       ELSE /\ SetFlag(Top.x, Top.on)
            /\ LET kids == Only(Kids[Top.x], {g \in Objects : Exists(g)})
               IN  Goto([i \in 1..Len(kids) |-> Frame("setActive", kids[i], Top.on, 0)])
    /\ UNCHANGED <<lists, awaked, started, destroyed, made, phase, todo, at, userCalls>>

-----------------------------------------------------------------------------
(* What code of the game does: in a callback, or in a timer or an event    *)
(* before the scene is updated.  A callback returns at any time.           *)
UserReturns ==
    /\ At("user")
    /\ Return
    /\ UNCHANGED <<lists, flags, phase, todo, at, userCalls>>

UserCall(op) ==
    /\ op \in UserOps
    /\ At("user") \/ (stack = <<>> /\ phase = "frame")
    /\ userCalls < MaxCalls
    /\ userCalls' = userCalls + 1
    /\ UNCHANGED <<phase, todo, at>>

CallSetActive(g, on) ==
    /\ UserCall("setActive")
    /\ Exists(g)
    /\ Call(<<Frame("setActive", g, on, 0)>>)
    /\ UNCHANGED <<lists, flags>>

CallComponentSetActive(c, on) ==
    /\ UserCall("componentSetActive")
    /\ Alive(c)
    /\ Call(<<Frame("componentSetActive", c, on, 0)>>)
    /\ UNCHANGED <<lists, flags>>

(* A component that is added to an object that has started starts at once. *)
AddComponent(c) ==
    /\ UserCall("addComponent")
    /\ Exists(OwnerOf[c]) /\ c \notin made
    /\ made' = made \cup {c}
    /\ comps' = [comps EXCEPT ![OwnerOf[c]] = Append(@, c)]
    /\ handler' = [handler EXCEPT ![TypeOf[c]] = Append(@, c)]
    /\ Call(IF OwnerOf[c] \in started THEN <<Frame("componentStart", c, TRUE, 0)>> ELSE <<>>)
    /\ UNCHANGED <<list, toAdd, active, awaked, started, destroyed>>

(* CloneInternal of a prefab: queued, nothing is called yet                *)
CloneObject(g) ==
    /\ UserCall("clone")
    /\ LET new == Tree[g]
       IN  /\ ToSet(new) \cap made = {}
           /\ toAdd' = toAdd \o new
           /\ comps' = [h \in Objects |-> IF h \in ToSet(new) THEN Prefab[h] ELSE comps[h]]
           /\ handler' = [y \in Types |-> handler[y] \o OfType(y, PrefabSeq(new))]
           /\ made' = made \cup ToSet(new) \cup ToSet(PrefabSeq(new))
    /\ UNCHANGED <<list, active, awaked, started, destroyed, stack>>

(* GameObject::Destroy marks the object and what is below it.  Nobody      *)
(* destroys a singleton, to which an entry keeps a pointer.                *)
DestroyObject(g) ==
    /\ UserCall("destroy")
    /\ Exists(g)
    /\ LET all == {h \in ToSet(Tree[g]) : Exists(h)}
       IN  all \cap ToSet(Singletons) = {} /\ destroyed' = destroyed \cup all
    /\ UNCHANGED <<lists, active, awaked, started, made, stack>>

DestroyComponent(c) ==
    /\ UserCall("destroyComponent")
    /\ Alive(c)
    /\ destroyed' = destroyed \cup {c}
    /\ UNCHANGED <<lists, active, awaked, started, made, stack>>

User ==
    \/ UserReturns
    \/ \E g \in Objects : \/ CloneObject(g) \/ DestroyObject(g)
                           \/ \E on \in BOOLEAN : CallSetActive(g, on)
    \/ \E c \in Components : \/ AddComponent(c) \/ DestroyComponent(c)
                              \/ \E on \in BOOLEAN : CallComponentSetActive(c, on)

-----------------------------------------------------------------------------
(* Scene::UpdateInternal and GameObjectManager::Update of a frame          *)
InPhase(p) == stack = <<>> /\ phase = p

(* What the loops of Update visit: the singletons, then every object       *)
Visit(gs) == Only(Singletons, ToSet(gs)) \o gs

CreateQueuedGameObjects ==
    /\ list' = list \o toAdd
    /\ toAdd' = <<>>

StartFrame ==
    /\ InPhase("frame")
    /\ CreateQueuedGameObjects
    /\ phase' = "awake" /\ todo' = Visit(list')
    /\ UNCHANGED <<comps, handler, flags, stack, at, userCalls>>

(* Singletons begin even when they are inactive.                           *)
UpdateObject(g, must, op) ==
    Call(IF must /\ (g \in active \/ g \in ToSet(Singletons))
         THEN <<Frame(op, g, TRUE, 0)>> ELSE <<>>)

UpdateAwake ==
    /\ InPhase("awake")
    /\ IF todo = <<>>
       THEN phase' = "start" /\ todo' = Visit(list) /\ UNCHANGED stack
       ELSE /\ UpdateObject(Head(todo), Head(todo) \notin awaked, "awake")
            /\ todo' = Tail(todo) /\ UNCHANGED phase
    /\ UNCHANGED <<lists, flags, at, userCalls>>

UpdateStart ==
    /\ InPhase("start")
    /\ IF todo = <<>>
       THEN phase' = "remove" /\ UNCHANGED <<todo, stack>>
       ELSE /\ UpdateObject(Head(todo), MustStart(Head(todo)), "start")
            /\ todo' = Tail(todo) /\ UNCHANGED phase
    /\ UNCHANGED <<lists, flags, at, userCalls>>

(* The last reference goes away with the list: ~GameObject releases the    *)
(* components of the object.                                               *)
RemoveDestroyedGameObjects ==
    /\ InPhase("remove")
    /\ list' = Kept
    /\ LET dead == ToSet(list) \ ToSet(Kept)
       IN  /\ comps' = [g \in Objects |-> IF g \in dead THEN <<>> ELSE comps[g]]
           /\ handler' = [y \in Types |-> Released(y, dead)]
    /\ phase' = "execute" /\ at' = <<1, 0>>
    /\ UNCHANGED <<toAdd, flags, stack, todo, userCalls>>

(* ComponentHandler::Execute: delete the destroyed components, then run    *)
(* the others by index.                                                    *)
DeleteComponents ==
    /\ InPhase("execute") /\ at[1] \in Types /\ at[2] = 0
    /\ LET dead == ToSet(handler[at[1]]) \cap destroyed
       IN  /\ handler' = [handler EXCEPT ![at[1]] = Only(@, Components \ dead)]
           /\ comps' = [g \in Objects |-> Remaining(g, dead)]
    /\ at' = <<at[1], 1>>
    /\ UNCHANGED <<list, toAdd, flags, stack, phase, todo, userCalls>>

Execute ==
    /\ InPhase("execute") /\ at[1] \in Types /\ at[2] > 0
    /\ IF at[2] > Len(handler[at[1]])
       THEN at' = <<at[1] + 1, 0>> /\ UNCHANGED stack
       ELSE /\ at' = <<at[1], at[2] + 1>>
            /\ LET c == handler[at[1]][at[2]]
               IN  Call(IF Runs(c) THEN <<Frame("user", c, TRUE, 0)>> ELSE <<>>)
    /\ UNCHANGED <<lists, flags, phase, todo, userCalls>>

EndFrame ==
    /\ InPhase("execute") /\ at[1] \notin Types
    /\ CreateQueuedGameObjects
    /\ phase' = "frame"
    /\ UNCHANGED <<comps, handler, flags, stack, todo, at, userCalls>>

MainStep ==
    \/ InternalAwake \/ InternalStart \/ SetActive
    \/ ComponentAwake \/ ComponentStart \/ ComponentSetActive
    \/ StartFrame \/ UpdateAwake \/ UpdateStart \/ RemoveDestroyedGameObjects
    \/ DeleteComponents \/ Execute \/ EndFrame

ObjectsNext == MainStep \/ User

ObjectsSpec == ObjectsInit /\ [][ObjectsNext]_objectsVars

(* Frames follow each other, and callbacks return.                         *)
ObjectsFairSpec == ObjectsSpec /\ WF_objectsVars(MainStep) /\ WF_objectsVars(UserReturns)

-----------------------------------------------------------------------------
Ops == {"awake", "start", "setActive", "componentAwake", "componentStart",
        "componentSetActive", "user"}

ObjectTypeOK ==
    /\ list \in Seq(Objects) /\ toAdd \in Seq(Objects) /\ todo \in Seq(Objects)
    /\ comps \in [Objects -> Seq(Components)] /\ handler \in [Types -> Seq(Components)]
    /\ \A y \in Types : \A c \in ToSet(handler[y]) : TypeOf[c] = y
    /\ \A s \in {active, awaked, started, destroyed, made} : s \subseteq Objects \cup Components
    /\ stack \in Seq([op : Ops, x : Objects \cup Components, on : BOOLEAN, n : Nat])
    /\ phase \in {"frame", "awake", "start", "remove", "execute"}
    /\ at \in Nat \X Nat /\ userCalls \in 0..MaxCalls

(* No object awakes or starts twice, whoever activates it from wherever:   *)
(* the assertions of InternalAwake and InternalStart hold.                 *)
BeginsOnce ==
    /\ At("awake") /\ Top.n = 0 => Top.x \notin awaked
    /\ At("start") /\ Top.n = 0 => Top.x \notin started

(* No call is in progress on an object or a component that was freed.      *)
CallsOnLiving ==
    \A i \in 1..Len(stack) : IF stack[i].x \in Objects THEN Exists(stack[i].x) ELSE Alive(stack[i].x)

(* The objects and the handlers know the same components, each once, and   *)
(* no object is in both lists or twice in one.                             *)
ListsAgree ==
    LET all == FlattenSeq([i \in 1..Len(list \o toAdd) |-> comps[(list \o toAdd)[i]]])
        run == FlattenSeq([y \in 1..Cardinality(Types) |-> handler[y]])
    IN  IsInjective(list \o toAdd) /\ IsInjective(all) /\ IsInjective(run) /\ ToSet(all) = ToSet(run)

(* Every active object of the scene starts some time, in whatever phase or *)
(* callback it was cloned or activated: again and again none is left that  *)
(* has not, as the calls of game code are bounded.                         *)
ActiveGetsStarted ==
    []<>(\A g \in Objects : Exists(g) /\ g \in active => g \in started \/ g \in destroyed)

(* Erasing by index while the list shrinks passes over no object that was  *)
(* destroyed, be it the child or the neighbour of another one, and erases  *)
(* nothing else: as long as the list has each object once.                 *)
ErasesDestroyed ==
    [][InPhase("remove") => ToSet(list') = ToSet(list) \ destroyed]_objectsVars

(* An object that is destroyed leaves the scene, even before it is created: *)
(* again and again none is left.                                           *)
DestroyedGoes == []<>(\A g \in destroyed \cap Objects : ~Exists(g))

(* When no call is in progress every active component of a started object  *)
(* has started.                                                            *)
StartedTogether ==
    stack = <<>> => \A c \in Components :
        Alive(c) /\ c \in active /\ OwnerOf[c] \in started => c \in started
=============================================================================
