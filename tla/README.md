# A Decent Game Engine: models, checks and proofs

TLA+ modules for the engine and its game in `src/`: the parts where several threads,
the engine and game code that it calls back, or a long series of user commands change
the same state. TLC checks small instances; TLAPS proves for every instance what matters
most about the thread pool and its parallel loop, the resource manager, the ownership of
scenes, the lives of game objects, undo and redo in the editor, the count of enemies and the
file watcher's hand-over. Every definition that stands for code is tied to its lines in
`PROJECT.json` ("map").

## 1. Inventory

Own code is in `src/Engine/Engine`, `src/Game/Game` and `src/Common/Common`; the
repository also holds vendored libraries (DirectXTex, ImGui, ImGuizmo, node editor,
rapidjson, Tracy, nlohmann), importers and a launcher. It has no tests: comments and
assertions are the only statements of intent.

| component | state | operations | interacts with |
|---|---|---|---|
| `Common/ThreadPool` | task queue, busy counter, exit flag, threads, two condition variables | PushTask, PushTaskFuture, WaitForTasks, ParallellLoop, StopJoinAll | scene loading pushes one task per scene; component handlers call ParallellLoop |
| `Engine/ResourceManagement` | shared resources with state, result and payload; per-type queues of requests; queues and results of the loaders; remove list per thread | RequestLoading, Load, Unload, LoadingThread, TransferResourceToRenderThread, destructor | everyone requests; loaders request children; Main transfers once per frame; scenes wait for their resources |
| `Engine/Scene` | scenes by handle, main scene, next scene, load jobs, current job; per scene a state machine LoadResources - LoadScene - LoadWorld - RuntimeInit - Ready | LoadSceneAsync, AddScene, RemoveScene, SetMainScene, SetNextScene, UpdateAllScenes | the pool, the resource manager, the editor, GameManager |
| `Engine/Editor` | mode, edited and runtime scene, their handles | open, play, stop, leave, return | adds, removes, enables and switches scenes |
| `Engine/GameObject` | objects, objects to add, components, handlers per component type, flags awaked, started, active, destroyed | create, clone, destroy, SetActive, AddComponent, Update, Execute | calls game code, which calls back |
| `Engine/Engine.cpp` | the loop of frames | Update, destructor | all of the above |
| `Game/GameManager` | current level | ChangeLevel and its variants | LoadSceneAsync, SetNextScene |
| `Common/FileWatcher` | files to watch, watched files with their write times, changed files, each under a mutex | WatchFile, WatchThread, FlushChangedFiles, Stop | resources register a callback when they are created; Main flushes once per frame |
| `Engine/Editor/Command`, `SceneHierarchyWindow` | undo and redo stacks of composites, the selection, objects to copy | DoCommand, Undo, Redo; select, create, delete, copy, paste, add and remove components | the lists of the GameObjectManager and the component systems |
| `Game/AI` (AIDirector, EnemyHealth, EnemyBase, Runner, GroundTank), `PollingStationComponent` | number of enemies; per enemy health, "IsDead", corpse timer; wave emitters | spawn a wave, hit, die, blow up, despawn, decay | health observers, behaviour trees, the removal of destroyed objects |
| `Engine/Navmesh` (NavMeshThreaded), `Engine/AssetDatabase` | job lists and finished paths; a list of files | start, cancel, fetch; rebuild | nothing calls NavMeshThreaded |
| `Engine/TimeSystem`, event managers, `Game/Postmaster` | timers, coroutines, listener lists | register, remove, update, deliver | game code, re-entrantly |
| Animation, GraphManager, Reflection, Renderer, VFX, Audio, Physics, Player, UI, containers | | | floating point, assets, device calls or sequential conversions; see section 6 |

What is hard, and what makes each part correct:

- **Pool.** No lost wake-up; the counter that WaitForTasks reads is exact; a stopped
  pool runs nothing; each index of a parallel loop is run exactly once and the loop's
  stack frame outlives its tasks.
- **Resources.** A request survives every interleaving of test, push and mark with
  loaders, transfers and synchronous loads; IsValid implies a payload; one publication
  per resource; shutdown ends.
- **Scenes.** A scene belongs to the loader or to Main, never to both; the main scene is
  among the updated ones; handles that are used exist; a level change arrives; the
  editor catches the one frame it needs; the program can end.
- **Game objects.** Callbacks run once, on living objects, in the presence of calls
  from inside callbacks; lists and handlers agree; active objects start, destroyed
  ones go.
- **File watcher.** A change that the thread has seen is neither cleared by the flush
  that is going on nor lost between three maps; the first callback of a file sees what
  was written last.
- **Editor commands.** Undo and redo restore the document exactly, composites act as one
  command, nothing gets into the scene twice, the selection never outlives its objects.
- **Enemies.** Whatever hits, death functions, despawning and corpse timers do to the
  same enemy in one frame: its kill is reported once, it leaves, and the counter that
  holds back the next wave never stays too high.

All hazards with their lines are in `PROJECT.json` ("hazards").

## 2. Modules

| module | models | how |
|---|---|---|
| `ThreadPool` | `ThreadPool.cpp/.h` | one action per critical section or per unlocked access. The mutex is not a variable: it is held exactly at the program points of `WorkerHolds`/`CallerHolds`. Predicate and wait are two steps (`EvalPredicate`, `Block`), both with the mutex held, which leaves the gap that a notification without the mutex can hit |
| `TaskQueue` | what the pool promises | abstract: tasks start in push order, at most once; only a stopped queue discards |
| `ParallellLoop` | `ThreadPool::ParallellLoop` composed with `ThreadPool` | its tasks are pairs (call, range); the lambda has the steps function, countdown, notification |
| `ResourceManager` | `ResourceManager`, `ResourceBase`, `ResourceThreadContext` | threads have call stacks, because Create loads what it needs and loaders request children. Main's frame is TransferLoaded, PublishSwap, PublishResult and PublishMark per resource, TransferQueues, TransferContext per thread, TransferNotify. A Load writes its result and swaps its payload in two steps under another mutex (`LoadResult`, `LoadSwap`), so that Main's three may come between and around them |
| `Scenes` | `SceneManager`, the states of `Scene`, the scene handling of `Editor`, level changes, the end of `Engine` | Main's frame is StartFrame, UpdateScene per scene, UpdateJobs, SwitchScene; the loader's task is LoaderStart, LoaderUpdate, and its wait for one LoaderBlock, again in two steps; the end is Quit, StopNotify, QuitDone. Code of a ready scene is UpdateReady, the editor's is Editor* |
| `GameObjects` | `GameObject`, `GameObjectManager`, `ComponentHandler`, `Component` | Main's call stack is a variable: every Awake, Start and Execute is a frame "user" that may make any engine call and return at any time |
| `Enemies` | spawning, hits, death, despawning and decay of the four kinds of enemies, and their count | one action is the Execute of one component in a frame (`DirectorExecute`, `HealthExecute`, `BaseExecute`), in any order, or a hit (`TakeLastHealth`); `StartFrame` erases what was destroyed |
| `FileWatcher` | `FileWatcher.cpp/.h`, and files that other programs write, remove and restore | the polling thread takes the registrations (`Take`), adds them (`AddExists`, `AddTime`), scans (`Scan`) and inserts (`InsertChanged`); Main's flush holds its mutex from `FlushLock` over `FlushCall` to `FlushClear` |
| `EditorCommands` | `EditorCommandManager`, the composite and the commands for objects, components and selection, and what `SceneHierarchyWindow` makes of an input | an action is one input; a command is a record, `Do` and `Undo` are functions of the scene, a composite folds them forwards and backwards |
| `UndoHistory` | what an undo history promises | abstract: the documents of the past and of the future as two stacks |
| `SequenceParts` | `std::erase`, `remove_if` and their like, and loops that erase by index while the list shrinks | `Only` is the part of a sequence whose elements are in a set, `EraseEach` a loop that erases; used by `ResourceManager`, `GameObjects` and `EditorCommands`; functions, so that facts about them can be proved |
| `ThreadPoolProofs`, `ResourceManagerProofs`, `ScenesProofs`, `GameObjectsProofs`, `EditorCommandsProofs`, `EnemiesProofs`, `FileWatcherProofs` | | the theorems of section 5; `ThreadPoolProofs` holds those of `ThreadPool` and then those of `ParallellLoop` |
| `SequenceProofs` | | what the recursive helpers on sequences return, which the other proofs cite |
| `MCResourceManager`, `MCGameObjects` | | the objects, types and calls of the checked instances |
| `MCServices`, `MCTogether` | | four and three components that do not meet in the instances, checked in one run: a variable `part` names the component that a behaviour is about, and the variables of the others keep their initial values |

Where components meet:

- `ParallellLoop` extends `ThreadPool` and takes only its steps; `LoopUsesPool` proves it.
- `Scenes` and `ResourceManager` meet in two facts only: a requested resource becomes
  created in the background, and becomes loaded in Main's transfer. `Scenes` takes just
  those two (`CreateResources`, `Publish`); the first is what `RequestedGetsLoaded`
  checks of `ResourceManager`. In the same way `Scenes` uses the pool through
  its one thread: it takes a pushed task once, stands between predicate and wait for a step
  of its own, and the join waits until it tests the exit flag.
- `Enemies` relies on what `GameObjects` checks of destroyed objects: they run until the
  end of the frame and are gone in the next. `EditorCommands` changes the lists whose
  agreement `GameObjects` checks, while nothing in the edited scene runs.
- `FileWatcher` calls back into resources; a callback creates the resource anew from the
  file, which is all that `told` keeps of it.

A definition named `...Bug` (and `OutcomeIgnored`) is the definition behind it with a
plausible mistake. No specification uses it. Each property is known to fail when one of
them takes the place of the correct definition ("mutants" in `PROJECT.json`), so that no
property holds merely by the shape of the model.

## 3. Runs

| run | cfg | instance | what it shows |
|---|---|---|---|
| services | Services | 2 workers, 2 callers, 2 tasks; or 2 workers, 2 loop calls in a row, 1..5 iterations; or one file with two callbacks, written twice; or 4 objects, 5 components, 2 types, 2 user calls (122,629 together) | of the pool: invariants, refinement of `TaskQueue`, and liveness of push, wait and stop; of the loop: every index once, no dangling counter, every call returns; the first callback sees the last change; of the objects: callbacks once, on living objects; lists agree; start and removal happen, and the loops that erase by index leave what they should |
| resources | Resources | `Independent`: 2 loaders, two unrelated requests; `Families`: 1 loader, a material with a child and a shader that it loads itself, shutdown at any time (46,977) | no lost request, single publication, what the loading flag does not overlook, service, shutdown |
| together | Together | 2 enemies, waves of up to two, a maximum of one; or 4 editor commands on a scene of two objects and two spare ones; or Main that loads and unloads what the scene thread requests (933,993) | the counter is never too high, kills are reported once, corpses go; undo and redo implement `UndoHistory`, the selection is in the scene; types, and of the third part that what Main finds valid has its payload |
| resource_reload | ResourceReload | Main requests, loads, unloads, requests | **violation**: the second request is dropped |
| resource_lost_mark | ResourceLostMark | 2 loaders and a child | **violation**: Requested overwrites Loaded |
| resource_stolen_payload | ResourceStolen | the scene thread loads what Main requests | **violation**: a failed Load swaps its empty payload behind the result that Main publishes |
| resource_flag | ResourceFlag | the requests of the run resources | **violation**: the flag is set while a loader is in Create |
| scenes | Scenes | 6 handles; a game with level changes, or the editor (158,800) | ownership, handles, progress, the editor's frame, the end |
| scenes_editor | ScenesEditor | game code changes the level while the editor plays | **violation**: the editor is cleared away |
| scenes_quit | ScenesQuit | quit during a load | **violation**: Main joins a loader that waits for Main |
| game_objects_skipped | GameObjectsSkipped | one call of Component::SetActive | **violation**: components behind an early one never start |
| editor_reselect | EditorReselect | the user may ctrl-click what is selected already | **violation**: delete and undo bring an object back twice |

**Findings.** Each violation run is described in `PROJECT.json` ("findings") with the line
of code and the comment it disagrees with. In short:

1. `myResourceToRemoveFromLoadQueue` is never cleared, so that a resource that was once
   requested and then loaded synchronously can never be streamed again.
2. `RequestLoading` queues the copy before it marks the resource. When another thread
   finishes it in between, the mark hides that it is loaded.
3. A level change while the editor plays clears the editor's own scene.
4. A quit during a load hangs: the loader waits for a transfer that no longer comes.
5. `InternalAwake` and `InternalStart` `return` where they should go on with the next
   component.
6. A ctrl-click appends an object that is selected already to the selection again.
   Deleting the selection then removes it by two commands of one composite, and the undo
   adds it, its children and their components twice.
7. `Load` and the transfer write result and payload of one resource under different mutexes.
   When the scene thread loads what Main requested, and its Create fails while the loader's
   succeeds, its empty copy may be swapped in after Main's good one and before Main writes
   Succeeded and Loaded: IsValid is then true of a resource without a payload.
8. `myIsAllResourcesLoaded` is computed from the queues and from what waits to be published.
   It is true while what a loader has taken is still in its Create.

The passing runs keep to the instances where these do not bite: in `Independent` nobody
loads synchronously and no resource has children; `Families` has one loader, so that
nobody finishes a child before its mark; in `scenes` the editor's game code changes
no levels, and `QuitReturns` asks about quits in which what the loader is loading has its
resources already and the loader is not between predicate and wait; in `together` the user
selects nothing twice and only Main loads and unloads; `FlagMeansNoneQueued` asks what is
left of the flag's promise, that nothing requested waits in a queue. They are the precise
conditions under which the code is right.

**Bounds.** Two workers and two loaders are the least number at which one may be between
predicate and wait while the other works; a third adds no new kind of race, since they
share every queue. Two callers are needed for WaitForTasks against StopJoinAll. Two tasks
and two user calls give every ordered pair of operations. Five iterations on two workers
cover fewer, exactly as many and more iterations than workers, with and without
remainder. `MaxHandles` is 6: a first scene, an opened one, its clone, a runtime scene and
two more, or six levels; calls from outside stop one handle early, so that the editor can
always clone. Two enemies are the fewest with which a wave passes the maximum and one
enemy's death can interleave with another's; two corpse frames and one are alike, because
the timer is only compared. Four editor commands reach select - append - delete - paste
with all their undos and redos, on a parent with a child that has a component, with two
spare objects to create or to clone into. Two writes and two callbacks of one file give a
change that is written before, during and after the flush of the one before it; files do
not meet in the watcher. `MaxCalls`, `MaxUnloads`, `MaxLoops`, `MaxIterations`,
`MaxCommands`, `MaxWrites`, `WaveSize` and `CorpseFrames` bound the calls or the input and
are guards of those alone.

Deadlock is checked except in the instances that really stop: the pool whose threads have
exited, the loop that was called for the last time and the watcher that was stopped or
terminated (all in Services), the engine that has shut down (Resources, ResourceFlag) or ended
(Scenes, ScenesQuit), and Main that has called through a null scene (ScenesEditor). There,
hanging is asked for by liveness properties, and in Services of the game objects too, by
`ActiveStarts` and `DestroyedGoes`.

`PushedTasksRun`, `ActiveStarts` and `DestroyedGoes` say "again and again nothing is left to
be done", which in an instance with finitely many tasks and calls is the same as "what is to
be done gets done", of each task and object.

## 4. Fairness

- Threads that can run are run by the operating system: weak fairness of each thread's
  unlocked steps, strong fairness of steps that need a mutex (a mutex that is free again
  and again is granted some time). `RunTask` and the calls of the resource manager return.
  Main's transfer and the loaders wait for mutexes that others take again and again, and are
  strongly fair; a call that waits for the mutex of a Load needs no more than weak fairness,
  as the Loads of an instance come to an end. The watcher's thread is one strongly fair action (`WatchThread`), since its insertion
  waits for the mutex of the flush.
- In `MCServices` there is one strong condition for each thread of the pool instead of one for
  each of its steps, which says the same, since a thread has only one step to take next.
- Nobody has to push, wait, stop, request, unload or quit, no file has to change, no user
  has to give a command, no enemy has to be hit, and no spurious wake-up has to happen:
  those actions have no fairness.
- Main runs one frame after the other (`TransferLoaded`, `Frame`, `MainStep`,
  `FlushChangedFiles`): the loop of `Engine` has no other exit than the quit.
- Callbacks of the game return (`UserReturns`): a callback that loops blocks the engine.

Liveness properties name the condition without which the code does not give them:
`StopReturns`, `ShutdownEnds` and `QuitReturns` ask that no thread stands between predicate
and wait when the flag is set, because the flags are set and notified without the mutex;
`QuitReturns` asks further that the loader needs no transfer any more, which Main has stopped;
`LevelChangeHappens` exempts a world that fails to load, which occupies the only loader
thread for ever; and `FirstSeesChanges` asks about files that the thread watches already
and that are still there.

## 5. Proofs

| theorem | for | says |
|---|---|---|
| `PoolInvariant` | any finite set of workers, any callers and tasks | `Inv` below is an invariant |
| `TypeCorrect` | | types; the busy counter is never negative |
| `CounterCorrect` | | counter = tasks in hand + tasks dropped at exit |
| `TasksInOnePlace` | | no task is lost, queued twice or held twice |
| `JoinIsFinal` | | after StopJoinAll no task runs |
| `WaitIsSound` | | WaitForTasks returns only when all pushed tasks are done |
| `PoolKeepsPromise` | | the pool implements `TaskQueue` |
| `LoopUsesPool` | any workers, number of calls and iterations | the loop takes only the pool's steps: every theorem above holds while it runs |
| `LoopTyped` | | types |
| `CounterOutlivesLambdas` | | no lambda uses the counter on the caller's stack after the call has returned |
| `EachIndexRunsOnce` | at least one worker | the call returns only when its function ran exactly once for each index |
| `ResourcesTyped` | any resources, types, loaders and other threads, any children and loads of a Create, any programs | types, those of all call stacks among them |
| `PayloadBehindValid` | `LoadsOnMain`, `LoadsAreClosed` | between two transfers, what IsValid reports to Main has its payload, unless a Create loads that resource at once |
| `NoRequestLost` | `OnlyRequests` | what is requested is queued, being created or about to be published |
| `FlagIsSound` | `OnlyRequests` | Main sets myIsAllResourcesLoaded only when nothing requested waits in a queue |
| `PublishedOnlyOnce` | `OnlyRequests`, `LoadsAreClosed` | a transfer finds no copy for a resource that is loaded already, unless a Create loads that resource at once |
| `CopiesAreFresh` | `OnlyRequests`, `LoadsAreClosed` | nobody copies a resource that has its payload, with the same exception |
| `SceneTyped` | any number of scenes | types |
| `LoaderOwnership` | | the loader and Main never share a scene |
| `MainStaysPresent` | `LevelsInGamesOnly` | the main scene is among the scenes until the program ends |
| `OnlyKnownHandles` | `LevelsInGamesOnly` | SetMainScene is never called with a handle without a scene |
| `ObjectsTyped` | any forest of objects, any components and types, any calls of game code, nested to any depth | types |
| `NoObjectBeginsTwice` | | no object awakes or starts twice |
| `ObjectsAndHandlersAgree` | | objects and handlers know the same components, each once, and no object is in the lists twice |
| `CallsStayOnLiving` | | no call is in progress on an object or a component that was freed |
| `EveryDestroyedErased` | | the loops that erase destroyed objects by index leave exactly the others, in their order |
| `EditorTyped` | `~MayReselect`; any finite set of objects and forest of them, any number of commands | types |
| `SelectionStaysInScene` | | a selected object is in the scene |
| `EditorAddsNothingTwice` | | no object is in the scene's lists twice, and no component runs twice |
| `KeepsHistory` | | the commands implement `UndoHistory` |
| `EnemiesTyped` | any finite set of enemies, any maximum, waves and corpse time | types |
| `CounterNeverTooHigh` | | the counter never includes an enemy that is dead or despawned |
| `KillsReportedOnce` | | a kill is reported once |
| `WatcherTyped` | any files, callbacks and writes | types |
| `NoNotedChangeIsLost` | | a change that the thread has seen stays noted until the first callback has read the newest contents |

The assumptions are those of the modules (`PoolAssumption`, `LoopAssumption`,
`ResourceAssumption`, `SceneAssumption`, `ObjectAssumption`, `ForestAssumption`,
`SceneFileAssumption`, `EnemiesAssumption`), which TLC evaluates in the runs, and those that the theorems name
themselves:

- `Registrations`: callbacks are registered for files.
- `LevelsInGamesOnly`: code which runs in the editor changes no levels. Without it
  `scenes_editor` shows the counterexample.
- `OnlyRequests`: Main only requests, nothing that it requests is a child of what is in
  play, and nothing in play has children or at most one loader runs. Without it
  `resource_reload` and `resource_lost_mark` show the counterexamples.
- `LoadsAreClosed`: the children of what some Create loads at once are themselves loaded
  by a Create. A Load requests no children before its payload is swapped in, so that a
  child could be requested in two ways. Both instances of the run `resources` satisfy
  these two hypotheses.
- `LoadsOnMain`: from outside, only Main loads and unloads; the others request, and load what
  a Create loads. The instance of `together` satisfies it and `LoadsAreClosed`. Without it
  `resource_stolen_payload` shows the counterexample.
- `Workers # {}`: ParallellLoop divides by the number of threads.
- `~MayReselect`: the user ctrl-clicks nothing that is selected already. Without it
  `editor_reselect` shows the counterexample.

**Pool.** None of the checked invariants is inductive alone. `Inv` adds

- `Carrying`: which program points hold a task, and that a worker at "take" finds the
  queue non-empty unless the pool is being stopped. Without it `Head(myTasks)` has no type.
- `OneHolder`: at most one thread is at a point that holds the mutex. Without it a second
  worker may empty the queue between the predicate and the pop.
- `StatusTells`: the status of a task in hand follows from the program point of its worker
  and back. It makes "popped" and "finished" the same event for the counter and the status.
- finiteness of the dropped tasks, so that their cardinality can be counted up by one.

The order is typing, then places, then counting, each lemma using the ones before it;
`WaitIsSound` and the refinement follow from `Inv` step by step, with `Take` mapped to
Start, `RunTask` to Complete, `Recheck` to Discard or a stutter.

**Loop.** `LoopInv` takes the pool's `Inv` over unchanged, by `LoopUsesPool`. It adds
`PushedInOrder` (a caller has pushed exactly the ranges before the next one, so that the
next push is a new task of the pool), `OnlyThisCall` (what is queued or in hand belongs to
the call in progress) and `CounterCounts` (the counter is the number of ranges of this call
that have not counted down). When the counter is zero, no range of the call is left that
could still count; the caller sees zero before it returns. For `EachIndexRunsOnce`,
`RangeEndIs` solves the recursion by which the ranges are cut (range *i* ends at *i* times
the normal length plus the smaller of *i* and the remainder), `OneRange` derives that each
index is in exactly one of them, and `RanOnce` says that the function ran for the indices of
those ranges whose lambda has called it. When the counter is zero and all ranges are pushed,
those are all.

**Sequences.** `Only` (what is left when elements are erased), `FlattenSeq` and the trees of
objects are recursive. `RecursionExists` shows that a definition by CHOOSE satisfies its
recursion when some function does, and `SetInduction` proves facts about its values by
induction over a set of numbers, for which the smallest number outside of the set is refuted.
What follows is all that other proofs cite: which elements a part has, in which order, how
it goes with Append, Tail and concatenation, and that injective sequences stay injective.
`EraseEachIs` says that a loop which erases one position after the other, and each time goes
on behind the neighbour, leaves `Only` the rest: each pass erases one object of the list, and
the list has each object once (`ListInv`), which is all that `EveryDestroyedErased` needs.

**Resources.** `PayloadBehindValid` rests on `Backed`: a resource whose result is a success
and that has no payload is `Halfway`, where Main has written one of the two and not yet the
other: in an Unload, in a Load, or in the transfer. It is about resources that nobody has
marked as loaded yet, too; about the others alone it is not inductive. Main does one of these
at a time, so that nothing comes between its two writes, and no other thread writes either,
which is what the two hypotheses are for (`OthersStayAway`). `NoRequestLost` needs `RequestInv`:
who calls what (`Shape`, `Around`); that a caller behind its test finds the resource not
requested and on no remove list, as nobody else requests it (`Tested`); that what is on a
remove list is loaded or in the hands of a Load (`Removed`); that what is about to be marked
is in a queue (`Pushed`); and then that what is marked is on its way (`Pending`). With two
loaders and children a loader may take the copy before the mark, which is what
`resource_lost_mark` shows. `OnceInv` adds that there is one copy, in one place: once in the
queues of its type (`InOneQueue`), or with one loader, whose job is its outermost call
(`FramesInOrder`), or waiting to be published (`InOnePlace`); that there is none of what is
loaded (`AfterLoad`); and that a caller behind its test pushes the only one (`RequestOnce`).

**Game objects.** The call stack of Main has any depth, and any callback may call the
engine. `ForestAssumption` ranks the objects, so that trees are finite and two trees share
an object only if one is inside the other (`TreesMeet`); clones and cascades of destruction
are then as typed as their prefab. `BeginInv` looks for the calls that are about to set a
flag: an Awake that is can only be the innermost call, and below it only a Start can be, of
an object that has awaked but not started, and one for each object (`Calm`). `ListInv` ties
the lists to the objects (`Owned`: a component belongs to one object, and is in its list)
and the handlers to the lists (`HandlersKnow`). `LivingInv` says that each frame of the
stack is about something alive; it needs `TodoInv`, that the copy of the list that Update
goes through holds only what the list holds, since objects are erased between two phases
only.

**Editor commands.** `EditorInv` says that there is a line of scenes, each described by the
objects in it, those that have their component, and the selection; and a line of composites
of which each leads from one scene to the next (`Timeline`). The scene of today is one of
them, what is before it on the line is the undo stack and the documents of the past, what is
behind it, read backwards, the redo stack and those of the future (`Standing`). A step of
undo or redo moves along the line, because a composite that leads from one scene to another
does so also when it is done or undone one command after the other (`AddsDo`, `RemovesDo`,
`EquipsDo`): the sets that a composite adds are disjoint from each other and from the scene;
the subtrees that it removes are inside the scene and, as what is removed has lost its
parent, apart (`ApartUnder`). Undoing goes through a composite forwards too, so this is
where the order of its commands would matter and does not.

The hard part is a new command, since deleting and pasting change the parents of objects and
the components of clones outside of the history, while the subtrees in older commands are
looked up in the hierarchy of today. `RefitLeads` shows that every older composite still
leads from one scene to the next, because a deletion takes the parents of objects in the
scene only, a paste gives parents and components to objects that never existed before, and
an object which a composite of the past took out of the scene is in no later scene (the last
part of `Timeline`). `UnderIs` and `SameUnder` are what this needs to know of subtrees: they
are the least sets closed under children, and changed parents elsewhere leave them alone.
That clones get different objects follows from the count of the spare ones (`RoomForAll`).

A composite that removes one object twice leads nowhere in this sense; hence `~MayReselect`.

**Enemies.** `IInv` adds to `NeverOvercounted` that only spawned enemies execute
(`ExecutesSpawned`), that a corpse whose timer has passed is doomed (`CorpseOnTime`) and
that no kill was reported of an enemy that is not dead (`NoEarlyReport`). The counting
argument is `LivingLess`: an enemy that goes takes exactly itself out of the living, while
the counter goes down by at least one.

**File watcher.** `FilesInOrder` says that the list that waits for the flush starts with
the callback that the watched list starts with: `insert` keeps an older entry, and that is
why only the first callback is safe.

Only model-checked: the liveness properties, since fairness and ENABLED are beyond the
prover. Every safety property and every refinement that a passing run checks is stated by a
theorem above; `ServicesTypeOK` is the conjunction of what `LoopTyped`, `WatcherTyped` and
`ObjectsTyped` say, `TogetherTypeOK` of what `EnemiesTyped`, `EditorTyped` and `ResourcesTyped` say;
`LambdasCounterAlive` is `CounterFrameAlive` in the part of Services where it makes sense.

## 6. Abstractions and what is not modelled

- **Pool.** Task contents; PushTaskFuture is PushTask whose promise is the task's status.
  The pool has the memory model of its mutexes and atomics, all sequentially consistent.
  Only one caller at a time stops the pool.
- **Resources.** The four mutexes are not variables except where one is kept across steps;
  result, payload and state of a resource are written in steps of their own, but a std::swap
  of two payloads is one step, so that a payload torn by two swaps is not seen. The lookup in
  RequestLoading does not wait for a transfer that publishes. The early returns on
  myIsResourceLoadingAllowed are left out, since nothing calls its setter. A resource that
  another one's Create loads at once (`LoadedByCreate`) is exempt from the properties about
  copies, publication and payloads: several threads may load it and the transfer publish it
  at once, and the code does publish it over one that is in use, and logs it. RemoveUnusedResources, listings and debug windows
  are left out.
- **Scenes.** Of the pool there is its one thread; unlocking and notifying are one step, and
  there are no spurious wake-ups (`ThreadPool` has both). Init of a scene succeeds (level folders exist). Loading a level and changing
  to it are one call, as GameManager does. Worlds may fail to load, except the editor's
  own. Play clones the edited scene at once.
- **Game objects.** Children and owners are constants; OnEnable, OnDisable and OnDestroy
  have no effect; the passes of one frame (fixed, late, render) are taken as one; the
  last reference to an object is the list's; singletons (camera, player) are never
  destroyed; a clone is made of a prefab that never began.
- **Enemies.** Health is "not yet zero" or zero; where an enemy is, whom it shoots and how a
  behaviour tree decides are nondeterministic. The property is one-sided because the code
  is: a runner that is killed is counted down twice (EnemyHealth::OnDeath and its death
  function, Runner.cpp:106), and a dead tank again in every frame in which it is far away,
  so that the counter may fall below the living and below zero; waves then come early but
  are never held back for ever. "Despawn all" (StopEnemiesSpawning) and EnableWaveEmitter
  have no caller and are left out.
- **File watcher.** Write times are counters. What the code does not promise, the model
  shows: a second callback that is registered for a path before the thread has taken the
  first is dropped (PixelShaderResource.cpp:103-104 registers two), a path that is missing
  at that moment is forgotten, and a file that disappears between exists and
  last_write_time (FileWatcher.cpp:90) ends the program by an exception nobody catches.
- **Editor commands.** One component per object. Parents lie outside of the document that
  undo restores, as SetParent and RemoveParent are no commands; dragging an object onto
  another and editing a prefab are not modelled for the same reason. Commands of a gizmo
  change nothing when they are done. MoveGameObject is used nowhere.
- **Not modelled at all:** rendering, VFX, audio, physics, animation blending and navigation
  geometry are device calls or floating point; reflection, serialization, graphs, containers
  and importers are sequential conversions; timers count floating-point time down, and no callback removes
  one; listeners are not changed while a message is delivered; player, items, UI, shooting and movement are
  tuning of single objects; NavMeshThreaded has no caller; AssetDatabase is a list behind
  one mutex. The bulk of the repository's lines is vendored code (Tracy, ImGui, JSON,
  DirectXTex).

## 7. Plan

What corrupts or hangs the whole engine came first (pool, resources, scenes, objects), then
parts that affect one feature (files, editor commands, enemies). What is left:

1. `Timers`: TimeSystem with the objects its callbacks use. The timer of a graph
   (GraphNode_Timer.cpp:31) fires after its object was destroyed, because timers are
   cleared only when the main scene changes.
2. Composition of `GameObjects` with `ParallellLoop` (ExecuteParallelized), for the vector
   that a worker may reallocate while others read it.
3. The state machines of Animation and of the player.
