------------------------------- MODULE Scenes -------------------------------
(***************************************************************************)
(* Engine/Scene: the scene manager, its one loader thread, the life of a   *)
(* scene from its first resource request to Ready, and the two clients     *)
(* that change scenes: level changes of the game, and the editor.          *)
(*                                                                         *)
(* A scene is known by its handle.  Main runs one frame after the other:   *)
(* transfer the resources, update the scenes in the order of their         *)
(* handles, look after the load jobs, switch to the next scene.  The       *)
(* loader drives one scene at a time through the same states that Main     *)
(* drives the scenes of the editor through.                                *)
(*                                                                         *)
(* The loader is the one thread of a ThreadPool, reduced to what its       *)
(* shutdown depends on: between the predicate of its wait and the wait it  *)
(* holds the mutex of the pool ("block"), a task is pushed and its thread  *)
(* woken in one step, and a wait does not end without a notification.      *)
(***************************************************************************)
EXTENDS Naturals, Sequences, FiniteSets, SequencesExt

CONSTANTS
    MaxHandles,     \* bound: number of scenes ever created
    StartModes,     \* "game": start with a level, "editor": with the editor
    LevelModes,     \* start modes in which game code changes levels
    MayQuit         \* does the program end in this instance

ASSUME SceneAssumption ==
    /\ MaxHandles \in Nat \ {0}
    /\ StartModes \subseteq {"game", "editor"} /\ LevelModes \subseteq StartModes
    /\ MayQuit \in BOOLEAN

Handles == 0..(MaxHandles - 1)
NoScene == MaxHandles
EditorScene == 0

VARIABLES
    stage,          \* of each scene: myState and myInitState in one
    resources,      \* of each scene: "idle", "requested", "created" or "loaded"
    enabled, static,            \* scenes with myIsEnabled, with myIsEditorScene
    scenes,         \* the keys of myScenes
    mainScene, nextScene, clearOthers,
    loadJobs, currentJob,       \* myLoadJobs and myCurrentJob
    loader,         \* the pool's thread: "idle", "block" or "waiting" without a
                    \* task, "init" or "load" with one
    sceneRef,       \* the scene that its task captured
    handleCounter,
    main, toUpdate,             \* where Main is in a frame, scenes still to update
    start,          \* "game" or "editor"
    playing, editing, runtime,  \* EditorMode, scenes of myEditingScene, myRuntimeScene
    runtimeHandle, staticHandle, returned

sceneVars == <<stage, resources, enabled, static>>
managerVars == <<scenes, mainScene, nextScene, clearOthers>>
jobVars == <<loadJobs, currentJob, loader, sceneRef>>
editorVars == <<playing, editing, runtime, runtimeHandle, staticHandle, returned>>
vars == <<sceneVars, managerVars, jobVars, handleCounter, main, toUpdate, start, editorVars>>

IsReady(h) == stage[h] = "Ready"
EditorExists == start = "editor"

-----------------------------------------------------------------------------
(* Below, a definition whose name ends in Bug is the next one with a       *)
(* plausible mistake in it; no specification uses it.                      *)

(* The scenes of a frame, in the order in which they are updated           *)
FrameOrderBug(S) == SetToSeqs(S)
FrameOrder(S) == {order \in [1..Cardinality(S) -> S] :
                    \A i, j \in 1..Cardinality(S) : i < j => order[i] < order[j]}

(* myJobFuture.wait_for(0) == ready                                        *)
JobDoneBug == loader # "init"
JobDone == loader \notin {"init", "load"}

(* What is left of myScenes when others are cleared.  A handle that has no *)
(* scene gets a null entry, which is no scene either.                      *)
Kept(h) == {h} \cap scenes

(* SceneExists(myNextScene) && myNextScene.IsValid()                       *)
NextSceneLoadedBug == nextScene # NoScene
NextSceneLoaded == nextScene # NoScene /\ nextScene \in scenes

(* The job leaves myCurrentJob when it is done                             *)
JobAfterBug == currentJob
JobAfter == NoScene

(* The state after the current one, with none after the last               *)
NextStageBug(h) ==
    {[LoadResources |-> "LoadScene", LoadScene |-> "LoadWorld",
      LoadWorld |-> "RuntimeInit", RuntimeInit |-> "Count"][stage[h]]}

(* myConditionVariable.notify_all() of the pool                            *)
WokenLoaderBug == loader
WokenLoader == IF loader = "waiting" THEN "idle" ELSE loader

(* What the join in the destructor of the pool waits for: a thread that    *)
(* gets to test myShouldExit.  It does not take a task any more.           *)
LoaderExited == loader \in {"idle", "init"}

Init ==
    /\ start \in StartModes
    /\ stage = [h \in Handles |-> IF h = 0 THEN "LoadResources" ELSE "Absent"]
    /\ resources = [h \in Handles |-> "idle"]
    /\ enabled = {0} /\ static = {}
    /\ scenes = {} /\ mainScene = NoScene /\ nextScene = NoScene /\ clearOthers = FALSE
    /\ loadJobs = <<0>> /\ currentJob = NoScene /\ loader = "idle" /\ sceneRef = NoScene
    /\ handleCounter = 1
    /\ main = "frame" /\ toUpdate = <<>>
    /\ playing = FALSE /\ editing = NoScene /\ runtime = NoScene
    /\ runtimeHandle = NoScene /\ staticHandle = NoScene /\ returned = FALSE

-----------------------------------------------------------------------------
(* Scene::UpdateNotFinished: one step of a scene that is not ready.  A     *)
(* scene whose world fails to load stays Failed.                           *)
NextStage(h) ==
    CASE stage[h] = "LoadResources" ->
            {IF resources[h] = "loaded" THEN "LoadScene" ELSE "LoadResources"}
      [] stage[h] = "LoadScene" -> {"LoadWorld"}
      [] stage[h] = "LoadWorld" ->
            IF EditorExists /\ h = EditorScene THEN {"RuntimeInit"} ELSE {"RuntimeInit", "Failed"}
      [] stage[h] = "RuntimeInit" -> {"Ready"}
      [] OTHER -> {stage[h]}

UpdateNotFinished(h) == \E s \in NextStage(h) : stage' = [stage EXCEPT ![h] = s]

Request(h) == IF resources[h] = "idle" THEN "requested" ELSE resources[h]

(* The loader thread, without a task: the predicate of its wait, and the   *)
(* wait.                                                                   *)
LoaderBlock ==
    /\ \/ loader = "idle" /\ main \notin {"stop", "join", "gone"} /\ loader' = "block"
       \/ loader = "block" /\ loader' = "waiting"
    /\ UNCHANGED <<sceneVars, managerVars, loadJobs, currentJob, sceneRef, handleCounter,
                   main, toUpdate, start, editorVars>>

(* With a task: Init, StartLoading, then UpdateInternal until ready.  Init *)
(* is taken to succeed.                                                    *)
LoaderStart ==
    /\ loader = "init" /\ main # "gone"
    /\ loader' = "load"
    /\ resources' = [resources EXCEPT ![sceneRef] = Request(sceneRef)]
    /\ UNCHANGED <<stage, enabled, static, managerVars, loadJobs, currentJob, sceneRef, handleCounter,
                   main, toUpdate, start, editorVars>>

LoaderUpdate ==
    /\ loader = "load"
    /\ IF IsReady(sceneRef)
       THEN loader' = "idle" /\ UNCHANGED stage
       ELSE UpdateNotFinished(sceneRef) /\ UNCHANGED loader
    /\ UNCHANGED <<resources, enabled, static, managerVars, loadJobs, currentJob, sceneRef, handleCounter,
                   main, toUpdate, start, editorVars>>

(* The resource manager's threads: what they create waits for Main.        *)
CreateResources(h) ==
    /\ resources[h] = "requested"
    /\ resources' = [resources EXCEPT ![h] = "created"]
    /\ UNCHANGED <<stage, enabled, static, managerVars, jobVars, handleCounter,
                   main, toUpdate, start, editorVars>>

-----------------------------------------------------------------------------
(* The operations of SceneManager that its clients call.                   *)

(* SetMainScene, which dereferences the null entry of an unknown handle.   *)
(* go is where Main continues.                                             *)
SetMainSceneBug(h, present, go) ==
    IF h = NoScene \/ mainScene # NoScene THEN main' = go /\ UNCHANGED mainScene
    ELSE IF h \in present THEN main' = go /\ mainScene' = h
    ELSE main' = "crashed" /\ UNCHANGED mainScene
SetMainScene(h, present, go) ==
    IF h = NoScene THEN main' = go /\ UNCHANGED mainScene
    ELSE IF h \in present THEN main' = go /\ mainScene' = h
    ELSE main' = "crashed" /\ UNCHANGED mainScene

(* AddScene: a new handle and StartLoading.  There is a main scene when    *)
(* the editor, its only caller, runs.  s is the stage that                 *)
(* PrepareSceneForEditing or PrepareSceneForPlaying gave the scene.        *)
AddScene(s, isStatic, removed, disabled) ==
    /\ handleCounter < MaxHandles
    /\ handleCounter' = handleCounter + 1
    /\ stage' = [stage EXCEPT ![handleCounter] = s]
    /\ resources' = [resources EXCEPT ![handleCounter] =
                        IF s = "Ready" THEN "idle" ELSE "requested"]
    /\ enabled' = (enabled \ disabled) \cup {handleCounter}
    /\ static' = IF isStatic THEN static \cup {handleCounter} ELSE static
    /\ scenes' = (scenes \ removed) \cup {handleCounter}

(* Calls from outside stop early enough for the editor to clone the scene  *)
(* that it opened last.                                                    *)
Room == handleCounter < MaxHandles - 1

RemoveScene(h) == scenes' = scenes \ {h}

(* LoadSceneAsync and SetNextScene with the handle it returned             *)
ChangeLevel ==
    /\ start \in LevelModes
    /\ Room
    /\ handleCounter' = handleCounter + 1
    /\ stage' = [stage EXCEPT ![handleCounter] = "LoadResources"]
    /\ enabled' = enabled \cup {handleCounter}
    /\ loadJobs' = Append(loadJobs, handleCounter)
    /\ nextScene' = handleCounter
    /\ clearOthers' = TRUE

-----------------------------------------------------------------------------
(* Engine::Update up to UpdateAllScenes.  F4 outside of the editor goes    *)
(* back to it; then TransferResourceToRenderThread publishes.              *)
Publish == resources' = [h \in Handles |->
                            IF resources[h] = "created" THEN "loaded" ELSE resources[h]]

StartFrame ==
    /\ main = "frame"
    /\ main' = "scenes"
    /\ Publish
    /\ toUpdate' \in FrameOrder(scenes)
    /\ UNCHANGED <<stage, enabled, static, managerVars, jobVars, handleCounter, start, editorVars>>

ReturnToEditor ==
    /\ main = "frame"
    /\ EditorExists /\ EditorScene \notin enabled
    /\ enabled' = enabled \cup {EditorScene, editing}
    /\ returned' = TRUE
    /\ SetMainScene(EditorScene, scenes, "frame")
    /\ UNCHANGED <<stage, resources, static, scenes, nextScene, clearOthers, jobVars,
                   handleCounter, toUpdate, start,
                   playing, editing, runtime, runtimeHandle, staticHandle>>

(* UpdateInternal of the next scene.  Code in a scene that was ready runs  *)
(* in a step of its own, UpdateReady or one of the editor's.               *)
UpdateScene ==
    /\ main = "scenes" /\ toUpdate # <<>>
    /\ LET h == Head(toUpdate)
       IN  IF h \notin enabled \/ h \in static
           THEN UNCHANGED <<stage, main>> /\ toUpdate' = Tail(toUpdate)
           ELSE IF IsReady(h)
           THEN UNCHANGED <<stage, toUpdate>>
                /\ main' = IF EditorExists /\ h = EditorScene THEN "editor" ELSE "game"
           ELSE UpdateNotFinished(h) /\ UNCHANGED main /\ toUpdate' = Tail(toUpdate)
    /\ UNCHANGED <<resources, enabled, static, managerVars, jobVars, handleCounter,
                   start, editorVars>>

UpdateReady ==
    /\ main = "game"
    /\ main' = "scenes" /\ toUpdate' = Tail(toUpdate)
    /\ \/ ChangeLevel
       \/ UNCHANGED <<stage, enabled, loadJobs, nextScene, clearOthers, handleCounter>>
    /\ UNCHANGED <<resources, static, scenes, mainScene, currentJob, loader, sceneRef, start, editorVars>>

(* Editor::Update: when the opened scene is about to create its runtime    *)
(* objects, clone it into the scene to edit and kill it.                   *)
MustClone == runtime # NoScene /\ editing = NoScene /\ stage[runtime] = "RuntimeInit"

EditorClone ==
    /\ main = "editor"
    /\ MustClone
    /\ AddScene("Ready", TRUE, {staticHandle, runtimeHandle}, {})
    /\ editing' = handleCounter /\ staticHandle' = handleCounter
    /\ runtime' = NoScene
    /\ main' = "input"
    /\ UNCHANGED <<mainScene, nextScene, clearOthers, jobVars, toUpdate, start,
                   playing, runtimeHandle, returned>>

EditorUpdate ==
    /\ main = "editor"
    /\ ~MustClone
    /\ main' = "input"
    /\ UNCHANGED <<sceneVars, managerVars, jobVars, handleCounter, toUpdate, start, editorVars>>

(* What the user does in the editor in this frame                          *)
EditorInput ==
    /\ main = "input"
    /\ toUpdate' = Tail(toUpdate)
    /\ returned' = FALSE
    /\ UNCHANGED <<nextScene, clearOthers, jobVars, start>>

EditorIdle ==
    /\ EditorInput
    /\ main' = "scenes"
    /\ UNCHANGED <<sceneVars, scenes, mainScene, handleCounter,
                   playing, editing, runtime, runtimeHandle, staticHandle>>

(* The runtime scene is a clone of the scene being edited.                 *)
Play(disabled) ==
    /\ Room
    /\ AddScene("RuntimeInit", FALSE, {}, disabled)
    /\ runtime' = handleCounter /\ runtimeHandle' = handleCounter
    /\ playing' = TRUE

ChangeModePlaying ==
    /\ EditorInput
    /\ ~playing
    /\ main' = "scenes"
    /\ IF editing # NoScene THEN Play({})
       ELSE UNCHANGED <<sceneVars, scenes, handleCounter, playing, runtime, runtimeHandle>>
    /\ UNCHANGED <<mainScene, editing, staticHandle>>

ChangeModeEditing ==
    /\ EditorInput
    /\ playing
    /\ main' = "scenes"
    /\ playing' = FALSE /\ runtime' = NoScene
    /\ RemoveScene(runtimeHandle)
    /\ UNCHANGED <<sceneVars, mainScene, handleCounter, editing, runtimeHandle, staticHandle>>

(* Leaves playing mode first.  The scene that is being edited stays in     *)
(* myScenes until the clone of the opened one replaces it.                 *)
OpenScene ==
    /\ EditorInput
    /\ main' = "scenes"
    /\ Room
    /\ AddScene("LoadResources", FALSE, IF playing THEN {runtimeHandle} ELSE {}, {})
    /\ playing' = FALSE
    /\ runtime' = handleCounter /\ runtimeHandle' = handleCounter
    /\ editing' = NoScene
    /\ UNCHANGED <<mainScene, staticHandle>>

(* F4 inside of the editor: play, if not playing yet, without the editor.  *)
ExitEditor ==
    /\ EditorInput
    /\ editing # NoScene /\ ~returned
    /\ IF runtime = NoScene
       THEN Play({EditorScene, editing})
       ELSE /\ enabled' = enabled \ {EditorScene, editing}
            /\ UNCHANGED <<stage, resources, static, scenes, handleCounter,
                           runtime, runtimeHandle, playing>>
    /\ SetMainScene(runtimeHandle', scenes', "scenes")
    /\ UNCHANGED <<editing, staticHandle>>

Editor ==
    \/ EditorClone \/ EditorUpdate \/ EditorIdle
    \/ ChangeModePlaying \/ ChangeModeEditing \/ OpenScene \/ ExitEditor \/ ReturnToEditor

-----------------------------------------------------------------------------
(* The end of UpdateAllScenes.                                             *)
UpdateJobs ==
    /\ main = "scenes" /\ toUpdate = <<>>
    /\ \/ /\ currentJob = NoScene /\ loadJobs # <<>> /\ loader # "block"
          /\ currentJob' = Head(loadJobs) /\ loadJobs' = Tail(loadJobs)
          /\ loader' = "init" /\ sceneRef' = Head(loadJobs)
          /\ main' = "switch"
          /\ UNCHANGED <<scenes, mainScene>>
       \/ /\ currentJob # NoScene /\ JobDone
          /\ scenes' = scenes \cup {currentJob}
          /\ SetMainScene(IF mainScene = NoScene THEN currentJob ELSE NoScene, scenes', "switch")
          /\ currentJob' = JobAfter
          /\ UNCHANGED <<loadJobs, loader, sceneRef>>
       \/ /\ IF currentJob = NoScene THEN loadJobs = <<>> ELSE ~JobDone
          /\ main' = "switch"
          /\ UNCHANGED <<scenes, mainScene, jobVars>>
    /\ UNCHANGED <<sceneVars, nextScene, clearOthers, handleCounter, toUpdate, start, editorVars>>

SwitchScene ==
    /\ main = "switch"
    /\ IF NextSceneLoaded
       THEN /\ scenes' = IF clearOthers THEN Kept(nextScene) ELSE scenes
            /\ clearOthers' = FALSE
            /\ SetMainScene(nextScene, scenes', "frame")
            /\ nextScene' = NoScene
       ELSE main' = "frame" /\ UNCHANGED managerVars
    /\ UNCHANGED <<sceneVars, jobVars, handleCounter, toUpdate, start, editorVars>>

(* ~Engine takes the editor's scene out and destroys the scene manager,    *)
(* whose pool sets myShouldExit, without its mutex, notifies and joins the *)
(* loader; Main transfers no resources any more.                           *)
Quit ==
    /\ MayQuit
    /\ main = "frame"
    /\ main' = "stop"
    /\ scenes' = IF EditorExists /\ EditorScene \in enabled THEN scenes \ {EditorScene} ELSE scenes
    /\ UNCHANGED <<sceneVars, mainScene, nextScene, clearOthers, jobVars, handleCounter,
                   toUpdate, start, editorVars>>

StopNotify ==
    /\ main = "stop"
    /\ main' = "join"
    /\ loader' = WokenLoader
    /\ UNCHANGED <<sceneVars, managerVars, loadJobs, currentJob, sceneRef, handleCounter,
                   toUpdate, start, editorVars>>

QuitDone ==
    /\ main = "join"
    /\ LoaderExited
    /\ main' = "gone"
    /\ UNCHANGED <<sceneVars, managerVars, jobVars, handleCounter, toUpdate, start, editorVars>>

Frame == StartFrame \/ UpdateScene \/ UpdateReady \/ Editor \/ UpdateJobs \/ SwitchScene
Background == LoaderBlock \/ LoaderStart \/ LoaderUpdate
Next ==
    \/ Frame \/ Background \/ Quit \/ StopNotify \/ QuitDone
    \/ \E h \in Handles : CreateResources(h)

Spec == Init /\ [][Next]_vars

(* Main runs frames until it ends, and the background threads run.         *)
FairSpec ==
    /\ Spec
    /\ WF_vars(Frame) /\ WF_vars(StopNotify) /\ WF_vars(QuitDone)
    /\ WF_vars(Background)
    /\ \A h \in Handles : WF_vars(CreateResources(h))

-----------------------------------------------------------------------------
Stages == {"Absent", "LoadResources", "LoadScene", "LoadWorld", "RuntimeInit", "Ready", "Failed"}
SomeScene == Handles \cup {NoScene}
Ended == main \in {"stop", "join", "gone", "crashed"}
SomeFailed == \E h \in Handles : stage[h] = "Failed"

SceneTypeOK ==
    /\ stage \in [Handles -> Stages]
    /\ resources \in [Handles -> {"idle", "requested", "created", "loaded"}]
    /\ enabled \subseteq Handles /\ static \subseteq Handles /\ scenes \subseteq Handles
    /\ {mainScene, nextScene, currentJob, sceneRef} \subseteq SomeScene
    /\ {editing, runtime, runtimeHandle, staticHandle} \subseteq SomeScene
    /\ {clearOthers, playing, returned} \subseteq BOOLEAN
    /\ loadJobs \in Seq(Handles) /\ toUpdate \in Seq(Handles)
    /\ loader \in {"idle", "block", "waiting", "init", "load"}
    /\ handleCounter \in 0..MaxHandles
    /\ main \in {"frame", "scenes", "game", "editor", "input", "switch",
                 "stop", "join", "gone", "crashed"}
    /\ start \in StartModes

(* No scene is updated by two threads: while the loader drives a scene,    *)
(* Main neither has it in myScenes nor shows it.                           *)
LoaderOwnsScene ==
    loader = "load" => sceneRef \notin scenes \cup {mainScene}

(* The main scene is one of the scenes that get updated.                   *)
MainIsPresent ==
    ~Ended /\ mainScene # NoScene => mainScene \in scenes

(* SetMainScene is only called with the handle of a scene in myScenes, so  *)
(* that it never calls through a null scene.                               *)
HandlesAreKnown == main # "crashed"

(* A level that SetNextScene asked for becomes the main scene, unless      *)
(* another one is asked for, the program ends, or some world fails to      *)
(* load: then the only loader thread is never free again.                  *)
LevelChangeHappens ==
    \A h \in Handles :
        nextScene = h ~> mainScene = h \/ nextScene \notin {h, NoScene} \/ Ended \/ SomeFailed

(* A scene that the editor opened gets cloned for editing: the editor does *)
(* not miss the one frame in which the scene is at RuntimeInit.            *)
OpenedGetsEdited ==
    runtime # NoScene /\ editing = NoScene ~> editing # NoScene \/ Ended \/ SomeFailed

(* While the editor is enabled it is the main scene.                       *)
EditorIsShown ==
    EditorExists /\ mainScene # NoScene /\ EditorScene \in enabled => mainScene = EditorScene

(* The program ends when it quits and its loader needs nothing of Main any *)
(* more: what it is loading has its resources.  Like ThreadPool's          *)
(* StopReturns it leaves out the one moment between the predicate of the   *)
(* loader's wait and the wait in which every notification is missed.       *)
QuitReturns ==
    main = "stop" /\ loader \notin {"block", "init"}
    /\ (loader = "load" => resources[sceneRef] = "loaded")
        ~> main = "gone" \/ SomeFailed

(* The program ends whatever the loader is loading when it quits.          *)
QuitAlwaysReturns == main = "stop" /\ loader # "block" ~> main = "gone" \/ SomeFailed
=============================================================================
