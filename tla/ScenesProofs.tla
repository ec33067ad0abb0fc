---------------------------- MODULE ScenesProofs ----------------------------
(***************************************************************************)
(* For any number of scenes: the loader and Main never share one.  And as  *)
(* long as game code that runs in the editor changes no levels, the main   *)
(* scene is there and no handle is used that has no scene.                 *)
(***************************************************************************)
EXTENDS Scenes, FiniteSetTheorems, TLAPS

(* A handle is new, or waits in myLoadJobs, or is the current job, or had  *)
(* its turn; only the last can be in myScenes or be the main scene.        *)
Waiting == {loadJobs[i] : i \in 1..Len(loadJobs)}

JobsInOrder ==
    /\ handleCounter > 0
    /\ \A h \in scenes \cup {mainScene} \cup Waiting \cup {currentJob} :
          h # NoScene => h < handleCounter
    /\ \A i, j \in 1..Len(loadJobs) : loadJobs[i] = loadJobs[j] => i = j
    /\ Waiting \cap (scenes \cup {mainScene, currentJob}) = {}
    /\ currentJob # NoScene =>
          /\ currentJob \notin scenes \cup {mainScene}
          /\ sceneRef = currentJob
    /\ loader \in {"init", "load"} => currentJob # NoScene

(* Code runs in a scene of the frame; the editor's, while it is enabled.   *)
(* It is disabled only once there is a scene to edit.                      *)
EditorInOrder ==
    /\ main \in {"game", "editor", "input"} => toUpdate # <<>>
    /\ main \in {"editor", "input"} => EditorExists /\ EditorScene \in enabled
    /\ EditorScene \notin enabled => EditorExists /\ editing # NoScene

JobInv == SceneTypeOK /\ JobsInOrder /\ EditorInOrder

LEMMA HandlesFinite == IsFiniteSet(Handles)
  BY SceneAssumption, FS_Interval DEF Handles

LEMMA NoSceneIsNew == NoScene \notin Handles /\ EditorScene \in Handles
  BY SceneAssumption DEF NoScene, Handles, EditorScene

LEMMA FrameOrderType ==
    ASSUME NEW S, S \subseteq Handles
    PROVE  FrameOrder(S) \subseteq Seq(Handles)
  <1>1. Cardinality(S) \in Nat
    BY HandlesFinite, FS_Subset, FS_CardinalityType
  <1> SUFFICES ASSUME NEW order \in FrameOrder(S) PROVE order \in Seq(Handles)
    OBVIOUS
  <1>2. order \in [1..Cardinality(S) -> Handles]
    BY DEF FrameOrder
  <1> QED BY <1>1, <1>2

LEMMA NextStageType ==
    ASSUME SceneTypeOK, NEW h \in Handles
    PROVE  NextStage(h) \subseteq Stages
  BY DEF NextStage, SceneTypeOK, Stages

-----------------------------------------------------------------------------
LEMMA JobInvInit == Init => JobInv
  <1> SUFFICES ASSUME Init PROVE JobInv
    OBVIOUS
  <1> USE SceneAssumption, NoSceneIsNew DEF Init
  <1>1. SceneTypeOK
    <2>1. 0 \in Handles /\ 1 \in 0..MaxHandles /\ NoScene \in SomeScene
      BY DEF Handles, SomeScene
    <2>2. loadJobs \in Seq(Handles) /\ toUpdate \in Seq(Handles)
      BY <2>1
    <2>3. stage \in [Handles -> Stages]
      BY DEF Stages
    <2>4. start \in StartModes
      OBVIOUS
    <2> QED BY <2>1, <2>2, <2>3, <2>4 DEF SceneTypeOK
  <1>2. Waiting = {0}
    BY DEF Waiting
  <1>3. JobsInOrder
    BY <1>2 DEF JobsInOrder, NoScene
  <1>4. EditorInOrder
    BY DEF EditorInOrder, EditorScene
  <1> QED BY <1>1, <1>3, <1>4 DEF JobInv

LEMMA JobInvBackground ==
    ASSUME JobInv, Background \/ \E h \in Handles : CreateResources(h)
    PROVE  JobInv'
  <1> USE SceneAssumption, NoSceneIsNew DEF JobInv, managerVars, editorVars, jobVars
  <1>1. CASE LoaderStart
    <2>1. sceneRef \in Handles
      BY <1>1 DEF LoaderStart, JobsInOrder, SceneTypeOK, SomeScene
    <2>2. SceneTypeOK'
      BY <1>1, <2>1 DEF LoaderStart, SceneTypeOK, Request
    <2>3. JobsInOrder' /\ EditorInOrder'
      BY <1>1 DEF LoaderStart, JobsInOrder, EditorInOrder, Waiting, EditorExists
    <2> QED BY <2>2, <2>3
  <1>2. CASE LoaderUpdate
    <2>1. sceneRef \in Handles
      BY <1>2 DEF LoaderUpdate, JobsInOrder, SceneTypeOK, SomeScene
    <2>2. SceneTypeOK'
      BY <1>2, <2>1, NextStageType DEF LoaderUpdate, SceneTypeOK, UpdateNotFinished
    <2>3. JobsInOrder' /\ EditorInOrder'
      BY <1>2 DEF LoaderUpdate, JobsInOrder, EditorInOrder, Waiting, EditorExists
    <2> QED BY <2>2, <2>3
  <1>3. CASE \E h \in Handles : CreateResources(h)
    <2>1. SceneTypeOK'
      BY <1>3 DEF CreateResources, SceneTypeOK
    <2>2. JobsInOrder' /\ EditorInOrder'
      BY <1>3 DEF CreateResources, JobsInOrder, EditorInOrder, Waiting, EditorExists
    <2> QED BY <2>1, <2>2
  <1>4. CASE LoaderBlock
    <2>1. SceneTypeOK'
      BY <1>4 DEF LoaderBlock, SceneTypeOK, sceneVars
    <2>2. JobsInOrder' /\ EditorInOrder'
      BY <1>4 DEF LoaderBlock, JobsInOrder, EditorInOrder, Waiting, EditorExists, sceneVars
    <2> QED BY <2>1, <2>2
  <1> QED BY <1>1, <1>2, <1>3, <1>4 DEF Background

-----------------------------------------------------------------------------
(* The steps of Main outside of the editor                                 *)
LEMMA JobInvFrame ==
    ASSUME JobInv, StartFrame \/ UpdateScene \/ UpdateReady \/ UpdateJobs \/ SwitchScene
    PROVE  JobInv'
  <1> USE SceneAssumption, NoSceneIsNew DEF JobInv, managerVars, editorVars, jobVars, sceneVars
  <1>1. CASE StartFrame
    <2>1. toUpdate' \in Seq(Handles)
      BY <1>1, FrameOrderType DEF StartFrame, SceneTypeOK
    <2>2. SceneTypeOK'
      BY <1>1, <2>1 DEF StartFrame, SceneTypeOK, Publish
    <2>3. JobsInOrder' /\ EditorInOrder'
      BY <1>1 DEF StartFrame, JobsInOrder, EditorInOrder, Waiting, EditorExists
    <2> QED BY <2>2, <2>3
  <1>2. CASE UpdateScene
    <2>1. Head(toUpdate) \in Handles /\ Tail(toUpdate) \in Seq(Handles)
      BY <1>2 DEF UpdateScene, SceneTypeOK
    <2>2. SceneTypeOK'
      BY <1>2, <2>1, NextStageType DEF UpdateScene, SceneTypeOK, UpdateNotFinished
    <2>3. JobsInOrder'
      <3>1. UNCHANGED <<scenes, mainScene, loadJobs, currentJob, loader, sceneRef, handleCounter>>
        BY <1>2 DEF UpdateScene
      <3>2. Waiting' = Waiting
        BY <3>1 DEF Waiting
      <3> QED BY <3>1, <3>2 DEF JobsInOrder
    <2>4. EditorInOrder'
      BY <1>2, <2>1 DEF UpdateScene, EditorInOrder, EditorExists
    <2> QED BY <2>2, <2>3, <2>4
  <1>3. CASE UpdateReady
    <2>1. toUpdate # <<>> /\ Tail(toUpdate) \in Seq(Handles)
      BY <1>3 DEF UpdateReady, EditorInOrder, SceneTypeOK
    <2>2. CASE ChangeLevel
      <3>1. handleCounter \in Handles /\ handleCounter + 1 \in 0..MaxHandles /\ handleCounter # NoScene
        BY <2>2 DEF ChangeLevel, Room, SceneTypeOK, Handles, NoScene
      <3>2. SceneTypeOK'
        BY <1>3, <2>1, <2>2, <3>1 DEF UpdateReady, ChangeLevel, SceneTypeOK, Stages, SomeScene
      <3>3. Waiting' = Waiting \cup {handleCounter}
        <4> DEFINE n == Len(loadJobs)
        <4>1. /\ n \in Nat /\ Len(loadJobs') = n + 1 /\ loadJobs'[n + 1] = handleCounter
              /\ \A i \in 1..n : loadJobs'[i] = loadJobs[i]
          BY <2>2, <3>1 DEF ChangeLevel, SceneTypeOK
        <4>2. Waiting = {loadJobs[i] : i \in 1..n} /\ Waiting' = {loadJobs'[i] : i \in 1..(n + 1)}
          BY <4>1 DEF Waiting
        <4> HIDE DEF n, JobInv
        <4>3. 1..(n + 1) = 1..n \cup {n + 1}
          BY <4>1
        <4> QED BY <4>1, <4>2, <4>3
      <3>4. \A i, j \in 1..Len(loadJobs') : loadJobs'[i] = loadJobs'[j] => i = j
        <4>1. \A i \in 1..Len(loadJobs) : loadJobs[i] # handleCounter
          BY <3>1 DEF JobsInOrder, Waiting, SceneTypeOK, Handles, NoScene
        <4>2. /\ Len(loadJobs') = Len(loadJobs) + 1 /\ Len(loadJobs) \in Nat
              /\ \A i \in 1..Len(loadJobs) : loadJobs'[i] = loadJobs[i]
              /\ loadJobs'[Len(loadJobs) + 1] = handleCounter
          BY <2>2, <3>1 DEF ChangeLevel, SceneTypeOK
        <4>3. \A i, j \in 1..Len(loadJobs) : loadJobs[i] = loadJobs[j] => i = j
          BY DEF JobsInOrder
        <4>4. \A i \in 1..Len(loadJobs') : i \in 1..Len(loadJobs) \/ i = Len(loadJobs) + 1
          BY <4>2
        <4> QED BY <4>1, <4>2, <4>3, <4>4
      <3>5. JobsInOrder'
        <4>1. /\ UNCHANGED <<scenes, mainScene, currentJob, loader, sceneRef>>
              /\ handleCounter' = handleCounter + 1 /\ handleCounter \in Nat
          BY <1>3, <2>2, <3>1 DEF UpdateReady, ChangeLevel, Handles
        <4>2. \A h \in scenes \cup {mainScene} \cup Waiting \cup {currentJob} : h # NoScene => h \in Nat
          BY DEF SceneTypeOK, Waiting, SomeScene, Handles
        <4>3. handleCounter \notin scenes \cup {mainScene, currentJob}
          BY <3>1, <4>1, <4>2 DEF JobsInOrder
        <4> HIDE DEF managerVars, jobVars, JobInv
        <4> QED BY <3>1, <3>3, <3>4, <4>1, <4>2, <4>3 DEF JobInv, JobsInOrder
      <3>6. EditorInOrder'
        BY <1>3, <2>2 DEF UpdateReady, ChangeLevel, EditorInOrder, EditorExists
      <3> QED BY <3>2, <3>5, <3>6
    <2>3. CASE UNCHANGED <<stage, enabled, loadJobs, nextScene, clearOthers, handleCounter>>
      <3>1. SceneTypeOK'
        BY <1>3, <2>1, <2>3 DEF UpdateReady, SceneTypeOK
      <3>2. JobsInOrder' /\ EditorInOrder'
        BY <1>3, <2>3 DEF UpdateReady, JobsInOrder, EditorInOrder, Waiting, EditorExists
      <3> QED BY <3>1, <3>2
    <2> QED BY <1>3, <2>2, <2>3 DEF UpdateReady
  <1>4. CASE UpdateJobs
    <2>0. UNCHANGED <<stage, resources, enabled, static, nextScene, clearOthers, handleCounter,
                      toUpdate, start, playing, editing, runtime, runtimeHandle, staticHandle, returned>>
      BY <1>4 DEF UpdateJobs
    <2>1. CASE /\ currentJob = NoScene /\ loadJobs # <<>> /\ loader # "block"
               /\ currentJob' = Head(loadJobs) /\ loadJobs' = Tail(loadJobs)
               /\ loader' = "init" /\ sceneRef' = Head(loadJobs)
               /\ main' = "switch"
               /\ UNCHANGED <<scenes, mainScene>>
      <3>1. /\ loadJobs[1] \in Handles /\ Head(loadJobs) = loadJobs[1]
            /\ 1 \in 1..Len(loadJobs) /\ loadJobs[1] \in Waiting
            /\ Tail(loadJobs) \in Seq(Handles) /\ Len(Tail(loadJobs)) = Len(loadJobs) - 1
            /\ \A i \in 1..Len(Tail(loadJobs)) : Tail(loadJobs)[i] = loadJobs[i + 1]
        BY <2>1 DEF SceneTypeOK, Waiting
      <3>2. SceneTypeOK'
        <4>1. {currentJob', sceneRef'} \subseteq SomeScene /\ loadJobs' \in Seq(Handles)
          BY <2>1, <3>1 DEF SomeScene
        <4> QED BY <2>0, <2>1, <4>1 DEF SceneTypeOK
      <3>3. Waiting' \subseteq Waiting \ {loadJobs[1]}
        BY <2>1, <3>1, SMTT(60) DEF JobsInOrder, Waiting, SceneTypeOK
      <3>4. \A i, j \in 1..Len(loadJobs') : loadJobs'[i] = loadJobs'[j] => i = j
        BY <2>1, <3>1, SMTT(60) DEF JobsInOrder, SceneTypeOK
      <3>5. JobsInOrder'
        <4>1. currentJob' = loadJobs[1] /\ currentJob' \notin scenes \cup {mainScene}
              /\ currentJob' # NoScene /\ currentJob' < handleCounter /\ currentJob' \notin Waiting'
          BY <2>1, <3>1, <3>3 DEF JobsInOrder
        <4>2. scenes' = scenes /\ mainScene' = mainScene /\ handleCounter' = handleCounter
              /\ loader' = "init" /\ sceneRef' = currentJob' /\ Waiting' \subseteq Waiting
          BY <2>0, <2>1, <3>1, <3>3
        <4> HIDE DEF jobVars, managerVars
        <4> QED BY <3>4, <4>1, <4>2 DEF JobsInOrder
      <3>6. EditorInOrder'
        BY <1>4, <2>1 DEF UpdateJobs, EditorInOrder, EditorExists
      <3> QED BY <3>2, <3>5, <3>6
    <2>2. CASE /\ currentJob # NoScene /\ JobDone
               /\ scenes' = scenes \cup {currentJob}
               /\ SetMainScene(IF mainScene = NoScene THEN currentJob ELSE NoScene, scenes', "switch")
               /\ currentJob' = JobAfter
               /\ UNCHANGED <<loadJobs, loader, sceneRef>>
      <3>1. /\ main' \in {"switch", "crashed"}
            /\ mainScene' \in {mainScene, currentJob}
        BY <2>2 DEF SetMainScene
      <3>2. currentJob \in Handles /\ currentJob' = NoScene
        BY <2>2 DEF SceneTypeOK, SomeScene, JobAfter
      <3>3. SceneTypeOK'
        BY <1>4, <2>2, <3>1, <3>2 DEF UpdateJobs, SceneTypeOK, SomeScene
      <3>4. Waiting' = Waiting
        BY <2>2 DEF Waiting
      <3>5. JobsInOrder'
        <4>1. /\ scenes' = scenes \cup {currentJob} /\ handleCounter' = handleCounter
              /\ loader' \notin {"init", "load"} /\ loadJobs' = loadJobs
          BY <2>0, <2>2 DEF JobDone
        <4>2. currentJob < handleCounter /\ currentJob \notin Waiting
          BY <3>2, NoSceneIsNew DEF JobsInOrder
        <4>3. NoScene \notin Waiting
          BY DEF Waiting, SceneTypeOK
        <4> QED BY <3>1, <3>2, <3>4, <4>1, <4>2, <4>3 DEF JobsInOrder
      <3>6. EditorInOrder'
        BY <1>4, <2>2, <3>1 DEF UpdateJobs, EditorInOrder, EditorExists
      <3> QED BY <3>3, <3>5, <3>6
    <2>3. CASE /\ main' = "switch" /\ UNCHANGED <<scenes, mainScene, jobVars>>
      <3>1. SceneTypeOK'
        BY <2>0, <2>3 DEF SceneTypeOK
      <3>2. JobsInOrder' /\ EditorInOrder'
        BY <2>0, <2>3 DEF JobsInOrder, EditorInOrder, Waiting, EditorExists
      <3> QED BY <3>1, <3>2
    <2> QED BY <1>4, <2>1, <2>2, <2>3 DEF UpdateJobs
  <1>5. CASE SwitchScene
    <2>1. /\ scenes' \subseteq scenes \cup {mainScene} \/ scenes' \subseteq scenes
          /\ mainScene' \in scenes \cup {mainScene}
          /\ nextScene' \in {nextScene, NoScene} /\ clearOthers' \in {clearOthers, FALSE}
          /\ main' \in {"frame", "crashed"}
      BY <1>5 DEF SwitchScene, SetMainScene, Kept, NextSceneLoaded
    <2>2. scenes' \subseteq scenes
      BY <1>5 DEF SwitchScene, Kept
    <2>3. SceneTypeOK'
      BY <1>5, <2>1, <2>2 DEF SwitchScene, SceneTypeOK, SomeScene
    <2>4. JobsInOrder' /\ EditorInOrder'
      BY <1>5, <2>1, <2>2 DEF SwitchScene, JobsInOrder, EditorInOrder, Waiting, EditorExists
    <2> QED BY <2>3, <2>4
  <1> QED BY <1>1, <1>2, <1>3, <1>4, <1>5

-----------------------------------------------------------------------------
(* The editor's steps.  AddScene is theirs alone: it never reuses a handle. *)
LEMMA AddSceneKeeps ==
    ASSUME JobInv, UNCHANGED jobVars, mainScene' \in scenes' \cup {mainScene},
           NEW s \in Stages, NEW isStatic \in BOOLEAN,
           NEW removed, NEW disabled, AddScene(s, isStatic, removed, disabled)
    PROVE  /\ handleCounter \in Handles /\ handleCounter # EditorScene
           /\ stage' \in [Handles -> Stages]
           /\ resources' \in [Handles -> {"idle", "requested", "created", "loaded"}]
           /\ enabled' \subseteq Handles /\ static' \subseteq Handles /\ scenes' \subseteq Handles
           /\ handleCounter' \in 0..MaxHandles
           /\ JobsInOrder'
  <1> USE SceneAssumption, NoSceneIsNew DEF JobInv
  <1>1. handleCounter \in Handles /\ handleCounter # EditorScene /\ handleCounter + 1 \in 0..MaxHandles
    BY DEF AddScene, SceneTypeOK, JobsInOrder, Handles, EditorScene
  <1>2. /\ stage' \in [Handles -> Stages]
        /\ resources' \in [Handles -> {"idle", "requested", "created", "loaded"}]
    BY <1>1 DEF AddScene, SceneTypeOK
  <1>3. enabled' \subseteq Handles /\ static' \subseteq Handles /\ scenes' \subseteq Handles
    BY <1>1 DEF AddScene, SceneTypeOK
  <1>4. Waiting' = Waiting
    BY DEF Waiting, jobVars
  <1>5. /\ handleCounter \notin Waiting \cup {currentJob}
        /\ scenes' \subseteq scenes \cup {handleCounter} /\ handleCounter' = handleCounter + 1
        /\ handleCounter \in Nat
    BY <1>1 DEF AddScene, JobsInOrder, Handles, NoScene, SceneTypeOK
  <1>6. \A h \in scenes \cup {mainScene} \cup Waiting \cup {currentJob} : h # NoScene => h \in Nat
    BY DEF SceneTypeOK, Waiting, SomeScene, Handles
  <1>7. JobsInOrder'
    BY <1>4, <1>5, <1>6 DEF JobsInOrder, jobVars
  <1> QED BY <1>1, <1>2, <1>3, <1>5, <1>7

(* ChangeModePlaying and ExitEditor call Play.                             *)
LEMMA EditorKeeps ==
    ASSUME JobInv, Editor
    PROVE  JobInv'
  <1> USE SceneAssumption, NoSceneIsNew DEF JobInv, managerVars, editorVars, jobVars, sceneVars
  <1>1. /\ main \in {"editor", "input"} => toUpdate # <<>> /\ EditorExists /\ EditorScene \in enabled
        /\ toUpdate # <<>> => Tail(toUpdate) \in Seq(Handles)
        /\ EditorExists' = EditorExists
    <2>1. main \in {"editor", "input"} => toUpdate # <<>> /\ EditorExists /\ EditorScene \in enabled
      BY DEF EditorInOrder
    <2>2. toUpdate # <<>> => Tail(toUpdate) \in Seq(Handles)
      BY DEF SceneTypeOK
    <2>3. start' = start
      BY DEF Editor, EditorClone, EditorUpdate, EditorIdle, ChangeModePlaying, ChangeModeEditing,
             OpenScene, ExitEditor, ReturnToEditor, EditorInput
    <2> QED BY <2>1, <2>2, <2>3 DEF EditorExists
  <1>2. CASE EditorClone
    <2>1. /\ AddScene("Ready", TRUE, {staticHandle, runtimeHandle}, {})
          /\ UNCHANGED jobVars /\ mainScene' = mainScene
      BY <1>2 DEF EditorClone
    <2>2. /\ handleCounter \in Handles
          /\ stage' \in [Handles -> Stages]
          /\ resources' \in [Handles -> {"idle", "requested", "created", "loaded"}]
          /\ enabled' \subseteq Handles /\ static' \subseteq Handles /\ scenes' \subseteq Handles
          /\ handleCounter' \in 0..MaxHandles
          /\ JobsInOrder'
      BY <2>1, AddSceneKeeps DEF Stages
    <2>3. SceneTypeOK'
      BY <1>2, <2>2 DEF EditorClone, SceneTypeOK, SomeScene
    <2>4. EditorInOrder'
      BY <1>1, <1>2, <2>1 DEF EditorClone, EditorInOrder, AddScene
    <2> QED BY <2>2, <2>3, <2>4
  <1>3. CASE EditorUpdate \/ EditorIdle
    <2>1. SceneTypeOK'
      BY <1>1, <1>3 DEF EditorUpdate, EditorIdle, EditorInput, SceneTypeOK
    <2>2. JobsInOrder'
      <3>1. UNCHANGED <<scenes, mainScene, loadJobs, currentJob, loader, sceneRef, handleCounter>>
        BY <1>3 DEF EditorUpdate, EditorIdle, EditorInput
      <3>2. Waiting' = Waiting
        BY <3>1 DEF Waiting
      <3> QED BY <3>1, <3>2 DEF JobsInOrder
    <2>3. EditorInOrder'
      BY <1>1, <1>3 DEF EditorUpdate, EditorIdle, EditorInput, EditorInOrder
    <2> QED BY <2>1, <2>2, <2>3
  <1>4. ASSUME NEW disabled, Play(disabled), UNCHANGED jobVars, mainScene' \in scenes' \cup {mainScene}
        PROVE  /\ {runtime', runtimeHandle'} \subseteq Handles
               /\ stage' \in [Handles -> Stages]
               /\ resources' \in [Handles -> {"idle", "requested", "created", "loaded"}]
               /\ enabled' \subseteq Handles /\ static' \subseteq Handles /\ scenes' \subseteq Handles
               /\ handleCounter' \in 0..MaxHandles
               /\ playing' = TRUE
               /\ JobsInOrder'
    <2>1. AddScene("RuntimeInit", FALSE, {}, disabled)
      BY <1>4 DEF Play
    <2> QED BY <1>4, <2>1, AddSceneKeeps DEF Stages, Play
  <1>5. CASE ChangeModePlaying
    <2>1. CASE Play({})
      <3>1. SceneTypeOK'
        BY <1>1, <1>4, <1>5, <2>1 DEF ChangeModePlaying, EditorInput, SceneTypeOK, SomeScene
      <3>2. JobsInOrder'
        BY <1>4, <1>5, <2>1 DEF ChangeModePlaying, EditorInput
      <3>3. EditorInOrder'
        BY <1>1, <1>5, <2>1 DEF ChangeModePlaying, EditorInput, EditorInOrder, Play, AddScene
      <3> QED BY <3>1, <3>2, <3>3
    <2>2. CASE UNCHANGED <<sceneVars, scenes, handleCounter, playing, runtime, runtimeHandle>>
      <3>1. SceneTypeOK'
        BY <1>1, <1>5, <2>2 DEF ChangeModePlaying, EditorInput, SceneTypeOK
      <3>2. JobsInOrder' /\ EditorInOrder'
        BY <1>1, <1>5, <2>2 DEF ChangeModePlaying, EditorInput, JobsInOrder, EditorInOrder, Waiting
      <3> QED BY <3>1, <3>2
    <2> QED BY <1>5, <2>1, <2>2 DEF ChangeModePlaying
  <1>6. CASE ChangeModeEditing
    <2>1. SceneTypeOK'
      BY <1>1, <1>6 DEF ChangeModeEditing, RemoveScene, EditorInput, SceneTypeOK, SomeScene
    <2>2. JobsInOrder' /\ EditorInOrder'
      BY <1>1, <1>6 DEF ChangeModeEditing, RemoveScene, EditorInput, JobsInOrder, EditorInOrder, Waiting
    <2> QED BY <2>1, <2>2
  <1>7. CASE OpenScene
    <2> DEFINE removed == IF playing THEN {runtimeHandle} ELSE {}
    <2>1. /\ AddScene("LoadResources", FALSE, removed, {})
          /\ UNCHANGED jobVars /\ mainScene' = mainScene
      BY <1>7 DEF OpenScene, EditorInput
    <2>2. /\ handleCounter \in Handles
          /\ stage' \in [Handles -> Stages]
          /\ resources' \in [Handles -> {"idle", "requested", "created", "loaded"}]
          /\ enabled' \subseteq Handles /\ static' \subseteq Handles /\ scenes' \subseteq Handles
          /\ handleCounter' \in 0..MaxHandles
          /\ JobsInOrder'
      BY <2>1, AddSceneKeeps DEF Stages
    <2>3. SceneTypeOK'
      BY <1>1, <1>7, <2>2 DEF OpenScene, EditorInput, SceneTypeOK, SomeScene
    <2>4. EditorInOrder'
      BY <1>1, <1>7, <2>1 DEF OpenScene, EditorInput, EditorInOrder, AddScene
    <2> QED BY <2>2, <2>3, <2>4
  <1>8. CASE ExitEditor
    <2>1. /\ mainScene' \in scenes' \cup {mainScene}
          /\ main' \in {"scenes", "crashed"}
      BY <1>8 DEF ExitEditor, SetMainScene
    <2>2. CASE Play({EditorScene, editing})
      <3>1. SceneTypeOK'
        BY <1>1, <1>4, <1>8, <2>1, <2>2 DEF ExitEditor, EditorInput, SceneTypeOK, SomeScene
      <3>2. JobsInOrder'
        BY <1>4, <1>8, <2>1, <2>2 DEF ExitEditor, EditorInput
      <3>3. EditorInOrder'
        BY <1>1, <1>8, <2>1 DEF ExitEditor, EditorInput, EditorInOrder
      <3> QED BY <3>1, <3>2, <3>3
    <2>3. CASE /\ enabled' = enabled \ {EditorScene, editing}
               /\ UNCHANGED <<stage, resources, static, scenes, handleCounter,
                              runtime, runtimeHandle, playing>>
      <3>1. SceneTypeOK'
        BY <1>1, <1>8, <2>1, <2>3 DEF ExitEditor, EditorInput, SceneTypeOK, SomeScene
      <3>2. JobsInOrder'
        <4>1. UNCHANGED <<scenes, handleCounter, loadJobs, currentJob, loader, sceneRef>>
          BY <1>8, <2>3 DEF ExitEditor, EditorInput
        <4>2. Waiting' = Waiting
          BY <4>1 DEF Waiting
        <4> QED BY <2>1, <4>1, <4>2 DEF JobsInOrder
      <3>3. EditorInOrder'
        BY <1>1, <1>8, <2>1 DEF ExitEditor, EditorInput, EditorInOrder
      <3> QED BY <3>1, <3>2, <3>3
    <2> QED BY <1>8, <2>2, <2>3 DEF ExitEditor
  <1>9. CASE ReturnToEditor
    <2>1. /\ mainScene' \in scenes \cup {mainScene} /\ main' \in {"frame", "crashed"}
      BY <1>9 DEF ReturnToEditor, SetMainScene
    <2>2. editing \in Handles
      BY <1>9 DEF ReturnToEditor, EditorInOrder, SceneTypeOK, SomeScene
    <2>3. SceneTypeOK'
      BY <1>9, <2>1, <2>2 DEF ReturnToEditor, SceneTypeOK, SomeScene
    <2>4. JobsInOrder' /\ EditorInOrder'
      BY <1>9, <2>1 DEF ReturnToEditor, JobsInOrder, EditorInOrder, Waiting
    <2> QED BY <2>3, <2>4
  <1> QED BY <1>2, <1>3, <1>5, <1>6, <1>7, <1>8, <1>9 DEF Editor

LEMMA JobInvNext == JobInv /\ [Next]_vars => JobInv'
  <1> SUFFICES ASSUME JobInv, [Next]_vars PROVE JobInv'
    OBVIOUS
  <1>1. CASE Quit \/ StopNotify \/ QuitDone
    <2>1. SceneTypeOK'
      BY <1>1 DEF JobInv, Quit, StopNotify, WokenLoader, QuitDone, SceneTypeOK, sceneVars, managerVars, editorVars, jobVars
    <2>2. JobsInOrder' /\ EditorInOrder'
      BY <1>1 DEF JobInv, Quit, StopNotify, WokenLoader, QuitDone, JobsInOrder, EditorInOrder, Waiting, EditorExists,
                  sceneVars, managerVars, editorVars, jobVars
    <2> QED BY <2>1, <2>2 DEF JobInv
  <1>2. CASE UNCHANGED vars
    BY <1>2 DEF JobInv, SceneTypeOK, JobsInOrder, EditorInOrder, Waiting, EditorExists,
                vars, sceneVars, managerVars, editorVars, jobVars
  <1> QED
    BY <1>1, <1>2, JobInvBackground, JobInvFrame, EditorKeeps DEF Next, Frame, Background

-----------------------------------------------------------------------------
(* Every variable keeps its type, for any number of scenes, and whether or *)
(* not game code changes levels while the editor runs.                     *)
THEOREM SceneTyped == Spec => []SceneTypeOK
  <1>1. JobInv => SceneTypeOK
    BY DEF JobInv
  <1> QED BY <1>1, JobInvInit, JobInvNext, PTL DEF Spec

(* SceneManager::UpdateAllScenes: Main never has a scene in myScenes, or   *)
(* as its main scene, that the loader thread is driving.                   *)
THEOREM LoaderOwnership == Spec => []LoaderOwnsScene
  <1>1. JobInv => LoaderOwnsScene
    BY DEF JobInv, JobsInOrder, LoaderOwnsScene
  <1> QED BY <1>1, JobInvInit, JobInvNext, PTL DEF Spec

-----------------------------------------------------------------------------
(* What is shown.  In the editor this takes that no code which runs there  *)
(* changes levels.                                                         *)
EditorLoads ==
    /\ scenes = {} /\ toUpdate = <<>> /\ EditorScene \in enabled
    /\ \/ loadJobs = <<EditorScene>> /\ currentJob = NoScene
       \/ loadJobs = <<>> /\ currentJob = EditorScene

EditorIsThere ==
    /\ loadJobs = <<>> /\ currentJob = NoScene
    /\ EditorScene \in scenes
    /\ IF EditorScene \in enabled THEN mainScene = EditorScene ELSE mainScene \in scenes

EditorShown ==
    /\ nextScene = NoScene
    /\ EditorScene \notin {runtimeHandle, staticHandle}
    /\ ~Ended /\ runtime # NoScene => runtime = runtimeHandle /\ runtime \in scenes
    /\ ~Ended => IF mainScene = NoScene THEN EditorLoads ELSE EditorIsThere

Shown ==
    /\ main # "crashed"
    /\ start = "game" /\ mainScene # NoScene => mainScene \in scenes
    /\ start = "editor" => EditorShown

LevelsInGamesOnly == LevelModes \subseteq {"game"}

LEMMA ShownInit == Init => Shown
  BY NoSceneIsNew DEF Init, Shown, EditorShown, EditorLoads, EditorScene, NoScene

(* A game has no editor, and its main scene comes from myScenes.           *)
LEMMA ShownInGames ==
    ASSUME JobInv, Shown, start = "game", [Next]_vars
    PROVE  Shown'
  <1> USE NoSceneIsNew DEF JobInv, Shown, managerVars, editorVars, jobVars, sceneVars
  <1>1. ~Editor
    BY DEF EditorInOrder, EditorExists, Editor, EditorClone, EditorUpdate, EditorIdle, EditorInput,
           ChangeModePlaying, ChangeModeEditing, OpenScene, ExitEditor, ReturnToEditor
  <1>2. CASE \/ StartFrame \/ UpdateScene \/ UpdateReady \/ Background
             \/ \E h \in Handles : CreateResources(h)
    BY <1>2 DEF StartFrame, UpdateScene, UpdateReady, Background, LoaderBlock, LoaderStart,
           LoaderUpdate, CreateResources
  <1>3. CASE UpdateJobs
    <2>1. start' = start
      BY <1>3 DEF UpdateJobs
    <2> QED BY <1>3, <2>1 DEF UpdateJobs, SetMainScene
  <1>4. CASE SwitchScene
    <2>1. start' = start
      BY <1>4 DEF SwitchScene
    <2>2. CASE NextSceneLoaded
      <3>1. nextScene \in scenes' /\ SetMainScene(nextScene, scenes', "frame") /\ nextScene # NoScene
        BY <1>4, <2>2 DEF SwitchScene, NextSceneLoaded, Kept
      <3> QED BY <2>1, <3>1 DEF SetMainScene
    <2> QED BY <1>4, <2>1, <2>2 DEF SwitchScene
  <1>5. CASE Quit \/ StopNotify \/ QuitDone
    BY <1>5 DEF Quit, StopNotify, WokenLoader, QuitDone, EditorExists
  <1>6. CASE UNCHANGED vars
    BY <1>6 DEF vars
  <1> QED BY <1>1, <1>2, <1>3, <1>4, <1>5, <1>6 DEF Next, Frame, Background

LEMMA NoOrderOfNone == FrameOrder({}) \subseteq {<<>>}
  <1>1. Cardinality({}) = 0
    BY FS_EmptySet
  <1> SUFFICES ASSUME NEW order \in FrameOrder({}) PROVE order = <<>>
    OBVIOUS
  <1>2. order \in Seq(Handles) /\ order \in [1..0 -> {}]
    BY <1>1, FrameOrderType DEF FrameOrder
  <1>3. Len(order) = 0
    BY <1>2
  <1> QED BY <1>2, <1>3

(* While the editor is not there yet, only its own job goes on.            *)
LEMMA ShownWhileLoading ==
    ASSUME JobInv, Shown, start = "editor", LevelsInGamesOnly, mainScene = NoScene, ~Ended, [Next]_vars
    PROVE  Shown'
  <1> USE NoSceneIsNew DEF JobInv, Shown, EditorShown, managerVars, editorVars, jobVars, sceneVars
  <1>1. EditorLoads /\ nextScene = NoScene /\ main \in {"frame", "scenes", "switch"}
    BY DEF EditorLoads, EditorInOrder, SceneTypeOK, Ended
  <1>2. ~Editor
    BY <1>1 DEF EditorLoads, Editor, EditorClone, EditorUpdate, EditorIdle, EditorInput,
           ChangeModePlaying, ChangeModeEditing, OpenScene, ExitEditor, ReturnToEditor
  <1>3. CASE StartFrame
    <2>1. toUpdate' = <<>>
      BY <1>1, <1>3, NoOrderOfNone DEF StartFrame, EditorLoads
    <2> QED BY <1>1, <1>3, <2>1 DEF StartFrame, EditorLoads, Ended
  <1>4. CASE \/ Background \/ \E h \in Handles : CreateResources(h)
    BY <1>1, <1>4 DEF Background, LoaderBlock, LoaderStart, LoaderUpdate, CreateResources, EditorLoads, Ended
  <1>5. ~UpdateScene /\ ~UpdateReady
    BY <1>1 DEF UpdateScene, UpdateReady, EditorLoads
  <1>6. CASE UpdateJobs
    <2>0. UNCHANGED <<enabled, nextScene, toUpdate, start, runtime, runtimeHandle, staticHandle>>
      BY <1>6 DEF UpdateJobs
    <2>1. CASE /\ currentJob = NoScene /\ loadJobs # <<>> /\ loader # "block"
               /\ currentJob' = Head(loadJobs) /\ loadJobs' = Tail(loadJobs)
               /\ loader' = "init" /\ sceneRef' = Head(loadJobs)
               /\ main' = "switch"
               /\ UNCHANGED <<scenes, mainScene>>
      <3>1. loadJobs = <<EditorScene>>
        BY <1>1, <2>1 DEF EditorLoads
      <3>2. currentJob' = EditorScene /\ loadJobs' = <<>>
        BY <2>1, <3>1
      <3> QED BY <1>1, <2>0, <2>1, <3>2 DEF EditorLoads, Ended
    <2>2. CASE /\ currentJob # NoScene /\ JobDone
               /\ scenes' = scenes \cup {currentJob}
               /\ SetMainScene(IF mainScene = NoScene THEN currentJob ELSE NoScene, scenes', "switch")
               /\ currentJob' = JobAfter
               /\ UNCHANGED <<loadJobs, loader, sceneRef>>
      <3>1. currentJob = EditorScene /\ loadJobs = <<>>
        BY <1>1, <2>2 DEF EditorLoads
      <3>2. scenes' = {EditorScene} /\ mainScene' = EditorScene /\ main' = "switch"
        BY <1>1, <2>2, <3>1 DEF EditorLoads, SetMainScene
      <3> QED BY <1>1, <2>0, <2>2, <3>1, <3>2 DEF EditorLoads, EditorIsThere, JobAfter, Ended
    <2>3. CASE /\ main' = "switch" /\ UNCHANGED <<scenes, mainScene, jobVars>>
      BY <1>1, <2>0, <2>3 DEF EditorLoads, Ended
    <2> QED BY <1>6, <2>1, <2>2, <2>3 DEF UpdateJobs
  <1>7. CASE SwitchScene
    BY <1>1, <1>7 DEF SwitchScene, NextSceneLoaded, EditorLoads, Ended
  <1>8. CASE Quit \/ StopNotify \/ QuitDone
    BY <1>1, <1>8 DEF Quit, StopNotify, WokenLoader, QuitDone, Ended
  <1>9. CASE UNCHANGED vars
    BY <1>1, <1>9 DEF vars, EditorLoads, Ended
  <1> QED
    BY <1>2, <1>3, <1>4, <1>5, <1>6, <1>7, <1>8, <1>9 DEF Next, Frame, Background

(* Once it is there, the editor never loses its scene: what it removes are *)
(* the scenes that it plays and edits, and what it shows instead of itself *)
(* is the runtime scene.                                                   *)
LEMMA ShownByEditor ==
    ASSUME JobInv, Shown, start = "editor", mainScene # NoScene, ~Ended, Editor
    PROVE  Shown'
  <1> USE NoSceneIsNew DEF JobInv, Shown, EditorShown, managerVars, editorVars, jobVars, sceneVars
  <1>1. /\ EditorIsThere /\ nextScene = NoScene
        /\ main \in {"editor", "input"} => mainScene = EditorScene /\ EditorScene \in enabled
        /\ handleCounter # EditorScene /\ NoScene # EditorScene
    BY DEF EditorIsThere, EditorInOrder, JobsInOrder, EditorScene
  <1>2. CASE EditorClone
    <2>1. /\ scenes' = (scenes \ {staticHandle, runtimeHandle}) \cup {handleCounter}
          /\ enabled' = (enabled \ {}) \cup {handleCounter}
          /\ runtime' = NoScene /\ staticHandle' = handleCounter /\ main' = "input"
          /\ UNCHANGED <<mainScene, nextScene, loadJobs, currentJob, start, runtimeHandle>>
          /\ main = "editor"
      BY <1>2 DEF EditorClone, AddScene
    <2> QED BY <1>1, <2>1 DEF EditorIsThere, Ended
  <1>3. CASE EditorUpdate \/ EditorIdle
    <2>1. /\ UNCHANGED <<scenes, enabled, mainScene, nextScene, loadJobs, currentJob, start, runtime,
                         runtimeHandle, staticHandle>>
          /\ main' \in {"input", "scenes"}
      BY <1>3 DEF EditorUpdate, EditorIdle, EditorInput
    <2> QED BY <1>1, <2>1 DEF EditorIsThere, Ended
  <1>4. CASE ChangeModePlaying
    <2>1. /\ UNCHANGED <<mainScene, nextScene, loadJobs, currentJob, start, staticHandle>>
          /\ main = "input" /\ main' = "scenes"
      BY <1>4 DEF ChangeModePlaying, EditorInput
    <2>2. CASE Play({})
      <3>1. /\ scenes' = (scenes \ {}) \cup {handleCounter}
            /\ enabled' = (enabled \ {}) \cup {handleCounter}
            /\ runtime' = handleCounter /\ runtimeHandle' = handleCounter
        BY <2>2 DEF Play, AddScene
      <3> QED BY <1>1, <2>1, <3>1 DEF EditorIsThere, Ended
    <2>3. CASE UNCHANGED <<sceneVars, scenes, handleCounter, playing, runtime, runtimeHandle>>
      BY <1>1, <2>1, <2>3 DEF EditorIsThere, Ended
    <2> QED BY <1>4, <2>2, <2>3 DEF ChangeModePlaying
  <1>5. CASE ChangeModeEditing
    <2>1. /\ UNCHANGED <<enabled, mainScene, nextScene, loadJobs, currentJob, start, runtimeHandle,
                         staticHandle>>
          /\ runtime' = NoScene /\ scenes' = scenes \ {runtimeHandle}
          /\ main = "input" /\ main' = "scenes"
      BY <1>5 DEF ChangeModeEditing, EditorInput, RemoveScene
    <2> QED BY <1>1, <2>1 DEF EditorIsThere, Ended
  <1>6. CASE OpenScene
    <2> DEFINE removed == IF playing THEN {runtimeHandle} ELSE {}
    <2>1. /\ scenes' = (scenes \ removed) \cup {handleCounter}
          /\ enabled' = (enabled \ {}) \cup {handleCounter}
          /\ runtime' = handleCounter /\ runtimeHandle' = handleCounter
          /\ UNCHANGED <<mainScene, nextScene, loadJobs, currentJob, start, staticHandle>>
          /\ main = "input" /\ main' = "scenes"
      BY <1>6 DEF OpenScene, EditorInput, AddScene
    <2>2. EditorScene \notin removed
      OBVIOUS
    <2> HIDE DEF removed
    <2> QED BY <1>1, <2>1, <2>2 DEF EditorIsThere, Ended
  <1>7. CASE ExitEditor
    <2>1. /\ UNCHANGED <<nextScene, loadJobs, currentJob, start, staticHandle>>
          /\ SetMainScene(runtimeHandle', scenes', "scenes")
          /\ main = "input"
      BY <1>7 DEF ExitEditor, EditorInput
    <2>2. /\ runtimeHandle' \in scenes' /\ runtimeHandle' \in Handles \ {EditorScene}
          /\ EditorScene \in scenes' /\ EditorScene \notin enabled'
          /\ runtime' = runtimeHandle'
      <3>1. CASE runtime = NoScene /\ Play({EditorScene, editing})
        <4>1. /\ scenes' = (scenes \ {}) \cup {handleCounter}
              /\ enabled' = (enabled \ {EditorScene, editing}) \cup {handleCounter}
              /\ runtime' = handleCounter /\ runtimeHandle' = handleCounter
              /\ handleCounter < MaxHandles
          BY <3>1 DEF Play, AddScene
        <4>2. handleCounter \in Handles
          BY <4>1, SceneAssumption DEF SceneTypeOK, Handles
        <4> QED BY <1>1, <4>1, <4>2 DEF EditorIsThere
      <3>2. CASE /\ runtime # NoScene
                 /\ enabled' = enabled \ {EditorScene, editing}
                 /\ UNCHANGED <<stage, resources, static, scenes, handleCounter,
                                runtime, runtimeHandle, playing>>
        BY <1>1, <3>2 DEF EditorIsThere, SceneTypeOK
      <3> QED BY <1>7, <3>1, <3>2 DEF ExitEditor
    <2>3. mainScene' = runtimeHandle' /\ main' = "scenes"
      BY <2>1, <2>2 DEF SetMainScene
    <2> QED BY <1>1, <2>1, <2>2, <2>3 DEF EditorIsThere, Ended
  <1>8. CASE ReturnToEditor
    <2>1. mainScene' = EditorScene /\ main' = "frame"
      BY <1>1, <1>8 DEF ReturnToEditor, SetMainScene, EditorIsThere
    <2> QED BY <1>1, <1>8, <2>1 DEF ReturnToEditor, EditorIsThere, Ended
  <1> QED BY <1>2, <1>3, <1>4, <1>5, <1>6, <1>7, <1>8 DEF Editor

LEMMA ShownWithEditor ==
    ASSUME JobInv, Shown, start = "editor", LevelsInGamesOnly, mainScene # NoScene, ~Ended, [Next]_vars
    PROVE  Shown'
  <1> USE NoSceneIsNew DEF JobInv, Shown, EditorShown, managerVars, editorVars, jobVars, sceneVars
  <1>1. EditorIsThere /\ nextScene = NoScene
    OBVIOUS
  <1>2. CASE StartFrame \/ UpdateScene
    BY <1>1, <1>2 DEF StartFrame, UpdateScene, EditorIsThere, Ended
  <1>3. CASE UpdateReady
    <2>1. ~ChangeLevel
      BY DEF ChangeLevel, LevelsInGamesOnly
    <2> QED BY <1>1, <1>3, <2>1 DEF UpdateReady, EditorIsThere, Ended
  <1>4. CASE \/ Background \/ \E h \in Handles : CreateResources(h)
    BY <1>1, <1>4 DEF Background, LoaderBlock, LoaderStart, LoaderUpdate, CreateResources, EditorIsThere, Ended
  <1>5. CASE UpdateJobs
    BY <1>1, <1>5 DEF UpdateJobs, EditorIsThere, Ended
  <1>6. CASE SwitchScene
    BY <1>1, <1>6 DEF SwitchScene, NextSceneLoaded, EditorIsThere, Ended
  <1>7. CASE Quit \/ StopNotify \/ QuitDone
    BY <1>1, <1>7 DEF Quit, StopNotify, WokenLoader, QuitDone, Ended
  <1>8. CASE UNCHANGED vars
    BY <1>1, <1>8 DEF vars, EditorIsThere, Ended
  <1> QED
    BY <1>2, <1>3, <1>4, <1>5, <1>6, <1>7, <1>8, ShownByEditor DEF Next, Frame, Background

LEMMA ShownAtTheEnd ==
    ASSUME Shown, start = "editor", Ended, [Next]_vars
    PROVE  Shown'
  <1> USE DEF Shown, EditorShown, managerVars, editorVars, jobVars, sceneVars, Ended
  <1>1. main \in {"stop", "join", "gone"}
    OBVIOUS
  <1>2. ~Frame /\ ~Quit
    BY <1>1 DEF Frame, Quit, StartFrame, UpdateScene, UpdateReady, UpdateJobs, SwitchScene, Editor,
           EditorClone, EditorUpdate, EditorIdle, EditorInput, ChangeModePlaying, ChangeModeEditing,
           OpenScene, ExitEditor, ReturnToEditor
  <1>3. CASE Background \/ StopNotify \/ QuitDone \/ \E h \in Handles : CreateResources(h)
    BY <1>1, <1>3 DEF Background, LoaderBlock, LoaderStart, LoaderUpdate, StopNotify, QuitDone,
           CreateResources
  <1>4. CASE UNCHANGED vars
    BY <1>1, <1>4 DEF vars
  <1> QED BY <1>2, <1>3, <1>4 DEF Next

LEMMA ShownNext == LevelsInGamesOnly /\ JobInv /\ Shown /\ [Next]_vars => Shown'
  <1> SUFFICES ASSUME LevelsInGamesOnly, JobInv, Shown, [Next]_vars PROVE Shown'
    OBVIOUS
  <1>1. start \in {"game", "editor"}
    BY SceneAssumption DEF JobInv, SceneTypeOK
  <1> QED BY <1>1, ShownInGames, ShownWhileLoading, ShownWithEditor, ShownAtTheEnd

-----------------------------------------------------------------------------
(* Engine::Update, SceneManager::Render and Editor: as long as the program *)
(* runs, the main scene is one of the scenes in myScenes, if no game code  *)
(* that runs in the editor changes levels.                                 *)
THEOREM MainStaysPresent == LevelsInGamesOnly => (Spec => []MainIsPresent)
  <1> SUFFICES ASSUME LevelsInGamesOnly PROVE Spec => []MainIsPresent
    OBVIOUS
  <1>1. JobInv /\ Shown => MainIsPresent
    BY SceneAssumption DEF JobInv, SceneTypeOK, Shown, EditorShown, EditorIsThere, MainIsPresent
  <1>2. JobInv /\ Shown /\ [Next]_vars => Shown'
    BY ShownNext
  <1> QED BY <1>1, <1>2, JobInvInit, JobInvNext, ShownInit, PTL DEF Spec

(* SceneManager::SetMainScene is only called with the handle of a scene in *)
(* myScenes, under the same condition.                                     *)
THEOREM OnlyKnownHandles == LevelsInGamesOnly => (Spec => []HandlesAreKnown)
  <1> SUFFICES ASSUME LevelsInGamesOnly PROVE Spec => []HandlesAreKnown
    OBVIOUS
  <1>1. Shown => HandlesAreKnown
    BY DEF Shown, HandlesAreKnown
  <1>2. JobInv /\ Shown /\ [Next]_vars => Shown'
    BY ShownNext
  <1> QED BY <1>1, <1>2, JobInvInit, JobInvNext, ShownInit, PTL DEF Spec
=============================================================================
