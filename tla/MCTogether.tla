----------------------------- MODULE MCTogether ------------------------------
(* Three components that do not meet: each behaviour is one of the enemies  *)
(* of a level, the commands of the editor, and the resources of a program   *)
(* that loads and unloads some of what it requests, named by part, while    *)
(* the variables of the others keep their initial values.                   *)
EXTENDS Enemies, EditorCommands, TLC

CONSTANTS
    a, b, p, c, Main, Loaders, Opener, MaxUnloads

VARIABLES
    part,
    setup, state, result, payload, shared, toLoad, loaded, toRemove, allLoaded,
    running, calls, lpc, mpc, pruneLeft, publishing, unloads

(* A scene file with two objects: b is below a and has a component.         *)
SceneParents == (a :> NoParent) @@ (b :> a)

(* A material p has the texture c as its child.  Main loads the material at *)
(* once and unloads it, while Opener, which loads a scene, requests it.     *)
NoResources == [r \in {p, c} |-> <<>>]
Mixed ==
    [uses |-> ({Main} \X {"LoadNow", "Unload"} \X {p}) \cup {<<Opener, "Request", p>>},
     threads |-> {Main, Opener, CHOOSE l \in Loaders : TRUE},
     stops |-> FALSE]

Resource == INSTANCE ResourceManager
    WITH Resources <- {p, c}, Others <- {Opener}, Types <- 1..2,
         TypeOf <- (p :> 1 @@ c :> 2), Setups <- {Mixed},
         Needs <- NoResources, Kids <- [NoResources EXCEPT ![p] = <<c>>]

resourceVars == <<setup, state, result, payload, shared, toLoad, loaded, toRemove, allLoaded,
                  running, calls, lpc, mpc, pruneLeft, publishing, unloads>>

TogetherInit ==
    /\ part \in {"enemies", "editor", "resources"}
    /\ EnemiesInit /\ Init /\ Resource!Init

TogetherNext ==
    /\ UNCHANGED part
    /\ IF part = "enemies" THEN EnemiesNext ELSE UNCHANGED enemiesVars
    /\ IF part = "editor" THEN Next ELSE UNCHANGED vars
    /\ IF part = "resources" THEN Resource!Next ELSE UNCHANGED resourceVars

(* The fairness of EnemiesSpec, in the behaviours that are its own.         *)
TogetherSpec ==
    /\ TogetherInit /\ [][TogetherNext]_<<part, enemiesVars, vars, resourceVars>>
    /\ WF_enemiesVars(part = "enemies" /\ Frame)

-----------------------------------------------------------------------------
(* The variables of all three components have their types.                 *)
TogetherTypeOK == EnemiesTypeOK /\ TypeOK /\ Resource!TypeOK

(* What the render thread is told to be valid has its payload, however      *)
(* Main's loads and unloads meet the loader that loads the same texture     *)
(* and the transfer that publishes it.                                      *)
ValidHasPayload == Resource!ValidHasPayload
=============================================================================
