---------------------------- MODULE EditorCommands ----------------------------
(***************************************************************************)
(* Engine/Editor/Command: what a user does to the edited scene, as         *)
(* commands that can be undone and redone.  Every action is the handling   *)
(* of one input in a frame of the main thread.                             *)
(*                                                                         *)
(* A game object has at most one component here, so a component is named   *)
(* by its object.  The two lists of the GameObjectManager, of objects that *)
(* are in the scene and that join it in the next frame, are one: a command *)
(* adds an object to the second without looking for it, and erases one     *)
(* entry from the first list that has it.  Dragging an object onto another *)
(* is no command and is left out; gizmos push a command that does nothing. *)
(***************************************************************************)
EXTENDS Naturals, FiniteSets, SequenceParts

CONSTANTS
    Objects,        \* all game objects: those of the scene file and spare ones
    InScene,        \* those of the scene file
    Carrying,       \* those of them that have a component
    ParentOf,       \* the parents of the scene file
    NoParent,
    MayReselect,    \* does the user ctrl-click what is selected already?
    MaxCommands     \* bound: how many commands the user gives

(* What a scene file holds                                                 *)
ASSUME SceneFileAssumption ==
    /\ IsFiniteSet(Objects) /\ NoParent \notin Objects
    /\ Carrying \subseteq InScene /\ InScene \subseteq Objects
    /\ ParentOf \in [InScene -> InScene \cup {NoParent}]
    /\ MaxCommands \in Nat

VARIABLES
    scene,      \* the edited scene: how many entries its manager has for each
                \* object and its component system for the component of each,
                \* which objects have their component, the transform
                \* hierarchy, and the selection
    undoStack, redoStack,   \* sequences of composites: sequences of commands
    toCopy,     \* myGameObjectsToCopy
    made,       \* objects that exist or existed
    commands,   \* how many commands were made
    past, future    \* the documents that undo and redo should bring back

vars == <<scene, undoStack, redoStack, toCopy, made, commands, past, future>>

(* The part of the scene that commands are there to change and to restore  *)
Document == [entries |-> scene.entries, handled |-> scene.handled,
             selection |-> scene.selection]

ObjectsInScene == {o \in Objects : scene.entries[o] > 0}

FirstScene ==
    LET once(S) == [o \in Objects |-> IF o \in S THEN 1 ELSE 0]
    IN  [entries |-> once(InScene), handled |-> once(Carrying), carried |-> Carrying,
         parent |-> [o \in Objects |-> IF o \in InScene THEN ParentOf[o] ELSE NoParent],
         selection |-> <<>>]

Init ==
    /\ scene = FirstScene
    /\ undoStack = <<>> /\ redoStack = <<>>
    /\ toCopy = <<>>
    /\ made = InScene /\ commands = 0
    /\ past = <<>> /\ future = <<>>

-----------------------------------------------------------------------------
(* An object with all its descendants                                      *)
Subtree(st, o) ==
    LET within[n \in 0..Cardinality(Objects)] ==
            IF n = 0 THEN {o}
            ELSE within[n - 1] \cup {x \in Objects : st.parent[x] \in within[n - 1]}
    IN  within[Cardinality(Objects)]

Increase(count, S) == [o \in Objects |-> IF o \in S THEN count[o] + 1 ELSE count[o]]
Decrease(count, S) ==
    [o \in Objects |-> IF o \in S /\ count[o] > 0 THEN count[o] - 1 ELSE count[o]]

(* Objects join or leave the lists of the scene with their components.     *)
Enter(st, S) ==
    [st EXCEPT !.entries = Increase(@, S), !.handled = Increase(@, S \cap st.carried)]
Leave(st, S) ==
    [st EXCEPT !.entries = Decrease(@, S), !.handled = Decrease(@, S \cap st.carried)]

Attach(st, o) == [st EXCEPT !.carried = @ \cup {o}, !.handled = Increase(@, {o})]
Detach(st, o) == [st EXCEPT !.carried = @ \ {o}, !.handled = Decrease(@, {o})]

(* Below, a definition whose name ends in Bug is the next one with a       *)
(* plausible mistake in it; no specification uses it.                      *)
ReAddBug(st, o) == Enter(st, {o})
ReAdd(st, o) == Enter(st, Subtree(st, o))

(* Do and Undo of each kind of command.  AddGameObjectCommand keeps the    *)
(* descendants that its object had when the command was made;              *)
(* RemoveGameObjectCommand looks for those it has now.                     *)
DoOne(st, c) ==
    CASE c.kind = "add" -> Enter(st, c.objects)
      [] c.kind = "remove" -> Leave(st, Subtree(st, c.object))
      [] c.kind = "addComponent" -> Attach(st, c.object)
      [] c.kind = "removeComponent" -> Detach(st, c.object)
      [] c.kind = "select" -> [st EXCEPT !.selection = c.new]

UndoOne(st, c) ==
    CASE c.kind = "add" -> Leave(st, c.objects)
      [] c.kind = "remove" -> ReAdd(st, c.object)
      [] c.kind = "addComponent" -> Detach(st, c.object)
      [] c.kind = "removeComponent" -> Attach(st, c.object)
      [] c.kind = "select" -> [st EXCEPT !.selection = c.previous]

(* A composite goes forward through its commands, to undo them too.        *)
Do(st, composite) ==
    LET after[i \in 0..Len(composite)] ==
            IF i = 0 THEN st ELSE DoOne(after[i - 1], composite[i])
    IN  after[Len(composite)]

UndoAll(st, composite) ==
    LET after[i \in 0..Len(composite)] ==
            IF i = 0 THEN st ELSE UndoOne(after[i - 1], composite[i])
    IN  after[Len(composite)]

(* SetSelectionGameObjectsCommand::Do notes what was selected before.      *)
Remember(composite) ==
    [i \in DOMAIN composite |->
        IF composite[i].kind = "select"
        THEN [composite[i] EXCEPT !.previous = scene.selection] ELSE composite[i]]

AddGameObject(S) == [kind |-> "add", objects |-> S]
RemoveGameObject(o) == [kind |-> "remove", object |-> o]
SelectGameObjects(s) == [kind |-> "select", new |-> s, previous |-> <<>>]

-----------------------------------------------------------------------------
(* EditorCommandManager::DoCommand, on a scene that the caller may have    *)
(* changed by hand before                                                  *)
DoCommand(st, composite) ==
    /\ commands < MaxCommands /\ commands' = commands + 1
    /\ scene' = Do(st, composite)
    /\ undoStack' = Append(undoStack, Remember(composite))
    /\ redoStack' = <<>>
    /\ past' = Append(past, Document) /\ future' = <<>>

Undo ==
    /\ undoStack # <<>>
    /\ scene' = UndoAll(scene, Last(undoStack))
    /\ undoStack' = Front(undoStack)
    /\ redoStack' = Append(redoStack, Last(undoStack))
    /\ past' = Front(past) /\ future' = Append(future, Document)
    /\ UNCHANGED <<toCopy, made, commands>>

Redo ==
    /\ redoStack # <<>>
    /\ scene' = Do(scene, Last(redoStack))
    /\ redoStack' = Front(redoStack)
    /\ undoStack' = Append(undoStack, Remember(Last(redoStack)))
    /\ future' = Front(future) /\ past' = Append(past, Document)
    /\ UNCHANGED <<toCopy, made, commands>>

-----------------------------------------------------------------------------
(* A click on an object or on nothing, and a ctrl-click                    *)
Select(s) ==
    /\ DoCommand(scene, <<SelectGameObjects(s)>>)
    /\ UNCHANGED <<toCopy, made>>

SelectClicked == Select(<<>>) \/ \E o \in ObjectsInScene : Select(<<o>>)

SelectAppend ==
    \E o \in ObjectsInScene :
        /\ MayReselect \/ o \notin ToSet(scene.selection)
        /\ Select(Append(scene.selection, o))

(* "Create new gameobject".  Which spare object it is does not matter.     *)
CreateNew ==
    LET o == CHOOSE x \in Objects : x \notin made
    IN  /\ Objects # made
        /\ made' = made \cup {o}
        /\ DoCommand(scene, <<AddGameObject({o}), SelectGameObjects(<<o>>)>>)
        /\ UNCHANGED toCopy

DeselectedBug(selection, gone) == selection
Deselected(selection, gone) == Only(selection, Objects \ ToSet(gone))

(* The selected objects lose their parents before the commands are made,   *)
(* and an object that is selected twice is removed twice.                  *)
DeleteSelection ==
    LET gone == scene.selection
        rooted == [scene EXCEPT !.parent =
                     [o \in Objects |-> IF o \in ToSet(gone) THEN NoParent ELSE @[o]]]
        removals == [i \in DOMAIN gone |-> RemoveGameObject(gone[i])]
    IN  /\ DoCommand(rooted, Append(removals, SelectGameObjects(Deselected(gone, gone))))
        /\ UNCHANGED <<toCopy, made>>

CopySelection ==
    /\ toCopy' = scene.selection
    /\ UNCHANGED <<scene, undoStack, redoStack, made, commands, past, future>>

(* Copied objects are weak references: who still owns the object?          *)
Owned(o) ==
    \/ scene.entries[o] > 0
    \/ \E i \in DOMAIN undoStack : \E c \in ToSet(undoStack[i]) :
          c.kind = "remove" /\ o \in Subtree(scene, c.object)
    \/ \E i \in DOMAIN redoStack : \E c \in ToSet(redoStack[i]) :
          c.kind = "add" /\ o \in c.objects

(* PasteCopied clones every copied object, with its descendants and their  *)
(* components but without its parent.  A clone enters the scene, leaves it *)
(* again and enters it with the command.                                   *)
PasteCopied ==
    LET copied == Only(toCopy, {o \in Objects : Owned(o)})
        originals == UNION {{i} \X Subtree(scene, copied[i]) : i \in DOMAIN copied}
        clone == CHOOSE f \in [originals -> Objects \ made] : IsInjective(f)
        clones(i) == {clone[x] : x \in {y \in originals : y[1] = i}}
        original(o) == CHOOSE x \in originals : clone[x] = o
        cloned == Range(clone)
        withClones ==
            [scene EXCEPT
                !.carried = @ \cup {o \in cloned : original(o)[2] \in @},
                !.parent = [o \in Objects |->
                    IF o \in cloned /\ original(o)[2] # copied[original(o)[1]]
                    THEN clone[<<original(o)[1], @[original(o)[2]]>>] ELSE @[o]]]
        roots == [i \in DOMAIN copied |-> clone[<<i, copied[i]>>]]
        adds == [i \in DOMAIN copied |-> AddGameObject(clones(i))]
    IN  /\ Cardinality(originals) <= Cardinality(Objects \ made)
        /\ made' = made \cup cloned
        /\ DoCommand(withClones, Append(adds, SelectGameObjects(roots)))
        /\ UNCHANGED toCopy

(* The inspector shows the components of a single selected object.         *)
EditComponent ==
    /\ Len(scene.selection) = 1
    /\ LET o == Head(scene.selection)
            kind == IF o \in scene.carried THEN "removeComponent" ELSE "addComponent"
       IN  DoCommand(scene, <<[kind |-> kind, object |-> o]>>)
    /\ UNCHANGED <<toCopy, made>>

-----------------------------------------------------------------------------
Next ==
    \/ Undo \/ Redo
    \/ SelectClicked \/ SelectAppend \/ CreateNew \/ DeleteSelection
    \/ CopySelection \/ PasteCopied \/ EditComponent

Spec == Init /\ [][Next]_vars

-----------------------------------------------------------------------------
TypeOK ==
    /\ DOMAIN scene = {"entries", "handled", "carried", "parent", "selection"}
    /\ scene.entries \in [Objects -> Nat] /\ scene.handled \in [Objects -> Nat]
    /\ scene.carried \subseteq made /\ made \subseteq Objects
    /\ scene.parent \in [Objects -> Objects \cup {NoParent}]
    /\ scene.selection \in Seq(made) /\ toCopy \in Seq(made)
    /\ commands \in 0..MaxCommands
    /\ Len(past) = Len(undoStack) /\ Len(future) = Len(redoStack)

(* DeleteSelection and the redo of a deletion use the selected objects     *)
(* before they look whether they are still there: whatever was undone, a   *)
(* selected object is in the scene.                                        *)
SelectedAreInScene == ToSet(scene.selection) \subseteq ObjectsInScene

(* The commands implement an undo history of the document: Undo and Redo   *)
(* bring back every object, every component and the selection exactly as   *)
(* they were, however commands, undos and redos follow each other.         *)
History == INSTANCE UndoHistory
    WITH First <- [entries |-> FirstScene.entries, handled |-> FirstScene.handled,
                   selection |-> <<>>],
         doc <- Document
ImplementsHistory == History!Spec

(* A composite acts as one command (EditorCommandComposite says: "we want  *)
(* that in ONE undo"): what it removed or added once, its undo adds or     *)
(* removes once, so that an object is in the lists of the scene at most    *)
(* once, and its component at most once among those that run in a frame.   *)
NothingTwice ==
    \A o \in Objects : scene.entries[o] <= 1 /\ scene.handled[o] <= scene.entries[o]
=============================================================================
