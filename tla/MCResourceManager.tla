------------------------- MODULE MCResourceManager --------------------------
(* Small instances of ResourceManager.  A material p has the texture c as   *)
(* its child and loads the shader q in its Create.  Types order the queues: *)
(* materials come before textures, and textures before shaders.             *)
EXTENDS ResourceManager, TLC

CONSTANTS p, c, q, l1, l2

MCResources == {p, c, q}
MCTypeOf == (p :> 1 @@ c :> 2 @@ q :> 3)
Nothing == [r \in MCResources |-> <<>>]
ChildOfP == [Nothing EXCEPT ![p] = <<c>>]
NeedOfP == [Nothing EXCEPT ![p] = <<q>>]

Setup(uses, threads, stops) == [uses |-> uses, threads |-> threads, stops |-> stops]

(* Main requests two resources that name no other; two loaders.            *)
Independent == Setup({Main} \X {"Request"} \X {c, q}, {Main, l1, l2}, FALSE)

(* Main requests what no list of children names; one loader.               *)
Families == Setup({Main} \X {"Request"} \X {p, q}, {Main, l1}, TRUE)

Requesting == {Independent, Families}

(* Main alone requests, loads and unloads one shader.                      *)
MainReloads == {Setup({Main} \X {"Request", "Load", "Unload"} \X {q}, {Main, l1}, FALSE)}

(* Main requests a shader that a thread which loads a scene loads at once.  *)
OpenedMeanwhile ==
    {Setup({<<Main, "Request", q>>} \cup (Others \X {"LoadNow"} \X {q}),
           {Main, l1} \cup Others, FALSE)}

(* Main requests only the material; the loaders request its texture.       *)
MainRequestsP == {Setup({<<Main, "Request", p>>}, {Main, l1, l2}, FALSE)}
=============================================================================
