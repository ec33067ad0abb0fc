---------------------------- MODULE MCGameObjects ----------------------------
(* A loaded scene with an object p, its child k and a singleton s, and a    *)
(* prefab q that gets cloned.  p has two components and may get a third.    *)
EXTENDS GameObjects

CONSTANTS p, k, q, s, p1, p2, p3, k1, q1

MCObjects == {p, k, q, s}
MCComponents == {p1, p2, p3, k1, q1}
MCTypeOf == [c \in MCComponents |-> IF c \in {p1, k1} THEN 1 ELSE 2]
MCOwnerOf == [c \in MCComponents |->
    CASE c \in {p1, p2, p3} -> p [] c = k1 -> k [] OTHER -> q]
MCKids == [g \in MCObjects |-> IF g = p THEN <<k>> ELSE <<>>]
MCLoaded == <<p, s>>
MCSingletons == <<s>>
MCMayBeOff == {p, p2}
MCPrefab == [g \in MCObjects |->
    CASE g = p -> <<p1, p2>> [] g = k -> <<k1>> [] g = q -> <<q1>> [] OTHER -> <<>>]
=============================================================================
