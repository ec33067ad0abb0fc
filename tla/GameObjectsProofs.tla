-------------------------- MODULE GameObjectsProofs --------------------------
(***************************************************************************)
(* For any forest of objects with any components, and any calls that code  *)
(* of the game makes from its callbacks: the variables keep their types,   *)
(* no object begins twice, the objects and the handlers agree on which     *)
(* components there are, no call is in progress on anything freed, and the *)
(* loops that erase by index erase just what is destroyed.                 *)
(***************************************************************************)
EXTENDS GameObjects, SequenceProofs, FiniteSetTheorems

-----------------------------------------------------------------------------
(* Tree is defined by recursion over the forest: each step down lowers the *)
(* rank, which bounds the depth.                                           *)
Ranks(rank) ==
    /\ rank \in [Objects -> 0..Cardinality(Objects)]
    /\ \A g \in Objects : \A k \in ToSet(Kids[g]) : rank[k] < rank[g]

(* The trees below the children of g, where F has the tree of each object  *)
Below(F, g) == [i \in 1..Len(Kids[g]) |-> F[Kids[g][i]]]

LEMMA KidsAre ==
    ASSUME NEW g \in Objects
    PROVE  /\ Kids[g] \in Seq(Objects) /\ Len(Kids[g]) \in Nat
           /\ ToSet(Kids[g]) \subseteq Objects
           /\ \A i \in 1..Len(Kids[g]) : Kids[g][i] \in ToSet(Kids[g])
           /\ \A k \in ToSet(Kids[g]) : \E i \in 1..Len(Kids[g]) : Kids[g][i] = k
  <1>1. Kids[g] \in Seq(Objects)
    BY ObjectAssumption
  <1> QED BY <1>1, ToSetIs

LEMMA BelowTyped ==
    ASSUME NEW F, NEW g \in Objects, \A k \in ToSet(Kids[g]) : F[k] \in Seq(Objects)
    PROVE  /\ Below(F, g) \in Seq(Seq(Objects)) /\ Len(Below(F, g)) = Len(Kids[g])
           /\ \A i \in 1..Len(Kids[g]) : Below(F, g)[i] = F[Kids[g][i]]
           /\ FlattenSeq(Below(F, g)) \in Seq(Objects)
           /\ <<g>> \o FlattenSeq(Below(F, g)) \in Seq(Objects)
  <1>1. \A i \in 1..Len(Kids[g]) : F[Kids[g][i]] \in Seq(Objects)
    BY KidsAre
  <1>2. /\ Below(F, g) \in Seq(Seq(Objects)) /\ Len(Below(F, g)) = Len(Kids[g])
        /\ \A i \in 1..Len(Kids[g]) : Below(F, g)[i] = F[Kids[g][i]]
    BY <1>1, KidsAre DEF Below
  <1>3. FlattenSeq(Below(F, g)) \in Seq(Objects)
    BY <1>2, FlattenIs
  <1>4. \A t \in Seq(Objects) : <<g>> \o t \in Seq(Objects)
    OBVIOUS
  <1> QED BY <1>2, <1>3, <1>4

(* What holds of an object when it holds of its children holds of all.      *)
LEMMA ForestInduction ==
    ASSUME NEW P, \A g \in Objects : ToSet(Kids[g]) \subseteq P => g \in P
    PROVE  Objects \subseteq P
  <1>1. PICK rank : Ranks(rank)
    BY ForestAssumption DEF Ranks
  <1>2. Cardinality(Objects) \in Nat /\ \A g \in Objects : rank[g] \in 0..Cardinality(Objects)
    BY <1>1, ObjectAssumption, FS_CardinalityType DEF Ranks
  <1> DEFINE S == {n \in Nat : \A g \in Objects : rank[g] < n => g \in P}
  <1>3. 0 \in S
    BY <1>2
  <1>4. ASSUME NEW n \in Nat, n \in S
        PROVE  n + 1 \in S
    <2>1. ASSUME NEW g \in Objects, rank[g] < n + 1
          PROVE  g \in P
      <3>1. ASSUME NEW k \in ToSet(Kids[g])
            PROVE  k \in P
        <4>1. k \in Objects /\ rank[k] < rank[g]
          BY KidsAre, <1>1 DEF Ranks
        <4>2. rank[k] < n
          BY <4>1, <1>2, <2>1
        <4> QED BY <4>1, <4>2, <1>4
      <3> QED BY <3>1
    <2> QED BY <2>1
  <1>5. Nat \subseteq S
    <2>1. \A n \in Nat : n \in S => n + 1 \in S
      BY <1>4
    <2> HIDE DEF S
    <2> QED BY <1>3, <2>1, SetInduction
  <1>6. Cardinality(Objects) + 1 \in S
    BY <1>5, <1>2
  <1>7. \A g \in Objects : rank[g] < Cardinality(Objects) + 1
    BY <1>2
  <1> QED BY <1>6, <1>7

LEMMA TreeIs ==
    /\ Tree \in [Objects -> Seq(Objects)]
    /\ \A g \in Objects : Tree[g] = <<g>> \o FlattenSeq(Below(Tree, g))
  <1>1. PICK rank : Ranks(rank)
    BY ForestAssumption DEF Ranks
  <1> DEFINE Grown(F) == [g \in Objects |-> <<g>> \o FlattenSeq(Below(F, g))]
             Good(F, n) == \A g \in Objects : rank[g] < n => F[g] = Grown(F)[g]
             S == {n \in Nat : \E F \in [Objects -> Seq(Objects)] : Good(F, n)}
             T == CHOOSE F : F = Grown(F)
  <1>2. Cardinality(Objects) \in Nat /\ \A g \in Objects : rank[g] \in 0..Cardinality(Objects)
    BY <1>1, ObjectAssumption, FS_CardinalityType DEF Ranks
  <1>3. ASSUME NEW F \in [Objects -> Seq(Objects)]
        PROVE  Grown(F) \in [Objects -> Seq(Objects)]
    <2>1. ASSUME NEW g \in Objects
          PROVE  <<g>> \o FlattenSeq(Below(F, g)) \in Seq(Objects)
      BY KidsAre, BelowTyped
    <2> QED BY <2>1
  <1>4. 0 \in S
    <2>1. \A g \in Objects : ~(rank[g] < 0)
      BY <1>2
    <2>2. [g \in Objects |-> <<>>] \in [Objects -> Seq(Objects)]
      OBVIOUS
    <2> QED BY <2>1, <2>2
  <1>5. ASSUME NEW n \in Nat, n \in S
        PROVE  n + 1 \in S
    <2>1. PICK F \in [Objects -> Seq(Objects)] : Good(F, n)
      BY <1>5
    <2>2. ASSUME NEW g \in Objects, rank[g] < n + 1
          PROVE  Grown(F)[g] = Grown(Grown(F))[g]
      <3>1. ASSUME NEW i \in 1..Len(Kids[g])
            PROVE  F[Kids[g][i]] = Grown(F)[Kids[g][i]]
        <4>1. Kids[g][i] \in Objects /\ rank[Kids[g][i]] < rank[g]
          BY KidsAre, <1>1 DEF Ranks
        <4>2. rank[Kids[g][i]] < n
          BY <4>1, <1>2, <2>2
        <4> QED BY <4>1, <4>2, <2>1
      <3>2. Below(F, g) = Below(Grown(F), g)
        BY <3>1 DEF Below
      <3> QED BY <3>2
    <2>3. Grown(F) \in [Objects -> Seq(Objects)] /\ Good(Grown(F), n + 1)
      BY <2>2, <1>3
    <2> HIDE DEF Good, Grown
    <2>4. n + 1 \in Nat /\ \E H \in [Objects -> Seq(Objects)] : Good(H, n + 1)
      BY <2>3
    <2> QED BY <2>4
  <1>6. Cardinality(Objects) + 1 \in S
    <2>1. \A n \in Nat : n \in S => n + 1 \in S
      BY <1>5
    <2> HIDE DEF S
    <2>2. Nat \subseteq S
      BY <1>4, <2>1, SetInduction
    <2> QED BY <2>2, <1>2
  <1>8. PICK F \in [Objects -> Seq(Objects)] : Good(F, Cardinality(Objects) + 1)
    BY <1>6
  <1>9. F = Grown(F)
    <2>1. \A g \in Objects : rank[g] < Cardinality(Objects) + 1
      BY <1>2
    <2>2. \A g \in Objects : F[g] = Grown(F)[g]
      BY <2>1, <1>8
    <2> QED BY <2>2, <1>3
  <1>10. T = Grown(T)
    BY <1>9
  <1>11. Tree = T
    BY DEF Tree, Below
  <1>12. \A g \in Objects : Tree[g] = <<g>> \o FlattenSeq(Below(Tree, g))
    BY <1>10, <1>11
  <1> HIDE DEF T
  <1> DEFINE P == {g \in Objects : Tree[g] \in Seq(Objects)}
  <1>13. ASSUME NEW g \in Objects, ToSet(Kids[g]) \subseteq P
         PROVE  g \in P
    <2>1. <<g>> \o FlattenSeq(Below(Tree, g)) \in Seq(Objects)
      BY <1>13, BelowTyped
    <2> QED BY <2>1, <1>12
  <1>14. Objects \subseteq P
    <2> HIDE DEF P
    <2> QED BY <1>13, ForestInduction
  <1>15. \A g \in Objects : Tree[g] \in Seq(Objects)
    BY <1>14
  <1>16. Tree = [g \in Objects |-> Tree[g]]
    BY <1>10, <1>11 DEF T
  <1> QED BY <1>12, <1>15, <1>16

(* The objects of a tree are its root and those of the trees below it.     *)
LEMMA TreeSet ==
    ASSUME NEW g \in Objects
    PROVE  /\ Tree[g] \in Seq(Objects) /\ ToSet(Tree[g]) \subseteq Objects
           /\ \A x : x \in ToSet(Tree[g]) <=>
                 x = g \/ \E k \in ToSet(Kids[g]) : x \in ToSet(Tree[k])
  <1> DEFINE below == Below(Tree, g)
             rest == FlattenSeq(below)
  <1>1. \A k \in ToSet(Kids[g]) : k \in Objects /\ Tree[k] \in Seq(Objects)
    BY KidsAre, TreeIs
  <1>2. /\ below \in Seq(Seq(Objects)) /\ Len(below) = Len(Kids[g])
        /\ \A i \in 1..Len(Kids[g]) : below[i] = Tree[Kids[g][i]]
        /\ rest \in Seq(Objects)
    BY <1>1, BelowTyped
  <1>3. Tree[g] \in Seq(Objects) /\ Tree[g] = <<g>> \o rest
    BY TreeIs
  <1>4. \A x : x \in ToSet(rest) <=> \E i \in 1..Len(below) : x \in ToSet(below[i])
    BY <1>2, FlattenIs
  <1> DEFINE one == <<g>>
  <1>5. one \in Seq(Objects) /\ ToSet(one) = {g} /\ Tree[g] = one \o rest
    BY <1>3 DEF ToSet
  <1> HIDE DEF rest, below, one
  <1>6. ToSet(Tree[g]) = {g} \cup ToSet(rest)
    BY <1>2, <1>5, ToSetConcat
  <1>7. ASSUME NEW x
        PROVE  x \in ToSet(rest) <=> \E k \in ToSet(Kids[g]) : x \in ToSet(Tree[k])
    <2>1. x \in ToSet(rest) => \E k \in ToSet(Kids[g]) : x \in ToSet(Tree[k])
      <3>1. \A i \in 1..Len(below) : below[i] = Tree[Kids[g][i]] /\ Kids[g][i] \in ToSet(Kids[g])
        BY <1>2, KidsAre
      <3> QED BY <3>1, <1>4
    <2>2. ASSUME NEW k \in ToSet(Kids[g]), x \in ToSet(Tree[k])
          PROVE  x \in ToSet(rest)
      <3>1. PICK i \in 1..Len(Kids[g]) : Kids[g][i] = k
        BY KidsAre
      <3>2. i \in 1..Len(below) /\ x \in ToSet(below[i])
        BY <3>1, <2>2, <1>2
      <3> QED BY <3>2, <1>4
    <2> QED BY <2>1, <2>2
  <1>8. ToSet(Tree[g]) \subseteq Objects
    BY <1>3, ToSetIs
  <1> QED BY <1>3, <1>6, <1>7, <1>8

(* Who is in a tree and not its root has the parent in the tree.           *)
LEMMA ParentInTree ==
    ASSUME NEW g \in Objects, NEW x \in ToSet(Tree[g]), x # g
    PROVE  \E y \in ToSet(Tree[g]) : x \in ToSet(Kids[y])
  <1> DEFINE Up(h) == \A z \in ToSet(Tree[h]) : z # h =>
                          \E y \in ToSet(Tree[h]) : z \in ToSet(Kids[y])
             P == {h \in Objects : Up(h)}
  <1>1. ASSUME NEW h \in Objects, ToSet(Kids[h]) \subseteq P
        PROVE  h \in P
    <2>1. ASSUME NEW z \in ToSet(Tree[h]), z # h
          PROVE  \E y \in ToSet(Tree[h]) : z \in ToSet(Kids[y])
      <3>1. PICK k \in ToSet(Kids[h]) : z \in ToSet(Tree[k])
        BY <2>1, TreeSet
      <3>2. h \in ToSet(Tree[h]) /\ ToSet(Tree[k]) \subseteq ToSet(Tree[h])
        BY TreeSet
      <3>3. Up(k)
        BY <1>1
      <3>4. CASE z = k
        BY <3>2, <3>4
      <3>5. CASE z # k
        BY <3>1, <3>2, <3>3, <3>5
      <3> QED BY <3>4, <3>5
    <2> QED BY <2>1
  <1>2. Objects \subseteq P
    <2> HIDE DEF P
    <2> QED BY <1>1, ForestInduction
  <1> QED BY <1>2

LEMMA TreeRank ==
    ASSUME NEW rank, Ranks(rank), NEW g \in Objects, NEW x \in ToSet(Tree[g])
    PROVE  rank[x] <= rank[g]
  <1>1. Cardinality(Objects) \in Nat /\ \A h \in Objects : rank[h] \in Nat
    <2>1. Cardinality(Objects) \in Nat
      BY ObjectAssumption, FS_CardinalityType
    <2> QED BY <2>1 DEF Ranks
  <1> DEFINE P == {h \in Objects : \A z \in ToSet(Tree[h]) : rank[z] <= rank[h]}
  <1>2. ASSUME NEW h \in Objects, ToSet(Kids[h]) \subseteq P
        PROVE  h \in P
    <2>1. ASSUME NEW z \in ToSet(Tree[h])
          PROVE  rank[z] <= rank[h]
      <3>1. z \in Objects
        BY TreeSet
      <3>2. CASE z = h
        BY <3>2, <1>1
      <3>3. ASSUME NEW k \in ToSet(Kids[h]), z \in ToSet(Tree[k])
            PROVE  rank[z] <= rank[h]
        <4>1. k \in Objects /\ rank[k] < rank[h]
          BY KidsAre DEF Ranks
        <4>2. rank[z] <= rank[k]
          BY <1>2, <3>3
        <4>3. rank[z] \in Nat /\ rank[k] \in Nat /\ rank[h] \in Nat
          BY <1>1, <3>1, <4>1
        <4> QED BY <4>1, <4>2, <4>3
      <3> QED BY <3>2, <3>3, TreeSet
    <2> QED BY <2>1
  <1>3. Objects \subseteq P
    <2> HIDE DEF P
    <2> QED BY <1>2, ForestInduction
  <1> QED BY <1>3

(* Trees meet only when the root of one is in the other: an object has one *)
(* parent, which is in both trees, and so on upwards.                      *)
LEMMA TreesMeet ==
    ASSUME NEW a \in Objects, NEW b \in Objects, NEW x \in ToSet(Tree[a]) \cap ToSet(Tree[b])
    PROVE  a \in ToSet(Tree[b]) \/ b \in ToSet(Tree[a])
  <1>1. PICK rank : Ranks(rank)
    BY ForestAssumption DEF Ranks
  <1> DEFINE top == Cardinality(Objects)
  <1>2. top \in Nat /\ \A g \in Objects : rank[g] \in 0..top
    BY <1>1, ObjectAssumption, FS_CardinalityType DEF Ranks
  <1>3. SUFFICES ASSUME a \notin ToSet(Tree[b]), b \notin ToSet(Tree[a])
                 PROVE  FALSE
    OBVIOUS
  <1> DEFINE both == ToSet(Tree[a]) \cap ToSet(Tree[b])
             S == {n \in Nat : \A z \in both : rank[z] + n <= top}
  <1>4. both \subseteq Objects
    BY TreeSet
  <1>5. 0 \in S
    BY <1>2, <1>4
  <1>6. ASSUME NEW n \in Nat, n \in S
        PROVE  n + 1 \in S
    <2>1. ASSUME NEW z \in both
          PROVE  rank[z] + (n + 1) <= top
      <3>1. z # a /\ z # b
        BY <1>3, <2>1
      <3>2. PICK y \in ToSet(Tree[a]) : z \in ToSet(Kids[y])
        BY <2>1, <3>1, ParentInTree
      <3>3. PICK w \in ToSet(Tree[b]) : z \in ToSet(Kids[w])
        BY <2>1, <3>1, ParentInTree
      <3>4. y \in Objects /\ w \in Objects
        BY TreeSet
      <3>5. y = w
        BY <3>2, <3>3, <3>4, ForestAssumption
      <3>6. rank[y] + n <= top
        BY <3>3, <3>5, <1>6
      <3>7. rank[z] < rank[y]
        BY <3>2, <3>4, <1>1 DEF Ranks
      <3>8. rank[z] \in Nat /\ rank[y] \in Nat
        BY <1>2, <1>4, <3>4
      <3> HIDE DEF top
      <3> QED BY <3>6, <3>7, <3>8, <1>2
    <2> HIDE DEF top, both
    <2> QED BY <2>1
  <1>7. Nat \subseteq S
    <2>1. \A n \in Nat : n \in S => n + 1 \in S
      BY <1>6
    <2> HIDE DEF S
    <2> QED BY <1>5, <2>1, SetInduction
  <1>8. top + 1 \in S
    <2> HIDE DEF S, top
    <2> QED BY <1>7, <1>2
  <1>9. rank[x] + (top + 1) <= top /\ rank[x] \in Nat
    BY <1>8, <1>4, <1>2
  <1> HIDE DEF top
  <1> QED BY <1>9, <1>2

LEMMA TreeInjective ==
    ASSUME NEW g \in Objects
    PROVE  IsInjective(Tree[g])
  <1>1. PICK rank : Ranks(rank)
    BY ForestAssumption DEF Ranks
  <1>2. \A h \in Objects : rank[h] \in Nat
    BY <1>1, ObjectAssumption, FS_CardinalityType DEF Ranks
  <1> DEFINE P == {h \in Objects : IsInjective(Tree[h])}
  <1>3. ASSUME NEW h \in Objects, ToSet(Kids[h]) \subseteq P
        PROVE  h \in P
    <2> DEFINE below == Below(Tree, h)
               rest == FlattenSeq(below)
    <2>1. \A k \in ToSet(Kids[h]) : k \in Objects /\ Tree[k] \in Seq(Objects)
      BY KidsAre, TreeIs
    <2>2. /\ below \in Seq(Seq(Objects)) /\ Len(below) = Len(Kids[h])
          /\ \A i \in 1..Len(Kids[h]) : below[i] = Tree[Kids[h][i]]
          /\ rest \in Seq(Objects)
      BY <2>1, BelowTyped
    <2>3. Tree[h] = <<h>> \o rest
      BY TreeIs
    <2>4. \A i \in 1..Len(below) : IsInjective(below[i])
      BY <2>2, <1>3, KidsAre
    <2>5. ASSUME NEW k \in ToSet(Kids[h]), NEW m \in Objects, k \in ToSet(Tree[m]), k # m
          PROVE  h \in ToSet(Tree[m])
      <3>1. PICK y \in ToSet(Tree[m]) : k \in ToSet(Kids[y])
        BY <2>5, ParentInTree
      <3>2. y \in Objects
        BY TreeSet
      <3>3. y = h
        BY <3>1, <3>2, ForestAssumption
      <3> QED BY <3>1, <3>3
    <2>6. ASSUME NEW k \in ToSet(Kids[h])
          PROVE  h \notin ToSet(Tree[k])
      <3>1. k \in Objects /\ rank[k] < rank[h]
        BY KidsAre, <1>1 DEF Ranks
      <3>2. SUFFICES ASSUME h \in ToSet(Tree[k]) PROVE FALSE
        OBVIOUS
      <3>3. rank[h] <= rank[k]
        BY <3>1, <3>2, <1>1, TreeRank
      <3> QED BY <3>1, <3>3, <1>2
    <2>7. ASSUME NEW k \in ToSet(Kids[h]), NEW m \in ToSet(Kids[h]), k # m
          PROVE  ToSet(Tree[k]) \cap ToSet(Tree[m]) = {}
      BY <2>1, <2>5, <2>6, <2>7, TreesMeet
    <2>8. ASSUME NEW i \in 1..Len(below), NEW j \in 1..Len(below), i # j
          PROVE  ToSet(below[i]) \cap ToSet(below[j]) = {}
      <3> DEFINE ks == Kids[h]
      <3>1. /\ ks \in Seq(Objects) /\ IsInjective(ks) /\ i \in 1..Len(ks) /\ j \in 1..Len(ks)
            /\ ks[i] \in ToSet(ks) /\ ks[j] \in ToSet(ks)
            /\ below[i] = Tree[ks[i]] /\ below[j] = Tree[ks[j]]
        BY <2>2, KidsAre, ForestAssumption
      <3> HIDE DEF ks
      <3>2. ks[i] # ks[j]
        BY <3>1, <2>8, InjectiveIs
      <3> QED BY <3>1, <3>2, <2>7 DEF ks
    <2>9. IsInjective(rest)
      BY <2>2, <2>4, <2>8, FlattenIs
    <2>10. h \notin ToSet(rest)
      <3>1. \A x : x \in ToSet(rest) => \E i \in 1..Len(below) : x \in ToSet(below[i])
        BY <2>2, FlattenIs
      <3>2. ASSUME NEW i \in 1..Len(below)
            PROVE  h \notin ToSet(below[i])
        <4>1. below[i] = Tree[Kids[h][i]] /\ Kids[h][i] \in ToSet(Kids[h])
          BY <2>2, KidsAre
        <4> QED BY <4>1, <2>6
      <3> QED BY <3>1, <3>2
    <2> DEFINE one == <<h>>
    <2>11. one \in Seq(Objects) /\ ToSet(one) = {h} /\ IsInjective(one) /\ Tree[h] = one \o rest
      BY <2>3 DEF ToSet, IsInjective
    <2> HIDE DEF rest, below, one
    <2>12. IsInjective(one \o rest)
      BY <2>2, <2>9, <2>10, <2>11, InjectiveConcat
    <2> QED BY <2>11, <2>12
  <1>4. Objects \subseteq P
    <2> HIDE DEF P
    <2> QED BY <1>3, ForestInduction
  <1> QED BY <1>4

(* The objects that a loaded scene starts with                             *)
Roots == FlattenSeq([i \in 1..Len(Loaded) |-> Tree[Loaded[i]]])

LEMMA RootsAre ==
    Roots \in Seq(Objects) /\ IsInjective(Roots)
  <1> DEFINE trees == [i \in 1..Len(Loaded) |-> Tree[Loaded[i]]]
             n == Len(Loaded)
  <1>1. Loaded \in Seq(Objects) /\ n \in Nat /\ \A i \in 1..n : Loaded[i] \in Objects
    BY ObjectAssumption
  <1>2. \A i \in 1..n : Loaded[i] \in ToSet(Loaded)
    BY <1>1, ToSetIs
  <1>3. \A i \in 1..n : Tree[Loaded[i]] \in Seq(Objects)
    BY <1>1, TreeIs
  <1>4. /\ trees \in Seq(Seq(Objects)) /\ Len(trees) = n
        /\ \A i \in 1..n : trees[i] = Tree[Loaded[i]]
    BY <1>1, <1>3
  <1>5. \A i \in 1..n : IsInjective(trees[i])
    BY <1>1, <1>4, TreeInjective
  <1>6. ASSUME NEW i \in 1..n, NEW j \in 1..n, Loaded[i] \in ToSet(Tree[Loaded[j]])
        PROVE  i = j
    <2>1. SUFFICES ASSUME Loaded[i] # Loaded[j] PROVE FALSE
      BY <1>1, ForestAssumption, InjectiveIs
    <2>2. PICK y \in ToSet(Tree[Loaded[j]]) : Loaded[i] \in ToSet(Kids[y])
      BY <1>1, <1>6, <2>1, ParentInTree
    <2>3. y \in Objects
      BY <1>1, TreeSet
    <2> QED BY <2>2, <2>3, <1>2, ForestAssumption
  <1>7. ASSUME NEW i \in 1..n, NEW j \in 1..n, i # j
        PROVE  ToSet(trees[i]) \cap ToSet(trees[j]) = {}
    <2>1. ToSet(Tree[Loaded[i]]) \cap ToSet(Tree[Loaded[j]]) = {}
      BY <1>1, <1>6, <1>7, TreesMeet
    <2> QED BY <2>1, <1>4
  <1>8. Roots = FlattenSeq(trees)
    BY DEF Roots
  <1> HIDE DEF trees
  <1> QED BY <1>4, <1>5, <1>7, <1>8, FlattenIs

(* The components of the prefabs of some objects                           *)
LEMMA PrefabsAre ==
    ASSUME NEW gs \in Seq(Objects)
    PROVE  /\ PrefabSeq(gs) \in Seq(Components)
           /\ \A c : c \in ToSet(PrefabSeq(gs)) <=> \E g \in ToSet(gs) : c \in ToSet(Prefab[g])
           /\ IsInjective(gs) => IsInjective(PrefabSeq(gs))
  <1> DEFINE parts == [i \in 1..Len(gs) |-> Prefab[gs[i]]]
             n == Len(gs)
  <1>1. n \in Nat /\ \A i \in 1..n : gs[i] \in Objects
    OBVIOUS
  <1>2. /\ \A i \in 1..n : gs[i] \in ToSet(gs)
        /\ \A g \in ToSet(gs) : \E i \in 1..n : gs[i] = g
    BY ToSetIs
  <1>3. \A g \in Objects : Prefab[g] \in Seq(Components) /\ IsInjective(Prefab[g])
    BY ObjectAssumption, ForestAssumption
  <1>4. /\ parts \in Seq(Seq(Components)) /\ Len(parts) = n
        /\ \A i \in 1..n : parts[i] = Prefab[gs[i]]
    BY <1>1, <1>3
  <1>5. PrefabSeq(gs) = FlattenSeq(parts)
    BY DEF PrefabSeq
  <1>6. ASSUME IsInjective(gs), NEW i \in 1..n, NEW j \in 1..n, i # j
        PROVE  ToSet(parts[i]) \cap ToSet(parts[j]) = {}
    <2>1. gs[i] # gs[j]
      BY <1>6, InjectiveIs
    <2>2. \A c \in ToSet(Prefab[gs[i]]) \cap ToSet(Prefab[gs[j]]) :
             OwnerOf[c] = gs[i] /\ OwnerOf[c] = gs[j]
      BY <1>1, ForestAssumption
    <2> QED BY <2>1, <2>2, <1>4
  <1> HIDE DEF parts
  <1>7. /\ FlattenSeq(parts) \in Seq(Components)
        /\ \A c : c \in ToSet(FlattenSeq(parts)) <=> \E i \in 1..Len(parts) : c \in ToSet(parts[i])
    BY <1>4, FlattenIs
  <1>8. IsInjective(gs) => IsInjective(FlattenSeq(parts))
    BY <1>1, <1>3, <1>4, <1>6, FlattenIs
  <1>9. ASSUME NEW c
        PROVE  (\E i \in 1..Len(parts) : c \in ToSet(parts[i]))
                 <=> \E g \in ToSet(gs) : c \in ToSet(Prefab[g])
    <2>1. ASSUME NEW g \in ToSet(gs), c \in ToSet(Prefab[g])
          PROVE  \E i \in 1..Len(parts) : c \in ToSet(parts[i])
      <3>1. PICK i \in 1..n : gs[i] = g
        BY <1>2
      <3> QED BY <3>1, <2>1, <1>4
    <2>2. ASSUME NEW i \in 1..Len(parts), c \in ToSet(parts[i])
          PROVE  \E g \in ToSet(gs) : c \in ToSet(Prefab[g])
      <3>1. i \in 1..n /\ parts[i] = Prefab[gs[i]] /\ gs[i] \in ToSet(gs)
        BY <2>2, <1>2, <1>4
      <3> QED BY <3>1, <2>2
    <2> QED BY <2>1, <2>2
  <1> QED BY <1>5, <1>7, <1>8, <1>9

(* The components that register with the handler of a type                 *)
LEMMA OfTypeIs ==
    ASSUME NEW y \in Types, NEW cs \in Seq(Components)
    PROVE  /\ OfType(y, cs) \in Seq(Components)
           /\ ToSet(OfType(y, cs)) = {c \in ToSet(cs) : TypeOf[c] = y}
           /\ IsInjective(cs) => IsInjective(OfType(y, cs))
  <1>1. ToSet(cs) \subseteq Components
    BY ToSetIs
  <1> QED BY <1>1, OnlyIs DEF OfType

-----------------------------------------------------------------------------
(* Types: the frame of a call on an object has an object, the others have  *)
(* components.                                                             *)
ObjectOps == {"awake", "start", "setActive"}
ComponentOps == {"componentAwake", "componentStart", "componentSetActive", "user"}

FrameType ==
    [op : ObjectOps, x : Objects, on : BOOLEAN, n : Nat]
        \cup [op : ComponentOps, x : Components, on : BOOLEAN, n : Nat]

ListsTyped ==
    /\ list \in Seq(Objects) /\ toAdd \in Seq(Objects)
    /\ comps \in [Objects -> Seq(Components)] /\ handler \in [Types -> Seq(Components)]
    /\ \A y \in Types : \A c \in ToSet(handler[y]) : TypeOf[c] = y

FlagsTyped ==
    /\ active \subseteq Objects \cup Components
    /\ awaked \subseteq Objects \cup Components /\ started \subseteq Objects \cup Components
    /\ destroyed \subseteq Objects \cup Components /\ made \subseteq Objects \cup Components

StackTyped == stack \in Seq(FrameType)

PlaceTyped ==
    /\ todo \in Seq(Objects)
    /\ phase \in {"frame", "awake", "start", "remove", "execute"}
    /\ at \in Nat \X Nat /\ userCalls \in 0..MaxCalls

Typed == ListsTyped /\ FlagsTyped /\ StackTyped /\ PlaceTyped

LEMMA TypedIs == Typed => ObjectTypeOK
  <1>1. FrameType \subseteq [op : Ops, x : Objects \cup Components, on : BOOLEAN, n : Nat]
    BY DEF FrameType, Ops, ObjectOps, ComponentOps
  <1>2. ASSUME StackTyped
        PROVE  stack \in Seq([op : Ops, x : Objects \cup Components, on : BOOLEAN, n : Nat])
    <2> DEFINE Wide == [op : Ops, x : Objects \cup Components, on : BOOLEAN, n : Nat]
    <2>1. FrameType \subseteq Wide
      BY <1>1
    <2> HIDE DEF Wide
    <2>2. stack \in Seq(Wide)
      BY <1>2, <2>1 DEF StackTyped
    <2> QED BY <2>2 DEF Wide
  <1> QED BY <1>2 DEF Typed, ListsTyped, FlagsTyped, PlaceTyped, ObjectTypeOK

LEMMA FrameTyped ==
    ASSUME NEW op, NEW x, NEW on \in BOOLEAN, NEW n \in Nat,
           \/ op \in ObjectOps /\ x \in Objects
           \/ op \in ComponentOps /\ x \in Components
    PROVE  /\ Frame(op, x, on, n) \in FrameType
           /\ Frame(op, x, on, n).op = op /\ Frame(op, x, on, n).x = x
           /\ Frame(op, x, on, n).on = on /\ Frame(op, x, on, n).n = n
  BY DEF Frame, FrameType

(* The frame of the innermost call                                         *)
LEMMA TopTyped ==
    ASSUME StackTyped, stack # <<>>
    PROVE  /\ Top \in FrameType /\ Top = stack[1] /\ Tail(stack) \in Seq(FrameType)
           /\ Top.n \in Nat /\ Top.on \in BOOLEAN
           /\ Top.op \in ObjectOps => Top.x \in Objects
           /\ Top.op \in ComponentOps => Top.x \in Components
  <1>1. Top \in FrameType /\ Top = stack[1] /\ Tail(stack) \in Seq(FrameType)
    BY DEF Top, StackTyped
  <1>2. \A f \in FrameType :
           /\ f.n \in Nat /\ f.on \in BOOLEAN
           /\ f.op \in ObjectOps => f.x \in Objects
           /\ f.op \in ComponentOps => f.x \in Components
    BY DEF FrameType, ObjectOps, ComponentOps
  <1> QED BY <1>1, <1>2

LEMMA FewFrames ==
    ASSUME NEW a \in FrameType, NEW b \in FrameType, NEW c \in FrameType
    PROVE  /\ <<a>> \in Seq(FrameType)
           /\ <<a, b>> \in Seq(FrameType)
           /\ <<a, b, c>> \in Seq(FrameType)
  OBVIOUS

LEMMA StackGrows ==
    ASSUME NEW fs \in Seq(FrameType), NEW q \in Seq(FrameType)
    PROVE  fs \o q \in Seq(FrameType)
  OBVIOUS

(* What one step of the calls does to the stack.  InternalAwake and        *)
(* InternalStart: the object begins, the loop goes on or ends, or it       *)
(* calls a component, which is flagged.                                    *)
LoopStep(op, before, after) ==
    LET x == Top.x
        next == Frame(op, x, TRUE, Top.n + 1)
    IN  \/ Top.n = 0 /\ after = before \cup {x} /\ stack' = <<next>> \o Tail(stack)
        \/ Top.n # 0 /\ after = before /\ stack' = Tail(stack)
        \/ Top.n # 0 /\ after = before /\ stack' = <<next>> \o Tail(stack)
        \/ /\ Top.n # 0
           /\ \E c \in ToSet(comps[x]) :
                 /\ after = before \cup {c}
                 /\ stack' = <<Frame("user", c, TRUE, 0), next>> \o Tail(stack)

LEMMA InternalShape ==
    ASSUME Typed
    PROVE  /\ InternalAwake => /\ At("awake") /\ LoopStep("awake", awaked, awaked')
                               /\ UNCHANGED <<lists, active, started, destroyed, made, phase, todo, at, userCalls>>
           /\ InternalStart => /\ At("start") /\ LoopStep("start", started, started')
                               /\ UNCHANGED <<lists, active, awaked, destroyed, made, phase, todo, at, userCalls>>
  <1>1. ASSUME At("awake") \/ At("start"), Top.n # 0, ~(Top.n > Len(comps[Top.x]))
        PROVE  comps[Top.x][Top.n] \in ToSet(comps[Top.x])
    <2>1. Top.x \in Objects /\ Top.n \in Nat
      BY <1>1, TopTyped DEF At, Typed, ObjectOps
    <2>2. comps[Top.x] \in Seq(Components)
      BY <2>1 DEF Typed, ListsTyped
    <2>3. Top.n \in 1..Len(comps[Top.x])
      BY <1>1, <2>1, <2>2
    <2> QED BY <2>2, <2>3, ToSetIs
  <1>2. ASSUME InternalAwake
        PROVE  /\ At("awake") /\ LoopStep("awake", awaked, awaked')
               /\ UNCHANGED <<lists, active, started, destroyed, made, phase, todo, at, userCalls>>
    <2>1. At("awake")
      BY <1>2 DEF InternalAwake, InternalLoop
    <2>2. LoopStep("awake", awaked, awaked')
      BY <1>1, <1>2, <2>1 DEF InternalAwake, InternalLoop, LoopStep, Goto, Return
    <2> QED BY <1>2, <2>1, <2>2 DEF InternalAwake, InternalLoop
  <1>3. ASSUME InternalStart
        PROVE  /\ At("start") /\ LoopStep("start", started, started')
               /\ UNCHANGED <<lists, active, awaked, destroyed, made, phase, todo, at, userCalls>>
    <2>1. At("start")
      BY <1>3 DEF InternalStart, InternalLoop
    <2>2. LoopStep("start", started, started')
      BY <1>1, <1>3, <2>1 DEF InternalStart, InternalLoop, LoopStep, Goto, Return
    <2> QED BY <1>3, <2>1, <2>2 DEF InternalStart, InternalLoop
  <1> QED BY <1>2, <1>3

(* Component::InternalAwake and InternalStart                              *)
OnceStep(before, after) ==
    /\ after = before \cup {Top.x}
    /\ \/ stack' = Tail(stack)
       \/ Top.x \notin before /\ stack' = <<Frame("user", Top.x, TRUE, 0)>> \o Tail(stack)

LEMMA OnceShape ==
    /\ ComponentAwake => /\ At("componentAwake") /\ OnceStep(awaked, awaked')
                         /\ UNCHANGED <<lists, active, started, destroyed, made, phase, todo, at, userCalls>>
    /\ ComponentStart => /\ At("componentStart") /\ OnceStep(started, started')
                         /\ UNCHANGED <<lists, active, awaked, destroyed, made, phase, todo, at, userCalls>>
  BY DEF ComponentAwake, ComponentStart, ComponentOnce, OnceStep, Goto, Return

(* SetActive: begin the object, or set the flag and go on with those of    *)
(* its children that there are.                                            *)
Begin(x) == <<Frame("awake", x, TRUE, 0), Frame("start", x, TRUE, 0)>>
KidFrames(kids, on) == [i \in 1..Len(kids) |-> Frame("setActive", kids[i], on, 0)]

LEMMA KidFramesTyped ==
    ASSUME NEW kids \in Seq(Objects), NEW on \in BOOLEAN
    PROVE  /\ KidFrames(kids, on) \in Seq(FrameType)
           /\ Len(KidFrames(kids, on)) = Len(kids)
           /\ \A i \in 1..Len(kids) :
                 /\ KidFrames(kids, on)[i].op = "setActive"
                 /\ KidFrames(kids, on)[i].x = kids[i] /\ kids[i] \in ToSet(kids)
  <1>1. \A i \in 1..Len(kids) :
           /\ Frame("setActive", kids[i], on, 0) \in FrameType
           /\ Frame("setActive", kids[i], on, 0).op = "setActive"
           /\ Frame("setActive", kids[i], on, 0).x = kids[i]
    <2>1. ASSUME NEW i \in 1..Len(kids) PROVE kids[i] \in Objects
      OBVIOUS
    <2>2. "setActive" \in ObjectOps /\ 0 \in Nat
      BY DEF ObjectOps
    <2> QED BY <2>1, <2>2, FrameTyped
  <1>2. \A i \in 1..Len(kids) : kids[i] \in ToSet(kids)
    BY ToSetIs
  <1>3. Len(kids) \in Nat
    OBVIOUS
  <1> QED BY <1>1, <1>2, <1>3 DEF KidFrames

LEMMA SetActiveShape ==
    ASSUME Typed, SetActive
    PROVE  /\ At("setActive") /\ Top.x \in Objects /\ Top.on \in BOOLEAN
           /\ \/ active' = active /\ stack' = <<Frame("setActive", Top.x, Top.on, 1)>> \o Tail(stack)
              \/ /\ active' = active /\ MustBegin(Top.x)
                 /\ stack' = (Begin(Top.x) \o <<Frame("setActive", Top.x, Top.on, 1)>>) \o Tail(stack)
              \/ /\ SetFlag(Top.x, Top.on)
                 /\ \E kids \in Seq(Objects) : /\ \A g \in ToSet(kids) : Exists(g)
                                               /\ stack' = KidFrames(kids, Top.on) \o Tail(stack)
           /\ UNCHANGED <<lists, awaked, started, destroyed, made, phase, todo, at, userCalls>>
  <1>1. At("setActive") /\ Top.x \in Objects /\ Top.on \in BOOLEAN
    BY TopTyped DEF SetActive, At, Typed, ObjectOps
  <1>2. CASE Top.n = 0 /\ Top.on /\ MustBegin(Top.x)
    BY <1>1, <1>2 DEF SetActive, Goto, Begin
  <1>3. CASE Top.n = 0 /\ ~(Top.on /\ MustBegin(Top.x))
    <2> DEFINE fs == <<Frame("setActive", Top.x, Top.on, 1)>>
    <2>1. stack' = (<<>> \o fs) \o Tail(stack) /\ active' = active
      BY <1>3 DEF SetActive, Goto
    <2>2. <<>> \o fs = fs
      OBVIOUS
    <2> QED BY <2>1, <2>2, <1>1 DEF SetActive
  <1>4. CASE Top.n # 0
    <2> DEFINE kids == Only(Kids[Top.x], {g \in Objects : Exists(g)})
    <2>1. kids \in Seq(Objects) /\ \A g \in ToSet(kids) : Exists(g)
      BY <1>1, KidsAre, OnlyIs
    <2>2. SetFlag(Top.x, Top.on) /\ stack' = KidFrames(kids, Top.on) \o Tail(stack)
      BY <1>4 DEF SetActive, Goto, KidFrames
    <2> HIDE DEF kids
    <2> QED BY <2>1, <2>2, <1>1 DEF SetActive
  <1> QED BY <1>2, <1>3, <1>4

(* Component::SetActive                                                    *)
BeginComponent(x) ==
    <<Frame("componentAwake", x, TRUE, 0), Frame("componentStart", x, TRUE, 0),
      Frame("componentSetActive", x, TRUE, 1)>>

LEMMA ComponentSetActiveShape ==
    ASSUME Typed, ComponentSetActive
    PROVE  /\ At("componentSetActive") /\ Top.x \in Components /\ Top.on \in BOOLEAN
           /\ \/ active' = active /\ stack' = BeginComponent(Top.x) \o Tail(stack)
              \/ SetFlag(Top.x, Top.on) /\ stack' = Tail(stack)
           /\ UNCHANGED <<lists, awaked, started, destroyed, made, phase, todo, at, userCalls>>
  <1>1. At("componentSetActive") /\ Top.x \in Components /\ Top.on \in BOOLEAN
    BY TopTyped DEF ComponentSetActive, At, Typed, ComponentOps
  <1> QED BY <1>1 DEF ComponentSetActive, Goto, Return, BeginComponent

(* The same lists, or flags, or place                                      *)
LEMMA SameTyped ==
    /\ ListsTyped /\ UNCHANGED lists => ListsTyped'
    /\ FlagsTyped /\ UNCHANGED flags => FlagsTyped'
    /\ PlaceTyped /\ UNCHANGED <<phase, todo, at, userCalls>> => PlaceTyped'
    /\ StackTyped /\ UNCHANGED stack => StackTyped'
  BY DEF ListsTyped, FlagsTyped, PlaceTyped, StackTyped, lists, flags

LEMMA CallsTyped ==
    ASSUME Typed,
           \/ InternalAwake \/ InternalStart \/ ComponentAwake \/ ComponentStart
           \/ SetActive \/ ComponentSetActive
    PROVE  Typed'
  <1>1. UNCHANGED <<lists, phase, todo, at, userCalls>>
    BY InternalShape, OnceShape, SetActiveShape, ComponentSetActiveShape
  <1>2. ListsTyped' /\ PlaceTyped'
    BY <1>1, SameTyped DEF Typed
  <1>3. /\ ListsTyped /\ FlagsTyped /\ StackTyped
        /\ 0 \in Nat /\ 1 \in Nat /\ TRUE \in BOOLEAN
    BY DEF Typed
  <1>4. ASSUME NEW op \in {"awake", "start"}, NEW before, NEW after,
               At(op), LoopStep(op, before, after), before \subseteq Objects \cup Components
        PROVE  after \subseteq Objects \cup Components /\ StackTyped'
    <2> DEFINE next == Frame(op, Top.x, TRUE, Top.n + 1)
               x == Top.x
               rest == Tail(stack)
    <2>1. /\ x \in Objects /\ Top.n \in Nat /\ rest \in Seq(FrameType)
          /\ op \in ObjectOps
      BY <1>3, <1>4, TopTyped DEF At, ObjectOps
    <2>2. next \in FrameType
      <3>1. Top.n + 1 \in Nat
        BY <2>1
      <3> QED BY <2>1, <3>1, <1>3, FrameTyped
    <2>3. comps[x] \in Seq(Components) /\ ToSet(comps[x]) \subseteq Components
      BY <2>1, <1>3, ToSetIs DEF ListsTyped
    <2>4. \A c \in Components : Frame("user", c, TRUE, 0) \in FrameType
      BY FrameTyped, <1>3 DEF ComponentOps
    <2>5. \/ after = before \cup {x} /\ stack' = <<next>> \o rest
          \/ after = before /\ stack' = rest
          \/ after = before /\ stack' = <<next>> \o rest
          \/ \E c \in ToSet(comps[x]) :
                after = before \cup {c} /\ stack' = <<Frame("user", c, TRUE, 0), next>> \o rest
      BY <1>4 DEF LoopStep
    <2> HIDE DEF next, x, rest
    <2>6. stack' \in Seq(FrameType)
      <3>1. \A c \in ToSet(comps[x]) : <<Frame("user", c, TRUE, 0), next>> \in Seq(FrameType)
        BY <2>2, <2>3, <2>4, FewFrames
      <3>2. <<next>> \in Seq(FrameType)
        BY <2>2, FewFrames
      <3> QED BY <2>1, <2>5, <3>1, <3>2, StackGrows
    <2>7. after \subseteq Objects \cup Components
      BY <2>1, <2>3, <2>5, <1>4
    <2> QED BY <2>6, <2>7 DEF StackTyped
  <1>5. ASSUME NEW before, NEW after, At("componentAwake") \/ At("componentStart"),
               OnceStep(before, after), before \subseteq Objects \cup Components
        PROVE  after \subseteq Objects \cup Components /\ StackTyped'
    <2>1. Top.x \in Components /\ Tail(stack) \in Seq(FrameType)
      BY <1>3, <1>5, TopTyped DEF At, ComponentOps
    <2>2. Frame("user", Top.x, TRUE, 0) \in FrameType
      BY <2>1, <1>3, FrameTyped DEF ComponentOps
    <2>3. <<Frame("user", Top.x, TRUE, 0)>> \in Seq(FrameType)
      BY <2>2, FewFrames
    <2>4. stack' \in Seq(FrameType)
      BY <2>1, <2>3, <1>5, StackGrows DEF OnceStep
    <2> QED BY <2>1, <2>4, <1>5 DEF StackTyped, OnceStep
  <1>6. CASE InternalAwake
    <2>1. /\ At("awake") /\ LoopStep("awake", awaked, awaked')
          /\ UNCHANGED <<lists, active, started, destroyed, made>>
      BY <1>6, InternalShape
    <2>2. awaked' \subseteq Objects \cup Components /\ StackTyped'
      BY <2>1, <1>3, <1>4 DEF FlagsTyped
    <2> QED BY <2>1, <2>2, <1>2, <1>3 DEF Typed, FlagsTyped
  <1>7. CASE InternalStart
    <2>1. /\ At("start") /\ LoopStep("start", started, started')
          /\ UNCHANGED <<lists, active, awaked, destroyed, made>>
      BY <1>7, InternalShape
    <2>2. started' \subseteq Objects \cup Components /\ StackTyped'
      BY <2>1, <1>3, <1>4 DEF FlagsTyped
    <2> QED BY <2>1, <2>2, <1>2, <1>3 DEF Typed, FlagsTyped
  <1>8. CASE ComponentAwake
    <2>1. /\ At("componentAwake") /\ OnceStep(awaked, awaked')
          /\ UNCHANGED <<lists, active, started, destroyed, made>>
      BY <1>8, OnceShape
    <2>2. awaked' \subseteq Objects \cup Components /\ StackTyped'
      BY <2>1, <1>3, <1>5 DEF FlagsTyped
    <2> QED BY <2>1, <2>2, <1>2, <1>3 DEF Typed, FlagsTyped
  <1>9. CASE ComponentStart
    <2>1. /\ At("componentStart") /\ OnceStep(started, started')
          /\ UNCHANGED <<lists, active, awaked, destroyed, made>>
      BY <1>9, OnceShape
    <2>2. started' \subseteq Objects \cup Components /\ StackTyped'
      BY <2>1, <1>3, <1>5 DEF FlagsTyped
    <2> QED BY <2>1, <2>2, <1>2, <1>3 DEF Typed, FlagsTyped
  <1>10. CASE SetActive
    <2> DEFINE last == Frame("setActive", Top.x, Top.on, 1)
               rest == Tail(stack)
               first == Begin(Top.x)
    <2>1. At("setActive") /\ Top.x \in Objects /\ Top.on \in BOOLEAN /\ rest \in Seq(FrameType)
      BY <1>3, <1>10, SetActiveShape, TopTyped DEF At
    <2>2. last \in FrameType /\ first \in Seq(FrameType)
      <3>1. /\ last \in FrameType
            /\ Frame("awake", Top.x, TRUE, 0) \in FrameType
            /\ Frame("start", Top.x, TRUE, 0) \in FrameType
        BY <2>1, <1>3, FrameTyped DEF ObjectOps
      <3> QED BY <3>1, FewFrames DEF Begin
    <2>3. /\ \/ active' = active /\ stack' = <<last>> \o rest
             \/ active' = active /\ stack' = (first \o <<last>>) \o rest
             \/ /\ SetFlag(Top.x, Top.on)
                /\ \E kids \in Seq(Objects) : stack' = KidFrames(kids, Top.on) \o rest
          /\ UNCHANGED <<awaked, started, destroyed, made>>
      BY <1>10, SetActiveShape
    <2>4. active' \subseteq Objects \cup Components
      BY <2>1, <2>3, <1>3 DEF SetFlag, FlagsTyped
    <2>5. \A kids \in Seq(Objects) : KidFrames(kids, Top.on) \in Seq(FrameType)
      BY <2>1, KidFramesTyped
    <2>6. first \o <<last>> \in Seq(FrameType) /\ <<last>> \in Seq(FrameType)
      <3> HIDE DEF first, last
      <3> QED BY <2>2
    <2>7. stack' \in Seq(FrameType)
      <3> HIDE DEF first, last, rest
      <3> QED BY <2>1, <2>3, <2>5, <2>6, StackGrows
    <2> QED BY <2>3, <2>4, <2>7, <1>2, <1>3 DEF Typed, FlagsTyped, StackTyped
  <1>11. CASE ComponentSetActive
    <2>1. /\ At("componentSetActive") /\ Top.x \in Components
          /\ \/ active' = active /\ stack' = BeginComponent(Top.x) \o Tail(stack)
             \/ SetFlag(Top.x, Top.on) /\ stack' = Tail(stack)
          /\ Top.on \in BOOLEAN /\ UNCHANGED <<awaked, started, destroyed, made>>
      BY <1>11, ComponentSetActiveShape
    <2>2. Tail(stack) \in Seq(FrameType)
      BY <1>3, <2>1, TopTyped DEF At
    <2>3. BeginComponent(Top.x) \in Seq(FrameType)
      <3>1. /\ Frame("componentAwake", Top.x, TRUE, 0) \in FrameType
            /\ Frame("componentStart", Top.x, TRUE, 0) \in FrameType
            /\ Frame("componentSetActive", Top.x, TRUE, 1) \in FrameType
        BY <2>1, <1>3, FrameTyped DEF ComponentOps
      <3> QED BY <3>1, FewFrames DEF BeginComponent
    <2>4. active' \subseteq Objects \cup Components
      BY <2>1, <1>3 DEF SetFlag, FlagsTyped
    <2>5. stack' \in Seq(FrameType)
      BY <2>1, <2>2, <2>3, StackGrows
    <2> QED BY <2>1, <2>4, <2>5, <1>2, <1>3 DEF Typed, FlagsTyped, StackTyped
  <1> QED BY <1>6, <1>7, <1>8, <1>9, <1>10, <1>11

(* The calls that code of the game makes                                   *)
LEMMA UserTyped ==
    ASSUME Typed, User
    PROVE  Typed'
  <1>1. /\ ListsTyped /\ FlagsTyped /\ StackTyped /\ PlaceTyped
        /\ 0 \in Nat /\ TRUE \in BOOLEAN
    BY DEF Typed
  <1>2. MaxCalls \in Nat /\ OwnerOf \in [Components -> Objects] /\ TypeOf \in [Components -> Types]
    BY ObjectAssumption
  <1>3. ASSUME NEW op, UserCall(op)
        PROVE  PlaceTyped'
    BY <1>1, <1>2, <1>3 DEF UserCall, PlaceTyped
  <1>4. CASE UserReturns
    <2>1. Tail(stack) \in Seq(FrameType)
      BY <1>1, <1>4, TopTyped DEF UserReturns, At
    <2>2. StackTyped' /\ UNCHANGED <<lists, flags, phase, todo, at, userCalls>>
      BY <2>1, <1>4 DEF UserReturns, Return, StackTyped
    <2> QED BY <1>1, <2>2, SameTyped DEF Typed
  <1>5. ASSUME NEW g \in Objects, NEW on \in BOOLEAN, CallSetActive(g, on)
        PROVE  Typed'
    <2>1. Frame("setActive", g, on, 0) \in FrameType
      BY <1>1, FrameTyped DEF ObjectOps
    <2>2. StackTyped' /\ UNCHANGED <<lists, flags>> /\ PlaceTyped'
      BY <2>1, <1>1, <1>3, <1>5, FewFrames, StackGrows DEF CallSetActive, Call, StackTyped
    <2> QED BY <1>1, <2>2, SameTyped DEF Typed
  <1>6. ASSUME NEW c \in Components, NEW on \in BOOLEAN, CallComponentSetActive(c, on)
        PROVE  Typed'
    <2>1. Frame("componentSetActive", c, on, 0) \in FrameType
      BY <1>1, FrameTyped DEF ComponentOps
    <2>2. StackTyped' /\ UNCHANGED <<lists, flags>> /\ PlaceTyped'
      BY <2>1, <1>1, <1>3, <1>6, FewFrames, StackGrows DEF CallComponentSetActive, Call, StackTyped
    <2> QED BY <1>1, <2>2, SameTyped DEF Typed
  <1>7. ASSUME NEW c \in Components, AddComponent(c)
        PROVE  Typed'
    <2> DEFINE g == OwnerOf[c]
               y == TypeOf[c]
    <2>1. g \in Objects /\ y \in Types /\ comps[g] \in Seq(Components) /\ handler[y] \in Seq(Components)
      BY <1>1, <1>2 DEF ListsTyped
    <2>2. /\ comps' = [comps EXCEPT ![g] = Append(@, c)]
          /\ handler' = [handler EXCEPT ![y] = Append(@, c)]
          /\ made' = made \cup {c} /\ PlaceTyped'
          /\ Call(IF OwnerOf[c] \in started THEN <<Frame("componentStart", c, TRUE, 0)>> ELSE <<>>)
          /\ UNCHANGED <<list, toAdd, active, awaked, started, destroyed>>
      BY <1>3, <1>7 DEF AddComponent
    <2>3. Append(comps[g], c) \in Seq(Components) /\ Append(handler[y], c) \in Seq(Components)
      BY <2>1
    <2>4. ASSUME NEW z \in Types, NEW d \in ToSet(handler'[z])
          PROVE  TypeOf[d] = z
      <3>1. CASE z = y
        <4>1. handler'[z] = Append(handler[y], c)
          BY <3>1, <2>1, <2>2, <1>1 DEF ListsTyped
        <4>2. ToSet(handler'[z]) = ToSet(handler[y]) \cup {c}
          BY <4>1, <2>1, ToSetAppend
        <4> QED BY <4>2, <3>1, <2>1, <1>1, <2>4 DEF ListsTyped
      <3>2. CASE z # y
        BY <3>2, <2>2, <2>4, <1>1 DEF ListsTyped
      <3> QED BY <3>1, <3>2
    <2>5. ListsTyped'
      <3>1. comps' \in [Objects -> Seq(Components)] /\ handler' \in [Types -> Seq(Components)]
        BY <2>1, <2>2, <2>3, <1>1 DEF ListsTyped
      <3>2. list' \in Seq(Objects) /\ toAdd' \in Seq(Objects)
        BY <2>2, <1>1 DEF ListsTyped
      <3> QED BY <3>1, <3>2, <2>4 DEF ListsTyped
    <2>6. FlagsTyped'
      BY <2>2, <1>1 DEF FlagsTyped
    <2>7. StackTyped'
      <3>1. <<Frame("componentStart", c, TRUE, 0)>> \in Seq(FrameType)
        BY <1>1, FrameTyped, FewFrames DEF ComponentOps
      <3>2. stack \in Seq(FrameType) /\ <<>> \in Seq(FrameType)
        BY <1>1 DEF StackTyped
      <3> QED BY <2>2, <3>1, <3>2, StackGrows DEF Call, StackTyped
    <2> QED BY <2>2, <2>5, <2>6, <2>7 DEF Typed
  <1>8. ASSUME NEW g \in Objects, CloneObject(g)
        PROVE  Typed'
    <2> DEFINE new == Tree[g]
    <2>1. /\ toAdd' = toAdd \o new
          /\ comps' = [h \in Objects |-> IF h \in ToSet(new) THEN Prefab[h] ELSE comps[h]]
          /\ handler' = [y \in Types |-> handler[y] \o OfType(y, PrefabSeq(new))]
          /\ made' = made \cup ToSet(new) \cup ToSet(PrefabSeq(new))
          /\ PlaceTyped'
          /\ UNCHANGED <<list, active, awaked, started, destroyed, stack>>
      BY <1>3, <1>8 DEF CloneObject
    <2>2. new \in Seq(Objects) /\ ToSet(new) \subseteq Objects
      BY TreeSet
    <2> HIDE DEF new
    <2>3. PrefabSeq(new) \in Seq(Components) /\ ToSet(PrefabSeq(new)) \subseteq Components
      BY <2>2, PrefabsAre, ToSetIs
    <2>4. toAdd \o new \in Seq(Objects)
      BY <2>2, <1>1 DEF ListsTyped
    <2>5. ASSUME NEW y \in Types
          PROVE  /\ handler[y] \o OfType(y, PrefabSeq(new)) \in Seq(Components)
                 /\ \A d \in ToSet(handler[y] \o OfType(y, PrefabSeq(new))) : TypeOf[d] = y
      <3>1. handler[y] \in Seq(Components) /\ \A d \in ToSet(handler[y]) : TypeOf[d] = y
        BY <1>1 DEF ListsTyped
      <3>2. /\ OfType(y, PrefabSeq(new)) \in Seq(Components)
            /\ \A d \in ToSet(OfType(y, PrefabSeq(new))) : TypeOf[d] = y
        BY <2>3, OfTypeIs
      <3>3. /\ ToSet(handler[y] \o OfType(y, PrefabSeq(new)))
                  = ToSet(handler[y]) \cup ToSet(OfType(y, PrefabSeq(new)))
            /\ handler[y] \o OfType(y, PrefabSeq(new)) \in Seq(Components)
        BY <3>1, <3>2, ToSetConcat
      <3> QED BY <3>1, <3>2, <3>3
    <2>6. comps' \in [Objects -> Seq(Components)]
      BY <2>1, <1>1, ObjectAssumption DEF ListsTyped
    <2>7. handler' \in [Types -> Seq(Components)] /\ \A y \in Types : \A d \in ToSet(handler'[y]) : TypeOf[d] = y
      BY <2>1, <2>5
    <2>8. ListsTyped'
      BY <2>1, <2>4, <2>6, <2>7, <1>1 DEF ListsTyped
    <2>9. FlagsTyped'
      BY <2>1, <2>2, <2>3, <1>1 DEF FlagsTyped
    <2> QED BY <1>1, <2>1, <2>8, <2>9, SameTyped DEF Typed
  <1>9. ASSUME NEW g \in Objects, DestroyObject(g)
        PROVE  Typed'
    <2>1. /\ destroyed' = destroyed \cup {h \in ToSet(Tree[g]) : Exists(h)} /\ PlaceTyped'
          /\ UNCHANGED <<lists, active, awaked, started, made, stack>>
      BY <1>3, <1>9 DEF DestroyObject
    <2>2. ToSet(Tree[g]) \subseteq Objects
      BY TreeSet
    <2>3. FlagsTyped'
      BY <2>1, <2>2, <1>1 DEF FlagsTyped
    <2> QED BY <1>1, <2>1, <2>3, SameTyped DEF Typed
  <1>10. ASSUME NEW c \in Components, DestroyComponent(c)
         PROVE  Typed'
    <2>1. /\ destroyed' = destroyed \cup {c} /\ PlaceTyped'
          /\ UNCHANGED <<lists, active, awaked, started, made, stack>>
      BY <1>3, <1>10 DEF DestroyComponent
    <2>2. FlagsTyped'
      BY <2>1, <1>1 DEF FlagsTyped
    <2> QED BY <1>1, <2>1, <2>2, SameTyped DEF Typed
  <1> QED BY <1>4, <1>5, <1>6, <1>7, <1>8, <1>9, <1>10 DEF User

(* The loops of Update and Execute                                         *)
LEMMA VisitIs ==
    ASSUME NEW gs \in Seq(Objects)
    PROVE  Visit(gs) \in Seq(Objects) /\ ToSet(Visit(gs)) = ToSet(gs)
  <1> DEFINE first == Only(Singletons, ToSet(gs))
  <1>1. first \in Seq(Objects) /\ ToSet(first) \subseteq ToSet(gs)
    BY ObjectAssumption, OnlyIs
  <1>2. Visit(gs) = first \o gs
    BY DEF Visit
  <1> HIDE DEF first
  <1>3. first \o gs \in Seq(Objects)
    BY <1>1
  <1>4. ToSet(first \o gs) = ToSet(first) \cup ToSet(gs)
    BY <1>1, ToSetConcat
  <1> QED BY <1>1, <1>2, <1>3, <1>4

(* The loops that erase by index leave what is not destroyed, if the list   *)
(* has each object once.                                                    *)
LEMMA KeptIs ==
    ASSUME list \in Seq(Objects)
    PROVE  /\ Kept \in Seq(Objects)
           /\ IsInjective(list) => /\ ToSet(Kept) = ToSet(list) \ destroyed
                                   /\ IsInjective(Kept)
  <1> DEFINE xs == Only(list, destroyed)
  <1>1. xs \in Seq(Objects) /\ ToSet(xs) = ToSet(list) \cap destroyed
    BY OnlyIs
  <1>2. Kept = EraseEach(list, xs)
    BY DEF Kept
  <1> HIDE DEF xs
  <1>3. /\ EraseEach(list, xs) \in Seq(Objects)
        /\ IsInjective(list) => /\ ToSet(EraseEach(list, xs)) = ToSet(list) \ ToSet(xs)
                                /\ IsInjective(EraseEach(list, xs))
    BY <1>1, EraseEachIs
  <1> QED BY <1>1, <1>2, <1>3

LEMMA UpdateTyped ==
    ASSUME Typed,
           \/ StartFrame \/ UpdateAwake \/ UpdateStart \/ RemoveDestroyedGameObjects
           \/ DeleteComponents \/ Execute \/ EndFrame
    PROVE  Typed'
  <1>1. /\ ListsTyped /\ FlagsTyped /\ StackTyped /\ PlaceTyped
        /\ 0 \in Nat /\ TRUE \in BOOLEAN /\ stack \in Seq(FrameType) /\ <<>> \in Seq(FrameType)
    BY DEF Typed, StackTyped
  <1>2. list \o toAdd \in Seq(Objects) /\ <<>> \in Seq(Objects)
    BY <1>1 DEF ListsTyped
  <1>3. CreateQueuedGameObjects /\ UNCHANGED <<comps, handler>> => ListsTyped'
    BY <1>1, <1>2 DEF CreateQueuedGameObjects, ListsTyped
  <1>4. CASE StartFrame
    <2>1. ListsTyped' /\ UNCHANGED <<flags, stack, at, userCalls>>
      BY <1>3, <1>4 DEF StartFrame
    <2>2. todo' \in Seq(Objects) /\ phase' = "awake"
      BY <1>2, <1>4, VisitIs DEF StartFrame, CreateQueuedGameObjects
    <2>3. PlaceTyped'
      BY <2>1, <2>2, <1>1 DEF PlaceTyped
    <2> QED BY <2>1, <2>3, <1>1, SameTyped DEF Typed
  <1>5. ASSUME NEW op \in {"awake", "start"}, NEW g \in Objects, NEW must \in BOOLEAN,
               UpdateObject(g, must, op)
        PROVE  StackTyped'
    <2>1. <<Frame(op, g, TRUE, 0)>> \in Seq(FrameType)
      BY <1>1, FrameTyped, FewFrames DEF ObjectOps
    <2> QED BY <1>1, <1>5, <2>1, StackGrows DEF UpdateObject, Call, StackTyped
  <1>6. todo # <<>> => Head(todo) \in Objects /\ Tail(todo) \in Seq(Objects)
    BY <1>1 DEF PlaceTyped
  <1>7. CASE UpdateAwake
    <2>1. UNCHANGED <<lists, flags, at, userCalls>>
      BY <1>7 DEF UpdateAwake
    <2>2. StackTyped'
      BY <1>1, <1>5, <1>6, <1>7 DEF UpdateAwake, StackTyped
    <2>3. todo' \in Seq(Objects) /\ phase' \in {"awake", "start"}
      BY <1>1, <1>6, <1>7, VisitIs DEF UpdateAwake, InPhase, ListsTyped
    <2>4. PlaceTyped'
      BY <2>1, <2>3, <1>1 DEF PlaceTyped
    <2> QED BY <2>1, <2>2, <2>4, <1>1, SameTyped DEF Typed
  <1>8. CASE UpdateStart
    <2>1. UNCHANGED <<lists, flags, at, userCalls>>
      BY <1>8 DEF UpdateStart
    <2>2. StackTyped'
      BY <1>1, <1>5, <1>6, <1>8 DEF UpdateStart, StackTyped, MustStart
    <2>3. todo' \in Seq(Objects) /\ phase' \in {"start", "remove"}
      BY <1>1, <1>6, <1>8 DEF UpdateStart, InPhase, PlaceTyped
    <2>4. PlaceTyped'
      BY <2>1, <2>3, <1>1 DEF PlaceTyped
    <2> QED BY <2>1, <2>2, <2>4, <1>1, SameTyped DEF Typed
  <1>9. CASE RemoveDestroyedGameObjects
    <2> DEFINE dead == ToSet(list) \ ToSet(Kept)
    <2>1. /\ list' = Kept
          /\ comps' = [g \in Objects |-> IF g \in dead THEN <<>> ELSE comps[g]]
          /\ handler' = [y \in Types |-> Released(y, dead)]
          /\ phase' = "execute" /\ at' = <<1, 0>>
          /\ UNCHANGED <<toAdd, flags, stack, todo, userCalls>>
      BY <1>9 DEF RemoveDestroyedGameObjects
    <2> HIDE DEF dead
    <2>2. list' \in Seq(Objects)
      BY <2>1, <1>1, KeptIs DEF ListsTyped
    <2>3. comps' \in [Objects -> Seq(Components)]
      BY <2>1, <1>1 DEF ListsTyped
    <2>4. ASSUME NEW y \in Types
          PROVE  Released(y, dead) \in Seq(Components) /\ ToSet(Released(y, dead)) \subseteq ToSet(handler[y])
      BY <1>1, OnlyIs DEF Released, ListsTyped
    <2>5. ListsTyped'
      BY <2>1, <2>2, <2>3, <2>4, <1>1 DEF ListsTyped
    <2>6. PlaceTyped'
      BY <2>1, <1>1 DEF PlaceTyped
    <2> QED BY <2>1, <2>5, <2>6, <1>1, SameTyped DEF Typed
  <1>10. CASE DeleteComponents
    <2> DEFINE y == at[1]
               dead == ToSet(handler[y]) \cap destroyed
    <2>1. /\ y \in Types
          /\ handler' = [handler EXCEPT ![y] = Only(@, Components \ dead)]
          /\ comps' = [g \in Objects |-> Remaining(g, dead)]
          /\ at' = <<y, 1>>
          /\ UNCHANGED <<list, toAdd, flags, stack, phase, todo, userCalls>>
      BY <1>10 DEF DeleteComponents
    <2> HIDE DEF dead
    <2>2. \A g \in Objects : Remaining(g, dead) \in Seq(Components)
      BY <1>1, OnlyIs DEF Remaining, ListsTyped
    <2>3. \A z \in Types : handler[z] \in Seq(Components)
      BY <1>1 DEF ListsTyped
    <2>4. /\ Only(handler[y], Components \ dead) \in Seq(Components)
          /\ ToSet(Only(handler[y], Components \ dead)) \subseteq ToSet(handler[y])
      BY <2>1, <2>3, OnlyIs
    <2>5. \A z \in Types : handler'[z] \in Seq(Components) /\ ToSet(handler'[z]) \subseteq ToSet(handler[z])
      BY <2>1, <2>3, <2>4, <1>1 DEF ListsTyped
    <2>6. handler' \in [Types -> Seq(Components)]
      BY <2>1, <2>4, <1>1 DEF ListsTyped
    <2>7. ListsTyped'
      BY <2>1, <2>2, <2>5, <2>6, <1>1 DEF ListsTyped
    <2>8. PlaceTyped'
      BY <2>1, <1>1 DEF PlaceTyped
    <2> QED BY <2>1, <2>7, <2>8, <1>1, SameTyped DEF Typed
  <1>11. CASE Execute
    <2>1. /\ UNCHANGED <<lists, flags, phase, todo, userCalls>>
          /\ at[1] \in Types /\ at \in Nat \X Nat
          /\ at' = <<at[1] + 1, 0>> \/ at' = <<at[1], at[2] + 1>>
      BY <1>1, <1>11 DEF Execute, PlaceTyped
    <2>2. PlaceTyped'
      BY <2>1, <1>1 DEF PlaceTyped
    <2>3. CASE at[2] > Len(handler[at[1]])
      BY <2>1, <2>2, <2>3, <1>1, <1>11, SameTyped DEF Typed, Execute
    <2>4. CASE ~(at[2] > Len(handler[at[1]]))
      <3> DEFINE c == handler[at[1]][at[2]]
      <3>1. handler[at[1]] \in Seq(Components)
        BY <1>1, <2>1 DEF ListsTyped
      <3>2. at[2] > 0 /\ at[2] \in Nat
        BY <2>1, <1>11 DEF Execute
      <3>3. at[2] \in 1..Len(handler[at[1]])
        BY <3>1, <3>2, <2>4
      <3>4. c \in Components
        BY <3>1, <3>3
      <3>5. <<Frame("user", c, TRUE, 0)>> \in Seq(FrameType)
        BY <3>4, <1>1, FrameTyped, FewFrames DEF ComponentOps
      <3>6. Call(IF Runs(c) THEN <<Frame("user", c, TRUE, 0)>> ELSE <<>>)
        BY <1>11, <2>4 DEF Execute
      <3> HIDE DEF c
      <3>7. StackTyped'
        BY <3>5, <3>6, <1>1, StackGrows DEF Call, StackTyped
      <3> QED BY <3>7, <2>1, <2>2, <1>1, SameTyped DEF Typed
    <2> QED BY <2>3, <2>4
  <1>12. CASE EndFrame
    <2>1. ListsTyped' /\ phase' = "frame" /\ UNCHANGED <<flags, stack, todo, at, userCalls>>
      BY <1>3, <1>12 DEF EndFrame
    <2>2. PlaceTyped'
      BY <2>1, <1>1 DEF PlaceTyped
    <2> QED BY <2>1, <2>2, <1>1, SameTyped DEF Typed
  <1> QED BY <1>4, <1>7, <1>8, <1>9, <1>10, <1>11, <1>12

LEMMA InitIs ==
    ASSUME ObjectsInit
    PROVE  /\ list = <<>> /\ toAdd = Roots /\ stack = <<>> /\ phase = "frame" /\ todo = <<>>
           /\ comps = [g \in Objects |-> IF g \in ToSet(Roots) THEN Prefab[g] ELSE <<>>]
           /\ handler = [y \in Types |-> OfType(y, PrefabSeq(Roots))]
           /\ made = ToSet(Roots) \cup ToSet(PrefabSeq(Roots))
           /\ active \subseteq Objects \cup Components
           /\ awaked = {} /\ started = {} /\ destroyed = {} /\ at = <<1, 0>> /\ userCalls = 0
  <1>1. active \subseteq Objects \cup Components
    BY DEF ObjectsInit
  <1> QED BY <1>1 DEF ObjectsInit, Roots

LEMMA InitTyped == ObjectsInit => Typed
  <1> SUFFICES ASSUME ObjectsInit PROVE Typed
    OBVIOUS
  <1>1. ToSet(Roots) \subseteq Objects
    BY RootsAre, ToSetIs
  <1>2. PrefabSeq(Roots) \in Seq(Components) /\ ToSet(PrefabSeq(Roots)) \subseteq Components
    BY RootsAre, PrefabsAre, ToSetIs
  <1>3. \A y \in Types : /\ OfType(y, PrefabSeq(Roots)) \in Seq(Components)
                         /\ \A c \in ToSet(OfType(y, PrefabSeq(Roots))) : TypeOf[c] = y
    BY <1>2, OfTypeIs
  <1>4. ListsTyped
    <2>1. list \in Seq(Objects) /\ toAdd \in Seq(Objects)
      BY InitIs, RootsAre
    <2>2. comps \in [Objects -> Seq(Components)]
      <3>1. \A g \in Objects : Prefab[g] \in Seq(Components) /\ <<>> \in Seq(Components)
        BY ObjectAssumption
      <3>2. comps = [g \in Objects |-> IF g \in ToSet(Roots) THEN Prefab[g] ELSE <<>>]
        BY InitIs
      <3> QED BY <3>1, <3>2
    <2>3. handler \in [Types -> Seq(Components)] /\ \A y \in Types : \A c \in ToSet(handler[y]) : TypeOf[c] = y
      BY InitIs, <1>3
    <2> QED BY <2>1, <2>2, <2>3 DEF ListsTyped
  <1>5. FlagsTyped
    BY InitIs, <1>1, <1>2 DEF FlagsTyped
  <1>6. StackTyped
    BY InitIs DEF StackTyped
  <1>7. PlaceTyped
    BY InitIs, ObjectAssumption DEF PlaceTyped
  <1> QED BY <1>4, <1>5, <1>6, <1>7 DEF Typed

LEMMA TypedIsInductive == Typed /\ [ObjectsNext]_objectsVars => Typed'
  <1> SUFFICES ASSUME Typed, [ObjectsNext]_objectsVars PROVE Typed'
    OBVIOUS
  <1>1. CASE UNCHANGED objectsVars
    BY <1>1, SameTyped DEF objectsVars, Typed
  <1>2. CASE ObjectsNext
    BY <1>2, CallsTyped, UserTyped, UpdateTyped DEF ObjectsNext, MainStep
  <1> QED BY <1>1, <1>2

(* Every variable keeps its type, for any forest of objects and any        *)
(* components: in particular the objects that are cloned and the children  *)
(* that are activated are objects, and handlers hold components of their   *)
(* own type.                                                               *)
THEOREM ObjectsTyped == ObjectsSpec => []ObjectTypeOK
  <1>1. ObjectsSpec => []Typed
    BY InitTyped, TypedIsInductive, PTL DEF ObjectsSpec
  <1> QED BY <1>1, TypedIs, PTL

-----------------------------------------------------------------------------
(* BeginsOnce.  A call that is about to flag an object is open.  Awake is  *)
(* open only as the innermost call; behind it, Start is open only for an   *)
(* object that has awaked and not started, and for each object once.       *)
Opens(f) == f.op \in {"awake", "start"} /\ f.n = 0

Calm(fs, woken, begun) ==
    /\ \A i \in 1..Len(fs) : Opens(fs[i]) => fs[i].op = "start" /\ fs[i].x \in woken \ begun
    /\ \A i, j \in 1..Len(fs) : Opens(fs[i]) /\ Opens(fs[j]) /\ fs[i].x = fs[j].x => i = j

BeginInv ==
    \/ Calm(stack, awaked, started)
    \/ At("start") /\ Top.n = 0 /\ Top.x \notin started /\ Tail(stack) = <<>>
    \/ /\ At("awake") /\ Top.n = 0 /\ Top.x \notin awaked
       /\ \/ Tail(stack) = <<>>
          \/ /\ Tail(stack) # <<>> /\ Head(Tail(stack)) = Frame("start", Top.x, TRUE, 0)
             /\ Top.x \notin started /\ Calm(Tail(Tail(stack)), awaked, started)

(* No call in fs flags an object next                                      *)
Quiet(fs) == \A i \in 1..Len(fs) : ~Opens(fs[i])

LEMMA Positions ==
    ASSUME NEW fs \in Seq(FrameType), NEW q \in Seq(FrameType)
    PROVE  /\ fs \o q \in Seq(FrameType)
           /\ \A i \in 1..Len(fs \o q) :
                 \/ i \in 1..Len(fs) /\ (fs \o q)[i] = fs[i]
                 \/ i - Len(fs) \in 1..Len(q) /\ i \in Nat /\ (fs \o q)[i] = q[i - Len(fs)]
  OBVIOUS

LEMMA ConsIs ==
    ASSUME NEW f \in FrameType, NEW q \in Seq(FrameType)
    PROVE  <<f>> \o q # <<>> /\ Head(<<f>> \o q) = f /\ Tail(<<f>> \o q) = q
  <1> DEFINE r == <<f>> \o q
  <1>1. /\ r \in Seq(FrameType) /\ Len(r) = Len(q) + 1 /\ r[1] = f
        /\ \A i \in 1..Len(q) : r[i + 1] = q[i]
    OBVIOUS
  <1> HIDE DEF r
  <1>2. r # <<>> /\ Head(r) = f
    BY <1>1
  <1>3. Tail(r) = q
    BY <1>1, <1>2
  <1> QED BY <1>2, <1>3 DEF r

LEMMA CalmConcat ==
    ASSUME NEW fs \in Seq(FrameType), NEW q \in Seq(FrameType), NEW woken, NEW begun,
           Quiet(fs), Calm(q, woken, begun)
    PROVE  Calm(fs \o q, woken, begun)
  <1> DEFINE r == fs \o q
             n == Len(fs)
  <1>1. n \in Nat
    OBVIOUS
  <1>2. \A i \in 1..Len(r) : /\ i \in Nat
                            /\ \/ ~Opens(r[i])
                               \/ i - n \in 1..Len(q) /\ r[i] = q[i - n]
    BY Positions DEF Quiet
  <1> HIDE DEF r, n
  <1>3. \A i \in 1..Len(r) : Opens(r[i]) => r[i].op = "start" /\ r[i].x \in woken \ begun
    BY <1>2 DEF Calm
  <1>4. ASSUME NEW i \in 1..Len(r), NEW j \in 1..Len(r), Opens(r[i]), Opens(r[j]), r[i].x = r[j].x
        PROVE  i = j
    <2>1. i - n \in 1..Len(q) /\ j - n \in 1..Len(q) /\ i \in Nat /\ j \in Nat
          /\ r[i] = q[i - n] /\ r[j] = q[j - n]
      BY <1>2, <1>4
    <2>2. i - n = j - n
      BY <2>1, <1>4 DEF Calm
    <2> QED BY <2>1, <2>2, <1>1
  <1>5. Calm(r, woken, begun)
    BY <1>3, <1>4 DEF Calm
  <1> QED BY <1>5 DEF r

LEMMA CalmTail ==
    ASSUME NEW q \in Seq(FrameType), q # <<>>, NEW woken, NEW begun, Calm(q, woken, begun)
    PROVE  Calm(Tail(q), woken, begun)
  <1> DEFINE r == Tail(q)
  <1>1. \A i \in 1..Len(r) : i \in Nat /\ i + 1 \in 1..Len(q) /\ r[i] = q[i + 1]
    OBVIOUS
  <1> HIDE DEF r
  <1>2. \A i \in 1..Len(r) : Opens(r[i]) => r[i].op = "start" /\ r[i].x \in woken \ begun
    BY <1>1 DEF Calm
  <1>3. ASSUME NEW i \in 1..Len(r), NEW j \in 1..Len(r), Opens(r[i]), Opens(r[j]), r[i].x = r[j].x
        PROVE  i = j
    <2>1. i + 1 = j + 1 /\ i \in Nat /\ j \in Nat
      BY <1>1, <1>3 DEF Calm
    <2> QED BY <2>1
  <1>4. Calm(r, woken, begun)
    BY <1>2, <1>3 DEF Calm
  <1> QED BY <1>4 DEF r

(* A further open Start, of an object that none of the others starts       *)
LEMMA CalmStart ==
    ASSUME NEW q \in Seq(FrameType), NEW woken, NEW begun, NEW more,
           NEW f \in FrameType, f.op = "start", f.x \notin woken, f.x \notin begun, f.x \in more,
           woken \subseteq more, Calm(q, woken, begun)
    PROVE  Calm(<<f>> \o q, more, begun)
  <1> DEFINE r == <<f>> \o q
  <1>1. /\ r[1] = f /\ 1 \in 1..Len(r)
        /\ \A i \in 1..Len(r) : i = 1 \/ (i \in Nat /\ i - 1 \in 1..Len(q) /\ r[i] = q[i - 1])
    OBVIOUS
  <1> HIDE DEF r
  <1>2. ASSUME NEW i \in 1..Len(r), i # 1, Opens(r[i])
        PROVE  r[i].op = "start" /\ r[i].x \in woken \ begun /\ r[i].x # f.x
    BY <1>1, <1>2 DEF Calm
  <1>3. \A i \in 1..Len(r) : Opens(r[i]) => r[i].op = "start" /\ r[i].x \in more \ begun
    BY <1>1, <1>2
  <1>4. ASSUME NEW i \in 1..Len(r), NEW j \in 1..Len(r), Opens(r[i]), Opens(r[j]), r[i].x = r[j].x
        PROVE  i = j
    <2>1. CASE i = 1 \/ j = 1
      BY <2>1, <1>1, <1>2, <1>4
    <2>2. CASE i # 1 /\ j # 1
      <3>1. i \in Nat /\ j \in Nat /\ i - 1 = j - 1
        BY <2>2, <1>1, <1>4 DEF Calm
      <3> QED BY <3>1
    <2> QED BY <2>1, <2>2
  <1>5. Calm(r, more, begun)
    BY <1>3, <1>4 DEF Calm
  <1> QED BY <1>5 DEF r

(* More that is awake, and more that has started but is not about to       *)
LEMMA CalmGrows ==
    ASSUME NEW q \in Seq(FrameType), NEW woken, NEW begun, NEW more, NEW after,
           Calm(q, woken, begun), woken \subseteq more,
           \A i \in 1..Len(q) : Opens(q[i]) /\ q[i].x \in after => q[i].x \in begun
    PROVE  Calm(q, more, after)
  BY DEF Calm

LEMMA OpensAnObject ==
    ASSUME NEW q \in Seq(FrameType), NEW i \in 1..Len(q), Opens(q[i])
    PROVE  q[i].x \in Objects
  <1>1. q[i] \in FrameType
    OBVIOUS
  <1> QED BY <1>1 DEF FrameType, Opens, ComponentOps

LEMMA OneQuiet ==
    ASSUME NEW f \in FrameType, ~Opens(f)
    PROVE  <<f>> \in Seq(FrameType) /\ Quiet(<<f>>)
  BY DEF Quiet

LEMMA TwoQuiet ==
    ASSUME NEW e \in FrameType, NEW f \in FrameType, ~Opens(e), ~Opens(f)
    PROVE  <<e, f>> \in Seq(FrameType) /\ Quiet(<<e, f>>)
  BY DEF Quiet

(* The frame of a component, and the next frame of a loop, flag no object. *)
LEMMA QuietFrames ==
    /\ \A op \in ComponentOps : \A c \in Components : \A on \in BOOLEAN : \A n \in Nat :
          Frame(op, c, on, n) \in FrameType /\ ~Opens(Frame(op, c, on, n))
    /\ \A op \in ObjectOps : \A g \in Objects : \A n \in Nat :
          Frame(op, g, TRUE, n + 1) \in FrameType /\ ~Opens(Frame(op, g, TRUE, n + 1))
    /\ \A g \in Objects : \A on \in BOOLEAN : \A n \in Nat :
          Frame("setActive", g, on, n) \in FrameType /\ ~Opens(Frame("setActive", g, on, n))
  <1>1. ASSUME NEW op \in ComponentOps, NEW c \in Components, NEW on \in BOOLEAN, NEW n \in Nat
        PROVE  Frame(op, c, on, n) \in FrameType /\ ~Opens(Frame(op, c, on, n))
    BY FrameTyped DEF Opens, ComponentOps
  <1>2. ASSUME NEW op \in ObjectOps, NEW g \in Objects, NEW n \in Nat
        PROVE  Frame(op, g, TRUE, n + 1) \in FrameType /\ ~Opens(Frame(op, g, TRUE, n + 1))
    <2> DEFINE m == n + 1
    <2>1. m \in Nat /\ m # 0 /\ TRUE \in BOOLEAN
      OBVIOUS
    <2> HIDE DEF m
    <2>2. Frame(op, g, TRUE, m) \in FrameType /\ Frame(op, g, TRUE, m).n = m
      BY <2>1 DEF Frame, FrameType
    <2>3. Frame(op, g, TRUE, m) \in FrameType /\ ~Opens(Frame(op, g, TRUE, m))
      BY <2>1, <2>2 DEF Opens
    <2> QED BY <2>3 DEF m
  <1>3. ASSUME NEW g \in Objects, NEW on \in BOOLEAN, NEW n \in Nat
        PROVE  Frame("setActive", g, on, n) \in FrameType /\ ~Opens(Frame("setActive", g, on, n))
    <2>1. "setActive" \in ObjectOps
      BY DEF ObjectOps
    <2> QED BY <2>1, FrameTyped DEF Opens
  <1> QED BY <1>1, <1>2, <1>3

(* When the innermost call flags no object, what is behind it is calm.     *)
LEMMA CalmBehind ==
    ASSUME Typed, BeginInv, ~(stack # <<>> /\ Opens(Top))
    PROVE  /\ Calm(stack, awaked, started)
           /\ stack # <<>> => Calm(Tail(stack), awaked, started)
  <1>1. Calm(stack, awaked, started)
    BY DEF BeginInv, At, Opens
  <1> QED BY <1>1, CalmTail DEF Typed, StackTyped

(* A step that calls, or returns to, what flags no object                  *)
LEMMA QuietStep ==
    ASSUME Typed, NEW fs \in Seq(FrameType), Quiet(fs), NEW q \in Seq(FrameType),
           Calm(q, awaked, started), awaked \subseteq awaked',
           \A i \in 1..Len(q) : Opens(q[i]) /\ q[i].x \in started' => q[i].x \in started,
           stack' = fs \o q
    PROVE  BeginInv'
  <1>1. Calm(q, awaked', started')
    BY CalmGrows
  <1>2. Calm(fs \o q, awaked', started')
    BY <1>1, CalmConcat
  <1> QED BY <1>2 DEF BeginInv

LEMMA QuietReturn ==
    ASSUME Typed, NEW q \in Seq(FrameType), Calm(q, awaked, started), awaked \subseteq awaked',
           \A i \in 1..Len(q) : Opens(q[i]) /\ q[i].x \in started' => q[i].x \in started,
           stack' = q
    PROVE  BeginInv'
  BY CalmGrows DEF BeginInv

LEMMA BeginByAwake == Typed /\ BeginInv /\ InternalAwake => BeginInv'
  <1> SUFFICES ASSUME Typed, BeginInv, InternalAwake PROVE BeginInv'
    OBVIOUS
  <1> DEFINE x == Top.x
             rest == Tail(stack)
             next == Frame("awake", x, TRUE, Top.n + 1)
  <1>1. At("awake") /\ LoopStep("awake", awaked, awaked') /\ UNCHANGED started
    BY InternalShape
  <1>2. stack # <<>> /\ x \in Objects /\ Top.n \in Nat /\ rest \in Seq(FrameType)
    BY <1>1, TopTyped DEF At, Typed, ObjectOps
  <1>3. next \in FrameType /\ ~Opens(next)
    <2>1. "awake" \in ObjectOps
      BY DEF ObjectOps
    <2> QED BY <2>1, <1>2, QuietFrames
  <1>4. <<next>> \in Seq(FrameType) /\ Quiet(<<next>>)
    BY <1>3, OneQuiet
  <1>5. CASE Top.n = 0
    <2>1. awaked' = awaked \cup {x} /\ stack' = <<next>> \o rest
      BY <1>1, <1>5 DEF LoopStep
    <2>2. ~Calm(stack, awaked, started)
      <3>1. 1 \in 1..Len(stack) /\ stack[1] = Top
        BY <1>2, TopTyped DEF Typed, StackTyped
      <3> QED BY <3>1, <1>1, <1>5 DEF Calm, Opens, At
    <2>3. /\ x \notin awaked
          /\ \/ rest = <<>>
             \/ /\ rest # <<>> /\ Head(rest) = Frame("start", x, TRUE, 0)
                /\ x \notin started /\ Calm(Tail(rest), awaked, started)
      BY <2>2, <1>1 DEF BeginInv, At
    <2> HIDE DEF next, rest, x
    <2>4. CASE rest = <<>>
      <3>1. Calm(rest, awaked', started')
        BY <2>4 DEF Calm
      <3>2. Calm(<<next>> \o rest, awaked', started')
        BY <3>1, <1>2, <1>4, CalmConcat
      <3> QED BY <3>2, <2>1 DEF BeginInv
    <2>5. CASE rest # <<>>
      <3> DEFINE f == Head(rest)
                 q == Tail(rest)
      <3>1. q \in Seq(FrameType) /\ f \in FrameType /\ rest = <<f>> \o q
        BY <2>5, <1>2
      <3>2. f.op = "start" /\ f.x = x
        BY <2>3, <2>5 DEF Frame
      <3>3. Calm(q, awaked, started)
        BY <2>3, <2>5
      <3> HIDE DEF f, q
      <3>4. Calm(<<f>> \o q, awaked', started)
        BY <3>1, <3>2, <3>3, <2>1, <2>3, <2>5, CalmStart
      <3>5. Calm(<<next>> \o rest, awaked', started')
        BY <3>1, <3>4, <1>1, <1>2, <1>4, CalmConcat
      <3> QED BY <3>5, <2>1 DEF BeginInv
    <2> QED BY <2>4, <2>5
  <1>6. CASE Top.n # 0
    <2>1. Calm(rest, awaked, started)
      BY <1>2, <1>6, CalmBehind DEF Opens
    <2>2. awaked \subseteq awaked' /\ (\/ stack' = rest \/ stack' = <<next>> \o rest
                                     \/ \E c \in ToSet(comps[x]) : stack' = <<Frame("user", c, TRUE, 0), next>> \o rest)
      BY <1>1, <1>6 DEF LoopStep
    <2>3. \A c \in ToSet(comps[x]) : c \in Components
      BY <1>2, ToSetIs DEF Typed, ListsTyped
    <2>4. ASSUME NEW c \in ToSet(comps[x])
          PROVE  /\ <<Frame("user", c, TRUE, 0), next>> \in Seq(FrameType)
                 /\ Quiet(<<Frame("user", c, TRUE, 0), next>>)
      <3>1. Frame("user", c, TRUE, 0) \in FrameType /\ ~Opens(Frame("user", c, TRUE, 0))
        BY <2>3, QuietFrames DEF ComponentOps
      <3> HIDE DEF next
      <3> QED BY <3>1, <1>3, TwoQuiet
    <2>5. started' = started
      BY <1>1
    <2> HIDE DEF next, rest, x
    <2> QED BY <2>1, <2>2, <2>4, <2>5, <1>2, <1>4, QuietStep, QuietReturn
  <1> QED BY <1>5, <1>6

LEMMA BeginByStart == Typed /\ BeginInv /\ InternalStart => BeginInv'
  <1> SUFFICES ASSUME Typed, BeginInv, InternalStart PROVE BeginInv'
    OBVIOUS
  <1> DEFINE x == Top.x
             rest == Tail(stack)
             next == Frame("start", x, TRUE, Top.n + 1)
  <1>1. At("start") /\ LoopStep("start", started, started') /\ UNCHANGED awaked
    BY InternalShape
  <1>2. stack # <<>> /\ x \in Objects /\ Top.n \in Nat /\ rest \in Seq(FrameType)
    BY <1>1, TopTyped DEF At, Typed, ObjectOps
  <1>3. next \in FrameType /\ ~Opens(next)
    <2>1. "start" \in ObjectOps
      BY DEF ObjectOps
    <2> QED BY <2>1, <1>2, QuietFrames
  <1>4. <<next>> \in Seq(FrameType) /\ Quiet(<<next>>)
    BY <1>3, OneQuiet
  <1>5. CASE Top.n = 0
    <2>1. started' = started \cup {x} /\ stack' = <<next>> \o rest
      BY <1>1, <1>5 DEF LoopStep
    <2>2. Calm(stack, awaked, started) \/ rest = <<>>
      BY <1>1 DEF BeginInv, At
    <2>3. CASE rest = <<>>
      <3> HIDE DEF next, rest, x
      <3>1. Calm(rest, awaked', started')
        BY <2>3 DEF Calm
      <3>2. Calm(<<next>> \o rest, awaked', started')
        BY <3>1, <1>2, <1>4, CalmConcat
      <3> QED BY <3>2, <2>1 DEF BeginInv
    <2>4. CASE Calm(stack, awaked, started)
      <3>1. Calm(rest, awaked, started)
        BY <2>4, <1>2, CalmTail DEF Typed, StackTyped
      <3>2. 1 \in 1..Len(stack) /\ stack[1] = Top
        BY <1>2, TopTyped DEF Typed, StackTyped
      <3>3. \A i \in 1..Len(rest) : i \in Nat /\ i + 1 \in 1..Len(stack) /\ i + 1 # 1 /\ rest[i] = stack[i + 1]
        BY <1>2 DEF Typed, StackTyped
      <3>4. Opens(stack[1]) /\ stack[1].x = x
        BY <3>2, <1>1, <1>5 DEF Opens, At
      <3>5. \A i \in 1..Len(rest) : Opens(rest[i]) => rest[i].x # x
        BY <3>2, <3>3, <3>4, <2>4 DEF Calm
      <3>6. awaked' = awaked
        BY <1>1
      <3> HIDE DEF next, rest, x
      <3> QED BY <3>1, <3>5, <3>6, <2>1, <1>2, <1>4, QuietStep
    <2> QED BY <2>2, <2>3, <2>4
  <1>6. CASE Top.n # 0
    <2>1. Calm(rest, awaked, started)
      BY <1>2, <1>6, CalmBehind DEF Opens
    <2>2. \/ started' = started /\ (stack' = rest \/ stack' = <<next>> \o rest)
          \/ \E c \in ToSet(comps[x]) : /\ started' = started \cup {c}
                                         /\ stack' = <<Frame("user", c, TRUE, 0), next>> \o rest
      BY <1>1, <1>6 DEF LoopStep
    <2>3. \A c \in ToSet(comps[x]) : c \in Components
      BY <1>2, ToSetIs DEF Typed, ListsTyped
    <2>4. ASSUME NEW c \in ToSet(comps[x])
          PROVE  /\ <<Frame("user", c, TRUE, 0), next>> \in Seq(FrameType)
                 /\ Quiet(<<Frame("user", c, TRUE, 0), next>>)
      <3>1. Frame("user", c, TRUE, 0) \in FrameType /\ ~Opens(Frame("user", c, TRUE, 0))
        BY <2>3, QuietFrames DEF ComponentOps
      <3> HIDE DEF next
      <3> QED BY <3>1, <1>3, TwoQuiet
    <2>5. \A i \in 1..Len(rest) : Opens(rest[i]) => rest[i].x \in Objects
      BY <1>2, OpensAnObject
    <2>6. \A i \in 1..Len(rest) : Opens(rest[i]) /\ rest[i].x \in started' => rest[i].x \in started
      BY <2>2, <2>3, <2>5, ObjectAssumption
    <2>7. awaked' = awaked
      BY <1>1
    <2> HIDE DEF next, rest, x
    <2> QED BY <2>1, <2>2, <2>4, <2>6, <2>7, <1>2, <1>4, QuietStep, QuietReturn
  <1> QED BY <1>5, <1>6

LEMMA BeginByComponent ==
    ASSUME Typed, BeginInv, ComponentAwake \/ ComponentStart \/ ComponentSetActive
    PROVE  BeginInv'
  <1> DEFINE x == Top.x
             rest == Tail(stack)
  <1>1. /\ stack # <<>> /\ Top.op \in ComponentOps /\ Top.op \notin {"awake", "start"}
        /\ 0 \in Nat /\ 1 \in Nat /\ TRUE \in BOOLEAN
    BY OnceShape, ComponentSetActiveShape DEF At, ComponentOps
  <1>2. x \in Components /\ rest \in Seq(FrameType)
    BY <1>1, TopTyped DEF Typed
  <1>3. Calm(rest, awaked, started)
    BY <1>1, CalmBehind DEF Opens
  <1>4. /\ awaked \subseteq awaked' /\ started' \subseteq started \cup {x}
        /\ \/ stack' = rest
           \/ stack' = <<Frame("user", x, TRUE, 0)>> \o rest
           \/ stack' = BeginComponent(x) \o rest
    BY OnceShape, ComponentSetActiveShape DEF OnceStep
  <1>5. \A i \in 1..Len(rest) : Opens(rest[i]) => rest[i].x \in Objects
    BY <1>2, OpensAnObject
  <1>6. \A i \in 1..Len(rest) : Opens(rest[i]) /\ rest[i].x \in started' => rest[i].x \in started
    BY <1>2, <1>4, <1>5, ObjectAssumption
  <1>7. <<Frame("user", x, TRUE, 0)>> \in Seq(FrameType) /\ Quiet(<<Frame("user", x, TRUE, 0)>>)
    <2>1. Frame("user", x, TRUE, 0) \in FrameType /\ ~Opens(Frame("user", x, TRUE, 0))
      BY <1>1, <1>2, QuietFrames DEF ComponentOps
    <2> QED BY <2>1, OneQuiet
  <1>8. BeginComponent(x) \in Seq(FrameType) /\ Quiet(BeginComponent(x))
    <2> DEFINE a == Frame("componentAwake", x, TRUE, 0)
               b == Frame("componentStart", x, TRUE, 0)
               c == Frame("componentSetActive", x, TRUE, 1)
    <2>1. /\ a \in FrameType /\ b \in FrameType /\ c \in FrameType
          /\ ~Opens(a) /\ ~Opens(b) /\ ~Opens(c)
      BY <1>1, <1>2, QuietFrames DEF ComponentOps
    <2>2. BeginComponent(x) = <<a, b, c>>
      BY DEF BeginComponent
    <2> HIDE DEF a, b, c
    <2>3. <<a, b, c>> \in Seq(FrameType) /\ \A i \in 1..Len(<<a, b, c>>) : ~Opens(<<a, b, c>>[i])
      BY <2>1
    <2> QED BY <2>2, <2>3 DEF Quiet
  <1> HIDE DEF rest, x
  <1> QED BY <1>2, <1>3, <1>4, <1>6, <1>7, <1>8, QuietStep, QuietReturn

LEMMA BeginBySetActive == Typed /\ BeginInv /\ SetActive => BeginInv'
  <1> SUFFICES ASSUME Typed, BeginInv, SetActive PROVE BeginInv'
    OBVIOUS
  <1> DEFINE x == Top.x
             on == Top.on
             rest == Tail(stack)
             last == Frame("setActive", x, on, 1)
  <1>1. /\ stack # <<>> /\ Top.op \notin {"awake", "start"} /\ x \in Objects /\ on \in BOOLEAN
        /\ awaked' = awaked /\ started' = started
        /\ 0 \in Nat /\ 1 \in Nat /\ TRUE \in BOOLEAN
    BY SetActiveShape DEF At
  <1>2. rest \in Seq(FrameType)
    BY <1>1, TopTyped DEF Typed
  <1>3. Calm(rest, awaked, started)
    BY <1>1, CalmBehind DEF Opens
  <1>4. \/ stack' = <<last>> \o rest
        \/ x \notin awaked /\ x \notin started /\ stack' = (Begin(x) \o <<last>>) \o rest
        \/ \E kids \in Seq(Objects) : stack' = KidFrames(kids, on) \o rest
    BY SetActiveShape DEF MustBegin
  <1>5. last \in FrameType /\ <<last>> \in Seq(FrameType) /\ Quiet(<<last>>)
    BY <1>1, QuietFrames, OneQuiet
  <1>6. CASE stack' = <<last>> \o rest
    <2> HIDE DEF last, rest, x
    <2> QED BY <1>1, <1>2, <1>3, <1>5, <1>6, QuietStep
  <1>7. CASE x \notin awaked /\ x \notin started /\ stack' = (Begin(x) \o <<last>>) \o rest
    <2> DEFINE a == Frame("awake", x, TRUE, 0)
               b == Frame("start", x, TRUE, 0)
    <2>1. a.op = "awake" /\ a.n = 0 /\ a.x = x
      BY DEF Frame
    <2>2. Begin(x) = <<a, b>>
      BY DEF Begin
    <2>3. Calm(<<last>> \o rest, awaked', started')
      <3> HIDE DEF last, rest, x
      <3> QED BY <1>1, <1>2, <1>3, <1>5, CalmConcat
    <2>4. b = Frame("start", x, TRUE, 0)
      OBVIOUS
    <2>5. a \in FrameType /\ b \in FrameType
      BY <1>1, FrameTyped DEF ObjectOps
    <2> HIDE DEF a, b, last, rest
    <2>6. stack' = (<<a, b>> \o <<last>>) \o rest
      BY <2>2, <1>7
    <2>7. ASSUME NEW q \in Seq(FrameType)
          PROVE  LET t == (<<a, b>> \o <<last>>) \o q
                 IN  /\ t # <<>> /\ Head(t) = a /\ Tail(t) # <<>> /\ Head(Tail(t)) = b
                     /\ Tail(Tail(t)) = <<last>> \o q
      <3> DEFINE r == <<last>> \o q
      <3>1. r \in Seq(FrameType)
        BY <1>5
      <3>2. (<<a, b>> \o <<last>>) \o q = <<a>> \o (<<b>> \o r)
        <4> DEFINE A == (<<a, b>> \o <<last>>) \o q
                   B == <<a>> \o (<<b>> \o r)
        <4>1. /\ A \in Seq(FrameType) /\ Len(A) = Len(q) + 3 /\ A[1] = a /\ A[2] = b /\ A[3] = last
              /\ \A i \in 1..Len(q) : A[i + 3] = q[i]
          BY <2>5, <1>5
        <4>2. /\ B \in Seq(FrameType) /\ Len(B) = Len(q) + 3 /\ B[1] = a /\ B[2] = b /\ B[3] = last
              /\ \A i \in 1..Len(q) : B[i + 3] = q[i]
          BY <2>5, <1>5
        <4> HIDE DEF A, B
        <4>3. ASSUME NEW i \in 1..Len(A)
              PROVE  A[i] = B[i]
          <5>1. i \in {1, 2, 3} \/ (i - 3 \in 1..Len(q) /\ i = (i - 3) + 3)
            BY <4>1
          <5>2. CASE i \in {1, 2, 3}
            BY <5>2, <4>1, <4>2
          <5>3. ASSUME NEW j \in 1..Len(q), i = j + 3
                PROVE  A[i] = B[i]
            BY <5>3, <4>1, <4>2
          <5> QED BY <5>1, <5>2, <5>3
        <4>4. A = B
          BY <4>1, <4>2, <4>3
        <4> QED BY <4>4 DEF A, B
      <3> HIDE DEF r
      <3>3. <<b>> \o r \in Seq(FrameType)
        BY <2>5, <3>1
      <3>4. <<b>> \o r # <<>> /\ Head(<<b>> \o r) = b /\ Tail(<<b>> \o r) = r
        BY <2>5, <3>1, ConsIs
      <3> DEFINE m == <<b>> \o r
      <3> HIDE DEF m
      <3>5. <<a>> \o m # <<>> /\ Head(<<a>> \o m) = a /\ Tail(<<a>> \o m) = m
        BY <2>5, <3>3, ConsIs DEF m
      <3> QED BY <3>2, <3>4, <3>5 DEF m, r
    <2>8. /\ stack' # <<>> /\ Head(stack') = a /\ Tail(stack') # <<>> /\ Head(Tail(stack')) = b
          /\ Tail(Tail(stack')) = <<last>> \o rest
      BY <2>6, <2>7, <1>2
    <2>9. Top' = a
      BY <2>8 DEF Top
    <2> QED BY <2>1, <2>3, <2>4, <2>8, <2>9, <1>1, <1>7 DEF BeginInv, At
  <1>8. ASSUME NEW kids \in Seq(Objects), stack' = KidFrames(kids, on) \o rest
        PROVE  BeginInv'
    <2>1. /\ KidFrames(kids, on) \in Seq(FrameType) /\ Len(KidFrames(kids, on)) = Len(kids)
          /\ \A i \in 1..Len(kids) : KidFrames(kids, on)[i].op = "setActive"
      BY <1>1, KidFramesTyped
    <2>2. Quiet(KidFrames(kids, on))
      BY <2>1 DEF Quiet, Opens
    <2> HIDE DEF rest, on
    <2> QED BY <2>1, <2>2, <1>1, <1>2, <1>3, <1>8, QuietStep
  <1> QED BY <1>4, <1>6, <1>7, <1>8

LEMMA BeginByUser == Typed /\ BeginInv /\ User => BeginInv'
  <1> SUFFICES ASSUME Typed, BeginInv, User PROVE BeginInv'
    OBVIOUS
  <1>1. stack \in Seq(FrameType) /\ 0 \in Nat /\ TRUE \in BOOLEAN
    BY DEF Typed, StackTyped
  <1>2. ASSUME stack = <<>> \/ At("user")
        PROVE  /\ Calm(stack, awaked, started)
               /\ stack # <<>> => Tail(stack) \in Seq(FrameType) /\ Calm(Tail(stack), awaked, started)
    <2>1. ~(stack # <<>> /\ Opens(Top))
      BY <1>2 DEF At, Opens
    <2> QED BY <2>1, <1>1, CalmBehind
  <1>3. ASSUME NEW op, UserCall(op)
        PROVE  Calm(stack, awaked, started)
    BY <1>2, <1>3 DEF UserCall
  <1>4. CASE UserReturns
    <2>1. stack # <<>> /\ stack' = Tail(stack) /\ awaked' = awaked /\ started' = started
      BY <1>4 DEF UserReturns, At, Return, flags
    <2>2. Tail(stack) \in Seq(FrameType) /\ Calm(Tail(stack), awaked, started)
      BY <1>2, <1>4, <2>1 DEF UserReturns
    <2> QED BY <2>1, <2>2, QuietReturn
  <1>5. ASSUME NEW f \in FrameType, ~Opens(f), Calm(stack, awaked, started),
               stack' = <<f>> \o stack, awaked' = awaked, started' = started
        PROVE  BeginInv'
    BY <1>1, <1>5, OneQuiet, QuietStep
  <1>6. ASSUME Calm(stack, awaked, started), awaked' = awaked, started' = started,
               stack' = stack \/ stack' = <<>> \o stack
        PROVE  BeginInv'
    <2>1. stack' = stack
      BY <1>1, <1>6
    <2> QED BY <2>1, <1>6 DEF BeginInv
  <1>7. ASSUME NEW g \in Objects, NEW on \in BOOLEAN, CallSetActive(g, on)
        PROVE  BeginInv'
    <2>1. Frame("setActive", g, on, 0) \in FrameType /\ ~Opens(Frame("setActive", g, on, 0))
      BY <1>1, QuietFrames
    <2>2. /\ stack' = <<Frame("setActive", g, on, 0)>> \o stack /\ Calm(stack, awaked, started)
          /\ awaked' = awaked /\ started' = started
      BY <1>3, <1>7 DEF CallSetActive, Call, flags
    <2> QED BY <2>1, <2>2, <1>5
  <1>8. ASSUME NEW c \in Components, NEW on \in BOOLEAN, CallComponentSetActive(c, on)
        PROVE  BeginInv'
    <2>1. Frame("componentSetActive", c, on, 0) \in FrameType /\ ~Opens(Frame("componentSetActive", c, on, 0))
      BY <1>1, QuietFrames DEF ComponentOps
    <2>2. /\ stack' = <<Frame("componentSetActive", c, on, 0)>> \o stack /\ Calm(stack, awaked, started)
          /\ awaked' = awaked /\ started' = started
      BY <1>3, <1>8 DEF CallComponentSetActive, Call, flags
    <2> QED BY <2>1, <2>2, <1>5
  <1>9. ASSUME NEW c \in Components, AddComponent(c)
        PROVE  BeginInv'
    <2>1. Frame("componentStart", c, TRUE, 0) \in FrameType /\ ~Opens(Frame("componentStart", c, TRUE, 0))
      BY <1>1, QuietFrames DEF ComponentOps
    <2>2. /\ stack' = <<Frame("componentStart", c, TRUE, 0)>> \o stack \/ stack' = <<>> \o stack
          /\ Calm(stack, awaked, started) /\ awaked' = awaked /\ started' = started
      BY <1>3, <1>9 DEF AddComponent, Call
    <2> QED BY <2>1, <2>2, <1>5, <1>6
  <1>10. ASSUME NEW g \in Objects, CloneObject(g) \/ DestroyObject(g)
         PROVE  BeginInv'
    BY <1>3, <1>6, <1>10 DEF CloneObject, DestroyObject
  <1>11. ASSUME NEW c \in Components, DestroyComponent(c)
         PROVE  BeginInv'
    BY <1>3, <1>6, <1>11 DEF DestroyComponent
  <1> QED BY <1>4, <1>7, <1>8, <1>9, <1>10, <1>11 DEF User

LEMMA BeginByUpdate ==
    ASSUME Typed, BeginInv,
           \/ StartFrame \/ UpdateAwake \/ UpdateStart \/ RemoveDestroyedGameObjects
           \/ DeleteComponents \/ Execute \/ EndFrame
    PROVE  BeginInv'
  <1>1. stack = <<>> /\ awaked' = awaked /\ started' = started
    BY DEF StartFrame, UpdateAwake, UpdateStart, RemoveDestroyedGameObjects, DeleteComponents,
           Execute, EndFrame, InPhase, flags
  <1>2. 0 \in Nat /\ TRUE \in BOOLEAN /\ stack \in Seq(FrameType) /\ todo \in Seq(Objects)
    BY DEF Typed, StackTyped, PlaceTyped
  <1>3. ASSUME stack' = stack \/ stack' = <<>> \o stack
        PROVE  BeginInv'
    <2>1. stack' = <<>>
      BY <1>1, <1>3
    <2> QED BY <2>1 DEF BeginInv, Calm
  <1>4. ASSUME NEW f \in FrameType, stack' = <<f>> \o stack
        PROVE  stack' # <<>> /\ Top' = f /\ Tail(stack') = <<>>
    <2>1. stack' # <<>> /\ Head(stack') = f /\ Tail(stack') = stack
      BY <1>2, <1>4, ConsIs
    <2> QED BY <2>1, <1>1 DEF Top
  <1>5. todo # <<>> => Head(todo) \in Objects
    BY <1>2
  <1>6. ASSUME NEW g \in Objects, NEW op \in {"awake", "start"}, stack' = <<Frame(op, g, TRUE, 0)>> \o stack,
               op = "awake" => g \notin awaked, op = "start" => g \notin started
        PROVE  BeginInv'
    <2> DEFINE f == Frame(op, g, TRUE, 0)
    <2>1. f \in FrameType /\ f.op = op /\ f.x = g /\ f.n = 0
      BY <1>2 DEF Frame, FrameType, ObjectOps
    <2> HIDE DEF f
    <2>2. stack' # <<>> /\ Top' = f /\ Tail(stack') = <<>>
      BY <2>1, <1>4, <1>6 DEF f
    <2> QED BY <2>1, <2>2, <1>1, <1>6 DEF BeginInv, At
  <1>7. CASE UpdateAwake
    <2>1. CASE todo = <<>>
      BY <2>1, <1>3, <1>7 DEF UpdateAwake
    <2>2. CASE todo # <<>>
      <3> DEFINE g == Head(todo)
      <3>1. UpdateObject(g, g \notin awaked, "awake") /\ g \in Objects
        BY <2>2, <1>5, <1>7 DEF UpdateAwake
      <3> HIDE DEF g
      <3> QED BY <3>1, <1>3, <1>6 DEF UpdateObject, Call
    <2> QED BY <2>1, <2>2
  <1>8. CASE UpdateStart
    <2>1. CASE todo = <<>>
      BY <2>1, <1>3, <1>8 DEF UpdateStart
    <2>2. CASE todo # <<>>
      <3> DEFINE g == Head(todo)
      <3>1. UpdateObject(g, g \notin started, "start") /\ g \in Objects
        BY <2>2, <1>5, <1>8 DEF UpdateStart, MustStart
      <3> HIDE DEF g
      <3> QED BY <3>1, <1>3, <1>6 DEF UpdateObject, Call
    <2> QED BY <2>1, <2>2
  <1>9. CASE Execute
    <2> DEFINE c == handler[at[1]][at[2]]
    <2>1. at[1] \in Types /\ at \in Nat \X Nat /\ at[2] > 0 /\ handler[at[1]] \in Seq(Components)
      BY <1>9 DEF Execute, Typed, PlaceTyped, ListsTyped
    <2>2. CASE at[2] > Len(handler[at[1]])
      BY <2>2, <1>3, <1>9 DEF Execute
    <2>3. CASE ~(at[2] > Len(handler[at[1]]))
      <3>1. Call(IF Runs(c) THEN <<Frame("user", c, TRUE, 0)>> ELSE <<>>)
        BY <2>3, <1>9 DEF Execute
      <3>2. at[2] \in 1..Len(handler[at[1]])
        BY <2>1, <2>3
      <3>3. c \in Components
        BY <2>1, <3>2
      <3> HIDE DEF c
      <3>4. Frame("user", c, TRUE, 0) \in FrameType /\ ~Opens(Frame("user", c, TRUE, 0))
        BY <3>3, <1>2, QuietFrames DEF ComponentOps
      <3>5. Calm(stack, awaked, started)
        BY <1>1 DEF Calm
      <3> QED BY <3>1, <3>4, <3>5, <1>1, <1>2, <1>3, OneQuiet, QuietStep DEF Call
    <2> QED BY <2>2, <2>3
  <1>10. CASE StartFrame \/ RemoveDestroyedGameObjects \/ DeleteComponents \/ EndFrame
    BY <1>3, <1>10 DEF StartFrame, RemoveDestroyedGameObjects, DeleteComponents, EndFrame
  <1> QED BY <1>7, <1>8, <1>9, <1>10

LEMMA BeginIsInductive == Typed /\ BeginInv /\ [ObjectsNext]_objectsVars => BeginInv'
  <1> SUFFICES ASSUME Typed, BeginInv, [ObjectsNext]_objectsVars PROVE BeginInv'
    OBVIOUS
  <1>1. CASE UNCHANGED objectsVars
    BY <1>1 DEF objectsVars, flags, BeginInv, At, Top
  <1>2. CASE ObjectsNext
    BY <1>2, BeginByAwake, BeginByStart, BeginByComponent, BeginBySetActive, BeginByUser, BeginByUpdate
       DEF ObjectsNext, MainStep
  <1> QED BY <1>1, <1>2

(* No object awakes or starts twice, whoever activates it from whichever   *)
(* callback: the assertions of InternalAwake and InternalStart hold for    *)
(* any objects, components and number of calls.                            *)
THEOREM NoObjectBeginsTwice == ObjectsSpec => []BeginsOnce
  <1>1. ObjectsInit => BeginInv
    BY InitIs DEF BeginInv, Calm
  <1>2. Typed /\ BeginInv => BeginsOnce
    <2> SUFFICES ASSUME Typed, BeginInv PROVE BeginsOnce
      OBVIOUS
    <2>1. stack # <<>> => 1 \in 1..Len(stack) /\ stack[1] = Top
      BY TopTyped DEF Typed, StackTyped
    <2> QED BY <2>1 DEF BeginInv, BeginsOnce, Calm, Opens, At
  <1>3. ObjectsSpec => [](Typed /\ BeginInv)
    BY <1>1, InitTyped, TypedIsInductive, BeginIsInductive, PTL DEF ObjectsSpec
  <1> QED BY <1>2, <1>3, PTL

-----------------------------------------------------------------------------
(* ListsAgree.  An object is in the two lists once, and was made; it owns  *)
(* what is in its myComponents, which is empty for an object that is not   *)
(* there; and a component is alive when its handler has it.                *)
Owned ==
    \A g \in Objects :
        /\ IsInjective(comps[g])
        /\ \A c \in ToSet(comps[g]) : OwnerOf[c] = g /\ Exists(g) /\ c \in made

HandlersKnow ==
    /\ \A y \in Types : IsInjective(handler[y])
    /\ \A c \in Components : Alive(c) <=> c \in ToSet(handler[TypeOf[c]])

ListInv ==
    /\ IsInjective(list \o toAdd)
    /\ \A g \in Objects : Exists(g) => g \in made
    /\ Owned
    /\ HandlersKnow

LEMMA AliveIs ==
    ASSUME Typed, Owned, NEW c \in Components
    PROVE  Alive(c) <=> c \in ToSet(comps[OwnerOf[c]])
  <1>1. OwnerOf[c] \in Objects
    BY ObjectAssumption
  <1> QED BY <1>1 DEF Owned, Alive

LEMMA ExistsIs ==
    ASSUME Typed, NEW g
    PROVE  Exists(g) <=> g \in ToSet(list \o toAdd)
  <1>1. ToSet(list \o toAdd) = ToSet(list) \cup ToSet(toAdd)
    BY ToSetConcat DEF Typed, ListsTyped
  <1> QED BY <1>1 DEF Exists

LEMMA EmptySet == ToSet(<<>>) = {}
  BY DEF ToSet

LEMMA ListsByOthers ==
    ASSUME ListInv, UNCHANGED lists, made \subseteq made'
    PROVE  ListInv'
  <1>1. list' = list /\ toAdd' = toAdd /\ comps' = comps /\ handler' = handler
    BY DEF lists
  <1>2. \A g : Exists(g)' <=> Exists(g)
    BY <1>1 DEF Exists
  <1>3. \A c : Alive(c)' <=> Alive(c)
    BY <1>1 DEF Alive, Exists
  <1>4. Owned'
    BY <1>1, <1>2 DEF ListInv, Owned
  <1>5. HandlersKnow'
    BY <1>1, <1>3 DEF ListInv, HandlersKnow
  <1> QED BY <1>1, <1>2, <1>4, <1>5 DEF ListInv

LEMMA ListsByQueue ==
    ASSUME Typed, ListInv, CreateQueuedGameObjects, UNCHANGED <<comps, handler, made>>
    PROVE  ListInv'
  <1>1. list' = list \o toAdd /\ toAdd' = <<>>
    BY DEF CreateQueuedGameObjects
  <1>2. list \o toAdd \in Seq(Objects)
    BY DEF Typed, ListsTyped
  <1>3. \A s \in Seq(Objects) : s \o <<>> = s
    OBVIOUS
  <1>4. IsInjective(list' \o toAdd')
    BY <1>1, <1>2, <1>3 DEF ListInv
  <1>5. ToSet(list') \cup ToSet(toAdd') = ToSet(list) \cup ToSet(toAdd)
    BY <1>1, EmptySet, ToSetConcat DEF Typed, ListsTyped
  <1>6. \A g : Exists(g)' <=> Exists(g)
    BY <1>5 DEF Exists
  <1>7. \A c : Alive(c)' <=> Alive(c)
    BY <1>5 DEF Alive, Exists
  <1>8. Owned'
    BY <1>6 DEF ListInv, Owned
  <1>9. HandlersKnow'
    BY <1>7 DEF ListInv, HandlersKnow
  <1> QED BY <1>4, <1>6, <1>8, <1>9 DEF ListInv

LEMMA ListsByAdd ==
    ASSUME Typed, ListInv, NEW c \in Components, AddComponent(c)
    PROVE  ListInv'
  <1> DEFINE g == OwnerOf[c]
             y == TypeOf[c]
  <1>1. /\ g \in Objects /\ y \in Types /\ comps[g] \in Seq(Components) /\ handler[y] \in Seq(Components)
        /\ comps \in [Objects -> Seq(Components)] /\ handler \in [Types -> Seq(Components)]
        /\ \A d \in Components : OwnerOf[d] \in Objects /\ TypeOf[d] \in Types
    BY ObjectAssumption DEF Typed, ListsTyped
  <1>2. /\ Exists(g) /\ c \notin made /\ made' = made \cup {c}
        /\ comps' = [comps EXCEPT ![g] = Append(comps[g], c)]
        /\ handler' = [handler EXCEPT ![y] = Append(handler[y], c)]
        /\ list' = list /\ toAdd' = toAdd
    BY DEF AddComponent
  <1>3. \A h : Exists(h)' <=> Exists(h)
    BY <1>2 DEF Exists
  <1>4. c \notin ToSet(comps[g])
    BY <1>1, <1>2 DEF ListInv, Owned
  <1>5. c \notin ToSet(handler[y])
    BY <1>4, AliveIs DEF ListInv, HandlersKnow
  <1>6. /\ ToSet(Append(comps[g], c)) = ToSet(comps[g]) \cup {c}
        /\ ToSet(Append(handler[y], c)) = ToSet(handler[y]) \cup {c}
    BY <1>1, ToSetAppend
  <1>7. IsInjective(Append(comps[g], c)) /\ IsInjective(Append(handler[y], c))
    BY <1>1, <1>4, <1>5, InjectiveAppend DEF ListInv, Owned, HandlersKnow
  <1> HIDE DEF g, y
  <1>8. \A h \in Objects : ToSet(comps'[h]) = IF h = g THEN ToSet(comps[g]) \cup {c} ELSE ToSet(comps[h])
    BY <1>1, <1>2, <1>6
  <1>9. \A z \in Types : ToSet(handler'[z]) = IF z = y THEN ToSet(handler[y]) \cup {c} ELSE ToSet(handler[z])
    BY <1>1, <1>2, <1>6
  <1>10. Owned'
    <2>1. ASSUME NEW h \in Objects
          PROVE  IsInjective(comps'[h])
      BY <1>1, <1>2, <1>7 DEF ListInv, Owned
    <2>2. ASSUME NEW h \in Objects, NEW d \in ToSet(comps'[h])
          PROVE  OwnerOf[d] = h /\ Exists(h)' /\ d \in made'
      <3>1. CASE d \in ToSet(comps[h])
        BY <3>1, <1>2, <1>3 DEF ListInv, Owned
      <3>2. CASE h = g /\ d = c
        BY <3>2, <1>2, <1>3 DEF g
      <3> QED BY <3>1, <3>2, <2>2, <1>8
    <2> QED BY <2>1, <2>2 DEF Owned
  <1>11. HandlersKnow'
    <2>1. ASSUME NEW z \in Types
          PROVE  IsInjective(handler'[z])
      BY <1>1, <1>2, <1>7 DEF ListInv, HandlersKnow
    <2>2. ASSUME NEW d \in Components
          PROVE  Alive(d)' <=> d \in ToSet(handler'[TypeOf[d]])
      <3>1. Alive(d)' <=> Exists(OwnerOf[d])' /\ d \in ToSet(comps'[OwnerOf[d]])
        BY DEF Alive
      <3>2. d = c => OwnerOf[d] = g /\ TypeOf[d] = y
        BY DEF g, y
      <3>3. Alive(d) <=> d \in ToSet(handler[TypeOf[d]])
        BY DEF ListInv, HandlersKnow
      <3>4. CASE d = c
        BY <3>1, <3>2, <3>4, <1>1, <1>2, <1>3, <1>8, <1>9
      <3>5. CASE d # c
        <4>1. d \in ToSet(comps'[OwnerOf[d]]) <=> d \in ToSet(comps[OwnerOf[d]])
          BY <3>5, <1>1, <1>8
        <4>2. d \in ToSet(handler'[TypeOf[d]]) <=> d \in ToSet(handler[TypeOf[d]])
          BY <3>5, <1>1, <1>9
        <4> QED BY <4>1, <4>2, <3>1, <3>3, <1>3 DEF Alive
      <3> QED BY <3>4, <3>5
    <2> QED BY <2>1, <2>2 DEF HandlersKnow
  <1> QED BY <1>2, <1>3, <1>10, <1>11 DEF ListInv

LEMMA ListsByClone ==
    ASSUME Typed, ListInv, NEW g \in Objects, CloneObject(g)
    PROVE  ListInv'
  <1> DEFINE new == Tree[g]
             pre == PrefabSeq(new)
  <1>1. /\ ToSet(new) \cap made = {} /\ list' = list
        /\ toAdd' = toAdd \o new
        /\ comps' = [h \in Objects |-> IF h \in ToSet(new) THEN Prefab[h] ELSE comps[h]]
        /\ handler' = [y \in Types |-> handler[y] \o OfType(y, pre)]
        /\ made' = made \cup ToSet(new) \cup ToSet(pre)
    BY DEF CloneObject
  <1>2. new \in Seq(Objects) /\ ToSet(new) \subseteq Objects /\ IsInjective(new)
    BY TreeSet, TreeInjective
  <1> HIDE DEF new
  <1>3. /\ pre \in Seq(Components) /\ IsInjective(pre) /\ ToSet(pre) \subseteq Components
        /\ \A c : c \in ToSet(pre) <=> \E h \in ToSet(new) : c \in ToSet(Prefab[h])
    BY <1>2, PrefabsAre, ToSetIs
  <1> HIDE DEF pre
  <1>4. /\ list \in Seq(Objects) /\ toAdd \in Seq(Objects) /\ list \o toAdd \in Seq(Objects)
        /\ \A y \in Types : handler[y] \in Seq(Components)
        /\ comps \in [Objects -> Seq(Components)]
        /\ \A d \in Components : OwnerOf[d] \in Objects /\ TypeOf[d] \in Types
    BY ObjectAssumption DEF Typed, ListsTyped
  <1>5. ToSet(list \o toAdd) \cap ToSet(new) = {}
    BY <1>1, <1>2, ExistsIs DEF ListInv
  <1>6. IsInjective(list' \o toAdd')
    <2>1. IsInjective((list \o toAdd) \o new)
      BY <1>2, <1>4, <1>5, InjectiveConcat DEF ListInv
    <2>2. (list \o toAdd) \o new = list \o (toAdd \o new)
      BY <1>2, <1>4
    <2> QED BY <2>1, <2>2, <1>1
  <1>7. \A h : Exists(h)' <=> Exists(h) \/ h \in ToSet(new)
    <2>1. ToSet(toAdd \o new) = ToSet(toAdd) \cup ToSet(new)
      BY <1>2, <1>4, ToSetConcat
    <2> QED BY <2>1, <1>1 DEF Exists
  <1>8. \A h \in Objects : Exists(h)' => h \in made'
    BY <1>1, <1>7 DEF ListInv
  <1>9. ASSUME NEW h \in Objects, NEW c \in ToSet(Prefab[h])
        PROVE  OwnerOf[c] = h
    BY ForestAssumption, <1>9
  <1>10. Owned'
    <2>1. ASSUME NEW h \in Objects
          PROVE  /\ IsInjective(comps'[h])
                 /\ \A c \in ToSet(comps'[h]) : OwnerOf[c] = h /\ Exists(h)' /\ c \in made'
      <3>1. CASE h \in ToSet(new)
        <4>1. comps'[h] = Prefab[h]
          BY <3>1, <1>1
        <4>2. IsInjective(Prefab[h])
          BY ForestAssumption
        <4>3. \A c \in ToSet(Prefab[h]) : c \in made'
          BY <3>1, <1>1, <1>3
        <4> QED BY <3>1, <4>1, <4>2, <4>3, <1>7, <1>9
      <3>2. CASE h \notin ToSet(new)
        <4>1. comps'[h] = comps[h]
          BY <3>2, <1>1
        <4> QED BY <4>1, <1>1, <1>7 DEF ListInv, Owned
      <3> QED BY <3>1, <3>2
    <2> QED BY <2>1 DEF Owned
  <1>11. ASSUME NEW y \in Types
         PROVE  /\ OfType(y, pre) \in Seq(Components) /\ IsInjective(OfType(y, pre))
                /\ ToSet(OfType(y, pre)) = {c \in ToSet(pre) : TypeOf[c] = y}
                /\ ToSet(handler'[y]) = ToSet(handler[y]) \cup {c \in ToSet(pre) : TypeOf[c] = y}
    <2>1. /\ OfType(y, pre) \in Seq(Components) /\ IsInjective(OfType(y, pre))
          /\ ToSet(OfType(y, pre)) = {c \in ToSet(pre) : TypeOf[c] = y}
      BY <1>3, OfTypeIs
    <2>2. ToSet(handler[y] \o OfType(y, pre)) = ToSet(handler[y]) \cup ToSet(OfType(y, pre))
      BY <2>1, <1>4, ToSetConcat
    <2> QED BY <2>1, <2>2, <1>1
  <1>12. ASSUME NEW c \in ToSet(pre)
         PROVE  OwnerOf[c] \in ToSet(new) /\ ~Exists(OwnerOf[c]) /\ c \in ToSet(Prefab[OwnerOf[c]])
    <2>1. PICK h \in ToSet(new) : c \in ToSet(Prefab[h])
      BY <1>3
    <2>2. OwnerOf[c] = h
      BY <2>1, <1>2, <1>9
    <2> QED BY <2>1, <2>2, <1>1, <1>2 DEF ListInv
  <1>13. HandlersKnow'
    <2>1. ASSUME NEW y \in Types
          PROVE  IsInjective(handler'[y])
      <3>1. ToSet(handler[y]) \cap ToSet(OfType(y, pre)) = {}
        <4>1. ASSUME NEW c \in ToSet(handler[y]), NEW d \in ToSet(OfType(y, pre)), c = d
              PROVE  FALSE
          <5>1. c \in Components /\ TypeOf[c] = y /\ c \in ToSet(pre)
            BY <4>1, <1>3, <1>11
          <5>2. Alive(c)
            BY <5>1 DEF ListInv, HandlersKnow
          <5> QED BY <5>1, <5>2, <1>12 DEF Alive
        <4> QED BY <4>1
      <3>2. IsInjective(handler[y] \o OfType(y, pre))
        BY <3>1, <1>4, <1>11, InjectiveConcat DEF ListInv, HandlersKnow
      <3> QED BY <3>2, <1>1
    <2>2. ASSUME NEW c \in Components
          PROVE  Alive(c)' <=> c \in ToSet(handler'[TypeOf[c]])
      <3> DEFINE h == OwnerOf[c]
      <3>1. h \in Objects /\ TypeOf[c] \in Types
        BY <1>4
      <3>2. Alive(c)' <=> Exists(h)' /\ c \in ToSet(comps'[h])
        BY DEF Alive
      <3>3. c \in ToSet(handler'[TypeOf[c]]) <=> c \in ToSet(handler[TypeOf[c]]) \/ c \in ToSet(pre)
        BY <3>1, <1>11
      <3>4. c \in ToSet(handler[TypeOf[c]]) <=> Exists(h) /\ c \in ToSet(comps[h])
        BY DEF ListInv, HandlersKnow, Alive
      <3> HIDE DEF h
      <3>5. CASE h \in ToSet(new)
        <4>1. comps'[h] = Prefab[h] /\ Exists(h)' /\ ~Exists(h)
          BY <3>1, <3>5, <1>1, <1>7 DEF ListInv
        <4>2. c \in ToSet(pre) <=> c \in ToSet(Prefab[h])
          BY <3>5, <1>3, <1>12 DEF h
        <4> QED BY <3>2, <3>3, <3>4, <4>1, <4>2
      <3>6. CASE h \notin ToSet(new)
        <4>1. comps'[h] = comps[h] /\ (Exists(h)' <=> Exists(h))
          BY <3>1, <3>6, <1>1, <1>7
        <4>2. c \notin ToSet(pre)
          BY <3>6, <1>12 DEF h
        <4> QED BY <3>2, <3>3, <3>4, <4>1, <4>2
      <3> QED BY <3>5, <3>6
    <2> QED BY <2>1, <2>2 DEF HandlersKnow
  <1> QED BY <1>6, <1>8, <1>10, <1>13 DEF ListInv

LEMMA ListsByRemove ==
    ASSUME Typed, ListInv, RemoveDestroyedGameObjects
    PROVE  ListInv'
  <1> DEFINE dead == ToSet(list) \ ToSet(Kept)
             kept == Kept
  <1>1. /\ list' = kept /\ toAdd' = toAdd /\ made' = made
        /\ comps' = [g \in Objects |-> IF g \in dead THEN <<>> ELSE comps[g]]
        /\ handler' = [y \in Types |-> Only(handler[y], {c \in Components : OwnerOf[c] \notin dead})]
    BY DEF RemoveDestroyedGameObjects, Released, flags
  <1>2. /\ list \in Seq(Objects) /\ toAdd \in Seq(Objects)
        /\ \A y \in Types : handler[y] \in Seq(Components)
        /\ comps \in [Objects -> Seq(Components)]
        /\ \A d \in Components : OwnerOf[d] \in Objects /\ TypeOf[d] \in Types
    BY ObjectAssumption DEF Typed, ListsTyped
  <1>3. dead \subseteq ToSet(list) /\ ToSet(list) \subseteq Objects
    BY <1>2, ToSetIs
  <1>4. IsInjective(list) /\ IsInjective(toAdd) /\ ToSet(list) \cap ToSet(toAdd) = {}
    BY <1>2, InjectiveConcat DEF ListInv
  <1>5. /\ kept \in Seq(Objects) /\ ToSet(kept) = ToSet(list) \cap (Objects \ dead)
        /\ IsInjective(kept)
    BY <1>2, <1>3, <1>4, KeptIs
  <1> HIDE DEF dead, kept
  <1>6. IsInjective(list' \o toAdd')
    BY <1>1, <1>2, <1>4, <1>5, InjectiveConcat
  <1>7. \A g : Exists(g)' <=> Exists(g) /\ g \notin dead
    BY <1>1, <1>3, <1>4, <1>5 DEF Exists
  <1>8. Owned'
    <2>1. ASSUME NEW g \in Objects
          PROVE  /\ IsInjective(comps'[g])
                 /\ \A c \in ToSet(comps'[g]) : OwnerOf[c] = g /\ Exists(g)' /\ c \in made'
      <3>1. CASE g \in dead
        <4>1. comps'[g] = <<>>
          BY <3>1, <1>1
        <4>2. IsInjective(<<>>)
          BY DEF IsInjective
        <4> QED BY <4>1, <4>2, EmptySet
      <3>2. CASE g \notin dead
        <4>1. comps'[g] = comps[g]
          BY <3>2, <1>1
        <4> QED BY <3>2, <4>1, <1>1, <1>7 DEF ListInv, Owned
      <3> QED BY <3>1, <3>2
    <2> QED BY <2>1 DEF Owned
  <1>9. ASSUME NEW y \in Types
        PROVE  /\ IsInjective(handler'[y])
               /\ \A c \in Components : c \in ToSet(handler'[y]) <=> c \in ToSet(handler[y]) /\ OwnerOf[c] \notin dead
    <2> DEFINE live == {c \in Components : OwnerOf[c] \notin dead}
    <2>1. handler'[y] = Only(handler[y], live)
      BY <1>1
    <2>2. /\ ToSet(Only(handler[y], live)) = ToSet(handler[y]) \cap live
          /\ IsInjective(handler[y]) => IsInjective(Only(handler[y], live))
      BY <1>2, OnlyIs
    <2>3. IsInjective(handler[y])
      BY DEF ListInv, HandlersKnow
    <2> QED BY <2>1, <2>2, <2>3
  <1>10. ASSUME NEW c \in Components
         PROVE  Alive(c)' <=> Alive(c) /\ OwnerOf[c] \notin dead
    <2>1. OwnerOf[c] \in Objects
      BY <1>2
    <2>2. OwnerOf[c] \notin dead => comps'[OwnerOf[c]] = comps[OwnerOf[c]]
      BY <2>1, <1>1
    <2> QED BY <2>2, <1>7 DEF Alive
  <1>11. HandlersKnow'
    BY <1>2, <1>9, <1>10 DEF ListInv, HandlersKnow
  <1> QED BY <1>1, <1>6, <1>7, <1>8, <1>11 DEF ListInv

LEMMA ListsByDelete ==
    ASSUME Typed, ListInv, DeleteComponents
    PROVE  ListInv'
  <1> DEFINE y == at[1]
             dead == ToSet(handler[y]) \cap destroyed
             live == Components \ dead
  <1>1. /\ y \in Types /\ list' = list /\ toAdd' = toAdd /\ made' = made
        /\ comps' = [g \in Objects |-> Only(comps[g], live)]
        /\ handler' = [handler EXCEPT ![y] = Only(handler[y], live)]
    BY DEF DeleteComponents, Remaining, flags
  <1>2. /\ \A z \in Types : handler[z] \in Seq(Components)
        /\ handler \in [Types -> Seq(Components)]
        /\ \A g \in Objects : comps[g] \in Seq(Components)
        /\ \A d \in Components : OwnerOf[d] \in Objects /\ TypeOf[d] \in Types
        /\ \A d \in ToSet(handler[y]) : TypeOf[d] = y
    BY <1>1, ObjectAssumption DEF Typed, ListsTyped
  <1>3. \A d \in dead : TypeOf[d] = y
    BY <1>2
  <1>4. \A g : Exists(g)' <=> Exists(g)
    BY <1>1 DEF Exists
  <1> HIDE DEF dead
  <1>5. ASSUME NEW g \in Objects
        PROVE  ToSet(comps'[g]) = ToSet(comps[g]) \cap live /\ IsInjective(comps'[g])
    <2>1. /\ ToSet(Only(comps[g], live)) = ToSet(comps[g]) \cap live
          /\ IsInjective(comps[g]) => IsInjective(Only(comps[g], live))
      BY <1>2, OnlyIs
    <2>2. IsInjective(comps[g])
      BY DEF ListInv, Owned
    <2> QED BY <2>1, <2>2, <1>1
  <1>6. /\ ToSet(Only(handler[y], live)) = ToSet(handler[y]) \cap live
        /\ IsInjective(Only(handler[y], live))
    <2>1. IsInjective(handler[y])
      BY <1>1 DEF ListInv, HandlersKnow
    <2> QED BY <2>1, <1>1, <1>2, OnlyIs
  <1> HIDE DEF y
  <1>7. ASSUME NEW z \in Types
        PROVE  /\ IsInjective(handler'[z])
               /\ z = y => ToSet(handler'[z]) = ToSet(handler[z]) \cap live
               /\ z # y => ToSet(handler'[z]) = ToSet(handler[z])
    <2>1. handler'[z] = IF z = y THEN Only(handler[y], live) ELSE handler[z]
      BY <1>1, <1>2
    <2>2. IsInjective(handler[z])
      BY DEF ListInv, HandlersKnow
    <2> HIDE DEF live
    <2> QED BY <2>1, <2>2, <1>6
  <1>8. Owned'
    BY <1>1, <1>4, <1>5 DEF ListInv, Owned
  <1>9. ASSUME NEW c \in Components
        PROVE  Alive(c)' <=> c \in ToSet(handler'[TypeOf[c]])
    <2>1. Alive(c)' <=> Alive(c) /\ c \notin dead
      BY <1>2, <1>4, <1>5 DEF Alive
    <2>2. Alive(c) <=> c \in ToSet(handler[TypeOf[c]])
      BY DEF ListInv, HandlersKnow
    <2>3. c \in ToSet(handler'[TypeOf[c]]) <=> c \in ToSet(handler[TypeOf[c]]) /\ c \notin dead
      <3>1. TypeOf[c] \in Types
        BY <1>2
      <3>2. CASE TypeOf[c] = y
        BY <3>1, <3>2, <1>7
      <3>3. CASE TypeOf[c] # y
        BY <3>1, <3>3, <1>3, <1>7
      <3> QED BY <3>2, <3>3
    <2> QED BY <2>1, <2>2, <2>3
  <1>10. HandlersKnow'
    BY <1>7, <1>9 DEF HandlersKnow
  <1> QED BY <1>1, <1>4, <1>8, <1>10 DEF ListInv

LEMMA ListsAtFirst == ObjectsInit => ListInv
  <1> SUFFICES ASSUME ObjectsInit PROVE ListInv
    OBVIOUS
  <1> DEFINE pre == PrefabSeq(Roots)
  <1>1. /\ list = <<>> /\ toAdd = Roots
        /\ comps = [g \in Objects |-> IF g \in ToSet(Roots) THEN Prefab[g] ELSE <<>>]
        /\ handler = [y \in Types |-> OfType(y, pre)]
        /\ made = ToSet(Roots) \cup ToSet(pre)
    BY InitIs
  <1>2. Roots \in Seq(Objects) /\ IsInjective(Roots) /\ ToSet(Roots) \subseteq Objects
    BY RootsAre, ToSetIs
  <1>3. /\ pre \in Seq(Components) /\ IsInjective(pre)
        /\ \A c : c \in ToSet(pre) <=> \E h \in ToSet(Roots) : c \in ToSet(Prefab[h])
    BY <1>2, PrefabsAre
  <1> HIDE DEF pre
  <1>4. <<>> \o Roots = Roots
    BY <1>2
  <1>5. \A g : Exists(g) <=> g \in ToSet(Roots)
    BY <1>1, EmptySet DEF Exists
  <1>6. ASSUME NEW g \in Objects
        PROVE  /\ IsInjective(comps[g])
               /\ \A c \in ToSet(comps[g]) : OwnerOf[c] = g /\ Exists(g) /\ c \in made
    <2>1. CASE g \in ToSet(Roots)
      <3>1. comps[g] = Prefab[g]
        BY <2>1, <1>1
      <3>2. IsInjective(Prefab[g]) /\ \A c \in ToSet(Prefab[g]) : OwnerOf[c] = g
        BY ForestAssumption
      <3>3. \A c \in ToSet(Prefab[g]) : c \in made
        BY <2>1, <1>1, <1>3
      <3> QED BY <2>1, <3>1, <3>2, <3>3, <1>5
    <2>2. CASE g \notin ToSet(Roots)
      <3>1. comps[g] = <<>>
        BY <2>2, <1>1
      <3>2. IsInjective(<<>>)
        BY DEF IsInjective
      <3> QED BY <3>1, <3>2, EmptySet
    <2> QED BY <2>1, <2>2
  <1>7. ASSUME NEW y \in Types
        PROVE  IsInjective(handler[y]) /\ ToSet(handler[y]) = {c \in ToSet(pre) : TypeOf[c] = y}
    BY <1>1, <1>3, OfTypeIs
  <1>8. ASSUME NEW c \in Components
        PROVE  Alive(c) <=> c \in ToSet(handler[TypeOf[c]])
    <2>1. OwnerOf[c] \in Objects /\ TypeOf[c] \in Types
      BY ObjectAssumption
    <2>2. c \in ToSet(handler[TypeOf[c]]) <=> c \in ToSet(pre)
      BY <2>1, <1>7
    <2>3. ASSUME c \in ToSet(pre)
          PROVE  Alive(c)
      <3>1. PICK h \in ToSet(Roots) : c \in ToSet(Prefab[h])
        BY <2>3, <1>3
      <3>2. OwnerOf[c] = h
        BY <3>1, <1>2, ForestAssumption
      <3>3. comps[h] = Prefab[h]
        BY <3>1, <1>1, <1>2
      <3> QED BY <3>1, <3>2, <3>3, <1>5 DEF Alive
    <2>4. ASSUME Alive(c)
          PROVE  c \in ToSet(pre)
      <3>1. OwnerOf[c] \in ToSet(Roots) /\ c \in ToSet(comps[OwnerOf[c]])
        BY <2>4, <1>5 DEF Alive
      <3>2. comps[OwnerOf[c]] = Prefab[OwnerOf[c]]
        BY <3>1, <2>1, <1>1
      <3> QED BY <3>1, <3>2, <1>3
    <2> QED BY <2>2, <2>3, <2>4
  <1> QED BY <1>1, <1>2, <1>4, <1>5, <1>6, <1>7, <1>8 DEF ListInv, Owned, HandlersKnow

LEMMA ListsAreInductive == Typed /\ ListInv /\ [ObjectsNext]_objectsVars => ListInv'
  <1> SUFFICES ASSUME Typed, ListInv, [ObjectsNext]_objectsVars PROVE ListInv'
    OBVIOUS
  <1>1. CASE UNCHANGED objectsVars
    BY <1>1, ListsByOthers DEF objectsVars, flags
  <1>2. CASE \/ InternalAwake \/ InternalStart \/ ComponentAwake \/ ComponentStart
             \/ SetActive \/ ComponentSetActive
    BY <1>2, InternalShape, OnceShape, SetActiveShape, ComponentSetActiveShape, ListsByOthers
  <1>3. CASE UpdateAwake \/ UpdateStart \/ Execute \/ UserReturns
    BY <1>3, ListsByOthers DEF UpdateAwake, UpdateStart, Execute, UserReturns, flags
  <1>4. CASE StartFrame \/ EndFrame
    BY <1>4, ListsByQueue DEF StartFrame, EndFrame, flags
  <1>5. ASSUME NEW g \in Objects, NEW on \in BOOLEAN, CallSetActive(g, on)
        PROVE  ListInv'
    BY <1>5, ListsByOthers DEF CallSetActive, flags
  <1>6. ASSUME NEW c \in Components, NEW on \in BOOLEAN, CallComponentSetActive(c, on)
        PROVE  ListInv'
    BY <1>6, ListsByOthers DEF CallComponentSetActive, flags
  <1>7. ASSUME NEW g \in Objects, DestroyObject(g)
        PROVE  ListInv'
    BY <1>7, ListsByOthers DEF DestroyObject
  <1>8. ASSUME NEW c \in Components, DestroyComponent(c)
        PROVE  ListInv'
    BY <1>8, ListsByOthers DEF DestroyComponent
  <1> QED BY <1>1, <1>2, <1>3, <1>4, <1>5, <1>6, <1>7, <1>8,
             ListsByAdd, ListsByClone, ListsByRemove, ListsByDelete DEF ObjectsNext, MainStep, User

LEMMA AgreeIs == Typed /\ ListInv => ListsAgree
  <1> SUFFICES ASSUME Typed, ListInv PROVE ListsAgree
    OBVIOUS
  <1> DEFINE gs == list \o toAdd
             n == Cardinality(Types)
             parts == [i \in 1..Len(gs) |-> comps[gs[i]]]
             runs == [y \in 1..n |-> handler[y]]
  <1>1. gs \in Seq(Objects) /\ IsInjective(gs) /\ Len(gs) \in Nat
    BY DEF ListInv, Typed, ListsTyped
  <1>2. n \in Nat /\ Types = 1..n
    BY ObjectAssumption, FS_CardinalityType
  <1>3. /\ comps \in [Objects -> Seq(Components)] /\ handler \in [Types -> Seq(Components)]
        /\ \A d \in Components : OwnerOf[d] \in Objects /\ TypeOf[d] \in Types
        /\ \A y \in Types : \A d \in ToSet(handler[y]) : TypeOf[d] = y
    BY ObjectAssumption DEF Typed, ListsTyped
  <1>4. \A g : Exists(g) <=> g \in ToSet(gs)
    BY ExistsIs
  <1> HIDE DEF gs, n
  <1>5. /\ \A i \in 1..Len(gs) : gs[i] \in Objects /\ gs[i] \in ToSet(gs)
        /\ \A g \in ToSet(gs) : \E i \in 1..Len(gs) : gs[i] = g
        /\ \A i, j \in 1..Len(gs) : gs[i] = gs[j] => i = j
    BY <1>1, ToSetIs, InjectiveIs
  <1>6. /\ parts \in Seq(Seq(Components)) /\ Len(parts) = Len(gs)
        /\ \A i \in 1..Len(gs) : parts[i] = comps[gs[i]]
    BY <1>1, <1>3, <1>5
  <1>7. /\ runs \in Seq(Seq(Components)) /\ Len(runs) = n
        /\ \A y \in Types : runs[y] = handler[y]
    BY <1>2, <1>3
  <1> HIDE DEF parts, runs
  <1>8. IsInjective(FlattenSeq(parts))
    <2>1. \A i \in 1..Len(parts) : IsInjective(parts[i])
      BY <1>5, <1>6 DEF ListInv, Owned
    <2>2. ASSUME NEW i \in 1..Len(parts), NEW j \in 1..Len(parts), i # j
          PROVE  ToSet(parts[i]) \cap ToSet(parts[j]) = {}
      <3>1. gs[i] # gs[j] /\ gs[i] \in Objects /\ gs[j] \in Objects
        BY <2>2, <1>5, <1>6
      <3>2. \A c \in ToSet(comps[gs[i]]) \cap ToSet(comps[gs[j]]) : OwnerOf[c] = gs[i] /\ OwnerOf[c] = gs[j]
        BY <3>1 DEF ListInv, Owned
      <3> QED BY <3>1, <3>2, <1>6
    <2> QED BY <2>1, <2>2, <1>6, FlattenIs
  <1>9. IsInjective(FlattenSeq(runs))
    <2>1. \A y \in 1..Len(runs) : IsInjective(runs[y])
      BY <1>2, <1>7 DEF ListInv, HandlersKnow
    <2>2. ASSUME NEW y \in 1..Len(runs), NEW z \in 1..Len(runs), y # z
          PROVE  ToSet(runs[y]) \cap ToSet(runs[z]) = {}
      <3>1. y \in Types /\ z \in Types
        BY <1>2, <1>7
      <3>2. \A c \in ToSet(handler[y]) \cap ToSet(handler[z]) : TypeOf[c] = y /\ TypeOf[c] = z
        BY <3>1, <1>3
      <3> QED BY <2>2, <3>1, <3>2, <1>7
    <2> QED BY <2>1, <2>2, <1>7, FlattenIs
  <1>10. ASSUME NEW c
         PROVE  c \in ToSet(FlattenSeq(parts)) <=> c \in ToSet(FlattenSeq(runs))
    <2>1. c \in ToSet(FlattenSeq(parts)) <=> \E i \in 1..Len(parts) : c \in ToSet(parts[i])
      BY <1>6, FlattenIs
    <2>2. c \in ToSet(FlattenSeq(runs)) <=> \E y \in 1..Len(runs) : c \in ToSet(runs[y])
      BY <1>7, FlattenIs
    <2>3. ASSUME NEW i \in 1..Len(parts), c \in ToSet(parts[i])
          PROVE  \E y \in 1..Len(runs) : c \in ToSet(runs[y])
      <3>1. gs[i] \in Objects /\ parts[i] = comps[gs[i]] /\ gs[i] \in ToSet(gs)
        BY <1>5, <1>6
      <3>2. c \in Components
        BY <2>3, <3>1, <1>3, ToSetIs
      <3>3. OwnerOf[c] = gs[i] /\ Exists(gs[i])
        BY <2>3, <3>1 DEF ListInv, Owned
      <3>4. c \in ToSet(handler[TypeOf[c]]) /\ TypeOf[c] \in Types
        BY <2>3, <3>1, <3>2, <3>3, <1>3 DEF ListInv, HandlersKnow, Alive
      <3> QED BY <3>4, <1>2, <1>7
    <2>4. ASSUME NEW y \in 1..Len(runs), c \in ToSet(runs[y])
          PROVE  \E i \in 1..Len(parts) : c \in ToSet(parts[i])
      <3>1. y \in Types /\ runs[y] = handler[y] /\ TypeOf[c] = y
        BY <2>4, <1>2, <1>3, <1>7
      <3>2. c \in Components
        BY <2>4, <3>1, <1>3, ToSetIs
      <3>3. Exists(OwnerOf[c]) /\ c \in ToSet(comps[OwnerOf[c]])
        BY <2>4, <3>1, <3>2 DEF ListInv, HandlersKnow, Alive
      <3>4. PICK i \in 1..Len(gs) : gs[i] = OwnerOf[c]
        BY <3>3, <1>4, <1>5
      <3> QED BY <3>3, <3>4, <1>6
    <2> QED BY <2>1, <2>2, <2>3, <2>4
  <1>11. ToSet(FlattenSeq(parts)) = ToSet(FlattenSeq(runs))
    BY <1>10
  <1> QED BY <1>1, <1>8, <1>9, <1>11 DEF ListsAgree, gs, n, parts, runs

(* The objects and the handlers know the same components, each once, and   *)
(* no object is in the lists twice, however components are added, objects  *)
(* cloned, and both destroyed, in callbacks or between frames.             *)
THEOREM ObjectsAndHandlersAgree == ObjectsSpec => []ListsAgree
  <1>1. ObjectsSpec => [](Typed /\ ListInv)
    BY InitTyped, TypedIsInductive, ListsAtFirst, ListsAreInductive, PTL DEF ObjectsSpec
  <1> QED BY <1>1, AgreeIs, PTL

-----------------------------------------------------------------------------
(* Calls on what is there.  A call is made on an object of the lists, on a *)
(* component of it, or on a component of a handler; what the loops of      *)
(* Update have still to visit is in myGameObjects; and no object or        *)
(* component is freed while a call is in progress.                         *)
Living == {g \in Objects : Exists(g)} \cup {c \in Components : Alive(c)}
LivingInv == \A i \in 1..Len(stack) : stack[i].x \in Living

TodoInv == phase \in {"awake", "start"} => ToSet(todo) \subseteq ToSet(list)

LEMMA TodoIsInductive == Typed /\ TodoInv /\ [ObjectsNext]_objectsVars => TodoInv'
  <1> SUFFICES ASSUME Typed, TodoInv, [ObjectsNext]_objectsVars PROVE TodoInv'
    OBVIOUS
  <1>1. list \in Seq(Objects) /\ toAdd \in Seq(Objects) /\ todo \in Seq(Objects)
    BY DEF Typed, ListsTyped, PlaceTyped
  <1>2. CASE UNCHANGED <<phase, todo, list>>
    BY <1>2 DEF TodoInv
  <1>3. CASE StartFrame
    <2>1. list' = list \o toAdd /\ todo' = Visit(list')
      BY <1>3 DEF StartFrame, CreateQueuedGameObjects
    <2>2. list' \in Seq(Objects)
      BY <1>1, <2>1
    <2>3. ToSet(todo') = ToSet(list')
      BY <2>1, <2>2, VisitIs
    <2> QED BY <2>3 DEF TodoInv
  <1>4. CASE UpdateAwake \/ UpdateStart
    <2>1. list' = list /\ phase \in {"awake", "start"}
      BY <1>4 DEF UpdateAwake, UpdateStart, InPhase, lists
    <2>2. CASE todo = <<>>
      <3>1. CASE UpdateAwake
        BY <1>1, <2>1, <2>2, <3>1, VisitIs DEF UpdateAwake, TodoInv
      <3>2. CASE UpdateStart
        BY <2>2, <3>2 DEF UpdateStart, TodoInv
      <3> QED BY <1>4, <3>1, <3>2
    <2>3. CASE todo # <<>>
      <3>1. todo' = Tail(todo)
        BY <1>4, <2>3 DEF UpdateAwake, UpdateStart
      <3>2. Tail(todo) \in Seq(Objects) /\ \A i \in 1..Len(Tail(todo)) : i + 1 \in 1..Len(todo) /\ Tail(todo)[i] = todo[i + 1]
        BY <1>1, <2>3
      <3>3. ToSet(Tail(todo)) \subseteq ToSet(todo)
        <4> SUFFICES ASSUME NEW g \in ToSet(Tail(todo)) PROVE g \in ToSet(todo)
          OBVIOUS
        <4>1. PICK i \in 1..Len(Tail(todo)) : Tail(todo)[i] = g
          BY <3>2, ToSetIs
        <4>2. todo[i + 1] = g /\ i + 1 \in 1..Len(todo)
          BY <3>2, <4>1
        <4> QED BY <1>1, <4>2, ToSetIs
      <3> QED BY <2>1, <3>1, <3>3 DEF TodoInv
    <2> QED BY <2>2, <2>3
  <1>5. CASE RemoveDestroyedGameObjects \/ EndFrame
    BY <1>5 DEF RemoveDestroyedGameObjects, EndFrame, TodoInv
  <1>6. CASE \/ InternalAwake \/ InternalStart \/ ComponentAwake \/ ComponentStart
             \/ SetActive \/ ComponentSetActive
    BY <1>2, <1>6, InternalShape, OnceShape, SetActiveShape, ComponentSetActiveShape DEF lists
  <1>7. CASE DeleteComponents \/ Execute \/ UserReturns
    BY <1>2, <1>7 DEF DeleteComponents, Execute, UserReturns, lists
  <1>8. CASE UNCHANGED objectsVars
    BY <1>2, <1>8 DEF objectsVars, lists
  <1>9. ASSUME NEW g \in Objects,
               CloneObject(g) \/ DestroyObject(g) \/ \E on \in BOOLEAN : CallSetActive(g, on)
        PROVE  TodoInv'
    BY <1>2, <1>9 DEF CloneObject, DestroyObject, CallSetActive, UserCall, lists
  <1>10. ASSUME NEW c \in Components,
                \/ AddComponent(c) \/ DestroyComponent(c)
                \/ \E on \in BOOLEAN : CallComponentSetActive(c, on)
         PROVE  TodoInv'
    BY <1>2, <1>10 DEF AddComponent, DestroyComponent, CallComponentSetActive, UserCall, lists
  <1> QED BY <1>3, <1>4, <1>5, <1>6, <1>7, <1>8, <1>9, <1>10 DEF ObjectsNext, MainStep, User

(* A step that frees nothing and calls what lives                          *)
LEMMA LivingGrows ==
    ASSUME StackTyped, LivingInv, Living \subseteq Living',
           NEW fs \in Seq(FrameType), \A i \in 1..Len(fs) : fs[i].x \in Living',
           stack' = fs \o stack \/ (stack # <<>> /\ stack' = fs \o Tail(stack))
    PROVE  LivingInv'
  <1>1. ASSUME NEW q \in Seq(FrameType), stack' = fs \o q,
               \A i \in 1..Len(q) : q[i].x \in Living
        PROVE  \A i \in 1..Len(stack') : stack'[i].x \in Living'
    <2> SUFFICES ASSUME NEW i \in 1..Len(stack') PROVE stack'[i].x \in Living'
      OBVIOUS
    <2>1. CASE i \in 1..Len(fs)
      <3>1. stack'[i] = fs[i]
        BY <1>1, <2>1
      <3> QED BY <2>1, <3>1
    <2>2. CASE i \notin 1..Len(fs)
      <3>1. i - Len(fs) \in 1..Len(q) /\ stack'[i] = q[i - Len(fs)]
        BY <1>1, <2>2
      <3> QED BY <1>1, <3>1
    <2> QED BY <2>1, <2>2
  <1>2. CASE stack' = fs \o stack
    <2>1. stack \in Seq(FrameType) /\ \A i \in 1..Len(stack) : stack[i].x \in Living
      BY DEF StackTyped, LivingInv
    <2> QED BY <1>1, <1>2, <2>1 DEF LivingInv
  <1>3. CASE stack # <<>> /\ stack' = fs \o Tail(stack)
    <2>1. /\ Tail(stack) \in Seq(FrameType)
          /\ \A i \in 1..Len(Tail(stack)) : i + 1 \in 1..Len(stack) /\ Tail(stack)[i] = stack[i + 1]
      BY <1>3 DEF StackTyped
    <2>2. \A i \in 1..Len(Tail(stack)) : Tail(stack)[i].x \in Living
      BY <2>1 DEF LivingInv
    <2> QED BY <1>1, <1>3, <2>1, <2>2 DEF LivingInv
  <1> QED BY <1>2, <1>3

LEMMA SameLiving == UNCHANGED lists => Living' = Living
  BY DEF Living, Exists, Alive, lists

LEMMA TopLives ==
    ASSUME StackTyped, LivingInv, stack # <<>>
    PROVE  Top.x \in Living
  <1>1. Top = stack[1] /\ 1 \in 1..Len(stack)
    BY TopTyped DEF StackTyped
  <1> QED BY <1>1 DEF LivingInv

(* The components of an object live, and what a handler runs does.         *)
LEMMA ComponentsLive ==
    ASSUME Typed, ListInv
    PROVE  /\ \A g \in Objects : ToSet(comps[g]) \subseteq Living
           /\ \A y \in Types : ToSet(handler[y]) \subseteq Living
  <1>1. ASSUME NEW g \in Objects, NEW c \in ToSet(comps[g])
        PROVE  c \in Living
    <2>1. comps[g] \in Seq(Components)
      BY DEF Typed, ListsTyped
    <2>2. c \in Components /\ OwnerOf[c] = g /\ Exists(g)
      BY <2>1, ToSetIs DEF ListInv, Owned
    <2> QED BY <2>2 DEF Living, Alive
  <1>2. ASSUME NEW y \in Types, NEW c \in ToSet(handler[y])
        PROVE  c \in Living
    <2>1. handler[y] \in Seq(Components) /\ TypeOf[c] = y
      BY DEF Typed, ListsTyped
    <2>2. c \in Components
      BY <2>1, ToSetIs
    <2>3. Alive(c)
      BY <2>1, <2>2 DEF ListInv, HandlersKnow
    <2> QED BY <2>2, <2>3 DEF Living
  <1> QED BY <1>1, <1>2

(* A call or a return that leaves the lists alone                          *)
LEMMA LivingStays ==
    ASSUME StackTyped, LivingInv, UNCHANGED lists,
           NEW fs \in Seq(FrameType), \A i \in 1..Len(fs) : fs[i].x \in Living,
           stack' = fs \o stack \/ (stack # <<>> /\ stack' = fs \o Tail(stack))
    PROVE  LivingInv'
  BY SameLiving, LivingGrows

LEMMA NoCall ==
    ASSUME StackTyped
    PROVE  /\ <<>> \in Seq(FrameType) /\ \A i \in 1..Len(<<>>) : <<>>[i].x \in Living
           /\ stack = <<>> \o stack
           /\ stack # <<>> => Tail(stack) = <<>> \o Tail(stack)
  BY DEF StackTyped

LEMMA LiveFrame ==
    ASSUME NEW x \in Living, NEW on \in BOOLEAN, NEW n \in Nat
    PROVE  /\ x \in Objects => \A op \in {"awake", "start", "setActive"} :
                 Frame(op, x, on, n) \in FrameType /\ Frame(op, x, on, n).x \in Living
           /\ x \in Components =>
                 \A op \in {"componentAwake", "componentStart", "componentSetActive", "user"} :
                    Frame(op, x, on, n) \in FrameType /\ Frame(op, x, on, n).x \in Living
  BY DEF Frame, FrameType, ObjectOps, ComponentOps

(* A step that makes one call and leaves the lists alone                   *)
LEMMA OneCall ==
    ASSUME StackTyped, LivingInv, UNCHANGED lists,
           NEW f \in FrameType, f.x \in Living,
           stack' = <<f>> \o stack \/ (stack # <<>> /\ stack' = <<f>> \o Tail(stack))
    PROVE  LivingInv'
  <1>1. <<f>> \in Seq(FrameType) /\ \A i \in 1..Len(<<f>>) : <<f>>[i].x \in Living
    OBVIOUS
  <1> QED BY <1>1, LivingStays

LEMMA LivingByReturn ==
    ASSUME StackTyped, LivingInv, UNCHANGED lists, stack # <<>>, stack' = Tail(stack)
    PROVE  LivingInv'
  BY NoCall, LivingStays

LEMMA LivingByLoop ==
    ASSUME Typed, ListInv, LivingInv, UNCHANGED lists,
           NEW op \in {"awake", "start"}, At(op), NEW before, NEW after, LoopStep(op, before, after)
    PROVE  LivingInv'
  <1>1. /\ StackTyped /\ stack # <<>> /\ Top.x \in Objects /\ Top.n + 1 \in Nat
        /\ Top.x \in Living /\ op \in ObjectOps /\ TRUE \in BOOLEAN /\ 0 \in Nat
        /\ "user" \in ComponentOps
    BY TopTyped, TopLives DEF Typed, At, ObjectOps, ComponentOps
  <1> DEFINE next == Frame(op, Top.x, TRUE, Top.n + 1)
  <1>2. next \in FrameType /\ next.x \in Living
    BY <1>1, LiveFrame
  <1>3. CASE stack' = <<next>> \o Tail(stack)
    BY <1>1, <1>2, <1>3, OneCall
  <1>4. CASE stack' = Tail(stack)
    BY <1>1, <1>4, LivingByReturn
  <1>5. ASSUME NEW c \in ToSet(comps[Top.x]),
               stack' = <<Frame("user", c, TRUE, 0), next>> \o Tail(stack)
        PROVE  LivingInv'
    <2> DEFINE call == Frame("user", c, TRUE, 0)
    <2>1. comps[Top.x] \in Seq(Components) /\ c \in Living
      BY <1>1, ComponentsLive DEF Typed, ListsTyped
    <2>2. c \in Components
      BY <2>1, ToSetIs
    <2>3. call \in FrameType /\ call.x \in Living
      BY <1>1, <2>1, <2>2, LiveFrame
    <2> HIDE DEF call, next
    <2> DEFINE fs == <<call, next>>
    <2>4. fs \in Seq(FrameType) /\ \A i \in 1..Len(fs) : fs[i].x \in Living
      BY <1>2, <2>3
    <2>5. stack' = fs \o Tail(stack)
      BY <1>5 DEF call
    <2> HIDE DEF fs
    <2> QED BY <1>1, <2>4, <2>5, LivingStays
  <1> QED BY <1>3, <1>4, <1>5 DEF LoopStep

LEMMA LivingByComponent ==
    ASSUME Typed, LivingInv, ComponentAwake \/ ComponentStart \/ ComponentSetActive
    PROVE  LivingInv'
  <1>1. /\ StackTyped /\ UNCHANGED lists /\ stack # <<>>
        /\ Top.x \in Components /\ Top.x \in Living
        /\ ComponentOps = {"componentAwake", "componentStart", "componentSetActive", "user"}
        /\ TRUE \in BOOLEAN /\ 0 \in Nat /\ 1 \in Nat
    BY TopTyped, TopLives DEF Typed, At, ComponentOps,
       ComponentAwake, ComponentStart, ComponentOnce, ComponentSetActive
  <1>2. CASE stack' = Tail(stack)
    BY <1>1, <1>2, LivingByReturn
  <1>3. CASE stack' = <<Frame("user", Top.x, TRUE, 0)>> \o Tail(stack)
    <2>1. Frame("user", Top.x, TRUE, 0) \in FrameType /\ Frame("user", Top.x, TRUE, 0).x \in Living
      BY <1>1, LiveFrame
    <2> QED BY <1>1, <1>3, <2>1, OneCall
  <1>4. CASE stack' = BeginComponent(Top.x) \o Tail(stack)
    <2> DEFINE a == Frame("componentAwake", Top.x, TRUE, 0)
               b == Frame("componentStart", Top.x, TRUE, 0)
               d == Frame("componentSetActive", Top.x, TRUE, 1)
               fs == <<a, b, d>>
    <2>1. a \in FrameType /\ a.x \in Living /\ b \in FrameType /\ b.x \in Living
      BY <1>1, LiveFrame
    <2>2. d \in FrameType /\ d.x \in Living
      BY <1>1, LiveFrame
    <2>3. stack' = fs \o Tail(stack)
      BY <1>4 DEF BeginComponent
    <2> HIDE DEF a, b, d
    <2>4. fs \in Seq(FrameType) /\ \A i \in 1..Len(fs) : fs[i].x \in Living
      BY <2>1, <2>2
    <2> HIDE DEF fs
    <2> QED BY <1>1, <2>3, <2>4, LivingStays
  <1> QED BY <1>2, <1>3, <1>4, OnceShape, ComponentSetActiveShape DEF OnceStep

LEMMA LivingBySetActive ==
    ASSUME Typed, LivingInv, SetActive
    PROVE  LivingInv'
  <1>1. /\ StackTyped /\ UNCHANGED lists /\ stack # <<>>
        /\ Top.x \in Objects /\ Top.on \in BOOLEAN /\ Top.x \in Living
        /\ ObjectOps = {"awake", "start", "setActive"}
        /\ TRUE \in BOOLEAN /\ 0 \in Nat /\ 1 \in Nat
    BY SetActiveShape, TopLives DEF Typed, At, ObjectOps
  <1> DEFINE last == Frame("setActive", Top.x, Top.on, 1)
  <1>2. last \in FrameType /\ last.x \in Living
    BY <1>1, LiveFrame
  <1>3. CASE stack' = <<last>> \o Tail(stack)
    BY <1>1, <1>2, <1>3, OneCall
  <1>4. CASE stack' = (Begin(Top.x) \o <<last>>) \o Tail(stack)
    <2> DEFINE a == Frame("awake", Top.x, TRUE, 0)
               b == Frame("start", Top.x, TRUE, 0)
               fs == <<a, b>> \o <<last>>
    <2>1. a \in FrameType /\ a.x \in Living /\ b \in FrameType /\ b.x \in Living
      BY <1>1, LiveFrame
    <2>2. stack' = fs \o Tail(stack)
      BY <1>4 DEF Begin
    <2> HIDE DEF a, b, last
    <2>3. fs \in Seq(FrameType) /\ \A i \in 1..Len(fs) : fs[i].x \in Living
      BY <1>2, <2>1
    <2> HIDE DEF fs
    <2> QED BY <1>1, <2>2, <2>3, LivingStays
  <1>5. ASSUME NEW kids \in Seq(Objects), \A g \in ToSet(kids) : Exists(g),
               stack' = KidFrames(kids, Top.on) \o Tail(stack)
        PROVE  LivingInv'
    <2> DEFINE fs == KidFrames(kids, Top.on)
    <2>1. /\ fs \in Seq(FrameType) /\ Len(fs) = Len(kids)
          /\ \A i \in 1..Len(kids) : fs[i].x = kids[i] /\ kids[i] \in ToSet(kids)
      BY <1>1, KidFramesTyped
    <2> HIDE DEF fs
    <2>2. \A i \in 1..Len(kids) : kids[i] \in Living
      BY <1>5, <2>1 DEF Living
    <2>3. \A i \in 1..Len(fs) : fs[i].x \in Living
      BY <2>1, <2>2
    <2>4. stack' = fs \o Tail(stack)
      BY <1>5 DEF fs
    <2> QED BY <1>1, <2>1, <2>3, <2>4, LivingStays
  <1> QED BY <1>3, <1>4, <1>5, SetActiveShape

LEMMA LivingByAdd ==
    ASSUME Typed, LivingInv, NEW c \in Components, AddComponent(c)
    PROVE  LivingInv'
  <1> DEFINE g == OwnerOf[c]
  <1>1. /\ StackTyped /\ g \in Objects /\ Exists(g)
        /\ list' = list /\ toAdd' = toAdd /\ comps' = [comps EXCEPT ![g] = Append(@, c)]
        /\ comps \in [Objects -> Seq(Components)]
    BY ObjectAssumption DEF AddComponent, Typed, ListsTyped
  <1>2. ToSet(comps'[g]) = ToSet(comps[g]) \cup {c}
    BY <1>1, ToSetAppend
  <1>3. \A h \in Objects : ToSet(comps[h]) \subseteq ToSet(comps'[h])
    BY <1>1, <1>2
  <1>4. \A d \in Components : OwnerOf[d] \in Objects
    BY ObjectAssumption
  <1>5. Living \subseteq Living' /\ c \in Living'
    BY <1>1, <1>2, <1>3, <1>4 DEF Living, Exists, Alive
  <1>6. CASE OwnerOf[c] \in started
    <2> DEFINE f == Frame("componentStart", c, TRUE, 0)
    <2>1. "componentStart" \in ComponentOps /\ TRUE \in BOOLEAN /\ 0 \in Nat
      BY DEF ComponentOps
    <2>2. f \in FrameType /\ f.x = c
      BY <2>1 DEF Frame, FrameType
    <2>3. stack' = <<f>> \o stack
      BY <1>6 DEF AddComponent, Call
    <2> HIDE DEF f
    <2>4. <<f>> \in Seq(FrameType) /\ \A i \in 1..Len(<<f>>) : <<f>>[i].x \in Living'
      BY <1>5, <2>2
    <2> QED BY <1>1, <1>5, <2>3, <2>4, LivingGrows
  <1>7. CASE OwnerOf[c] \notin started
    <2>1. stack' = <<>> \o stack
      BY <1>7 DEF AddComponent, Call
    <2>2. <<>> \in Seq(FrameType) /\ \A i \in 1..Len(<<>>) : <<>>[i].x \in Living'
      OBVIOUS
    <2> QED BY <1>1, <1>5, <2>1, <2>2, LivingGrows
  <1> QED BY <1>6, <1>7

LEMMA LivingByClone ==
    ASSUME Typed, ListInv, LivingInv, NEW g \in Objects, CloneObject(g)
    PROVE  LivingInv'
  <1> DEFINE new == Tree[g]
  <1>1. /\ StackTyped /\ list' = list /\ toAdd' = toAdd \o new /\ ToSet(new) \cap made = {}
        /\ comps' = [h \in Objects |-> IF h \in ToSet(new) THEN Prefab[h] ELSE comps[h]]
        /\ stack' = stack
    BY DEF CloneObject, Typed
  <1>2. new \in Seq(Objects) /\ toAdd \in Seq(Objects)
    BY TreeSet DEF Typed, ListsTyped
  <1> HIDE DEF new
  <1>3. ToSet(toAdd') = ToSet(toAdd) \cup ToSet(new)
    BY <1>1, <1>2, ToSetConcat
  <1>4. \A h \in Objects : Exists(h) => comps'[h] = comps[h]
    BY <1>1 DEF ListInv
  <1>5. \A d \in Components : OwnerOf[d] \in Objects
    BY ObjectAssumption
  <1>6. Living \subseteq Living'
    BY <1>1, <1>3, <1>4, <1>5 DEF Living, Exists, Alive
  <1>7. /\ stack' = <<>> \o stack
        /\ <<>> \in Seq(FrameType) /\ \A i \in 1..Len(<<>>) : <<>>[i].x \in Living'
    BY <1>1 DEF StackTyped
  <1> QED BY <1>1, <1>6, <1>7, LivingGrows

LEMMA LivingByUser == Typed /\ ListInv /\ LivingInv /\ User => LivingInv'
  <1> SUFFICES ASSUME Typed, ListInv, LivingInv, User PROVE LivingInv'
    OBVIOUS
  <1>1. StackTyped /\ 0 \in Nat
    BY DEF Typed
  <1>2. CASE UserReturns
    BY <1>1, <1>2, LivingByReturn DEF UserReturns, At, Return
  <1>3. ASSUME NEW g \in Objects, NEW on \in BOOLEAN, CallSetActive(g, on)
        PROVE  LivingInv'
    <2>1. g \in Living /\ UNCHANGED lists /\ stack' = <<Frame("setActive", g, on, 0)>> \o stack
      BY <1>3 DEF CallSetActive, Call, Living
    <2>2. Frame("setActive", g, on, 0) \in FrameType /\ Frame("setActive", g, on, 0).x \in Living
      BY <1>1, <2>1, LiveFrame
    <2> QED BY <1>1, <2>1, <2>2, OneCall
  <1>4. ASSUME NEW c \in Components, NEW on \in BOOLEAN, CallComponentSetActive(c, on)
        PROVE  LivingInv'
    <2>1. /\ c \in Living /\ UNCHANGED lists
          /\ stack' = <<Frame("componentSetActive", c, on, 0)>> \o stack
      BY <1>4 DEF CallComponentSetActive, Call, Living
    <2>2. /\ Frame("componentSetActive", c, on, 0) \in FrameType
          /\ Frame("componentSetActive", c, on, 0).x \in Living
      BY <1>1, <2>1, LiveFrame
    <2> QED BY <1>1, <2>1, <2>2, OneCall
  <1>5. ASSUME UNCHANGED <<lists, stack>> PROVE LivingInv'
    BY <1>5, SameLiving DEF LivingInv
  <1>6. ASSUME NEW g \in Objects, DestroyObject(g)
        PROVE  LivingInv'
    BY <1>5, <1>6 DEF DestroyObject
  <1>7. ASSUME NEW c \in Components, DestroyComponent(c)
        PROVE  LivingInv'
    BY <1>5, <1>7 DEF DestroyComponent
  <1> QED BY <1>2, <1>3, <1>4, <1>6, <1>7, LivingByAdd, LivingByClone DEF User

(* What Update calls: an object that its loop still has to visit, or a     *)
(* component that the handler has.                                         *)
LEMMA LivingByUpdate ==
    ASSUME Typed, ListInv, TodoInv, LivingInv,
           \/ StartFrame \/ UpdateAwake \/ UpdateStart \/ RemoveDestroyedGameObjects
           \/ DeleteComponents \/ Execute \/ EndFrame
    PROVE  LivingInv'
  <1>1. StackTyped /\ 0 \in Nat /\ TRUE \in BOOLEAN
    BY DEF Typed
  <1>2. ASSUME stack' = <<>> PROVE LivingInv'
    BY <1>2 DEF LivingInv
  <1>3. CASE StartFrame \/ RemoveDestroyedGameObjects \/ DeleteComponents \/ EndFrame
    BY <1>2, <1>3 DEF StartFrame, RemoveDestroyedGameObjects, DeleteComponents, EndFrame, InPhase
  <1>4. ASSUME NEW g, NEW must, NEW op \in {"awake", "start"}, g \in Living, g \in Objects,
               UNCHANGED lists, stack = <<>>, UpdateObject(g, must, op)
        PROVE  LivingInv'
    <2> DEFINE f == Frame(op, g, TRUE, 0)
    <2>1. f \in FrameType /\ f.x \in Living
      BY <1>1, <1>4, LiveFrame
    <2>2. stack' = <<f>> \o stack \/ stack' = <<>> \o stack
      BY <1>4 DEF UpdateObject, Call
    <2> HIDE DEF f
    <2>3. CASE stack' = <<f>> \o stack
      BY <1>1, <1>4, <2>1, <2>3, OneCall
    <2>4. CASE stack' = <<>> \o stack
      BY <1>2, <1>4, <2>4
    <2> QED BY <2>2, <2>3, <2>4
  <1>5. CASE UpdateAwake \/ UpdateStart
    <2>1. stack = <<>> /\ phase \in {"awake", "start"} /\ UNCHANGED lists
      BY <1>5 DEF UpdateAwake, UpdateStart, InPhase
    <2>2. CASE todo = <<>>
      BY <1>2, <1>5, <2>1, <2>2 DEF UpdateAwake, UpdateStart
    <2>3. CASE todo # <<>>
      <3>1. Head(todo) = todo[1] /\ 1 \in 1..Len(todo) /\ todo \in Seq(Objects)
        BY <2>3 DEF Typed, PlaceTyped
      <3>2. Head(todo) \in ToSet(todo) /\ Head(todo) \in Objects
        BY <3>1, ToSetIs
      <3>3. Head(todo) \in Living
        BY <2>1, <3>2 DEF TodoInv, Living, Exists
      <3>4. \/ UpdateObject(Head(todo), Head(todo) \notin awaked, "awake")
            \/ UpdateObject(Head(todo), MustStart(Head(todo)), "start")
        BY <1>5, <2>3 DEF UpdateAwake, UpdateStart
      <3> QED BY <1>4, <2>1, <3>2, <3>3, <3>4
    <2> QED BY <2>2, <2>3
  <1>6. CASE Execute
    <2>1. stack = <<>> /\ at[1] \in Types /\ at[2] > 0 /\ at[2] \in Nat /\ UNCHANGED lists
      BY <1>6 DEF Execute, InPhase, Typed, PlaceTyped
    <2>2. CASE at[2] > Len(handler[at[1]])
      BY <1>2, <1>6, <2>1, <2>2 DEF Execute
    <2>3. CASE ~(at[2] > Len(handler[at[1]]))
      <3> DEFINE c == handler[at[1]][at[2]]
                 f == Frame("user", c, TRUE, 0)
      <3>1. handler[at[1]] \in Seq(Components)
        BY <2>1 DEF Typed, ListsTyped
      <3>2. at[2] \in 1..Len(handler[at[1]])
        BY <2>1, <2>3, <3>1
      <3>3. c \in Components /\ c \in ToSet(handler[at[1]])
        BY <3>1, <3>2, ToSetIs
      <3>4. c \in Living
        BY <2>1, <3>3, ComponentsLive
      <3>5. stack' = <<f>> \o stack \/ stack' = <<>> \o stack
        BY <1>6, <2>3 DEF Execute, Call
      <3>6. f \in FrameType /\ f.x \in Living
        <4> HIDE DEF c
        <4> QED BY <1>1, <3>3, <3>4, LiveFrame
      <3> HIDE DEF f
      <3>7. CASE stack' = <<f>> \o stack
        BY <1>1, <2>1, <3>6, <3>7, OneCall
      <3>8. CASE stack' = <<>> \o stack
        BY <1>2, <2>1, <3>8
      <3> QED BY <3>5, <3>7, <3>8
    <2> QED BY <2>2, <2>3
  <1> QED BY <1>3, <1>5, <1>6

LEMMA LivingIsInductive == Typed /\ ListInv /\ TodoInv /\ LivingInv /\ [ObjectsNext]_objectsVars => LivingInv'
  <1> SUFFICES ASSUME Typed, ListInv, TodoInv, LivingInv, [ObjectsNext]_objectsVars PROVE LivingInv'
    OBVIOUS
  <1>1. CASE UNCHANGED objectsVars
    BY <1>1, SameLiving DEF LivingInv, objectsVars
  <1>2. CASE InternalAwake
    BY <1>2, InternalShape, LivingByLoop
  <1>3. CASE InternalStart
    BY <1>3, InternalShape, LivingByLoop
  <1> QED BY <1>1, <1>2, <1>3, LivingByComponent, LivingBySetActive, LivingByUser, LivingByUpdate
           DEF ObjectsNext, MainStep

LEMMA LivingAtFirst == ObjectsInit => TodoInv /\ LivingInv
  BY DEF ObjectsInit, TodoInv, LivingInv

LEMMA LivingIs == Typed /\ LivingInv => CallsOnLiving
  <1>1. Objects \cap Components = {}
    BY ObjectAssumption
  <1> QED BY <1>1 DEF LivingInv, Living, CallsOnLiving

(* No call is ever in progress on an object or a component that was freed, *)
(* whatever the callbacks of the game destroy, clone or switch on and off, *)
(* and however deep they call each other.                                  *)
THEOREM CallsStayOnLiving == ObjectsSpec => []CallsOnLiving
  <1>1. ObjectsSpec => [](Typed /\ ListInv)
    BY InitTyped, TypedIsInductive, ListsAtFirst, ListsAreInductive, PTL DEF ObjectsSpec
  <1>2. ObjectsSpec => [](Typed /\ ListInv /\ TodoInv /\ LivingInv)
    BY <1>1, LivingAtFirst, TodoIsInductive, LivingIsInductive, PTL DEF ObjectsSpec
  <1> QED BY <1>2, LivingIs, PTL

-----------------------------------------------------------------------------
(* RemoveDestroyedGameObjects erases every destroyed object and no other    *)
(* one, whichever neighbours in the list are destroyed in the same frame.   *)
THEOREM EveryDestroyedErased == ObjectsSpec => ErasesDestroyed
  <1> DEFINE Erased == InPhase("remove") => ToSet(list') = ToSet(list) \ destroyed
  <1>1. ASSUME Typed, ListInv, [ObjectsNext]_objectsVars PROVE [Erased]_objectsVars
    <2> SUFFICES ASSUME ObjectsNext, InPhase("remove") PROVE ToSet(list') = ToSet(list) \ destroyed
      BY <1>1
    <2>1. \A op \in Ops : ~At(op)
      BY DEF InPhase, At
    <2>2. ~User
      BY <2>1 DEF User, UserReturns, UserCall, InPhase, Ops, CallSetActive,
         CallComponentSetActive, AddComponent, CloneObject, DestroyObject, DestroyComponent
    <2>3. RemoveDestroyedGameObjects
      BY <1>1, <2>1, <2>2 DEF ObjectsNext, MainStep, InPhase, Ops, InternalAwake, InternalStart, InternalLoop,
         SetActive, ComponentAwake, ComponentStart, ComponentOnce, ComponentSetActive, StartFrame,
         UpdateAwake, UpdateStart, DeleteComponents, Execute, EndFrame
    <2>4. list \in Seq(Objects) /\ toAdd \in Seq(Objects)
      BY <1>1 DEF Typed, ListsTyped
    <2>5. IsInjective(list)
      BY <1>1, <2>4, InjectiveConcat DEF ListInv
    <2> QED BY <2>3, <2>4, <2>5, KeptIs DEF RemoveDestroyedGameObjects
  <1>2. ObjectsSpec => [](Typed /\ ListInv)
    BY InitTyped, TypedIsInductive, ListsAtFirst, ListsAreInductive, PTL DEF ObjectsSpec
  <1> QED BY <1>1, <1>2, PTL DEF ObjectsSpec, ErasesDestroyed
=============================================================================
