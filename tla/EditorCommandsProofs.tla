------------------------ MODULE EditorCommandsProofs ------------------------
(***************************************************************************)
(* Proofs about EditorCommands, for any scene file, any number of game     *)
(* objects and any order of commands, undos and redos: a selected object   *)
(* is in the scene, nothing gets into the scene twice, and undo and redo   *)
(* bring the document back as it was.                                      *)
(***************************************************************************)
EXTENDS EditorCommands, SequenceProofs, SequenceTheorems, FiniteSetTheorems, FunctionTheorems

-----------------------------------------------------------------------------
(* Scenes in which every object is at most once.  Such a scene is known    *)
(* from the objects that are inside, those that have their component, the  *)
(* selection and the parents.                                              *)
Once(S) == [o \in Objects |-> IF o \in S THEN 1 ELSE 0]

SceneOf(in, has, chosen, P) ==
    [entries |-> Once(in), handled |-> Once(in \cap has), carried |-> has,
     parent |-> P, selection |-> chosen]

DocumentOf(in, has, chosen) ==
    [entries |-> Once(in), handled |-> Once(in \cap has), selection |-> chosen]

(* An object with its descendants, from the parents alone                  *)
Under(P, o) ==
    LET within[n \in 0..Cardinality(Objects)] ==
            IF n = 0 THEN {o}
            ELSE within[n - 1] \cup {x \in Objects : P[x] \in within[n - 1]}
    IN  within[Cardinality(Objects)]

LEMMA SubtreeIs ==
    ASSUME NEW in, NEW has, NEW chosen, NEW P, NEW o
    PROVE  Subtree(SceneOf(in, has, chosen, P), o) = Under(P, o)
  <1>1. SceneOf(in, has, chosen, P).parent = P
    BY DEF SceneOf
  <1> QED BY <1>1 DEF Subtree, Under

LEMMA EnterIs ==
    ASSUME NEW in, NEW has, NEW chosen, NEW P, NEW S,
           S \subseteq Objects, S \cap in = {}
    PROVE  Enter(SceneOf(in, has, chosen, P), S) = SceneOf(in \cup S, has, chosen, P)
  <1>1. Increase(Once(in), S) = Once(in \cup S)
    BY DEF Increase, Once
  <1>2. Increase(Once(in \cap has), S \cap has) = Once((in \cup S) \cap has)
    BY DEF Increase, Once
  <1> DEFINE st == SceneOf(in, has, chosen, P)
  <1>3. st.entries = Once(in) /\ st.handled = Once(in \cap has) /\ st.carried = has
    BY DEF SceneOf
  <1>4. Enter(st, S) = [st EXCEPT !.entries = Once(in \cup S), !.handled = Once((in \cup S) \cap has)]
    <2> HIDE DEF st
    <2> QED BY <1>1, <1>2, <1>3 DEF Enter
  <1>5. [st EXCEPT !.entries = Once(in \cup S), !.handled = Once((in \cup S) \cap has)]
            = SceneOf(in \cup S, has, chosen, P)
    <2> DEFINE mid == [entries |-> Once(in \cup S), handled |-> Once(in \cap has),
                       carried |-> has, parent |-> P, selection |-> chosen]
    <2>1. [st EXCEPT !.entries = Once(in \cup S)] = mid
      BY DEF SceneOf
    <2>2. [mid EXCEPT !.handled = Once((in \cup S) \cap has)] = SceneOf(in \cup S, has, chosen, P)
      BY DEF SceneOf
    <2> HIDE DEF mid, st
    <2> QED BY <2>1, <2>2
  <1> QED BY <1>4, <1>5

LEMMA LeaveIs ==
    ASSUME NEW in, NEW has, NEW chosen, NEW P, NEW S
    PROVE  Leave(SceneOf(in, has, chosen, P), S) = SceneOf(in \ S, has, chosen, P)
  <1>1. Decrease(Once(in), S) = Once(in \ S)
    BY DEF Decrease, Once
  <1>2. Decrease(Once(in \cap has), S \cap has) = Once((in \ S) \cap has)
    BY DEF Decrease, Once
  <1> DEFINE st == SceneOf(in, has, chosen, P)
  <1>3. st.entries = Once(in) /\ st.handled = Once(in \cap has) /\ st.carried = has
    BY DEF SceneOf
  <1>4. Leave(st, S) = [st EXCEPT !.entries = Once(in \ S), !.handled = Once((in \ S) \cap has)]
    <2> HIDE DEF st
    <2> QED BY <1>1, <1>2, <1>3 DEF Leave
  <1>5. [st EXCEPT !.entries = Once(in \ S), !.handled = Once((in \ S) \cap has)]
            = SceneOf(in \ S, has, chosen, P)
    <2> DEFINE mid == [entries |-> Once(in \ S), handled |-> Once(in \cap has),
                       carried |-> has, parent |-> P, selection |-> chosen]
    <2>1. [st EXCEPT !.entries = Once(in \ S)] = mid
      BY DEF SceneOf
    <2>2. [mid EXCEPT !.handled = Once((in \ S) \cap has)] = SceneOf(in \ S, has, chosen, P)
      BY DEF SceneOf
    <2> HIDE DEF mid, st
    <2> QED BY <2>1, <2>2
  <1> QED BY <1>4, <1>5

LEMMA AttachIs ==
    ASSUME NEW in, NEW has, NEW chosen, NEW P, NEW o \in in, in \subseteq Objects, o \notin has
    PROVE  Attach(SceneOf(in, has, chosen, P), o) = SceneOf(in, has \cup {o}, chosen, P)
  <1>1. Increase(Once(in \cap has), {o}) = Once(in \cap (has \cup {o}))
    BY DEF Increase, Once
  <1> DEFINE st == SceneOf(in, has, chosen, P)
  <1>3. st.entries = Once(in) /\ st.handled = Once(in \cap has) /\ st.carried = has
    BY DEF SceneOf
  <1>4. Attach(st, o) = [st EXCEPT !.carried = has \cup {o},
                                    !.handled = Once(in \cap (has \cup {o}))]
    <2> HIDE DEF st
    <2> QED BY <1>1, <1>3 DEF Attach
  <1>5. [st EXCEPT !.carried = has \cup {o}, !.handled = Once(in \cap (has \cup {o}))]
            = SceneOf(in, has \cup {o}, chosen, P)
    <2> DEFINE mid == [entries |-> Once(in), handled |-> Once(in \cap has),
                       carried |-> has \cup {o}, parent |-> P, selection |-> chosen]
    <2>1. [st EXCEPT !.carried = has \cup {o}] = mid
      BY DEF SceneOf
    <2>2. [mid EXCEPT !.handled = Once(in \cap (has \cup {o}))]
            = SceneOf(in, has \cup {o}, chosen, P)
      BY DEF SceneOf
    <2> HIDE DEF mid, st
    <2> QED BY <2>1, <2>2
  <1> QED BY <1>4, <1>5

LEMMA DetachIs ==
    ASSUME NEW in, NEW has, NEW chosen, NEW P, NEW o
    PROVE  Detach(SceneOf(in, has, chosen, P), o) = SceneOf(in, has \ {o}, chosen, P)
  <1>1. Decrease(Once(in \cap has), {o}) = Once(in \cap (has \ {o}))
    BY DEF Decrease, Once
  <1> DEFINE st == SceneOf(in, has, chosen, P)
  <1>3. st.entries = Once(in) /\ st.handled = Once(in \cap has) /\ st.carried = has
    BY DEF SceneOf
  <1>4. Detach(st, o) = [st EXCEPT !.carried = has \ {o},
                                    !.handled = Once(in \cap (has \ {o}))]
    <2> HIDE DEF st
    <2> QED BY <1>1, <1>3 DEF Detach
  <1>5. [st EXCEPT !.carried = has \ {o}, !.handled = Once(in \cap (has \ {o}))]
            = SceneOf(in, has \ {o}, chosen, P)
    <2> DEFINE mid == [entries |-> Once(in), handled |-> Once(in \cap has),
                       carried |-> has \ {o}, parent |-> P, selection |-> chosen]
    <2>1. [st EXCEPT !.carried = has \ {o}] = mid
      BY DEF SceneOf
    <2>2. [mid EXCEPT !.handled = Once(in \cap (has \ {o}))]
            = SceneOf(in, has \ {o}, chosen, P)
      BY DEF SceneOf
    <2> HIDE DEF mid, st
    <2> QED BY <2>1, <2>2
  <1> QED BY <1>4, <1>5

-----------------------------------------------------------------------------
(* Subtrees.                                                               *)
Grows(F, P, o) ==
    LET N == Cardinality(Objects)
    IN  /\ F \in [0..N -> SUBSET Objects]
        /\ F[0] = {o}
        /\ \A i \in 1..N : F[i] = F[i - 1] \cup {x \in Objects : P[x] \in F[i - 1]}

LEMMA UnderRecursion ==
    ASSUME NEW P, NEW o \in Objects, Cardinality(Objects) \in Nat
    PROVE  \E F : Grows(F, P, o) /\ Under(P, o) = F[Cardinality(Objects)]
  <1> DEFINE N == Cardinality(Objects)
             V == SUBSET Objects
             Grown(q) == q \cup {x \in Objects : P[x] \in q}
             Body(F, i) == IF i = 0 THEN {o} ELSE Grown(F[i - 1])
             step == [i \in 1..N |-> [q \in V |-> Grown(q)]]
             K == CHOOSE F : F = [i \in 0..N |-> Body(F, i)]
  <1>1. N \in Nat /\ {o} \in V
    OBVIOUS
  <1>2. ASSUME NEW q \in V PROVE Grown(q) \in V
    OBVIOUS
  <1>3. Under(P, o) = K[N]
    BY DEF Under
  <1> HIDE DEF Grown, N, V
  <1>4. PICK F : Iterates(F, V, {o}, N, step)
    <2>1. step \in [1..N -> [V -> V]]
      BY <1>2
    <2> HIDE DEF step
    <2> QED BY <1>1, <2>1, RecursionExists
  <1>5. F = [i \in 0..N |-> Body(F, i)]
    <2>1. ASSUME NEW i \in 0..N PROVE F[i] = Body(F, i)
      <3>1. CASE i = 0
        BY <1>4, <3>1 DEF Iterates
      <3>2. CASE i # 0
        <4>1. i \in 1..N /\ i - 1 \in 0..N
          BY <1>1, <3>2
        <4>2. F \in [0..N -> V] /\ F[i] = step[i][F[i - 1]]
          BY <1>4, <4>1 DEF Iterates
        <4>3. F[i - 1] \in V
          BY <4>1, <4>2
        <4>4. step[i][F[i - 1]] = Grown(F[i - 1])
          BY <4>1, <4>3
        <4> QED BY <3>2, <4>2, <4>4
      <3> QED BY <3>1, <3>2
    <2> HIDE DEF Body
    <2> QED BY <1>4, <2>1 DEF Iterates
  <1>6. K = [i \in 0..N |-> Body(K, i)]
    <2> HIDE DEF Body
    <2> QED BY <1>5
  <1> HIDE DEF K
  <1>7. K[0] = {o} /\ \A i \in 1..N : K[i] = Grown(K[i - 1])
    <2>1. \A i \in 0..N : K[i] = Body(K, i)
      <3> HIDE DEF Body
      <3> QED BY <1>6
    <2>2. 0 \in 0..N /\ \A i \in 1..N : i \in 0..N /\ i # 0
      BY <1>1
    <2> QED BY <2>1, <2>2
  <1>8. \A i \in 0..N : K[i] \in V
    <2> DEFINE S == {i \in Nat : i <= N => K[i] \in V}
    <2>1. 0 \in S
      BY <1>1, <1>7
    <2>2. ASSUME NEW i \in Nat, i \in S PROVE i + 1 \in S
      <3>1. SUFFICES ASSUME i + 1 <= N PROVE K[i + 1] \in V
        OBVIOUS
      <3>2. i + 1 \in 1..N /\ (i + 1) - 1 = i /\ i <= N
        BY <1>1, <3>1
      <3>3. K[i] \in V
        BY <2>2, <3>2
      <3>4. K[i + 1] = Grown(K[i])
        BY <1>7, <3>2
      <3> QED BY <1>2, <3>3, <3>4
    <2>3. Nat \subseteq S
      <3> HIDE DEF S
      <3> QED BY <2>1, <2>2, SetInduction
    <2> QED BY <1>1, <2>3
  <1>9. K \in [0..N -> V]
    <2>1. DOMAIN K = 0..N /\ K = [i \in 0..N |-> K[i]]
      <3> HIDE DEF Body
      <3> QED BY <1>6
    <2> QED BY <1>8, <2>1
  <1> QED BY <1>3, <1>7, <1>9 DEF Grown, Grows, N, V

(* A subtree holds its root, every other object of it is below another one *)
(* of it, and whatever holds the root and is closed under children holds   *)
(* all of it.                                                              *)
LEMMA UnderIs ==
    ASSUME NEW P, NEW o \in Objects, Cardinality(Objects) \in Nat
    PROVE  /\ Under(P, o) \subseteq Objects /\ o \in Under(P, o)
           /\ \A x \in Under(P, o) : x # o => P[x] \in Under(P, o)
           /\ \A T : o \in T /\ (\A x \in Objects : P[x] \in T => x \in T)
                        => Under(P, o) \subseteq T
  <1> DEFINE N == Cardinality(Objects)
  <1>0. N \in Nat
    OBVIOUS
  <1>1. PICK F : Grows(F, P, o) /\ Under(P, o) = F[N]
    BY UnderRecursion
  <1>2. /\ F \in [0..N -> SUBSET Objects]
        /\ F[0] = {o}
        /\ \A i \in 1..N : F[i] = F[i - 1] \cup {x \in Objects : P[x] \in F[i - 1]}
    BY <1>1 DEF Grows
  <1> HIDE DEF N
  <1>3. ASSUME NEW T, o \in T, \A x \in Objects : P[x] \in T => x \in T
        PROVE  F[N] \subseteq T
    <2> DEFINE S == {i \in Nat : i <= N => F[i] \subseteq T}
    <2>1. 0 \in S
      BY <1>2, <1>3
    <2>2. ASSUME NEW i \in Nat, i \in S PROVE i + 1 \in S
      <3>1. SUFFICES ASSUME i + 1 <= N PROVE F[i + 1] \subseteq T
        OBVIOUS
      <3>2. i + 1 \in 1..N /\ (i + 1) - 1 = i /\ i <= N
        BY <1>0, <3>1
      <3>3. F[i] \subseteq T
        BY <2>2, <3>2
      <3>4. F[i + 1] = F[i] \cup {x \in Objects : P[x] \in F[i]}
        BY <1>2, <3>2
      <3> QED BY <1>3, <3>3, <3>4
    <2>3. Nat \subseteq S
      <3> HIDE DEF S
      <3> QED BY <2>1, <2>2, SetInduction
    <2> QED BY <1>0, <2>3
  <1>4. /\ o \in F[N]
        /\ \A x \in F[N] : x # o => P[x] \in F[N]
    <2> DEFINE S == {i \in Nat : i <= N =>
                        o \in F[i] /\ \A x \in F[i] : x # o => P[x] \in F[i]}
    <2>1. 0 \in S
      BY <1>2
    <2>2. ASSUME NEW i \in Nat, i \in S PROVE i + 1 \in S
      <3>1. SUFFICES ASSUME i + 1 <= N
                     PROVE  o \in F[i + 1] /\ \A x \in F[i + 1] : x # o => P[x] \in F[i + 1]
        OBVIOUS
      <3>2. i + 1 \in 1..N /\ (i + 1) - 1 = i /\ i <= N
        BY <1>0, <3>1
      <3>3. o \in F[i] /\ \A x \in F[i] : x # o => P[x] \in F[i]
        BY <2>2, <3>2
      <3>4. F[i + 1] = F[i] \cup {x \in Objects : P[x] \in F[i]}
        BY <1>2, <3>2
      <3> QED BY <3>3, <3>4
    <2>3. Nat \subseteq S
      <3> HIDE DEF S
      <3> QED BY <2>1, <2>2, SetInduction
    <2> QED BY <1>0, <2>3
  <1>5. F[N] \subseteq Objects
    BY <1>0, <1>2
  <1> QED BY <1>1, <1>3, <1>4, <1>5

(* Other parents leave a subtree as it is if they differ only for objects  *)
(* outside of it and put none of them into it.                             *)
LEMMA SameUnder ==
    ASSUME NEW P, NEW Q, NEW o \in Objects, Cardinality(Objects) \in Nat,
           \A x \in Objects : Q[x] = P[x] \/ (x \notin Under(P, o) /\ Q[x] \notin Under(P, o))
    PROVE  Under(Q, o) = Under(P, o)
  <1> DEFINE N == Cardinality(Objects)
  <1>0. N \in Nat
    OBVIOUS
  <1>1. PICK F : Grows(F, P, o) /\ Under(P, o) = F[N]
    BY UnderRecursion
  <1>2. PICK G : Grows(G, Q, o) /\ Under(Q, o) = G[N]
    BY UnderRecursion
  <1>3. /\ F[0] = {o} /\ G[0] = {o}
        /\ \A i \in 1..N : /\ F[i] = F[i - 1] \cup {x \in Objects : P[x] \in F[i - 1]}
                           /\ G[i] = G[i - 1] \cup {x \in Objects : Q[x] \in G[i - 1]}
    BY <1>1, <1>2 DEF Grows
  <1> HIDE DEF N
  <1>4. \A i \in 0..N : F[N - i] \subseteq F[N]
    <2> DEFINE S == {i \in Nat : i <= N => F[N - i] \subseteq F[N]}
    <2>1. 0 \in S
      BY <1>0
    <2>2. ASSUME NEW i \in Nat, i \in S PROVE i + 1 \in S
      <3>1. SUFFICES ASSUME i + 1 <= N PROVE F[N - (i + 1)] \subseteq F[N]
        OBVIOUS
      <3>2. N - i \in 1..N /\ (N - i) - 1 = N - (i + 1) /\ i <= N
        BY <1>0, <3>1
      <3>3. F[N - i] \subseteq F[N]
        BY <2>2, <3>2
      <3>4. F[(N - i) - 1] \subseteq F[N - i]
        BY <1>3, <3>2
      <3> QED BY <3>2, <3>3, <3>4
    <2>3. Nat \subseteq S
      <3> HIDE DEF S
      <3> QED BY <2>1, <2>2, SetInduction
    <2> QED BY <1>0, <2>3
  <1>5. ASSUME NEW i \in 0..N PROVE F[i] \subseteq F[N]
    <2>1. N - i \in 0..N /\ N - (N - i) = i
      BY <1>0
    <2> QED BY <1>4, <2>1
  <1>6. G[N] = F[N]
    <2> DEFINE S == {i \in Nat : i <= N => G[i] = F[i]}
    <2>1. 0 \in S
      BY <1>3
    <2>2. ASSUME NEW i \in Nat, i \in S PROVE i + 1 \in S
      <3>1. SUFFICES ASSUME i + 1 <= N PROVE G[i + 1] = F[i + 1]
        OBVIOUS
      <3>2. i + 1 \in 1..N /\ (i + 1) - 1 = i /\ i <= N /\ i \in 0..N /\ i + 1 \in 0..N
        BY <1>0, <3>1
      <3>3. G[i] = F[i]
        BY <2>2, <3>2
      <3>4. F[i] \subseteq F[N] /\ F[i + 1] \subseteq F[N]
        BY <1>5, <3>2
      <3>5. /\ F[i + 1] = F[i] \cup {x \in Objects : P[x] \in F[i]}
            /\ G[i + 1] = G[i] \cup {x \in Objects : Q[x] \in G[i]}
        BY <1>3, <3>2
      <3>6. \A x \in Objects : Q[x] = P[x] \/ (x \notin F[N] /\ Q[x] \notin F[N])
        BY <1>1
      <3> QED BY <3>3, <3>4, <3>5, <3>6
    <2>3. Nat \subseteq S
      <3> HIDE DEF S
      <3> QED BY <2>1, <2>2, SetInduction
    <2> QED BY <1>0, <2>3
  <1> QED BY <1>1, <1>2, <1>6

(* Subtrees of two objects without a parent do not meet.                   *)
LEMMA ApartUnder ==
    ASSUME NEW P, NEW o \in Objects, NEW r \in Objects, o # r, Cardinality(Objects) \in Nat,
           P[o] \notin Objects, P[r] \notin Objects
    PROVE  Under(P, o) \cap Under(P, r) = {}
  <1> DEFINE T == Objects \ Under(P, r)
  <1>1. /\ Under(P, r) \subseteq Objects /\ r \in Under(P, r)
        /\ \A x \in Under(P, r) : x # r => P[x] \in Under(P, r)
    BY UnderIs
  <1>2. o \in T
    BY <1>1
  <1>3. \A x \in Objects : P[x] \in T => x \in T
    BY <1>1
  <1>4. Under(P, o) \subseteq T
    <2> HIDE DEF T
    <2> QED BY <1>2, <1>3, UnderIs
  <1> QED BY <1>4

-----------------------------------------------------------------------------
(* A composite goes through its commands one after the other.              *)
LEMMA DoIs ==
    ASSUME NEW st, NEW c, NEW n \in Nat, Len(c) = n, NEW G, G[0] = st,
           \A i \in 1..n : G[i] = DoOne(G[i - 1], c[i])
    PROVE  Do(st, c) = G[n]
  <1> DEFINE Body(F, i) == IF i = 0 THEN st ELSE DoOne(F[i - 1], c[i])
             K == CHOOSE F : F = [i \in 0..Len(c) |-> Body(F, i)]
  <1>1. Do(st, c) = K[Len(c)]
    BY DEF Do
  <1>2. \E F : F = [i \in 0..Len(c) |-> Body(F, i)]
    <2> DEFINE R == [i \in 0..n |-> G[i]]
    <2>1. ASSUME NEW i \in 0..n PROVE R[i] = Body(R, i)
      <3>1. CASE i = 0
        BY <3>1
      <3>2. CASE i # 0
        <4>1. i \in 1..n /\ i - 1 \in 0..n
          BY <3>2
        <4>2. R[i] = G[i] /\ R[i - 1] = G[i - 1]
          BY <4>1
        <4> QED BY <3>2, <4>1, <4>2
      <3> QED BY <3>1, <3>2
    <2>2. R = [i \in 0..n |-> Body(R, i)]
      <3>1. R = [i \in 0..n |-> R[i]]
        OBVIOUS
      <3> HIDE DEF R, Body
      <3> QED BY <2>1, <3>1
    <2> HIDE DEF R, Body
    <2> QED BY <2>2
  <1>3. K = [i \in 0..n |-> Body(K, i)]
    <2> HIDE DEF Body
    <2> QED BY <1>2
  <1> HIDE DEF K
  <1>4. \A i \in 0..n : K[i] = Body(K, i)
    <2> HIDE DEF Body
    <2> QED BY <1>3
  <1>5. K[n] = G[n]
    <2> DEFINE S == {i \in Nat : i <= n => K[i] = G[i]}
    <2>1. 0 \in S
      <3>1. 0 \in 0..n
        OBVIOUS
      <3> QED BY <1>4, <3>1
    <2>2. ASSUME NEW i \in Nat, i \in S PROVE i + 1 \in S
      <3>1. SUFFICES ASSUME i + 1 <= n PROVE K[i + 1] = G[i + 1]
        OBVIOUS
      <3>2. i + 1 \in 1..n /\ (i + 1) - 1 = i /\ i <= n /\ i + 1 # 0 /\ i + 1 \in 0..n
        BY <3>1
      <3>3. K[i] = G[i]
        BY <2>2, <3>2
      <3>4. K[i + 1] = DoOne(K[i], c[i + 1])
        BY <1>4, <3>2
      <3> QED BY <3>2, <3>3, <3>4
    <2>3. Nat \subseteq S
      <3> HIDE DEF S
      <3> QED BY <2>1, <2>2, SetInduction
    <2> QED BY <2>3
  <1> QED BY <1>1, <1>5

LEMMA UndoAllIs ==
    ASSUME NEW st, NEW c, NEW n \in Nat, Len(c) = n, NEW G, G[0] = st,
           \A i \in 1..n : G[i] = UndoOne(G[i - 1], c[i])
    PROVE  UndoAll(st, c) = G[n]
  <1> DEFINE Body(F, i) == IF i = 0 THEN st ELSE UndoOne(F[i - 1], c[i])
             K == CHOOSE F : F = [i \in 0..Len(c) |-> Body(F, i)]
  <1>1. UndoAll(st, c) = K[Len(c)]
    BY DEF UndoAll
  <1>2. \E F : F = [i \in 0..Len(c) |-> Body(F, i)]
    <2> DEFINE R == [i \in 0..n |-> G[i]]
    <2>1. ASSUME NEW i \in 0..n PROVE R[i] = Body(R, i)
      <3>1. CASE i = 0
        BY <3>1
      <3>2. CASE i # 0
        <4>1. i \in 1..n /\ i - 1 \in 0..n
          BY <3>2
        <4>2. R[i] = G[i] /\ R[i - 1] = G[i - 1]
          BY <4>1
        <4> QED BY <3>2, <4>1, <4>2
      <3> QED BY <3>1, <3>2
    <2>2. R = [i \in 0..n |-> Body(R, i)]
      <3>1. R = [i \in 0..n |-> R[i]]
        OBVIOUS
      <3> HIDE DEF R, Body
      <3> QED BY <2>1, <3>1
    <2> HIDE DEF R, Body
    <2> QED BY <2>2
  <1>3. K = [i \in 0..n |-> Body(K, i)]
    <2> HIDE DEF Body
    <2> QED BY <1>2
  <1> HIDE DEF K
  <1>4. \A i \in 0..n : K[i] = Body(K, i)
    <2> HIDE DEF Body
    <2> QED BY <1>3
  <1>5. K[n] = G[n]
    <2> DEFINE S == {i \in Nat : i <= n => K[i] = G[i]}
    <2>1. 0 \in S
      <3>1. 0 \in 0..n
        OBVIOUS
      <3> QED BY <1>4, <3>1
    <2>2. ASSUME NEW i \in Nat, i \in S PROVE i + 1 \in S
      <3>1. SUFFICES ASSUME i + 1 <= n PROVE K[i + 1] = G[i + 1]
        OBVIOUS
      <3>2. i + 1 \in 1..n /\ (i + 1) - 1 = i /\ i <= n /\ i + 1 # 0 /\ i + 1 \in 0..n
        BY <3>1
      <3>3. K[i] = G[i]
        BY <2>2, <3>2
      <3>4. K[i + 1] = UndoOne(K[i], c[i + 1])
        BY <1>4, <3>2
      <3> QED BY <3>2, <3>3, <3>4
    <2>3. Nat \subseteq S
      <3> HIDE DEF S
      <3> QED BY <2>1, <2>2, SetInduction
    <2> QED BY <2>3
  <1> QED BY <1>1, <1>5

-----------------------------------------------------------------------------
(* The commands that the user's inputs make, as the change from one scene  *)
(* to the next: a composite that adds objects or removes subtrees and then *)
(* selects, or one that gives a component to an object or takes it.  The   *)
(* selecting command remembers what was selected before.                   *)
Points == [in: SUBSET Objects, has: SUBSET Objects, chosen: Seq(Objects)]

At(h, P) == SceneOf(h.in, h.has, h.chosen, P)

Selects(c, chosen, previous) == c = [kind |-> "select", new |-> chosen, previous |-> previous]

Adds(c, h, g, previous) ==
    \E n \in Nat : \E S \in [1..n -> SUBSET Objects] :
        /\ Len(c) = n + 1
        /\ \A i \in 1..n : c[i] = AddGameObject(S[i])
        /\ Selects(c[n + 1], g.chosen, previous)
        /\ \A i \in 1..n : S[i] \cap h.in = {}
        /\ \A i, j \in 1..n : i # j => S[i] \cap S[j] = {}
        /\ g.in = h.in \cup UNION {S[i] : i \in 1..n} /\ g.has = h.has

Removes(P, c, h, g, previous) ==
    \E n \in Nat : \E r \in [1..n -> Objects] :
        /\ Len(c) = n + 1
        /\ \A i \in 1..n : c[i] = RemoveGameObject(r[i])
        /\ Selects(c[n + 1], g.chosen, previous)
        /\ \A i \in 1..n : P[r[i]] = NoParent /\ Under(P, r[i]) \subseteq h.in
        /\ \A i, j \in 1..n : r[i] = r[j] => i = j
        /\ g.in = h.in \ UNION {Under(P, r[i]) : i \in 1..n} /\ g.has = h.has

Equips(c, h, g) ==
    \E o \in h.in :
        /\ Len(c) = 1 /\ g.in = h.in /\ g.chosen = h.chosen
        /\ \/ /\ c[1] = [kind |-> "addComponent", object |-> o]
              /\ o \notin h.has /\ g.has = h.has \cup {o}
           \/ /\ c[1] = [kind |-> "removeComponent", object |-> o]
              /\ o \in h.has /\ g.has = h.has \ {o}

Leads(P, c, h, g, previous) ==
    \/ Adds(c, h, g, previous)
    \/ Removes(P, c, h, g, previous)
    \/ Equips(c, h, g)

LEMMA AddsDo ==
    ASSUME NEW P, NEW c, NEW h \in Points, NEW g \in Points, NEW previous,
           Adds(c, h, g, previous)
    PROVE  /\ Do(At(h, P), c) = At(g, P)
           /\ previous = h.chosen => UndoAll(At(g, P), c) = At(h, P)
  <1>1. PICK n \in Nat : \E S \in [1..n -> SUBSET Objects] :
            /\ Len(c) = n + 1
            /\ \A i \in 1..n : c[i] = AddGameObject(S[i])
            /\ Selects(c[n + 1], g.chosen, previous)
            /\ \A i \in 1..n : S[i] \cap h.in = {}
            /\ \A i, j \in 1..n : i # j => S[i] \cap S[j] = {}
            /\ g.in = h.in \cup UNION {S[i] : i \in 1..n} /\ g.has = h.has
    BY DEF Adds
  <1>2. PICK S \in [1..n -> SUBSET Objects] :
            /\ Len(c) = n + 1
            /\ \A i \in 1..n : c[i] = AddGameObject(S[i])
            /\ Selects(c[n + 1], g.chosen, previous)
            /\ \A i \in 1..n : S[i] \cap h.in = {}
            /\ \A i, j \in 1..n : i # j => S[i] \cap S[j] = {}
            /\ g.in = h.in \cup UNION {S[i] : i \in 1..n} /\ g.has = h.has
    BY <1>1
  <1> DEFINE U(k) == UNION {S[i] : i \in 1..k}
  <1>3. ASSUME NEW k \in 1..n
        PROVE  /\ U(k) = U(k - 1) \cup S[k] /\ U(k - 1) \cap S[k] = {}
               /\ S[k] \subseteq Objects /\ S[k] \cap h.in = {}
               /\ k \in 1..(n + 1) /\ k # n + 1 /\ k - 1 # n + 1 /\ k \in 0..(n + 1) /\ k - 1 \in 0..(n + 1)
    <2>1. 1..k = 1..(k - 1) \cup {k}
      OBVIOUS
    <2>2. U(k) = U(k - 1) \cup S[k]
      BY <2>1
    <2>3. \A i \in 1..(k - 1) : i \in 1..n /\ i # k
      OBVIOUS
    <2>4. U(k - 1) \cap S[k] = {}
      BY <1>2, <2>3
    <2> QED BY <1>2, <2>2, <2>4
  <1>4. U(0) = {}
    OBVIOUS
  <1>5. h.in \subseteq Objects
    BY DEF Points
  <1>6. n + 1 \in 1..(n + 1) /\ n + 1 \in 0..(n + 1) /\ (n + 1) - 1 = n /\ n # n + 1
        /\ 0 # n + 1 /\ 0 \in 0..(n + 1) /\ n + 1 \in Nat /\ n \in 0..(n + 1)
    OBVIOUS
  <1> HIDE DEF U
  <1>7. Do(At(h, P), c) = At(g, P)
    <2> DEFINE G == [i \in 0..(n + 1) |-> IF i = n + 1 THEN At(g, P)
                        ELSE SceneOf(h.in \cup U(i), h.has, h.chosen, P)]
    <2>1. G[0] = At(h, P)
      <3>1. G[0] = SceneOf(h.in \cup {}, h.has, h.chosen, P)
        BY <1>4, <1>6
      <3>2. h.in \cup {} = h.in
        OBVIOUS
      <3> QED BY <3>1, <3>2 DEF At
    <2>2. ASSUME NEW i \in 1..n PROVE G[i] = DoOne(G[i - 1], c[i])
      <3> DEFINE st == SceneOf(h.in \cup U(i - 1), h.has, h.chosen, P)
      <3>1. G[i - 1] = st /\ G[i] = SceneOf(h.in \cup U(i), h.has, h.chosen, P)
        BY <1>3
      <3>2. c[i].kind = "add" /\ c[i].objects = S[i]
        <4>1. c[i] = AddGameObject(S[i])
          BY <1>2
        <4> QED BY <4>1 DEF AddGameObject
      <3>3. (h.in \cup U(i - 1)) \cup S[i] = h.in \cup U(i) /\ S[i] \cap (h.in \cup U(i - 1)) = {}
        BY <1>3
      <3>4. Enter(st, S[i]) = SceneOf((h.in \cup U(i - 1)) \cup S[i], h.has, h.chosen, P)
        <4>1. S[i] \subseteq Objects
          BY <1>3
        <4> QED BY <3>3, <4>1, EnterIs
      <3>5. DoOne(st, c[i]) = Enter(st, S[i])
        <4> HIDE DEF st
        <4> QED BY <3>2 DEF DoOne
      <3> HIDE DEF G
      <3> QED BY <3>1, <3>3, <3>4, <3>5
    <2>3. G[n + 1] = DoOne(G[n], c[n + 1])
      <3> DEFINE st == SceneOf(h.in \cup U(n), h.has, h.chosen, P)
      <3>1. G[n] = st /\ G[n + 1] = At(g, P)
        BY <1>6
      <3>2. c[n + 1].kind = "select" /\ c[n + 1].new = g.chosen
        BY <1>2 DEF Selects
      <3>3. DoOne(st, c[n + 1]) = [st EXCEPT !.selection = g.chosen]
        <4> HIDE DEF st
        <4> QED BY <3>2 DEF DoOne
      <3>4. At(g, P) = SceneOf(h.in \cup U(n), h.has, g.chosen, P)
        BY <1>2 DEF At, U
      <3>5. [st EXCEPT !.selection = g.chosen] = SceneOf(h.in \cup U(n), h.has, g.chosen, P)
        <4> DEFINE in == h.in \cup U(n)
        <4> HIDE DEF in
        <4>1. [SceneOf(in, h.has, h.chosen, P) EXCEPT !.selection = g.chosen]
                = SceneOf(in, h.has, g.chosen, P)
          BY DEF SceneOf
        <4> QED BY <4>1 DEF in
      <3> HIDE DEF G
      <3> QED BY <3>1, <3>3, <3>4, <3>5
    <2>4. \A i \in 1..(n + 1) : G[i] = DoOne(G[i - 1], c[i])
      <3> HIDE DEF G
      <3>1. \A i \in 1..(n + 1) : i \in 1..n \/ i = n + 1
        OBVIOUS
      <3> QED BY <1>6, <2>2, <2>3, <3>1
    <2>5. G[n + 1] = At(g, P)
      BY <1>6
    <2> HIDE DEF G
    <2> QED BY <1>2, <1>6, <2>1, <2>4, <2>5, DoIs
  <1>8. ASSUME previous = h.chosen PROVE UndoAll(At(g, P), c) = At(h, P)
    <2> DEFINE G == [i \in 0..(n + 1) |-> IF i = n + 1 THEN At(h, P)
                        ELSE SceneOf(g.in \ U(i), g.has, g.chosen, P)]
    <2>1. G[0] = At(g, P)
      <3>1. G[0] = SceneOf(g.in \ {}, g.has, g.chosen, P)
        BY <1>4, <1>6
      <3>2. g.in \ {} = g.in
        OBVIOUS
      <3> QED BY <3>1, <3>2 DEF At
    <2>2. ASSUME NEW i \in 1..n PROVE G[i] = UndoOne(G[i - 1], c[i])
      <3> DEFINE st == SceneOf(g.in \ U(i - 1), g.has, g.chosen, P)
      <3>1. G[i - 1] = st /\ G[i] = SceneOf(g.in \ U(i), g.has, g.chosen, P)
        BY <1>3
      <3>2. c[i].kind = "add" /\ c[i].objects = S[i]
        <4>1. c[i] = AddGameObject(S[i])
          BY <1>2
        <4> QED BY <4>1 DEF AddGameObject
      <3>3. (g.in \ U(i - 1)) \ S[i] = g.in \ U(i)
        BY <1>3
      <3>4. Leave(st, S[i]) = SceneOf((g.in \ U(i - 1)) \ S[i], g.has, g.chosen, P)
        BY LeaveIs
      <3>5. UndoOne(st, c[i]) = Leave(st, S[i])
        <4> HIDE DEF st
        <4> QED BY <3>2 DEF UndoOne
      <3> HIDE DEF G
      <3> QED BY <3>1, <3>3, <3>4, <3>5
    <2>3. G[n + 1] = UndoOne(G[n], c[n + 1])
      <3> DEFINE st == SceneOf(g.in \ U(n), g.has, g.chosen, P)
      <3>1. G[n] = st /\ G[n + 1] = At(h, P)
        BY <1>6
      <3>2. c[n + 1].kind = "select" /\ c[n + 1].previous = h.chosen
        BY <1>2, <1>8 DEF Selects
      <3>3. UndoOne(st, c[n + 1]) = [st EXCEPT !.selection = h.chosen]
        <4> HIDE DEF st
        <4> QED BY <3>2 DEF UndoOne
      <3>4. g.in \ U(n) = h.in
        <4>1. U(n) \cap h.in = {}
          BY <1>2 DEF U
        <4>2. g.in = h.in \cup U(n)
          BY <1>2 DEF U
        <4> QED BY <4>1, <4>2
      <3>5. At(h, P) = SceneOf(g.in \ U(n), g.has, h.chosen, P)
        BY <1>2, <3>4 DEF At
      <3>6. [st EXCEPT !.selection = h.chosen] = SceneOf(g.in \ U(n), g.has, h.chosen, P)
        <4> DEFINE in == g.in \ U(n)
        <4> HIDE DEF in
        <4>1. [SceneOf(in, g.has, g.chosen, P) EXCEPT !.selection = h.chosen]
                = SceneOf(in, g.has, h.chosen, P)
          BY DEF SceneOf
        <4> QED BY <4>1 DEF in
      <3> HIDE DEF G
      <3> QED BY <3>1, <3>3, <3>5, <3>6
    <2>4. \A i \in 1..(n + 1) : G[i] = UndoOne(G[i - 1], c[i])
      <3> HIDE DEF G
      <3>1. \A i \in 1..(n + 1) : i \in 1..n \/ i = n + 1
        OBVIOUS
      <3> QED BY <1>6, <2>2, <2>3, <3>1
    <2>5. G[n + 1] = At(h, P)
      BY <1>6
    <2> HIDE DEF G
    <2> QED BY <1>2, <1>6, <2>1, <2>4, <2>5, UndoAllIs
  <1> QED BY <1>7, <1>8

LEMMA RemovesDo ==
    ASSUME NEW P, NEW c, NEW h \in Points, NEW g \in Points, NEW previous,
           Cardinality(Objects) \in Nat, NoParent \notin Objects,
           Removes(P, c, h, g, previous)
    PROVE  /\ Do(At(h, P), c) = At(g, P)
           /\ previous = h.chosen => UndoAll(At(g, P), c) = At(h, P)
  <1>1. PICK n \in Nat : \E r \in [1..n -> Objects] :
            /\ Len(c) = n + 1
            /\ \A i \in 1..n : c[i] = RemoveGameObject(r[i])
            /\ Selects(c[n + 1], g.chosen, previous)
            /\ \A i \in 1..n : P[r[i]] = NoParent /\ Under(P, r[i]) \subseteq h.in
            /\ \A i, j \in 1..n : r[i] = r[j] => i = j
            /\ g.in = h.in \ UNION {Under(P, r[i]) : i \in 1..n} /\ g.has = h.has
    BY DEF Removes
  <1>2. PICK r \in [1..n -> Objects] :
            /\ Len(c) = n + 1
            /\ \A i \in 1..n : c[i] = RemoveGameObject(r[i])
            /\ Selects(c[n + 1], g.chosen, previous)
            /\ \A i \in 1..n : P[r[i]] = NoParent /\ Under(P, r[i]) \subseteq h.in
            /\ \A i, j \in 1..n : r[i] = r[j] => i = j
            /\ g.in = h.in \ UNION {Under(P, r[i]) : i \in 1..n} /\ g.has = h.has
    BY <1>1
  <1> DEFINE S(i) == Under(P, r[i])
             U(k) == UNION {S(i) : i \in 1..k}
  <1>3. ASSUME NEW k \in 1..n
        PROVE  /\ U(k) = U(k - 1) \cup S(k) /\ U(k - 1) \cap S(k) = {}
               /\ S(k) \subseteq Objects /\ S(k) \subseteq h.in
               /\ k \in 1..(n + 1) /\ k # n + 1 /\ k - 1 # n + 1 /\ k \in 0..(n + 1) /\ k - 1 \in 0..(n + 1)
    <2>1. 1..k = 1..(k - 1) \cup {k}
      OBVIOUS
    <2>2. U(k) = U(k - 1) \cup S(k)
      BY <2>1
    <2>3. \A i \in 1..(k - 1) : i \in 1..n /\ i # k
      OBVIOUS
    <2>4. \A i \in 1..(k - 1) : S(i) \cap S(k) = {}
      <3> SUFFICES ASSUME NEW i \in 1..(k - 1) PROVE S(i) \cap S(k) = {}
        OBVIOUS
      <3>1. r[i] \in Objects /\ r[k] \in Objects /\ r[i] # r[k]
        BY <1>2, <2>3
      <3>2. P[r[i]] \notin Objects /\ P[r[k]] \notin Objects
        BY <1>2, <2>3
      <3> QED BY <3>1, <3>2, ApartUnder
    <2>5. U(k - 1) \cap S(k) = {}
      BY <2>4
    <2>6. S(k) \subseteq Objects /\ S(k) \subseteq h.in
      <3>1. r[k] \in Objects
        BY <1>2
      <3> QED BY <1>2, <3>1, UnderIs
    <2> QED BY <2>2, <2>5, <2>6
  <1>4. U(0) = {}
    OBVIOUS
  <1>5. h.in \subseteq Objects
    BY DEF Points
  <1>6. n + 1 \in 1..(n + 1) /\ n + 1 \in 0..(n + 1) /\ (n + 1) - 1 = n /\ n # n + 1
        /\ 0 # n + 1 /\ 0 \in 0..(n + 1) /\ n + 1 \in Nat /\ n \in 0..(n + 1)
    OBVIOUS
  <1> HIDE DEF U, S
  <1>7. Do(At(h, P), c) = At(g, P)
    <2> DEFINE G == [i \in 0..(n + 1) |-> IF i = n + 1 THEN At(g, P)
                        ELSE SceneOf(h.in \ U(i), h.has, h.chosen, P)]
    <2>1. G[0] = At(h, P)
      <3>1. G[0] = SceneOf(h.in \ {}, h.has, h.chosen, P)
        BY <1>4, <1>6
      <3>2. h.in \ {} = h.in
        OBVIOUS
      <3> QED BY <3>1, <3>2 DEF At
    <2>2. ASSUME NEW i \in 1..n PROVE G[i] = DoOne(G[i - 1], c[i])
      <3> DEFINE st == SceneOf(h.in \ U(i - 1), h.has, h.chosen, P)
      <3>1. G[i - 1] = st /\ G[i] = SceneOf(h.in \ U(i), h.has, h.chosen, P)
        BY <1>3
      <3>2. c[i].kind = "remove" /\ c[i].object = r[i]
        <4>1. c[i] = RemoveGameObject(r[i])
          BY <1>2
        <4> QED BY <4>1 DEF RemoveGameObject
      <3>3. (h.in \ U(i - 1)) \ S(i) = h.in \ U(i)
        BY <1>3
      <3>4. Leave(st, S(i)) = SceneOf((h.in \ U(i - 1)) \ S(i), h.has, h.chosen, P)
        BY LeaveIs
      <3>5. DoOne(st, c[i]) = Leave(st, S(i))
        <4>1. Subtree(st, r[i]) = S(i)
          BY SubtreeIs DEF S
        <4> HIDE DEF st
        <4> QED BY <3>2, <4>1 DEF DoOne
      <3> HIDE DEF G
      <3> QED BY <3>1, <3>3, <3>4, <3>5
    <2>3. G[n + 1] = DoOne(G[n], c[n + 1])
      <3> DEFINE st == SceneOf(h.in \ U(n), h.has, h.chosen, P)
      <3>1. G[n] = st /\ G[n + 1] = At(g, P)
        BY <1>6
      <3>2. c[n + 1].kind = "select" /\ c[n + 1].new = g.chosen
        BY <1>2 DEF Selects
      <3>3. DoOne(st, c[n + 1]) = [st EXCEPT !.selection = g.chosen]
        <4> HIDE DEF st
        <4> QED BY <3>2 DEF DoOne
      <3>4. At(g, P) = SceneOf(h.in \ U(n), h.has, g.chosen, P)
        BY <1>2 DEF At, U, S
      <3>5. [st EXCEPT !.selection = g.chosen] = SceneOf(h.in \ U(n), h.has, g.chosen, P)
        BY DEF SceneOf
      <3> HIDE DEF G
      <3> QED BY <3>1, <3>3, <3>4, <3>5
    <2>4. \A i \in 1..(n + 1) : G[i] = DoOne(G[i - 1], c[i])
      <3> HIDE DEF G
      <3>1. \A i \in 1..(n + 1) : i \in 1..n \/ i = n + 1
        OBVIOUS
      <3> QED BY <1>6, <2>2, <2>3, <3>1
    <2>5. G[n + 1] = At(g, P)
      BY <1>6
    <2> HIDE DEF G
    <2> QED BY <1>2, <1>6, <2>1, <2>4, <2>5, DoIs
  <1>8. ASSUME previous = h.chosen PROVE UndoAll(At(g, P), c) = At(h, P)
    <2> DEFINE G == [i \in 0..(n + 1) |-> IF i = n + 1 THEN At(h, P)
                        ELSE SceneOf(g.in \cup U(i), g.has, g.chosen, P)]
    <2>1. G[0] = At(g, P)
      <3>1. G[0] = SceneOf(g.in \cup {}, g.has, g.chosen, P)
        BY <1>4, <1>6
      <3>2. g.in \cup {} = g.in
        OBVIOUS
      <3> QED BY <3>1, <3>2 DEF At
    <2>2. ASSUME NEW i \in 1..n PROVE G[i] = UndoOne(G[i - 1], c[i])
      <3> DEFINE st == SceneOf(g.in \cup U(i - 1), g.has, g.chosen, P)
      <3>1. G[i - 1] = st /\ G[i] = SceneOf(g.in \cup U(i), g.has, g.chosen, P)
        BY <1>3
      <3>2. c[i].kind = "remove" /\ c[i].object = r[i]
        <4>1. c[i] = RemoveGameObject(r[i])
          BY <1>2
        <4> QED BY <4>1 DEF RemoveGameObject
      <3>3. (g.in \cup U(i - 1)) \cup S(i) = g.in \cup U(i) /\ S(i) \cap (g.in \cup U(i - 1)) = {}
        <4>1. S(i) \cap g.in = {}
          BY <1>2 DEF S
        <4> QED BY <1>3, <4>1
      <3>4. Enter(st, S(i)) = SceneOf((g.in \cup U(i - 1)) \cup S(i), g.has, g.chosen, P)
        <4>1. S(i) \subseteq Objects
          BY <1>3
        <4> QED BY <3>3, <4>1, EnterIs
      <3>5. UndoOne(st, c[i]) = Enter(st, S(i))
        <4>1. Subtree(st, r[i]) = S(i)
          BY SubtreeIs DEF S
        <4> HIDE DEF st
        <4> QED BY <3>2, <4>1 DEF UndoOne, ReAdd
      <3> HIDE DEF G
      <3> QED BY <3>1, <3>3, <3>4, <3>5
    <2>3. G[n + 1] = UndoOne(G[n], c[n + 1])
      <3> DEFINE st == SceneOf(g.in \cup U(n), g.has, g.chosen, P)
      <3>1. G[n] = st /\ G[n + 1] = At(h, P)
        BY <1>6
      <3>2. c[n + 1].kind = "select" /\ c[n + 1].previous = h.chosen
        BY <1>2, <1>8 DEF Selects
      <3>3. UndoOne(st, c[n + 1]) = [st EXCEPT !.selection = h.chosen]
        <4> HIDE DEF st
        <4> QED BY <3>2 DEF UndoOne
      <3>4. g.in \cup U(n) = h.in
        <4>1. U(n) \subseteq h.in
          BY <1>2 DEF U, S
        <4>2. g.in = h.in \ U(n)
          BY <1>2 DEF U, S
        <4> QED BY <4>1, <4>2
      <3>5. At(h, P) = SceneOf(g.in \cup U(n), g.has, h.chosen, P)
        BY <1>2, <3>4 DEF At
      <3>6. [st EXCEPT !.selection = h.chosen] = SceneOf(g.in \cup U(n), g.has, h.chosen, P)
        BY DEF SceneOf
      <3> HIDE DEF G
      <3> QED BY <3>1, <3>3, <3>5, <3>6
    <2>4. \A i \in 1..(n + 1) : G[i] = UndoOne(G[i - 1], c[i])
      <3> HIDE DEF G
      <3>1. \A i \in 1..(n + 1) : i \in 1..n \/ i = n + 1
        OBVIOUS
      <3> QED BY <1>6, <2>2, <2>3, <3>1
    <2>5. G[n + 1] = At(h, P)
      BY <1>6
    <2> HIDE DEF G
    <2> QED BY <1>2, <1>6, <2>1, <2>4, <2>5, UndoAllIs
  <1> QED BY <1>7, <1>8

LEMMA EquipsDo ==
    ASSUME NEW P, NEW c, NEW h \in Points, NEW g \in Points, Equips(c, h, g)
    PROVE  Do(At(h, P), c) = At(g, P) /\ UndoAll(At(g, P), c) = At(h, P)
  <1>1. PICK o \in h.in :
            /\ Len(c) = 1 /\ g.in = h.in /\ g.chosen = h.chosen
            /\ \/ /\ c[1] = [kind |-> "addComponent", object |-> o]
                  /\ o \notin h.has /\ g.has = h.has \cup {o}
               \/ /\ c[1] = [kind |-> "removeComponent", object |-> o]
                  /\ o \in h.has /\ g.has = h.has \ {o}
    BY DEF Equips
  <1>2. h.in \subseteq Objects
    BY DEF Points
  <1> DEFINE st == At(h, P)
             tt == At(g, P)
  <1>3. DoOne(st, c[1]) = tt /\ UndoOne(tt, c[1]) = st
    <2>1. ASSUME c[1] = [kind |-> "addComponent", object |-> o],
                 o \notin h.has, g.has = h.has \cup {o}
          PROVE  DoOne(st, c[1]) = tt /\ UndoOne(tt, c[1]) = st
      <3>1. Attach(st, o) = tt
        BY <1>1, <1>2, <2>1, AttachIs DEF At
      <3>2. Detach(tt, o) = st
        <4>1. Detach(tt, o) = SceneOf(g.in, g.has \ {o}, g.chosen, P)
          BY DetachIs DEF At
        <4>2. g.has \ {o} = h.has
          BY <2>1
        <4> QED BY <1>1, <4>1, <4>2 DEF At
      <3> HIDE DEF st, tt
      <3> QED BY <2>1, <3>1, <3>2 DEF DoOne, UndoOne
    <2>2. ASSUME c[1] = [kind |-> "removeComponent", object |-> o],
                 o \in h.has, g.has = h.has \ {o}
          PROVE  DoOne(st, c[1]) = tt /\ UndoOne(tt, c[1]) = st
      <3>1. Detach(st, o) = tt
        <4>1. Detach(st, o) = SceneOf(h.in, h.has \ {o}, h.chosen, P)
          BY DetachIs DEF At
        <4> QED BY <1>1, <2>2, <4>1 DEF At
      <3>2. Attach(tt, o) = st
        <4>1. o \in g.in /\ g.in \subseteq Objects /\ o \notin g.has
          BY <1>1, <1>2, <2>2
        <4>2. Attach(tt, o) = SceneOf(g.in, g.has \cup {o}, g.chosen, P)
          BY <4>1, AttachIs DEF At
        <4>3. g.has \cup {o} = h.has
          BY <2>2
        <4> QED BY <1>1, <4>2, <4>3 DEF At
      <3> HIDE DEF st, tt
      <3> QED BY <2>2, <3>1, <3>2 DEF DoOne, UndoOne
    <2> QED BY <1>1, <2>1, <2>2
  <1> HIDE DEF st, tt
  <1>4. Do(st, c) = tt
    <2> DEFINE G == [i \in 0..1 |-> IF i = 0 THEN st ELSE tt]
               n == 1
    <2>1. G[0] = st /\ G[n] = tt /\ \A i \in 1..n : G[i] = DoOne(G[i - 1], c[i])
      BY <1>3
    <2>2. n \in Nat /\ Len(c) = n
      BY <1>1
    <2> HIDE DEF G, n
    <2>3. Do(st, c) = G[n]
      BY <2>1, <2>2, DoIs
    <2> QED BY <2>1, <2>3
  <1>5. UndoAll(tt, c) = st
    <2> DEFINE G == [i \in 0..1 |-> IF i = 0 THEN tt ELSE st]
               n == 1
    <2>1. G[0] = tt /\ G[n] = st /\ \A i \in 1..n : G[i] = UndoOne(G[i - 1], c[i])
      BY <1>3
    <2>2. n \in Nat /\ Len(c) = n
      BY <1>1
    <2> HIDE DEF G, n
    <2>3. UndoAll(tt, c) = G[n]
      BY <2>1, <2>2, UndoAllIs
    <2> QED BY <2>1, <2>3
  <1> QED BY <1>4, <1>5 DEF st, tt

(* A composite makes the change that it stands for, and its undo takes it  *)
(* back if the selecting command remembers what was selected.              *)
LEMMA LeadsDo ==
    ASSUME NEW P, NEW c, NEW h \in Points, NEW g \in Points, NEW previous,
           Cardinality(Objects) \in Nat, NoParent \notin Objects,
           Leads(P, c, h, g, previous)
    PROVE  /\ Do(At(h, P), c) = At(g, P)
           /\ previous = h.chosen => UndoAll(At(g, P), c) = At(h, P)
  BY AddsDo, RemovesDo, EquipsDo DEF Leads

-----------------------------------------------------------------------------
(* The inductive invariant: there is a line of N + 1 scenes and N commands *)
(* such that each command leads from one scene to the next.  The scene is  *)
(* one of them; the commands before it are the undo stack, those after it, *)
(* from the last one down, the redo stack.  All scenes have the parents of *)
(* today, and an object that a command removed is in no later scene.       *)
Commands ==
    [kind: {"add"}, objects: SUBSET Objects]
        \cup [kind: {"remove", "addComponent", "removeComponent"}, object: Objects]
        \cup [kind: {"select"}, new: Seq(Objects), previous: Seq(Objects)]

Documents ==
    [entries: [Objects -> Nat], handled: [Objects -> Nat], selection: Seq(Objects)]

DocumentAt(h) == DocumentOf(h.in, h.has, h.chosen)

Parents(P, md) ==
    /\ md \subseteq Objects /\ P \in [Objects -> Objects \cup {NoParent}]
    /\ \A x \in Objects : P[x] # NoParent => x \in md /\ P[x] \in md

Sound(h, P, md) ==
    /\ h.in \subseteq md /\ h.has \subseteq md
    /\ IsInjective(h.chosen) /\ ToSet(h.chosen) \subseteq h.in
    /\ \A x \in Objects : P[x] \in h.in => x \in h.in

Timeline(H, C, N, P, md) ==
    /\ H \in [1..(N + 1) -> Points] /\ C \in [1..N -> Seq(Commands)]
    /\ Parents(P, md)
    /\ \A i \in 1..(N + 1) : Sound(H[i], P, md)
    /\ \A i \in 1..N : Leads(P, C[i], H[i], H[i + 1], H[i].chosen)
    /\ \A i \in 1..N, k \in 1..(N + 1) :
            i < k => (H[i].in \ H[i + 1].in) \cap H[k].in = {}

Standing(H, C, sc, us, rs, pa, fu) ==
    LET n == Len(us)
        m == Len(rs)
    IN  /\ us \in Seq(Seq(Commands)) /\ rs \in Seq(Seq(Commands))
        /\ pa \in Seq(Documents) /\ fu \in Seq(Documents)
        /\ Len(pa) = n /\ Len(fu) = m
        /\ sc = At(H[n + 1], sc.parent)
        /\ \A i \in 1..n : us[i] = C[i] /\ pa[i] = DocumentAt(H[i])
        /\ \A i \in 1..m : /\ rs[i] = C[(n + m + 1) - i]
                           /\ fu[i] = DocumentAt(H[(n + m + 2) - i])

EditorInv ==
    /\ \E H, C : /\ Timeline(H, C, Len(undoStack) + Len(redoStack), scene.parent, made)
                 /\ Standing(H, C, scene, undoStack, redoStack, past, future)
    /\ toCopy \in Seq(made) /\ commands \in 0..MaxCommands

LEMMA FrontIs ==
    ASSUME NEW T, NEW s \in Seq(T), s # <<>>
    PROVE  /\ Front(s) \in Seq(T) /\ Last(s) = s[Len(s)] /\ Last(s) \in T
           /\ Len(s) \in Nat \ {0} /\ Len(Front(s)) = Len(s) - 1
           /\ \A i \in 1..(Len(s) - 1) : Front(s)[i] = s[i]
  <1>1. Len(s) \in Nat \ {0} /\ \A i \in 1..Len(s) : s[i] \in T
    OBVIOUS
  <1>2. Last(s) = s[Len(s)] /\ Front(s) = SubSeq(s, 1, Len(s) - 1)
    BY DEF Last, Front
  <1>3. /\ SubSeq(s, 1, Len(s) - 1) \in Seq(T) /\ Len(SubSeq(s, 1, Len(s) - 1)) = Len(s) - 1
        /\ \A i \in 1..(Len(s) - 1) : SubSeq(s, 1, Len(s) - 1)[i] = s[i]
    <2> DEFINE k == Len(s) - 1
    <2>1. 1 \in Int /\ k \in Int /\ \A i \in 1..k : s[i] \in T
      BY <1>1
    <2>2. k \in Nat
      BY <1>1
    <2> HIDE DEF k
    <2>3. /\ (IF 1 <= k THEN k - 1 + 1 ELSE 0) = k /\ k - 1 + 1 = k
          /\ \A i \in 1..k : 1 + i - 1 = i
      BY <2>2
    <2>4. /\ SubSeq(s, 1, k) \in Seq(T)
          /\ Len(SubSeq(s, 1, k)) = IF 1 <= k THEN k - 1 + 1 ELSE 0
          /\ \A i \in 1..(k - 1 + 1) : SubSeq(s, 1, k)[i] = s[1 + i - 1]
      BY <2>1, SubSeqProperties
    <2>5. /\ SubSeq(s, 1, k) \in Seq(T) /\ Len(SubSeq(s, 1, k)) = k
          /\ \A i \in 1..k : SubSeq(s, 1, k)[i] = s[i]
      BY <2>3, <2>4
    <2> QED BY <1>1, <2>5 DEF k
  <1> QED BY <1>1, <1>2, <1>3

LEMMA AppendIs ==
    ASSUME NEW T, NEW s \in Seq(T), NEW x \in T
    PROVE  /\ Append(s, x) \in Seq(T) /\ Len(s) \in Nat /\ Len(Append(s, x)) = Len(s) + 1
           /\ Append(s, x)[Len(s) + 1] = x
           /\ \A i \in 1..Len(s) : Append(s, x)[i] = s[i]
  OBVIOUS

LEMMA EmptyIs ==
    ASSUME NEW T
    PROVE  <<>> \in Seq(T) /\ Len(<<>>) = 0 /\ ToSet(<<>>) = {} /\ IsInjective(<<>>)
  BY DEF ToSet, IsInjective

(* The document of a scene                                                 *)
DocumentIn(sc) ==
    [entries |-> sc.entries, handled |-> sc.handled, selection |-> sc.selection]

LEMMA DocumentIs ==
    ASSUME NEW h \in Points, NEW P
    PROVE  /\ DocumentIn(At(h, P)) = DocumentAt(h)
           /\ DocumentAt(h) \in Documents
           /\ At(h, P).parent = P /\ At(h, P).selection = h.chosen
           /\ At(h, P).carried = h.has
           /\ At(h, P).entries = Once(h.in) /\ At(h, P).handled = Once(h.in \cap h.has)
  <1>1. /\ At(h, P).parent = P /\ At(h, P).selection = h.chosen /\ At(h, P).carried = h.has
        /\ At(h, P).entries = Once(h.in) /\ At(h, P).handled = Once(h.in \cap h.has)
    BY DEF At, SceneOf
  <1>2. h.chosen \in Seq(Objects)
    BY DEF Points
  <1>3. Once(h.in) \in [Objects -> Nat] /\ Once(h.in \cap h.has) \in [Objects -> Nat]
    BY DEF Once
  <1> QED BY <1>1, <1>2, <1>3 DEF DocumentIn, DocumentAt, DocumentOf, Documents

(* One step back on the line.                                              *)
LEMMA StepBack ==
    ASSUME NEW H, NEW C, NEW md, NEW sc, NEW us, NEW rs, NEW pa, NEW fu,
           Cardinality(Objects) \in Nat, NoParent \notin Objects,
           Timeline(H, C, Len(us) + Len(rs), sc.parent, md),
           Standing(H, C, sc, us, rs, pa, fu), us # <<>>
    PROVE  LET sc2 == UndoAll(sc, Last(us))
           IN  /\ Len(Front(us)) + Len(Append(rs, Last(us))) = Len(us) + Len(rs)
               /\ sc2.parent = sc.parent /\ DocumentIn(sc2) = Last(pa)
               /\ Standing(H, C, sc2, Front(us), Append(rs, Last(us)),
                           Front(pa), Append(fu, DocumentIn(sc)))
  <1> DEFINE sc2 == UndoAll(sc, Last(us))
             us2 == Front(us)
             rs2 == Append(rs, Last(us))
             pa2 == Front(pa)
             fu2 == Append(fu, DocumentIn(sc))
             n == Len(us)
             m == Len(rs)
             P == sc.parent
             CS == Seq(Commands)
  <1>1. /\ us \in Seq(CS) /\ rs \in Seq(CS)
        /\ pa \in Seq(Documents) /\ fu \in Seq(Documents)
        /\ Len(pa) = n /\ Len(fu) = m
        /\ sc = At(H[n + 1], P)
        /\ \A i \in 1..n : us[i] = C[i] /\ pa[i] = DocumentAt(H[i])
        /\ \A i \in 1..m : /\ rs[i] = C[(n + m + 1) - i]
                           /\ fu[i] = DocumentAt(H[(n + m + 2) - i])
    BY DEF Standing
  <1>2. /\ H \in [1..(n + m + 1) -> Points]
        /\ \A i \in 1..(n + m) : Leads(P, C[i], H[i], H[i + 1], H[i].chosen)
    BY DEF Timeline
  <1>17. /\ n = Len(us) /\ m = Len(rs) /\ P = sc.parent /\ us # <<>>
         /\ sc2 = UndoAll(sc, Last(us)) /\ us2 = Front(us) /\ rs2 = Append(rs, Last(us))
         /\ pa2 = Front(pa) /\ fu2 = Append(fu, DocumentIn(sc))
    OBVIOUS
  <1> HIDE DEF n, m, P, CS, sc2, us2, rs2, pa2, fu2
  <1>3. /\ us2 \in Seq(CS) /\ Last(us) = us[n] /\ Last(us) \in CS
        /\ n \in Nat \ {0} /\ Len(us2) = n - 1
        /\ \A i \in 1..(n - 1) : us2[i] = us[i]
    <2>1. us \in Seq(CS) /\ us # <<>>
      BY <1>1
    <2>2. /\ Front(us) \in Seq(CS) /\ Last(us) = us[Len(us)] /\ Last(us) \in CS
          /\ Len(us) \in Nat \ {0} /\ Len(Front(us)) = Len(us) - 1
          /\ \A i \in 1..(Len(us) - 1) : Front(us)[i] = us[i]
      BY <2>1, FrontIs
    <2> QED BY <1>17, <2>2
  <1>4. /\ rs2 \in Seq(CS) /\ m \in Nat /\ Len(rs2) = m + 1 /\ rs2[m + 1] = Last(us)
        /\ \A i \in 1..m : rs2[i] = rs[i]
    BY <1>1, <1>3, <1>17, AppendIs
  <1>5. pa # <<>>
    BY <1>1, <1>3
  <1>6. /\ pa2 \in Seq(Documents) /\ Last(pa) = pa[n] /\ Len(pa2) = n - 1
        /\ \A i \in 1..(n - 1) : pa2[i] = pa[i]
    <2>1. /\ Front(pa) \in Seq(Documents) /\ Last(pa) = pa[Len(pa)]
          /\ Len(Front(pa)) = Len(pa) - 1 /\ \A i \in 1..(Len(pa) - 1) : Front(pa)[i] = pa[i]
      <3>1. pa \in Seq(Documents) /\ pa # <<>>
        BY <1>1, <1>5
      <3> QED BY <3>1, FrontIs
    <2> QED BY <1>1, <1>17, <2>1
  <1>7. n + 1 \in 1..(n + m + 1) /\ n \in 1..(n + m + 1) /\ n \in 1..(n + m) /\ n \in 1..n
        /\ (n - 1) + (m + 1) = n + m /\ (n - 1) + 1 = n
    BY <1>3, <1>4
  <1>8. H[n + 1] \in Points /\ H[n] \in Points
    BY <1>2, <1>7
  <1>9. DocumentIn(sc) = DocumentAt(H[n + 1]) /\ DocumentIn(sc) \in Documents
    <2>1. /\ DocumentIn(At(H[n + 1], P)) = DocumentAt(H[n + 1])
          /\ DocumentAt(H[n + 1]) \in Documents
      BY <1>8, DocumentIs
    <2> QED BY <1>1, <2>1
  <1>10. /\ fu2 \in Seq(Documents) /\ Len(fu2) = m + 1 /\ fu2[m + 1] = DocumentAt(H[n + 1])
         /\ \A i \in 1..m : fu2[i] = fu[i]
    BY <1>1, <1>9, <1>17, AppendIs
  <1>11. sc2 = At(H[n], P)
    <2>1. Leads(P, C[n], H[n], H[n + 1], H[n].chosen)
      BY <1>2, <1>7
    <2>2. Last(us) = C[n]
      BY <1>1, <1>3, <1>7
    <2>3. UndoAll(At(H[n + 1], P), C[n]) = At(H[n], P)
      BY <1>8, <2>1, LeadsDo
    <2> QED BY <1>1, <1>17, <2>2, <2>3
  <1>12. sc2.parent = P
    <2>1. At(H[n], P).parent = P
      BY <1>8, DocumentIs
    <2> QED BY <1>11, <2>1
  <1>13. DocumentIn(sc2) = Last(pa)
    <2>1. DocumentIn(At(H[n], P)) = DocumentAt(H[n])
      BY <1>8, DocumentIs
    <2>2. pa[n] = DocumentAt(H[n])
      BY <1>1, <1>7
    <2> QED BY <1>6, <1>11, <2>1, <2>2
  <1>14. \A i \in 1..(m + 1) : /\ rs2[i] = C[((n - 1) + (m + 1) + 1) - i]
                               /\ fu2[i] = DocumentAt(H[((n - 1) + (m + 1) + 2) - i])
    <2> SUFFICES ASSUME NEW i \in 1..(m + 1)
                 PROVE  /\ rs2[i] = C[((n - 1) + (m + 1) + 1) - i]
                        /\ fu2[i] = DocumentAt(H[((n - 1) + (m + 1) + 2) - i])
      OBVIOUS
    <2>1. /\ ((n - 1) + (m + 1) + 1) - i = (n + m + 1) - i
          /\ ((n - 1) + (m + 1) + 2) - i = (n + m + 2) - i
      <3>1. n \in Int /\ m \in Int /\ i \in Int
        BY <1>3, <1>4
      <3> QED BY <3>1
    <2>2. CASE i \in 1..m
      BY <1>1, <1>4, <1>10, <2>1, <2>2
    <2>3. CASE i = m + 1
      <3>1. (n + m + 1) - i = n /\ (n + m + 2) - i = n + 1
        BY <1>3, <1>4, <2>3
      <3> QED BY <1>1, <1>3, <1>4, <1>7, <1>10, <2>1, <2>3, <3>1
    <2>4. i \in 1..m \/ i = m + 1
      BY <1>4
    <2> QED BY <2>2, <2>3, <2>4
  <1>15. \A i \in 1..(n - 1) : us2[i] = C[i] /\ pa2[i] = DocumentAt(H[i])
    <2>1. \A i \in 1..(n - 1) : i \in 1..n
      BY <1>3
    <2> QED BY <1>1, <1>3, <1>6, <2>1
  <1>16. Standing(H, C, sc2, us2, rs2, pa2, fu2)
    <2>1. Len(us2) = n - 1 /\ Len(rs2) = m + 1 /\ Len(pa2) = n - 1 /\ Len(fu2) = m + 1
      BY <1>3, <1>4, <1>6, <1>10
    <2>2. /\ us2 \in Seq(CS) /\ rs2 \in Seq(CS) /\ pa2 \in Seq(Documents) /\ fu2 \in Seq(Documents)
      BY <1>3, <1>4, <1>6, <1>10
    <2>3. sc2 = At(H[Len(us2) + 1], sc2.parent)
      BY <1>7, <1>11, <1>12, <2>1
    <2>4. \A i \in 1..Len(us2) : us2[i] = C[i] /\ pa2[i] = DocumentAt(H[i])
      BY <1>15, <2>1
    <2>5. \A i \in 1..Len(rs2) : /\ rs2[i] = C[(Len(us2) + Len(rs2) + 1) - i]
                                /\ fu2[i] = DocumentAt(H[(Len(us2) + Len(rs2) + 2) - i])
      BY <1>14, <2>1
    <2> QED BY <2>1, <2>2, <2>3, <2>4, <2>5 DEF Standing, CS
  <1> QED BY <1>3, <1>4, <1>7, <1>12, <1>13, <1>16, <1>17

(* One step forward on the line; the command that is done again remembers  *)
(* the selection of today already.                                         *)
LEMMA StepForward ==
    ASSUME NEW H, NEW C, NEW md, NEW sc, NEW us, NEW rs, NEW pa, NEW fu,
           Cardinality(Objects) \in Nat, NoParent \notin Objects,
           Timeline(H, C, Len(us) + Len(rs), sc.parent, md),
           Standing(H, C, sc, us, rs, pa, fu), rs # <<>>
    PROVE  LET sc2 == Do(sc, Last(rs))
           IN  /\ Len(Append(us, Last(rs))) + Len(Front(rs)) = Len(us) + Len(rs)
               /\ sc2.parent = sc.parent /\ DocumentIn(sc2) = Last(fu)
               /\ Standing(H, C, sc2, Append(us, Last(rs)), Front(rs),
                           Append(pa, DocumentIn(sc)), Front(fu))
  <1> DEFINE sc2 == Do(sc, Last(rs))
             us2 == Append(us, Last(rs))
             rs2 == Front(rs)
             pa2 == Append(pa, DocumentIn(sc))
             fu2 == Front(fu)
             n == Len(us)
             m == Len(rs)
             P == sc.parent
             CS == Seq(Commands)
  <1>1. /\ us \in Seq(CS) /\ rs \in Seq(CS)
        /\ pa \in Seq(Documents) /\ fu \in Seq(Documents)
        /\ Len(pa) = n /\ Len(fu) = m
        /\ sc = At(H[n + 1], P)
        /\ \A i \in 1..n : us[i] = C[i] /\ pa[i] = DocumentAt(H[i])
        /\ \A i \in 1..m : /\ rs[i] = C[(n + m + 1) - i]
                           /\ fu[i] = DocumentAt(H[(n + m + 2) - i])
    BY DEF Standing
  <1>2. /\ H \in [1..(n + m + 1) -> Points]
        /\ \A i \in 1..(n + m) : Leads(P, C[i], H[i], H[i + 1], H[i].chosen)
    BY DEF Timeline
  <1>17. /\ n = Len(us) /\ m = Len(rs) /\ P = sc.parent /\ rs # <<>>
         /\ sc2 = Do(sc, Last(rs)) /\ us2 = Append(us, Last(rs)) /\ rs2 = Front(rs)
         /\ pa2 = Append(pa, DocumentIn(sc)) /\ fu2 = Front(fu)
    OBVIOUS
  <1> HIDE DEF n, m, P, CS, sc2, us2, rs2, pa2, fu2
  <1>3. /\ rs2 \in Seq(CS) /\ Last(rs) = rs[m] /\ Last(rs) \in CS
        /\ m \in Nat \ {0} /\ Len(rs2) = m - 1
        /\ \A i \in 1..(m - 1) : rs2[i] = rs[i]
    <2>1. rs \in Seq(CS) /\ rs # <<>>
      BY <1>1
    <2>2. /\ Front(rs) \in Seq(CS) /\ Last(rs) = rs[Len(rs)] /\ Last(rs) \in CS
          /\ Len(rs) \in Nat \ {0} /\ Len(Front(rs)) = Len(rs) - 1
          /\ \A i \in 1..(Len(rs) - 1) : Front(rs)[i] = rs[i]
      BY <2>1, FrontIs
    <2> QED BY <1>17, <2>2
  <1>4. /\ us2 \in Seq(CS) /\ n \in Nat /\ Len(us2) = n + 1 /\ us2[n + 1] = Last(rs)
        /\ \A i \in 1..n : us2[i] = us[i]
    BY <1>1, <1>3, <1>17, AppendIs
  <1>5. fu # <<>>
    BY <1>1, <1>3
  <1>6. /\ fu2 \in Seq(Documents) /\ Last(fu) = fu[m] /\ Len(fu2) = m - 1
        /\ \A i \in 1..(m - 1) : fu2[i] = fu[i]
    <2>1. /\ Front(fu) \in Seq(Documents) /\ Last(fu) = fu[Len(fu)]
          /\ Len(Front(fu)) = Len(fu) - 1 /\ \A i \in 1..(Len(fu) - 1) : Front(fu)[i] = fu[i]
      <3>1. fu \in Seq(Documents) /\ fu # <<>>
        BY <1>1, <1>5
      <3> QED BY <3>1, FrontIs
    <2> QED BY <1>1, <1>17, <2>1
  <1>7. n + 1 \in 1..(n + m + 1) /\ n + 2 \in 1..(n + m + 1) /\ n + 1 \in 1..(n + m) /\ m \in 1..m
        /\ (n + 1) + (m - 1) = n + m /\ (n + 1) + 1 = n + 2
        /\ (n + m + 1) - m = n + 1 /\ (n + m + 2) - m = n + 2
    BY <1>3, <1>4
  <1>8. H[n + 1] \in Points /\ H[n + 2] \in Points
    BY <1>2, <1>7
  <1>9. DocumentIn(sc) = DocumentAt(H[n + 1]) /\ DocumentIn(sc) \in Documents
    <2>1. /\ DocumentIn(At(H[n + 1], P)) = DocumentAt(H[n + 1])
          /\ DocumentAt(H[n + 1]) \in Documents
      BY <1>8, DocumentIs
    <2> QED BY <1>1, <2>1
  <1>10. /\ pa2 \in Seq(Documents) /\ Len(pa2) = n + 1 /\ pa2[n + 1] = DocumentAt(H[n + 1])
         /\ \A i \in 1..n : pa2[i] = pa[i]
    BY <1>1, <1>9, <1>17, AppendIs
  <1>18. Last(rs) = C[n + 1]
    BY <1>1, <1>3, <1>7
  <1>11. sc2 = At(H[n + 2], P)
    <2>1. Leads(P, C[n + 1], H[n + 1], H[n + 2], H[n + 1].chosen)
      BY <1>2, <1>7
    <2>3. Do(At(H[n + 1], P), C[n + 1]) = At(H[n + 2], P)
      BY <1>8, <2>1, LeadsDo
    <2> QED BY <1>1, <1>17, <1>18, <2>3
  <1>12. sc2.parent = P
    <2>1. At(H[n + 2], P).parent = P
      BY <1>8, DocumentIs
    <2> QED BY <1>11, <2>1
  <1>13. DocumentIn(sc2) = Last(fu)
    <2>1. DocumentIn(At(H[n + 2], P)) = DocumentAt(H[n + 2])
      BY <1>8, DocumentIs
    <2>2. fu[m] = DocumentAt(H[n + 2])
      BY <1>1, <1>7
    <2> QED BY <1>6, <1>11, <2>1, <2>2
  <1>14. \A i \in 1..(m - 1) : /\ rs2[i] = C[((n + 1) + (m - 1) + 1) - i]
                               /\ fu2[i] = DocumentAt(H[((n + 1) + (m - 1) + 2) - i])
    <2> SUFFICES ASSUME NEW i \in 1..(m - 1)
                 PROVE  /\ rs2[i] = C[((n + 1) + (m - 1) + 1) - i]
                        /\ fu2[i] = DocumentAt(H[((n + 1) + (m - 1) + 2) - i])
      OBVIOUS
    <2>1. /\ ((n + 1) + (m - 1) + 1) - i = (n + m + 1) - i
          /\ ((n + 1) + (m - 1) + 2) - i = (n + m + 2) - i
          /\ i \in 1..m
      BY <1>3, <1>4
    <2> QED BY <1>1, <1>3, <1>6, <2>1
  <1>15. \A i \in 1..(n + 1) : us2[i] = C[i] /\ pa2[i] = DocumentAt(H[i])
    <2>1. \A i \in 1..(n + 1) : i \in 1..n \/ i = n + 1
      BY <1>4
    <2> QED BY <1>1, <1>4, <1>10, <1>18, <2>1
  <1>16. Standing(H, C, sc2, us2, rs2, pa2, fu2)
    <2>1. Len(us2) = n + 1 /\ Len(rs2) = m - 1 /\ Len(pa2) = n + 1 /\ Len(fu2) = m - 1
      BY <1>3, <1>4, <1>6, <1>10
    <2>2. /\ us2 \in Seq(CS) /\ rs2 \in Seq(CS) /\ pa2 \in Seq(Documents) /\ fu2 \in Seq(Documents)
      BY <1>3, <1>4, <1>6, <1>10
    <2>3. sc2 = At(H[Len(us2) + 1], sc2.parent)
      BY <1>7, <1>11, <1>12, <2>1
    <2>4. \A i \in 1..Len(us2) : us2[i] = C[i] /\ pa2[i] = DocumentAt(H[i])
      BY <1>15, <2>1
    <2>5. \A i \in 1..Len(rs2) : /\ rs2[i] = C[(Len(us2) + Len(rs2) + 1) - i]
                                /\ fu2[i] = DocumentAt(H[(Len(us2) + Len(rs2) + 2) - i])
      BY <1>14, <2>1
    <2> QED BY <2>1, <2>2, <2>3, <2>4, <2>5 DEF Standing, CS
  <1> QED BY <1>3, <1>4, <1>7, <1>12, <1>13, <1>16, <1>17

-----------------------------------------------------------------------------
(* The selecting command of a composite gets to know what is selected.     *)
LEMMA RememberIs ==
    ASSUME NEW c \in Seq(Commands), scene.selection \in Seq(Objects)
    PROVE  /\ Remember(c) \in Seq(Commands) /\ Len(Remember(c)) = Len(c)
           /\ \A i \in 1..Len(c) :
                Remember(c)[i] = IF c[i].kind = "select"
                                 THEN [c[i] EXCEPT !.previous = scene.selection] ELSE c[i]
  <1>1. DOMAIN c = 1..Len(c) /\ Len(c) \in Nat /\ \A i \in 1..Len(c) : c[i] \in Commands
    OBVIOUS
  <1> DEFINE R(i) == IF c[i].kind = "select"
                     THEN [c[i] EXCEPT !.previous = scene.selection] ELSE c[i]
  <1>2. Remember(c) = [i \in 1..Len(c) |-> R(i)]
    BY <1>1 DEF Remember
  <1>3. ASSUME NEW i \in 1..Len(c) PROVE R(i) \in Commands
    <2>1. CASE c[i].kind = "select"
      <3>1. c[i] \in [kind: {"select"}, new: Seq(Objects), previous: Seq(Objects)]
        BY <1>1, <2>1 DEF Commands
      <3>2. [c[i] EXCEPT !.previous = scene.selection]
                \in [kind: {"select"}, new: Seq(Objects), previous: Seq(Objects)]
        BY <3>1
      <3> QED BY <2>1, <3>2 DEF Commands
    <2>2. CASE c[i].kind # "select"
      BY <1>1, <2>2
    <2> QED BY <2>1, <2>2
  <1> HIDE DEF R
  <1>4. [i \in 1..Len(c) |-> R(i)] \in Seq(Commands) /\ Len([i \in 1..Len(c) |-> R(i)]) = Len(c)
    BY <1>1, <1>3
  <1> QED BY <1>2, <1>4 DEF R

(* What a composite leads to stays the same.                               *)
LEMMA RememberLeads ==
    ASSUME NEW c \in Seq(Commands), scene.selection \in Seq(Objects),
           NEW P, NEW h, NEW g, NEW previous, Leads(P, c, h, g, previous)
    PROVE  Leads(P, Remember(c), h, g, scene.selection)
  <1> DEFINE R == Remember(c)
             sel == scene.selection
  <1>1. /\ Len(R) = Len(c) /\ Len(c) \in Nat
        /\ \A i \in 1..Len(c) : c[i].kind # "select" => R[i] = c[i]
        /\ \A i \in 1..Len(c) : c[i].kind = "select" => R[i] = [c[i] EXCEPT !.previous = sel]
    <2>1. /\ Len(R) = Len(c)
          /\ \A i \in 1..Len(c) :
                R[i] = IF c[i].kind = "select" THEN [c[i] EXCEPT !.previous = sel] ELSE c[i]
      BY RememberIs
    <2> HIDE DEF R, sel
    <2>2. ASSUME NEW i \in 1..Len(c)
          PROVE  /\ c[i].kind # "select" => R[i] = c[i]
                 /\ c[i].kind = "select" => R[i] = [c[i] EXCEPT !.previous = sel]
      <3>1. R[i] = IF c[i].kind = "select" THEN [c[i] EXCEPT !.previous = sel] ELSE c[i]
        BY <2>1
      <3> QED BY <3>1
    <2>3. Len(R) = Len(c) /\ Len(c) \in Nat
      BY <2>1
    <2> QED BY <2>2, <2>3
  <1> HIDE DEF R, sel
  <1>2. \A k \in 1..Len(c) : \A ch : Selects(c[k], ch, previous) => Selects(R[k], ch, sel)
    <2> SUFFICES ASSUME NEW k \in 1..Len(c), NEW ch, Selects(c[k], ch, previous)
                 PROVE  Selects(R[k], ch, sel)
      OBVIOUS
    <2>1. c[k] = [kind |-> "select", new |-> ch, previous |-> previous]
      BY DEF Selects
    <2>2. [[kind |-> "select", new |-> ch, previous |-> previous] EXCEPT !.previous = sel]
            = [kind |-> "select", new |-> ch, previous |-> sel]
      OBVIOUS
    <2>3. R[k] = [c[k] EXCEPT !.previous = sel]
      BY <1>1, <2>1
    <2> QED BY <2>1, <2>2, <2>3 DEF Selects
  <1>3. ASSUME Adds(c, h, g, previous) PROVE Adds(R, h, g, sel)
    <2>1. PICK n \in Nat : \E S \in [1..n -> SUBSET Objects] :
            /\ Len(c) = n + 1
            /\ \A i \in 1..n : c[i] = AddGameObject(S[i])
            /\ Selects(c[n + 1], g.chosen, previous)
            /\ \A i \in 1..n : S[i] \cap h.in = {}
            /\ \A i, j \in 1..n : i # j => S[i] \cap S[j] = {}
            /\ g.in = h.in \cup UNION {S[i] : i \in 1..n} /\ g.has = h.has
      BY <1>3 DEF Adds
    <2>2. PICK S \in [1..n -> SUBSET Objects] :
            /\ Len(c) = n + 1
            /\ \A i \in 1..n : c[i] = AddGameObject(S[i])
            /\ Selects(c[n + 1], g.chosen, previous)
            /\ \A i \in 1..n : S[i] \cap h.in = {}
            /\ \A i, j \in 1..n : i # j => S[i] \cap S[j] = {}
            /\ g.in = h.in \cup UNION {S[i] : i \in 1..n} /\ g.has = h.has
      BY <2>1
    <2>3. ASSUME NEW i \in 1..n PROVE R[i] = AddGameObject(S[i])
      <3>1. i \in 1..Len(c) /\ c[i] = AddGameObject(S[i])
        BY <2>2
      <3>2. c[i].kind # "select"
        BY <3>1 DEF AddGameObject
      <3> QED BY <1>1, <3>1, <3>2
    <2>4. Selects(R[n + 1], g.chosen, sel)
      <3>1. n + 1 \in 1..Len(c)
        BY <2>2
      <3> QED BY <1>2, <2>2, <3>1
    <2> QED BY <1>1, <2>2, <2>3, <2>4 DEF Adds
  <1>4. ASSUME Removes(P, c, h, g, previous) PROVE Removes(P, R, h, g, sel)
    <2>1. PICK n \in Nat : \E r \in [1..n -> Objects] :
            /\ Len(c) = n + 1
            /\ \A i \in 1..n : c[i] = RemoveGameObject(r[i])
            /\ Selects(c[n + 1], g.chosen, previous)
            /\ \A i \in 1..n : P[r[i]] = NoParent /\ Under(P, r[i]) \subseteq h.in
            /\ \A i, j \in 1..n : r[i] = r[j] => i = j
            /\ g.in = h.in \ UNION {Under(P, r[i]) : i \in 1..n} /\ g.has = h.has
      BY <1>4 DEF Removes
    <2>2. PICK r \in [1..n -> Objects] :
            /\ Len(c) = n + 1
            /\ \A i \in 1..n : c[i] = RemoveGameObject(r[i])
            /\ Selects(c[n + 1], g.chosen, previous)
            /\ \A i \in 1..n : P[r[i]] = NoParent /\ Under(P, r[i]) \subseteq h.in
            /\ \A i, j \in 1..n : r[i] = r[j] => i = j
            /\ g.in = h.in \ UNION {Under(P, r[i]) : i \in 1..n} /\ g.has = h.has
      BY <2>1
    <2>3. ASSUME NEW i \in 1..n PROVE R[i] = RemoveGameObject(r[i])
      <3>1. i \in 1..Len(c) /\ c[i] = RemoveGameObject(r[i])
        BY <2>2
      <3>2. c[i].kind # "select"
        BY <3>1 DEF RemoveGameObject
      <3> QED BY <1>1, <3>1, <3>2
    <2>4. Selects(R[n + 1], g.chosen, sel)
      <3>1. n + 1 \in 1..Len(c)
        BY <2>2
      <3> QED BY <1>2, <2>2, <3>1
    <2> QED BY <1>1, <2>2, <2>3, <2>4 DEF Removes
  <1>5. ASSUME Equips(c, h, g) PROVE Equips(R, h, g)
    <2>1. Len(c) = 1 => 1 \in 1..Len(c)
      OBVIOUS
    <2>2. PICK o \in h.in :
            /\ Len(c) = 1 /\ g.in = h.in /\ g.chosen = h.chosen
            /\ \/ /\ c[1] = [kind |-> "addComponent", object |-> o]
                  /\ o \notin h.has /\ g.has = h.has \cup {o}
               \/ /\ c[1] = [kind |-> "removeComponent", object |-> o]
                  /\ o \in h.has /\ g.has = h.has \ {o}
      BY <1>5 DEF Equips
    <2>3. c[1].kind # "select"
      BY <2>2
    <2>4. R[1] = c[1] /\ Len(R) = 1
      BY <1>1, <2>1, <2>2, <2>3
    <2> QED BY <2>2, <2>4 DEF Equips
  <1> QED BY <1>3, <1>4, <1>5 DEF Leads, R, sel

(* A composite that knew it already stays as it is.                        *)
LEMMA RememberAgain ==
    ASSUME NEW c \in Seq(Commands), scene.selection \in Seq(Objects),
           NEW P, NEW h, NEW g, Leads(P, c, h, g, scene.selection)
    PROVE  Remember(c) = c
  <1> DEFINE sel == scene.selection
  <1>1. \A i \in 1..Len(c) : c[i].kind = "select" => c[i].previous = sel
    <2>0. Len(c) \in Nat
      OBVIOUS
    <2>1. ASSUME Adds(c, h, g, sel)
          PROVE  \A i \in 1..Len(c) : c[i].kind = "select" => c[i].previous = sel
      <3>1. PICK n \in Nat : \E S \in [1..n -> SUBSET Objects] :
              /\ Len(c) = n + 1
              /\ \A i \in 1..n : c[i] = AddGameObject(S[i])
              /\ Selects(c[n + 1], g.chosen, sel)
        BY <2>1 DEF Adds
      <3>2. \A i \in 1..n : c[i].kind = "add"
        <4> SUFFICES ASSUME NEW i \in 1..n PROVE c[i].kind = "add"
          OBVIOUS
        <4>1. PICK x : c[i] = AddGameObject(x)
          BY <3>1
        <4> QED BY <4>1 DEF AddGameObject
      <3>3. c[n + 1].previous = sel
        BY <3>1 DEF Selects
      <3>4. \A i \in 1..Len(c) : i \in 1..n \/ i = n + 1
        BY <3>1
      <3> QED BY <3>2, <3>3, <3>4
    <2>2. ASSUME Removes(P, c, h, g, sel)
          PROVE  \A i \in 1..Len(c) : c[i].kind = "select" => c[i].previous = sel
      <3>1. PICK n \in Nat : \E r \in [1..n -> Objects] :
              /\ Len(c) = n + 1
              /\ \A i \in 1..n : c[i] = RemoveGameObject(r[i])
              /\ Selects(c[n + 1], g.chosen, sel)
        BY <2>2 DEF Removes
      <3>2. \A i \in 1..n : c[i].kind = "remove"
        <4> SUFFICES ASSUME NEW i \in 1..n PROVE c[i].kind = "remove"
          OBVIOUS
        <4>1. PICK x : c[i] = RemoveGameObject(x)
          BY <3>1
        <4> QED BY <4>1 DEF RemoveGameObject
      <3>3. c[n + 1].previous = sel
        BY <3>1 DEF Selects
      <3>4. \A i \in 1..Len(c) : i \in 1..n \/ i = n + 1
        BY <3>1
      <3> QED BY <3>2, <3>3, <3>4
    <2>3. ASSUME Equips(c, h, g)
          PROVE  \A i \in 1..Len(c) : c[i].kind = "select" => c[i].previous = sel
      <3>1. Len(c) = 1 /\ c[1].kind # "select"
        BY <2>3 DEF Equips
      <3>2. \A i \in 1..Len(c) : i = 1
        BY <3>1
      <3> QED BY <3>1, <3>2
    <2> QED BY <2>1, <2>2, <2>3 DEF Leads
  <1>2. /\ Remember(c) \in Seq(Commands) /\ Len(Remember(c)) = Len(c) /\ Len(c) \in Nat
        /\ \A i \in 1..Len(c) :
                Remember(c)[i] = IF c[i].kind = "select"
                                 THEN [c[i] EXCEPT !.previous = sel] ELSE c[i]
    BY RememberIs
  <1>3. ASSUME NEW i \in 1..Len(c) PROVE Remember(c)[i] = c[i]
    <2>1. CASE c[i].kind = "select"
      <3>1. c[i] \in Commands
        OBVIOUS
      <3>2. c[i] \in [kind: {"select"}, new: Seq(Objects), previous: Seq(Objects)]
        BY <2>1, <3>1 DEF Commands
      <3>3. c[i].previous = sel
        BY <1>1, <2>1
      <3> HIDE DEF sel
      <3>4. [c[i] EXCEPT !.previous = sel] = c[i]
        BY <3>2, <3>3
      <3> QED BY <1>2, <2>1, <3>4 DEF sel
    <2>2. CASE c[i].kind # "select"
      BY <1>2, <2>2
    <2> QED BY <2>1, <2>2
  <1> HIDE DEF sel
  <1> QED BY <1>2, <1>3

-----------------------------------------------------------------------------
(* What a new command does to the line: what was undone is cut off, clones *)
(* may have got components and parents, and deleted objects have lost      *)
(* their parents.  The scenes of the past are not disturbed.               *)
Refit(h, K) == [in |-> h.in, has |-> h.has \cup K, chosen |-> h.chosen]

LEMMA RefitIs ==
    ASSUME NEW h \in Points, NEW K, K \subseteq Objects, K \cap h.in = {}
    PROVE  /\ Refit(h, K) \in Points /\ DocumentAt(Refit(h, K)) = DocumentAt(h)
           /\ Refit(h, K).in = h.in /\ Refit(h, K).has = h.has \cup K
           /\ Refit(h, K).chosen = h.chosen
  <1>1. h.in \subseteq Objects /\ h.has \subseteq Objects /\ h.chosen \in Seq(Objects)
    BY DEF Points
  <1>2. /\ Refit(h, K).in = h.in /\ Refit(h, K).has = h.has \cup K
        /\ Refit(h, K).chosen = h.chosen
    BY DEF Refit
  <1>3. Refit(h, K) \in Points
    BY <1>1 DEF Refit, Points
  <1>4. h.in \cap (h.has \cup K) = h.in \cap h.has
    OBVIOUS
  <1> QED BY <1>2, <1>3, <1>4 DEF DocumentAt, DocumentOf

LEMMA RefitLeads ==
    ASSUME NEW P, NEW Q, NEW c, NEW h \in Points, NEW g \in Points, NEW previous,
           NEW K, K \subseteq Objects, K \cap h.in = {}, K \cap g.in = {},
           Cardinality(Objects) \in Nat, Leads(P, c, h, g, previous),
           \A x \in Objects : Q[x] = P[x] \/ (x \notin h.in \ g.in /\ Q[x] \notin h.in \ g.in)
    PROVE  Leads(Q, c, Refit(h, K), Refit(g, K), previous)
  <1> DEFINE hh == Refit(h, K)
             gg == Refit(g, K)
  <1>1. /\ hh.in = h.in /\ hh.has = h.has \cup K /\ hh.chosen = h.chosen
        /\ gg.in = g.in /\ gg.has = g.has \cup K /\ gg.chosen = g.chosen
    BY DEF Refit
  <1> HIDE DEF hh, gg
  <1>2. ASSUME Adds(c, h, g, previous) PROVE Adds(c, hh, gg, previous)
    BY <1>1, <1>2 DEF Adds
  <1>3. ASSUME Removes(P, c, h, g, previous) PROVE Removes(Q, c, hh, gg, previous)
    <2>1. PICK n \in Nat : \E r \in [1..n -> Objects] :
            /\ Len(c) = n + 1
            /\ \A i \in 1..n : c[i] = RemoveGameObject(r[i])
            /\ Selects(c[n + 1], g.chosen, previous)
            /\ \A i \in 1..n : P[r[i]] = NoParent /\ Under(P, r[i]) \subseteq h.in
            /\ \A i, j \in 1..n : r[i] = r[j] => i = j
            /\ g.in = h.in \ UNION {Under(P, r[i]) : i \in 1..n} /\ g.has = h.has
      BY <1>3 DEF Removes
    <2>2. PICK r \in [1..n -> Objects] :
            /\ Len(c) = n + 1
            /\ \A i \in 1..n : c[i] = RemoveGameObject(r[i])
            /\ Selects(c[n + 1], g.chosen, previous)
            /\ \A i \in 1..n : P[r[i]] = NoParent /\ Under(P, r[i]) \subseteq h.in
            /\ \A i, j \in 1..n : r[i] = r[j] => i = j
            /\ g.in = h.in \ UNION {Under(P, r[i]) : i \in 1..n} /\ g.has = h.has
      BY <2>1
    <2>3. ASSUME NEW i \in 1..n PROVE Under(Q, r[i]) = Under(P, r[i]) /\ Q[r[i]] = NoParent
      <3>1. r[i] \in Objects
        BY <2>2
      <3>2. Under(P, r[i]) \subseteq h.in \ g.in
        BY <2>2
      <3>3. r[i] \in Under(P, r[i])
        BY <3>1, UnderIs
      <3>4. \A x \in Objects : Q[x] = P[x] \/ (x \notin Under(P, r[i]) /\ Q[x] \notin Under(P, r[i]))
        BY <3>2
      <3>5. Under(Q, r[i]) = Under(P, r[i])
        BY <3>1, <3>4, SameUnder
      <3>6. Q[r[i]] = P[r[i]]
        BY <3>1, <3>3, <3>4
      <3> QED BY <2>2, <3>5, <3>6
    <2>4. UNION {Under(Q, r[i]) : i \in 1..n} = UNION {Under(P, r[i]) : i \in 1..n}
      BY <2>3
    <2>5. \A i \in 1..n : Q[r[i]] = NoParent /\ Under(Q, r[i]) \subseteq hh.in
      BY <1>1, <2>2, <2>3
    <2>6. /\ gg.in = hh.in \ UNION {Under(Q, r[i]) : i \in 1..n} /\ gg.has = hh.has
          /\ Selects(c[n + 1], gg.chosen, previous)
      BY <1>1, <2>2, <2>4
    <2>7. \E r2 \in [1..n -> Objects] :
            /\ Len(c) = n + 1
            /\ \A i \in 1..n : c[i] = RemoveGameObject(r2[i])
            /\ Selects(c[n + 1], gg.chosen, previous)
            /\ \A i \in 1..n : Q[r2[i]] = NoParent /\ Under(Q, r2[i]) \subseteq hh.in
            /\ \A i, j \in 1..n : r2[i] = r2[j] => i = j
            /\ gg.in = hh.in \ UNION {Under(Q, r2[i]) : i \in 1..n} /\ gg.has = hh.has
      <3> WITNESS r \in [1..n -> Objects]
      <3> QED BY <2>2, <2>5, <2>6
    <2> QED BY <2>7 DEF Removes
  <1>4. ASSUME Equips(c, h, g) PROVE Equips(c, hh, gg)
    <2>1. PICK o \in h.in :
            /\ Len(c) = 1 /\ g.in = h.in /\ g.chosen = h.chosen
            /\ \/ /\ c[1] = [kind |-> "addComponent", object |-> o]
                  /\ o \notin h.has /\ g.has = h.has \cup {o}
               \/ /\ c[1] = [kind |-> "removeComponent", object |-> o]
                  /\ o \in h.has /\ g.has = h.has \ {o}
      BY <1>4 DEF Equips
    <2>2. o \notin K
      BY <2>1
    <2> QED BY <1>1, <2>1, <2>2 DEF Equips
  <1> QED BY <1>2, <1>3, <1>4 DEF Leads, hh, gg

(* What changed parents may be after a command: the same as before, none   *)
(* for an object in the scene, and a new object for a new one.             *)
Reparents(P, Q, in, md, md2) ==
    \A x \in Objects :
        \/ Q[x] = P[x]
        \/ x \in in /\ Q[x] = NoParent
        \/ x \in md2 \ md /\ Q[x] \in md2 \ md

LEMMA NewScene ==
    ASSUME NEW H, NEW C, NEW md, NEW sc, NEW us, NEW rs, NEW pa, NEW fu,
           Cardinality(Objects) \in Nat, NoParent \notin Objects,
           Timeline(H, C, Len(us) + Len(rs), sc.parent, md),
           Standing(H, C, sc, us, rs, pa, fu),
           NEW Q, NEW md2, NEW K, NEW g \in Points, NEW c \in Seq(Commands),
           md \subseteq md2, Parents(Q, md2), K \subseteq md2 \ md,
           Reparents(sc.parent, Q, H[Len(us) + 1].in, md, md2),
           Leads(Q, c, Refit(H[Len(us) + 1], K), g, H[Len(us) + 1].chosen),
           Sound(g, Q, md2), g.in \subseteq H[Len(us) + 1].in \cup (md2 \ md)
    PROVE  \E H2, C2 :
              /\ Timeline(H2, C2, Len(Append(us, c)) + Len(<<>>), At(g, Q).parent, md2)
              /\ Standing(H2, C2, At(g, Q), Append(us, c), <<>>,
                          Append(pa, DocumentIn(sc)), <<>>)
  <1> DEFINE sc2 == At(g, Q)
             us2 == Append(us, c)
             pa2 == Append(pa, DocumentIn(sc))
             n == Len(us)
             m == Len(rs)
             P == sc.parent
             CS == Seq(Commands)
  <1>1. /\ us \in Seq(CS) /\ rs \in Seq(CS)
        /\ pa \in Seq(Documents) /\ fu \in Seq(Documents)
        /\ Len(pa) = n /\ Len(fu) = m
        /\ sc = At(H[n + 1], P)
        /\ \A i \in 1..n : us[i] = C[i] /\ pa[i] = DocumentAt(H[i])
    BY DEF Standing
  <1>2. /\ H \in [1..(n + m + 1) -> Points] /\ C \in [1..(n + m) -> CS]
        /\ Parents(P, md)
        /\ \A i \in 1..(n + m + 1) : Sound(H[i], P, md)
        /\ \A i \in 1..(n + m) : Leads(P, C[i], H[i], H[i + 1], H[i].chosen)
        /\ \A i \in 1..(n + m), k \in 1..(n + m + 1) :
                i < k => (H[i].in \ H[i + 1].in) \cap H[k].in = {}
    BY DEF Timeline
  <1>3. /\ Reparents(P, Q, H[n + 1].in, md, md2)
        /\ Leads(Q, c, Refit(H[n + 1], K), g, H[n + 1].chosen)
        /\ g.in \subseteq H[n + 1].in \cup (md2 \ md)
        /\ us2 = Append(us, c) /\ n = Len(us) /\ m = Len(rs) /\ c \in CS
        /\ sc2 = At(g, Q) /\ pa2 = Append(pa, DocumentIn(sc))
    OBVIOUS
  <1> HIDE DEF n, m, P, CS, sc2, us2, pa2
  <1>4. n \in Nat /\ m \in Nat
    BY <1>1, <1>3
  <1>5. /\ us2 \in Seq(CS) /\ Len(us2) = n + 1 /\ us2[n + 1] = c
        /\ \A i \in 1..n : us2[i] = us[i]
    BY <1>1, <1>3, AppendIs
  <1>6. /\ n + 1 \in 1..(n + m + 1)
        /\ \A i \in 1..n : i \in 1..(n + m) /\ i + 1 \in 1..(n + 1)
        /\ \A i \in 1..(n + 1) : i \in 1..(n + m + 1)
    BY <1>4
  <1>7. md2 \subseteq Objects /\ K \subseteq Objects
    BY DEF Parents
  <1>8. ASSUME NEW i \in 1..(n + 1)
        PROVE  /\ H[i] \in Points /\ K \cap H[i].in = {} /\ Refit(H[i], K) \in Points
               /\ Refit(H[i], K).in = H[i].in /\ Refit(H[i], K).has = H[i].has \cup K
               /\ Refit(H[i], K).chosen = H[i].chosen
               /\ DocumentAt(Refit(H[i], K)) = DocumentAt(H[i])
               /\ DocumentAt(H[i]) \in Documents
               /\ H[i].in \subseteq md /\ H[i].has \subseteq md
    <2>1. H[i] \in Points /\ Sound(H[i], P, md)
      BY <1>2, <1>6
    <2>2. K \cap H[i].in = {} /\ H[i].in \subseteq md /\ H[i].has \subseteq md
      BY <2>1 DEF Sound
    <2>3. DocumentAt(H[i]) \in Documents
      BY <2>1, DocumentIs
    <2> QED BY <1>7, <2>1, <2>2, <2>3, RefitIs
  <1>9. ASSUME NEW i \in 1..(n + 1) PROVE Sound(Refit(H[i], K), Q, md2)
    <2>1. Sound(H[i], P, md)
      BY <1>2, <1>6
    <2>2. \A x \in Objects : Q[x] \in H[i].in => x \in H[i].in
      <3> SUFFICES ASSUME NEW x \in Objects, Q[x] \in H[i].in PROVE x \in H[i].in
        OBVIOUS
      <3>1. Q[x] # NoParent /\ Q[x] \notin md2 \ md
        BY <1>7, <1>8
      <3>2. Q[x] = P[x]
        BY <1>3, <3>1 DEF Reparents
      <3> QED BY <2>1, <3>2 DEF Sound
    <2>3. /\ H[i].in \subseteq md2 /\ H[i].has \cup K \subseteq md2
          /\ IsInjective(H[i].chosen) /\ ToSet(H[i].chosen) \subseteq H[i].in
      BY <1>8, <2>1 DEF Sound
    <2> QED BY <1>8, <2>2, <2>3 DEF Sound
  <1>10. ASSUME NEW i \in 1..n
         PROVE  Leads(Q, C[i], Refit(H[i], K), Refit(H[i + 1], K), H[i].chosen)
    <2>1. /\ H[i] \in Points /\ H[i + 1] \in Points
          /\ K \cap H[i].in = {} /\ K \cap H[i + 1].in = {} /\ H[i].in \subseteq md
      <3>1. i \in 1..(n + 1) /\ i + 1 \in 1..(n + 1)
        BY <1>4
      <3> QED BY <1>8, <3>1
    <2>2. Leads(P, C[i], H[i], H[i + 1], H[i].chosen)
      BY <1>2, <1>6
    <2>3. (H[i].in \ H[i + 1].in) \cap H[n + 1].in = {}
      <3>1. i < n + 1 /\ i \in 1..(n + m) /\ n + 1 \in 1..(n + m + 1)
        BY <1>4, <1>6
      <3> QED BY <1>2, <3>1
    <2> DEFINE lost == H[i].in \ H[i + 1].in
    <2>4. \A x \in Objects : Q[x] = P[x] \/ (x \notin lost /\ Q[x] \notin lost)
      <3>1. lost \subseteq md /\ NoParent \notin lost /\ lost \cap H[n + 1].in = {}
        BY <1>7, <2>1, <2>3
      <3> HIDE DEF lost
      <3> QED BY <1>3, <3>1 DEF Reparents
    <2> QED BY <1>7, <2>1, <2>2, <2>4, RefitLeads
  <1> DEFINE H2 == [i \in 1..((n + 1) + 0 + 1) |-> IF i = n + 2 THEN g ELSE Refit(H[i], K)]
             C2 == [i \in 1..((n + 1) + 0) |-> IF i = n + 1 THEN c ELSE C[i]]
  <1>11. /\ H2[n + 2] = g /\ \A i \in 1..(n + 1) : H2[i] = Refit(H[i], K)
         /\ C2[n + 1] = c /\ \A i \in 1..n : C2[i] = C[i]
    BY <1>4
  <1>12. /\ H2 \in [1..((n + 1) + 0 + 1) -> Points] /\ C2 \in [1..((n + 1) + 0) -> CS]
    <2>1. ASSUME NEW i \in 1..((n + 1) + 0 + 1)
          PROVE  (IF i = n + 2 THEN g ELSE Refit(H[i], K)) \in Points
      <3>1. i = n + 2 \/ i \in 1..(n + 1)
        BY <1>4
      <3> QED BY <1>8, <3>1
    <2>2. ASSUME NEW i \in 1..((n + 1) + 0)
          PROVE  (IF i = n + 1 THEN c ELSE C[i]) \in CS
      <3>1. i = n + 1 \/ i \in 1..(n + m)
        BY <1>4
      <3> QED BY <1>2, <1>3, <3>1
    <2> QED BY <2>1, <2>2
  <1>13. \A i \in 1..((n + 1) + 0 + 1) : i \in 1..(n + 1) \/ i = n + 2
    BY <1>4
  <1>14. \A i \in 1..((n + 1) + 0) : (i \in 1..n /\ i + 1 \in 1..(n + 1) /\ i \in 1..(n + 1)) \/ i = n + 1
    BY <1>4
  <1>15. n + 1 \in 1..(n + 1) /\ (n + 1) + 1 = n + 2
    BY <1>4
  <1> HIDE DEF H2, C2
  <1>16. \A i \in 1..((n + 1) + 0 + 1) : Sound(H2[i], Q, md2)
    BY <1>9, <1>11, <1>13
  <1>17. \A i \in 1..((n + 1) + 0) : Leads(Q, C2[i], H2[i], H2[i + 1], H2[i].chosen)
    <2> SUFFICES ASSUME NEW i \in 1..((n + 1) + 0)
                 PROVE  Leads(Q, C2[i], H2[i], H2[i + 1], H2[i].chosen)
      OBVIOUS
    <2>1. CASE i \in 1..n
      <3>1. /\ H2[i] = Refit(H[i], K) /\ H2[i + 1] = Refit(H[i + 1], K) /\ C2[i] = C[i]
            /\ H2[i].chosen = H[i].chosen
        BY <1>4, <1>8, <1>11, <2>1
      <3> QED BY <1>10, <2>1, <3>1
    <2>2. CASE i = n + 1
      <3>1. /\ H2[i] = Refit(H[n + 1], K) /\ H2[i + 1] = g /\ C2[i] = c
            /\ H2[i].chosen = H[n + 1].chosen
        BY <1>8, <1>11, <1>15, <2>2
      <3> QED BY <1>3, <3>1
    <2> QED BY <1>14, <2>1, <2>2
  <1>18. \A i \in 1..((n + 1) + 0), k \in 1..((n + 1) + 0 + 1) :
            i < k => (H2[i].in \ H2[i + 1].in) \cap H2[k].in = {}
    <2> SUFFICES ASSUME NEW i \in 1..((n + 1) + 0), NEW k \in 1..((n + 1) + 0 + 1), i < k
                 PROVE  (H2[i].in \ H2[i + 1].in) \cap H2[k].in = {}
      OBVIOUS
    <2>1. CASE i = n + 1
      <3>1. k = n + 2 /\ i + 1 = n + 2
        BY <1>4, <2>1
      <3> QED BY <3>1
    <2>2. CASE i \in 1..n
      <3>1. H2[i].in = H[i].in /\ H2[i + 1].in = H[i + 1].in /\ H[i].in \subseteq md
        <4>1. i \in 1..(n + 1) /\ i + 1 \in 1..(n + 1)
          BY <1>4, <2>2
        <4> QED BY <1>8, <1>11, <4>1
      <3>2. CASE k \in 1..(n + 1)
        <4>1. H2[k].in = H[k].in
          BY <1>8, <1>11, <3>2
        <4>2. (H[i].in \ H[i + 1].in) \cap H[k].in = {}
          BY <1>2, <1>6, <2>2, <3>2
        <4> QED BY <3>1, <4>1, <4>2
      <3>3. CASE k = n + 2
        <4>1. (H[i].in \ H[i + 1].in) \cap H[n + 1].in = {}
          <5>1. i < n + 1 /\ i \in 1..(n + m) /\ n + 1 \in 1..(n + m + 1)
            BY <1>4, <1>6, <2>2
          <5> QED BY <1>2, <5>1
        <4>2. H2[k].in \subseteq H[n + 1].in \cup (md2 \ md)
          BY <1>3, <1>11, <3>3
        <4> QED BY <3>1, <4>1, <4>2
      <3> QED BY <1>13, <3>2, <3>3
    <2> QED BY <1>14, <2>1, <2>2
  <1>19. sc2.parent = Q
    BY <1>3, DocumentIs
  <1>20. Len(<<>>) = 0 /\ <<>> \in Seq(CS) /\ <<>> \in Seq(Documents) /\ 1..0 = {}
    OBVIOUS
  <1>21. Timeline(H2, C2, Len(us2) + Len(<<>>), sc2.parent, md2)
    BY <1>5, <1>12, <1>16, <1>17, <1>18, <1>19, <1>20 DEF Timeline, CS
  <1>22. /\ pa2 \in Seq(Documents) /\ Len(pa2) = n + 1 /\ pa2[n + 1] = DocumentAt(H[n + 1])
         /\ \A i \in 1..n : pa2[i] = pa[i]
    <2>1. DocumentIn(sc) = DocumentAt(H[n + 1]) /\ DocumentIn(sc) \in Documents
      <3>1. H[n + 1] \in Points
        BY <1>8, <1>15
      <3>2. /\ DocumentIn(At(H[n + 1], P)) = DocumentAt(H[n + 1])
            /\ DocumentAt(H[n + 1]) \in Documents
        BY <3>1, DocumentIs
      <3> QED BY <1>1, <3>2
    <2> QED BY <1>1, <1>3, <2>1, AppendIs
  <1>23. \A i \in 1..(n + 1) : us2[i] = C2[i] /\ pa2[i] = DocumentAt(H2[i])
    <2> SUFFICES ASSUME NEW i \in 1..(n + 1) PROVE us2[i] = C2[i] /\ pa2[i] = DocumentAt(H2[i])
      OBVIOUS
    <2>1. DocumentAt(H2[i]) = DocumentAt(H[i])
      BY <1>8, <1>11
    <2>2. i \in 1..n \/ i = n + 1
      BY <1>4
    <2> QED BY <1>1, <1>5, <1>11, <1>22, <2>1, <2>2
  <1>24. Standing(H2, C2, sc2, us2, <<>>, pa2, <<>>)
    <2>1. sc2 = At(H2[Len(us2) + 1], sc2.parent)
      BY <1>3, <1>5, <1>11, <1>15, <1>19
    <2> QED BY <1>5, <1>20, <1>22, <1>23, <2>1 DEF Standing, CS
  <1> QED BY <1>21, <1>24 DEF sc2, us2, pa2

-----------------------------------------------------------------------------
(* The scene file is a line of one scene.                                  *)
LEMMA EditorInit == Init => EditorInv
  <1> SUFFICES ASSUME Init PROVE EditorInv
    OBVIOUS
  <1> DEFINE h == [in |-> InScene, has |-> Carrying, chosen |-> <<>>]
             P == [o \in Objects |-> IF o \in InScene THEN ParentOf[o] ELSE NoParent]
             H == [i \in 1..(0 + 0 + 1) |-> h]
             C == [i \in 1..(0 + 0) |-> <<>>]
  <1>1. /\ Len(<<>>) = 0 /\ <<>> \in Seq(Seq(Commands)) /\ <<>> \in Seq(Documents)
        /\ <<>> \in Seq(Objects) /\ <<>> \in Seq(made) /\ 1..0 = {} /\ 0 + 0 = 0
    OBVIOUS
  <1>2. h \in Points /\ h.in = InScene /\ h.has = Carrying /\ h.chosen = <<>>
    BY <1>1, SceneFileAssumption DEF Points
  <1>3. scene = At(h, P)
    <2>1. FirstScene = [entries |-> Once(InScene), handled |-> Once(Carrying), carried |-> Carrying,
                        parent |-> P, selection |-> <<>>]
      BY DEF FirstScene, Once
    <2>2. InScene \cap Carrying = Carrying
      BY SceneFileAssumption
    <2>3. At(h, P) = SceneOf(InScene, Carrying, <<>>, P)
      BY <1>2 DEF At
    <2> HIDE DEF P
    <2> QED BY <2>1, <2>2, <2>3 DEF Init, SceneOf
  <1>4. Parents(P, made)
    BY SceneFileAssumption DEF Init, Parents
  <1>5. Sound(h, P, made)
    <2>1. \A x \in Objects : P[x] \in InScene => x \in InScene
      BY SceneFileAssumption
    <2>2. ToSet(<<>>) = {} /\ IsInjective(<<>>)
      BY EmptyIs
    <2> HIDE DEF P, h
    <2> QED BY <1>2, <2>1, <2>2, SceneFileAssumption DEF Sound, Init
  <1>6. H \in [1..(0 + 0 + 1) -> Points] /\ C \in [1..(0 + 0) -> Seq(Commands)]
        /\ \A i \in 1..(0 + 0 + 1) : H[i] = h
    BY <1>1, <1>2
  <1>7. scene.parent = P
    BY <1>2, <1>3, DocumentIs
  <1> HIDE DEF H, C, h, P
  <1>8. Timeline(H, C, 0 + 0, P, made)
    BY <1>1, <1>4, <1>5, <1>6 DEF Timeline
  <1>9. Standing(H, C, scene, <<>>, <<>>, <<>>, <<>>)
    <2>1. H[Len(<<>>) + 1] = h
      BY <1>1, <1>6
    <2>2. scene = At(H[Len(<<>>) + 1], scene.parent)
      BY <1>3, <1>7, <2>1
    <2> QED BY <1>1, <2>2 DEF Standing
  <1>10. Timeline(H, C, Len(undoStack) + Len(redoStack), scene.parent, made)
    BY <1>1, <1>7, <1>8 DEF Init
  <1>11. toCopy \in Seq(made) /\ commands \in 0..MaxCommands
    BY <1>1, SceneFileAssumption DEF Init
  <1> QED BY <1>9, <1>10, <1>11 DEF EditorInv, Init

LEMMA CountObjects == Cardinality(Objects) \in Nat /\ NoParent \notin Objects
  BY SceneFileAssumption, FS_CardinalityType

LEMMA DocumentIsIn == Document = DocumentIn(scene)
  BY DEF Document, DocumentIn

LEMMA EditorUndo ==
    EditorInv /\ Undo => EditorInv' /\ DocumentIn(scene') = Last(past)
  <1> SUFFICES ASSUME EditorInv, Undo
               PROVE  EditorInv' /\ DocumentIn(scene') = Last(past)
    OBVIOUS
  <1>1. PICK H, C : /\ Timeline(H, C, Len(undoStack) + Len(redoStack), scene.parent, made)
                    /\ Standing(H, C, scene, undoStack, redoStack, past, future)
    BY DEF EditorInv
  <1>2. /\ undoStack # <<>>
        /\ scene' = UndoAll(scene, Last(undoStack))
        /\ undoStack' = Front(undoStack)
        /\ redoStack' = Append(redoStack, Last(undoStack))
        /\ past' = Front(past) /\ future' = Append(future, DocumentIn(scene))
        /\ toCopy' = toCopy /\ made' = made /\ commands' = commands
    BY DocumentIsIn DEF Undo
  <1>3. /\ Len(undoStack') + Len(redoStack') = Len(undoStack) + Len(redoStack)
        /\ scene'.parent = scene.parent
        /\ Standing(H, C, scene', undoStack', redoStack', past', future')
        /\ DocumentIn(scene') = Last(past)
    <2> DEFINE sc2 == UndoAll(scene, Last(undoStack))
    <2>1. Cardinality(Objects) \in Nat /\ NoParent \notin Objects
      BY CountObjects
    <2>2. /\ Len(Front(undoStack)) + Len(Append(redoStack, Last(undoStack)))
                = Len(undoStack) + Len(redoStack)
          /\ sc2.parent = scene.parent /\ DocumentIn(sc2) = Last(past)
          /\ Standing(H, C, sc2, Front(undoStack), Append(redoStack, Last(undoStack)),
                      Front(past), Append(future, DocumentIn(scene)))
      BY <1>1, <1>2, <2>1, StepBack
    <2> QED BY <1>2, <2>2
  <1>4. Timeline(H, C, Len(undoStack') + Len(redoStack'), scene'.parent, made')
    BY <1>1, <1>2, <1>3
  <1>5. toCopy' \in Seq(made') /\ commands' \in 0..MaxCommands
    BY <1>2 DEF EditorInv
  <1> QED BY <1>3, <1>4, <1>5 DEF EditorInv

LEMMA SelectionType ==
    ASSUME EditorInv
    PROVE  /\ \E h \in Points : scene = At(h, scene.parent) /\ Sound(h, scene.parent, made)
           /\ scene.selection \in Seq(Objects) /\ Parents(scene.parent, made)
  <1>1. PICK H, C : /\ Timeline(H, C, Len(undoStack) + Len(redoStack), scene.parent, made)
                    /\ Standing(H, C, scene, undoStack, redoStack, past, future)
    BY DEF EditorInv
  <1> DEFINE n == Len(undoStack)
             m == Len(redoStack)
             h == H[n + 1]
  <1>2. n \in Nat /\ m \in Nat
    BY <1>1 DEF Standing
  <1>3. n + 1 \in 1..(n + m + 1)
    BY <1>2
  <1>4. h \in Points /\ scene = At(h, scene.parent) /\ Sound(h, scene.parent, made)
    BY <1>1, <1>3 DEF Timeline, Standing
  <1> HIDE DEF h
  <1>5. At(h, scene.parent).selection = h.chosen /\ h.chosen \in Seq(Objects)
    BY <1>4, DocumentIs DEF Points
  <1> QED BY <1>1, <1>4, <1>5 DEF Timeline

LEMMA EditorRedo ==
    EditorInv /\ Redo => EditorInv' /\ DocumentIn(scene') = Last(future)
  <1> SUFFICES ASSUME EditorInv, Redo
               PROVE  EditorInv' /\ DocumentIn(scene') = Last(future)
    OBVIOUS
  <1>1. PICK H, C : /\ Timeline(H, C, Len(undoStack) + Len(redoStack), scene.parent, made)
                    /\ Standing(H, C, scene, undoStack, redoStack, past, future)
    BY DEF EditorInv
  <1>2. Remember(Last(redoStack)) = Last(redoStack)
    <2> DEFINE n == Len(undoStack)
               m == Len(redoStack)
               P == scene.parent
    <2>1. /\ redoStack \in Seq(Seq(Commands)) /\ redoStack # <<>> /\ n \in Nat
          /\ scene = At(H[n + 1], P)
          /\ \A i \in 1..m : redoStack[i] = C[(n + m + 1) - i]
      BY <1>1 DEF Standing, Redo
    <2>2. /\ H \in [1..(n + m + 1) -> Points]
          /\ \A i \in 1..(n + m) : Leads(P, C[i], H[i], H[i + 1], H[i].chosen)
      BY <1>1 DEF Timeline
    <2>3. Last(redoStack) = redoStack[m] /\ Last(redoStack) \in Seq(Commands) /\ m \in Nat \ {0}
      BY <2>1, FrontIs
    <2> HIDE DEF n, m, P
    <2>4. m \in 1..m /\ (n + m + 1) - m = n + 1 /\ n + 1 \in 1..(n + m) /\ n + 1 \in 1..(n + m + 1)
      BY <2>1, <2>3
    <2>5. Last(redoStack) = C[n + 1]
      BY <2>1, <2>3, <2>4
    <2>6. scene.selection = H[n + 1].chosen
      <3>1. H[n + 1] \in Points
        BY <2>2, <2>4
      <3>2. At(H[n + 1], P).selection = H[n + 1].chosen
        BY <3>1, DocumentIs
      <3> QED BY <2>1, <3>2
    <2>7. Leads(P, Last(redoStack), H[n + 1], H[n + 2], scene.selection)
      <3>1. (n + 1) + 1 = n + 2
        BY <2>1
      <3>2. Leads(P, C[n + 1], H[n + 1], H[(n + 1) + 1], H[n + 1].chosen)
        BY <2>2, <2>4
      <3> QED BY <2>5, <2>6, <3>1, <3>2
    <2> QED BY <2>3, <2>7, SelectionType, RememberAgain
  <1>3. /\ redoStack # <<>>
        /\ scene' = Do(scene, Last(redoStack))
        /\ redoStack' = Front(redoStack)
        /\ undoStack' = Append(undoStack, Last(redoStack))
        /\ future' = Front(future) /\ past' = Append(past, DocumentIn(scene))
        /\ toCopy' = toCopy /\ made' = made /\ commands' = commands
    BY <1>2, DocumentIsIn DEF Redo
  <1>4. /\ Len(undoStack') + Len(redoStack') = Len(undoStack) + Len(redoStack)
        /\ scene'.parent = scene.parent
        /\ Standing(H, C, scene', undoStack', redoStack', past', future')
        /\ DocumentIn(scene') = Last(future)
    <2> DEFINE sc2 == Do(scene, Last(redoStack))
    <2>1. Cardinality(Objects) \in Nat /\ NoParent \notin Objects
      BY CountObjects
    <2>2. /\ Len(Append(undoStack, Last(redoStack))) + Len(Front(redoStack))
                = Len(undoStack) + Len(redoStack)
          /\ sc2.parent = scene.parent /\ DocumentIn(sc2) = Last(future)
          /\ Standing(H, C, sc2, Append(undoStack, Last(redoStack)), Front(redoStack),
                      Append(past, DocumentIn(scene)), Front(future))
      BY <1>1, <1>3, <2>1, StepForward
    <2> QED BY <1>3, <2>2
  <1>5. Timeline(H, C, Len(undoStack') + Len(redoStack'), scene'.parent, made')
    BY <1>1, <1>3, <1>4
  <1>6. toCopy' \in Seq(made') /\ commands' \in 0..MaxCommands
    BY <1>3 DEF EditorInv
  <1> QED BY <1>4, <1>5, <1>6 DEF EditorInv

(* A new command on a scene in which clones K may have got components and  *)
(* parents may have changed: it keeps the invariant if its composite leads *)
(* from there to a sound scene.                                            *)
LEMMA EditorDo ==
    ASSUME EditorInv,
           NEW h \in Points, scene = At(h, scene.parent),
           NEW Q, NEW K, NEW g \in Points, NEW c \in Seq(Commands), NEW md2,
           made \subseteq md2, Parents(Q, md2), K \subseteq md2 \ made,
           Reparents(scene.parent, Q, h.in, made, md2),
           Leads(Q, c, Refit(h, K), g, <<>>),
           Sound(g, Q, md2), g.in \subseteq h.in \cup (md2 \ made),
           DoCommand(At(Refit(h, K), Q), c), made' = md2, toCopy' = toCopy
    PROVE  EditorInv'
  <1>1. PICK H, C : /\ Timeline(H, C, Len(undoStack) + Len(redoStack), scene.parent, made)
                    /\ Standing(H, C, scene, undoStack, redoStack, past, future)
    BY DEF EditorInv
  <1> DEFINE n == Len(undoStack)
             P == scene.parent
             k == H[n + 1]
  <1>2. n \in Nat /\ Len(redoStack) \in Nat
    BY <1>1 DEF Standing
  <1>3. n + 1 \in 1..(n + Len(redoStack) + 1)
    BY <1>2
  <1>4. k \in Points /\ scene = At(k, P)
    BY <1>1, <1>3 DEF Timeline, Standing
  <1>5. k.in = h.in /\ k.has = h.has /\ k.chosen = h.chosen
    <2>1. /\ At(h, P).selection = h.chosen /\ At(h, P).carried = h.has /\ At(h, P).entries = Once(h.in)
          /\ At(k, P).selection = k.chosen /\ At(k, P).carried = k.has /\ At(k, P).entries = Once(k.in)
      BY <1>4, DocumentIs
    <2>2. Once(h.in) = Once(k.in)
      BY <1>4, <2>1
    <2>3. \A o \in Objects : o \in h.in <=> o \in k.in
      <3>1. \A o \in Objects : Once(h.in)[o] = (IF o \in h.in THEN 1 ELSE 0)
                            /\ Once(k.in)[o] = (IF o \in k.in THEN 1 ELSE 0)
        BY DEF Once
      <3>2. \A o \in Objects : (IF o \in h.in THEN 1 ELSE 0) = (IF o \in k.in THEN 1 ELSE 0)
        BY <2>2, <3>1
      <3> QED BY <3>2
    <2>4. h.in \subseteq Objects /\ k.in \subseteq Objects
      BY <1>4 DEF Points
    <2> QED BY <1>4, <2>1, <2>3, <2>4
  <1>6. Refit(k, K) = Refit(h, K)
    BY <1>5 DEF Refit
  <1>7. /\ scene' = Do(At(Refit(h, K), Q), c)
        /\ undoStack' = Append(undoStack, Remember(c))
        /\ redoStack' = <<>>
        /\ past' = Append(past, DocumentIn(scene)) /\ future' = <<>>
        /\ commands < MaxCommands /\ commands' = commands + 1
    BY DocumentIsIn DEF DoCommand
  <1>8. scene' = At(g, Q)
    <2>1. Refit(h, K) \in Points
      <3>1. Sound(k, P, made)
        BY <1>1, <1>3 DEF Timeline
      <3>2. K \subseteq Objects /\ K \cap h.in = {}
        BY <1>5, <3>1 DEF Parents, Sound
      <3> QED BY <3>2, RefitIs
    <2> QED BY <1>7, <2>1, CountObjects, LeadsDo
  <1>9. scene.selection = k.chosen /\ scene.selection \in Seq(Objects)
    <2>1. At(k, P).selection = k.chosen
      BY <1>4, DocumentIs
    <2>2. scene = At(k, P)
      BY <1>4
    <2> HIDE DEF k, P
    <2> QED BY <2>1, <2>2, SelectionType
  <1>10. Remember(c) \in Seq(Commands) /\ Leads(Q, Remember(c), Refit(k, K), g, k.chosen)
    BY <1>6, <1>9, RememberIs, RememberLeads
  <1>11. /\ Reparents(P, Q, k.in, made, md2)
         /\ g.in \subseteq k.in \cup (md2 \ made)
    BY <1>5
  <1>12. \E H2, C2 : /\ Timeline(H2, C2, Len(undoStack') + Len(<<>>), scene'.parent, md2)
                     /\ Standing(H2, C2, scene', undoStack', <<>>, past', <<>>)
    <2> DEFINE r == Remember(c)
    <2>1. Cardinality(Objects) \in Nat /\ NoParent \notin Objects
      BY CountObjects
    <2>2. r \in Seq(Commands) /\ Leads(Q, r, Refit(k, K), g, k.chosen)
      BY <1>10
    <2> HIDE DEF r
    <2>3. \E H2, C2 :
              /\ Timeline(H2, C2, Len(Append(undoStack, r)) + Len(<<>>), At(g, Q).parent, md2)
              /\ Standing(H2, C2, At(g, Q), Append(undoStack, r), <<>>,
                          Append(past, DocumentIn(scene)), <<>>)
      BY <1>1, <1>11, <2>1, <2>2, NewScene
    <2> QED BY <1>7, <1>8, <2>3 DEF r
  <1>13. toCopy' \in Seq(made') /\ commands' \in 0..MaxCommands
    <2>1. toCopy \in Seq(made) /\ commands \in 0..MaxCommands /\ MaxCommands \in Nat
      BY SceneFileAssumption DEF EditorInv
    <2>2. toCopy \in Seq(md2)
      BY <2>1
    <2> QED BY <1>7, <2>1, <2>2
  <1> QED BY <1>7, <1>12, <1>13 DEF EditorInv

-----------------------------------------------------------------------------
(* The inputs of the user one by one.                                      *)
LEMMA SceneFacts ==
    ASSUME NEW h \in Points, scene = At(h, scene.parent)
    PROVE  /\ scene.selection = h.chosen /\ scene.carried = h.has
           /\ ObjectsInScene = h.in /\ Refit(h, {}) = h
           /\ h.in \subseteq Objects /\ h.has \subseteq Objects /\ h.chosen \in Seq(Objects)
  <1>1. /\ At(h, scene.parent).selection = h.chosen /\ At(h, scene.parent).carried = h.has
        /\ At(h, scene.parent).entries = Once(h.in)
    BY DocumentIs
  <1>2. scene.selection = h.chosen /\ scene.carried = h.has /\ scene.entries = Once(h.in)
    BY <1>1
  <1>3. h.in \subseteq Objects /\ h.has \subseteq Objects /\ h.chosen \in Seq(Objects)
    BY DEF Points
  <1>4. ObjectsInScene = h.in
    BY <1>2, <1>3 DEF ObjectsInScene, Once
  <1>5. Refit(h, {}) = h
    BY DEF Refit, Points
  <1> QED BY <1>2, <1>3, <1>4, <1>5

LEMMA SelectIs ==
    ASSUME NEW s \in Seq(Objects)
    PROVE  SelectGameObjects(s) \in Commands /\ Selects(SelectGameObjects(s), s, <<>>)
  <1>1. <<>> \in Seq(Objects)
    OBVIOUS
  <1> QED BY <1>1 DEF SelectGameObjects, Commands, Selects

(* The commands of Adds and Removes from their parts                       *)
LEMMA AddsFrom ==
    ASSUME NEW c, NEW h, NEW g, NEW previous, NEW n \in Nat, NEW S \in [1..n -> SUBSET Objects],
           Len(c) = n + 1,
           \A i \in 1..n : c[i] = AddGameObject(S[i]),
           Selects(c[n + 1], g.chosen, previous),
           \A i \in 1..n : S[i] \cap h.in = {},
           \A i, j \in 1..n : i # j => S[i] \cap S[j] = {},
           g.in = h.in \cup UNION {S[i] : i \in 1..n}, g.has = h.has
    PROVE  Adds(c, h, g, previous)
  BY DEF Adds

LEMMA RemovesFrom ==
    ASSUME NEW P, NEW c, NEW h, NEW g, NEW previous, NEW n \in Nat, NEW r \in [1..n -> Objects],
           Len(c) = n + 1,
           \A i \in 1..n : c[i] = RemoveGameObject(r[i]),
           Selects(c[n + 1], g.chosen, previous),
           \A i \in 1..n : P[r[i]] = NoParent /\ Under(P, r[i]) \subseteq h.in,
           \A i, j \in 1..n : r[i] = r[j] => i = j,
           g.in = h.in \ UNION {Under(P, r[i]) : i \in 1..n}, g.has = h.has
    PROVE  Removes(P, c, h, g, previous)
  BY DEF Removes

LEMMA EditorSelect ==
    ASSUME EditorInv, NEW s \in Seq(Objects), IsInjective(s),
           ToSet(s) \subseteq ObjectsInScene, Select(s)
    PROVE  EditorInv'
  <1> DEFINE P == scene.parent
             c == <<SelectGameObjects(s)>>
  <1>1. PICK h \in Points : scene = At(h, P) /\ Sound(h, P, made)
    BY SelectionType
  <1>2. ObjectsInScene = h.in /\ Refit(h, {}) = h
    BY <1>1, SceneFacts
  <1> DEFINE g == [in |-> h.in, has |-> h.has, chosen |-> s]
  <1>3. g \in Points /\ g.in = h.in /\ g.has = h.has /\ g.chosen = s
    BY <1>1 DEF Points
  <1>4. SelectGameObjects(s) \in Commands /\ Selects(SelectGameObjects(s), s, <<>>)
    BY SelectIs
  <1>5. c \in Seq(Commands) /\ Len(c) = 0 + 1 /\ c[0 + 1] = SelectGameObjects(s)
    BY <1>4
  <1> HIDE DEF g, c
  <1>6. Adds(c, h, g, <<>>)
    <2> DEFINE S == [i \in 1..0 |-> Objects]
    <2>1. S \in [1..0 -> SUBSET Objects] /\ 0 \in Nat /\ 1..0 = {} /\ UNION {S[i] : i \in 1..0} = {}
      OBVIOUS
    <2> HIDE DEF S
    <2>2. Selects(c[0 + 1], g.chosen, <<>>)
      BY <1>3, <1>4, <1>5
    <2>3. /\ \A i \in 1..0 : c[i] = AddGameObject(S[i])
          /\ \A i \in 1..0 : S[i] \cap h.in = {}
          /\ \A i, j \in 1..0 : i # j => S[i] \cap S[j] = {}
      BY <2>1
    <2>4. g.in = h.in \cup UNION {S[i] : i \in 1..0} /\ g.has = h.has /\ Len(c) = 0 + 1
      BY <1>3, <1>5, <2>1
    <2> QED BY <2>1, <2>2, <2>3, <2>4, AddsFrom
  <1>7. Leads(P, c, Refit(h, {}), g, <<>>)
    BY <1>2, <1>6 DEF Leads
  <1>8. Sound(g, P, made)
    BY <1>1, <1>2, <1>3 DEF Sound
  <1>9. DoCommand(At(Refit(h, {}), P), c) /\ made' = made /\ toCopy' = toCopy
    <2>1. DoCommand(scene, c) /\ made' = made /\ toCopy' = toCopy
      BY DEF Select, c
    <2> QED BY <1>1, <1>2, <2>1
  <1>10. Reparents(P, P, h.in, made, made) /\ Parents(P, made)
    BY SelectionType DEF Reparents
  <1> DEFINE K == {}
  <1>11. K \subseteq made \ made /\ made \subseteq made /\ g.in \subseteq h.in \cup (made \ made)
    BY <1>3
  <1> QED BY <1>1, <1>3, <1>5, <1>7, <1>8, <1>9, <1>10, <1>11, EditorDo

LEMMA EditorSelectClicked ==
    ASSUME EditorInv, SelectClicked
    PROVE  EditorInv'
  <1>1. CASE Select(<<>>)
    <2>1. <<>> \in Seq(Objects) /\ IsInjective(<<>>) /\ ToSet(<<>>) \subseteq ObjectsInScene
      BY EmptyIs
    <2> QED BY <1>1, <2>1, EditorSelect
  <1>2. ASSUME NEW o \in ObjectsInScene, Select(<<o>>) PROVE EditorInv'
    <2>1. o \in Objects /\ <<o>> \in Seq(Objects)
      BY DEF ObjectsInScene
    <2>2. IsInjective(<<o>>) /\ ToSet(<<o>>) \subseteq ObjectsInScene
      BY DEF IsInjective, ToSet
    <2> QED BY <1>2, <2>1, <2>2, EditorSelect
  <1> QED BY <1>1, <1>2 DEF SelectClicked

LEMMA EditorSelectAppend ==
    ASSUME EditorInv, ~MayReselect, SelectAppend
    PROVE  EditorInv'
  <1>1. PICK o \in ObjectsInScene : o \notin ToSet(scene.selection)
                                    /\ Select(Append(scene.selection, o))
    BY DEF SelectAppend
  <1>2. PICK h \in Points : scene = At(h, scene.parent) /\ Sound(h, scene.parent, made)
    BY SelectionType
  <1>3. /\ scene.selection \in Seq(Objects) /\ IsInjective(scene.selection)
        /\ ToSet(scene.selection) \subseteq ObjectsInScene
    BY <1>2, SceneFacts DEF Sound
  <1> DEFINE s == Append(scene.selection, o)
  <1>4. o \in Objects
    BY DEF ObjectsInScene
  <1>5. s \in Seq(Objects)
    BY <1>3, <1>4
  <1>6. IsInjective(s)
    BY <1>1, <1>3, <1>4, InjectiveAppend
  <1>7. ToSet(s) \subseteq ObjectsInScene
    BY <1>1, <1>3, <1>4, ToSetAppend
  <1> HIDE DEF s
  <1>8. Select(s)
    BY <1>1 DEF s
  <1> QED BY <1>5, <1>6, <1>7, <1>8, EditorSelect

LEMMA EditorCreateNew ==
    ASSUME EditorInv, CreateNew
    PROVE  EditorInv'
  <1> DEFINE P == scene.parent
             o == CHOOSE x \in Objects : x \notin made
             md2 == made \cup {o}
             c == <<AddGameObject({o}), SelectGameObjects(<<o>>)>>
  <1>1. PICK h \in Points : scene = At(h, P) /\ Sound(h, P, made)
    BY SelectionType
  <1>2. ObjectsInScene = h.in /\ Refit(h, {}) = h
    BY <1>1, SceneFacts
  <1>3. Parents(P, made)
    BY SelectionType
  <1>4. o \in Objects /\ o \notin made
    <2>1. \E x \in Objects : x \notin made
      BY <1>3 DEF CreateNew, Parents
    <2> QED BY <2>1
  <1>5. DoCommand(scene, c) /\ made' = md2 /\ toCopy' = toCopy
    BY DEF CreateNew
  <1> HIDE DEF o
  <1> DEFINE g == [in |-> h.in \cup {o}, has |-> h.has, chosen |-> <<o>>]
  <1>6. /\ g.in = h.in \cup {o} /\ g.has = h.has /\ g.chosen = <<o>>
        /\ <<o>> \in Seq(Objects) /\ IsInjective(<<o>>) /\ ToSet(<<o>>) = {o}
    BY <1>4 DEF IsInjective, ToSet
  <1>7. g \in Points
    BY <1>1, <1>4, <1>6 DEF Points
  <1>8. SelectGameObjects(<<o>>) \in Commands /\ Selects(SelectGameObjects(<<o>>), <<o>>, <<>>)
    BY <1>6, SelectIs
  <1>9. AddGameObject({o}) \in Commands
    BY <1>4 DEF AddGameObject, Commands
  <1>10. /\ c \in Seq(Commands) /\ Len(c) = 1 + 1 /\ c[1] = AddGameObject({o})
         /\ c[1 + 1] = SelectGameObjects(<<o>>)
    BY <1>8, <1>9
  <1> HIDE DEF g, c
  <1>11. Adds(c, h, g, <<>>)
    <2> DEFINE S == [i \in 1..1 |-> {o}]
    <2>1. S \in [1..1 -> SUBSET Objects] /\ S[1] = {o} /\ UNION {S[i] : i \in 1..1} = {o}
      BY <1>4
    <2>2. \A i \in 1..1 : i = 1
      OBVIOUS
    <2>3. o \notin h.in
      BY <1>1, <1>4 DEF Sound
    <2> HIDE DEF S
    <2>4. Selects(c[1 + 1], g.chosen, <<>>)
      BY <1>6, <1>8, <1>10
    <2>5. /\ \A i \in 1..1 : c[i] = AddGameObject(S[i])
          /\ \A i \in 1..1 : S[i] \cap h.in = {}
          /\ \A i, j \in 1..1 : i # j => S[i] \cap S[j] = {}
      <3>1. c[1] = AddGameObject(S[1]) /\ S[1] \cap h.in = {}
        BY <1>10, <2>1, <2>3
      <3> QED BY <2>2, <3>1
    <2>6. /\ g.in = h.in \cup UNION {S[i] : i \in 1..1} /\ g.has = h.has
          /\ Len(c) = 1 + 1 /\ 1 \in Nat
      BY <1>6, <1>10, <2>1
    <2> QED BY <2>1, <2>4, <2>5, <2>6, AddsFrom
  <1>12. Leads(P, c, Refit(h, {}), g, <<>>)
    BY <1>2, <1>11 DEF Leads
  <1>13. Parents(P, md2)
    BY <1>3, <1>4 DEF Parents
  <1>14. Sound(g, P, md2)
    <2>1. \A x \in Objects : P[x] \in h.in \cup {o} => x \in h.in \cup {o}
      <3>1. \A x \in Objects : P[x] # o
        BY <1>3, <1>4, CountObjects DEF Parents
      <3> QED BY <1>1, <3>1 DEF Sound
    <2>2. h.in \cup {o} \subseteq md2 /\ h.has \subseteq md2
      BY <1>1 DEF Sound
    <2> QED BY <1>6, <2>1, <2>2 DEF Sound
  <1>15. DoCommand(At(Refit(h, {}), P), c)
    BY <1>1, <1>2, <1>5
  <1>16. Reparents(P, P, h.in, made, md2)
    BY DEF Reparents
  <1> DEFINE K == {}
  <1>17. K \subseteq md2 \ made /\ made \subseteq md2 /\ g.in \subseteq h.in \cup (md2 \ made)
    BY <1>4, <1>6
  <1> HIDE DEF md2
  <1> QED BY <1>1, <1>5, <1>7, <1>10, <1>12, <1>13, <1>14, <1>15, <1>16, <1>17, EditorDo

LEMMA EditorEditComponent ==
    ASSUME EditorInv, EditComponent
    PROVE  EditorInv'
  <1> DEFINE P == scene.parent
             o == Head(scene.selection)
             kind == IF o \in scene.carried THEN "removeComponent" ELSE "addComponent"
             c == <<[kind |-> kind, object |-> o]>>
  <1>1. PICK h \in Points : scene = At(h, P) /\ Sound(h, P, made)
    BY SelectionType
  <1>2. /\ scene.selection = h.chosen /\ scene.carried = h.has /\ Refit(h, {}) = h
        /\ h.in \subseteq Objects /\ h.has \subseteq Objects /\ h.chosen \in Seq(Objects)
    BY <1>1, SceneFacts
  <1>3. DoCommand(scene, c) /\ made' = made /\ toCopy' = toCopy /\ Len(scene.selection) = 1
    BY DEF EditComponent
  <1>4. o \in h.in
    <2>1. o = h.chosen[1] /\ 1 \in 1..Len(h.chosen)
      BY <1>2, <1>3
    <2>2. o \in ToSet(h.chosen)
      BY <1>2, <2>1, ToSetIs
    <2> QED BY <1>1, <2>2 DEF Sound
  <1> HIDE DEF o
  <1> DEFINE g == [in |-> h.in, has |-> IF o \in h.has THEN h.has \ {o} ELSE h.has \cup {o},
                   chosen |-> h.chosen]
  <1>5. /\ g.in = h.in /\ g.chosen = h.chosen
        /\ o \in h.has => g.has = h.has \ {o}
        /\ o \notin h.has => g.has = h.has \cup {o}
    OBVIOUS
  <1>6. g \in Points
    BY <1>2, <1>4 DEF Points
  <1>7. [kind |-> kind, object |-> o] \in Commands
    BY <1>2, <1>4 DEF Commands
  <1>8. c \in Seq(Commands) /\ Len(c) = 1 /\ c[1] = [kind |-> kind, object |-> o]
    BY <1>7
  <1> HIDE DEF g, c
  <1>9. Equips(c, h, g)
    BY <1>2, <1>4, <1>5, <1>8 DEF Equips
  <1>10. Leads(P, c, Refit(h, {}), g, <<>>)
    BY <1>2, <1>9 DEF Leads
  <1>11. Sound(g, P, made)
    <2>1. g.has \subseteq made
      BY <1>1, <1>4, <1>5 DEF Sound
    <2> QED BY <1>1, <1>5, <2>1 DEF Sound
  <1>12. DoCommand(At(Refit(h, {}), P), c)
    BY <1>1, <1>2, <1>3
  <1>13. Reparents(P, P, h.in, made, made) /\ Parents(P, made)
    BY SelectionType DEF Reparents
  <1> DEFINE K == {}
  <1>14. K \subseteq made \ made /\ made \subseteq made /\ g.in \subseteq h.in \cup (made \ made)
    BY <1>5
  <1> QED BY <1>1, <1>3, <1>6, <1>8, <1>10, <1>11, <1>12, <1>13, <1>14, EditorDo

LEMMA EditorCopySelection ==
    ASSUME EditorInv, CopySelection
    PROVE  EditorInv'
  <1>1. PICK h \in Points : scene = At(h, scene.parent) /\ Sound(h, scene.parent, made)
    BY SelectionType
  <1>2. scene.selection \in Seq(Objects) /\ ToSet(scene.selection) \subseteq made
    BY <1>1, SceneFacts DEF Sound
  <1>3. scene.selection \in Seq(made)
    <2>1. \A i \in 1..Len(scene.selection) : scene.selection[i] \in made
      BY <1>2, ToSetIs
    <2> QED BY <1>2, <2>1
  <1>4. /\ toCopy' = scene.selection /\ scene' = scene /\ undoStack' = undoStack
        /\ redoStack' = redoStack /\ made' = made /\ commands' = commands
        /\ past' = past /\ future' = future
    BY DEF CopySelection
  <1> QED BY <1>3, <1>4 DEF EditorInv

LEMMA EditorDeleteSelection ==
    ASSUME EditorInv, DeleteSelection
    PROVE  EditorInv'
  <1> DEFINE P == scene.parent
             gone == scene.selection
             n == Len(gone)
             Q == [o \in Objects |-> IF o \in ToSet(gone) THEN NoParent ELSE P[o]]
             removals == [i \in DOMAIN gone |-> RemoveGameObject(gone[i])]
             c == Append(removals, SelectGameObjects(<<>>))
  <1>1. PICK h \in Points : scene = At(h, P) /\ Sound(h, P, made)
    BY SelectionType
  <1>2. /\ gone = h.chosen /\ Refit(h, {}) = h
        /\ h.in \subseteq Objects /\ h.has \subseteq Objects /\ gone \in Seq(Objects)
    BY <1>1, SceneFacts
  <1>3. /\ Cardinality(Objects) \in Nat /\ NoParent \notin Objects
        /\ Parents(P, made)
    BY CountObjects, SelectionType
  <1>4. /\ n \in Nat /\ DOMAIN gone = 1..n /\ \A i \in 1..n : gone[i] \in Objects
        /\ \A i \in 1..n : gone[i] \in ToSet(gone)
        /\ \A i, j \in 1..n : gone[i] = gone[j] => i = j
        /\ ToSet(gone) \subseteq h.in
    <2>1. IsInjective(gone) /\ ToSet(gone) \subseteq h.in
      BY <1>1, <1>2 DEF Sound
    <2> QED BY <1>2, <2>1, ToSetIs, InjectiveIs
  <1>5. DoCommand(At(Refit(h, {}), Q), c) /\ made' = made /\ toCopy' = toCopy
    <2>1. Deselected(gone, gone) = <<>>
      <3> DEFINE S == Objects \ ToSet(gone)
      <3>1. ToSet(gone) \cap S = {}
        OBVIOUS
      <3>2. Only(gone, S) \in Seq(Objects) /\ ToSet(Only(gone, S)) = {}
        <4> HIDE DEF S, gone
        <4> QED BY <1>2, <3>1, OnlyIs
      <3> DEFINE left == Only(gone, S)
      <3> HIDE DEF left
      <3>3. left \in Seq(Objects) /\ ToSet(left) = {}
        BY <3>2 DEF left
      <3>4. left = <<>>
        BY <3>3, ToSetIs
      <3> QED BY <3>4 DEF Deselected, left
    <2>2. At(h, Q) = [scene EXCEPT !.parent = Q]
      <3>1. scene = SceneOf(h.in, h.has, h.chosen, P)
        BY <1>1 DEF At
      <3> HIDE DEF P, Q, gone
      <3>2. [SceneOf(h.in, h.has, h.chosen, P) EXCEPT !.parent = Q]
              = SceneOf(h.in, h.has, h.chosen, Q)
        BY DEF SceneOf
      <3> QED BY <3>1, <3>2 DEF At
    <2>3. /\ DoCommand([scene EXCEPT !.parent = Q],
                       Append(removals, SelectGameObjects(Deselected(gone, gone))))
          /\ made' = made /\ toCopy' = toCopy
      BY DEF DeleteSelection
    <2> HIDE DEF gone, Q, removals
    <2> QED BY <1>2, <2>1, <2>2, <2>3
  <1> HIDE DEF P
  <1>6. /\ Q \in [Objects -> Objects \cup {NoParent}]
        /\ \A x \in Objects : x \in ToSet(gone) => Q[x] = NoParent
        /\ \A x \in Objects : x \notin ToSet(gone) => Q[x] = P[x]
    BY <1>3 DEF Parents
  <1>7. /\ c \in Seq(Commands) /\ Len(c) = n + 1
        /\ c[n + 1] = SelectGameObjects(<<>>)
        /\ \A i \in 1..n : c[i] = RemoveGameObject(gone[i])
        /\ Selects(c[n + 1], <<>>, <<>>)
    <2>1. \A i \in 1..n : RemoveGameObject(gone[i]) \in Commands
      BY <1>4 DEF RemoveGameObject, Commands
    <2>2. /\ removals \in Seq(Commands) /\ Len(removals) = n
          /\ \A i \in 1..n : removals[i] = RemoveGameObject(gone[i])
      <3>1. removals = [i \in 1..n |-> RemoveGameObject(gone[i])]
        BY <1>4
      <3> DEFINE r == [i \in 1..n |-> RemoveGameObject(gone[i])]
      <3>2. r \in [1..n -> Commands] /\ DOMAIN r = 1..n
        BY <2>1
      <3>3. \A i \in 1..n : r[i] = RemoveGameObject(gone[i])
        OBVIOUS
      <3> HIDE DEF r, removals, n
      <3>4. r \in Seq(Commands) /\ Len(r) = n
        BY <1>4, <3>2
      <3> QED BY <3>1, <3>3, <3>4 DEF r
    <2>3. /\ SelectGameObjects(<<>>) \in Commands
          /\ Selects(SelectGameObjects(<<>>), <<>>, <<>>)
      BY EmptyIs, SelectIs
    <2> HIDE DEF removals, gone
    <2>4. /\ c \in Seq(Commands) /\ Len(c) = n + 1 /\ c[n + 1] = SelectGameObjects(<<>>)
          /\ \A i \in 1..n : c[i] = removals[i]
      BY <2>2, <2>3, AppendIs
    <2> QED BY <2>2, <2>3, <2>4
  <1> HIDE DEF Q, c, gone, n
  <1> DEFINE removed == UNION {Under(Q, gone[i]) : i \in 1..n}
             g == [in |-> h.in \ removed, has |-> h.has, chosen |-> <<>>]
  <1>8. /\ g.in = h.in \ removed /\ g.has = h.has /\ g.chosen = <<>>
        /\ g \in Points
    BY <1>2, EmptyIs DEF Points
  <1>9. \A x \in Objects : Q[x] \in h.in => x \in h.in
    BY <1>1, <1>2, <1>3, <1>6 DEF Sound
  <1>10. ASSUME NEW i \in 1..n
         PROVE  /\ Q[gone[i]] = NoParent /\ Under(Q, gone[i]) \subseteq h.in
                /\ \A x \in Under(Q, gone[i]) : x # gone[i] => Q[x] \in Under(Q, gone[i])
    <2>1. gone[i] \in Objects /\ gone[i] \in h.in /\ Q[gone[i]] = NoParent
      BY <1>4, <1>6
    <2> DEFINE T == h.in
    <2>2. gone[i] \in T /\ \A x \in Objects : Q[x] \in T => x \in T
      BY <1>9, <2>1
    <2> QED BY <1>3, <2>1, <2>2, UnderIs
  <1>11. Removes(Q, c, h, g, <<>>)
    <2>1. gone \in [1..n -> Objects]
      BY <1>2, <1>4
    <2>2. Selects(c[n + 1], g.chosen, <<>>)
      BY <1>7, <1>8
    <2>3. \A i \in 1..n : Q[gone[i]] = NoParent /\ Under(Q, gone[i]) \subseteq h.in
      BY <1>10
    <2>4. g.in = h.in \ UNION {Under(Q, gone[i]) : i \in 1..n} /\ g.has = h.has
      BY <1>8
    <2> HIDE DEF g
    <2> QED BY <1>4, <1>7, <2>1, <2>2, <2>3, <2>4, RemovesFrom
  <1>12. Leads(Q, c, Refit(h, {}), g, <<>>)
    BY <1>2, <1>11 DEF Leads
  <1>13. Sound(g, Q, made)
    <2>1. ASSUME NEW x \in Objects, Q[x] \in h.in \ removed PROVE x \in h.in \ removed
      <3>1. x \in h.in
        BY <1>9, <2>1
      <3>2. ASSUME NEW i \in 1..n, x \in Under(Q, gone[i]) PROVE FALSE
        <4>1. x # gone[i]
          BY <1>2, <1>3, <1>10, <2>1
        <4>2. Q[x] \in Under(Q, gone[i])
          BY <1>10, <3>2, <4>1
        <4> QED BY <2>1, <4>2
      <3> QED BY <3>1, <3>2
    <2>2. h.in \ removed \subseteq made /\ h.has \subseteq made
      BY <1>1 DEF Sound
    <2>3. IsInjective(<<>>) /\ ToSet(<<>>) = {}
      BY EmptyIs
    <2> HIDE DEF removed
    <2> QED BY <1>8, <2>1, <2>2, <2>3 DEF Sound
  <1> HIDE DEF g
  <1>14. Parents(Q, made)
    BY <1>3, <1>6 DEF Parents
  <1>15. Reparents(P, Q, h.in, made, made)
    BY <1>4, <1>6 DEF Reparents
  <1> DEFINE K == {}
  <1>16. K \subseteq made \ made /\ made \subseteq made /\ g.in \subseteq h.in \cup (made \ made)
    BY <1>8
  <1>17. scene = At(h, scene.parent) /\ Reparents(scene.parent, Q, h.in, made, made)
    BY <1>1, <1>15 DEF P
  <1> HIDE DEF removed
  <1> QED BY <1>5, <1>7, <1>8, <1>12, <1>13, <1>14, <1>16, <1>17, EditorDo

-----------------------------------------------------------------------------
(* Pasting: the objects that are cloned are named by the index of the      *)
(* copied object and the descendant of it; a clone of anything but the     *)
(* copied object itself gets the clone of the parent as its parent.        *)
Originals(P, r, n) == UNION {{i} \X Under(P, r[i]) : i \in 1..n}

OriginalOf(f, E, o) == CHOOSE x \in E : f[x] = o

ClonesOf(f, E, i) == {f[x] : x \in {y \in E : y[1] = i}}

CloneParents(P, r, f, E) ==
    [o \in Objects |->
        IF o \in Range(f) /\ OriginalOf(f, E, o)[2] # r[OriginalOf(f, E, o)[1]]
        THEN f[<<OriginalOf(f, E, o)[1], P[OriginalOf(f, E, o)[2]]>>] ELSE P[o]]

LEMMA OriginalsAre ==
    ASSUME NEW P, NEW n \in Nat, NEW r \in [1..n -> Objects], Cardinality(Objects) \in Nat
    PROVE  /\ \A x \in Originals(P, r, n) :
                /\ x = <<x[1], x[2]>> /\ x[1] \in 1..n
                /\ x[2] \in Under(P, r[x[1]]) /\ x[2] \in Objects
           /\ \A i \in 1..n : \A y \in Under(P, r[i]) : <<i, y>> \in Originals(P, r, n)
           /\ \A i \in 1..n : <<i, r[i]>> \in Originals(P, r, n)
  <1>1. \A i \in 1..n : Under(P, r[i]) \subseteq Objects /\ r[i] \in Under(P, r[i])
    BY UnderIs
  <1>2. \A x : x \in Originals(P, r, n) <=> \E i \in 1..n : x \in {i} \X Under(P, r[i])
    BY DEF Originals
  <1>3. ASSUME NEW x \in Originals(P, r, n)
        PROVE  /\ x = <<x[1], x[2]>> /\ x[1] \in 1..n
               /\ x[2] \in Under(P, r[x[1]]) /\ x[2] \in Objects
    <2>1. PICK i \in 1..n : x \in {i} \X Under(P, r[i])
      BY <1>2
    <2>2. x = <<x[1], x[2]>> /\ x[1] = i /\ x[2] \in Under(P, r[i])
      BY <2>1
    <2> QED BY <1>1, <2>2
  <1>4. ASSUME NEW i \in 1..n, NEW y \in Under(P, r[i]) PROVE <<i, y>> \in Originals(P, r, n)
    <2>1. <<i, y>> \in {i} \X Under(P, r[i])
      OBVIOUS
    <2> QED BY <1>2, <2>1
  <1> QED BY <1>1, <1>3, <1>4

(* Where there is room for a finite set, there is an injection.            *)
LEMMA RoomForAll ==
    ASSUME NEW S, NEW T, IsFiniteSet(S), IsFiniteSet(T), Cardinality(S) <= Cardinality(T)
    PROVE  \E f \in [S -> T] : IsInjective(f)
  <1> DEFINE k == Cardinality(S)
             l == Cardinality(T)
  <1>1. k \in Nat /\ l \in Nat /\ ExistsBijection(1..k, S) /\ ExistsBijection(1..l, T)
    BY FS_CardinalityType
  <1> HIDE DEF k, l
  <1>2. ExistsBijection(S, 1..k)
    BY <1>1, Fun_ExistsBijSymmetric
  <1>3. ExistsInjection(S, 1..k) /\ ExistsInjection(1..l, T)
    <2>1. ExistsBijection(S, 1..k) <=> ExistsInjection(S, 1..k) /\ ExistsInjection(1..k, S)
      BY Fun_ExistsBijEquiv
    <2>2. ExistsBijection(1..l, T) <=> ExistsInjection(1..l, T) /\ ExistsInjection(T, 1..l)
      BY Fun_ExistsBijEquiv
    <2> QED BY <1>1, <1>2, <2>1, <2>2
  <1>4. ExistsInjection(1..k, 1..l)
    <2>1. k <= l
      BY DEF k, l
    <2> QED BY <1>1, <2>1, Fun_NatInjLeq
  <1>5. ExistsInjection(S, 1..l)
    BY <1>3, <1>4, Fun_ExistsInjTransitive
  <1>6. ExistsInjection(S, T)
    BY <1>3, <1>5, Fun_ExistsInjTransitive
  <1> QED BY <1>6 DEF ExistsInjection, Injection, IsInjective

LEMMA OriginalsFinite ==
    ASSUME NEW P, NEW n \in Nat, NEW r \in [1..n -> Objects], IsFiniteSet(Objects)
    PROVE  IsFiniteSet(Originals(P, r, n))
  <1>1. Cardinality(Objects) \in Nat
    BY FS_CardinalityType
  <1>2. IsFiniteSet(1..n)
    <2>1. 1 \in Int /\ n \in Int
      OBVIOUS
    <2> QED BY <2>1, FS_Interval
  <1>3. IsFiniteSet((1..n) \X Objects)
    BY <1>2, FS_Product
  <1>4. Originals(P, r, n) \in SUBSET ((1..n) \X Objects)
    <2> DEFINE E == Originals(P, r, n)
    <2>1. \A x \in E : x = <<x[1], x[2]>> /\ x[1] \in 1..n /\ x[2] \in Objects
      BY <1>1, OriginalsAre
    <2> HIDE DEF E
    <2>2. \A x \in E : x \in (1..n) \X Objects
      BY <2>1
    <2> QED BY <2>2 DEF E
  <1> QED BY <1>3, <1>4, FS_Subset

LEMMA ClonesAre ==
    ASSUME NEW P, NEW n \in Nat, NEW r \in [1..n -> Objects], Cardinality(Objects) \in Nat,
           NEW md, Parents(P, md),
           NEW f \in [Originals(P, r, n) -> Objects \ md], IsInjective(f)
    PROVE  LET E == Originals(P, r, n)
               Q == CloneParents(P, r, f, E)
           IN  /\ Range(f) \subseteq Objects \ md
               /\ \A i \in 1..n : ClonesOf(f, E, i) \subseteq Range(f)
               /\ \A i \in 1..n : f[<<i, r[i]>>] \in ClonesOf(f, E, i)
               /\ \A i, j \in 1..n : i # j => ClonesOf(f, E, i) \cap ClonesOf(f, E, j) = {}
               /\ \A o \in Range(f) : \E i \in 1..n : o \in ClonesOf(f, E, i)
               /\ Q \in [Objects -> Objects \cup {NoParent}]
               /\ \A x \in Objects : Q[x] = P[x] \/ (x \in Range(f) /\ Q[x] \in Range(f))
  <1> DEFINE E == Originals(P, r, n)
  <1>0. f \in [E -> Objects \ md]
    OBVIOUS
  <1>1. /\ \A x \in E : /\ x = <<x[1], x[2]>> /\ x[1] \in 1..n
                        /\ x[2] \in Under(P, r[x[1]]) /\ x[2] \in Objects
        /\ \A i \in 1..n : \A y \in Under(P, r[i]) : <<i, y>> \in E
        /\ \A i \in 1..n : <<i, r[i]>> \in E
    BY OriginalsAre
  <1> HIDE DEF E
  <1>2. /\ \A x \in E : f[x] \in Range(f) /\ f[x] \in Objects \ md
        /\ \A o \in Range(f) : \E x \in E : f[x] = o
        /\ \A x, y \in E : f[x] = f[y] => x = y
    BY <1>0 DEF Range, IsInjective
  <1>3. Range(f) \subseteq Objects \ md
    BY <1>2
  <1>4. \A i : \A o : o \in ClonesOf(f, E, i) <=> \E x \in E : x[1] = i /\ f[x] = o
    BY DEF ClonesOf
  <1>5. ASSUME NEW i \in 1..n
        PROVE  /\ ClonesOf(f, E, i) \subseteq Range(f)
               /\ f[<<i, r[i]>>] \in ClonesOf(f, E, i)
    <2>1. <<i, r[i]>> \in E /\ <<i, r[i]>>[1] = i
      BY <1>1
    <2> QED BY <1>2, <1>4, <2>1
  <1>6. \A i, j \in 1..n : i # j => ClonesOf(f, E, i) \cap ClonesOf(f, E, j) = {}
    <2> SUFFICES ASSUME NEW i \in 1..n, NEW j \in 1..n, i # j,
                        NEW o, o \in ClonesOf(f, E, i), o \in ClonesOf(f, E, j)
                 PROVE  FALSE
      OBVIOUS
    <2>1. PICK x \in E : x[1] = i /\ f[x] = o
      BY <1>4
    <2>2. PICK y \in E : y[1] = j /\ f[y] = o
      BY <1>4
    <2> QED BY <1>2, <2>1, <2>2
  <1>7. ASSUME NEW o \in Range(f) PROVE \E i \in 1..n : o \in ClonesOf(f, E, i)
    <2>1. PICK x \in E : f[x] = o
      BY <1>2
    <2> QED BY <1>1, <1>4, <2>1
  <1>8. ASSUME NEW o \in Range(f)
        PROVE  OriginalOf(f, E, o) \in E /\ f[OriginalOf(f, E, o)] = o
    <2>1. \E x \in E : f[x] = o
      BY <1>2
    <2> QED BY <2>1 DEF OriginalOf
  <1>9. ASSUME NEW o \in Objects
        PROVE  /\ CloneParents(P, r, f, E)[o] \in Objects \cup {NoParent}
               /\ \/ CloneParents(P, r, f, E)[o] = P[o]
                  \/ o \in Range(f) /\ CloneParents(P, r, f, E)[o] \in Range(f)
    <2> DEFINE x == OriginalOf(f, E, o)
               moved == o \in Range(f) /\ x[2] # r[x[1]]
    <2>1. CloneParents(P, r, f, E)[o] = IF moved THEN f[<<x[1], P[x[2]]>>] ELSE P[o]
      BY DEF CloneParents
    <2>2. P[o] \in Objects \cup {NoParent}
      BY DEF Parents
    <2>3. CASE moved
      <3>1. x \in E
        BY <1>8, <2>3
      <3> HIDE DEF x
      <3>2. x[1] \in 1..n /\ x[2] \in Under(P, r[x[1]]) /\ x[2] # r[x[1]]
        BY <1>1, <2>3, <3>1
      <3>3. P[x[2]] \in Under(P, r[x[1]])
        <4> DEFINE q == r[x[1]]
        <4>1. q \in Objects
          BY <3>2
        <4> HIDE DEF q
        <4>2. \A y \in Under(P, q) : y # q => P[y] \in Under(P, q)
          BY <4>1, UnderIs
        <4> QED BY <3>2, <4>2 DEF q
      <3>4. <<x[1], P[x[2]]>> \in E
        BY <1>1, <3>2, <3>3
      <3>5. f[<<x[1], P[x[2]]>>] \in Range(f) /\ f[<<x[1], P[x[2]]>>] \in Objects
        BY <1>2, <3>4
      <3> QED BY <2>1, <2>3, <3>5
    <2>4. CASE ~moved
      BY <2>1, <2>2, <2>4
    <2> QED BY <2>3, <2>4
  <1>10. CloneParents(P, r, f, E) \in [Objects -> Objects \cup {NoParent}]
    BY <1>9 DEF CloneParents
  <1> QED BY <1>3, <1>5, <1>6, <1>7, <1>9, <1>10 DEF E

LEMMA EditorPasteCopied ==
    ASSUME EditorInv, PasteCopied
    PROVE  EditorInv'
  <1> DEFINE P == scene.parent
             copied == Only(toCopy, {o \in Objects : Owned(o)})
             n == Len(copied)
             E == UNION {{i} \X Subtree(scene, copied[i]) : i \in DOMAIN copied}
             f == CHOOSE f \in [E -> Objects \ made] : IsInjective(f)
             cloned == Range(f)
             md2 == made \cup cloned
             K == {o \in cloned : OriginalOf(f, E, o)[2] \in scene.carried}
             Q == CloneParents(P, copied, f, E)
             roots == [i \in DOMAIN copied |-> f[<<i, copied[i]>>]]
             adds == [i \in DOMAIN copied |-> AddGameObject(ClonesOf(f, E, i))]
             c == Append(adds, SelectGameObjects(roots))
  <1>1. PICK h \in Points : scene = At(h, P) /\ Sound(h, P, made)
    BY SelectionType
  <1>2. scene.carried = h.has /\ h.in \subseteq Objects /\ h.has \subseteq Objects
    BY <1>1, SceneFacts
  <1>3. /\ Cardinality(Objects) \in Nat /\ NoParent \notin Objects /\ IsFiniteSet(Objects)
        /\ Parents(P, made) /\ made \subseteq Objects
    BY CountObjects, SelectionType, SceneFileAssumption DEF Parents
  <1>4. /\ Cardinality(E) <= Cardinality(Objects \ made)
        /\ made' = md2 /\ toCopy' = toCopy
        /\ DoCommand([scene EXCEPT !.carried = @ \cup K, !.parent = Q], c)
    <2> DEFINE own(o) == CHOOSE x \in E : f[x] = o
               K0 == {o \in cloned : own(o)[2] \in scene.carried}
               Q0 == [o \in Objects |->
                        IF o \in cloned /\ own(o)[2] # copied[own(o)[1]]
                        THEN f[<<own(o)[1], scene.parent[own(o)[2]]>>] ELSE scene.parent[o]]
               adds0 == [i \in DOMAIN copied |->
                            AddGameObject({f[x] : x \in {y \in E : y[1] = i}})]
    <2>1. /\ Cardinality(E) <= Cardinality(Objects \ made)
          /\ made' = md2 /\ toCopy' = toCopy
          /\ DoCommand([scene EXCEPT !.carried = @ \cup K0, !.parent = Q0],
                       Append(adds0, SelectGameObjects(roots)))
      BY ZenonT(60) DEF PasteCopied
    <2> HIDE DEF f, E, copied
    <2>2. K0 = K
      BY DEF OriginalOf
    <2>3. Q0 = Q
      BY DEF CloneParents, OriginalOf
    <2>4. adds0 = adds
      BY DEF ClonesOf
    <2> HIDE DEF K0, K, Q0, Q, adds0, adds, roots, md2
    <2> QED BY <2>1, <2>2, <2>3, <2>4
  <1>5. copied \in Seq(Objects)
    <2>1. toCopy \in Seq(made)
      BY DEF EditorInv
    <2>2. toCopy \in Seq(Objects)
      BY <1>3, <2>1
    <2> DEFINE S == {o \in Objects : Owned(o)}
    <2> HIDE DEF S
    <2>3. Only(toCopy, S) \in Seq(Objects)
      BY <2>2, OnlyIs
    <2> QED BY <2>3 DEF S
  <1>6. E = Originals(P, copied, n)
    <2>1. \A i \in DOMAIN copied : Subtree(scene, copied[i]) = Under(P, copied[i])
      BY <1>1, SubtreeIs DEF At
    <2>2. DOMAIN copied = 1..n
      BY <1>5
    <2> QED BY <2>1, <2>2 DEF Originals
  <1> HIDE DEF P, copied, E
  <1>7. n \in Nat /\ copied \in [1..n -> Objects] /\ DOMAIN copied = 1..n
    BY <1>5
  <1> HIDE DEF n
  <1>8. f \in [E -> Objects \ made] /\ IsInjective(f)
    <2>1. IsFiniteSet(E) /\ IsFiniteSet(Objects \ made)
      BY <1>3, <1>6, <1>7, OriginalsFinite, FS_Subset
    <2>2. \E g \in [E -> Objects \ made] : IsInjective(g)
      BY <1>4, <2>1, RoomForAll
    <2> QED BY <2>2
  <1> HIDE DEF f
  <1>9. /\ cloned \subseteq Objects \ made
        /\ \A i \in 1..n : /\ ClonesOf(f, E, i) \subseteq cloned
                           /\ f[<<i, copied[i]>>] \in ClonesOf(f, E, i)
        /\ \A i, j \in 1..n : i # j => ClonesOf(f, E, i) \cap ClonesOf(f, E, j) = {}
        /\ UNION {ClonesOf(f, E, i) : i \in 1..n} = cloned
        /\ Q \in [Objects -> Objects \cup {NoParent}]
        /\ \A x \in Objects : Q[x] = P[x] \/ (x \in cloned /\ Q[x] \in cloned)
    <2>1. /\ Cardinality(Objects) \in Nat /\ Parents(P, made)
          /\ n \in Nat /\ copied \in [1..n -> Objects] /\ IsInjective(f)
          /\ f \in [Originals(P, copied, n) -> Objects \ made]
      BY <1>3, <1>6, <1>7, <1>8
    <2> DEFINE O == Originals(P, copied, n)
               R == CloneParents(P, copied, f, O)
    <2>2. /\ Range(f) \subseteq Objects \ made
          /\ \A i \in 1..n : ClonesOf(f, O, i) \subseteq Range(f)
          /\ \A i \in 1..n : f[<<i, copied[i]>>] \in ClonesOf(f, O, i)
          /\ \A i, j \in 1..n : i # j => ClonesOf(f, O, i) \cap ClonesOf(f, O, j) = {}
          /\ \A o \in Range(f) : \E i \in 1..n : o \in ClonesOf(f, O, i)
          /\ R \in [Objects -> Objects \cup {NoParent}]
          /\ \A x \in Objects : R[x] = P[x] \/ (x \in Range(f) /\ R[x] \in Range(f))
      BY <2>1, ClonesAre
    <2>3. E = O
      BY <1>6
    <2> HIDE DEF O
    <2> QED BY <2>2, <2>3
  <1>10. K \subseteq cloned /\ K \subseteq Objects /\ K \cap h.in = {} /\ cloned \cap h.in = {}
    BY <1>1, <1>9 DEF Sound
  <1>11. [scene EXCEPT !.carried = @ \cup K, !.parent = Q] = At(Refit(h, K), Q)
    <2> HIDE DEF K, Q
    <2>1. scene = SceneOf(h.in, h.has, h.chosen, P)
      BY <1>1 DEF At
    <2>2. h.in \cap (h.has \cup K) = h.in \cap h.has
      BY <1>10
    <2>3. At(Refit(h, K), Q)
            = [entries |-> Once(h.in), handled |-> Once(h.in \cap h.has),
               carried |-> h.has \cup K, parent |-> Q, selection |-> h.chosen]
      BY <2>2 DEF At, Refit, SceneOf
    <2>4. scene = [entries |-> Once(h.in), handled |-> Once(h.in \cap h.has),
                   carried |-> h.has, parent |-> P, selection |-> h.chosen]
      BY <2>1 DEF SceneOf
    <2> DEFINE mid == [entries |-> Once(h.in), handled |-> Once(h.in \cap h.has),
                       carried |-> h.has, parent |-> P, selection |-> h.chosen]
    <2>5. [mid EXCEPT !.carried = @ \cup K, !.parent = Q]
            = [entries |-> Once(h.in), handled |-> Once(h.in \cap h.has),
               carried |-> h.has \cup K, parent |-> Q, selection |-> h.chosen]
      <3> DEFINE a == Once(h.in)
                 b == Once(h.in \cap h.has)
                 d == h.has \cup K
                 s == h.chosen
      <3>1. mid.carried \cup K = d
        OBVIOUS
      <3> HIDE DEF a, b, d, s
      <3>2. mid = [entries |-> a, handled |-> b, carried |-> h.has, parent |-> P, selection |-> s]
        BY DEF a, b, s
      <3> HIDE DEF mid
      <3>3. [mid EXCEPT !.carried = d]
              = [entries |-> a, handled |-> b, carried |-> d, parent |-> P, selection |-> s]
        BY <3>2
      <3> DEFINE mid2 == [entries |-> a, handled |-> b, carried |-> d, parent |-> P,
                          selection |-> s]
      <3>4. [mid2 EXCEPT !.parent = Q]
              = [entries |-> a, handled |-> b, carried |-> d, parent |-> Q, selection |-> s]
        OBVIOUS
      <3> HIDE DEF mid2
      <3>5. [[mid EXCEPT !.carried = d] EXCEPT !.parent = Q] = [mid2 EXCEPT !.parent = Q]
        BY <3>3 DEF mid2
      <3> QED BY <3>1, <3>4, <3>5 DEF a, b, d, s
    <2> QED BY <2>3, <2>4, <2>5
  <1> HIDE DEF Q, K
  <1>12. /\ roots \in Seq(Objects) /\ IsInjective(roots) /\ ToSet(roots) \subseteq cloned
    <2>1. roots = [i \in 1..n |-> f[<<i, copied[i]>>]]
      BY <1>7
    <2>2. \A i \in 1..n : f[<<i, copied[i]>>] \in cloned /\ f[<<i, copied[i]>>] \in Objects
      BY <1>9
    <2>3. \A i, j \in 1..n : f[<<i, copied[i]>>] = f[<<j, copied[j]>>] => i = j
      BY <1>9
    <2> HIDE DEF roots, cloned
    <2>4. /\ roots \in Seq(Objects) /\ Len(roots) = n
          /\ \A i \in 1..n : roots[i] = f[<<i, copied[i]>>]
      BY <1>7, <2>1, <2>2
    <2>5. IsInjective(roots)
      BY <2>3, <2>4, InjectiveIs
    <2>6. ToSet(roots) \subseteq cloned
      <3>1. \A x \in ToSet(roots) : \E i \in 1..n : roots[i] = x
        BY <2>4, ToSetIs
      <3>2. ASSUME NEW x \in ToSet(roots) PROVE x \in cloned
        <4>1. PICK i \in 1..n : roots[i] = x
          BY <3>1
        <4>2. roots[i] = f[<<i, copied[i]>>]
          BY <2>4
        <4> QED BY <2>2, <4>1, <4>2
      <3> QED BY <3>2
    <2> QED BY <2>4, <2>5, <2>6
  <1>13. /\ c \in Seq(Commands) /\ Len(c) = n + 1
         /\ \A i \in 1..n : c[i] = AddGameObject(ClonesOf(f, E, i))
         /\ Selects(c[n + 1], roots, <<>>)
    <2>1. adds = [i \in 1..n |-> AddGameObject(ClonesOf(f, E, i))]
      BY <1>7
    <2>2. \A i \in 1..n : AddGameObject(ClonesOf(f, E, i)) \in Commands
      <3>1. \A i \in 1..n : ClonesOf(f, E, i) \in SUBSET Objects
        BY <1>9
      <3> QED BY <3>1 DEF AddGameObject, Commands
    <2>3. SelectGameObjects(roots) \in Commands /\ Selects(SelectGameObjects(roots), roots, <<>>)
      BY <1>12, SelectIs
    <2> HIDE DEF adds, roots
    <2>4. /\ adds \in Seq(Commands) /\ Len(adds) = n
          /\ \A i \in 1..n : adds[i] = AddGameObject(ClonesOf(f, E, i))
      BY <1>7, <2>1, <2>2
    <2>5. /\ c \in Seq(Commands) /\ Len(c) = n + 1 /\ c[n + 1] = SelectGameObjects(roots)
          /\ \A i \in 1..n : c[i] = adds[i]
      BY <2>3, <2>4, AppendIs
    <2> QED BY <2>3, <2>4, <2>5
  <1> HIDE DEF c, roots
  <1> DEFINE g == [in |-> h.in \cup cloned, has |-> h.has \cup K, chosen |-> roots]
  <1>14. /\ g.in = h.in \cup cloned /\ g.has = h.has \cup K /\ g.chosen = roots
         /\ g \in Points
    BY <1>2, <1>9, <1>10, <1>12 DEF Points
  <1> HIDE DEF g
  <1>15. Leads(Q, c, Refit(h, K), g, <<>>)
    <2> DEFINE S == [i \in 1..n |-> ClonesOf(f, E, i)]
    <2>1. /\ S \in [1..n -> SUBSET Objects]
          /\ \A i \in 1..n : S[i] = ClonesOf(f, E, i) /\ S[i] \subseteq cloned
          /\ {S[i] : i \in 1..n} = {ClonesOf(f, E, i) : i \in 1..n}
      BY <1>9
    <2> HIDE DEF S
    <2>2. Refit(h, K).in = h.in /\ Refit(h, K).has = h.has \cup K
      BY DEF Refit
    <2>3. /\ \A i \in 1..n : c[i] = AddGameObject(S[i])
          /\ Selects(c[n + 1], g.chosen, <<>>)
      BY <1>13, <1>14, <2>1
    <2>4. /\ \A i \in 1..n : S[i] \cap Refit(h, K).in = {}
          /\ \A i, j \in 1..n : i # j => S[i] \cap S[j] = {}
      BY <1>9, <1>10, <2>1, <2>2
    <2>5. g.in = Refit(h, K).in \cup UNION {S[i] : i \in 1..n} /\ g.has = Refit(h, K).has
      BY <1>9, <1>14, <2>1, <2>2
    <2>6. Adds(c, Refit(h, K), g, <<>>)
      BY <1>7, <1>13, <2>1, <2>3, <2>4, <2>5, AddsFrom
    <2> QED BY <2>6 DEF Leads
  <1>16. Parents(Q, md2)
    BY <1>3, <1>9 DEF Parents
  <1>17. Sound(g, Q, md2)
    <2>1. ASSUME NEW x \in Objects, Q[x] \in h.in \cup cloned PROVE x \in h.in \cup cloned
      <3>1. CASE x \in cloned
        BY <3>1
      <3>2. CASE x \notin cloned
        <4>1. P[x] \in h.in \cup cloned
          BY <1>9, <2>1, <3>2
        <4>2. P[x] \notin cloned
          BY <1>3, <1>9, <4>1 DEF Parents
        <4> QED BY <1>1, <4>1, <4>2 DEF Sound
      <3> QED BY <3>1, <3>2
    <2>2. h.in \cup cloned \subseteq md2 /\ h.has \cup K \subseteq md2
      BY <1>1, <1>10 DEF Sound
    <2> HIDE DEF cloned, md2
    <2> QED BY <1>12, <1>14, <2>1, <2>2 DEF Sound
  <1>18. Reparents(P, Q, h.in, made, md2)
    BY <1>9 DEF Reparents
  <1>19. K \subseteq md2 \ made /\ made \subseteq md2 /\ g.in \subseteq h.in \cup (md2 \ made)
    BY <1>9, <1>10, <1>14
  <1>20. DoCommand(At(Refit(h, K), Q), c)
    BY <1>4, <1>11
  <1>21. scene = At(h, scene.parent) /\ Reparents(scene.parent, Q, h.in, made, md2)
    BY <1>1, <1>18 DEF P
  <1>22. made' = md2 /\ toCopy' = toCopy
    BY <1>4
  <1> HIDE DEF cloned, md2
  <1> QED BY <1>13, <1>14, <1>15, <1>16, <1>17, <1>19, <1>20, <1>21, <1>22, EditorDo

-----------------------------------------------------------------------------
LEMMA EditorNext ==
    ASSUME ~MayReselect, EditorInv, [Next]_vars
    PROVE  EditorInv'
  <1>1. CASE Undo
    BY <1>1, EditorUndo
  <1>2. CASE Redo
    BY <1>2, EditorRedo
  <1>3. CASE SelectClicked
    BY <1>3, EditorSelectClicked
  <1>4. CASE SelectAppend
    BY <1>4, EditorSelectAppend
  <1>5. CASE CreateNew
    BY <1>5, EditorCreateNew
  <1>6. CASE DeleteSelection
    BY <1>6, EditorDeleteSelection
  <1>7. CASE CopySelection
    BY <1>7, EditorCopySelection
  <1>8. CASE PasteCopied
    BY <1>8, EditorPasteCopied
  <1>9. CASE EditComponent
    BY <1>9, EditorEditComponent
  <1>10. CASE UNCHANGED vars
    <2>1. /\ toCopy' = toCopy /\ scene' = scene /\ undoStack' = undoStack
          /\ redoStack' = redoStack /\ made' = made /\ commands' = commands
          /\ past' = past /\ future' = future
      BY <1>10 DEF vars
    <2> QED BY <2>1 DEF EditorInv
  <1> QED BY <1>1, <1>2, <1>3, <1>4, <1>5, <1>6, <1>7, <1>8, <1>9, <1>10 DEF Next

LEMMA EditorAlways ==
    ASSUME ~MayReselect
    PROVE  Spec => []EditorInv
  <1>1. Init => EditorInv
    BY EditorInit
  <1>2. EditorInv /\ [Next]_vars => EditorInv'
    BY EditorNext
  <1> QED BY <1>1, <1>2, PTL DEF Spec

LEMMA EditorFacts ==
    ASSUME EditorInv
    PROVE  TypeOK /\ SelectedAreInScene /\ NothingTwice
  <1> DEFINE P == scene.parent
  <1>1. PICK h \in Points : scene = At(h, P) /\ Sound(h, P, made)
    BY SelectionType
  <1>2. /\ scene.selection = h.chosen /\ scene.carried = h.has /\ ObjectsInScene = h.in
        /\ h.in \subseteq Objects /\ h.chosen \in Seq(Objects)
    BY <1>1, SceneFacts
  <1>3. Parents(P, made)
    BY SelectionType
  <1>4. /\ toCopy \in Seq(made) /\ commands \in 0..MaxCommands
        /\ Len(past) = Len(undoStack) /\ Len(future) = Len(redoStack)
    BY DEF EditorInv, Standing
  <1>5. /\ h.in \subseteq made /\ h.has \subseteq made /\ ToSet(h.chosen) \subseteq h.in
    BY <1>1 DEF Sound
  <1>6. scene.selection \in Seq(made)
    <2>1. \A i \in 1..Len(h.chosen) : h.chosen[i] \in made
      BY <1>2, <1>5, ToSetIs
    <2> QED BY <1>2, <2>1
  <1>7. /\ scene.entries = Once(h.in) /\ scene.handled = Once(h.in \cap h.has)
        /\ DOMAIN scene = {"entries", "handled", "carried", "parent", "selection"}
    <2> DEFINE st == SceneOf(h.in, h.has, h.chosen, P)
    <2>1. /\ st.entries = Once(h.in) /\ st.handled = Once(h.in \cap h.has)
          /\ DOMAIN st = {"entries", "handled", "carried", "parent", "selection"}
      BY DEF SceneOf
    <2>2. scene = st
      BY <1>1 DEF At
    <2> HIDE DEF st
    <2> QED BY <2>1, <2>2
  <1>8. TypeOK
    <2>1. Once(h.in) \in [Objects -> Nat] /\ Once(h.in \cap h.has) \in [Objects -> Nat]
      BY DEF Once
    <2> QED BY <1>2, <1>3, <1>4, <1>5, <1>6, <1>7, <2>1 DEF TypeOK, Parents
  <1>9. SelectedAreInScene
    BY <1>2, <1>5 DEF SelectedAreInScene
  <1>10. NothingTwice
    <2>1. \A o \in Objects : Once(h.in)[o] <= 1 /\ Once(h.in \cap h.has)[o] <= Once(h.in)[o]
      BY DEF Once
    <2> QED BY <1>7, <2>1 DEF NothingTwice
  <1> QED BY <1>8, <1>9, <1>10

(* For every scene file: the editor's state keeps its types, and what can  *)
(* be undone and redone is as long as what is remembered of it, whatever   *)
(* composites EditorCommandManager did, undid and did again.               *)
THEOREM EditorTyped ==
    ASSUME ~MayReselect
    PROVE  Spec => []TypeOK
  <1>1. EditorInv => TypeOK
    BY EditorFacts
  <1> QED BY <1>1, EditorAlways, PTL

(* For every scene file and every order of commands, undos and redos: the  *)
(* objects that the selection names are in the scene, so that              *)
(* DeleteSelectedGameObjects and a redone deletion find them.              *)
THEOREM SelectionStaysInScene ==
    ASSUME ~MayReselect
    PROVE  Spec => []SelectedAreInScene
  <1>1. EditorInv => SelectedAreInScene
    BY EditorFacts
  <1> QED BY <1>1, EditorAlways, PTL

(* For every scene file: as long as no object is selected twice, adding,   *)
(* removing and their undos put no object into the lists of the manager a  *)
(* second time and no component into those of its system.                  *)
THEOREM EditorAddsNothingTwice ==
    ASSUME ~MayReselect
    PROVE  Spec => []NothingTwice
  <1>1. EditorInv => NothingTwice
    BY EditorFacts
  <1> QED BY <1>1, EditorAlways, PTL

(* For every scene file: EditorCommandManager is an undo history.  Undo    *)
(* and Redo bring back the objects, the components that run and the        *)
(* selection as they were, though they run the commands on a scene whose   *)
(* hierarchy changed after the commands were made.                         *)
THEOREM KeepsHistory ==
    ASSUME ~MayReselect
    PROVE  Spec => ImplementsHistory
  <1>1. Init => History!Init
    BY DEF Init, History!Init, Document, FirstScene
  <1>2. EditorInv /\ [Next]_vars => [History!Next]_<<Document, past, future>>
    <2> SUFFICES ASSUME EditorInv, [Next]_vars
                 PROVE  History!Next \/ UNCHANGED <<Document, past, future>>
      OBVIOUS
    <2>1. Document = DocumentIn(scene) /\ Document' = DocumentIn(scene')
      BY DEF Document, DocumentIn
    <2>2. ASSUME NEW st, NEW c, DoCommand(st, c) PROVE History!Change
      BY <2>2 DEF DoCommand, History!Change
    <2>3. /\ undoStack # <<>> => past # <<>>
          /\ redoStack # <<>> => future # <<>>
      BY DEF EditorInv, Standing
    <2>4. CASE Undo
      <3>1. Document' = Last(past)
        BY <2>1, <2>4, EditorUndo
      <3> QED BY <2>3, <2>4, <3>1
              DEF Undo, History!Undo, History!Next, Last, Front, History!Last, History!Front
    <2>5. CASE Redo
      <3>1. Document' = Last(future)
        BY <2>1, <2>5, EditorRedo
      <3> QED BY <2>3, <2>5, <3>1
              DEF Redo, History!Redo, History!Next, Last, Front, History!Last, History!Front
    <2>6. CASE CopySelection \/ UNCHANGED vars
      BY <2>6 DEF CopySelection, vars, Document
    <2>7. CASE SelectClicked \/ SelectAppend
      <3>1. ASSUME NEW s, Select(s) PROVE History!Change
        BY <2>2, <3>1 DEF Select
      <3>2. SelectClicked => History!Change
        BY <3>1 DEF SelectClicked
      <3>3. SelectAppend => History!Change
        BY <3>1 DEF SelectAppend
      <3> QED BY <2>7, <3>2, <3>3 DEF History!Next
    <2>8. CASE CreateNew \/ EditComponent
      BY <2>2, <2>8 DEF CreateNew, EditComponent, History!Next
    <2>9. CASE DeleteSelection \/ PasteCopied
      <3>1. DeleteSelection => past' = Append(past, Document) /\ future' = <<>>
        BY ZenonT(60) DEF DeleteSelection, DoCommand
      <3>2. PasteCopied => past' = Append(past, Document) /\ future' = <<>>
        BY ZenonT(60) DEF PasteCopied, DoCommand
      <3> QED BY <2>9, <3>1, <3>2 DEF History!Change, History!Next
    <2> QED BY <2>4, <2>5, <2>6, <2>7, <2>8, <2>9 DEF Next
  <1> QED BY <1>1, <1>2, EditorAlways, PTL DEF Spec, ImplementsHistory, History!Spec

=============================================================================
