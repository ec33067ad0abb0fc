--------------------------- MODULE SequenceProofs ---------------------------
(***************************************************************************)
(* What the recursively defined helpers on sequences return, for any       *)
(* sequence: Only, EraseEach, FlattenSeq, ToSet and IsInjective.  Each     *)
(* recursion is shown to have a solution (RecursionExists), and its values *)
(* are then found by induction over a set of numbers (SetInduction).       *)
(***************************************************************************)
EXTENDS SequenceParts, WellFoundedInduction, TLAPS

(* Induction over the natural numbers, for a set of numbers.                *)
LEMMA SetInduction ==
    ASSUME NEW S, 0 \in S, \A n \in Nat : n \in S => n + 1 \in S
    PROVE  Nat \subseteq S
  <1> DEFINE T == Nat \ S
  <1>1. SUFFICES ASSUME T # {} PROVE FALSE
    OBVIOUS
  <1>2. PICK x \in T : \A y \in T : ~(<<y, x>> \in OpToRel(<, Nat))
    <2>1. T \subseteq Nat
      OBVIOUS
    <2> HIDE DEF T
    <2> QED BY <1>1, <2>1, WFMin, NatLessThanWellFounded
  <1>3. x # 0 /\ x - 1 \in Nat /\ x - 1 < x
    OBVIOUS
  <1>4. <<x - 1, x>> \in OpToRel(<, Nat)
    BY <1>3 DEF OpToRel
  <1>5. x - 1 \in S
    BY <1>2, <1>3, <1>4
  <1> QED BY <1>3, <1>5

(* A set of natural numbers has a least element.                            *)
LEMMA LeastNumber ==
    ASSUME NEW S, S \subseteq Nat, S # {}
    PROVE  \E m \in S : \A x \in S : m <= x
  <1>1. PICK m \in S : \A x \in S : ~(<<x, m>> \in OpToRel(<, Nat))
    BY WFMin, NatLessThanWellFounded
  <1>2. ASSUME NEW x \in S, ~(m <= x) PROVE FALSE
    <2>1. x \in Nat /\ m \in Nat
      OBVIOUS
    <2>2. x < m
      BY <1>2, <2>1
    <2>3. <<x, m>> \in OpToRel(<, Nat)
      BY <2>1, <2>2 DEF OpToRel
    <2> QED BY <1>1, <2>3
  <1> QED BY <1>1, <1>2

(* A function that is defined by recursion on an index exists.              *)
Iterates(F, V, base, n, step) ==
    /\ F \in [0..n -> V]
    /\ F[0] = base /\ \A i \in 1..n : F[i] = step[i][F[i - 1]]

LEMMA RecursionExists ==
    ASSUME NEW V, NEW base \in V, NEW n \in Nat, NEW step, step \in [1..n -> [V -> V]]
    PROVE  \E F : Iterates(F, V, base, n, step)
  <1> DEFINE Good(F, m) == F[0] = base /\ \A i \in 1..m : F[i] = step[i][F[i - 1]]
             S == {m \in Nat : m <= n => \E F \in [0..m -> V] : Good(F, m)}
  <1>1. 0 \in S
    <2>1. [i \in 0..0 |-> base] \in [0..0 -> V] /\ Good([i \in 0..0 |-> base], 0)
      OBVIOUS
    <2> QED BY <2>1
  <1>2. ASSUME NEW m \in Nat, m \in S PROVE m + 1 \in S
    <2>1. SUFFICES ASSUME m + 1 <= n PROVE \E F \in [0..(m + 1) -> V] : Good(F, m + 1)
      OBVIOUS
    <2>2. PICK F \in [0..m -> V] : Good(F, m)
      BY <1>2, <2>1
    <2> DEFINE G == [i \in 0..(m + 1) |-> IF i = m + 1 THEN step[m + 1][F[m]] ELSE F[i]]
    <2>3. F[m] \in V /\ m + 1 \in 1..n
      BY <2>1
    <2>4. G \in [0..(m + 1) -> V]
      BY <2>3
    <2>5. Good(G, m + 1)
      <3>1. G[0] = base
        BY <2>2
      <3>2. ASSUME NEW i \in 1..(m + 1) PROVE G[i] = step[i][G[i - 1]]
        <4>1. CASE i = m + 1
          BY <4>1
        <4>2. CASE i # m + 1
          <5>1. i \in 1..m /\ i \in 0..(m+1) /\ i - 1 \in 0..(m + 1) /\ i - 1 # m + 1
            BY <4>2
          <5> QED BY <4>2, <5>1, <2>2
        <4> QED BY <4>1, <4>2
      <3> QED BY <3>1, <3>2
    <2> QED BY <2>4, <2>5
  <1>3. n \in S
    <2> HIDE DEF S
    <2> QED BY <1>1, <1>2, SetInduction
  <1> QED BY <1>3 DEF Iterates

(* What is chosen by a recursive definition is that function.               *)
Keeps(F, T, s, S) ==
    /\ F \in [0..Len(s) -> Seq(T)]
    /\ F[0] = <<>>
    /\ \A i \in 1..Len(s) : F[i] = IF s[i] \in S THEN Append(F[i - 1], s[i]) ELSE F[i - 1]

LEMMA OnlyRecursion ==
    ASSUME NEW T, NEW s \in Seq(T), NEW S
    PROVE  \E F : Keeps(F, T, s, S) /\ Only(s, S) = F[Len(s)]
  <1> DEFINE Next(i, q) == IF s[i] \in S THEN Append(q, s[i]) ELSE q
             Body(F, i) == IF i = 0 THEN <<>> ELSE Next(i, F[i - 1])
             step == [i \in 1..Len(s) |-> [q \in Seq(T) |-> Next(i, q)]]
             K == CHOOSE F : F = [i \in 0..Len(s) |-> Body(F, i)]
  <1>1. Len(s) \in Nat /\ <<>> \in Seq(T)
    OBVIOUS
  <1>2. ASSUME NEW i \in 1..Len(s), NEW q \in Seq(T) PROVE Next(i, q) \in Seq(T)
    OBVIOUS
  <1>3. Only(s, S) = K[Len(s)]
    BY DEF Only
  <1> HIDE DEF Next
  <1>4. PICK F : Iterates(F, Seq(T), <<>>, Len(s), step)
    <2>1. step \in [1..Len(s) -> [Seq(T) -> Seq(T)]]
      BY <1>2
    <2> HIDE DEF step
    <2> QED BY <1>1, <2>1, RecursionExists
  <1>5. F = [i \in 0..Len(s) |-> Body(F, i)]
    <2>1. ASSUME NEW i \in 0..Len(s) PROVE F[i] = Body(F, i)
      <3>1. CASE i = 0
        BY <1>4, <3>1 DEF Iterates
      <3>2. CASE i # 0
        <4>1. i \in 1..Len(s) /\ i - 1 \in 0..Len(s)
          BY <1>1, <3>2
        <4>2. step[i][F[i - 1]] = Next(i, F[i - 1])
          BY <1>4, <4>1 DEF Iterates
        <4>3. F \in [0..Len(s) -> Seq(T)] /\ F[i] = step[i][F[i - 1]]
          BY <1>4, <4>1 DEF Iterates
        <4> QED BY <3>2, <4>2, <4>3
      <3> QED BY <3>1, <3>2
    <2> HIDE DEF Body
    <2> QED BY <1>4, <2>1 DEF Iterates
  <1>6. K = [i \in 0..Len(s) |-> Body(K, i)]
    <2> HIDE DEF Body
    <2> QED BY <1>5
  <1> HIDE DEF K
  <1>7. K[0] = <<>> /\ \A i \in 1..Len(s) : K[i] = Next(i, K[i - 1])
    <2>1. \A i \in 0..Len(s) : K[i] = Body(K, i)
      <3> HIDE DEF Body
      <3> QED BY <1>6
    <2>2. 0 \in 0..Len(s) /\ \A i \in 1..Len(s) : i \in 0..Len(s) /\ i # 0
      BY <1>1
    <2> QED BY <2>1, <2>2
  <1>8. \A i \in 0..Len(s) : K[i] \in Seq(T)
    <2> DEFINE P == {i \in Nat : i <= Len(s) => K[i] \in Seq(T)}
    <2>1. 0 \in P
      BY <1>1, <1>7
    <2>2. ASSUME NEW i \in Nat, i \in P PROVE i + 1 \in P
      <3>1. SUFFICES ASSUME i + 1 <= Len(s) PROVE K[i + 1] \in Seq(T)
        OBVIOUS
      <3>2. i + 1 \in 1..Len(s) /\ (i + 1) - 1 = i /\ i <= Len(s)
        BY <1>1, <3>1
      <3>3. K[i] \in Seq(T)
        BY <2>2, <3>2
      <3>4. K[i + 1] = Next(i + 1, K[i])
        BY <1>7, <3>2
      <3> QED BY <1>2, <3>2, <3>3, <3>4
    <2>3. Nat \subseteq P
      <3> HIDE DEF P
      <3> QED BY <2>1, <2>2, SetInduction
    <2> QED BY <1>1, <2>3
  <1>9. K \in [0..Len(s) -> Seq(T)]
    <2>1. DOMAIN K = 0..Len(s) /\ K = [i \in 0..Len(s) |-> K[i]]
      <3> HIDE DEF Body
      <3> QED BY <1>6
    <2> QED BY <1>8, <2>1
  <1> QED BY <1>3, <1>7, <1>9 DEF Next, Keeps

-----------------------------------------------------------------------------
(* The set of the elements of a sequence, and sequences without duplicates. *)
LEMMA ToSetIs ==
    ASSUME NEW T, NEW s \in Seq(T)
    PROVE  /\ ToSet(s) \subseteq T
           /\ \A x : x \in ToSet(s) <=> \E i \in 1..Len(s) : s[i] = x
           /\ \A i \in 1..Len(s) : s[i] \in ToSet(s)
           /\ s = <<>> <=> ToSet(s) = {}
  BY DEF ToSet

LEMMA ToSetAppend ==
    ASSUME NEW T, NEW s \in Seq(T), NEW x \in T
    PROVE  ToSet(Append(s, x)) = ToSet(s) \cup {x}
  <1> DEFINE w == Append(s, x)
             n == Len(s)
  <1>1. n \in Nat /\ w \in Seq(T) /\ Len(w) = n + 1 /\ w[n + 1] = x /\ \A i \in 1..n : w[i] = s[i]
    OBVIOUS
  <1> HIDE DEF w, n
  <1>2. \A y : y \in ToSet(w) <=> \E i \in 1..(n + 1) : w[i] = y
    BY <1>1, ToSetIs
  <1>3. \A y : y \in ToSet(s) <=> \E i \in 1..n : s[i] = y
    BY ToSetIs DEF n
  <1>4. 1..(n + 1) = 1..n \cup {n + 1}
    BY <1>1
  <1>5. \A y : y \in ToSet(w) <=> y \in ToSet(s) \/ y = x
    BY <1>1, <1>2, <1>3, <1>4
  <1> QED BY <1>5 DEF w

LEMMA ToSetConcat ==
    ASSUME NEW T, NEW s \in Seq(T), NEW t \in Seq(T)
    PROVE  ToSet(s \o t) = ToSet(s) \cup ToSet(t)
  <1>1. /\ s \o t \in Seq(T) /\ Len(s \o t) = Len(s) + Len(t) /\ Len(s) \in Nat /\ Len(t) \in Nat
        /\ \A i \in 1..Len(s) : (s \o t)[i] = s[i]
        /\ \A i \in 1..Len(t) : (s \o t)[Len(s) + i] = t[i]
    OBVIOUS
  <1>2. \A i \in 1..(Len(s) + Len(t)) : i \in 1..Len(s) \/ \E j \in 1..Len(t) : i = Len(s) + j
    <2> SUFFICES ASSUME NEW i \in 1..(Len(s) + Len(t)), i \notin 1..Len(s)
                 PROVE  \E j \in 1..Len(t) : i = Len(s) + j
      OBVIOUS
    <2> QED BY <1>1, i - Len(s) \in 1..Len(t)
  <1>3. ASSUME NEW x \in ToSet(s \o t) PROVE x \in ToSet(s) \cup ToSet(t)
    <2>1. PICK i \in 1..(Len(s) + Len(t)) : (s \o t)[i] = x
      BY <1>1, ToSetIs
    <2> QED BY <1>1, <1>2, <2>1, ToSetIs
  <1>4. ASSUME NEW x \in ToSet(s) PROVE x \in ToSet(s \o t)
    <2>1. PICK i \in 1..Len(s) : s[i] = x
      BY ToSetIs
    <2>2. i \in 1..Len(s \o t) /\ (s \o t)[i] = x
      BY <1>1, <2>1
    <2> QED BY <1>1, <2>2, ToSetIs
  <1>5. ASSUME NEW x \in ToSet(t) PROVE x \in ToSet(s \o t)
    <2>1. PICK i \in 1..Len(t) : t[i] = x
      BY ToSetIs
    <2>2. Len(s) + i \in 1..Len(s \o t) /\ (s \o t)[Len(s) + i] = x
      BY <1>1, <2>1
    <2> QED BY <1>1, <2>2, ToSetIs
  <1> QED BY <1>3, <1>4, <1>5

LEMMA InjectiveIs ==
    ASSUME NEW T, NEW s \in Seq(T)
    PROVE  IsInjective(s) <=> \A i, j \in 1..Len(s) : s[i] = s[j] => i = j
  BY DEF IsInjective

LEMMA InjectiveAppend ==
    ASSUME NEW T, NEW s \in Seq(T), NEW x \in T
    PROVE  IsInjective(Append(s, x)) <=> IsInjective(s) /\ x \notin ToSet(s)
  <1> DEFINE w == Append(s, x)
             n == Len(s)
  <1>1. n \in Nat /\ w \in Seq(T) /\ Len(w) = n + 1 /\ w[n + 1] = x /\ \A i \in 1..n : w[i] = s[i]
    OBVIOUS
  <1> HIDE DEF w, n
  <1>2. IsInjective(w) <=> \A i, j \in 1..(n + 1) : w[i] = w[j] => i = j
    BY <1>1, InjectiveIs
  <1>3. IsInjective(s) <=> \A i, j \in 1..n : s[i] = s[j] => i = j
    BY InjectiveIs DEF n
  <1>4. \A y : y \in ToSet(s) <=> \E i \in 1..n : s[i] = y
    BY ToSetIs DEF n
  <1>5. /\ \A i \in 1..(n + 1) : i \in 1..n \/ i = n + 1
        /\ \A i \in 1..n : i \in 1..(n + 1) /\ i # n + 1
        /\ n + 1 \in 1..(n + 1)
    BY <1>1
  <1>6. IsInjective(w) => IsInjective(s) /\ x \notin ToSet(s)
    BY <1>1, <1>2, <1>3, <1>4, <1>5
  <1>7. IsInjective(s) /\ x \notin ToSet(s) => IsInjective(w)
    BY <1>1, <1>2, <1>3, <1>4, <1>5
  <1> QED BY <1>6, <1>7 DEF w

LEMMA InjectiveConcat ==
    ASSUME NEW T, NEW s \in Seq(T), NEW t \in Seq(T)
    PROVE  IsInjective(s \o t) <=>
               IsInjective(s) /\ IsInjective(t) /\ ToSet(s) \cap ToSet(t) = {}
  <1>1. /\ s \o t \in Seq(T) /\ Len(s \o t) = Len(s) + Len(t) /\ Len(s) \in Nat /\ Len(t) \in Nat
        /\ \A i \in 1..Len(s) : (s \o t)[i] = s[i]
        /\ \A i \in 1..Len(t) : (s \o t)[Len(s) + i] = t[i]
    OBVIOUS
  <1>2. /\ \A i \in 1..Len(s) : i \in 1..Len(s \o t)
        /\ \A i \in 1..Len(t) : Len(s) + i \in 1..Len(s \o t)
    BY <1>1
  <1>3. \A i \in 1..Len(s \o t) : i \in 1..Len(s) \/ \E j \in 1..Len(t) : i = Len(s) + j
    <2> SUFFICES ASSUME NEW i \in 1..Len(s \o t), i \notin 1..Len(s)
                 PROVE  \E j \in 1..Len(t) : i = Len(s) + j
      OBVIOUS
    <2> QED BY <1>1, i - Len(s) \in 1..Len(t)
  <1>4. ASSUME IsInjective(s \o t)
        PROVE  IsInjective(s) /\ IsInjective(t) /\ ToSet(s) \cap ToSet(t) = {}
    <2>1. \A i, j \in 1..Len(s \o t) : (s \o t)[i] = (s \o t)[j] => i = j
      BY <1>1, <1>4, InjectiveIs
    <2>2. IsInjective(s)
      BY <1>1, <1>2, <2>1, InjectiveIs
    <2>3. IsInjective(t)
      <3>1. ASSUME NEW i \in 1..Len(t), NEW j \in 1..Len(t), t[i] = t[j] PROVE i = j
        <4>1. Len(s) + i = Len(s) + j
          BY <1>1, <1>2, <2>1, <3>1
        <4> QED BY <1>1, <4>1
      <3> QED BY <3>1, InjectiveIs
    <2>4. ASSUME NEW x \in ToSet(s), x \in ToSet(t) PROVE FALSE
      <3>1. PICK i \in 1..Len(s) : s[i] = x
        BY ToSetIs
      <3>2. PICK j \in 1..Len(t) : t[j] = x
        BY <2>4, ToSetIs
      <3>3. i \in 1..Len(s \o t) /\ Len(s) + j \in 1..Len(s \o t) /\ (s \o t)[i] = (s \o t)[Len(s) + j]
        BY <1>1, <1>2, <3>1, <3>2
      <3>4. i = Len(s) + j
        BY <2>1, <3>3
      <3> QED BY <1>1, <3>4
    <2> QED BY <2>2, <2>3, <2>4
  <1>5. ASSUME IsInjective(s), IsInjective(t), ToSet(s) \cap ToSet(t) = {}
        PROVE  IsInjective(s \o t)
    <2>1. ASSUME NEW i \in 1..Len(s \o t), NEW j \in 1..Len(s \o t), (s \o t)[i] = (s \o t)[j]
          PROVE  i = j
      <3>1. CASE i \in 1..Len(s) /\ j \in 1..Len(s)
        BY <1>1, <1>5, <2>1, <3>1, InjectiveIs
      <3>2. CASE i \in 1..Len(s) /\ j \notin 1..Len(s)
        <4>1. PICK k \in 1..Len(t) : j = Len(s) + k
          BY <1>3, <3>2
        <4>2. s[i] = t[k]
          BY <1>1, <2>1, <3>2, <4>1
        <4>3. s[i] \in ToSet(s) /\ t[k] \in ToSet(t)
          BY <3>2, ToSetIs
        <4> QED BY <1>5, <4>2, <4>3
      <3>3. CASE i \notin 1..Len(s) /\ j \in 1..Len(s)
        <4>1. PICK k \in 1..Len(t) : i = Len(s) + k
          BY <1>3, <3>3
        <4>2. s[j] = t[k]
          BY <1>1, <2>1, <3>3, <4>1
        <4>3. s[j] \in ToSet(s) /\ t[k] \in ToSet(t)
          BY <3>3, ToSetIs
        <4> QED BY <1>5, <4>2, <4>3
      <3>4. CASE i \notin 1..Len(s) /\ j \notin 1..Len(s)
        <4>1. PICK k \in 1..Len(t) : i = Len(s) + k
          BY <1>3, <3>4
        <4>2. PICK m \in 1..Len(t) : j = Len(s) + m
          BY <1>3, <3>4
        <4>3. t[k] = t[m]
          BY <1>1, <2>1, <4>1, <4>2
        <4> QED BY <1>5, <4>1, <4>2, <4>3, InjectiveIs
      <3> QED BY <3>1, <3>2, <3>3, <3>4
    <2> QED BY <1>1, <2>1, InjectiveIs
  <1> QED BY <1>4, <1>5

-----------------------------------------------------------------------------
(* Only keeps the elements of S, each once if s has them once.              *)
LEMMA OnlyIs ==
    ASSUME NEW T, NEW s \in Seq(T), NEW S
    PROVE  /\ Only(s, S) \in Seq(T)
           /\ ToSet(Only(s, S)) = ToSet(s) \cap S
           /\ IsInjective(s) => IsInjective(Only(s, S))
  <1>0. PICK F : Keeps(F, T, s, S) /\ Only(s, S) = F[Len(s)]
    BY OnlyRecursion
  <1>1. /\ F \in [0..Len(s) -> Seq(T)]
        /\ F[0] = <<>>
        /\ \A i \in 1..Len(s) :
              F[i] = IF s[i] \in S THEN Append(F[i - 1], s[i]) ELSE F[i - 1]
        /\ Only(s, S) = F[Len(s)]
    BY <1>0 DEF Keeps
  <1>2. Len(s) \in Nat /\ \A i \in 1..Len(s) : s[i] \in T
    OBVIOUS
  <1> DEFINE Fore(i) == {s[j] : j \in 1..i}
             P == {i \in Nat : i <= Len(s) =>
                     /\ ToSet(F[i]) = Fore(i) \cap S
                     /\ IsInjective(s) => IsInjective(F[i])}
  <1>3. 0 \in P
    BY <1>1 DEF ToSet, IsInjective
  <1>4. ASSUME NEW i \in Nat, i \in P PROVE i + 1 \in P
    <2> DEFINE x == s[i + 1]
    <2>1. SUFFICES ASSUME i + 1 <= Len(s)
                   PROVE  /\ ToSet(F[i + 1]) = Fore(i + 1) \cap S
                          /\ IsInjective(s) => IsInjective(F[i + 1])
      OBVIOUS
    <2>2. /\ i + 1 \in 1..Len(s) /\ i \in 0..Len(s) /\ (i + 1) - 1 = i
          /\ x \in T /\ F[i] \in Seq(T)
      BY <1>1, <1>2, <2>1
    <2>3. ToSet(F[i]) = Fore(i) \cap S /\ (IsInjective(s) => IsInjective(F[i]))
      BY <1>4, <2>2
    <2>4. Fore(i + 1) = Fore(i) \cup {x}
      <3>1. 1..(i + 1) = 1..i \cup {i + 1}
        OBVIOUS
      <3> QED BY <3>1
    <2>5. IsInjective(s) => x \notin Fore(i)
      <3> SUFFICES ASSUME IsInjective(s), NEW j \in 1..i PROVE s[j] # s[i + 1]
        OBVIOUS
      <3>1. j \in 1..Len(s) /\ j # i + 1
        BY <2>2
      <3> QED BY <2>2, <3>1, InjectiveIs
    <2>6. F[i + 1] = IF x \in S THEN Append(F[i], x) ELSE F[i]
      BY <1>1, <2>2
    <2> HIDE DEF Fore, x
    <2>7. CASE x \in S
      BY <2>2, <2>3, <2>4, <2>5, <2>6, <2>7, ToSetAppend, InjectiveAppend
    <2>8. CASE x \notin S
      BY <2>3, <2>4, <2>6, <2>8
    <2> QED BY <2>7, <2>8
  <1>5. Len(s) \in P
    <2> HIDE DEF P
    <2> QED BY <1>2, <1>3, <1>4, SetInduction
  <1>6. Fore(Len(s)) = ToSet(s)
    BY ToSetIs
  <1> QED BY <1>1, <1>2, <1>5, <1>6

-----------------------------------------------------------------------------
(* EraseInLoop: what the loop has passed after i indices.                   *)
Pass(s, S, x, i) ==
    IF s[i] \in S /\ ~x.passOver THEN [kept |-> x.kept, passOver |-> TRUE]
    ELSE [kept |-> Append(x.kept, s[i]), passOver |-> FALSE]

Scans(F, T, s, S) ==
    /\ F \in [0..Len(s) -> [kept : Seq(T), passOver : BOOLEAN]]
    /\ F[0] = [kept |-> <<>>, passOver |-> FALSE]
    /\ \A i \in 1..Len(s) : F[i] = Pass(s, S, F[i - 1], i)

LEMMA EraseRecursion ==
    ASSUME NEW T, NEW s \in Seq(T), NEW S
    PROVE  \E F : Scans(F, T, s, S) /\ EraseInLoop(s, S) = F[Len(s)].kept
  <1> DEFINE V == [kept : Seq(T), passOver : BOOLEAN]
             base == [kept |-> <<>>, passOver |-> FALSE]
             Body(F, i) == IF i = 0 THEN base ELSE Pass(s, S, F[i - 1], i)
             step == [i \in 1..Len(s) |-> [x \in V |-> Pass(s, S, x, i)]]
             K == CHOOSE F : F = [i \in 0..Len(s) |-> Body(F, i)]
  <1>1. Len(s) \in Nat /\ base \in V
    OBVIOUS
  <1>2. ASSUME NEW i \in 1..Len(s), NEW x \in V PROVE Pass(s, S, x, i) \in V
    BY DEF Pass
  <1>3. EraseInLoop(s, S) = K[Len(s)].kept
    BY DEF EraseInLoop, Pass
  <1> HIDE DEF V, base
  <1>4. PICK F : Iterates(F, V, base, Len(s), step)
    <2>1. step \in [1..Len(s) -> [V -> V]]
      BY <1>2
    <2> HIDE DEF step
    <2> QED BY <1>1, <2>1, RecursionExists
  <1>5. F = [i \in 0..Len(s) |-> Body(F, i)]
    <2>1. ASSUME NEW i \in 0..Len(s) PROVE F[i] = Body(F, i)
      <3>1. CASE i = 0
        BY <1>4, <3>1 DEF Iterates
      <3>2. CASE i # 0
        <4>1. i \in 1..Len(s) /\ i - 1 \in 0..Len(s)
          BY <1>1, <3>2
        <4>2. F \in [0..Len(s) -> V] /\ F[i] = step[i][F[i - 1]]
          BY <1>4, <4>1 DEF Iterates
        <4>3. step[i][F[i - 1]] = Pass(s, S, F[i - 1], i)
          BY <4>1, <4>2
        <4> QED BY <3>2, <4>2, <4>3
      <3> QED BY <3>1, <3>2
    <2> HIDE DEF Body
    <2> QED BY <1>4, <2>1 DEF Iterates
  <1>6. K = [i \in 0..Len(s) |-> Body(K, i)]
    <2> HIDE DEF Body
    <2> QED BY <1>5
  <1> HIDE DEF K
  <1>7. K[0] = base /\ \A i \in 1..Len(s) : K[i] = Pass(s, S, K[i - 1], i)
    <2>1. \A i \in 0..Len(s) : K[i] = Body(K, i)
      <3> HIDE DEF Body
      <3> QED BY <1>6
    <2>2. 0 \in 0..Len(s) /\ \A i \in 1..Len(s) : i \in 0..Len(s) /\ i # 0
      BY <1>1
    <2> QED BY <2>1, <2>2
  <1>8. \A i \in 0..Len(s) : K[i] \in V
    <2> DEFINE P == {i \in Nat : i <= Len(s) => K[i] \in V}
    <2>1. 0 \in P
      BY <1>1, <1>7
    <2>2. ASSUME NEW i \in Nat, i \in P PROVE i + 1 \in P
      <3>1. SUFFICES ASSUME i + 1 <= Len(s) PROVE K[i + 1] \in V
        OBVIOUS
      <3>2. i + 1 \in 1..Len(s) /\ (i + 1) - 1 = i /\ i <= Len(s)
        BY <1>1, <3>1
      <3>3. K[i] \in V
        BY <2>2, <3>2
      <3>4. K[i + 1] = Pass(s, S, K[i], i + 1)
        BY <1>7, <3>2
      <3> QED BY <1>2, <3>2, <3>3, <3>4
    <2>3. Nat \subseteq P
      <3> HIDE DEF P
      <3> QED BY <2>1, <2>2, SetInduction
    <2> QED BY <1>1, <2>3
  <1>9. K \in [0..Len(s) -> V]
    <2>1. DOMAIN K = 0..Len(s) /\ K = [i \in 0..Len(s) |-> K[i]]
      <3> HIDE DEF Body
      <3> QED BY <1>6
    <2> QED BY <1>8, <2>1
  <1> QED BY <1>3, <1>7, <1>9 DEF Scans, V, base

(* The loop keeps no more than s has.  Where x is in s once it finds x,     *)
(* for nothing was erased before it.                                        *)
LEMMA EraseInLoopIs ==
    ASSUME NEW T, NEW s \in Seq(T), NEW x
    PROVE  /\ EraseInLoop(s, {x}) \in Seq(T)
           /\ IsInjective(s) => /\ ToSet(EraseInLoop(s, {x})) = ToSet(s) \ {x}
                                /\ IsInjective(EraseInLoop(s, {x}))
  <1>0. PICK F : Scans(F, T, s, {x}) /\ EraseInLoop(s, {x}) = F[Len(s)].kept
    BY EraseRecursion
  <1>1. /\ F \in [0..Len(s) -> [kept : Seq(T), passOver : BOOLEAN]]
        /\ F[0] = [kept |-> <<>>, passOver |-> FALSE]
        /\ \A i \in 1..Len(s) : F[i] = Pass(s, {x}, F[i - 1], i)
    BY <1>0 DEF Scans
  <1>2. Len(s) \in Nat /\ \A i \in 1..Len(s) : s[i] \in T
    OBVIOUS
  <1>3. EraseInLoop(s, {x}) \in Seq(T)
    BY <1>0, <1>1, <1>2
  <1>4. SUFFICES ASSUME IsInjective(s)
                 PROVE  /\ ToSet(EraseInLoop(s, {x})) = ToSet(s) \ {x}
                        /\ IsInjective(EraseInLoop(s, {x}))
    BY <1>3
  <1> DEFINE Fore(i) == {s[j] : j \in 1..i}
             P == {i \in Nat : i <= Len(s) =>
                     /\ ToSet(F[i].kept) = Fore(i) \ {x}
                     /\ IsInjective(F[i].kept)
                     /\ F[i].passOver => x \in Fore(i)}
  <1>5. 0 \in P
    BY <1>1 DEF ToSet, IsInjective
  <1>6. ASSUME NEW i \in Nat, i \in P PROVE i + 1 \in P
    <2> DEFINE y == s[i + 1]
    <2>1. SUFFICES ASSUME i + 1 <= Len(s)
                   PROVE  /\ ToSet(F[i + 1].kept) = Fore(i + 1) \ {x}
                          /\ IsInjective(F[i + 1].kept)
                          /\ F[i + 1].passOver => x \in Fore(i + 1)
      OBVIOUS
    <2>2. /\ i + 1 \in 1..Len(s) /\ i \in 0..Len(s) /\ (i + 1) - 1 = i
          /\ y \in T /\ F[i].kept \in Seq(T)
      BY <1>1, <1>2, <2>1
    <2>3. /\ ToSet(F[i].kept) = Fore(i) \ {x} /\ IsInjective(F[i].kept)
          /\ F[i].passOver => x \in Fore(i)
      BY <1>6, <2>2
    <2>4. Fore(i + 1) = Fore(i) \cup {y}
      <3>1. 1..(i + 1) = 1..i \cup {i + 1}
        OBVIOUS
      <3> QED BY <3>1
    <2>5. y \notin Fore(i)
      <3> SUFFICES ASSUME NEW j \in 1..i PROVE s[j] # s[i + 1]
        OBVIOUS
      <3>1. j \in 1..Len(s) /\ j # i + 1
        BY <2>2
      <3> QED BY <1>4, <2>2, <3>1, InjectiveIs
    <2>6. F[i + 1] = IF y = x /\ ~F[i].passOver THEN [kept |-> F[i].kept, passOver |-> TRUE]
                     ELSE [kept |-> Append(F[i].kept, y), passOver |-> FALSE]
      BY <1>1, <2>2 DEF Pass
    <2> HIDE DEF Fore, y
    <2>7. CASE y = x
      <3>1. F[i + 1] = [kept |-> F[i].kept, passOver |-> TRUE]
        BY <2>3, <2>5, <2>6, <2>7
      <3> QED BY <2>3, <2>4, <2>7, <3>1
    <2>8. CASE y # x
      <3>1. F[i + 1].kept = Append(F[i].kept, y) /\ ~F[i + 1].passOver
        BY <2>6, <2>8
      <3>2. /\ ToSet(F[i + 1].kept) = ToSet(F[i].kept) \cup {y}
            /\ IsInjective(F[i + 1].kept) <=> IsInjective(F[i].kept) /\ y \notin ToSet(F[i].kept)
        BY <2>2, <3>1, ToSetAppend, InjectiveAppend
      <3> QED BY <2>3, <2>4, <2>5, <2>8, <3>1, <3>2
    <2> QED BY <2>7, <2>8
  <1>7. Len(s) \in P
    <2> HIDE DEF P
    <2> QED BY <1>2, <1>5, <1>6, SetInduction
  <1>8. Fore(Len(s)) = ToSet(s)
    BY ToSetIs
  <1> QED BY <1>0, <1>2, <1>7, <1>8

(* EraseEach: what is left after the loops for the first i elements of xs.  *)
Leaves(F, T, s, xs) ==
    /\ F \in [0..Len(xs) -> Seq(T)]
    /\ F[0] = s
    /\ \A i \in 1..Len(xs) : F[i] = EraseInLoop(F[i - 1], {xs[i]})

LEMMA EachRecursion ==
    ASSUME NEW T, NEW s \in Seq(T), NEW U, NEW xs \in Seq(U)
    PROVE  \E F : Leaves(F, T, s, xs) /\ EraseEach(s, xs) = F[Len(xs)]
  <1> DEFINE Next(i, q) == EraseInLoop(q, {xs[i]})
             Body(F, i) == IF i = 0 THEN s ELSE Next(i, F[i - 1])
             step == [i \in 1..Len(xs) |-> [q \in Seq(T) |-> Next(i, q)]]
             K == CHOOSE F : F = [i \in 0..Len(xs) |-> Body(F, i)]
  <1>1. Len(xs) \in Nat
    OBVIOUS
  <1>2. ASSUME NEW i \in 1..Len(xs), NEW q \in Seq(T) PROVE Next(i, q) \in Seq(T)
    BY EraseInLoopIs
  <1>3. EraseEach(s, xs) = K[Len(xs)]
    BY DEF EraseEach
  <1> HIDE DEF Next
  <1>4. PICK F : Iterates(F, Seq(T), s, Len(xs), step)
    <2>1. step \in [1..Len(xs) -> [Seq(T) -> Seq(T)]]
      BY <1>2
    <2> HIDE DEF step
    <2> QED BY <1>1, <2>1, RecursionExists
  <1>5. F = [i \in 0..Len(xs) |-> Body(F, i)]
    <2>1. ASSUME NEW i \in 0..Len(xs) PROVE F[i] = Body(F, i)
      <3>1. CASE i = 0
        BY <1>4, <3>1 DEF Iterates
      <3>2. CASE i # 0
        <4>1. i \in 1..Len(xs) /\ i - 1 \in 0..Len(xs)
          BY <1>1, <3>2
        <4>2. F \in [0..Len(xs) -> Seq(T)] /\ F[i] = step[i][F[i - 1]]
          BY <1>4, <4>1 DEF Iterates
        <4>3. step[i][F[i - 1]] = Next(i, F[i - 1])
          BY <4>1, <4>2
        <4> QED BY <3>2, <4>2, <4>3
      <3> QED BY <3>1, <3>2
    <2> HIDE DEF Body
    <2> QED BY <1>4, <2>1 DEF Iterates
  <1>6. K = [i \in 0..Len(xs) |-> Body(K, i)]
    <2> HIDE DEF Body
    <2> QED BY <1>5
  <1> HIDE DEF K
  <1>7. K[0] = s /\ \A i \in 1..Len(xs) : K[i] = Next(i, K[i - 1])
    <2>1. \A i \in 0..Len(xs) : K[i] = Body(K, i)
      <3> HIDE DEF Body
      <3> QED BY <1>6
    <2>2. 0 \in 0..Len(xs) /\ \A i \in 1..Len(xs) : i \in 0..Len(xs) /\ i # 0
      BY <1>1
    <2> QED BY <2>1, <2>2
  <1>8. \A i \in 0..Len(xs) : K[i] \in Seq(T)
    <2> DEFINE P == {i \in Nat : i <= Len(xs) => K[i] \in Seq(T)}
    <2>1. 0 \in P
      BY <1>7
    <2>2. ASSUME NEW i \in Nat, i \in P PROVE i + 1 \in P
      <3>1. SUFFICES ASSUME i + 1 <= Len(xs) PROVE K[i + 1] \in Seq(T)
        OBVIOUS
      <3>2. i + 1 \in 1..Len(xs) /\ (i + 1) - 1 = i /\ i <= Len(xs)
        BY <1>1, <3>1
      <3>3. K[i] \in Seq(T) /\ K[i + 1] = Next(i + 1, K[i])
        BY <1>7, <2>2, <3>2
      <3> QED BY <1>2, <3>2, <3>3
    <2>3. Nat \subseteq P
      <3> HIDE DEF P
      <3> QED BY <2>1, <2>2, SetInduction
    <2> QED BY <1>1, <2>3
  <1>9. K \in [0..Len(xs) -> Seq(T)]
    <2>1. DOMAIN K = 0..Len(xs) /\ K = [i \in 0..Len(xs) |-> K[i]]
      <3> HIDE DEF Body
      <3> QED BY <1>6
    <2> QED BY <1>8, <2>1
  <1> QED BY <1>3, <1>7, <1>9 DEF Next, Leaves

(* The loops erase exactly the elements of xs, if s has each element once.  *)
LEMMA EraseEachIs ==
    ASSUME NEW T, NEW s \in Seq(T), NEW U, NEW xs \in Seq(U)
    PROVE  /\ EraseEach(s, xs) \in Seq(T)
           /\ IsInjective(s) => /\ ToSet(EraseEach(s, xs)) = ToSet(s) \ ToSet(xs)
                                /\ IsInjective(EraseEach(s, xs))
  <1>0. PICK F : Leaves(F, T, s, xs) /\ EraseEach(s, xs) = F[Len(xs)]
    BY EachRecursion
  <1>1. /\ F \in [0..Len(xs) -> Seq(T)]
        /\ F[0] = s
        /\ \A i \in 1..Len(xs) : F[i] = EraseInLoop(F[i - 1], {xs[i]})
    BY <1>0 DEF Leaves
  <1>2. Len(xs) \in Nat
    OBVIOUS
  <1>3. EraseEach(s, xs) \in Seq(T)
    BY <1>0, <1>1, <1>2
  <1>4. SUFFICES ASSUME IsInjective(s)
                 PROVE  /\ ToSet(EraseEach(s, xs)) = ToSet(s) \ ToSet(xs)
                        /\ IsInjective(EraseEach(s, xs))
    BY <1>3
  <1> DEFINE Fore(i) == {xs[j] : j \in 1..i}
             P == {i \in Nat : i <= Len(xs) =>
                     ToSet(F[i]) = ToSet(s) \ Fore(i) /\ IsInjective(F[i])}
  <1>5. 0 \in P
    BY <1>1, <1>4
  <1>6. ASSUME NEW i \in Nat, i \in P PROVE i + 1 \in P
    <2>1. SUFFICES ASSUME i + 1 <= Len(xs)
                   PROVE  ToSet(F[i + 1]) = ToSet(s) \ Fore(i + 1) /\ IsInjective(F[i + 1])
      OBVIOUS
    <2>2. i + 1 \in 1..Len(xs) /\ i \in 0..Len(xs) /\ (i + 1) - 1 = i /\ F[i] \in Seq(T)
      BY <1>1, <1>2, <2>1
    <2>3. ToSet(F[i]) = ToSet(s) \ Fore(i) /\ IsInjective(F[i])
      BY <1>6, <2>2
    <2>4. Fore(i + 1) = Fore(i) \cup {xs[i + 1]}
      <3>1. 1..(i + 1) = 1..i \cup {i + 1}
        OBVIOUS
      <3> QED BY <3>1
    <2>5. F[i + 1] = EraseInLoop(F[i], {xs[i + 1]})
      BY <1>1, <2>2
    <2>6. ToSet(F[i + 1]) = ToSet(F[i]) \ {xs[i + 1]} /\ IsInjective(F[i + 1])
      <3> DEFINE q == F[i]
                 x == xs[i + 1]
      <3>1. q \in Seq(T) /\ IsInjective(q)
        BY <2>2, <2>3
      <3> HIDE DEF q, x
      <3>2. ToSet(EraseInLoop(q, {x})) = ToSet(q) \ {x} /\ IsInjective(EraseInLoop(q, {x}))
        BY <3>1, EraseInLoopIs
      <3> QED BY <2>5, <3>2 DEF q, x
    <2> HIDE DEF Fore
    <2> QED BY <2>3, <2>4, <2>6
  <1>7. Len(xs) \in P
    <2> HIDE DEF P
    <2> QED BY <1>2, <1>5, <1>6, SetInduction
  <1>8. Fore(Len(xs)) = ToSet(xs)
    BY ToSetIs
  <1> QED BY <1>0, <1>2, <1>7, <1>8

-----------------------------------------------------------------------------
(* FlattenSeq: the recursive function that its definition chooses.          *)
Flattens(F, T, ss) ==
    /\ F \in [1..Len(ss) -> Seq(T)]
    /\ F[1] = ss[1]
    /\ \A i \in 2..Len(ss) : F[i] = F[i - 1] \o ss[i]

LEMMA FlattenRecursion ==
    ASSUME NEW T, NEW ss \in Seq(Seq(T)), ss # <<>>
    PROVE  \E F : Flattens(F, T, ss) /\ FlattenSeq(ss) = F[Len(ss)]
  <1> DEFINE n == Len(ss)
             Next(i, q) == q \o ss[i]
             Body(F, i) == IF i = 1 THEN ss[i] ELSE F[i - 1] \o ss[i]
             step == [i \in 1..n |-> [q \in Seq(T) |-> Next(i, q)]]
             K == CHOOSE F : F = [i \in 1..n |-> Body(F, i)]
  <1>1. n \in Nat /\ n # 0 /\ <<>> \in Seq(T) /\ \A i \in 1..n : ss[i] \in Seq(T)
    OBVIOUS
  <1>2. ASSUME NEW i \in 1..n, NEW q \in Seq(T) PROVE Next(i, q) \in Seq(T)
    BY <1>1
  <1>3. FlattenSeq(ss) = K[n]
    BY <1>1 DEF FlattenSeq
  <1> HIDE DEF n, K
  <1>4. PICK G : Iterates(G, Seq(T), <<>>, n, step)
    <2>1. step \in [1..n -> [Seq(T) -> Seq(T)]]
      BY <1>2
    <2> HIDE DEF step
    <2> QED BY <1>1, <2>1, RecursionExists
  <1> DEFINE F == [i \in 1..n |-> G[i]]
  <1>5. ASSUME NEW i \in 1..n PROVE F[i] = Body(F, i)
    <2>1. G \in [0..n -> Seq(T)] /\ G[i] = step[i][G[i - 1]] /\ i - 1 \in 0..n /\ G[0] = <<>>
      <3> HIDE DEF step
      <3> QED BY <1>1, <1>4 DEF Iterates
    <2>2. G[i - 1] \in Seq(T)
      BY <2>1
    <2>3. G[i] = G[i - 1] \o ss[i]
      BY <2>1, <2>2
    <2>4. CASE i = 1
      <3>1. i - 1 = 0 /\ ss[1] \in Seq(T)
        BY <1>1, <2>4
      <3>2. F[1] = <<>> \o ss[1]
        BY <2>1, <2>3, <2>4, <3>1
      <3>3. <<>> \o ss[1] = ss[1]
        BY <3>1
      <3> QED BY <2>4, <3>2, <3>3
    <2>5. CASE i # 1
      <3>1. i - 1 \in 1..n
        BY <1>1, <2>5
      <3> QED BY <2>3, <2>5, <3>1
    <2> QED BY <2>4, <2>5
  <1>6. F = [i \in 1..n |-> Body(F, i)]
    <2> HIDE DEF Body
    <2> QED BY <1>5
  <1>7. K = [i \in 1..n |-> Body(K, i)]
    <2> HIDE DEF Body, F
    <2> QED BY <1>6 DEF K
  <1>8. \A i \in 1..n : K[i] = Body(K, i)
    <2> HIDE DEF Body
    <2> QED BY <1>7
  <1>9. K[1] = ss[1] /\ \A i \in 2..n : K[i] = K[i - 1] \o ss[i]
    <2>1. 1 \in 1..n /\ \A i \in 2..n : i \in 1..n /\ i # 1
      BY <1>1
    <2> QED BY <1>8, <2>1
  <1>10. \A i \in 1..n : K[i] \in Seq(T)
    <2> DEFINE P == {i \in Nat : i + 1 <= n => K[i + 1] \in Seq(T)}
    <2>1. 0 \in P
      BY <1>1, <1>9
    <2>2. ASSUME NEW i \in Nat, i \in P PROVE i + 1 \in P
      <3>1. SUFFICES ASSUME (i + 1) + 1 <= n PROVE K[(i + 1) + 1] \in Seq(T)
        OBVIOUS
      <3>2. /\ (i + 1) + 1 \in 2..n /\ (i + 1) + 1 \in 1..n
            /\ ((i + 1) + 1) - 1 = i + 1 /\ i + 1 <= n
        BY <1>1, <3>1
      <3>3. K[i + 1] \in Seq(T) /\ ss[(i + 1) + 1] \in Seq(T)
        BY <1>1, <2>2, <3>2
      <3>4. K[(i + 1) + 1] = K[i + 1] \o ss[(i + 1) + 1]
        BY <1>9, <3>2
      <3> QED BY <3>3, <3>4
    <2>3. Nat \subseteq P
      <3> HIDE DEF P
      <3> QED BY <2>1, <2>2, SetInduction
    <2>4. ASSUME NEW i \in 1..n PROVE K[i] \in Seq(T)
      <3>1. i - 1 \in Nat /\ (i - 1) + 1 = i /\ i <= n
        BY <1>1
      <3> QED BY <2>3, <3>1
    <2> QED BY <2>4
  <1>11. K \in [1..n -> Seq(T)]
    <2>1. K = [i \in 1..n |-> K[i]]
      <3> HIDE DEF Body
      <3> QED BY <1>7
    <2> QED BY <1>10, <2>1
  <1> QED BY <1>3, <1>9, <1>11 DEF Flattens, n

(* It has the elements of all the sequences, each once if they have each    *)
(* element once and share none.                                             *)
LEMMA FlattenIs ==
    ASSUME NEW T, NEW ss \in Seq(Seq(T))
    PROVE  /\ FlattenSeq(ss) \in Seq(T)
           /\ \A x : x \in ToSet(FlattenSeq(ss)) <=> \E i \in 1..Len(ss) : x \in ToSet(ss[i])
           /\ IsInjective(FlattenSeq(ss)) <=>
                /\ \A i \in 1..Len(ss) : IsInjective(ss[i])
                /\ \A i, j \in 1..Len(ss) : i # j => ToSet(ss[i]) \cap ToSet(ss[j]) = {}
  <1>1. CASE ss = <<>>
    <2>1. Len(ss) = 0 /\ FlattenSeq(ss) = <<>> /\ <<>> \in Seq(T)
      BY <1>1 DEF FlattenSeq
    <2>2. ToSet(<<>>) = {} /\ IsInjective(<<>>)
      BY DEF ToSet, IsInjective
    <2>3. 1..Len(ss) = {}
      BY <2>1
    <2> QED BY <2>1, <2>2, <2>3
  <1>2. CASE ss # <<>>
    <2> DEFINE n == Len(ss)
    <2>1. n \in Nat /\ n # 0 /\ \A i \in 1..n : ss[i] \in Seq(T)
      BY <1>2
    <2>2. PICK F : Flattens(F, T, ss) /\ FlattenSeq(ss) = F[n]
      BY <1>2, FlattenRecursion
    <2> HIDE DEF n
    <2>3. /\ F \in [1..n -> Seq(T)] /\ F[1] = ss[1]
          /\ \A i \in 2..n : F[i] = F[i - 1] \o ss[i]
      BY <2>2 DEF Flattens, n
    <2> DEFINE Has(m) == \A x : x \in ToSet(F[m]) <=> \E i \in 1..m : x \in ToSet(ss[i])
               Apart(m) == /\ \A i \in 1..m : IsInjective(ss[i])
                           /\ \A i, j \in 1..m : i # j => ToSet(ss[i]) \cap ToSet(ss[j]) = {}
               P == {m \in Nat : m + 1 <= n =>
                       Has(m + 1) /\ (IsInjective(F[m + 1]) <=> Apart(m + 1))}
    <2>4. 0 \in P
      <3>1. 1..1 = {1}
        OBVIOUS
      <3>2. Has(1) /\ (IsInjective(F[1]) <=> Apart(1))
        BY <2>3, <3>1
      <3> HIDE DEF Has, Apart
      <3> QED BY <3>2
    <2>5. ASSUME NEW m \in Nat, m \in P PROVE m + 1 \in P
      <3> DEFINE k == m + 1
      <3>1. SUFFICES ASSUME k + 1 <= n
                     PROVE  Has(k + 1) /\ (IsInjective(F[k + 1]) <=> Apart(k + 1))
        <4> HIDE DEF Has, Apart
        <4> QED OBVIOUS
      <3>2. /\ k \in Nat /\ k + 1 \in 2..n /\ k + 1 \in 1..n /\ k \in 1..n
            /\ (k + 1) - 1 = k /\ k <= n /\ k + 1 \notin 1..k
            /\ 1..(k + 1) = 1..k \cup {k + 1}
        BY <2>1, <3>1
      <3>3. Has(k) /\ (IsInjective(F[k]) <=> Apart(k))
        BY <2>5, <3>2
      <3> HIDE DEF k
      <3>4. F[k + 1] = F[k] \o ss[k + 1] /\ F[k] \in Seq(T) /\ ss[k + 1] \in Seq(T)
        BY <2>1, <2>3, <3>2
      <3>5. /\ ToSet(F[k + 1]) = ToSet(F[k]) \cup ToSet(ss[k + 1])
            /\ IsInjective(F[k + 1]) <=>
                 /\ IsInjective(F[k]) /\ IsInjective(ss[k + 1])
                 /\ ToSet(F[k]) \cap ToSet(ss[k + 1]) = {}
        BY <3>4, ToSetConcat, InjectiveConcat
      <3>6. Has(k + 1)
        BY <3>2, <3>3, <3>5
      <3>7. ToSet(F[k]) \cap ToSet(ss[k + 1]) = {} <=>
               \A i \in 1..k : ToSet(ss[i]) \cap ToSet(ss[k + 1]) = {}
        BY <3>3
      <3>8. Apart(k + 1) <=>
              /\ Apart(k) /\ IsInjective(ss[k + 1])
              /\ \A i \in 1..k : ToSet(ss[i]) \cap ToSet(ss[k + 1]) = {}
        <4>1. Apart(k + 1) => /\ Apart(k) /\ IsInjective(ss[k + 1])
                              /\ \A i \in 1..k : ToSet(ss[i]) \cap ToSet(ss[k + 1]) = {}
          BY <3>2
        <4>2. ASSUME Apart(k), IsInjective(ss[k + 1]),
                     \A i \in 1..k : ToSet(ss[i]) \cap ToSet(ss[k + 1]) = {}
              PROVE  Apart(k + 1)
          <5>1. \A i \in 1..(k + 1) : IsInjective(ss[i])
            BY <3>2, <4>2
          <5>2. ASSUME NEW i \in 1..(k + 1), NEW j \in 1..(k + 1), i # j
                PROVE  ToSet(ss[i]) \cap ToSet(ss[j]) = {}
            BY <3>2, <4>2, <5>2
          <5> QED BY <5>1, <5>2
        <4> QED BY <4>1, <4>2
      <3> HIDE DEF Has, Apart
      <3> QED BY <3>3, <3>5, <3>6, <3>7, <3>8
    <2>6. n - 1 \in P /\ (n - 1) + 1 = n
      <3>1. Nat \subseteq P
        <4> HIDE DEF P
        <4> QED BY <2>4, <2>5, SetInduction
      <3>2. n - 1 \in Nat /\ (n - 1) + 1 = n
        BY <2>1
      <3> HIDE DEF P
      <3> QED BY <3>1, <3>2
    <2>7. Has(n) /\ (IsInjective(F[n]) <=> Apart(n))
      <3> HIDE DEF Has, Apart
      <3> QED BY <2>1, <2>6
    <2>8. F[n] \in Seq(T)
      BY <2>1, <2>3
    <2> QED BY <2>2, <2>7, <2>8 DEF n
  <1> QED BY <1>1, <1>2
=============================================================================
