---------------------------- MODULE EnemiesProofs ----------------------------
(***************************************************************************)
(* For any number of enemies, any maximum and any wave: the counter of the *)
(* PollingStationComponent never includes an enemy that is gone, and every *)
(* kill is reported at most once.                                          *)
(***************************************************************************)
EXTENDS Enemies, FiniteSetTheorems, TLAPS

(* Who still executes is in the level, a corpse is destroyed on time, and  *)
(* no kill was reported of an enemy that is not dead.                      *)
ExecutesSpawned == \A e \in Enemies : \A part \in {"base", "health"} :
    <<e, part>> \in toExecute => e \in Spawned

CorpseOnTime == \A e \in Enemies :
    /\ <<e, "health">> \in toExecute => deathTimer[e] <= CorpseFrames
    /\ deathTimer[e] > CorpseFrames => e \in doomed

NoEarlyReport == \A e \in Enemies : e \notin isDead => killEvents[e] = 0

IInv == EnemiesTypeOK /\ ExecutesSpawned /\ CorpseOnTime /\ NoEarlyReport /\ NeverOvercounted

(* Living enemies are finitely many.                                       *)
LEMMA LivingFinite == IsFiniteSet(Living)
  <1>1. Living \subseteq Enemies
    BY DEF Living, Present, Spawned
  <1> QED BY <1>1, EnemiesAssumption, FS_Subset

(* The number of living enemies is a natural number, and one fewer when an *)
(* enemy goes that was living.                                             *)
LEMMA LivingLess ==
    ASSUME NEW e, Living' = Living \ {e}
    PROVE  /\ Cardinality(Living) \in Nat /\ Cardinality(Living') \in Nat
           /\ Cardinality(Living') >= Cardinality(Living) - 1
  <1>1. /\ Cardinality(Living) \in Nat
        /\ Cardinality(Living \ {e}) =
             IF e \in Living THEN Cardinality(Living) - 1 ELSE Cardinality(Living)
    BY LivingFinite, FS_CardinalityType, FS_RemoveElement
  <1>2. Cardinality(Living \ {e}) \in Nat
    BY LivingFinite, FS_CardinalityType, FS_RemoveElement
  <1> QED BY <1>1, <1>2

LEMMA LivingSame ==
    ASSUME IInv, Living' = Living, numberOfEnemies' = numberOfEnemies
    PROVE  NeverOvercounted'
  <1>1. numberOfEnemies <= Cardinality(Living)
    BY DEF IInv, NeverOvercounted
  <1> QED BY <1>1 DEF NeverOvercounted

(* An enemy that goes takes at least itself out of the count.              *)
LEMMA CountedOut ==
    ASSUME NEW e, IInv, Living' = Living \ {e},
           numberOfEnemies' \in Int, numberOfEnemies' <= numberOfEnemies - 1
    PROVE  NeverOvercounted'
  <1>1. /\ Cardinality(Living) \in Nat /\ Cardinality(Living') \in Nat
        /\ Cardinality(Living') >= Cardinality(Living) - 1
    BY LivingLess
  <1>2. numberOfEnemies \in Int /\ numberOfEnemies <= Cardinality(Living)
    BY DEF IInv, EnemiesTypeOK, NeverOvercounted
  <1>3. numberOfEnemies' <= Cardinality(Living')
    BY <1>1, <1>2
  <1> QED BY <1>3 DEF NeverOvercounted

-----------------------------------------------------------------------------
LEMMA InitIInv == EnemiesInit => IInv
  <1> SUFFICES ASSUME EnemiesInit PROVE IInv
    OBVIOUS
  <1> USE EnemiesAssumption DEF EnemiesInit
  <1>1. EnemiesTypeOK
    BY DEF EnemiesTypeOK, Spawned, Kinds
  <1>2. ExecutesSpawned /\ CorpseOnTime /\ NoEarlyReport
    BY DEF ExecutesSpawned, CorpseOnTime, NoEarlyReport
  <1>3. NeverOvercounted
    <2>1. Living = {}
      BY DEF Living, Present, Spawned
    <2> QED BY <2>1, FS_EmptySet DEF NeverOvercounted
  <1> QED BY <1>1, <1>2, <1>3 DEF IInv

LEMMA StutterIInv == IInv /\ UNCHANGED enemiesVars => IInv'
  BY DEF IInv, EnemiesTypeOK, ExecutesSpawned, CorpseOnTime, NoEarlyReport, NeverOvercounted,
         Living, Present, Spawned, enemiesVars, bodies

LEMMA StartFrameIInv == IInv /\ StartFrame => IInv'
  <1> SUFFICES ASSUME IInv, StartFrame PROVE IInv'
    OBVIOUS
  <1> USE EnemiesAssumption DEF StartFrame, bodies
  <1>1. EnemiesTypeOK'
    BY DEF IInv, EnemiesTypeOK, Spawned, Present
  <1>2. ExecutesSpawned' /\ CorpseOnTime' /\ NoEarlyReport'
    BY DEF IInv, EnemiesTypeOK, ExecutesSpawned, CorpseOnTime, NoEarlyReport, Spawned, Present
  <1>3. Living' = Living
    BY DEF Living, Present, Spawned
  <1>4. NeverOvercounted'
    BY <1>3, LivingSame
  <1> QED BY <1>1, <1>2, <1>4 DEF IInv

LEMMA DirectorIInv == IInv /\ DirectorExecute => IInv'
  <1> SUFFICES ASSUME IInv, DirectorExecute PROVE IInv'
    OBVIOUS
  <1> USE EnemiesAssumption
  <1>1. PICK wave \in SUBSET (Enemies \ Spawned) : SpawnWave(wave)
    BY DEF DirectorExecute
  <1>2. PICK drawn \in [wave -> Kinds] :
            kind' = [e \in Enemies |-> IF e \in wave THEN drawn[e] ELSE kind[e]]
    BY <1>1 DEF SpawnWave
  <1>3. Spawned' = Spawned \cup wave
    BY <1>1, <1>2 DEF Spawned, Kinds
  <1>4. IsFiniteSet(wave) /\ Cardinality(wave) \in Nat
    <2>1. wave \subseteq Enemies
      OBVIOUS
    <2> QED BY <2>1, FS_Subset, FS_CardinalityType
  <1>5. EnemiesTypeOK'
    BY <1>1, <1>2, <1>3, <1>4 DEF IInv, EnemiesTypeOK, DirectorExecute, SpawnWave, bodies
  <1>6. ExecutesSpawned' /\ CorpseOnTime' /\ NoEarlyReport'
    BY <1>3 DEF IInv, ExecutesSpawned, CorpseOnTime, NoEarlyReport, DirectorExecute, bodies
  <1>7. NeverOvercounted'
    <2>1. Living' = Living \cup wave /\ Living \cap wave = {}
      BY <1>3 DEF IInv, EnemiesTypeOK, Living, Present, DirectorExecute, bodies
    <2>2. Cardinality(Living') = Cardinality(Living) + Cardinality(wave)
      BY <2>1, <1>4, LivingFinite, FS_Union, FS_EmptySet, FS_CardinalityType
    <2>3. Cardinality(Living) \in Nat
      BY LivingFinite, FS_CardinalityType
    <2> QED BY <1>1, <1>4, <2>2, <2>3 DEF IInv, EnemiesTypeOK, NeverOvercounted, SpawnWave
  <1> QED BY <1>5, <1>6, <1>7 DEF IInv

LEMMA EmittersIInv == IInv /\ (DisableAllWaveEmitters \/ EnableEnemiesSpawning) => IInv'
  BY DEF DisableAllWaveEmitters, EnableEnemiesSpawning, IInv, EnemiesTypeOK, ExecutesSpawned,
         CorpseOnTime, NoEarlyReport, NeverOvercounted, Living, Present, Spawned, bodies

LEMMA TakeLastHealthIInv ==
    ASSUME NEW e \in Enemies, IInv, TakeLastHealth(e)
    PROVE  IInv'
  <1> USE EnemiesAssumption
  <1>1. CASE e \in isDead
    <2> USE <1>1 DEF TakeLastHealth, OnDeathReturns
    <2>1. EnemiesTypeOK'
      BY DEF IInv, EnemiesTypeOK, Spawned
    <2>2. ExecutesSpawned' /\ CorpseOnTime' /\ NoEarlyReport'
      BY DEF IInv, ExecutesSpawned, CorpseOnTime, NoEarlyReport, Spawned
    <2>3. Living' = Living
      BY DEF Living, Present, Spawned
    <2> QED BY <2>1, <2>2, <2>3, LivingSame DEF IInv
  <1>2. CASE e \notin isDead
    <2> USE <1>2 DEF TakeLastHealth, OnDeathReturns, OnDeath
    <2>0. CountedByDeath(e) \in {1, 2} /\ doomed \subseteq doomed' /\ doomed' \subseteq doomed \cup {e}
      BY DEF CountedByDeath
    <2>1. EnemiesTypeOK'
      BY <2>0 DEF IInv, EnemiesTypeOK, Spawned, Present
    <2>2. ExecutesSpawned' /\ CorpseOnTime' /\ NoEarlyReport'
      BY <2>0 DEF IInv, EnemiesTypeOK, ExecutesSpawned, CorpseOnTime, NoEarlyReport, Spawned
    <2>3. Living' = Living \ {e}
      BY <2>0 DEF Living, Present, Spawned
    <2>4. numberOfEnemies' \in Int /\ numberOfEnemies' <= numberOfEnemies - 1
      BY <2>0 DEF IInv, EnemiesTypeOK
    <2>5. NeverOvercounted'
      BY <2>3, <2>4, CountedOut
    <2> QED BY <2>1, <2>2, <2>5 DEF IInv
  <1> QED BY <1>1, <1>2

LEMMA HealthExecuteIInv ==
    ASSUME NEW e \in Enemies, IInv, HealthExecute(e)
    PROVE  IInv'
  <1> USE EnemiesAssumption DEF HealthExecute, Decays
  <1>1. /\ doomed \subseteq doomed' /\ doomed' \subseteq doomed \cup (isDead \cap {e})
        /\ toExecute' \subseteq toExecute
    OBVIOUS
  <1>2. EnemiesTypeOK'
    BY <1>1 DEF IInv, EnemiesTypeOK, CorpseOnTime, Spawned
  <1>3. ExecutesSpawned' /\ NoEarlyReport'
    BY <1>1 DEF IInv, ExecutesSpawned, NoEarlyReport, Spawned
  <1>4. CorpseOnTime'
    <2>1. ASSUME NEW x \in Enemies, x # e
          PROVE  /\ <<x, "health">> \in toExecute => deathTimer'[x] <= CorpseFrames
                 /\ deathTimer'[x] > CorpseFrames => x \in doomed'
      BY <1>1, <2>1 DEF IInv, EnemiesTypeOK, CorpseOnTime
    <2>2. deathTimer[e] \in Int /\ deathTimer[e] <= CorpseFrames
      BY DEF IInv, EnemiesTypeOK, CorpseOnTime
    <2>3. <<e, "health">> \notin toExecute'
      OBVIOUS
    <2>4. deathTimer'[e] > CorpseFrames => e \in doomed'
      <3>1. CASE e \in isDead
        BY <2>2, <3>1 DEF IInv, EnemiesTypeOK
      <3>2. CASE e \notin isDead
        BY <2>2, <3>2
      <3> QED BY <3>1, <3>2
    <2> QED BY <1>1, <2>1, <2>3, <2>4 DEF CorpseOnTime
  <1>5. Living' = Living
    BY <1>1 DEF Living, Present, Spawned
  <1> QED BY <1>2, <1>3, <1>4, <1>5, LivingSame DEF IInv

(* Whatever far and near, an Execute that changes anything counts the      *)
(* enemy out and leaves it dead or destroyed.                              *)
LEMMA BaseExecuteIInv ==
    ASSUME NEW e \in Enemies, IInv, BaseExecute(e)
    PROVE  IInv'
  <1> USE EnemiesAssumption
  <1>0. e \in Spawned /\ toExecute' \subseteq toExecute
    BY DEF IInv, ExecutesSpawned, BaseExecute
  <1>1. PICK far \in BOOLEAN, near \in BOOLEAN :
          /\ numberOfEnemies' = (IF far THEN DespawnCount ELSE numberOfEnemies) - (IF near THEN 1 ELSE 0)
          /\ doomed' = (IF far THEN Despawned(e) ELSE doomed) \cup (IF near THEN {e} ELSE {})
          /\ IF near THEN BlowUp(e) ELSE UNCHANGED <<zeroHealth, isDead, killEvents>>
    BY DEF BaseExecute
  <1>2. UNCHANGED <<waves, kind, removed, deathTimer>>
    BY DEF BaseExecute
  <1>3. /\ doomed \subseteq doomed' /\ doomed' \subseteq doomed \cup {e}
        /\ isDead \subseteq isDead' /\ isDead' \subseteq isDead \cup {e}
        /\ zeroHealth' \subseteq zeroHealth \cup {e}
        /\ killEvents' = killEvents
    BY <1>1 DEF BlowUp, Despawned, OnDeathReturns, IInv, EnemiesTypeOK
  <1>4. numberOfEnemies' \in Int
    BY <1>1 DEF DespawnCount, IInv, EnemiesTypeOK
  <1>5. EnemiesTypeOK'
    BY <1>0, <1>2, <1>3, <1>4 DEF IInv, EnemiesTypeOK, Spawned
  <1>6. ExecutesSpawned' /\ CorpseOnTime' /\ NoEarlyReport'
    BY <1>0, <1>2, <1>3 DEF IInv, ExecutesSpawned, CorpseOnTime, NoEarlyReport, Spawned
  <1>7. NeverOvercounted'
    <2>1. CASE far \/ near
      <3>1. e \in isDead' \cup doomed'
        BY <2>1, <1>1, <1>3 DEF Despawned, IgnoresDespawn, BlowUp
      <3>2. Living' = Living \ {e}
        BY <3>1, <1>2, <1>3 DEF Living, Present, Spawned
      <3>3. numberOfEnemies' <= numberOfEnemies - 1
        BY <2>1, <1>1 DEF DespawnCount, IInv, EnemiesTypeOK
      <3> QED BY <3>2, <3>3, <1>4, CountedOut
    <2>2. CASE ~(far \/ near)
      <3>1. UNCHANGED <<numberOfEnemies, doomed, isDead>>
        BY <2>2, <1>1 DEF IInv, EnemiesTypeOK
      <3>2. Living' = Living
        BY <3>1, <1>2 DEF Living, Present, Spawned
      <3> QED BY <3>1, <3>2, LivingSame
    <2> QED BY <2>1, <2>2
  <1> QED BY <1>5, <1>6, <1>7 DEF IInv

LEMMA NextIInv == IInv /\ [EnemiesNext]_enemiesVars => IInv'
  <1> SUFFICES ASSUME IInv, [EnemiesNext]_enemiesVars PROVE IInv'
    OBVIOUS
  <1>1. CASE StartFrame
    BY <1>1, StartFrameIInv
  <1>2. CASE DirectorExecute
    BY <1>2, DirectorIInv
  <1>3. CASE \E e \in Enemies : HealthExecute(e) \/ BaseExecute(e)
    BY <1>3, HealthExecuteIInv, BaseExecuteIInv
  <1>4. CASE DisableAllWaveEmitters \/ EnableEnemiesSpawning
    BY <1>4, EmittersIInv
  <1>5. CASE \E e \in Enemies : TakeLastHealth(e)
    BY <1>5, TakeLastHealthIInv
  <1>6. CASE UNCHANGED enemiesVars
    BY <1>6, StutterIInv
  <1> QED BY <1>1, <1>2, <1>3, <1>4, <1>5, <1>6 DEF EnemiesNext, Frame

LEMMA SpecIInv == EnemiesSpec => []IInv
  <1> QED BY InitIInv, NextIInv, PTL DEF EnemiesSpec

-----------------------------------------------------------------------------
(* All variables keep their types: in particular no object that was never  *)
(* spawned dies or is destroyed, and a corpse does not outlive its timer.  *)
THEOREM EnemiesTyped == EnemiesSpec => []EnemiesTypeOK
  <1>1. IInv => EnemiesTypeOK
    BY DEF IInv
  <1> QED BY <1>1, SpecIInv, PTL

(* AIDirector::SpawnWave never holds back a wave because of enemies that   *)
(* are dead or despawned already.                                          *)
THEOREM CounterNeverTooHigh == EnemiesSpec => []NeverOvercounted
  <1>1. IInv => NeverOvercounted
    BY DEF IInv
  <1> QED BY <1>1, SpecIInv, PTL

(* EnemyHealth::OnDeath posts one OnEnemyKill for each enemy, whatever     *)
(* death function, despawning and corpse do before or after it.            *)
THEOREM KillsReportedOnce == EnemiesSpec => ReportedOnce
  <1> DEFINE Reports == \A e \in Enemies : killEvents'[e] # killEvents[e] =>
                            e \notin isDead /\ killEvents'[e] = 1 /\ UNCHANGED toExecute
  <1>1. IInv /\ [EnemiesNext]_enemiesVars => [Reports]_enemiesVars
    <2> SUFFICES ASSUME IInv, EnemiesNext PROVE Reports
      OBVIOUS
    <2>1. CASE UNCHANGED killEvents
      BY <2>1
    <2>2. ASSUME NEW e \in Enemies, TakeLastHealth(e) PROVE Reports
      <3>1. CASE e \in isDead
        BY <2>2, <3>1 DEF TakeLastHealth, OnDeathReturns
      <3>2. CASE e \notin isDead
        BY <2>2, <3>2 DEF TakeLastHealth, OnDeathReturns, OnDeath, IInv, EnemiesTypeOK, NoEarlyReport
      <3> QED BY <3>1, <3>2
    <2>3. ASSUME NEW e \in Enemies, BaseExecute(e) PROVE UNCHANGED killEvents
      <3>1. BlowUp(e) => UNCHANGED killEvents
        BY DEF BlowUp, OnDeathReturns, IInv, EnemiesTypeOK
      <3> QED BY <2>3, <3>1 DEF BaseExecute
    <2> QED
      BY <2>1, <2>2, <2>3 DEF EnemiesNext, Frame, StartFrame, DirectorExecute, HealthExecute,
         DisableAllWaveEmitters, EnableEnemiesSpawning, bodies
  <1> QED BY <1>1, SpecIInv, PTL DEF EnemiesSpec, ReportedOnce
=============================================================================
