------------------------------- MODULE Enemies -------------------------------
(***************************************************************************)
(* Game/AI: the enemies of a level and the counter of them that the        *)
(* PollingStationComponent keeps.  The AIDirector spawns waves while the   *)
(* counter is below its maximum; an enemy leaves the count when it is      *)
(* killed, blows itself up, or is despawned too far from the player.       *)
(*                                                                         *)
(* One action is the Execute of one component in a frame of the main       *)
(* thread, or a hit that some other component deals.  Objects destroyed in *)
(* a frame are removed at the start of the next one (see GameObjects), and *)
(* run until then.                                                         *)
(***************************************************************************)
EXTENDS Integers, FiniteSets

CONSTANTS
    Director,       \* the AIDirector of the level
    Enemies,        \* the enemies that can be spawned, each once
    MaxEnemies,     \* myMaxNumberOfEnemies
    WaveSize,       \* bound: how many enemies the value of a wave can buy
    CorpseFrames    \* bound: how many frames myDeathDuration takes

Kinds == {"walker", "flyer", "runner", "tank"}

ASSUME EnemiesAssumption ==
    /\ Director \notin Enemies /\ IsFiniteSet(Enemies)
    /\ MaxEnemies \in Nat /\ WaveSize \in Nat /\ CorpseFrames \in Nat

VARIABLES
    numberOfEnemies,    \* myNumberOfEnemies
    waves,              \* which emitters may be active: "tiers", "none", "boss"
    kind,               \* of the prefab of each enemy, "none" before it spawns
    removed,            \* enemies erased from the scene
    zeroHealth,         \* hp of the HealthComponent is 0
    isDead,             \* "IsDead" on the blackboard
    doomed,             \* myIsDestroyed of the object
    deathTimer,         \* myDeathTimer in frames
    toExecute,          \* components that have not run in this frame yet
    killEvents          \* how often OnEnemyKill was posted for each

bodies == <<zeroHealth, isDead, doomed, killEvents>>
enemiesVars == <<numberOfEnemies, waves, kind, removed, bodies, deathTimer, toExecute>>

Spawned == {e \in Enemies : kind[e] # "none"}
Present == Spawned \ removed
Living == Present \ (isDead \cup doomed)

EnemiesInit ==
    /\ numberOfEnemies = 0
    /\ waves = "tiers"
    /\ kind = [e \in Enemies |-> "none"]
    /\ removed = {}
    /\ zeroHealth = {} /\ isDead = {} /\ doomed = {}
    /\ deathTimer = [e \in Enemies |-> 0]
    /\ toExecute = {}
    /\ killEvents = [e \in Enemies |-> 0]

-----------------------------------------------------------------------------
(* A new frame: erase what was destroyed, then execute every component.    *)
StartFrame ==
    /\ toExecute = {}
    /\ removed' = removed \cup (Present \cap doomed)
    /\ toExecute' = {<<Director, "base">>} \cup (Present \ doomed) \X {"base", "health"}
    /\ UNCHANGED <<numberOfEnemies, waves, kind, bodies, deathTimer>>

MayFill == numberOfEnemies < MaxEnemies

(* AIDirector::Update: a timer may be due, and its wave is spawned unless  *)
(* the level is full.  The wave itself is not cut at the maximum; rays     *)
(* that miss the ground and unlucky draws make it smaller.                 *)
SpawnWave(wave) ==
    /\ wave # {} => waves # "none" /\ MayFill
    /\ Cardinality(wave) <= WaveSize
    /\ \E drawn \in [wave -> Kinds] :
          kind' = [e \in Enemies |-> IF e \in wave THEN drawn[e] ELSE kind[e]]
    /\ numberOfEnemies' = numberOfEnemies + Cardinality(wave)

DirectorExecute ==
    /\ <<Director, "base">> \in toExecute
    /\ \E wave \in SUBSET (Enemies \ Spawned) : SpawnWave(wave)
    /\ toExecute' = toExecute \ {<<Director, "base">>}
    /\ UNCHANGED <<waves, removed, bodies, deathTimer>>

(* A level boss that dies disables the emitters of the tiers; the final    *)
(* boss brings emitters of its own.                                        *)
DisableAllWaveEmitters ==
    /\ waves = "tiers"
    /\ waves' = "none"
    /\ UNCHANGED <<numberOfEnemies, kind, removed, bodies, deathTimer, toExecute>>

EnableEnemiesSpawning ==
    /\ waves # "boss"
    /\ waves' = "boss"
    /\ UNCHANGED <<numberOfEnemies, kind, removed, bodies, deathTimer, toExecute>>

-----------------------------------------------------------------------------
(* What is left of an enemy that dies: a runner's death function destroys  *)
(* it, OnDeath destroys an enemy that explodes, others leave a corpse.     *)
DoomedByDeath(e) == kind[e] \in {"runner", "flyer"}

(* How often the counter goes down when OnDeath runs: once by itself, and  *)
(* once more in the death function of a runner.                            *)
CountedByDeath(e) == IF kind[e] = "runner" THEN 2 ELSE 1

(* HealthComponent::ApplyDamage that takes the last hp, with the death     *)
(* observer EnemyHealth::OnDeath.                                          *)
OnDeathReturnsBug(e) == FALSE
OnDeathReturns(e) == e \in isDead

OnDeath(e) ==
    /\ numberOfEnemies' = numberOfEnemies - CountedByDeath(e)
    /\ killEvents' = [killEvents EXCEPT ![e] = @ + 1]
    /\ isDead' = isDead \cup {e}
    /\ doomed' = IF DoomedByDeath(e) THEN doomed \cup {e} ELSE doomed

TakeLastHealth(e) ==
    /\ e \in Present \ zeroHealth
    /\ zeroHealth' = zeroHealth \cup {e}
    /\ IF OnDeathReturns(e)
       THEN UNCHANGED <<numberOfEnemies, killEvents, isDead, doomed>>
       ELSE OnDeath(e)
    /\ UNCHANGED <<waves, kind, removed, deathTimer, toExecute>>

-----------------------------------------------------------------------------
(* EnemyHealth::Execute: the corpse is destroyed in time.                  *)
DecaysBug(e) == e \in isDead /\ kind[e] # "tank"
Decays(e) == e \in isDead

HealthExecute(e) ==
    /\ <<e, "health">> \in toExecute
    /\ toExecute' = toExecute \ {<<e, "health">>}
    /\ IF Decays(e)
       THEN /\ deathTimer' = [deathTimer EXCEPT ![e] = @ + 1]
            /\ doomed' = IF deathTimer[e] = CorpseFrames THEN doomed \cup {e} ELSE doomed
       ELSE UNCHANGED <<deathTimer, doomed>>
    /\ UNCHANGED <<numberOfEnemies, waves, kind, removed, zeroHealth, isDead, killEvents>>

(* EnemyBase::CheckIfToFarFromPlayer of an enemy, dead or not, that is far *)
(* away and out of sight.  A tank that is dead ignores its despawn         *)
(* function; the counter goes down all the same.                           *)
IgnoresDespawn(e) == kind[e] = "tank" /\ e \in isDead
Despawned(e) == IF IgnoresDespawn(e) THEN doomed ELSE doomed \cup {e}

DespawnCountBug == numberOfEnemies
DespawnCount == numberOfEnemies - 1

(* The behaviour tree of a runner next to the player calls its death       *)
(* function.  OnDeath then finds the runner dead already.                  *)
BlowUp(e) ==
    /\ kind[e] = "runner" /\ e \notin isDead
    /\ isDead' = isDead \cup {e}
    /\ zeroHealth' = zeroHealth \cup {e}
    /\ killEvents' = [killEvents EXCEPT ![e] = IF OnDeathReturns(e)' THEN @ ELSE @ + 1]

(* One Execute of an enemy looks first whether it is too far, then runs    *)
(* the behaviour tree.  A despawned runner is not dead and may blow up     *)
(* in the same Execute: it is counted down by each.                        *)
BaseExecute(e) ==
    /\ <<e, "base">> \in toExecute
    /\ toExecute' = toExecute \ {<<e, "base">>}
    /\ \E far, near \in BOOLEAN :
          /\ numberOfEnemies' = (IF far THEN DespawnCount ELSE numberOfEnemies) - (IF near THEN 1 ELSE 0)
          /\ doomed' = (IF far THEN Despawned(e) ELSE doomed) \cup (IF near THEN {e} ELSE {})
          /\ IF near THEN BlowUp(e) ELSE UNCHANGED <<zeroHealth, isDead, killEvents>>
    /\ UNCHANGED <<waves, kind, removed, deathTimer>>

-----------------------------------------------------------------------------
Frame ==
    \/ StartFrame \/ DirectorExecute
    \/ \E e \in Enemies : HealthExecute(e) \/ BaseExecute(e)

EnemiesNext ==
    \/ Frame
    \/ DisableAllWaveEmitters \/ EnableEnemiesSpawning
    \/ \E e \in Enemies : TakeLastHealth(e)

(* The main thread goes on with its frames.                                *)
EnemiesSpec == EnemiesInit /\ [][EnemiesNext]_enemiesVars /\ WF_enemiesVars(Frame)

-----------------------------------------------------------------------------
EnemiesTypeOK ==
    /\ numberOfEnemies \in Int
    /\ waves \in {"tiers", "none", "boss"}
    /\ kind \in [Enemies -> Kinds \cup {"none"}]
    /\ removed \subseteq Spawned
    /\ zeroHealth \cup isDead \cup doomed \subseteq Spawned
    /\ deathTimer \in [Enemies -> 0..(CorpseFrames + 1)]
    /\ toExecute \subseteq ({Director} \cup Enemies) \X {"base", "health"}
    /\ killEvents \in [Enemies -> Nat]

(* The counter never includes an enemy that is dead or despawned: enemies  *)
(* that are gone cannot keep the next waves away.                          *)
NeverOvercounted == numberOfEnemies <= Cardinality(Living)

(* A kill is reported to the items at most once for each enemy, and never  *)
(* for a runner that blew itself up: a report is the step that kills.      *)
ReportedOnce ==
    [][\A e \in Enemies : killEvents'[e] # killEvents[e] =>
         e \notin isDead /\ killEvents'[e] = 1 /\ UNCHANGED toExecute]_enemiesVars

(* A dead enemy leaves the scene, whatever its despawn function does.      *)
DeadLeave == \A e \in Enemies : e \in isDead ~> e \in removed
=============================================================================
