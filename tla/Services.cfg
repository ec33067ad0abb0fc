SPECIFICATION ServicesSpec
CONSTANTS
    Workers = {w1, w2}
    Main = main
    Callers = {main, other}
    NoTask = NoTask
    Tasks <- MCTasks
    MaxLoops = 2
    MaxIterations = 5
    Paths = {path}
    PathCallbacks = {c1, c2}
    MaxWrites = 2
    p = p  k = k  q = q  s = s  p1 = p1  p2 = p2  p3 = p3  k1 = k1  q1 = q1
    Objects <- MCObjects
    Components <- MCComponents
    Types = {1, 2}
    TypeOf <- MCTypeOf
    OwnerOf <- MCOwnerOf
    Kids <- MCKids
    Prefab <- MCPrefab
    Loaded <- MCLoaded
    Singletons <- MCSingletons
    MayBeOff <- MCMayBeOff
    UserOps = {"setActive", "componentSetActive", "addComponent", "clone", "destroy", "destroyComponent"}
    MaxCalls = 2
INVARIANTS ServicesTypeOK CounterIsExact OnePlace NothingRunsAfterJoin LambdasCounterAlive BeginsOnce CallsOnLiving ListsAgree
PROPERTIES WaitReturnsWhenDone KeepsPromise PushedTasksRun WaitTerminates StopReturns EachIndexOnce LoopReturns FirstSeesChanges ErasesDestroyed ActiveStarts DestroyedGoes
CHECK_DEADLOCK FALSE
