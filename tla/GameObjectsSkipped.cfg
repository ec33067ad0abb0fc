SPECIFICATION ObjectsSpec
CONSTANTS
    p = p  k = k  q = q  s = s  p1 = p1  p2 = p2  p3 = p3  k1 = k1  q1 = q1
    Objects <- MCObjects
    Components <- MCComponents
    Types = {1, 2}
    TypeOf <- MCTypeOf
    OwnerOf <- MCOwnerOf
    Kids <- MCKids
    Prefab <- MCPrefab
    Loaded <- MCLoaded
    Singletons <- MCSingletons
    MayBeOff <- MCMayBeOff
    UserOps = {"componentSetActive"}
    MaxCalls = 1
INVARIANTS StartedTogether
