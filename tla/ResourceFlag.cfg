SPECIFICATION Spec
CONSTANTS
    p = p  c = c  q = q  l1 = l1  l2 = l2
    Main = main
    Others = {}
    Loaders = {l1, l2}
    Resources <- MCResources
    Types = {1, 2, 3}
    TypeOf <- MCTypeOf
    Needs <- NeedOfP
    Kids <- ChildOfP
    Setups <- Requesting
    MaxUnloads = 0
PROPERTIES FlagMeansAllLoaded
CHECK_DEADLOCK FALSE
