SPECIFICATION FairSpec
CONSTANTS
    p = p  c = c  q = q  l1 = l1  l2 = l2
    Main = main
    Others = {}
    Loaders = {l1, l2}
    Resources <- MCResources
    Types = {1, 2, 3}
    TypeOf <- MCTypeOf
    Needs <- Nothing
    Kids <- ChildOfP
    Setups <- MainRequestsP
    MaxUnloads = 0
PROPERTIES RequestedGetsLoaded
