SPECIFICATION Spec
CONSTANTS
    p = p  c = c  q = q  l1 = l1  l2 = l2
    Main = main
    Others = {}
    Loaders = {l1}
    Resources <- MCResources
    Types = {1, 2, 3}
    TypeOf <- MCTypeOf
    Needs <- Nothing
    Kids <- Nothing
    Setups <- MainReloads
    MaxUnloads = 1
INVARIANTS RequestedIsPending
