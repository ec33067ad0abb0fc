SPECIFICATION Spec
CONSTANTS
    p = p  c = c  q = q  l1 = l1  l2 = l2
    Main = main
    Others = {opener}
    Loaders = {l1}
    Resources <- MCResources
    Types = {1, 2, 3}
    TypeOf <- MCTypeOf
    Needs <- Nothing
    Kids <- Nothing
    Setups <- OpenedMeanwhile
    MaxUnloads = 0
INVARIANTS ValidAtRest
