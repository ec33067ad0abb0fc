SPECIFICATION TogetherSpec
CONSTANTS
    Director = director
    Enemies = {e1, e2}
    MaxEnemies = 1
    WaveSize = 2
    CorpseFrames = 1
    a = a  b = b
    Objects = {a, b, s1, s2}
    InScene = {a, b}
    Carrying = {b}
    ParentOf <- SceneParents
    NoParent = NoParent
    MayReselect = TRUE
    MaxCommands = 3
    p = p  c = c
    Main = main
    Loaders = {l1, l2}
    Opener = opener
    MaxUnloads = 1
INVARIANT NothingTwice
