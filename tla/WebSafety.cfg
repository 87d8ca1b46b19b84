SPECIFICATION ServerFairSpec
CONSTANTS
    Runs = {r1, r2}
    Posts = {h1}
    Configs = {c1}
    DefaultConfig = default
    Nil = Nil
    Pages = {p1, p2}
    Unreliable = {p1}
INVARIANTS TypeOK RunningCanStop SavedIsUsed StarterShowsIt
PROPERTY StoppedEnds
