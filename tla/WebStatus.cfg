SPECIFICATION PageSpec
CONSTANTS
    Runs = {r1, r2}
    Posts = {h1}
    Configs = {c1}
    DefaultConfig = default
    Nil = Nil
    Pages = {p1}
    Unreliable = {}
INVARIANT StatusTruthful
