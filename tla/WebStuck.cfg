SPECIFICATION PageFairSpec
CONSTANTS
    Runs = {r1, r2}
    Posts = {}
    Configs = {c1}
    DefaultConfig = default
    Nil = Nil
    Pages = {p1}
    Unreliable = {}
PROPERTY PageRecovers
