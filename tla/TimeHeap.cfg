SPECIFICATION Spec
CONSTANTS
    Items = {a, b, c, d, e, f}
    Times = {0, 1}
    NoItem = NoItem
SYMMETRY ItemSymmetry
INVARIANTS TypeOK IndexConsistent HeadIsEarliest
PROPERTY PopsEarliest
