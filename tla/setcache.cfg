SPECIFICATION Spec
CONSTANTS
    Id = {i, j}
    Reader = {r1, r2}
    MaxChange = 2
INVARIANTS AnswersLinearizable CacheInv
SYMMETRY Symmetry
