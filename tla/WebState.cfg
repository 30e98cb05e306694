CONSTANTS
    c1 = c1
    c2 = c2
    w1 = w1
    w2 = w2
    Writers = {c1, c2}
    Readers = {w1, w2}
    MaxStores = 3
    MaxDraws = 2
    MaxMarks = 1
SPECIFICATION WebSpec
CHECK_DEADLOCK FALSE
SYMMETRY Symmetric
INVARIANTS
    WebInv
    AnswerCurrent
