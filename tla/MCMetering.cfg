CONSTANTS
    c1 = c1
    c2 = c2
    Containers = {c1, c2}
    Unit = 2
    MaxUse = 4
    MaxLives = 3
SYMMETRY Alike
SPECIFICATION Spec
INVARIANTS CountedOnce ReportSound
CHECK_DEADLOCK FALSE
