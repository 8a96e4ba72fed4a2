SPECIFICATION Spec
CONSTANTS
    Callers = {c1, c2}
    Cells = {e1, e2}
    Places = {p1, p2}
    Grants = {g1, g2, g3}
    Absent = Absent
SYMMETRY Symmetry
INVARIANTS
    
    
    BarrierReaches
    Woken
    UsedAlone
    SearchesTrue
    TablesTrue
PROPERTIES
    ReleasedLast
    CoveredRecorded
    ActsOnChecked
CHECK_DEADLOCK FALSE
