SPECIFICATION Spec
CONSTANTS
    n1 = n1
    n2 = n2
    n3 = n3
    v1 = v1
    v2 = v2
    null = null
    Nodes <- const_Nodes
    Values <- const_Values
    Nothing <- null
    MaxVisits = 4
SYMMETRY Symmetry
CHECK_DEADLOCK FALSE
INVARIANTS
    TypeOK
    WellLinked
    Ownership
    PlacesExact
    IterationComplete
PROPERTIES
    ImplementsDeque
