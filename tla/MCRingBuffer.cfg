SPECIFICATION Spec
CONSTANTS
    Size = 4
    Turns = 2
    Requests <- const_Requests
    MaxBytes = 12
INVARIANTS
    TypeOK
    IInv
    NoRace
    GotInOrder
    LenExact
PROPERTIES
    ImplementsFifo
