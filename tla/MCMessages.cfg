SPECIFICATION MCSpec
CONSTANTS
    RingSize = 33
    Words <- const_Words
    Shorts <- const_Shorts
    Powers <- const_Powers
    Times <- const_Times
    Instants <- const_Instants
    Reported <- const_Reported
    Samples <- const_Samples
INVARIANTS
    TypeOK
    Faithful
    Understood
    PowerKept
    ElapsedNeverShort
