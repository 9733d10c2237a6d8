CONSTANTS
    Producers = {p1, p2}
    Consumers = {c1, c2}
    Size = 2
    Chars <- MCChars
    NoChar = NoChar

SPECIFICATION Spec

INVARIANTS
    TypeOK
    NoLostWakeup

PROPERTY
    ProConRefinement
