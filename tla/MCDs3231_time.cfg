SPECIFICATION Spec
CONSTANTS
    Times <- Instants
    Failing <- Cut
    Modes <- Hour24
INVARIANT TypeOK
PROPERTIES
    ReadsTheTime
    SetsTheTime
