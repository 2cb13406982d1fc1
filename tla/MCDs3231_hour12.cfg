SPECIFICATION Spec
CONSTANTS
    Times <- Instants
    Failing <- Cut
    Modes <- Hour12
PROPERTY ReadsTheTime
