SPECIFICATION Spec
CONSTANTS
    Pages = 4
    Values <- LongAndShort
    MaxFailures = 1
INVARIANTS
    TypeOK
    ValuesStand
    LabelsStand
