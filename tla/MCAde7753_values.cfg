SPECIFICATION Spec
CONSTANTS
    Samples <- MCSamples
    MaxFailures = 2
INVARIANTS
    TypeOK
    MeanOfRound
    TextFits
    RunsConfigured
