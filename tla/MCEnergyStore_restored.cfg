SPECIFICATION Spec
CONSTANTS
    W <- MCW
    MaxPower = 1
    B <- MCB
    K <- MCK
    RestartYields = FALSE
    MaxTime = 4
    MaxFailures = 1
INVARIANTS RestoredEnergyCounts
