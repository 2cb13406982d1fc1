SPECIFICATION Spec
CONSTANTS
    W <- MCW
    MaxPower = 1
    B <- MCB
    K <- MCK
    RestartYields = TRUE
    MaxTime = 4
    MaxFailures = 1
INVARIANTS ResetSticks
