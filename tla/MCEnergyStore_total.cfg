SPECIFICATION LiveSpec
CONSTANTS
    W <- MCW
    MaxPower = 2
    B <- MCB
    K <- MCK
    RestartYields = FALSE
    MaxTime = 5
    MaxFailures = 1
INVARIANTS TypeOK NeverOverBills SavedNotAhead ResetSticks
PROPERTIES PressRestarts
