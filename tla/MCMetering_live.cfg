SPECIFICATION LiveSpec
CONSTANTS
    Meters <- TwoMeters
    READS = 2
    QUEUE_LEN = 1
    MaxSample = 1
PROPERTIES KeepsSampling DisplayCatchesUp CloudCatchesUp
