SPECIFICATION Spec
CONSTANTS
    Meters <- TwoMeters
    READS = 1
    QUEUE_LEN = 2
    MaxSample = 2
INVARIANTS TypeOK SpiExclusive InOrder
PROPERTIES DisplayFeedSpec CloudFeedSpec
