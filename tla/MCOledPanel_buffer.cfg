SPECIFICATION Spec
CONSTANTS
    Pages = 8
    Values <- LongAndShort
    MaxFailures = 0
INVARIANT BufferIsPanel
