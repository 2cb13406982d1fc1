SPECIFICATION UplinkLiveSpec
CONSTANTS
    MaxEvents = 3
    MaxLosses = 2
    MaxOutages = 1
INVARIANTS
    UplinkTypeOK
    FlagSettles
    NeverParked
    NeverAborts
PROPERTIES
    Reconnects
    SmartconfigEnds
    NeverSilent
    CloudResumes
