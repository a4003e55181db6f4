\* Both workflows, one relay board besides VisionCB's, two commits.
CONSTANTS
    Workflows = {visioncb, nucleo}
    VisionCB = visioncb
    MaxCommits = 2
    Ours = ours
    Others = {other}
    Serials = {qaamz, s1, s2}
    RelaySerial = qaamz
    MaxCycles = 2
SPECIFICATION FairSpec
INVARIANTS
    TypeOK
    OtherRelaysUntouched
    CycleIsReal
    CorruptSerialIsSurvived
    GreenIsTheRequestedRef
    NoStaleReport
PROPERTIES
    CycleEndsPowered
    JobEnds
