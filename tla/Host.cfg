SPECIFICATION Spec
CONSTANTS
    Vpc = v
    Others = {w}
    Scenarios <- MCScenarios
    MaxFaults = 3
INVARIANTS
    TypeOK
    RunningIsWhole
    ExportedIsBacked
    Contained
    GoneLeavesNothing
    RefusedOnlyWhenHurt
    RunningIsServed
    AbandonedQemuQuits
    HostInv
