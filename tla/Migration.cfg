SPECIFICATION Spec
CONSTANTS
    VMs = {v1, v2}
    Layouts <- MCLayouts
    MaxStops = 2
INVARIANTS
    TypeOK
    InterfacesKept
    UpIsMigrated
    OnlyBrokenRecordsBlockBoot
    MigrationInv
CHECK_DEADLOCK FALSE
