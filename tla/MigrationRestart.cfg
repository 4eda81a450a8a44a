SPECIFICATION Spec
CONSTANTS
    VMs = {v1}
    Layouts <- NewLayouts
    MaxStops = 1
INVARIANTS
    Restartable
