SPECIFICATION Spec
CONSTANTS
    Pids = {1, 2}
    Ports = {443, 4444}
    Inodes = {1749, 1750}
    MaxSteps = 3
CHECK_DEADLOCK FALSE
INVARIANT OwnerIsFound
