SPECIFICATION Spec
CONSTANTS
    Procs = {p1}
    Lines = {root}
    FstabUnit = "fstab.swap"
    NativeUnits = {"zram.swap"}
    MaxFaults = 0
    MaxEdits = 0
    MaxReboots = 1
    MaxRuns = 2
INVARIANT SwapStaysOffAtBoot
CHECK_DEADLOCK FALSE
