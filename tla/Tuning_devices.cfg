SPECIFICATION Spec
CONSTANTS
    Links <- MCLinks
    Hardware = {"ens5"}
    Files <- MCFiles
    Lacking <- MCLacking
    CpuCounts = {2, 36}
    CpuIds = 64
    Sizings <- MCSizings
    Configs <- MCConfigs
    MaxFaults = 1
    MaxDisturbs = 1
INVARIANTS TypeOK ApplyTunes IrqsSpread SettledRunUnchanged FailsOnlyForCause
    ThresholdsOrdered
PROPERTIES TouchesOnlyItsOwn GrowsWithInstance
