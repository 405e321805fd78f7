SPECIFICATION Spec
CONSTANTS
    Links <- MCLinks
    Hardware = {"ens5"}
    Files <- MCFiles
    Lacking <- MCLacking
    CpuCounts = {2}
    CpuIds = 64
    Sizings <- MCSizings
    Configs <- MCConfigs
    MaxFaults = 0
    MaxDisturbs = 0
INVARIANT OverridesAreHighest
