SPECIFICATION FairSpec
CONSTANTS
    Procs = {"unit", "cli"}
    UnitProc = "unit"
    Settings = {"ok", "fallback", "factory"}
    Factory = "factory"
    Profiles <- MCFullProfile
    Configs <- MCPlain
    CliArgs <- MCApplyArgs
    InitHosts <- MCBootHosts
    Disturbable = {"irq-affinity"}
    MaxFaults = 1
    MaxDisturbs = 0
    MaxCliRuns = 1
    MaxReboots = 1
PROPERTY UnitSettles
CHECK_DEADLOCK FALSE
