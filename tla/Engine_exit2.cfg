SPECIFICATION Spec
CONSTANTS
    Procs = {"unit", "cli"}
    UnitProc = "unit"
    Settings = {"ok", "fallback", "factory"}
    Factory = "factory"
    Profiles <- MCProfiles
    Configs <- MCConfigs
    CliArgs <- MCCheckArgs
    InitHosts <- MCFactory
    Disturbable = {}
    MaxFaults = 0
    MaxDisturbs = 0
    MaxCliRuns = 1
    MaxReboots = 0
INVARIANT ExitTwoOnlyFromCheck
CHECK_DEADLOCK FALSE
