SPECIFICATION Spec
CONSTANTS
    KeyOrder <- MCKeyOrder
    ModuleOrder <- MCModuleOrder
    Provider <- MCProvider
    NoModule = "none"
    BuiltIn = {"vxlan"}
    Values = {"default", "tuned"}
    Default <- MCDefault
    Profiles <- MCProfiles
    MaxFaults = 2
    MaxDisturbs = 2
    MaxEdits = 1
    MaxReboots = 2
INVARIANTS TypeOK TwoAppliesConverge SurvivesReboot
