SPECIFICATION Spec
CONSTANTS
    KeyOrder <- MCKeyOrder
    ModuleOrder <- MCModuleOrder
    Provider <- MCProvider
    NoModule = "none"
    BuiltIn = {}
    Values = {"default", "tuned"}
    Default <- MCDefault
    Profiles <- MCProfiles
    MaxFaults = 0
    MaxDisturbs = 0
    MaxEdits = 1
    MaxReboots = 0
INVARIANT SysctlRecheckIsNoOp
