SPECIFICATION Spec
CONSTANTS
    Callers = {p1, p2}
    Contents = {old, new}
    NoFile = NoFile
    Torn = Torn
    NoTemp = NoTemp
    MaxFaults = 2
    MaxEdits = 1
INVARIANTS TypeOK OnlyPowerLossTears NoTempLeft
PROPERTY ImplementsRegister
