CONSTANTS
    Processes <- MCProcesses
    Units <- MCUnits
    Lags <- MCLags
    N = 2
    LapMod = 5
    NumWrites = 4
    StartSleep = 4
    ChildSleep = 2
    Leftovers = {0, 1}
SPECIFICATION Spec
INVARIANTS TypeOK Paced InStep
 
CHECK_DEADLOCK FALSE
