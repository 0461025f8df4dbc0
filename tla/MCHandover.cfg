SPECIFICATION FairSpec
CONSTANTS
    s1 = s1
    s2 = s2
    Sessions = {s1, s2}
    Modes = {"shared", "own"}
    MaxOut <- MCMaxOut
    MaxHot = 1
    MaxUpgrades = 2
INVARIANTS
    OutputKept
PROPERTIES
    NumbersNeverReused
    
    UpgradeCompletes
CHECK_DEADLOCK FALSE
