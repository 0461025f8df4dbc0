SPECIFICATION Spec
CONSTANTS
    Ids = {1, 2}
    Creator = 1
    Races = {"kill"}
INVARIANTS
    NothingRunsAfterClose
CHECK_DEADLOCK FALSE
