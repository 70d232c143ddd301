CONSTANTS
    Stations <- MCStations
    QueueDepth = 2
    MaxSwitches = 4
    r1 = r1
    o1 = o1
    Recurring = {r1}
    OneShot = {o1}
    Recipes = 1
    MaxSequence = 2
SPECIFICATION MCSpec
PROPERTY HeldMessageResumes
CHECK_DEADLOCK FALSE
