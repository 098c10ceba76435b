SPECIFICATION FairSpec
CONSTANTS
    Area = 7
    Speed = 2
    MaxLate = 3
    MaxSetBack = 4
    MaxSetBacks = 2
INVARIANT NeverFarOutside
PROPERTY ReachesWaypoint
