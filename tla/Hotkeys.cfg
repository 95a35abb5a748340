SPECIFICATION FairSpec
CONSTANTS
    Configs <- MCConfigs
    Delay = 2
    TapMax = 1
    Interval = 1
    MaxLag = 1
    MaxQueue = 1
    MaxLost = 1
INVARIANTS TypeOK
PROPERTIES DownOpensOnce HoldIsNotCut ToggleIsDoubleTap HoldEnds
