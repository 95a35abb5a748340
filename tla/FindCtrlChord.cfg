SPECIFICATION TypingSpec
CONSTANTS
    Configs <- ChordConfigs
    Delay = 2
    TapMax = 1
    Interval = 1
    MaxLag = 1
    MaxQueue = 1
    MaxLost = 0
PROPERTIES TypingIsNoTap
