SPECIFICATION FairSpec
CONSTANTS
    Configs <- MCConfigs
    Word = 256
CHECK_DEADLOCK FALSE
INVARIANTS
    KeysInRange
    AllKeysTouched
    Verified
PROPERTIES
    Ends
