SPECIFICATION FairSpec
CONSTANTS
    h1 = h1
    h2 = h2
    Hosts = {h1, h2}
    ConnLists <- MCConnLists
    MaxCmds = 3
INVARIANTS TypeOK SuccessIsReal
PROPERTIES EveryCommandAnswered 
CHECK_DEADLOCK FALSE
