SPECIFICATION Spec
CONSTANTS
    a = a
    b = b
    c = c
    missing = missing
    Services = {a, b}
    Names <- MCNames
    Configs <- ChainConfigs
    MaxRestarts <- TwiceEach
    SigBuf = 1
    PromptRestart = TRUE
    PromptTerm = TRUE
INVARIANTS TermBeforeKill
