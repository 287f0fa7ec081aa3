SPECIFICATION Spec
CONSTANTS
    a = a
    b = b
    c = c
    missing = missing
    Services = {a, b, c}
    Names <- MCNames
    Configs <- ThreeConfigs
    MaxRestarts <- LastTwice
    SigBuf = 1
    PromptRestart = FALSE
    PromptTerm = FALSE
INVARIANTS TypeOK DependenciesStartFirst StopOrder NoOrphans StoppedTokenUnique
PROPERTIES ImplementsSupervisor
