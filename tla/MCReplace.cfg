SPECIFICATION Spec
CONSTANTS
    a = a
    b = b
    c = c
    aTmp = aTmp
    bTmp = bTmp
    Files = {a, b, c}
    Order <- Elsewhere
    Temp <- ElsewhereTemp
    Others = {aTmp, bTmp}
    Modes = {FALSE, TRUE}
    Systems <- AnySystem
INVARIANTS TypeOK NothingLost QuickLosesAtMostOne ReportIsExact
