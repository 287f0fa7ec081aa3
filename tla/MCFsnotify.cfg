SPECIFICATION FairSpec
CONSTANTS
    log = log
    aux = aux
    tools = tools
    toolsX = toolsX
    dotSlash = dotSlash
    dot = dot
    dotX = dotX
    s1 = s1
    s2 = s2
    NoPath = NoPath
    Names <- MCNames
    Scripts <- MCScripts
    Clean <- MCClean
    Entries <- MCEntries
    Setups <- FileSetups
    MaxChanges = 5
INVARIANTS TypeOK OneGoroutinePerEntry
PROPERTIES FreshChangeRunsScript
