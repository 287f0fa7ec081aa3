SPECIFICATION Spec
CONSTANTS
    h1 = h1
    h2 = h2
    h3 = h3
    Hosts = {h1}
    HostLists <- OneHost
    Options <- FileOptions
    RetCap = 1
    SessionsFail = FALSE
    Responsive = {}
INVARIANTS FileSuccessIsReal
