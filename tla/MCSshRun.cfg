SPECIFICATION FairSpec
CONSTANTS
    h1 = h1
    h2 = h2
    h3 = h3
    Hosts = {h1, h2, h3}
    HostLists <- Lists
    Options <- AnyOptions
    RetCap = 1
    SessionsFail = TRUE
    Responsive = {h2, h3}
INVARIANTS TypeOK NoSendAfterClose EveryHostReportedOnce CommandSuccessIsReal
PROPERTIES HealthyReported Terminates
