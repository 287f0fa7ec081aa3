SPECIFICATION FairSpec
CONSTANTS
    h1 = h1
    h2 = h2
    Hosts = {h1, h2}
    Lists <- MCLists
    Actions = {"ping", "sum", "telnet", "other"}
    Count = 2
INVARIANTS TypeOK NoPhantomAnswers SocketInUseIsOpen
PROPERTIES EveryHostReported
