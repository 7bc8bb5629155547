SPECIFICATION FairSpec
CONSTANTS
    c1 = c1
    c2 = c2
    hostA = hostA
    hostB = hostB
    NoHost = NoHost
    NoConn = NoConn
    Conns = {c1, c2}
    Hosts = {hostA, hostB}
    ConnHost <- OneOfEachHost
    Named = {hostA}
    Handlers = {s1}
    SendSize = 1
    BroadcastSize = 1
INVARIANTS TypeOK HubNeverPanics LastHostForgotten
PROPERTIES LeavingConnectionLeaves DroppedConnectionCloses
CHECK_DEADLOCK FALSE
