SPECIFICATION Spec
CONSTANTS
    c1 = c1
    c2 = c2
    hostA = hostA
    hostB = hostB
    NoHost = NoHost
    NoConn = NoConn
    Conns = {c1, c2}
    Hosts = {hostA}
    ConnHost <- TwoOfOneHost
    Named = {hostA}
    Handlers = {s1}
    SendSize = 1
    BroadcastSize = 1
PROPERTIES ReachableWhileConnected
CHECK_DEADLOCK FALSE
