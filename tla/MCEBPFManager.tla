---- MODULE MCEBPFManager ----
EXTENDS EBPFManager

CONSTANTS ip1, ip2      \* two addresses, each the other one backwards

MCIPs == {ip1, ip2}
MCSwapped == [ip \in MCIPs |-> IF ip = ip1 THEN ip2 ELSE ip1]
MCSame == [ip \in MCIPs |-> ip]   \* addresses that read the same both ways
MCServers == {ip1}

====
