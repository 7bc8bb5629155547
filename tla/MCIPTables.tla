---- MODULE MCIPTables ----
EXTENDS IPTablesManager

CONSTANTS ip1, ip2

MCIPs == {ip1, ip2}
MCTTLs == {1, 2}

====
