---- MODULE MCConfigServer ----
EXTENDS ConfigServer, TLC

Symmetric == Permutations(Requests) \cup Permutations(ConfigIds) \cup Permutations(HostIds)

====
