---- MODULE MCHub ----
EXTENDS Hub, TLC

CONSTANTS c1, c2, hostA, hostB

\* The agents of two hosts, and an agent that connects twice, the second time while the
\* server still holds the first connection.
OneOfEachHost == (c1 :> hostA) @@ (c2 :> hostB)
TwoOfOneHost == (c1 :> hostA) @@ (c2 :> hostA)

====
