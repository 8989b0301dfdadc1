---- MODULE MCUtpNetwork ----
EXTENDS UtpNetwork
MCPeers == {1, 2}
\* How many payloads each peer sends.
MCThreeOne == [p \in MCPeers |-> IF p = 1 THEN 3 ELSE 1]
MCTwoOne == [p \in MCPeers |-> IF p = 1 THEN 2 ELSE 1]
MCFour == [p \in MCPeers |-> IF p = 1 THEN 4 ELSE 0]
MCThree == [p \in MCPeers |-> IF p = 1 THEN 3 ELSE 0]
MCOneOne == [p \in MCPeers |-> 1]
MCTwoTwo == [p \in MCPeers |-> 2]
====
