--------------------------- MODULE MCPushManager ---------------------------
\* Two objects, of two and three chunks, pushed to two nodes.
EXTENDS PushManager

CONSTANTS n1, n2, small, large

MCNodes == {n1, n2}
MCObjects == {small, large}
MCNumChunks == [o \in MCObjects |-> IF o = small THEN 2 ELSE 3]

============================================================================
