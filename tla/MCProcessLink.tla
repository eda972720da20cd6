--------------------------- MODULE MCProcessLink ---------------------------
EXTENDS ProcessLink

\* Every process but 0 handles requests on every channel.
MCHandlers == [p \in Proc |-> [c \in Channel |-> IF p = 0 THEN "none" ELSE "request"]]
MCPosts2 == [p \in Proc |-> IF p = 0 THEN 2 ELSE 0]
MCPosts3 == [p \in Proc |-> IF p = 0 THEN 3 ELSE 0]
MCPosts4 == [p \in Proc |-> IF p = 0 THEN 4 ELSE 0]
MCPosts31 == [p \in Proc |-> IF p = 0 THEN 3 ELSE IF p = 1 THEN 1 ELSE 0]
=============================================================================
