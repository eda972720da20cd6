--------------------------- MODULE MCPrimaryRole ---------------------------
EXTENDS PrimaryRole

\* A scheduler, the web server, the management listener.
MCScaling == <<"singleton", "replicated", "singleton">>
MCWebFirst == <<"replicated", "singleton">>
=============================================================================
