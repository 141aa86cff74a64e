--------------------------- MODULE MCMcpDiscovery ---------------------------
(* McpDiscovery on small instances; the configurations give the constants.   *)
EXTENDS McpDiscovery
=============================================================================
