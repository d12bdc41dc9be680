------------------------------ MODULE MCMcpServer ------------------------------
\* The MCP server with two tool calls at a time; two sessions, each of which may be another
\* process's.
EXTENDS McpServer

CONSTANTS t1, t2, s1, s2
===============================================================================
