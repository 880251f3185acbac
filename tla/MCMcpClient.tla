----------------------------- MODULE MCMcpClient -----------------------------
(* A server with three tools: one needs a scope, one two, and one a scope that *)
(* only the endpoint named by the discovery gives a token for.                 *)
EXTENDS McpClient, TLC

CONSTANTS read, write, admin, both

ThreeTools == <<read, both, admin>>
Needed == (read :> <<read>>) @@ (both :> <<read, write>>) @@ (admin :> <<admin>>)
Tokens == (read :> {read}) @@ (write :> {write})
Named  == {<<admin>>, <<read, write>>}
=============================================================================
