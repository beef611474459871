---------------------------- MODULE MCMcpTokens ----------------------------
(* Small instances of McpTokens for TLC. *)
EXTENDS McpTokens

CONSTANTS c1, read, write

OneClient == {c1}
NoClient  == {}
OneScope  == {read}
TwoScopes == {read, write}
=============================================================================
