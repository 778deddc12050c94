---------------------------- MODULE MCPolicyServer ----------------------------
(* Model-checking parameters for PolicyServer.                               *)
EXTENDS PolicyServer

CONSTANTS c1, c2

TwoConns == {c1, c2}
=============================================================================
