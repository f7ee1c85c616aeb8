------------------------------- MODULE MCServer -------------------------------
(* A server with a few RunCommand and Shutdown rpcs.                       *)
EXTENDS Server
=============================================================================
