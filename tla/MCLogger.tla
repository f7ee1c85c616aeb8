------------------------------- MODULE MCLogger -------------------------------
(* A few commands and status requests against one Logger.                  *)
EXTENDS Logger
=============================================================================
