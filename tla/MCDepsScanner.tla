---------------------------- MODULE MCDepsScanner ----------------------------
(* The scanner client with a few requests and starts of the service.       *)
EXTENDS DepsScanner
=============================================================================
