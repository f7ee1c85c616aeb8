-------------------------------- MODULE MCRace --------------------------------
(* Racing of one action with two output files, one of which the download   *)
(* filter may exclude, and an output directory.                            *)
EXTENDS Race
=============================================================================
