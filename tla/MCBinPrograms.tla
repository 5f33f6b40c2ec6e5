--------------------------- MODULE MCBinPrograms ----------------------------
(* Values for the run of BinPrograms. *)
EXTENDS BinPrograms, MCBinFile
=============================================================================
