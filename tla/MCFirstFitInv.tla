--------------------------- MODULE MCFirstFitInv ---------------------------
(* The instances of MCFirstFit whose requests satisfy RequestAssumption.   *)
EXTENDS MCFirstFit, FirstFitInv
=============================================================================
