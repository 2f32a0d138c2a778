---------------------------- MODULE MCFirstFit ----------------------------
(***************************************************************************)
(* Small instances of FirstFit for TLC.                                    *)
(***************************************************************************)
EXTENDS FirstFitProps

(* The area as a fresh mapping: all zero.                                  *)
ZeroMem == {[a \in WordAddr |-> 0]}
=============================================================================
