------------------------------ MODULE MCMemlib ------------------------------
(* Small instances of MemlibClient for TLC: every int is an argument.      *)
EXTENDS MemlibClient

AllInts == -(WORD_MOD \div 2) .. (WORD_MOD \div 2) - 1
=============================================================================
