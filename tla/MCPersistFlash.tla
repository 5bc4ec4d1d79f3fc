--------------------------- MODULE MCPersistFlash ---------------------------
(* The flash sectors on a small board: model values for the knob vectors,   *)
(* two firmware layouts.                                                    *)
EXTENDS PersistFlash, TLC

Perms == Permutations(Knobs)
=============================================================================
