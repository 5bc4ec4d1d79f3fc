--------------------------- MODULE MCEngineSwitch ---------------------------
(* One deck with three engines.  A pot rests on an even position and reads   *)
(* up to one above it, so a reading never crosses into the next engine.      *)
EXTENDS EngineSwitch

MCEngineAt(raw) == CASE raw \in {0, 1} -> "synth" [] raw \in {2, 3} -> "bbd" [] OTHER -> "feed"
MCPlaces == [engine |-> {0, 2, 4}, flux |-> {1, 3}]
=============================================================================
