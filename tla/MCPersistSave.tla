---------------------------- MODULE MCPersistSave ----------------------------
(* The save loop with two values per word: the deck is on the BBD at 1, and *)
(* only there excited.                                                      *)
EXTENDS PersistSave

MCExciteOf == [v \in Values |-> v]
=============================================================================
