---------------------------- MODULE MCClockJack ----------------------------
(* The jacks and the transport with a period of two blocks and a window of   *)
(* two periods.                                                              *)
EXTENDS SongClock
=============================================================================
