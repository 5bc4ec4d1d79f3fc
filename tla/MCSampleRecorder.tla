-------------------------- MODULE MCSampleRecorder --------------------------
(* A buffer of a few frames, in which a take can be shorter and longer than  *)
(* the fade and the slice map can fill up.                                   *)
EXTENDS SampleRecorder
=============================================================================
