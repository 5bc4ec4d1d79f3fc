----------------------------- MODULE MCClockLaw -----------------------------
(* Periods of three to six calls, a window of three and a band of 5/4, in    *)
(* which two long or two short periods can disagree with each other.  The readings of *)
(* the knob are only compared for equality, so they may be exchanged.        *)
EXTENDS ClockLaw, TLC

MCKnobSymmetry == Permutations(Knobs)
=============================================================================
