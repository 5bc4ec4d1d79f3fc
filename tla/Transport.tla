----------------------------- MODULE Transport -----------------------------
(***************************************************************************)
(* The master transport (engine/center/transport.h): a beat counter that    *)
(* runs at tempo x PACE, pulled onto a grid of pace steps by the pulses of  *)
(* the clock and set back to the downbeat by a restart.                     *)
(*                                                                         *)
(* Positions are whole units, Beat of them to a beat, taken modulo Bar.     *)
(***************************************************************************)
EXTENDS Integers

CONSTANTS
    Beat,        \* units in a beat
    Bar,         \* the modulus of positions
    Paces,       \* units to a pulse of the clock (PACE)
    KnobPeriod   \* blocks to a pulse at the TEMPO knob's own tempo

ASSUME BeatAssumption == Beat \in Nat \ {0} /\ Bar \in Nat \ {0} /\ Bar % Beat = 0
ASSUME PaceAssumption == Paces # {} /\ \A p \in Paces : p \in Nat \ {0} /\ Bar % (2 * p) = 0
ASSUME KnobPeriodAssumption == KnobPeriod \in Nat \ {0} /\ \A p \in Paces : p % KnobPeriod = 0

\* beats, anchor: the counter and the grid's origin; fresh: reset since the last
\* pulse; pace.
AtStart(p) == [beats |-> 0, anchor |-> 0, fresh |-> FALSE, pace |-> p]

\* Units to a block at a tempo of so many blocks to a pulse; the knob's without one.
StepOf(tempo, pace) ==
    IF tempo.n = 0 THEN pace \div KnobPeriod ELSE (pace * tempo.n) \div tempo.sum

beat_phase(t) == t.beats % Beat

advance(t, blocks, tempo) == [t EXCEPT !.beats = (@ + blocks * StepOf(tempo, t.pace)) % Bar]

tick(t, tempo) == advance(t, 1, tempo)

\* How far the counter is past the grid point behind it, and the way to the
\* nearest one; half a step goes up, as std::round does.
PastGrid(t) == ((t.beats - t.anchor) % Bar) % t.pace
ToGrid(t) == IF 2 * PastGrid(t) < t.pace THEN -PastGrid(t) ELSE t.pace - PastGrid(t)

OnPulse(t, beats) == [t EXCEPT !.beats = beats % Bar, !.anchor = beats % Bar, !.fresh = FALSE]

clock_pulse(t) == OnPulse(t, t.beats + ToGrid(t))

\* Mutant of clock_pulse_counted: always rounded.
counted_rounds(t) == clock_pulse(t)

\* After a reset one pace step past its anchor, wherever the counter is.
clock_pulse_counted(t) == IF t.fresh THEN OnPulse(t, t.anchor + t.pace) ELSE clock_pulse(t)

\* PACE moved: the grid starts again where the counter is.
set_pace(t, p) == IF p = t.pace THEN t ELSE [t EXCEPT !.pace = p, !.anchor = t.beats]

reset(t) == [t EXCEPT !.beats = 0, !.anchor = 0, !.fresh = TRUE]
=============================================================================
