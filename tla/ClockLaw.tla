------------------------------ MODULE ClockLaw ------------------------------
(***************************************************************************)
(* The clock law of the CLOCK and RESET jacks (control/clock_law.hpp).      *)
(*                                                                         *)
(* One call per block (firmware) or sample (VCV) with the edges seen since  *)
(* the last one.  Two valid edges make the clock run; a window of periods   *)
(* is its tempo; a full window holds odd periods aside and takes two that   *)
(* agree as a new tempo.  A clock that stays away is lost: its tempo is     *)
(* held until the TEMPO knob moves.  A reset restarts the song on the pulse *)
(* it belongs to: the one before it, the one in the same call or the next.  *)
(*                                                                         *)
(* Time is counted in calls.  A period is a number of calls, a tempo a mean *)
(* period [sum, n], so that a comparison with it is one of integers.  Ages  *)
(* are counted up to the point from which they compare the same.           *)
(***************************************************************************)
EXTENDS Integers, Sequences

CONSTANTS
    MinPeriod, MaxPeriod,  \* kClockBpmMax, kClockBpmMin as periods
    Window,                \* kClockWindowPeriods
    BandNum, BandDen,      \* kClockBand
    TimeoutPeriods,        \* kClockTimeoutPeriods
    ResetWindow,           \* kClockResetWindowSeconds
    Knobs,                 \* readings of the TEMPO knob
    None

ASSUME PeriodAssumption == MinPeriod \in Nat \ {0} /\ MaxPeriod \in Nat /\ MinPeriod <= MaxPeriod
ASSUME WindowAssumption == Window \in Nat /\ Window >= 2
ASSUME BandAssumption == BandDen \in Nat \ {0} /\ BandNum \in Nat /\ BandNum > BandDen
ASSUME TimeAssumption == TimeoutPeriods \in Nat \ {0} /\ ResetWindow \in Nat
ASSUME NoneAssumption == None \notin Nat /\ None \notin [side : {"long", "short"}, period : Nat]

Periods   == MinPeriod .. MaxPeriod
EdgeCap   == MaxPeriod + 1
ValidCap  == TimeoutPeriods * MaxPeriod + 1
OneCap    == MaxPeriod + ResetWindow + 1
Settle    == Window + 2   \* equal periods after which the tempo is theirs
Steady    == 2 * Window   \* equal periods after which the window is full of them,
                          \* and bound on the run that is counted

VARIABLES
    law,   \* ClockLaw: running; tempo (_bpm, _period); ring; pending (the held
           \* period); edge, valid, one (ages of _lastEdge, _lastValid, _oneAt);
           \* armed; ref (_knobRef)
    out,   \* ClockOut of the last call
    hist   \* history: clock, of the running clock: last, its last valid period; same,
           \* how many in a row; base, the period it is steady at, or None; odd, whether
           \* the last one strayed from it.  knob, the last reading; turned, whether the
           \* knob has moved since the clock was lost

vars == <<law, out, hist>>

NoOut == [pulse |-> FALSE, counted |-> FALSE, restart |-> FALSE, age |-> 0, lost |-> FALSE]

\* No tempo is measured (_bpm = 0): the knob sets it.
KnobTempo == [sum |-> 0, n |-> 0]

NoClock == [last |-> None, same |-> 0, base |-> None, odd |-> FALSE]

Init ==
    /\ law = [running |-> FALSE, tempo |-> KnobTempo, ring |-> <<>>, pending |-> None,
              edge |-> None, valid |-> 0, one |-> None, armed |-> FALSE, ref |-> None]
    /\ out = NoOut
    /\ hist = [clock |-> NoClock, knob |-> None, turned |-> TRUE]

-----------------------------------------------------------------------------
(* Measuring.                                                               *)

Sum(ring) == LET sum[i \in 0 .. Len(ring)] == IF i = 0 THEN 0 ELSE sum[i - 1] + ring[i]
             IN  sum[Len(ring)]
Mean(ring) == [sum |-> Sum(ring), n |-> Len(ring)]

\* i is above, below or in the band around the mean m.
Above(i, m) == i * m.n * BandDen > m.sum * BandNum
Below(i, m) == i * m.n * BandNum < m.sum * BandDen
Side(i, m) == CASE Above(i, m) -> "long" [] Below(i, m) -> "short" [] OTHER -> "in"

\* A further period; the oldest leaves a full window.
push(ring, i) == Append(IF Len(ring) = Window THEN Tail(ring) ELSE ring, i)

Measured(l, ring) == [l EXCEPT !.ring = ring, !.tempo = Mean(ring)]

\* The one: only the pulse that makes the clock run reads it.
forget_edges(l) == [l EXCEPT !.edge = None, !.one = None, !.ring = <<>>, !.pending = None]

\* Two consecutive periods out of the band that agree are a new tempo.
\* The mutant never finds one.
AgreesNever(pending, side, i) == FALSE

Agrees(pending, side, i) ==
    /\ pending # None
    /\ pending.side = side
    /\ Side(i, [sum |-> pending.period, n |-> 1]) = "in"

\* A full window meets a period in its band.  The one after a held period is
\* held too.  The mutant forgets to drop the held one.
InBandStaysHeld(l, i) ==
    IF l.pending # None THEN l ELSE Measured(l, push(l.ring, i))

InBand(l, i) ==
    IF l.pending # None THEN [l EXCEPT !.pending = None] ELSE Measured(l, push(l.ring, i))

\* A valid period of a running clock.
Period(l, i) ==
    LET side == Side(i, Mean(l.ring))
    IN  IF Len(l.ring) < Window THEN Measured(l, push(l.ring, i))
        ELSE IF side = "in" THEN InBand(l, i)
        ELSE IF Agrees(l.pending, side, i)
        THEN [Measured(l, <<l.pending.period, i>>) EXCEPT !.pending = None]
        ELSE [l EXCEPT !.pending = [side |-> side, period |-> i]]

\* A period of a clock that runs at a tempo or, outside it, is no clock.
IsPulse(l) == l.edge \in Periods

\* on_edge: the edge is the reference of the next one whether it is valid or not.
on_edge(l) ==
    LET i == l.edge
        e == [l EXCEPT !.edge = 0]
    IN  CASE ~IsPulse(l) -> e
          [] IsPulse(l) /\ l.running -> Period([e EXCEPT !.valid = 0], i)
          [] IsPulse(l) /\ ~l.running ->
                Measured([e EXCEPT !.running = TRUE, !.valid = 0, !.one = None], push(l.ring, i))

\* The pulse that makes the clock run, with a restart's 1 at its reference edge.
Counted(l) ==
    /\ IsPulse(l) /\ ~l.running /\ l.one # None
    /\ l.one - l.edge \in -ResetWindow .. ResetWindow

-----------------------------------------------------------------------------
(* The parts of a call, in their order.                                     *)

Older(age, cap) == IF age = None \/ age = cap THEN age ELSE age + 1

\* Time passes.  The age of the last valid pulse is looked at while running.
Aged(l) == [l EXCEPT !.edge = Older(@, EdgeCap), !.one = Older(@, OneCap),
                     !.valid = IF l.running THEN Older(@, ValidCap) ELSE 0]

IsLost(l) == l.running /\ l.valid * l.tempo.n > TimeoutPeriods * l.tempo.sum

\* Mutant of Loss: the knob's reference is not taken.
LossKeepsRef(l, k) ==
    IF IsLost(l) THEN [forget_edges(l) EXCEPT !.running = FALSE, !.valid = 0,
                                              !.ref = IF @ = None THEN k ELSE @]
                 ELSE l

Loss(l, k) ==
    IF IsLost(l) THEN [forget_edges(l) EXCEPT !.running = FALSE, !.valid = 0, !.ref = k] ELSE l

\* While the clock is gone its tempo yields to a knob that moves.
KnobTakeover(l, k) ==
    IF l.running \/ l.tempo = KnobTempo THEN l
    ELSE IF l.ref = None THEN [l EXCEPT !.ref = k]
    ELSE IF k # l.ref THEN [l EXCEPT !.tempo = KnobTempo]
    ELSE l

restart(l, age) == [l EXCEPT !.armed = FALSE, !.one = IF l.running THEN None ELSE age]

\* An armed reset fires with a pulse; with the clock gone with its first edge
\* back, or the beat's wrap.  The mutants: with any edge; only with a pulse.
ArmedFiresOnEdge(l, pulse, clock, wrap) == clock \/ (~l.running /\ wrap)
ArmedFiresOnPulse(l, pulse, clock, wrap) == pulse

ArmedFires(l, pulse, clock, wrap) == pulse \/ (~l.running /\ (clock \/ wrap))

\* A reset's restart is the 1 itself, or back-dated to the pulse it just missed.
ResetFires(l, pulse) == pulse \/ ~l.running \/ l.valid <= ResetWindow
ResetAge(l, pulse) == IF pulse \/ ~l.running THEN 0 ELSE l.valid

-----------------------------------------------------------------------------

\* What the history makes of a valid period of the running clock.  A period out of
\* the band of the steady one strays from it.
Strays(i, base) == base # None /\ Side(i, [sum |-> base, n |-> 1]) # "in"

Heard(c, i) ==
    LET same == IF i # c.last THEN 1 ELSE IF c.same = Steady THEN Steady ELSE c.same + 1
        base == IF same = Steady THEN i
                ELSE IF i = c.base \/ (Strays(i, c.base) /\ ~c.odd) THEN c.base
                ELSE None
    IN  [last |-> i, same |-> same, base |-> base, odd |-> i # base]

\* step: clock and reset are the edges of the call, k is the knob, wrap says
\* that the beat phase fell since the last call.
Law(clock, reset, k, wrap) ==
    LET aged    == Aged(law)
        gone    == Loss(aged, k)
        pulse   == clock /\ IsPulse(gone)
        heard   == IF clock THEN on_edge(gone) ELSE gone
        held    == KnobTakeover(heard, k)
        fires   == IF reset THEN ResetFires(held, pulse)
                   ELSE held.armed /\ ArmedFires(held, pulse, clock, wrap)
        age     == IF reset /\ fires THEN ResetAge(held, pulse) ELSE 0
    IN  /\ law' = IF fires THEN restart(held, age)
                  ELSE [held EXCEPT !.armed = @ \/ reset]
        /\ out' = [pulse |-> pulse, counted |-> clock /\ Counted(gone), restart |-> fires,
                   age |-> age, lost |-> IsLost(aged)]

\* A call, and what the history makes of it.
Call(clock, reset, k, wrap) ==
    /\ Law(clock, reset, k, wrap)
    /\ hist' = [clock |-> IF ~law'.running THEN NoClock
                          ELSE IF out'.pulse THEN Heard(hist.clock, Aged(law).edge) ELSE hist.clock,
                knob |-> k,
                turned |-> IF law'.running \/ out'.lost THEN FALSE
                           ELSE hist.turned \/ (hist.knob # None /\ hist.knob # k)]

Step == \E clock, reset, wrap \in BOOLEAN, k \in Knobs : Call(clock, reset, k, wrap)

\* VCV, on its reinit and un-bypass: the tempo is held, the clock and a pending
\* reset are dropped.
Discontinuity ==
    /\ law' = [forget_edges(law) EXCEPT !.running = FALSE, !.valid = 0, !.armed = FALSE, !.ref = None]
    /\ out' = NoOut
    /\ hist' = [clock |-> NoClock, knob |-> None, turned |-> law.tempo = KnobTempo]

Next == Step \/ Discontinuity

Spec == Init /\ [][Next]_vars

-----------------------------------------------------------------------------
(* Properties.                                                              *)

\* A clock that keeps one period sets exactly its tempo, Settle pulses after it
\* took the period up at the latest, whatever came before.
SteadyClockIsFollowed ==
    hist.clock.same >= Settle =>
        law.tempo # KnobTempo /\ law.tempo.sum = hist.clock.last * law.tempo.n

\* A clock that has filled the window with one period keeps exactly its tempo
\* through gaps and short beats of any length out of the band, however many, until
\* it has two of them in a row or another period in the band ("a stop/start under
\* the timeout must not move the tempo").
NoExcursion ==
    hist.clock.base # None =>
        law.tempo # KnobTempo /\ law.tempo.sum = hist.clock.base * law.tempo.n

\* With the clock gone, its tempo is held exactly until the knob moves.
KnobTakesOver == ~law.running => (law.tempo = KnobTempo <=> hist.turned)

\* While a clock runs, every restart puts its 1 on a pulse.
RestartIsOnAPulse == out.restart /\ law.running => out.age = law.valid
=============================================================================
