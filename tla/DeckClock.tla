----------------------------- MODULE DeckClock -----------------------------
(***************************************************************************)
(* The deck's step clock over its PITCH lane (engine/mod/super_modulator):  *)
(* in STEP the texture lanes own no clock, they stand in the slot the deck  *)
(* step says.  The deck step is counted from the changes of PITCH's own     *)
(* step, of which the modulator keeps a copy.                               *)
(***************************************************************************)
EXTENDS SongDeck

CONSTANT DeckMod   \* bound: the deck step modulo this

\* A texture lane's slots may be any number, PITCH's are the deck's own.
ASSUME DeckModAssumption ==
    DeckMod \in Nat \ {0, 1} /\ \A n \in StepKnob \ {0} : DeckMod % n = 0

\* A sample moves the phase by less than a step.
ASSUME UnitsAssumption == \A n \in StepKnob : n <= Units

ASSUME NoneAssumption == None \notin Nat

VARIABLES
    deck,     \* the deck step and the copy of PITCH's step it was counted at
    played    \* history: the steps PITCH has played since the count began, None
              \* when that is off; whether they were counted from PITCH's own step

deckVars == <<lane, part, law, hist, deck, played>>

\* In FLOW nothing reads the deck step, and the entry into STEP sets it again.
Entered == [step |-> 0, last |-> -1]

FromHere(step) == [count |-> step, aligned |-> TRUE]
FromEntry == [count |-> 0, aligned |-> FALSE]
NoCount == [count |-> None, aligned |-> FALSE]

DeckInit == Init /\ deck = Entered /\ played = FromEntry

\* PITCH's step is a new one; after a jump it is only noted.
Counted(d, step) ==
    [step |-> IF step # d.last /\ d.last >= 0 THEN (d.step + 1) % DeckMod ELSE d.step,
     last |-> step]

\* The step the phase is in (step_at_phase).
StepAtPhase(l) == (l.pos * l.steps) \div Units

\* A step is played when PITCH leaves it for another.  The count is off when the
\* first sample after a back-dated reset already leaves the step it was dated to.
Heard ==
    CASE lane.cur = -1 /\ played.aligned /\ lane'.cur # StepAtPhase(lane) -> NoCount
      [] lane.cur # -1 /\ lane'.cur # lane.cur /\ played.count # None ->
            [played EXCEPT !.count = (@ + 1) % DeckMod]
      [] OTHER -> played

DeckProcess ==
    /\ Process
    /\ deck' = IF lane.step THEN Counted(deck, lane'.cur) ELSE deck
    /\ played' = IF lane.step THEN Heard ELSE played

\* A live STEPS turn keeps PITCH's step and the deck's, unless the step is past the
\* new end: then it wraps, and the copy does not follow it.
DeckTurned ==
    /\ Knobs
    /\ IF lane'.step /\ lane.step
       THEN /\ deck' = deck
            /\ played' = IF lane'.cur # lane.cur THEN NoCount
                         ELSE [played EXCEPT !.aligned = @ /\ lane'.steps = lane.steps]
       ELSE deck' = Entered /\ played' = FromEntry

\* Mutant of Jumped: the jump looks like a step that was played.
JumpedUnnoticed(d) == d

\* snap_pitch_phase: PITCH moves, the deck step does not.
Jumped(d) == [d EXCEPT !.last = -1]

DeckSnap == Snap /\ deck' = Jumped(deck) /\ played' = [played EXCEPT !.aligned = FALSE]

\* reset_phases: the deck step is PITCH's; a back-dated one may be past the first.
DeckReset ==
    /\ Resync \/ Restart
    /\ deck' = IF lane.step THEN [step |-> StepAtPhase(lane'), last |-> -1] ELSE Entered
    /\ played' = IF lane.step THEN FromHere(StepAtPhase(lane')) ELSE FromEntry

\* init resets the lanes and not the deck step.
DeckReinit ==
    /\ Reinit(TRUE) \/ Reinit(FALSE)
    /\ deck' = deck
    /\ played' = IF lane.step THEN NoCount ELSE FromEntry

DeckAlone == (EngineSwap \/ Restore) /\ UNCHANGED <<deck, played>>

DeckNext == DeckProcess \/ DeckTurned \/ DeckSnap \/ DeckReset \/ DeckReinit \/ DeckAlone

DeckSpec == DeckInit /\ [][DeckNext]_deckVars /\ []<><<lane'.pos # lane.pos /\ Process>>_vars

-----------------------------------------------------------------------------

\* The texture lanes move with the melody: the deck step counts the steps PITCH
\* has really played, whatever jumps, engines and songs come between, and from
\* RST or RESET on it is PITCH's own step (the count SuperModulator::process
\* keeps from a copy of the lane's step).
DeckStepIsPlayed ==
    lane.step =>
        /\ played.count # None => deck.step = played.count
        /\ played.aligned /\ lane.cur # -1 => (deck.step - lane.cur) % lane.steps = 0
=============================================================================
