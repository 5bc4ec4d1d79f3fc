------------------------------ MODULE SongDeck ------------------------------
(***************************************************************************)
(* A deck's PITCH lane and its song (engine/mod/lane.cpp, song_form.h), the *)
(* engine switch that makes it a note lane or not (engine/parts/part.cpp)   *)
(* and the control law that pushes ENGINE, STEPS and SONG into it           *)
(* (control/control_law.h) through its cache of sent values.                *)
(*                                                                         *)
(* A phase is a whole number of units, Units of them to a cycle; a pattern  *)
(* is the length it was generated at and, for B, whether its cadence still  *)
(* leads to A's opening.                                                    *)
(***************************************************************************)
EXTENDS Integers

CONSTANTS
    StepKnob,     \* positions of STEPS; 0 is FLOW
    FlowSlots,    \* kFlowPhraseSlots
    MaxSlots,     \* kSeqSlots
    Units,        \* units in a cycle
    PhraseMin,    \* samples between two phrases in FLOW (_phrase_min_samples)
    SongPeriod,   \* phrases after which every song repeats
    Rungs,        \* the detents of the SONG ladder
    Form, Song,   \* what a rung stands for
    BootRung,     \* the rung of the defaults
    NoteEngines, FreeEngines,   \* with notes; the SAMPLER and the BBD
    BootEngine,   \* ENGINE_SYNTH
    None

Engines == NoteEngines \cup FreeEngines

ASSUME SlotsAssumption ==
    /\ StepKnob \subseteq Nat
    /\ FlowSlots \in Nat \ {0} /\ MaxSlots \in Nat /\ MaxSlots >= FlowSlots
    /\ Units \in Nat \ {0, 1} /\ PhraseMin \in Nat /\ SongPeriod \in Nat \ {0}
ASSUME LadderAssumption ==
    /\ BootRung \in Rungs
    /\ \A r \in Rungs : Song[r] \in [0 .. SongPeriod - 1 -> 0 .. 1] /\ Song[r][0] = 0
ASSUME EngineAssumption == BootEngine \in NoteEngines /\ NoteEngines \cap FreeEngines = {}

VARIABLES
    lane,   \* the PITCH lane and its SongForm
    part,   \* the deck's engine, the one it fades to, and the pending STEP snap
    law,    \* what the law remembers of the deck
    hist    \* history, for the properties

vars == <<lane, part, law, hist>>

Forms == {Form[r] : r \in Rungs}
Songs == {Song[r] : r \in Rungs}

-----------------------------------------------------------------------------
(* The lane.                                                                *)

FlowMelody(l) == ~l.step /\ l.notes
Melody(l) == l.step \/ l.notes

effective_length(l) ==
    CASE FlowMelody(l) -> FlowSlots
      [] ~FlowMelody(l) /\ l.steps <= MaxSlots -> l.steps
      [] OTHER -> MaxSlots

Pending(l) == l.form_pending \/ l.song_pending \/ l.new_pending \/ l.length_pending

song_symbol_at(song, phrase) == song[phrase % SongPeriod]

set_form(l, f) == [l EXCEPT !.pending_form = f, !.form_pending = f # l.form]
set_song(l, s) == [l EXCEPT !.pending_song = s, !.song_pending = s # l.song]
new_phrase(l) == [l EXCEPT !.new_pending = TRUE]

\* The pattern's length is owed, or not, from the lengths themselves; the
\* mutants raise it on the way in only, and never take it back.
LengthOwedEntering(l) == IF l.notes THEN l.len # effective_length(l) ELSE l.length_pending
LengthOwedRaised(l) == l.length_pending \/ l.len # effective_length(l)
LengthOwed(l) == l.len # effective_length(l)

set_flow_melody(l, on) ==
    LET set == IF on = l.notes THEN l
               ELSE [l EXCEPT !.notes = on, !.since = PhraseMin,
                              !.cur = IF l.step THEN @ ELSE -1]
    IN  [set EXCEPT !.length_pending = LengthOwed(set)]

\* A live STEPS turn keeps the step and the fraction inside it.
Reslotted(l, n) ==
    LET pos == ((l.pos * l.steps) % (n * Units)) \div n
    IN  [l EXCEPT !.pos = pos, !.cur = (pos * n) \div Units]

set_step(l, on, n) ==
    LET placed == CASE on # l.step -> [l EXCEPT !.cur = -1, !.since = PhraseMin]
                    [] on /\ l.step /\ n # l.steps /\ l.cur >= 0 -> Reslotted(l, n)
                    [] OTHER -> l
        set == [placed EXCEPT !.step = on, !.steps = n]
    IN  [set EXCEPT !.length_pending = @ \/ effective_length(set) # effective_length(l)]

restart_song(l) == [l EXCEPT !.phrase = 0, !.active = song_symbol_at(l.song, 0)]

\* lane.reset: the step will be entered anew, from where the phase is.
reset(l, pos) == [l EXCEPT !.pos = pos, !.cur = -1, !.since = PhraseMin]

\* Pattern A generated and B derived from it, its cadence bound.
Rebuilt(l) == [l EXCEPT !.len = effective_length(l), !.bound = TRUE]

\* bind_song_cadence, when B comes in; the mutant does not.
BoundNever(l, incoming) == l.bound
Bound(l, incoming) == l.bound \/ incoming = 1

Adopted(l) == [l EXCEPT !.form = IF l.form_pending THEN l.pending_form ELSE @,
                        !.song = IF l.song_pending THEN l.pending_song ELSE @]

PlayFrom(l, phrase) ==
    LET incoming == song_symbol_at(l.song, phrase)
    IN  [l EXCEPT !.phrase = phrase, !.active = incoming, !.bound = Bound(l, incoming)]

Done(l) == [l EXCEPT !.form_pending = FALSE, !.song_pending = FALSE,
                     !.new_pending = FALSE, !.length_pending = FALSE]

\* _apply_pending_song_work: a new SONG alone keeps the patterns.
apply_pending(l) ==
    LET rebuild == l.form_pending \/ l.new_pending \/ l.length_pending
        adopted == Adopted(l)
    IN  Done(PlayFrom(IF rebuild THEN Rebuilt(adopted) ELSE adopted, 0))

\* Mutant of apply_preroll: none.
no_preroll(l) == l

apply_preroll(l) == IF Melody(l) /\ l.cur = -1 /\ Pending(l) THEN apply_pending(l) ELSE l

advance_song(l) == PlayFrom(l, (l.phrase + 1) % SongPeriod)

\* At the end of a cycle what is pending, or the song's next phrase; the mutant
\* never looks.
OutgoingAdvances(l) == advance_song(l)
Outgoing(l) == IF Pending(l) THEN apply_pending(l) ELSE advance_song(l)

\* GROW and RENEW move the pitches of the pattern that plays, A's opening too.
Varied(l) == IF l.active = 0 THEN [l EXCEPT !.bound = FALSE] ELSE l

wrap_events(l, varied) ==
    IF ~Melody(l) \/ (FlowMelody(l) /\ l.since < PhraseMin) THEN l
    ELSE Outgoing([IF varied THEN Varied(l) ELSE l
                     EXCEPT !.since = IF FlowMelody(l) THEN 0 ELSE @])

\* The step the phase is in, entered when it is another one; its slot 0 may be
\* varied as it fires.
Boundary(l, varied) ==
    LET slot == (l.pos * (IF l.step THEN l.steps ELSE FlowSlots)) \div Units
    IN  IF ~Melody(l) \/ slot = l.cur THEN l
        ELSE [IF varied /\ slot = 0 THEN Varied(l) ELSE l EXCEPT !.cur = slot]

\* One sample, by d units: the work owed before the first step, the wrap, the step.
process(l, d, varied) ==
    LET ready == apply_preroll(l)
        moved == [ready EXCEPT !.pos = (@ + d) % Units,
                               !.since = IF @ < PhraseMin THEN @ + 1 ELSE @]
    IN  Boundary(IF ready.pos + d >= Units THEN wrap_events(moved, varied) ELSE moved, varied)

\* ModLane::init: pending FORM and SONG adopted, both patterns new.
lane_init(l) == Done(PlayFrom(Rebuilt(reset(Adopted(l), 0)), 0))

-----------------------------------------------------------------------------
(* The deck and the law.                                                    *)

\* Part::init boots the SYNTH, after the lanes.
Booted(l) == set_flow_melody(lane_init(l), TRUE)
BootPart == [eng |-> BootEngine, pend |-> BootEngine, switching |-> FALSE,
             seen |-> FALSE, snap |-> FALSE]

Blank == [step |-> FALSE, notes |-> FALSE, steps |-> FlowSlots, pos |-> 0, cur |-> -1,
          since |-> 0, len |-> 0, bound |-> FALSE, phrase |-> 0, active |-> 0,
          form |-> Form[BootRung], pending_form |-> Form[BootRung],
          song |-> Song[BootRung], pending_song |-> Song[BootRung],
          form_pending |-> FALSE, song_pending |-> FALSE,
          new_pending |-> FALSE, length_pending |-> FALSE]

\* hist: the player asked for what is pending; the law has not ticked since a
\* restore; the song was restarted and has not played yet.
Init ==
    /\ lane = Booted(Blank)
    /\ part = BootPart
    /\ law = [seeded |-> FALSE, rung |-> BootRung, sent |-> None, asked |-> None, ran |-> None]
    /\ hist = [turned |-> FALSE, restored |-> TRUE, top |-> FALSE]

Note(turn, restored, top) ==
    hist' = [turned |-> (hist.turned \/ turn) /\ Pending(lane'),
             restored |-> restored, top |-> top]

\* Part::set_engine: again the engine that plays, or the one on its way, is nothing.
set_engine(p, e) ==
    IF e = (IF p.switching THEN p.pend ELSE p.eng) THEN p
    ELSE [p EXCEPT !.pend = e, !.switching = TRUE]

\* The first STEP after an init is no edge.
set_part_step(p, on) ==
    [p EXCEPT !.snap = @ \/ (p.seen /\ on /\ ~lane.step), !.seen = TRUE]

\* fresh(): sent now, unless the same value was sent before.
Sent(cache, slot, v) == cache # None /\ cache[slot] = v

\* What is left of the cache when another engine is asked for or running.
Kept(e) == IF e # law.asked \/ part.eng # law.ran THEN None ELSE law.sent

\* One control tick of the law with the knobs at rung r, engine e and n STEPS.
Tick(r, e, n) ==
    LET on == n > 0
        steps == IF on THEN n ELSE 1
        turned == law.seeded /\ r # law.rung
        stepped == set_step(lane, on, steps)
        rolled == IF turned THEN new_phrase(stepped) ELSE stepped
        formed == IF Sent(Kept(e), "form", Form[r]) THEN rolled ELSE set_form(rolled, Form[r])
    IN  /\ part' = set_part_step(IF Sent(Kept(e), "engine", e) THEN part
                                 ELSE set_engine(part, e), on)
        /\ lane' = IF Sent(Kept(e), "song", Song[r]) THEN formed ELSE set_song(formed, Song[r])
        /\ law' = [seeded |-> TRUE, rung |-> r, asked |-> e, ran |-> part.eng,
                   sent |-> [engine |-> e, form |-> Form[r], song |-> Song[r]]]
        /\ Note(\/ ~hist.restored /\ r # law.rung
                \/ <<on, steps>> # <<lane.step, lane.steps>>,
                FALSE, hist.top /\ on)

\* One sample of the lane.
Process ==
    /\ UNCHANGED <<part, law>>
    /\ \E d \in 0 .. 1, varied \in BOOLEAN : lane' = process(lane, d, varied)
    /\ Note(FALSE, hist.restored, FALSE)

\* _engine_swap, at the end of the fade out.
EngineSwap ==
    /\ part.switching
    /\ part' = [part EXCEPT !.eng = part.pend, !.switching = FALSE]
    /\ lane' = set_flow_melody(lane, part.pend \in NoteEngines)
    /\ Note(FALSE, hist.restored, hist.top)
    /\ UNCHANGED law

\* Center puts the lane of a deck that has just entered STEP on the grid.
Snap ==
    /\ part.snap
    /\ part' = [part EXCEPT !.snap = FALSE]
    /\ \E pos \in 0 .. Units - 1 : lane' = reset(lane, pos)
    /\ UNCHANGED <<law, hist>>

\* RST: the lanes on the bar, the song where it is.
Resync ==
    /\ lane' = reset(lane, 0)
    /\ UNCHANGED <<part, law, hist>>

\* RESET at the jack, back-dated to pos; a deck in FLOW keeps its song.
Restart ==
    /\ \E pos \in 0 .. Units - 1 :
          lane' = IF lane.step THEN restart_song(reset(lane, pos)) ELSE reset(lane, pos)
    /\ hist' = [hist EXCEPT !.top = lane.step]
    /\ UNCHANGED <<part, law>>

\* Mutants of Rearmed and Forgotten: what was, stays.
RearmedNever(l) == l
ForgottenNever(l) == l

\* on_reset: a rung that arrives by restore is no turn.
Rearmed(l) == [l EXCEPT !.seeded = FALSE]
\* on_instrument_init: everything is sent again.
Forgotten(l) == [l EXCEPT !.sent = None, !.asked = None, !.ran = None]

\* A preset loaded into the live deck (on_restore).
Restore ==
    /\ law' = Forgotten(Rearmed(law))
    /\ hist' = [hist EXCEPT !.restored = TRUE]
    /\ UNCHANGED <<lane, part>>

\* A new sample rate, or Initialize, which is a restore too.
Reinit(initialize) ==
    /\ lane' = Booted(lane)
    /\ part' = BootPart
    /\ law' = IF initialize THEN Forgotten(Rearmed(law)) ELSE Forgotten(law)
    /\ Note(FALSE, hist.restored \/ initialize, FALSE)

Knobs == \E r \in Rungs, e \in Engines, n \in StepKnob : Tick(r, e, n)

Next ==
    \/ Process \/ Knobs \/ EngineSwap \/ Snap \/ Resync \/ Restart \/ Restore
    \/ Reinit(TRUE) \/ Reinit(FALSE)

\* The phase moves for ever.
Spec == Init /\ [][Next]_vars /\ []<><<lane'.pos # lane.pos /\ Process>>_vars

-----------------------------------------------------------------------------
(* Properties.                                                              *)

\* A phrase of the wrong length is never forgotten: it is rebuilt before it plays
\* on, whatever order STEPS, the mode and the engine changed in (past the length
\* it was generated at, a pattern is the root for ever).
LengthIsOwed == lane.len = effective_length(lane) \/ lane.length_pending

\* A phrase of the right length is thrown away only at the player's word: no
\* engine round trip, no restore and no tick with the same knobs re-rolls it.
PendingIsAsked ==
    lane.new_pending \/ (lane.length_pending /\ lane.len = effective_length(lane)) => hist.turned

\* The pattern that plays is the song's for the phrase, and B ends on the way to
\* the opening A has now.
SongIsInStep ==
    /\ lane.active = song_symbol_at(lane.song, lane.phrase)
    /\ lane.active = 1 => lane.bound

\* After a restart the first step of a STEP deck plays the song's first phrase, or
\* the second if that sample wraps, with nothing older pending.
RestartPlaysFromTheTop ==
    [][hist.top /\ ~hist'.top /\ lane.step /\ lane'.cur # -1 =>
        lane'.phrase = (IF lane'.pos < lane.pos THEN 1 % SongPeriod ELSE 0) /\ ~Pending(lane')]_vars

\* What the cache skips, the instrument has.
CacheIsTrue ==
    law.sent # None =>
        /\ law.sent.engine = IF part.switching THEN part.pend ELSE part.eng
        /\ law.sent.form = lane.pending_form /\ law.sent.song = lane.pending_song

\* What is pending lands, on a deck that plays notes and is left alone.
PendingLands ==
    <>[][Process]_vars => <>[](Melody(lane) => ~Pending(lane))
=============================================================================
