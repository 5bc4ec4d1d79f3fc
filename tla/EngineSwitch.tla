---------------------------- MODULE EngineSwitch ----------------------------
(***************************************************************************)
(* One deck's ENGINE, FLUX and excite flag from power-up on                 *)
(* (shell/panel_scan.cpp, boot_take.cpp, panel_step.cpp, pot_owner.cpp,     *)
(* control_tick.cpp, control/control_law.h, bbd_edge_state.hpp,             *)
(* engine/parts/part.cpp).                                                  *)
(*                                                                         *)
(* The audio callback runs once per block: it reads the pot row of this     *)
(* step of the sweep, applies the boot take, runs the control law, which    *)
(* asks the part for the engine of the ENGINE knob, and then the audio, in  *)
(* which the part fades out and swaps some blocks later.  The law sees the  *)
(* RUNNING engine.  A player's turn onto the BBD drops FLUX to 0 and        *)
(* excites the deck, once; arriving there because state was restored must   *)
(* do neither, so the law and the excite flag are held until the restored   *)
(* engine has landed.                                                       *)
(***************************************************************************)
EXTENDS Integers, FiniteSets

CONSTANTS
    Engines,      \* the engines of the ENGINE knob
    Bbd,          \* the BBD among them
    BootEngine,   \* the engine a part runs after init (SYNTH)
    EngineAt(_),  \* the engine a reading of the ENGINE pot selects
    Places,       \* where the player leaves a pot: [row -> set of positions]
    Noise,        \* how far a reading can lie above the pot's position
    Touch,        \* kPotTouch
    Band,         \* pot_hysteresis
    SweepBlocks,  \* kSteps: blocks per sweep of the pots
    FadeBlocks,   \* blocks a fade-out can last
    TakeSweeps,   \* kTakeSweeps
    MaxMoves,     \* bound on the player's moves
    NoRecord,
    None          \* no reading yet

\* The init patch's engine (FEED) is neither.
ASSUME EnginesAssumption ==
    /\ Bbd \in Engines /\ BootEngine \in Engines \ {Bbd}
    /\ Engines \ {Bbd, BootEngine} # {}
ASSUME TouchAssumption == {Noise, Touch, Band} \subseteq Nat /\ Noise <= Touch /\ Band < Touch
\* A fade-out is shorter than a sweep.
ASSUME SweepAssumption ==
    FadeBlocks \in Nat \ {0} /\ SweepBlocks \in Nat /\ SweepBlocks > FadeBlocks
ASSUME BoundsAssumption == TakeSweeps \in Nat /\ MaxMoves \in Nat

Rows == {"engine", "flux"}
\* The step of the sweep that reads a row.
RowAt == [b \in 0 .. SweepBlocks - 1 |->
             CASE b = 0 -> "engine" [] b = 2 -> "flux" [] OTHER -> "none"]
Readings == UNION {{p + n : n \in 0..Noise} : p \in Places["engine"] \cup Places["flux"]}

ASSUME PlacesAssumption ==
    Places \in [Rows -> SUBSET Nat] /\ \A raw \in Readings : EngineAt(raw) \in Engines

\* What a record can hold: excite only with the BBD, FLUX where the player left it.
Records == {r \in [engine : Engines, flux : {0} \cup Places["flux"], excite : BOOLEAN] :
               r.excite => r.engine = Bbd}
InitPatch == [engine |-> CHOOSE e \in Engines \ {Bbd, BootEngine} : TRUE, flux |-> 0]

VARIABLES
    rec,    \* the record found at boot
    dead,   \* the rows whose readings never arrive
    hand,   \* where the player has left each pot
    at,     \* where the callback is
    block,  \* the step of the sweep
    knob,   \* g_knobs: ENGINE and FLUX
    span,   \* g_span.valid
    owner,  \* PotOwner and PotFilter of each row
    take,   \* g_take and g_take_sweeps
    law,    \* _bbdRestoring, BbdEdgeState
    part,   \* Part: _engine_id, _pending_engine, _switching, blocks faded
    excite, \* excite_other_deck
    hold,   \* g_excite_hold
    moves,  \* bound: moves the player has left
    hist    \* history: owed, the pot's turns of ENGINE onto the BBD less the
            \* edges fired; turned, a pot has turned ENGINE since the take;
            \* fluxFree, the FLUX pot was moved since the last edge, if any

vars == <<rec, dead, hand, at, block, knob, span, owner, take, law, part, excite, hold, moves, hist>>

Free == [owned |-> FALSE, ref |-> None, last |-> None]

\* on_restore: the law is re-armed, and held until the engine has landed.
Rearmed(l) == [l EXCEPT !.restoring = TRUE, !.seeded = FALSE]

\* Power-up: persist_boot lays the record over the init patch, control_boot
\* sets the excite flag with its hold and re-arms the law.
Init ==
    /\ rec \in Records \cup {NoRecord}
    /\ dead \in SUBSET Rows
    /\ hand \in [Rows -> UNION {Places[r] : r \in Rows}]
    /\ \A r \in Rows : hand[r] \in Places[r]
    /\ at = "pots"
    /\ block = 0
    /\ knob = IF rec = NoRecord THEN InitPatch ELSE [engine |-> rec.engine, flux |-> rec.flux]
    /\ span = FALSE
    /\ owner = [r \in Rows |-> Free]
    /\ take = [done |-> FALSE, raw |-> [r \in Rows |-> None], sweeps |-> 0]
    /\ law = [restoring |-> TRUE, seeded |-> FALSE, wasBbd |-> FALSE]
    /\ part = [engine |-> BootEngine, pending |-> BootEngine, switching |-> FALSE, faded |-> 0]
    /\ excite = (rec # NoRecord /\ rec.excite)
    /\ hold = excite
    /\ moves = MaxMoves
    /\ hist = [owed |-> 0, turned |-> FALSE, fluxFree |-> TRUE]

-----------------------------------------------------------------------------

\* The player moves a pot (only the position it has when it is read matters).
Move ==
    /\ at = "pots"
    /\ moves > 0
    /\ moves' = moves - 1
    /\ \E r \in Rows \cap {RowAt[block]} : \E p \in Places[r] \ {hand[r]} :
          /\ hand' = [hand EXCEPT ![r] = p]
          /\ hist' = IF r = "flux" THEN [hist EXCEPT !.fluxFree = TRUE] ELSE hist
    /\ UNCHANGED <<rec, dead, at, block, knob, span, owner, take, law, part, excite, hold>>

Far(a, b, d) == a - b > d \/ b - a > d

\* knob_from_pot: the value row r's target takes from a reading.
Value(r, raw) == IF r = "engine" THEN EngineAt(raw) ELSE raw

\* pot_own: the first reading is the reference; one far enough from it takes the
\* parameter.
pot_own(o, raw) ==
    CASE o.owned -> <<"owned", o>>
      [] ~o.owned /\ o.ref = None -> <<"idle", [o EXCEPT !.ref = raw]>>
      [] ~o.owned /\ o.ref # None ->
            IF Far(raw, o.ref, Touch) THEN <<"took", [o EXCEPT !.owned = TRUE]>> ELSE <<"idle", o>>

pot_release(o) == [o EXCEPT !.owned = FALSE, !.ref = None]

\* pot_row_step: ownership, then the filter; only an owner writes its knob.
PotRowStep(r, raw) ==
    LET own   == pot_own(owner[r], raw)
        last  == IF own[1] = "took" THEN None ELSE own[2].last
        emits == last = None \/ Far(raw, last, Band)
    IN  /\ owner' = [owner EXCEPT ![r] = [own[2] EXCEPT !.last = IF emits THEN raw ELSE last]]
        /\ IF emits /\ own[1] # "idle"
           THEN /\ knob' = [knob EXCEPT ![r] = Value(r, raw)]
                /\ hist' = IF r = "engine" /\ Value(r, raw) # knob.engine
                           THEN [hist EXCEPT !.turned = TRUE,
                                             !.owed = IF Value(r, raw) = Bbd THEN @ + 1 ELSE @]
                           ELSE hist
           ELSE UNCHANGED <<knob, hist>>

\* The block's step of the sweep: until the take is done a reading with a valid
\* span is kept for it, and without one nothing happens.
ReadPots ==
    /\ at = "pots"
    /\ LET r == RowAt[block]
       IN  IF r = "none" \/ r \in dead \/ ~span
           THEN UNCHANGED <<knob, owner, take, hist>>
           ELSE \E n \in 0..Noise :
                   IF take.done
                   THEN PotRowStep(r, hand[r] + n) /\ UNCHANGED take
                   ELSE /\ take' = [take EXCEPT !.raw[r] = hand[r] + n]
                        /\ UNCHANGED <<knob, owner, hist>>
    /\ at' = "take"
    /\ UNCHANGED <<rec, dead, hand, block, span, law, part, excite, hold, moves>>

-----------------------------------------------------------------------------
(* The boot take.                                                           *)

\* Mutant of excite_after_take: the recorded flag, whatever engine it was for.
excite_after_take_recorded(wasBbd, engine) == engine = Bbd /\ rec # NoRecord /\ rec.excite

\* excite_after_take: a deck that was on the BBD keeps the recorded flag, one
\* that the take turns onto it is excited.
excite_after_take(wasBbd, engine) ==
    engine = Bbd /\ (wasBbd => rec # NoRecord /\ rec.excite)

\* Mutant of finish_take_law: the law is not re-armed.
finish_take_law_kept == law

\* control_rearm_after_take
finish_take_law == Rearmed(law)

\* boot_take_apply writes the rows it has seen (their readings are not looked at
\* again); finish_take releases every pot,
\* re-arms the law and sets the excite flag with its hold.
Apply ==
    LET taken == [r \in Rows |-> IF take.raw[r] = None THEN knob[r] ELSE Value(r, take.raw[r])]
        x == excite_after_take(knob.engine = Bbd, taken.engine)
    IN  /\ knob' = taken
        /\ take' = [take EXCEPT !.done = TRUE, !.raw = [r \in Rows |-> None]]
        /\ owner' = [r \in Rows |-> pot_release(owner[r])]
        /\ law' = finish_take_law
        /\ excite' = x
        /\ hold' = x

\* Every row has been read: the take is applied before this block's law tick.
TakeAll ==
    /\ at = "take"
    /\ at' = "law"
    /\ IF ~take.done /\ \A r \in Rows : take.raw[r] # None
       THEN Apply
       ELSE UNCHANGED <<knob, take, owner, law, excite, hold>>
    /\ UNCHANGED <<rec, dead, hand, block, span, part, moves, hist>>

\* The end of a sweep, after its last law tick: the span is measured, and the
\* take is applied with the rows it has once TakeSweeps sweeps have collected.
SweepEnd ==
    /\ at = "sweep"
    /\ at' = "audio"
    /\ span' \in {span, TRUE}
    /\ IF ~take.done /\ span'
       THEN IF take.sweeps + 1 > TakeSweeps
            THEN Apply
            ELSE take' = [take EXCEPT !.sweeps = @ + 1] /\ UNCHANGED <<knob, owner, law, excite, hold>>
       ELSE UNCHANGED <<knob, take, owner, law, excite, hold>>
    /\ UNCHANGED <<rec, dead, hand, block, part, moves, hist>>

-----------------------------------------------------------------------------
(* The control law's tick and what the firmware makes of its events.        *)

\* Part::set_engine: the fade-out starts, or an earlier one is re-pointed.
set_engine(p, e) ==
    IF e = (IF p.switching THEN p.pending ELSE p.engine) THEN p
    ELSE [p EXCEPT !.pending = e, !.switching = TRUE, !.faded = IF p.switching THEN @ ELSE 0]

\* BbdEdgeState::tick after the re-arm of a restore that has not landed: an edge
\* is a change to the BBD between two ticks.
Edge(running) == ~law.restoring /\ law.seeded /\ running = Bbd /\ ~law.wasBbd

\* The law stays armed after a restore until the restored engine is the running
\* one (_bbdRestoring).  The mutant waits for the BBD.
RestoringTillBbd(running) == law.restoring /\ running # Bbd

Restoring(running) == law.restoring /\ running # knob.engine

\* apply_excite_hold: until the restored engine has landed or ENGINE left the BBD.
Hold(running) == hold /\ knob.engine = Bbd /\ running # Bbd

\* apply_excite_events, then apply_excite_hold.
Excited(running) == Edge(running) \/ (excite /\ running = Bbd) \/ Hold(running)

\* Mutant of FluxOwner: the FLUX pot keeps its parameter.
FluxOwnerKept(edge) == owner["flux"]

\* apply_law_events: the edge releases the FLUX pot.
FluxOwner(edge) == IF edge THEN pot_release(owner["flux"]) ELSE owner["flux"]

LawTick ==
    /\ at = "law"
    /\ LET running == part.engine
           edge    == Edge(running)
       IN  /\ part' = set_engine(part, knob.engine)
           /\ law' = [restoring |-> Restoring(running),
                      seeded |-> TRUE, wasBbd |-> running = Bbd]
           /\ excite' = Excited(running)
           /\ hold' = Hold(running)
           /\ knob' = IF edge THEN [knob EXCEPT !.flux = 0] ELSE knob
           /\ owner' = [owner EXCEPT !["flux"] = FluxOwner(edge)]
           /\ hist' = IF edge THEN [hist EXCEPT !.owed = @ - 1, !.fluxFree = FALSE] ELSE hist
    /\ at' = IF block = SweepBlocks - 1 THEN "sweep" ELSE "audio"
    /\ UNCHANGED <<rec, dead, hand, block, span, take, moves>>

\* The step of the sweep the next block reads.
NextBlock(b) == (b + 1) % SweepBlocks

\* The block's audio: the fade goes on, or has reached silence and the part swaps.
Audio ==
    /\ at = "audio"
    /\ at' = "pots"
    /\ block' = NextBlock(block)
    /\ \/ ~part.switching /\ part' = part
       \/ part.switching /\ part.faded + 1 < FadeBlocks /\ part' = [part EXCEPT !.faded = @ + 1]
       \/ part.switching /\ part' = [part EXCEPT !.engine = part.pending, !.switching = FALSE,
                                                 !.faded = 0]
    /\ UNCHANGED <<rec, dead, hand, knob, span, owner, take, law, excite, hold, moves, hist>>

Callback == ReadPots \/ TakeAll \/ LawTick \/ SweepEnd \/ Audio

Next == Move \/ Callback

\* The callback is the audio interrupt: it keeps running.
Spec == Init /\ [][Next]_vars /\ WF_vars(Callback)

-----------------------------------------------------------------------------
(* Properties.                                                              *)

TypeOK ==
    /\ rec \in Records \cup {NoRecord} /\ dead \subseteq Rows
    /\ at \in {"pots", "take", "law", "sweep", "audio"} /\ block \in 0 .. SweepBlocks - 1
    /\ knob \in [engine : Engines, flux : {0} \cup Places["flux"] \cup Readings]
    /\ hand \in [Rows -> Nat] /\ \A r \in Rows : hand[r] \in Places[r]
    /\ owner \in [Rows -> [owned : BOOLEAN, ref : Readings \cup {None}, last : Readings \cup {None}]]
    /\ take \in [done : BOOLEAN, raw : [Rows -> Readings \cup {None}], sweeps : 0..TakeSweeps]
    /\ law \in [restoring : BOOLEAN, seeded : BOOLEAN, wasBbd : BOOLEAN]
    /\ part \in [engine : Engines, pending : Engines, switching : BOOLEAN, faded : 0 .. FadeBlocks - 1]
    /\ span \in BOOLEAN /\ excite \in BOOLEAN /\ hold \in BOOLEAN /\ moves \in 0..MaxMoves
    /\ hist \in [owed : Int, turned : BOOLEAN, fluxFree : BOOLEAN]

\* Knob, running engine and law agree: nothing is under way.
Landed ==
    /\ part.engine = knob.engine /\ ~part.switching
    /\ law.seeded /\ ~law.restoring /\ law.wasBbd = (part.engine = Bbd)

\* FLUX is dropped once for every turn of ENGINE onto the BBD, and never for a
\* restored engine, neither at boot nor when the take changes ENGINE, however
\* the turns, the fades and the ticks fall (bbd_edge_state.hpp: "exactly once,
\* on the transition").
EdgesAreTurns == hist.owed >= 0 /\ (Landed => hist.owed = 0)

\* From the take on, the excite flag that a save would store is right whenever
\* no turn is under way: off the BBD it is off; on the BBD it is on if the
\* player or the take turned the deck onto it, and as recorded if it has been
\* there all along, also while the restored engine has not landed.
ExciteIsRight ==
    take.done /\ (Landed \/ ~hist.turned) =>
        excite = (/\ knob.engine = Bbd
                  /\ ~hist.turned /\ rec # NoRecord /\ rec.engine = Bbd => rec.excite)

\* After an edge FLUX stays at 0 until the player moves its pot, whatever the
\* noise of its readings (panel_step.h).
FluxWaitsForThePlayer ==
    [][knob.flux = 0 /\ knob'.flux # 0 => hist.fluxFree]_vars

\* Every switch lands: neither the part nor the restore stays under way.
SwitchesLand == <>[](take.done => Landed)
=============================================================================
