------------------------- MODULE EngineSwitchProofs -------------------------
(***************************************************************************)
(* Proofs about one deck's ENGINE, FLUX and excite flag, for every set of   *)
(* engines, every sweep longer than a fade, every touch threshold above the *)
(* noise and however the pots are turned.                                   *)
(***************************************************************************)
EXTENDS EngineSwitch, TLAPS

Owners == [owned : BOOLEAN, ref : Readings \cup {None}, last : Readings \cup {None}]
Knobs == [engine : Engines, flux : {0} \cup Places["flux"] \cup Readings]
Takes == [done : BOOLEAN, raw : [Rows -> Readings \cup {None}], sweeps : 0..TakeSweeps]
Laws == [restoring : BOOLEAN, seeded : BOOLEAN, wasBbd : BOOLEAN]
Parts == [engine : Engines, pending : Engines, switching : BOOLEAN, faded : 0 .. FadeBlocks - 1]
Hists == [owed : Int, turned : BOOLEAN, fluxFree : BOOLEAN]

-----------------------------------------------------------------------------
(* Types, and what each operation does to the state.                        *)

LEMMA ReadingType ==
    ASSUME TypeOK, NEW r \in Rows, NEW n \in 0..Noise
    PROVE  hand[r] \in Nat /\ hand[r] + n \in Readings
<1>1. hand[r] \in Nat /\ hand[r] \in Places[r]
    BY DEF TypeOK
<1>2. r = "engine" \/ r = "flux"
    BY DEF Rows
<1> QED
    BY <1>1, <1>2 DEF Readings

LEMMA ValueType ==
    ASSUME NEW raw \in Readings, NEW r \in Rows
    PROVE  Value(r, raw) \in IF r = "engine" THEN Engines ELSE Readings
BY PlacesAssumption DEF Value

\* The pot has not been read since its release.
Unread(o) == ~o.owned /\ o.ref = None

\* A turn of ENGINE to another engine, as the history notes it.
Turned(e) == [hist EXCEPT !.turned = TRUE, !.owed = IF e = Bbd THEN @ + 1 ELSE @]

LEMMA TurnedIs ==
    ASSUME hist \in Hists, NEW e
    PROVE  /\ Turned(e) \in Hists /\ Turned(e).turned /\ Turned(e).fluxFree = hist.fluxFree
           /\ Turned(e).owed = IF e = Bbd THEN hist.owed + 1 ELSE hist.owed
<1> DEFINE owed == IF e = Bbd THEN hist.owed + 1 ELSE hist.owed
<1>1. owed \in Int
    BY DEF Hists
<1>2. Turned(e) = [hist EXCEPT !.turned = TRUE, !.owed = owed]
    BY DEF Turned
<1> HIDE DEF owed
<1>3. Turned(e) \in Hists /\ Turned(e).turned /\ Turned(e).fluxFree = hist.fluxFree
      /\ Turned(e).owed = owed
    BY <1>1, <1>2 DEF Hists
<1> QED
    BY <1>3 DEF owed

\* What one reading of row r does: the first after a release moves nothing, one
\* within the threshold of the reference nothing either, and only ENGINE's row
\* notes a turn.
RowStep(r, raw) ==
    /\ owner' \in [Rows -> Owners] /\ \A q \in Rows \ {r} : owner'[q] = owner[q]
    /\ knob' \in Knobs /\ hist' \in Hists
    /\ r = "flux" => knob'.engine = knob.engine /\ hist' = hist
    /\ r = "engine" =>
          /\ knob'.flux = knob.flux
          /\ hist' = IF knob'.engine = knob.engine THEN hist ELSE Turned(knob'.engine)
    /\ Unread(owner[r]) => knob' = knob /\ hist' = hist /\ ~owner'[r].owned /\ owner'[r].ref = raw
    /\ ~Unread(owner[r]) => ~Unread(owner'[r])
    /\ ~Unread(owner[r]) /\ ~owner[r].owned /\ ~Far(raw, owner[r].ref, Touch) =>
          knob' = knob /\ ~owner'[r].owned /\ owner'[r].ref = owner[r].ref

LEMMA RowStepIs ==
    ASSUME TypeOK, NEW r \in Rows, NEW raw \in Readings, PotRowStep(r, raw)
    PROVE  RowStep(r, raw)
<1> DEFINE own   == pot_own(owner[r], raw)
           last  == IF own[1] = "took" THEN None ELSE own[2].last
           emits == last = None \/ Far(raw, last, Band)
<1>1. owner \in [Rows -> Owners] /\ owner[r] \in Owners /\ knob \in Knobs /\ hist \in Hists
    BY DEF TypeOK, Owners, Knobs, Hists
<1> DEFINE raws == Readings \cup {None}
\* The owner's answer.
<1>2. /\ own[2] \in Owners
      /\ Unread(owner[r]) => own[1] = "idle" /\ ~own[2].owned /\ own[2].ref = raw
      /\ ~Unread(owner[r]) => ~Unread(own[2])
      /\ ~Unread(owner[r]) /\ ~owner[r].owned /\ ~Far(raw, owner[r].ref, Touch) =>
            own[1] = "idle" /\ ~own[2].owned /\ own[2].ref = owner[r].ref
  <2>1. CASE owner[r].owned
      BY <1>1, <2>1 DEF pot_own, Unread
  <2>2. CASE ~owner[r].owned /\ owner[r].ref = None
      BY <1>1, <2>2 DEF pot_own, Unread, Owners
  <2>3. CASE ~owner[r].owned /\ owner[r].ref # None
      BY <1>1, <2>3 DEF pot_own, Unread, Owners
  <2> QED
      BY <2>1, <2>2, <2>3
<1>3. last \in raws
    BY <1>2 DEF Owners
<1>4. /\ owner' = [owner EXCEPT ![r] = [own[2] EXCEPT !.last = IF emits THEN raw ELSE last]]
      /\ IF emits /\ own[1] # "idle"
         THEN /\ knob' = [knob EXCEPT ![r] = Value(r, raw)]
              /\ hist' = IF r = "engine" /\ Value(r, raw) # knob.engine
                         THEN Turned(Value(r, raw)) ELSE hist
         ELSE knob' = knob /\ hist' = hist
    BY DEF PotRowStep, Turned
<1> HIDE DEF own, last, emits
<1>5. /\ owner'[r] \in Owners /\ owner'[r].owned = own[2].owned /\ owner'[r].ref = own[2].ref
      /\ owner' \in [Rows -> Owners] /\ \A q \in Rows \ {r} : owner'[q] = owner[q]
    BY <1>1, <1>2, <1>3, <1>4 DEF Owners
<1>6. CASE ~(emits /\ own[1] # "idle")
    BY <1>1, <1>2, <1>4, <1>5, <1>6 DEF RowStep, Unread
<1>7. CASE emits /\ own[1] # "idle" /\ r = "flux"
  <2>1. knob' \in Knobs /\ knob'.engine = knob.engine
      BY <1>1, <1>4, <1>7, ValueType DEF Knobs
  <2> QED
      BY <1>1, <1>2, <1>4, <1>5, <1>7, <2>1 DEF RowStep, Unread
<1>8. CASE emits /\ own[1] # "idle" /\ r = "engine"
  <2>1. knob' \in Knobs /\ knob'.engine = Value(r, raw) /\ knob'.flux = knob.flux
      BY <1>1, <1>4, <1>8, ValueType DEF Knobs
  <2>2. hist' \in Hists
      BY <1>1, <1>4, <1>8, TurnedIs
  <2> QED
      BY <1>1, <1>2, <1>4, <1>5, <1>8, <2>1, <2>2 DEF RowStep, Unread
<1> QED
    BY <1>6, <1>7, <1>8 DEF Rows

\* What the take's application does.
LEMMA ApplyIs ==
    ASSUME TypeOK, Apply
    PROVE  /\ knob' \in Knobs /\ take' \in Takes /\ take'.done
           /\ owner' \in [Rows -> Owners] /\ \A r \in Rows : Unread(owner'[r])
           /\ law' = Rearmed(law) /\ law' \in Laws /\ law'.restoring
           /\ excite' = excite_after_take(knob.engine = Bbd, knob'.engine) /\ excite' \in BOOLEAN
           /\ hold' = excite'
<1>1. /\ owner \in [Rows -> Owners] /\ knob \in Knobs /\ take \in Takes /\ law \in Laws
    BY DEF TypeOK, Owners, Knobs, Takes, Laws
<1> DEFINE taken == [r \in Rows |-> IF take.raw[r] = None THEN knob[r] ELSE Value(r, take.raw[r])]
<1>2. "engine" \in Rows /\ "flux" \in Rows
    BY DEF Rows
<1>3. taken["engine"] \in Engines
    BY <1>1, <1>2, ValueType DEF Knobs, Takes
<1>4. taken["flux"] \in {0} \cup Places["flux"] \cup Readings
    BY <1>1, <1>2, ValueType DEF Knobs, Takes
<1>5. taken \in Knobs
    BY <1>3, <1>4 DEF Rows, Knobs
<1>6. knob' = taken
    BY DEF Apply
<1>7. take' \in Takes /\ take'.done
    BY <1>1 DEF Apply, Takes
<1>8. owner' \in [Rows -> Owners] /\ \A r \in Rows : Unread(owner'[r])
    BY <1>1 DEF Apply, pot_release, Owners, Unread
<1>9. law' = Rearmed(law) /\ law' \in Laws /\ law'.restoring
    BY <1>1 DEF Apply, finish_take_law, Rearmed, Laws
<1>10. excite' = excite_after_take(knob.engine = Bbd, knob'.engine) /\ hold' = excite'
    BY <1>6 DEF Apply
<1> QED
    BY <1>5, <1>6, <1>7, <1>8, <1>9, <1>10 DEF excite_after_take

\* A take's application, or none.
Taken ==
    \/ /\ UNCHANGED <<knob, owner, law, excite, hold>>
       /\ take' \in Takes /\ take'.done = take.done
    \/ /\ ~take.done /\ take'.done /\ take' \in Takes /\ knob' \in Knobs
       /\ owner' \in [Rows -> Owners] /\ \A r \in Rows : Unread(owner'[r])
       /\ law' = Rearmed(law) /\ law' \in Laws /\ law'.restoring
       /\ excite' = excite_after_take(knob.engine = Bbd, knob'.engine) /\ excite' \in BOOLEAN
       /\ hold' = excite'

LEMMA TakenIs ==
    ASSUME TypeOK, TakeAll \/ SweepEnd
    PROVE  Taken /\ UNCHANGED <<rec, dead, hand, block, part, moves, hist>>
<1>1. ASSUME Apply, ~take.done PROVE Taken
    BY <1>1, ApplyIs DEF Taken
<1>2. take \in Takes
    BY DEF TypeOK, Takes
<1>3. CASE TakeAll
    BY <1>1, <1>2, <1>3 DEF TakeAll, Taken
<1>4. CASE SweepEnd
  <2>1. CASE ~take.done /\ span' /\ ~(take.sweeps + 1 > TakeSweeps)
    <3>1. [take EXCEPT !.sweeps = @ + 1] \in Takes
        BY <1>2, <2>1, BoundsAssumption DEF Takes
    <3> QED
        BY <1>2, <1>4, <2>1, <3>1 DEF SweepEnd, Taken, Takes
  <2> QED
      BY <1>1, <1>2, <1>4, <2>1 DEF SweepEnd, Taken
<1> QED
    BY <1>3, <1>4

\* The reading of a block's row, if it has one: kept for the take, or handed to
\* the row's owner.
LEMMA ReadPotsIs ==
    ASSUME TypeOK, ReadPots
    PROVE  /\ at = "pots" /\ at' = "take"
           /\ UNCHANGED <<rec, dead, hand, block, span, law, part, excite, hold, moves>>
           /\ \/ UNCHANGED <<knob, owner, hist>> /\ take' \in Takes /\ take'.done = take.done
              \/ /\ take.done /\ take' = take
                 /\ \E r \in Rows, n \in 0..Noise : r = RowAt[block] /\ RowStep(r, hand[r] + n)
<1> DEFINE row == RowAt[block]
<1>1. take \in Takes
    BY DEF TypeOK, Takes
<1>2. CASE row = "none" \/ row \in dead \/ ~span
    BY <1>1, <1>2 DEF ReadPots
<1>3. CASE ~(row = "none" \/ row \in dead \/ ~span)
  <2>1. row \in Rows
    <3>1. block \in 0 .. SweepBlocks - 1
        BY DEF TypeOK
    <3> QED
        BY <1>3, <3>1 DEF RowAt, Rows
  <2> HIDE DEF row
  <2>2. PICK n \in 0..Noise :
            IF take.done
            THEN PotRowStep(row, hand[row] + n) /\ UNCHANGED take
            ELSE /\ take' = [take EXCEPT !.raw[row] = hand[row] + n]
                 /\ UNCHANGED <<knob, owner, hist>>
      BY <1>3 DEF ReadPots, row
  <2>3. hand[row] + n \in Readings
      BY <2>1, ReadingType
  <2>4. CASE take.done
      BY <2>1, <2>2, <2>3, <2>4, RowStepIs DEF ReadPots, row
  <2>5. CASE ~take.done
    <3>1. take' \in Takes /\ take'.done = take.done
        BY <1>1, <2>1, <2>2, <2>3, <2>5 DEF Takes
    <3> QED
        BY <2>2, <2>5, <3>1 DEF ReadPots
  <2> QED
      BY <2>4, <2>5
<1> QED
    BY <1>2, <1>3

LEMMA ReadPotsType ==
    ASSUME TypeOK, ReadPots
    PROVE  TypeOK'
<1>1. /\ at' = "take"
      /\ UNCHANGED <<rec, dead, hand, block, span, law, part, excite, hold, moves>>
    BY ReadPotsIs
<1>2. /\ owner' \in [Rows -> Owners] /\ knob' \in Knobs /\ hist' \in Hists
      /\ take' \in Takes
  <2>1. CASE UNCHANGED <<knob, owner, hist>> /\ take' \in Takes
      BY <2>1 DEF TypeOK, Owners, Knobs, Hists
  <2>2. CASE take' = take /\ \E r \in Rows, n \in 0..Noise : RowStep(r, hand[r] + n)
      BY <2>2 DEF TypeOK, RowStep, Takes
  <2>3. \/ UNCHANGED <<knob, owner, hist>> /\ take' \in Takes
        \/ take' = take /\ \E r \in Rows, n \in 0..Noise : RowStep(r, hand[r] + n)
      BY ReadPotsIs
  <2> QED
      BY <2>1, <2>2, <2>3
<1> QED
    BY <1>1, <1>2 DEF TypeOK, Owners, Knobs, Takes, Laws, Parts, Hists

LEMMA SetEngineIs ==
    ASSUME NEW p \in Parts, NEW e \in Engines
    PROVE  /\ set_engine(p, e) \in Parts /\ set_engine(p, e).engine = p.engine
           /\ e = IF set_engine(p, e).switching THEN set_engine(p, e).pending
                 ELSE set_engine(p, e).engine
           /\ e = (IF p.switching THEN p.pending ELSE p.engine) => set_engine(p, e) = p
<1> DEFINE faded == IF p.switching THEN p.faded ELSE 0
<1>1. faded \in 0 .. FadeBlocks - 1
    BY SweepAssumption DEF Parts
<1>2. CASE e = IF p.switching THEN p.pending ELSE p.engine
    BY <1>2 DEF set_engine
<1>3. CASE e # IF p.switching THEN p.pending ELSE p.engine
  <2>1. set_engine(p, e) = [p EXCEPT !.pending = e, !.switching = TRUE, !.faded = faded]
      BY <1>3 DEF set_engine
  <2> HIDE DEF faded
  <2> QED
      BY <1>1, <1>3, <2>1 DEF Parts
<1> QED
    BY <1>2, <1>3

\* The part after its block of audio: as it was, a block further into the fade,
\* or on the engine it was asked for.
LEMMA AudioIs ==
    ASSUME TypeOK, Audio
    PROVE  /\ at = "audio" /\ at' = "pots"
           /\ block' = IF block = SweepBlocks - 1 THEN 0 ELSE block + 1
           /\ block' \in 0 .. SweepBlocks - 1 /\ part' \in Parts
           /\ UNCHANGED <<rec, dead, hand, knob, span, owner, take, law, excite, hold, moves, hist>>
           /\ \/ ~part.switching /\ part' = part
              \/ /\ part.switching /\ part'.switching /\ part'.faded = part.faded + 1
                 /\ part'.engine = part.engine /\ part'.pending = part.pending
              \/ /\ part.switching /\ ~part'.switching /\ part'.pending = part.pending
                 /\ part'.engine = part.pending
<1>1. part \in Parts /\ block \in 0 .. SweepBlocks - 1
    BY DEF TypeOK, Parts
<1>2. block' = IF block = SweepBlocks - 1 THEN 0 ELSE block + 1
    BY <1>1, SweepAssumption DEF Audio, NextBlock
<1>3. block' \in 0 .. SweepBlocks - 1
    BY <1>1, <1>2, SweepAssumption
<1>4. CASE ~part.switching /\ part' = part
    BY <1>1, <1>2, <1>3, <1>4 DEF Audio
<1>5. CASE part.switching /\ part.faded + 1 < FadeBlocks /\ part' = [part EXCEPT !.faded = @ + 1]
    BY <1>1, <1>2, <1>3, <1>5, SweepAssumption DEF Audio, Parts
<1>6. CASE part.switching /\ part' = [part EXCEPT !.engine = part.pending, !.switching = FALSE,
                                                  !.faded = 0]
  <2>1. part' \in Parts /\ ~part'.switching /\ part'.engine = part.pending
        /\ part'.pending = part.pending
    <3>1. 0 \in 0 .. FadeBlocks - 1
        BY SweepAssumption
    <3> QED
        BY <1>1, <1>6, <3>1 DEF Parts
  <2> QED
    BY <2>1, <1>1, <1>2, <1>3, <1>6, SweepAssumption DEF Audio, Parts
<1> QED
    BY <1>4, <1>5, <1>6 DEF Audio

LEMMA PotReleaseType == ASSUME NEW o \in Owners PROVE pot_release(o) \in Owners /\ Unread(pot_release(o))
BY DEF pot_release, Owners, Unread

LEMMA TypeStep == TypeOK /\ [Next]_vars => TypeOK'
<1> SUFFICES ASSUME TypeOK, [Next]_vars PROVE TypeOK'
    OBVIOUS
<1> USE DEF Owners, Knobs, Takes, Laws, Parts, Hists
<1>1. CASE Move
  <2>1. PICK r \in Rows : \E p \in Places[r] :
            /\ hand' = [hand EXCEPT ![r] = p]
            /\ hist' = IF r = "flux" THEN [hist EXCEPT !.fluxFree = TRUE] ELSE hist
      BY <1>1 DEF Move
  <2>2. Places[r] \subseteq Nat
      BY PlacesAssumption
  <2>3. hist' \in Hists
    <3>1. hist \in Hists /\ [hist EXCEPT !.fluxFree = TRUE] \in Hists
        BY DEF TypeOK
    <3> QED
        BY <2>1, <3>1
  <2>4. hand' \in [Rows -> Nat] /\ \A q \in Rows : hand'[q] \in Places[q]
      BY <2>1, <2>2 DEF TypeOK
  <2>5. moves' \in 0..MaxMoves
      BY <1>1, BoundsAssumption DEF Move, TypeOK
  <2> QED
      BY <1>1, <2>3, <2>4, <2>5 DEF Move, TypeOK
<1>2. CASE ReadPots
    BY <1>2, ReadPotsType
<1>3. CASE TakeAll \/ SweepEnd
  <2>1. at' \in {"law", "audio"} /\ span' \in BOOLEAN
      BY <1>3 DEF TakeAll, SweepEnd, TypeOK
  <2> QED
      BY <1>3, <2>1, TakenIs DEF Taken, TypeOK
<1>4. CASE LawTick
  <2>1. part' \in Parts
      BY <1>4, SetEngineIs DEF LawTick, TypeOK
  <2>2. /\ law' \in Laws /\ excite' \in BOOLEAN /\ hold' \in BOOLEAN
        /\ at' \in {"sweep", "audio"}
      BY <1>4 DEF LawTick, TypeOK, Restoring, Excited, Hold, Edge
  <2>3. knob' \in Knobs /\ hist' \in Hists
    <3>1. /\ knob' = IF Edge(part.engine) THEN [knob EXCEPT !.flux = 0] ELSE knob
          /\ hist' = IF Edge(part.engine) THEN [hist EXCEPT !.owed = @ - 1, !.fluxFree = FALSE]
                     ELSE hist
        BY <1>4 DEF LawTick
    <3>2. [knob EXCEPT !.flux = 0] \in Knobs
        BY DEF TypeOK
    <3>3. [hist EXCEPT !.owed = @ - 1, !.fluxFree = FALSE] \in Hists
      <4>1. hist \in Hists
          BY DEF TypeOK
      <4>2. hist.owed - 1 \in Int
          BY <4>1
      <4> QED
          BY <4>1, <4>2
    <3> QED
        BY <3>1, <3>2, <3>3 DEF TypeOK
  <2>4. owner' \in [Rows -> Owners]
    <3>1. owner["flux"] \in Owners
        BY DEF TypeOK, Rows
    <3>2. FluxOwner(Edge(part.engine)) \in Owners
        BY <3>1, PotReleaseType DEF FluxOwner
    <3>3. owner' = [owner EXCEPT !["flux"] = FluxOwner(Edge(part.engine))]
        BY <1>4 DEF LawTick
    <3> QED
        BY <3>2, <3>3 DEF TypeOK
  <2> QED
      BY <1>4, <2>1, <2>2, <2>3, <2>4 DEF LawTick, TypeOK
<1>5. CASE Audio
    BY <1>5, AudioIs DEF TypeOK
<1>6. CASE UNCHANGED vars
    BY <1>6 DEF vars, TypeOK
<1> QED
    BY <1>1, <1>2, <1>3, <1>4, <1>5, <1>6 DEF Next, Callback

LEMMA InitPatchType == InitPatch.engine \in Engines /\ InitPatch.engine # Bbd /\ InitPatch.flux = 0
BY EnginesAssumption DEF InitPatch

LEMMA TypeInit == Init => TypeOK
<1> SUFFICES ASSUME Init PROVE TypeOK
    OBVIOUS
<1>1. knob \in Knobs
  <2>1. CASE rec = NoRecord
    <3>1. knob = InitPatch
        BY <2>1 DEF Init
    <3> QED
        BY <3>1, InitPatchType DEF InitPatch, Knobs
  <2>2. CASE rec # NoRecord
      BY <2>2 DEF Init, Knobs, Records
  <2> QED
      BY <2>1, <2>2
<1>2. hand \in [Rows -> Nat] /\ \A r \in Rows : hand[r] \in Places[r]
    BY PlacesAssumption DEF Init
<1>3. Free \in Owners
    BY DEF Free, Owners
<1>4. owner \in [Rows -> Owners] /\ take \in Takes
    BY <1>3, BoundsAssumption DEF Init, Takes
<1>5. part \in Parts /\ law \in Laws /\ hist \in Hists
    BY EnginesAssumption, SweepAssumption DEF Init, Parts, Laws, Hists
<1>6. excite \in BOOLEAN /\ hold \in BOOLEAN /\ span \in BOOLEAN
    BY DEF Init, Records
<1>7. rec \in Records \cup {NoRecord} /\ dead \subseteq Rows
    BY DEF Init
<1>8. at = "pots" /\ block \in 0 .. SweepBlocks - 1 /\ moves \in 0..MaxMoves
    BY SweepAssumption, BoundsAssumption DEF Init
<1> QED
    BY <1>1, <1>2, <1>4, <1>5, <1>6, <1>7, <1>8
    DEF TypeOK, Owners, Knobs, Takes, Laws, Parts, Hists

LEMMA TypeInvariant == Spec => []TypeOK
<1>1. TypeOK /\ [Next]_vars => TypeOK'
    BY TypeStep
<1> QED
    BY TypeInit, <1>1, PTL DEF Spec
-----------------------------------------------------------------------------
(* What the callback's steps mean for ENGINE.                               *)

\* The part is on the engine of the knob or on its way there.
Asked == knob.engine = IF part.switching THEN part.pending ELSE part.engine

\* ENGINE's pot has been read since the take released it.
Read == take.done /\ ~Unread(owner["engine"])

\* A reading turns ENGINE only at the sweep's first step, once the pot has been
\* read before.
LEMMA EngineRead ==
    ASSUME TypeOK, ReadPots
    PROVE  /\ take'.done = take.done
           /\ ~take.done => owner' = owner /\ knob' = knob /\ hist' = hist
           /\ ~Unread(owner["engine"]) => ~Unread(owner'["engine"])
           /\ \/ /\ knob'.engine = knob.engine /\ hist' = hist
                 /\ Unread(owner'["engine"]) = Unread(owner["engine"]) \/ block = 0
              \/ block = 0 /\ Read /\ knob'.engine # knob.engine /\ hist' = Turned(knob'.engine)
<1>1. block \in 0 .. SweepBlocks - 1 /\ "engine" \in Rows /\ "flux" \in Rows
    BY DEF TypeOK, Rows
<1>2. CASE UNCHANGED <<knob, owner, hist>> /\ take'.done = take.done
    BY <1>2
<1>3. CASE /\ take.done /\ take' = take
           /\ \E r \in Rows, n \in 0..Noise : r = RowAt[block] /\ RowStep(r, hand[r] + n)
  <2>1. PICK r \in Rows, n \in 0..Noise : r = RowAt[block] /\ RowStep(r, hand[r] + n)
      BY <1>3
  <2>2. CASE r = "flux"
    <3>1. owner'["engine"] = owner["engine"]
        BY <1>1, <2>1, <2>2 DEF RowStep
    <3> QED
        BY <1>3, <2>1, <2>2, <3>1 DEF RowStep
  <2>3. CASE r = "engine"
    <3>1. block = 0
        BY <1>1, <2>1, <2>3 DEF RowAt
    <3>2. Unread(owner["engine"]) => knob' = knob /\ hist' = hist
        BY <2>1, <2>3 DEF RowStep
    <3>3. /\ hist' = IF knob'.engine = knob.engine THEN hist ELSE Turned(knob'.engine)
          /\ ~Unread(owner["engine"]) => ~Unread(owner'["engine"])
        BY <2>1, <2>3 DEF RowStep
    <3> QED
        BY <1>3, <3>1, <3>2, <3>3 DEF Read
  <2> QED
      BY <2>2, <2>3 DEF Rows
<1> QED
    BY <1>2, <1>3, ReadPotsIs

LEMMA LawTickIs ==
    ASSUME TypeOK, LawTick
    PROVE  /\ at = "law" /\ at' \in {"sweep", "audio"}
           /\ UNCHANGED <<rec, hand, block, take>>
           /\ knob'.engine = knob.engine /\ part'.engine = part.engine
           /\ Asked' /\ (Asked => part' = part)
           /\ law'.restoring = (law.restoring /\ part.engine # knob.engine)
           /\ law'.seeded /\ law'.wasBbd = (part.engine = Bbd)
           /\ excite' = Excited(part.engine) /\ hold' = Hold(part.engine)
           /\ owner'["engine"] = owner["engine"]
           /\ owner'["flux"] = FluxOwner(Edge(part.engine))
           /\ knob'.flux = IF Edge(part.engine) THEN 0 ELSE knob.flux
           /\ hist'.turned = hist.turned
           /\ hist'.fluxFree = (hist.fluxFree /\ ~Edge(part.engine))
           /\ hist'.owed = IF Edge(part.engine) THEN hist.owed - 1 ELSE hist.owed
<1>1. /\ part \in Parts /\ knob \in Knobs /\ hist \in Hists /\ owner \in [Rows -> Owners]
    BY DEF TypeOK, Parts, Knobs, Hists, Owners
<1>2. part' = set_engine(part, knob.engine)
    BY DEF LawTick
<1>3. /\ part'.engine = part.engine
      /\ knob.engine = IF part'.switching THEN part'.pending ELSE part'.engine
      /\ Asked => part' = part
    BY <1>1, <1>2, SetEngineIs DEF Knobs, Asked
<1>4. /\ knob' = IF Edge(part.engine) THEN [knob EXCEPT !.flux = 0] ELSE knob
      /\ hist' = IF Edge(part.engine) THEN [hist EXCEPT !.owed = @ - 1, !.fluxFree = FALSE]
                 ELSE hist
      /\ owner' = [owner EXCEPT !["flux"] = FluxOwner(Edge(part.engine))]
    BY DEF LawTick
<1>5. /\ knob'.engine = knob.engine
      /\ knob'.flux = IF Edge(part.engine) THEN 0 ELSE knob.flux
    BY <1>1, <1>4 DEF Knobs
<1>6. /\ hist'.turned = hist.turned
      /\ hist'.fluxFree = (hist.fluxFree /\ ~Edge(part.engine))
      /\ hist'.owed = IF Edge(part.engine) THEN hist.owed - 1 ELSE hist.owed
    BY <1>1, <1>4 DEF Hists
<1>7. owner'["engine"] = owner["engine"] /\ owner'["flux"] = FluxOwner(Edge(part.engine))
    BY <1>1, <1>4 DEF Rows
<1>8. /\ law'.restoring = (law.restoring /\ part.engine # knob.engine)
      /\ law'.seeded /\ law'.wasBbd = (part.engine = Bbd)
    BY DEF LawTick, Restoring
<1> QED
    BY <1>3, <1>5, <1>6, <1>7, <1>8 DEF LawTick, Asked

LEMMA MoveIs ==
    ASSUME TypeOK, Move
    PROVE  /\ UNCHANGED <<rec, at, block, knob, owner, take, law, part, excite, hold>>
           /\ hist'.owed = hist.owed /\ hist'.turned = hist.turned
           /\ ~hist'.fluxFree => ~hist.fluxFree /\ hand'["flux"] = hand["flux"]
<1>1. PICK r \in Rows : \E p \in Places[r] :
          /\ hand' = [hand EXCEPT ![r] = p]
          /\ hist' = IF r = "flux" THEN [hist EXCEPT !.fluxFree = TRUE] ELSE hist
    BY DEF Move
<1>2. hand \in [Rows -> Nat] /\ hist \in Hists
    BY DEF TypeOK, Hists
<1> QED
    BY <1>1, <1>2 DEF Move, Rows, Hists
-----------------------------------------------------------------------------
(* Edges and turns.                                                         *)

\* A turn onto the BBD whose edge is still to come.
TurnUnderWay == ~law.restoring /\ ~law.wasBbd /\ knob.engine = Bbd

\* The engine the deck was booted with.
Booted == IF rec = NoRecord THEN InitPatch.engine ELSE rec.engine

\* Until the take nothing turns ENGINE: the part goes from the boot engine to
\* the booted one.
TakeInv == ~take.done =>
    /\ ~hist.turned
    /\ \A r \in Rows : Unread(owner[r])
    /\ knob.engine = Booted
    /\ part.engine = Bbd => knob.engine = Bbd /\ ~part.switching
    /\ part.switching => part.pending = knob.engine

\* An edge is owed exactly while a turn onto the BBD is under way; once nothing
\* is being restored, the part follows the knob, and the law has seen the
\* running engine or the part has just arrived.
LawInv ==
    /\ hist.owed = IF TurnUnderWay THEN 1 ELSE 0
    /\ ~hist.turned => hist.owed = 0
    /\ ~law.restoring =>
          /\ law.seeded
          /\ law.wasBbd # (part.engine = Bbd) => part.engine = knob.engine
          /\ (block = 0 /\ at \in {"take", "law"}) \/ Asked

\* A turn starts at the first step of a sweep, with nothing under way, and a
\* fade is as old as the block, so it is over when the next sweep starts.
SweepInv == Read =>
    /\ at = "pots" /\ block = 0 => Landed /\ ~hold
    /\ block # 0 \/ at \in {"audio", "sweep"} =>
          Asked /\ law.seeded /\ (part.switching => part.faded >= block)
    /\ at \in {"audio", "sweep"} =>
          (part.switching \/ Landed) /\ (hold => part.engine # knob.engine)

TurnInv == TakeInv /\ LawInv /\ SweepInv

\* An edge is the end of a turn that is under way.
LEMMA EdgeEndsTurn ==
    ASSUME TypeOK, TurnInv, LawTick, Edge(part.engine)
    PROVE  TurnUnderWay /\ hist.turned
<1>1. ~law.restoring /\ part.engine = Bbd /\ ~law.wasBbd
    BY DEF Edge
<1>2. part.engine = knob.engine
    BY <1>1 DEF TurnInv, LawInv, TypeOK, Laws
<1> QED
    BY <1>1, <1>2 DEF TurnUnderWay, TurnInv, LawInv

LEMMA TurnMove ==
    ASSUME TypeOK, TurnInv, Move
    PROVE  TurnInv'
BY MoveIs DEF TurnInv, TakeInv, LawInv, SweepInv, TurnUnderWay, Booted, Asked, Read, Landed, Unread

LEMMA TurnRead ==
    ASSUME TypeOK, TurnInv, ReadPots
    PROVE  TurnInv'
<1>1. /\ at = "pots" /\ at' = "take" /\ UNCHANGED <<rec, block, law, part, hold>>
    BY ReadPotsIs
<1>2. hist \in Hists
    BY DEF TypeOK, Hists
<1>3. CASE /\ knob'.engine = knob.engine /\ hist' = hist
           /\ Unread(owner'["engine"]) = Unread(owner["engine"]) \/ block = 0
  <2>1. TakeInv'
      BY <1>1, <1>3, EngineRead DEF TurnInv, TakeInv, Booted
  <2>2. LawInv'
      BY <1>1, <1>3 DEF TurnInv, LawInv, TurnUnderWay, Asked
  <2>3. SweepInv'
      BY <1>1, <1>3, EngineRead DEF TurnInv, SweepInv, Read, Asked
  <2> QED
      BY <2>1, <2>2, <2>3 DEF TurnInv
<1>4. CASE block = 0 /\ Read /\ knob'.engine # knob.engine /\ hist' = Turned(knob'.engine)
  <2>1. Landed
      BY <1>1, <1>4 DEF TurnInv, SweepInv
  <2>2. take'.done
      BY <1>4, EngineRead DEF Read
  <2>3. hist'.turned /\ hist'.owed = IF knob'.engine = Bbd THEN hist.owed + 1 ELSE hist.owed
      BY <1>2, <1>4, TurnedIs
  <2>4. hist.owed = 0
      BY <2>1 DEF TurnInv, LawInv, TurnUnderWay, Landed
  <2>5. TurnUnderWay' <=> knob'.engine = Bbd
      BY <1>1, <1>4, <2>1 DEF TurnUnderWay, Landed, TypeOK
  <2>6. LawInv'
    <3>1. hist'.owed = IF TurnUnderWay' THEN 1 ELSE 0
        BY <2>3, <2>4, <2>5
    <3>2. law'.seeded /\ ~(law'.wasBbd # (part'.engine = Bbd))
        BY <1>1, <2>1 DEF Landed
    <3> QED
        BY <1>1, <1>4, <2>3, <3>1, <3>2 DEF LawInv
  <2>7. SweepInv'
      BY <1>1, <1>4 DEF SweepInv
  <2> QED
      BY <2>2, <2>6, <2>7 DEF TurnInv, TakeInv
<1> QED
    BY <1>3, <1>4, EngineRead

LEMMA TurnTaken ==
    ASSUME TypeOK, TurnInv, TakeAll \/ SweepEnd
    PROVE  TurnInv'
<1>1. Taken /\ UNCHANGED <<rec, block, part, hist>>
    BY TakenIs
<1>2. (at = "take" /\ at' = "law") \/ (at = "sweep" /\ at' = "audio")
    BY DEF TakeAll, SweepEnd
<1>3. CASE UNCHANGED <<knob, owner, law, excite, hold>> /\ take'.done = take.done
    BY <1>1, <1>2, <1>3 DEF TurnInv, TakeInv, LawInv, SweepInv, TurnUnderWay, Booted, Asked,
                            Read, Landed, Unread
<1>4. CASE /\ ~take.done /\ take'.done /\ \A r \in Rows : Unread(owner'[r])
           /\ law'.restoring
  <2>1. ~Read'
      BY <1>4 DEF Read, Unread, Rows
  <2>2. hist.owed = 0 /\ hist' = hist
      BY <1>1, <1>4 DEF TurnInv, TakeInv, LawInv
  <2> QED
      BY <1>4, <2>1, <2>2 DEF TurnInv, TakeInv, LawInv, SweepInv, TurnUnderWay
<1> QED
    BY <1>1, <1>3, <1>4 DEF Taken

LEMMA TurnLaw ==
    ASSUME TypeOK, TurnInv, LawTick
    PROVE  TurnInv'
<1>1. /\ at = "law" /\ at' \in {"sweep", "audio"} /\ UNCHANGED <<rec, block, take>>
      /\ knob'.engine = knob.engine /\ part'.engine = part.engine
      /\ Asked' /\ (Asked => part' = part)
      /\ law'.restoring = (law.restoring /\ part.engine # knob.engine)
      /\ law'.seeded /\ law'.wasBbd = (part.engine = Bbd)
      /\ hold' = Hold(part.engine)
      /\ owner'["engine"] = owner["engine"]
      /\ hist'.turned = hist.turned
      /\ hist'.owed = IF Edge(part.engine) THEN hist.owed - 1 ELSE hist.owed
    BY LawTickIs
<1>2. /\ part \in Parts /\ part' \in Parts /\ law \in Laws /\ hist \in Hists
      /\ block \in 0 .. SweepBlocks - 1
  <2>1. TypeOK'
      BY TypeStep DEF Next, Callback
  <2> QED
      BY <2>1 DEF TypeOK, Parts, Laws, Hists
<1>3. TakeInv'
  <2> SUFFICES ASSUME ~take.done PROVE TakeInv'
      BY <1>1 DEF TakeInv
  <2>1. /\ ~hist.turned /\ \A r \in Rows : Unread(owner[r])
        /\ knob.engine = Booted
        /\ part.engine = Bbd => knob.engine = Bbd /\ ~part.switching
      BY DEF TurnInv, TakeInv
  <2>2. ~Edge(part.engine)
      BY <2>1, EdgeEndsTurn
  <2>3. \A r \in Rows : Unread(owner'[r])
      BY <1>1, <2>1, <2>2, LawTickIs DEF FluxOwner, Rows
  <2>4. part.engine = Bbd => part' = part
      BY <1>1, <2>1 DEF Asked
  <2>5. part'.switching => part'.pending = knob'.engine
      BY <1>1 DEF Asked
  <2> QED
      BY <1>1, <2>1, <2>3, <2>4, <2>5 DEF TakeInv, Booted
<1>4. LawInv'
  <2>1. hist'.owed = IF TurnUnderWay' THEN 1 ELSE 0
    <3>1. CASE Edge(part.engine)
      <4>1. TurnUnderWay /\ part.engine = Bbd
          BY <3>1, EdgeEndsTurn DEF Edge
      <4>2. hist.owed = 1
          BY <4>1 DEF TurnInv, LawInv
      <4>3. ~TurnUnderWay'
          BY <1>1, <4>1 DEF TurnUnderWay
      <4> QED
          BY <1>1, <3>1, <4>2, <4>3
    <3>2. CASE ~Edge(part.engine) /\ law.restoring
        BY <1>1, <3>2 DEF TurnInv, LawInv, TurnUnderWay
    <3>3. CASE ~Edge(part.engine) /\ ~law.restoring
      <4>1. /\ law.seeded
            /\ law.wasBbd # (part.engine = Bbd) => part.engine = knob.engine
          BY <3>3 DEF TurnInv, LawInv
      <4>2. law.wasBbd \/ part.engine # Bbd
          BY <3>3, <4>1 DEF Edge
      <4>3. hist.owed = IF TurnUnderWay THEN 1 ELSE 0
          BY DEF TurnInv, LawInv
      <4>4. TurnUnderWay' = TurnUnderWay
          BY <1>1, <1>2, <3>3, <4>1, <4>2 DEF TurnUnderWay, Laws
      <4> QED
          BY <1>1, <3>3, <4>3, <4>4
    <3> QED
        BY <3>1, <3>2, <3>3
  <2>2. ~hist'.turned => hist'.owed = 0
      BY <1>1, EdgeEndsTurn DEF TurnInv, LawInv
  <2> QED
      BY <1>1, <2>1, <2>2 DEF LawInv
<1>5. SweepInv'
  <2> SUFFICES ASSUME Read PROVE SweepInv'
      BY <1>1 DEF SweepInv, Read
  <2>1. part'.switching => part'.faded >= block'
    <3>1. CASE block = 0
        BY <1>1, <1>2, <3>1 DEF Parts
    <3>2. CASE block # 0
        BY <1>1, <3>2 DEF TurnInv, SweepInv
    <3> QED
        BY <3>1, <3>2
  <2>2. ~part'.switching => Landed'
      BY <1>1, <1>2 DEF Asked, Landed, Parts
  <2>3. hold' => part'.engine # knob'.engine
      BY <1>1 DEF Hold
  <2> QED
      BY <1>1, <2>1, <2>2, <2>3 DEF SweepInv
<1> QED
    BY <1>3, <1>4, <1>5 DEF TurnInv

LEMMA TurnAudio ==
    ASSUME TypeOK, TurnInv, Audio
    PROVE  TurnInv'
<1>1. /\ at = "audio" /\ at' = "pots"
      /\ block' = IF block = SweepBlocks - 1 THEN 0 ELSE block + 1
      /\ UNCHANGED <<rec, knob, owner, take, law, hold, hist>>
    BY AudioIs
<1>2. /\ part \in Parts /\ block \in 0 .. SweepBlocks - 1
      /\ FadeBlocks \in Nat /\ SweepBlocks \in Nat /\ SweepBlocks > FadeBlocks
    BY SweepAssumption DEF TypeOK, Parts
<1>3. \/ ~part.switching /\ part' = part
      \/ /\ part.switching /\ part'.switching /\ part'.faded = part.faded + 1
         /\ part'.engine = part.engine /\ part'.pending = part.pending
      \/ /\ part.switching /\ ~part'.switching /\ part'.pending = part.pending
         /\ part'.engine = part.pending
    BY AudioIs
<1>4. Asked => Asked'
    BY <1>1, <1>3 DEF Asked
<1>5. TakeInv'
    BY <1>1, <1>3 DEF TurnInv, TakeInv, Booted
<1>6. LawInv'
  <2>1. ~law.restoring => Asked
      BY <1>1 DEF TurnInv, LawInv
  <2>2. ~law'.restoring /\ law'.wasBbd # (part'.engine = Bbd) => part'.engine = knob'.engine
      BY <1>1, <1>3, <2>1 DEF TurnInv, LawInv, Asked
  <2> QED
      BY <1>1, <1>4, <2>1, <2>2 DEF TurnInv, LawInv, TurnUnderWay
<1>7. SweepInv'
  <2> SUFFICES ASSUME Read PROVE SweepInv'
      BY <1>1 DEF SweepInv, Read
  <2>1. /\ Asked /\ law.seeded /\ (part.switching => part.faded >= block)
        /\ part.switching \/ Landed
        /\ hold => part.engine # knob.engine
      BY <1>1 DEF TurnInv, SweepInv
  <2>2. CASE block = SweepBlocks - 1
    <3>1. ~part.switching
        BY <1>2, <2>1, <2>2 DEF Parts
    <3>2. Landed /\ part' = part
        BY <1>3, <2>1, <3>1
    <3>3. Landed' /\ ~hold'
        BY <1>1, <2>1, <3>2 DEF Landed
    <3> QED
        BY <1>1, <2>2, <3>3 DEF SweepInv
  <2>3. CASE block # SweepBlocks - 1
    <3>1. block' = block + 1 /\ block' # 0
        BY <1>1, <1>2, <2>3
    <3>2. part'.switching => part'.faded >= block'
        BY <1>2, <1>3, <2>1, <3>1 DEF Parts
    <3> QED
        BY <1>1, <1>4, <2>1, <3>1, <3>2 DEF SweepInv
  <2> QED
      BY <2>2, <2>3
<1> QED
    BY <1>5, <1>6, <1>7 DEF TurnInv

LEMMA TurnStep == TypeOK /\ TurnInv /\ [Next]_vars => TurnInv'
<1>1. ASSUME TurnInv, UNCHANGED vars PROVE TurnInv'
    BY <1>1 DEF vars, TurnInv, TakeInv, LawInv, SweepInv, TurnUnderWay, Booted, Asked, Read,
                Landed, Unread
<1> QED
    BY <1>1, TurnMove, TurnRead, TurnTaken, TurnLaw, TurnAudio DEF Next, Callback

LEMMA TurnInit == Init => TurnInv
<1> SUFFICES ASSUME Init PROVE TurnInv
    OBVIOUS
<1>1. TakeInv
    BY EnginesAssumption DEF Init, TakeInv, Booted, Unread, Free
<1>2. LawInv
    BY DEF Init, LawInv, TurnUnderWay
<1>3. SweepInv
    BY DEF Init, SweepInv, Read
<1> QED
    BY <1>1, <1>2, <1>3 DEF TurnInv

\* FLUX is dropped once for every turn of ENGINE onto the BBD and never for a
\* restored engine, for every sweep longer than a fade (BbdEdgeState::tick()
\* after control_boot() and control_rearm_after_take()).
THEOREM EdgesAreTheTurns == Spec => []EdgesAreTurns
<1>1. TypeOK /\ TurnInv /\ [Next]_vars => TurnInv'
    BY TurnStep
<1>2. TypeOK /\ TurnInv => EdgesAreTurns
  <2>1. TypeOK /\ Landed => ~TurnUnderWay
      BY DEF TypeOK, Landed, TurnUnderWay
  <2> QED
      BY <2>1 DEF TurnInv, LawInv, EdgesAreTurns
<1> QED
    BY <1>1, <1>2, TurnInit, TypeInvariant, PTL DEF Spec
-----------------------------------------------------------------------------
(* The excite flag.                                                         *)

\* The record found at boot is of the BBD.
Recorded == rec # NoRecord /\ rec.engine = Bbd

\* Until a pot has turned ENGINE the flag is the take's, held until the BBD
\* runs; from then on the law's view of the running engine and the flag agree
\* where it matters.
ExciteInv ==
    /\ take.done /\ ~hist.turned =>
          /\ excite = (knob.engine = Bbd /\ (Recorded => rec.excite))
          /\ part.engine # Bbd \/ knob.engine # Bbd => hold = excite
          /\ part.engine = Bbd /\ knob.engine = Bbd /\ part.switching => part.pending = Bbd
    /\ hist.turned =>
          /\ ~hold /\ ~law.restoring /\ Read
          /\ excite => law.wasBbd
          /\ law.wasBbd /\ knob.engine = Bbd => excite

LEMMA ExciteMove ==
    ASSUME TypeOK, ExciteInv, Move
    PROVE  ExciteInv'
BY MoveIs DEF ExciteInv, Recorded, Read, Unread

LEMMA ExciteRead ==
    ASSUME TypeOK, TurnInv, ExciteInv, ReadPots
    PROVE  ExciteInv'
<1>1. /\ at = "pots" /\ UNCHANGED <<rec, law, part, excite, hold>>
    BY ReadPotsIs
<1>2. /\ hist \in Hists /\ law.wasBbd \in BOOLEAN /\ excite \in BOOLEAN /\ hold \in BOOLEAN
    BY DEF TypeOK, Hists
<1>3. CASE knob'.engine = knob.engine /\ hist' = hist
    BY <1>1, <1>3, EngineRead DEF ExciteInv, Recorded, Read
<1>4. CASE block = 0 /\ Read /\ knob'.engine # knob.engine /\ hist' = Turned(knob'.engine)
  <2>1. Landed /\ ~hold
      BY <1>1, <1>4 DEF TurnInv, SweepInv
  <2>2. hist'.turned /\ Read'
      BY <1>2, <1>4, EngineRead, TurnedIs DEF Read
  <2>3. excite => knob.engine = Bbd
      BY <1>2, <1>4, <2>1 DEF ExciteInv, Landed, Read
  <2>4. law.wasBbd <=> knob.engine = Bbd
      BY <1>2, <2>1 DEF Landed
  <2>5. ~law.restoring
      BY <2>1 DEF Landed
  <2> QED
      BY <1>1, <1>4, <2>1, <2>2, <2>3, <2>4, <2>5 DEF ExciteInv
<1> QED
    BY <1>3, <1>4, EngineRead

\* A deck that was on the BBD keeps the recorded flag, one that the take turns
\* onto it is excited.
LEMMA ExciteTaken ==
    ASSUME TypeOK, TurnInv, ExciteInv, TakeAll \/ SweepEnd
    PROVE  ExciteInv'
<1>1. Taken /\ UNCHANGED <<rec, part, hist>>
    BY TakenIs
<1>2. CASE UNCHANGED <<knob, owner, law, excite, hold>> /\ take'.done = take.done
    BY <1>1, <1>2 DEF ExciteInv, Recorded, Read
<1>3. CASE /\ ~take.done /\ take'.done
           /\ excite' = excite_after_take(knob.engine = Bbd, knob'.engine) /\ hold' = excite'
  <2>1. /\ ~hist.turned /\ knob.engine = Booted
        /\ part.engine = Bbd => ~part.switching
      BY <1>3 DEF TurnInv, TakeInv
  <2>2. knob.engine = Bbd <=> Recorded
      BY <2>1, InitPatchType DEF Booted, Recorded
  <2>3. Recorded => rec.excite \in BOOLEAN
      BY DEF Recorded, TypeOK, Records
  <2>4. excite' = (knob'.engine = Bbd /\ (Recorded => rec.excite))
      BY <1>3, <2>2, <2>3 DEF excite_after_take, Recorded
  <2> QED
      BY <1>1, <1>3, <2>1, <2>4 DEF ExciteInv, Recorded
<1> QED
    BY <1>1, <1>2, <1>3 DEF Taken

LEMMA ExciteLaw ==
    ASSUME TypeOK, TurnInv, ExciteInv, LawTick
    PROVE  ExciteInv'
<1>1. /\ UNCHANGED <<rec, take>>
      /\ knob'.engine = knob.engine /\ part'.engine = part.engine
      /\ Asked'
      /\ law'.restoring = (law.restoring /\ part.engine # knob.engine)
      /\ law'.wasBbd = (part.engine = Bbd)
      /\ excite' = Excited(part.engine) /\ hold' = Hold(part.engine)
      /\ owner'["engine"] = owner["engine"]
      /\ hist'.turned = hist.turned
    BY LawTickIs
<1>2. /\ law \in Laws /\ excite \in BOOLEAN /\ hold \in BOOLEAN
    BY DEF TypeOK, Laws
<1>3. /\ hold' <=> hold /\ knob.engine = Bbd /\ part.engine # Bbd
      /\ excite' <=> Edge(part.engine) \/ (excite /\ part.engine = Bbd) \/ hold'
    BY <1>1 DEF Excited, Hold
<1>4. excite' \in BOOLEAN /\ hold' \in BOOLEAN
    BY <1>1, <1>2 DEF Excited, Hold, Edge
<1>5. CASE ~hist.turned
  <2>1. ~Edge(part.engine)
      BY <1>5, EdgeEndsTurn
  <2> SUFFICES ASSUME take.done PROVE ExciteInv'
      BY <1>1, <1>5 DEF ExciteInv
  <2>2. /\ excite = (knob.engine = Bbd /\ (Recorded => rec.excite))
        /\ part.engine # Bbd \/ knob.engine # Bbd => hold = excite
      BY <1>5 DEF ExciteInv
  <2>3. excite' = excite
      BY <1>2, <1>3, <1>4, <2>1, <2>2
  <2>4. part.engine # Bbd \/ knob.engine # Bbd => hold' = excite
      BY <1>2, <1>3, <1>4, <2>2
  <2>5. part'.engine = Bbd /\ knob'.engine = Bbd /\ part'.switching => part'.pending = Bbd
      BY <1>1 DEF Asked
  <2> QED
      BY <1>1, <1>5, <2>2, <2>3, <2>4, <2>5 DEF ExciteInv, Recorded
<1>6. CASE hist.turned
  <2>1. /\ ~hold /\ ~law.restoring /\ Read
        /\ law.wasBbd /\ knob.engine = Bbd => excite
      BY <1>6 DEF ExciteInv
  <2>2. law.seeded
      BY <2>1 DEF TurnInv, LawInv
  <2>3. ~hold' /\ ~law'.restoring /\ Read'
      BY <1>1, <1>3, <2>1 DEF Read
  <2>4. excite' => law'.wasBbd
      BY <1>1, <1>3, <2>1 DEF Edge
  <2>5. law'.wasBbd /\ knob'.engine = Bbd => excite'
      BY <1>1, <1>3, <2>1, <2>2 DEF Edge
  <2> QED
      BY <1>1, <1>6, <2>3, <2>4, <2>5 DEF ExciteInv
<1> QED
    BY <1>5, <1>6

LEMMA ExciteAudio ==
    ASSUME TypeOK, ExciteInv, Audio
    PROVE  ExciteInv'
<1>1. UNCHANGED <<rec, knob, owner, take, law, excite, hold, hist>>
    BY AudioIs
<1>2. \/ ~part.switching /\ part' = part
      \/ /\ part.switching /\ part'.switching
         /\ part'.engine = part.engine /\ part'.pending = part.pending
      \/ part.switching /\ ~part'.switching /\ part'.engine = part.pending
    BY AudioIs
<1> QED
    BY <1>1, <1>2 DEF ExciteInv, Recorded, Read

LEMMA ExciteStep == TypeOK /\ TurnInv /\ ExciteInv /\ [Next]_vars => ExciteInv'
<1>1. ASSUME ExciteInv, UNCHANGED vars PROVE ExciteInv'
    BY <1>1 DEF vars, ExciteInv, Recorded, Read, Unread
<1> QED
    BY <1>1, ExciteMove, ExciteRead, ExciteTaken, ExciteLaw, ExciteAudio DEF Next, Callback

\* Whenever no turn is under way, the flag a save would store is the one the
\* player, the take or the record gave the deck, also while the restored engine
\* has not landed (excite_after_take(), apply_excite_hold()).
THEOREM ExciteFlagIsRight == Spec => []ExciteIsRight
<1>1. Init => ExciteInv
    BY DEF Init, ExciteInv
<1>2. TypeOK /\ TurnInv /\ [Next]_vars => TurnInv'
    BY TurnStep
<1>3. TypeOK /\ TurnInv /\ ExciteInv /\ [Next]_vars => ExciteInv'
    BY ExciteStep
<1>4. TypeOK /\ ExciteInv => ExciteIsRight
  <2> SUFFICES ASSUME TypeOK, ExciteInv, take.done, Landed \/ ~hist.turned
               PROVE  excite = (/\ knob.engine = Bbd
                                /\ ~hist.turned /\ Recorded => rec.excite)
      BY DEF ExciteIsRight, Recorded
  <2>1. excite \in BOOLEAN /\ law.wasBbd \in BOOLEAN
      BY DEF TypeOK
  <2>2. CASE ~hist.turned
      BY <2>2 DEF ExciteInv
  <2>3. CASE hist.turned /\ Landed
    <3>1. law.wasBbd <=> knob.engine = Bbd
        BY <2>1, <2>3 DEF Landed
    <3>2. excite <=> knob.engine = Bbd
        BY <2>3, <3>1 DEF ExciteInv
    <3> QED
        BY <2>1, <2>3, <3>2
  <2> QED
      BY <2>2, <2>3
<1> QED
    BY <1>1, <1>2, <1>3, <1>4, TurnInit, TypeInvariant, PTL DEF Spec

-----------------------------------------------------------------------------
(* FLUX after an edge.                                                      *)

\* Since the edge the pot is not the owner, and its reference, once read, is a
\* reading of the position the pot still has.
FluxInv == ~hist.fluxFree =>
    /\ hist.turned /\ ~owner["flux"].owned
    /\ owner["flux"].ref = None \/ owner["flux"].ref \in hand["flux"] .. hand["flux"] + Noise

LEMMA FluxRead ==
    ASSUME TypeOK, FluxInv, ReadPots
    PROVE  FluxInv' /\ (~hist.fluxFree => knob'.flux = knob.flux)
<1>1. UNCHANGED hand /\ hist \in Hists /\ hand["flux"] \in Nat /\ Noise \in Nat /\ Noise <= Touch
      /\ Touch \in Nat
    BY ReadPotsIs, TouchAssumption DEF TypeOK, Hists, Rows
<1>2. CASE UNCHANGED <<knob, owner, hist>>
    BY <1>1, <1>2 DEF FluxInv
<1>3. CASE \E r \in Rows, n \in 0..Noise : RowStep(r, hand[r] + n)
  <2>1. PICK r \in Rows, n \in 0..Noise : RowStep(r, hand[r] + n)
      BY <1>3
  <2>2. CASE r = "engine"
    <3>1. owner'["flux"] = owner["flux"] /\ knob'.flux = knob.flux
        BY <2>1, <2>2 DEF RowStep, Rows
    <3>2. ~hist'.fluxFree => ~hist.fluxFree /\ (hist.turned => hist'.turned)
        BY <1>1, <2>1, <2>2, TurnedIs DEF RowStep
    <3> QED
        BY <1>1, <3>1, <3>2 DEF FluxInv
  <2>3. CASE r = "flux"
    <3>1. hist' = hist
        BY <2>1, <2>3 DEF RowStep
    <3> SUFFICES ASSUME ~hist.fluxFree
                 PROVE  /\ knob' = knob /\ ~owner'["flux"].owned
                        /\ owner'["flux"].ref \in hand["flux"] .. hand["flux"] + Noise
        BY <1>1, <3>1 DEF FluxInv
    <3>2. hand["flux"] + n \in hand["flux"] .. hand["flux"] + Noise
        BY <1>1
    <3>3. CASE owner["flux"].ref = None
        BY <2>1, <2>3, <3>2, <3>3 DEF FluxInv, RowStep, Unread
    <3>4. CASE owner["flux"].ref # None
      <4>1. ~owner["flux"].owned /\ owner["flux"].ref \in hand["flux"] .. hand["flux"] + Noise
          BY <3>4 DEF FluxInv
      \* Two readings of one position are no touch.
      <4>2. ~Far(hand["flux"] + n, owner["flux"].ref, Touch)
          BY <1>1, <4>1 DEF Far
      <4> QED
          BY <2>1, <2>3, <3>4, <4>1, <4>2 DEF RowStep, Unread
    <3> QED
        BY <3>3, <3>4
  <2> QED
      BY <2>2, <2>3 DEF Rows
<1> QED
    BY <1>2, <1>3, ReadPotsIs

LEMMA FluxStep ==
    ASSUME TypeOK, TurnInv, FluxInv, [Next]_vars
    PROVE  FluxInv' /\ (~hist.fluxFree => knob'.flux = knob.flux \/ knob'.flux = 0)
<1>1. CASE Move
    BY <1>1, MoveIs DEF FluxInv
<1>2. CASE ReadPots
    BY <1>2, FluxRead
<1>3. CASE TakeAll \/ SweepEnd
  <2>1. Taken /\ UNCHANGED <<hand, hist>>
      BY <1>3, TakenIs
  <2>2. ~hist.fluxFree => take.done
      BY DEF FluxInv, TurnInv, TakeInv
  <2> QED
      BY <2>1, <2>2 DEF FluxInv, Taken
<1>4. CASE LawTick
  <2>1. owner["flux"] \in Owners
      BY DEF TypeOK, Rows, Owners
  <2>2. /\ Edge(part.engine) => hist.turned
        /\ Edge(part.engine) => Unread(owner'["flux"])
        /\ ~Edge(part.engine) => owner'["flux"] = owner["flux"]
      BY <1>4, <2>1, EdgeEndsTurn, LawTickIs, PotReleaseType DEF FluxOwner
  <2>3. hist'.turned = hist.turned /\ hist'.fluxFree = (hist.fluxFree /\ ~Edge(part.engine))
        /\ hand' = hand /\ knob'.flux = IF Edge(part.engine) THEN 0 ELSE knob.flux
      BY <1>4, LawTickIs
  <2> QED
      BY <2>2, <2>3 DEF FluxInv, Unread
<1>5. CASE Audio
    BY <1>5, AudioIs DEF FluxInv
<1>6. CASE UNCHANGED vars
    BY <1>6 DEF vars, FluxInv
<1> QED
    BY <1>1, <1>2, <1>3, <1>4, <1>5, <1>6 DEF Next, Callback

\* After an edge FLUX stays at 0 until its pot is moved, for every noise up to
\* the touch threshold (apply_law_events(), PotOwner's reference).
THEOREM FluxWaits == Spec => FluxWaitsForThePlayer
<1>1. Init => FluxInv
    BY DEF Init, FluxInv
<1>2. TypeOK /\ TurnInv /\ [Next]_vars => TurnInv'
    BY TurnStep
<1>3. TypeOK /\ TurnInv /\ FluxInv /\ [Next]_vars => FluxInv'
    BY FluxStep
<1>4. TypeOK /\ TurnInv /\ FluxInv /\ [Next]_vars =>
          [knob.flux = 0 /\ knob'.flux # 0 => hist.fluxFree]_vars
    BY FluxStep
<1> QED
    BY <1>1, <1>2, <1>3, <1>4, TurnInit, TypeInvariant, PTL DEF Spec, FluxWaitsForThePlayer
=============================================================================
