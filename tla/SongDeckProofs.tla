--------------------------- MODULE SongDeckProofs ---------------------------
(***************************************************************************)
(* Proofs about a deck, its song and its step clock, for every set of knob  *)
(* positions, every ladder of songs and every grid.                         *)
(***************************************************************************)
EXTENDS DeckClock, TLAPS

Fields == {"step", "notes", "steps", "pos", "cur", "since", "len", "bound", "phrase", "active",
           "form", "pending_form", "song", "pending_song",
           "form_pending", "song_pending", "new_pending", "length_pending"}

IsLane(l) ==
    /\ l = [f \in Fields |-> l[f]]
    /\ l.step \in BOOLEAN /\ l.notes \in BOOLEAN /\ l.bound \in BOOLEAN
    /\ l.form_pending \in BOOLEAN /\ l.song_pending \in BOOLEAN
    /\ l.new_pending \in BOOLEAN /\ l.length_pending \in BOOLEAN
    /\ l.song \in Songs /\ l.pending_song \in Songs

\* Two lanes in the same mode, with the same slots.
SameMode(l, m) == m.step = l.step /\ m.notes = l.notes /\ m.steps = l.steps

\* Two lanes with the same work pending.
SameWork(l, m) ==
    /\ m.form_pending = l.form_pending /\ m.song_pending = l.song_pending
    /\ m.new_pending = l.new_pending /\ m.length_pending = l.length_pending

\* The same phrase of the same song.
SamePhrase(l, m) ==
    m.phrase = l.phrase /\ m.active = l.active /\ m.song = l.song /\ m.bound = l.bound

SameAsked(l, m) == m.pending_form = l.pending_form /\ m.pending_song = l.pending_song

SamePlace(l, m) == m.pos = l.pos /\ m.cur = l.cur

\* What the lane's own operations keep.
InStep(l) ==
    /\ l.active = song_symbol_at(l.song, l.phrase)
    /\ l.active = 1 => l.bound

Owed(l) == l.len = effective_length(l) \/ l.length_pending

LaneOK(l) == IsLane(l) /\ Owed(l) /\ InStep(l)

-----------------------------------------------------------------------------
(* The lane's operations, field by field.                                   *)

LEMMA SameLength == ASSUME NEW l, NEW m, SameMode(l, m) PROVE effective_length(m) = effective_length(l)
BY DEF SameMode, effective_length, FlowMelody

LEMMA SetFormIs ==
    ASSUME NEW l, IsLane(l), NEW f, NEW m, m = set_form(l, f)
    PROVE  /\ IsLane(m) /\ SameMode(l, m) /\ SamePhrase(l, m) /\ SamePlace(l, m)
           /\ m.len = l.len /\ m.new_pending = l.new_pending
           /\ m.length_pending = l.length_pending
           /\ m.pending_form = f /\ m.pending_song = l.pending_song
BY DEF set_form, IsLane, Fields, SameMode, SamePhrase, SamePlace

LEMMA SetSongIs ==
    ASSUME NEW l, IsLane(l), NEW s \in Songs, NEW m, m = set_song(l, s)
    PROVE  /\ IsLane(m) /\ SameMode(l, m) /\ SamePhrase(l, m) /\ SamePlace(l, m)
           /\ m.len = l.len /\ m.new_pending = l.new_pending
           /\ m.length_pending = l.length_pending
           /\ m.pending_song = s /\ m.pending_form = l.pending_form
BY DEF set_song, IsLane, Fields, SameMode, SamePhrase, SamePlace

LEMMA NewPhraseIs ==
    ASSUME NEW l, IsLane(l), NEW m, m = new_phrase(l)
    PROVE  /\ IsLane(m) /\ SameMode(l, m) /\ SamePhrase(l, m) /\ SamePlace(l, m)
           /\ m.len = l.len /\ m.new_pending /\ m.length_pending = l.length_pending
           /\ SameAsked(l, m)
BY DEF new_phrase, IsLane, Fields, SameMode, SamePhrase, SamePlace, SameAsked

LEMMA ResetIs ==
    ASSUME NEW l, IsLane(l), NEW pos, NEW m, m = reset(l, pos)
    PROVE  /\ IsLane(m) /\ SameMode(l, m) /\ SamePhrase(l, m) /\ SameWork(l, m)
           /\ SameAsked(l, m) /\ m.len = l.len /\ m.pos = pos /\ m.cur = -1
BY DEF reset, IsLane, Fields, SameMode, SamePhrase, SameWork, SameAsked

LEMMA VariedIs ==
    ASSUME NEW l, IsLane(l), NEW m, m = Varied(l)
    PROVE  /\ IsLane(m) /\ SameMode(l, m) /\ SameWork(l, m) /\ SameAsked(l, m) /\ SamePlace(l, m)
           /\ m.len = l.len /\ m.phrase = l.phrase /\ m.active = l.active /\ m.song = l.song
           /\ l.active # 0 => m.bound = l.bound
BY DEF Varied, IsLane, Fields, SameMode, SameWork, SameAsked, SamePlace

LEMMA RebuiltIs ==
    ASSUME NEW l, IsLane(l), NEW m, m = Rebuilt(l)
    PROVE  /\ IsLane(m) /\ SameMode(l, m) /\ SameWork(l, m) /\ SameAsked(l, m) /\ SamePlace(l, m)
           /\ m.len = effective_length(l) /\ m.song = l.song
BY DEF Rebuilt, IsLane, Fields, SameMode, SameWork, SameAsked, SamePlace

LEMMA AdoptedIs ==
    ASSUME NEW l, IsLane(l), NEW m, m = Adopted(l)
    PROVE  /\ IsLane(m) /\ SameMode(l, m) /\ SameWork(l, m) /\ SameAsked(l, m) /\ SamePlace(l, m)
           /\ m.len = l.len
BY DEF Adopted, IsLane, Fields, SameMode, SameWork, SameAsked, SamePlace

LEMMA DoneIs ==
    ASSUME NEW l, IsLane(l), NEW m, m = Done(l)
    PROVE  /\ IsLane(m) /\ SameMode(l, m) /\ SamePhrase(l, m) /\ SameAsked(l, m) /\ SamePlace(l, m)
           /\ m.len = l.len /\ ~Pending(m) /\ ~m.new_pending /\ ~m.length_pending
BY DEF Done, Pending, IsLane, Fields, SameMode, SamePhrase, SameAsked, SamePlace

LEMMA PlayFromIs ==
    ASSUME NEW l, IsLane(l), NEW p, NEW m, m = PlayFrom(l, p)
    PROVE  /\ IsLane(m) /\ SameMode(l, m) /\ SameWork(l, m) /\ SameAsked(l, m) /\ SamePlace(l, m)
           /\ m.len = l.len /\ m.song = l.song /\ m.phrase = p /\ InStep(m)
BY DEF PlayFrom, Bound, InStep, IsLane, Fields, SameMode, SameWork, SameAsked, SamePlace

\* Nothing is asked of the lane that was not: the work is done, or it is as it was.
Answered(l, m) ==
    /\ SameMode(l, m) /\ SameAsked(l, m)
    /\ (~Pending(m) \/ (SameWork(l, m) /\ m.len = l.len))

LEMMA AnsweredTwice ==
    ASSUME NEW l, NEW m, NEW n, Answered(l, m), Answered(m, n) PROVE Answered(l, n)
BY DEF Answered, SameMode, SameAsked, SameWork, Pending

LEMMA OwedKept ==
    ASSUME NEW l, NEW m, Owed(l), Answered(l, m), Pending(m) \/ m.len = effective_length(m)
    PROVE  Owed(m)
BY SameLength DEF Owed, Answered, SameWork

LEMMA StepKept ==
    ASSUME NEW l, NEW m, InStep(l), SamePhrase(l, m) PROVE InStep(m)
BY DEF InStep, SamePhrase

LEMMA RestartIs ==
    ASSUME NEW l, IsLane(l), NEW m, m = restart_song(l)
    PROVE  /\ IsLane(m) /\ SameMode(l, m) /\ SameWork(l, m) /\ SameAsked(l, m) /\ SamePlace(l, m)
           /\ m.len = l.len /\ m.phrase = 0 /\ InStep(m)
<1>1. /\ IsLane(m) /\ SameMode(l, m) /\ SameWork(l, m) /\ SameAsked(l, m) /\ SamePlace(l, m)
      /\ m.len = l.len /\ m.phrase = 0 /\ m.song = l.song /\ m.active = song_symbol_at(l.song, 0)
    BY DEF restart_song, IsLane, Fields, SameMode, SameWork, SameAsked, SamePlace
<1>2. PICK r \in Rungs : l.song = Song[r]
    BY DEF IsLane, Songs
<1>3. 0 % SongPeriod = 0
    BY SlotsAssumption
<1>4. song_symbol_at(l.song, 0) = 0
    BY <1>2, <1>3, LadderAssumption DEF song_symbol_at
<1> QED
    BY <1>1, <1>4 DEF InStep

LEMMA MelodyIs ==
    ASSUME NEW l, IsLane(l), NEW on \in BOOLEAN, NEW m, m = set_flow_melody(l, on)
    PROVE  /\ IsLane(m) /\ SamePhrase(l, m) /\ SameAsked(l, m)
           /\ m.step = l.step /\ m.steps = l.steps /\ m.len = l.len
           /\ m.pos = l.pos /\ m.cur \in {l.cur, -1} /\ (l.step => m.cur = l.cur)
           /\ m.new_pending = l.new_pending
           /\ m.length_pending <=> m.len # effective_length(m)
<1> DEFINE n == IF on = l.notes THEN l
                ELSE [l EXCEPT !.notes = on, !.since = PhraseMin, !.cur = IF l.step THEN @ ELSE -1]
           owed == n.len # effective_length(n)
<1>1. /\ IsLane(n) /\ SamePhrase(l, n) /\ SameAsked(l, n)
      /\ n.step = l.step /\ n.steps = l.steps /\ n.len = l.len /\ n.pos = l.pos
      /\ n.cur \in {l.cur, -1} /\ (l.step => n.cur = l.cur)
      /\ n.new_pending = l.new_pending
  <2>1. CASE on = l.notes
      BY <2>1 DEF SamePhrase, SameAsked
  <2>2. CASE on # l.notes
    <3> DEFINE cur == IF l.step THEN l.cur ELSE -1
    <3>1. n = [l EXCEPT !.notes = on, !.since = PhraseMin, !.cur = cur]
        BY <2>2
    <3>2. cur \in {l.cur, -1} /\ (l.step => cur = l.cur)
        OBVIOUS
    <3> HIDE DEF n, cur
    <3>3. n.cur = cur /\ n.step = l.step
        BY <3>1 DEF IsLane, Fields
    <3>4. /\ IsLane(n) /\ SamePhrase(l, n) /\ SameAsked(l, n)
          /\ n.steps = l.steps /\ n.len = l.len /\ n.pos = l.pos
          /\ n.new_pending = l.new_pending
        BY <3>1 DEF IsLane, Fields, SamePhrase, SameAsked
    <3> QED
        BY <3>2, <3>3, <3>4
  <2> QED
      BY <2>1, <2>2
<1>2. m = [n EXCEPT !.length_pending = owed] /\ owed \in BOOLEAN
    BY DEF set_flow_melody, LengthOwed
<1> HIDE DEF n
<1>3. /\ IsLane(m) /\ SameMode(n, m) /\ SamePhrase(n, m) /\ SameAsked(n, m) /\ SamePlace(n, m)
      /\ m.len = n.len /\ m.new_pending = n.new_pending /\ (m.length_pending <=> owed)
    BY <1>1, <1>2 DEF IsLane, Fields, SameMode, SamePhrase, SameAsked, SamePlace
<1> QED
    BY <1>1, <1>3, SameLength DEF SameMode, SamePhrase, SameAsked, SamePlace

\* A live turn to n steps leaves the place alone, or moves it to the new slots.
Slotted(l, m, on, n) ==
    /\ on /\ l.step =>
           \/ SamePlace(l, m) /\ (n = l.steps \/ ~(l.cur >= 0))
           \/ n # l.steps /\ m.pos = Reslotted(l, n).pos /\ m.cur = Reslotted(l, n).cur
    /\ ~(on /\ l.step) => m.pos = l.pos

LEMMA SetStepIs ==
    ASSUME NEW l, IsLane(l), NEW on \in BOOLEAN, NEW n, NEW m, m = set_step(l, on, n)
    PROVE  /\ IsLane(m) /\ SamePhrase(l, m) /\ SameAsked(l, m)
           /\ m.step = on /\ m.steps = n /\ m.notes = l.notes /\ m.len = l.len
           /\ m.new_pending = l.new_pending
           /\ m.length_pending <=> l.length_pending \/ effective_length(m) # effective_length(l)
           /\ on # l.step => m.cur = -1
           /\ l.cur = -1 => m.cur = -1 /\ m.pos = l.pos
           /\ Slotted(l, m, on, n)
<1> DEFINE c == CASE on # l.step -> [l EXCEPT !.cur = -1, !.since = PhraseMin]
                  [] on /\ l.step /\ n # l.steps /\ l.cur >= 0 -> Reslotted(l, n)
                  [] OTHER -> l
           s == [c EXCEPT !.step = on, !.steps = n]
           owed == s.length_pending \/ effective_length(s) # effective_length(l)
<1>1. /\ IsLane(c) /\ SamePhrase(l, c) /\ SameAsked(l, c) /\ SameWork(l, c)
      /\ c.notes = l.notes /\ c.len = l.len
      /\ on # l.step => c.cur = -1
      /\ l.cur = -1 => c.cur = -1 /\ c.pos = l.pos
      /\ Slotted(l, c, on, n)
  <2>1. CASE on # l.step
    <3>1. c = [l EXCEPT !.cur = -1, !.since = PhraseMin]
        BY <2>1
    <3> HIDE DEF c
    <3> QED
        BY <2>1, <3>1 DEF IsLane, Fields, SamePhrase, SameAsked, SameWork, Slotted
  <2>2. CASE on = l.step /\ on /\ n # l.steps /\ l.cur >= 0
    <3>1. c = Reslotted(l, n)
        BY <2>2
    <3>2. ASSUME l.cur = -1 PROVE FALSE
      <4>1. -1 >= 0
          BY <2>2, <3>2
      <4> QED
          BY <4>1
    <3>3. Slotted(l, c, on, n)
      <4>1. on /\ l.step
          BY <2>2
      <4> QED
          BY <2>2, <3>1, <4>1 DEF Slotted
    <3> HIDE DEF c
    <3> QED
        BY <2>2, <3>1, <3>2, <3>3 DEF Reslotted, IsLane, Fields, SamePhrase, SameAsked, SameWork
  <2>3. CASE on = l.step /\ ~(on /\ n # l.steps /\ l.cur >= 0)
    <3>1. c = l
        BY <2>3
    <3> HIDE DEF c
    <3> QED
        BY <2>3, <3>1 DEF SamePhrase, SameAsked, SameWork, SamePlace, Slotted
  <2> QED
      BY <2>1, <2>2, <2>3
<1>2. m = [s EXCEPT !.length_pending = owed] /\ owed \in BOOLEAN
    BY DEF set_step
<1> HIDE DEF c
<1>3. /\ IsLane(s) /\ SamePhrase(c, s) /\ SameAsked(c, s) /\ SameWork(c, s) /\ SamePlace(c, s)
      /\ s.step = on /\ s.steps = n /\ s.notes = c.notes /\ s.len = c.len
    BY <1>1 DEF IsLane, Fields, SamePhrase, SameAsked, SameWork, SamePlace
<1> HIDE DEF s
<1>4. /\ IsLane(m) /\ SameMode(s, m) /\ SamePhrase(s, m) /\ SameAsked(s, m) /\ SamePlace(s, m)
      /\ m.len = s.len /\ m.new_pending = s.new_pending /\ (m.length_pending <=> owed)
    BY <1>2, <1>3 DEF IsLane, Fields, SameMode, SamePhrase, SameAsked, SamePlace
<1>5. effective_length(m) = effective_length(s)
    BY <1>4, SameLength
<1>6. Slotted(l, m, on, n)
    BY <1>1, <1>3, <1>4 DEF Slotted, SamePlace
<1> QED
    BY <1>1, <1>3, <1>4, <1>5, <1>6 DEF SameMode, SamePhrase, SameAsked, SameWork, SamePlace

LEMMA ApplyIs ==
    ASSUME NEW l, LaneOK(l), NEW m, m = apply_pending(l)
    PROVE  /\ LaneOK(m) /\ SameMode(l, m) /\ SameAsked(l, m) /\ SamePlace(l, m)
           /\ ~Pending(m) /\ m.phrase = 0
<1> DEFINE a == Adopted(l)
           r == IF l.form_pending \/ l.new_pending \/ l.length_pending THEN Rebuilt(a) ELSE a
           f == PlayFrom(r, 0)
<1>1. /\ IsLane(a) /\ SameMode(l, a) /\ SameAsked(l, a) /\ SamePlace(l, a) /\ a.len = l.len
    BY AdoptedIs DEF LaneOK
<1>2. m = Done(f)
    BY DEF apply_pending
<1>3. effective_length(a) = effective_length(l)
    BY <1>1, SameLength
<1> HIDE DEF a
<1>4. /\ IsLane(r) /\ SameMode(a, r) /\ SameAsked(a, r) /\ SamePlace(a, r)
      /\ r.len = effective_length(l)
  <2>1. CASE l.form_pending \/ l.new_pending \/ l.length_pending
    <3>1. r = Rebuilt(a)
        BY <2>1
    <3> HIDE DEF r
    <3> QED
        BY <1>1, <1>3, <3>1, RebuiltIs
  <2>2. CASE ~(l.form_pending \/ l.new_pending \/ l.length_pending)
    <3>1. r = a /\ l.len = effective_length(l)
        BY <2>2 DEF LaneOK, Owed
    <3> HIDE DEF r
    <3> QED
        BY <1>1, <3>1 DEF SameMode, SameAsked, SamePlace
  <2> QED
      BY <2>1, <2>2
<1> HIDE DEF r
<1>5. /\ IsLane(f) /\ SameMode(r, f) /\ SameAsked(r, f) /\ SamePlace(r, f) /\ f.len = r.len
      /\ f.phrase = 0 /\ InStep(f)
    BY <1>4, PlayFromIs
<1> HIDE DEF f
<1>6. /\ IsLane(m) /\ SameMode(f, m) /\ SamePhrase(f, m) /\ SameAsked(f, m) /\ SamePlace(f, m)
      /\ m.len = f.len /\ ~Pending(m)
    BY <1>2, <1>5, DoneIs
<1>7. SameMode(l, m) /\ SameAsked(l, m) /\ SamePlace(l, m) /\ m.phrase = 0
    BY <1>1, <1>4, <1>5, <1>6 DEF SameMode, SameAsked, SamePlace, SamePhrase
<1>8. InStep(m)
    BY <1>5, <1>6, StepKept
<1>9. Owed(m)
    BY <1>4, <1>5, <1>6, <1>7, SameLength DEF Owed
<1> QED
    BY <1>6, <1>7, <1>8, <1>9 DEF LaneOK

LEMMA PrerollIs ==
    ASSUME NEW l, LaneOK(l), NEW m, m = apply_preroll(l)
    PROVE  /\ LaneOK(m) /\ Answered(l, m) /\ SamePlace(l, m)
           /\ l.step /\ l.cur = -1 => ~Pending(m)
           /\ l.phrase = 0 => m.phrase = 0
<1>1. CASE Melody(l) /\ l.cur = -1 /\ Pending(l)
  <2>1. m = apply_pending(l)
      BY <1>1 DEF apply_preroll
  <2> QED
      BY <2>1, ApplyIs DEF Answered
<1>2. CASE ~(Melody(l) /\ l.cur = -1 /\ Pending(l))
  <2>1. m = l
      BY <1>2 DEF apply_preroll
  <2> QED
      BY <1>2, <2>1 DEF Answered, SameMode, SameAsked, SameWork, SamePlace, Melody
<1> QED
    BY <1>1, <1>2

\* GROW and RENEW, or not.
LEMMA VariedKeeps ==
    ASSUME NEW l, LaneOK(l), NEW varied \in BOOLEAN, NEW m, m = IF varied THEN Varied(l) ELSE l
    PROVE  LaneOK(m) /\ Answered(l, m) /\ SameWork(l, m) /\ SamePlace(l, m) /\ m.phrase = l.phrase
<1>1. CASE varied
  <2>1. m = Varied(l)
      BY <1>1
  <2>2. /\ IsLane(m) /\ SameMode(l, m) /\ SameWork(l, m) /\ SameAsked(l, m) /\ SamePlace(l, m)
        /\ m.len = l.len /\ m.phrase = l.phrase /\ m.active = l.active /\ m.song = l.song
        /\ l.active # 0 => m.bound = l.bound
      BY <2>1, VariedIs DEF LaneOK
  <2>3. InStep(m)
      BY <2>2 DEF LaneOK, InStep
  <2>4. Owed(m)
      BY <2>2, SameLength DEF LaneOK, Owed, SameWork
  <2> QED
      BY <2>2, <2>3, <2>4 DEF LaneOK, Answered
<1>2. CASE ~varied
    BY <1>2 DEF Answered, SameMode, SameAsked, SameWork, SamePlace
<1> QED
    BY <1>1, <1>2

\* A field no property reads changes.
LEMMA TimeIs ==
    ASSUME NEW l, LaneOK(l), NEW t, NEW m, m = [l EXCEPT !.since = t]
    PROVE  LaneOK(m) /\ Answered(l, m) /\ SameWork(l, m) /\ SamePlace(l, m) /\ m.phrase = l.phrase
<1>1. /\ IsLane(m) /\ SameMode(l, m) /\ SamePhrase(l, m) /\ SameWork(l, m) /\ SameAsked(l, m)
      /\ SamePlace(l, m) /\ m.len = l.len
    BY DEF LaneOK, IsLane, Fields, SameMode, SamePhrase, SameWork, SameAsked, SamePlace
<1>2. InStep(m)
    BY <1>1, StepKept DEF LaneOK
<1>3. Owed(m)
    BY <1>1, SameLength DEF LaneOK, Owed, SameWork
<1> QED
    BY <1>1, <1>2, <1>3 DEF LaneOK, Answered, SamePhrase

LEMMA AdvanceIs ==
    ASSUME NEW l, LaneOK(l), NEW m, m = advance_song(l)
    PROVE  /\ LaneOK(m) /\ Answered(l, m) /\ SameWork(l, m) /\ SamePlace(l, m)
           /\ m.phrase = (l.phrase + 1) % SongPeriod
<1> DEFINE p == (l.phrase + 1) % SongPeriod
<1>1. m = PlayFrom(l, p)
    BY DEF advance_song
<1> HIDE DEF p
<1>2. /\ IsLane(m) /\ SameMode(l, m) /\ SameWork(l, m) /\ SameAsked(l, m) /\ SamePlace(l, m)
      /\ m.len = l.len /\ m.song = l.song /\ m.phrase = p /\ InStep(m)
    BY <1>1, PlayFromIs DEF LaneOK
<1>3. Owed(m)
    BY <1>2, SameLength DEF LaneOK, Owed, SameWork
<1> QED
    BY <1>2, <1>3 DEF LaneOK, Answered, p

LEMMA WrapIs ==
    ASSUME NEW l, LaneOK(l), NEW varied \in BOOLEAN, NEW m, m = wrap_events(l, varied)
    PROVE  /\ LaneOK(m) /\ Answered(l, m) /\ SamePlace(l, m)
           /\ l.step /\ ~Pending(l) => ~Pending(m) /\ m.phrase = (l.phrase + 1) % SongPeriod
<1>1. CASE ~Melody(l) \/ (FlowMelody(l) /\ l.since < PhraseMin)
  <2>1. m = l
      BY <1>1 DEF wrap_events
  <2> QED
      BY <1>1, <2>1 DEF Answered, SameMode, SameAsked, SameWork, SamePlace, Melody, FlowMelody
<1>2. CASE ~(~Melody(l) \/ (FlowMelody(l) /\ l.since < PhraseMin))
  <2> DEFINE v == IF varied THEN Varied(l) ELSE l
             t == IF FlowMelody(l) THEN 0 ELSE v.since
             o == [v EXCEPT !.since = t]
  <2>1. m = Outgoing(o)
      BY <1>2 DEF wrap_events
  <2>2. LaneOK(v) /\ Answered(l, v) /\ SameWork(l, v) /\ SamePlace(l, v) /\ v.phrase = l.phrase
      BY VariedKeeps
  <2> HIDE DEF v, t
  <2>3. LaneOK(o) /\ Answered(v, o) /\ SameWork(v, o) /\ SamePlace(v, o) /\ o.phrase = v.phrase
      BY <2>2, TimeIs
  <2> HIDE DEF o
  <2>4. Answered(l, o) /\ (Pending(o) <=> Pending(l)) /\ SamePlace(l, o) /\ o.phrase = l.phrase
      BY <2>2, <2>3, AnsweredTwice DEF SameWork, Pending, SamePlace
  <2>5. CASE Pending(o)
    <3>1. m = apply_pending(o)
        BY <2>1, <2>5 DEF Outgoing
    <3>2. LaneOK(m) /\ Answered(o, m) /\ SamePlace(o, m)
        BY <2>3, <3>1, ApplyIs DEF Answered
    <3>3. Answered(l, m)
        BY <2>4, <3>2, AnsweredTwice
    <3> QED
        BY <2>4, <2>5, <3>2, <3>3 DEF SamePlace
  <2>6. CASE ~Pending(o)
    <3>1. m = advance_song(o)
        BY <2>1, <2>6 DEF Outgoing
    <3>2. LaneOK(m) /\ Answered(o, m) /\ SameWork(o, m) /\ SamePlace(o, m)
          /\ m.phrase = (o.phrase + 1) % SongPeriod
        BY <2>3, <3>1, AdvanceIs
    <3>3. Answered(l, m)
        BY <2>4, <3>2, AnsweredTwice
    <3>4. ~Pending(m)
        BY <2>6, <3>2 DEF SameWork, Pending
    <3> QED
        BY <2>4, <3>2, <3>3, <3>4 DEF SamePlace
  <2> QED
      BY <2>5, <2>6
<1> QED
    BY <1>1, <1>2

LEMMA BoundaryIs ==
    ASSUME NEW l, LaneOK(l), NEW varied \in BOOLEAN, NEW m, m = Boundary(l, varied)
    PROVE  /\ LaneOK(m) /\ Answered(l, m) /\ SameWork(l, m) /\ m.phrase = l.phrase
           /\ m.pos = l.pos /\ (l.step => m.cur = StepAtPhase(l))
<1> DEFINE slot == (l.pos * (IF l.step THEN l.steps ELSE FlowSlots)) \div Units
           vary == IF varied /\ slot = 0 THEN TRUE ELSE FALSE
           v == IF vary THEN Varied(l) ELSE l
           c == [v EXCEPT !.cur = slot]
<1>1. m = c \/ (m = l /\ (l.step => l.cur = slot))
    BY DEF Boundary, Melody
<1>2. l.step => slot = StepAtPhase(l)
    BY DEF StepAtPhase
<1>3. vary \in BOOLEAN
    OBVIOUS
<1> HIDE DEF slot, vary
<1>4. LaneOK(v) /\ Answered(l, v) /\ SameWork(l, v) /\ SamePlace(l, v) /\ v.phrase = l.phrase
    BY <1>3, VariedKeeps
<1> HIDE DEF v
<1>5. /\ IsLane(c) /\ SameMode(v, c) /\ SamePhrase(v, c) /\ SameWork(v, c) /\ SameAsked(v, c)
      /\ c.len = v.len /\ c.pos = v.pos /\ c.cur = slot
    BY <1>4 DEF LaneOK, IsLane, Fields, SameMode, SamePhrase, SameWork, SameAsked
<1> HIDE DEF c
<1>6. LaneOK(c)
  <2>1. InStep(c)
      BY <1>4, <1>5, StepKept DEF LaneOK
  <2>2. Owed(c)
      BY <1>4, <1>5, SameLength DEF LaneOK, Owed, SameWork
  <2> QED
      BY <1>5, <2>1, <2>2 DEF LaneOK
<1>7. Answered(l, c) /\ SameWork(l, c) /\ c.phrase = l.phrase /\ c.pos = l.pos
  <2>1. Answered(v, c)
      BY <1>5 DEF Answered
  <2>2. Answered(l, c)
      BY <1>4, <2>1, AnsweredTwice
  <2> QED
      BY <1>4, <1>5, <2>2 DEF SameWork, SamePhrase, SamePlace
<1>8. CASE m = l /\ (l.step => l.cur = slot)
    BY <1>8, <1>2 DEF Answered, SameMode, SameAsked, SameWork
<1>9. CASE m = c
    BY <1>5, <1>6, <1>7, <1>9, <1>2
<1> QED
    BY <1>1, <1>8, <1>9

\* One sample keeps the pattern's length owed and the song in step, and asks for
\* nothing; on a deck that has just been restarted it plays from the top.
LEMMA ProcessIs ==
    ASSUME NEW l, LaneOK(l), NEW d \in 0 .. 1, NEW varied \in BOOLEAN,
           NEW m, m = process(l, d, varied)
    PROVE  /\ LaneOK(m) /\ Answered(l, m)
           /\ m.pos = (l.pos + d) % Units /\ (l.step => m.cur = StepAtPhase(m))
           /\ l.step /\ l.cur = -1 /\ l.phrase = 0 /\ l.pos \in 0 .. Units - 1 =>
                  /\ m.phrase = (IF m.pos < l.pos THEN 1 % SongPeriod ELSE 0)
                  /\ ~Pending(m)
<1> DEFINE r == apply_preroll(l)
           pos == (r.pos + d) % Units
           t == IF r.since < PhraseMin THEN r.since + 1 ELSE r.since
           n == [r EXCEPT !.pos = pos, !.since = t]
           wraps == r.pos + d >= Units
           w == IF wraps THEN wrap_events(n, varied) ELSE n
<1>1. /\ LaneOK(r) /\ Answered(l, r) /\ SamePlace(l, r)
      /\ l.step /\ l.cur = -1 => ~Pending(r)
      /\ l.phrase = 0 => r.phrase = 0
    BY PrerollIs
<1>2. m = Boundary(w, varied)
    BY DEF process
<1> HIDE DEF r
<1>3. /\ IsLane(n) /\ SameMode(r, n) /\ SamePhrase(r, n) /\ SameWork(r, n) /\ SameAsked(r, n)
      /\ n.len = r.len /\ n.pos = pos
  <2> HIDE DEF pos, t
  <2> QED
      BY <1>1 DEF LaneOK, IsLane, Fields, SameMode, SamePhrase, SameWork, SameAsked
<1> HIDE DEF n, pos
<1>4. LaneOK(n) /\ Answered(r, n)
  <2>1. InStep(n)
      BY <1>1, <1>3, StepKept DEF LaneOK
  <2>2. Owed(n)
      BY <1>1, <1>3, SameLength DEF LaneOK, Owed, SameWork
  <2> QED
      BY <1>3, <2>1, <2>2 DEF LaneOK, Answered
<1>5. /\ LaneOK(w) /\ Answered(n, w) /\ w.pos = n.pos
      /\ n.step /\ ~Pending(n) =>
             ~Pending(w) /\ w.phrase = IF wraps THEN (n.phrase + 1) % SongPeriod ELSE n.phrase
  <2> HIDE DEF wraps
  <2>1. CASE wraps
    <3>1. w = wrap_events(n, varied)
        BY <2>1
    <3> HIDE DEF w
    <3> QED
        BY <1>4, <2>1, <3>1, WrapIs DEF SamePlace
  <2>2. CASE ~wraps
    <3>1. w = n
        BY <2>2
    <3> HIDE DEF w
    <3> QED
        BY <1>4, <2>2, <3>1 DEF Answered, SameMode, SameAsked, SameWork
  <2> QED
      BY <2>1, <2>2
<1> HIDE DEF w
<1>6. /\ LaneOK(m) /\ Answered(w, m) /\ SameWork(w, m) /\ m.phrase = w.phrase
      /\ m.pos = w.pos /\ (w.step => m.cur = StepAtPhase(w))
    BY <1>2, <1>5, BoundaryIs
<1>7. Answered(l, m)
    BY <1>1, <1>4, <1>5, <1>6, AnsweredTwice
<1>8. ASSUME l.step, l.cur = -1, l.phrase = 0, l.pos \in 0 .. Units - 1
      PROVE  m.phrase = (IF m.pos < l.pos THEN 1 % SongPeriod ELSE 0) /\ ~Pending(m)
  <2>1. r.pos = l.pos /\ r.phrase = 0 /\ r.step /\ ~Pending(r)
      BY <1>1, <1>8 DEF SamePlace, Answered, SameMode
  <2>2. n.step /\ n.phrase = 0 /\ ~Pending(n)
      BY <1>3, <2>1 DEF SameMode, SamePhrase, SameWork, Pending
  <2>3. ~Pending(m) /\ m.phrase = (IF wraps THEN (0 + 1) % SongPeriod ELSE 0) /\ m.pos = pos
      BY <1>3, <1>5, <1>6, <2>2 DEF SameWork, Pending
  <2>4. wraps <=> m.pos < l.pos
    <3>1. Units \in Nat /\ Units > 1 /\ l.pos \in 0 .. Units - 1
        BY <1>8, SlotsAssumption
    <3>2. pos = (l.pos + d) % Units /\ (wraps <=> l.pos + d >= Units)
        BY <2>1 DEF pos
    <3> QED
        BY <2>3, <3>1, <3>2
  <2> QED
      BY <2>3, <2>4
<1>9. m.pos = (l.pos + d) % Units
    BY <1>1, <1>3, <1>5, <1>6 DEF SamePlace, pos
<1>10. l.step => m.cur = StepAtPhase(m)
    BY <1>1, <1>4, <1>5, <1>6 DEF Answered, SameMode, StepAtPhase
<1> QED
    BY <1>6, <1>7, <1>8, <1>9, <1>10

LEMMA BootedIs ==
    ASSUME NEW l, IsLane(l), NEW m, m = Booted(l)
    PROVE  /\ LaneOK(m) /\ SameAsked(l, m) /\ m.cur = -1 /\ ~m.new_pending
           /\ m.length_pending => m.len # effective_length(m)
           /\ m.step = l.step /\ m.steps = l.steps /\ m.pos = 0
<1> DEFINE a == Adopted(l)
           r == reset(a, 0)
           b == Rebuilt(r)
           f == PlayFrom(b, 0)
           i == Done(f)
<1>1. IsLane(a) /\ SameMode(l, a) /\ SameAsked(l, a)
    BY AdoptedIs
<1>2. m = set_flow_melody(i, TRUE)
    BY DEF Booted, lane_init
<1> HIDE DEF a
<1>3. IsLane(r) /\ SameMode(a, r) /\ SameAsked(a, r) /\ r.cur = -1 /\ r.pos = 0
    BY <1>1, ResetIs
<1> HIDE DEF r
<1>4. IsLane(b) /\ SameMode(r, b) /\ SameAsked(r, b) /\ b.cur = -1 /\ b.pos = 0
    BY <1>3, RebuiltIs DEF SamePlace
<1> HIDE DEF b
<1>5. IsLane(f) /\ SameMode(b, f) /\ SameAsked(b, f) /\ f.cur = -1 /\ f.pos = 0 /\ InStep(f)
    BY <1>4, PlayFromIs DEF SamePlace
<1> HIDE DEF f
<1>6. /\ IsLane(i) /\ SameMode(f, i) /\ SameAsked(f, i) /\ i.cur = -1 /\ i.pos = 0
      /\ InStep(i) /\ ~i.new_pending
    BY <1>5, DoneIs, StepKept DEF SamePlace
<1> HIDE DEF i
<1>7. /\ IsLane(m) /\ SamePhrase(i, m) /\ SameAsked(i, m) /\ m.cur = -1
      /\ m.step = i.step /\ m.steps = i.steps /\ m.pos = i.pos
      /\ m.new_pending = i.new_pending /\ (m.length_pending <=> m.len # effective_length(m))
  <2>1. PICK on \in BOOLEAN : on = TRUE
      OBVIOUS
  <2>2. m = set_flow_melody(i, on)
      BY <1>2, <2>1
  <2> QED
      BY <1>6, <2>2, MelodyIs
<1>8. InStep(m)
    BY <1>6, <1>7, StepKept
<1> QED
    BY <1>1, <1>3, <1>4, <1>5, <1>6, <1>7, <1>8 DEF LaneOK, Owed, SameMode, SameAsked

-----------------------------------------------------------------------------
(* The deck and the law.                                                    *)

IsPart(p) == p = [f \in {"eng", "pend", "switching", "seen", "snap"} |-> p[f]]

IsMemory(m) ==
    m = [f \in {"seeded", "rung", "sent", "asked", "ran"} |-> m[f]] /\ m.seeded \in BOOLEAN

IsHistory(h) == h \in [turned : BOOLEAN, restored : BOOLEAN, top : BOOLEAN]

\* The engine that plays once the fade is over.
Target(p) == IF p.switching THEN p.pend ELSE p.eng

CacheHolds(memory, p, l) ==
    memory.sent # None =>
        /\ memory.sent.engine = Target(p)
        /\ memory.sent.form = l.pending_form /\ memory.sent.song = l.pending_song

Asked(l, h) == l.new_pending \/ (l.length_pending /\ l.len = effective_length(l)) => h.turned

AtTop(l, h) ==
    h.top => l.step /\ l.cur = -1 /\ l.phrase = 0 /\ l.pos \in 0 .. Units - 1

Inv ==
    /\ LaneOK(lane) /\ IsPart(part) /\ IsMemory(law) /\ IsHistory(hist)
    /\ CacheHolds(law, part, lane)
    /\ Asked(lane, hist)
    /\ law.seeded => ~hist.restored
    /\ AtTop(lane, hist)

FromTheTop ==
    hist.top /\ ~hist'.top /\ lane.step /\ lane'.cur # -1 =>
        lane'.phrase = (IF lane'.pos < lane.pos THEN 1 % SongPeriod ELSE 0) /\ ~Pending(lane')

LEMMA NoteIs ==
    ASSUME NEW turn \in BOOLEAN, NEW restored \in BOOLEAN, NEW top \in BOOLEAN,
           IsHistory(hist), Note(turn, restored, top)
    PROVE  /\ IsHistory(hist') /\ (hist'.restored <=> restored) /\ (hist'.top <=> top)
           /\ hist'.turned <=> (hist.turned \/ turn) /\ Pending(lane')
<1> DEFINE t == (hist.turned \/ turn) /\ Pending(lane')
<1>1. hist' = [turned |-> t, restored |-> restored, top |-> top]
    BY DEF Note
<1>2. t \in BOOLEAN
    OBVIOUS
<1> HIDE DEF t
<1>3. /\ IsHistory(hist') /\ (hist'.restored <=> restored) /\ (hist'.top <=> top)
      /\ (hist'.turned <=> t)
    BY <1>1, <1>2 DEF IsHistory
<1> QED
    BY <1>3 DEF t

\* What a deck was asked for, when no more is asked of it.
LEMMA AskedKept ==
    ASSUME NEW l, NEW m, NEW h, NEW g, Asked(l, h), Answered(l, m),
           g.turned <=> h.turned /\ Pending(m)
    PROVE  Asked(m, g)
BY SameLength DEF Asked, Answered, SameWork, Pending

LEMMA BlankIs == IsLane(Blank)
<1>1. Song[BootRung] \in Songs
    BY LadderAssumption DEF Songs
<1> QED
    BY <1>1 DEF IsLane, Blank, Fields

LEMMA BootPartIs == IsPart(BootPart)
BY DEF IsPart, BootPart

LEMMA InitOK == Init => Inv
<1> SUFFICES ASSUME Init PROVE Inv
    OBVIOUS
<1>1. LaneOK(lane) /\ ~lane.new_pending
      /\ (lane.length_pending => lane.len # effective_length(lane))
    BY BlankIs, BootedIs DEF Init
<1>2. IsPart(part)
    BY BootPartIs DEF Init
<1>3. IsMemory(law) /\ law.sent = None /\ ~law.seeded
    BY DEF Init, IsMemory
<1>4. IsHistory(hist) /\ ~hist.top
    BY DEF Init, IsHistory
<1> QED
    BY <1>1, <1>2, <1>3, <1>4 DEF Inv, CacheHolds, Asked, AtTop

LEMMA ProcessOK == ASSUME Inv, Process PROVE Inv' /\ FromTheTop
<1>1. PICK d \in 0 .. 1, varied \in BOOLEAN : lane' = process(lane, d, varied)
    BY DEF Process
<1>2. /\ LaneOK(lane') /\ Answered(lane, lane')
      /\ lane.step /\ lane.cur = -1 /\ lane.phrase = 0 /\ lane.pos \in 0 .. Units - 1 =>
             /\ lane'.phrase = (IF lane'.pos < lane.pos THEN 1 % SongPeriod ELSE 0)
             /\ ~Pending(lane')
    BY <1>1, ProcessIs DEF Inv
<1>3. /\ IsHistory(hist') /\ (hist'.restored <=> hist.restored) /\ ~hist'.top
      /\ hist'.turned <=> hist.turned /\ Pending(lane')
  <2>1. IsHistory(hist) /\ hist.restored \in BOOLEAN
      BY DEF Inv, IsHistory
  <2>2. Note(FALSE, hist.restored, FALSE)
      BY DEF Process
  <2>3. PICK no \in BOOLEAN : no = FALSE
      OBVIOUS
  <2>4. Note(no, hist.restored, no)
      BY <2>2, <2>3
  <2> QED
      BY <2>1, <2>3, <2>4, NoteIs
<1>4. part' = part /\ law' = law
    BY DEF Process
<1>5. Asked(lane', hist')
    BY <1>2, <1>3, AskedKept DEF Inv
<1>6. CacheHolds(law', part', lane')
    BY <1>2, <1>4 DEF Inv, CacheHolds, Answered, SameAsked
<1>7. Inv'
    BY <1>2, <1>3, <1>4, <1>5, <1>6 DEF Inv, AtTop
<1>8. FromTheTop
    BY <1>2 DEF Inv, AtTop, FromTheTop
<1> QED
    BY <1>7, <1>8

LEMMA SwapOK == ASSUME Inv, EngineSwap PROVE Inv' /\ FromTheTop
<1> DEFINE on == part.pend \in NoteEngines
<1>1. lane' = set_flow_melody(lane, on) /\ on \in BOOLEAN /\ law' = law /\ part.switching
    BY DEF EngineSwap
<1> HIDE DEF on
<1>2. /\ IsLane(lane') /\ SamePhrase(lane, lane') /\ SameAsked(lane, lane')
      /\ lane'.step = lane.step /\ lane'.len = lane.len /\ lane'.pos = lane.pos
      /\ lane'.cur \in {lane.cur, -1} /\ lane'.new_pending = lane.new_pending
      /\ lane'.length_pending <=> lane'.len # effective_length(lane')
    BY <1>1, MelodyIs DEF Inv, LaneOK
<1>3. LaneOK(lane')
  <2>1. InStep(lane')
      BY <1>2, StepKept DEF Inv, LaneOK
  <2> QED
      BY <1>2, <2>1 DEF LaneOK, Owed
<1>4. IsPart(part') /\ Target(part') = Target(part)
    BY <1>1 DEF EngineSwap, Inv, IsPart, Target
<1>5. /\ IsHistory(hist') /\ (hist'.restored <=> hist.restored) /\ (hist'.top <=> hist.top)
      /\ hist'.turned <=> hist.turned /\ Pending(lane')
  <2>1. IsHistory(hist) /\ hist.restored \in BOOLEAN /\ hist.top \in BOOLEAN
      BY DEF Inv, IsHistory
  <2>2. PICK no \in BOOLEAN : no = FALSE
      OBVIOUS
  <2>3. Note(no, hist.restored, hist.top)
      BY <2>2 DEF EngineSwap
  <2> QED
      BY <2>1, <2>2, <2>3, NoteIs
<1>6. Asked(lane', hist')
    BY <1>2, <1>5 DEF Inv, Asked, Pending
<1>7. CacheHolds(law', part', lane')
    BY <1>1, <1>2, <1>4 DEF Inv, CacheHolds, SameAsked
<1>8. AtTop(lane', hist')
    BY <1>2, <1>5 DEF Inv, AtTop, SamePhrase
<1>9. Inv'
    BY <1>1, <1>3, <1>4, <1>5, <1>6, <1>7, <1>8 DEF Inv
<1> QED
    BY <1>5, <1>9 DEF FromTheTop

LEMMA SongAsBefore ==
    ASSUME NEW l, LaneOK(l), NEW m, IsLane(m), SameMode(l, m), SameWork(l, m), m.len = l.len,
           InStep(m)
    PROVE  LaneOK(m)
BY SameLength DEF LaneOK, Owed, SameWork

\* RST, RESET and the snap to the grid.
LEMMA ResetOK == ASSUME Inv, Snap \/ Resync \/ Restart PROVE Inv' /\ FromTheTop
<1>1. PICK pos \in 0 .. Units - 1 :
          lane' = reset(lane, pos) \/ (lane.step /\ lane' = restart_song(reset(lane, pos)))
  <2>1. 0 \in 0 .. Units - 1
      BY SlotsAssumption
  <2> QED
      BY <2>1 DEF Snap, Resync, Restart
<1> DEFINE r == reset(lane, pos)
<1>2. /\ IsLane(r) /\ SameMode(lane, r) /\ SamePhrase(lane, r) /\ SameWork(lane, r)
      /\ SameAsked(lane, r) /\ r.len = lane.len /\ r.pos = pos /\ r.cur = -1
    BY ResetIs DEF Inv, LaneOK
<1>3. LaneOK(r)
  <2> HIDE DEF r
  <2>1. InStep(r)
      BY <1>2, StepKept DEF Inv, LaneOK
  <2> QED
      BY <1>2, <2>1, SongAsBefore DEF Inv
<1>4. /\ LaneOK(lane') /\ SameMode(lane, lane') /\ SameWork(lane, lane') /\ SameAsked(lane, lane')
      /\ lane'.len = lane.len /\ lane'.pos = pos /\ lane'.cur = -1
      /\ lane' = restart_song(r) => lane'.phrase = 0
      /\ lane' = r => lane'.phrase = lane.phrase
  <2> HIDE DEF r
  <2>1. CASE lane' = r
      BY <1>2, <1>3, <2>1, RestartIs DEF SamePhrase
  <2>2. CASE lane' = restart_song(r)
    <3>1. /\ IsLane(lane') /\ SameMode(r, lane') /\ SameWork(r, lane') /\ SameAsked(r, lane')
          /\ SamePlace(r, lane') /\ lane'.len = r.len /\ lane'.phrase = 0 /\ InStep(lane')
        BY <1>2, <2>2, RestartIs
    <3>2. LaneOK(lane')
        BY <1>3, <3>1, SongAsBefore
    <3>3. lane' = r => r.phrase = 0
        BY <3>1
    <3> QED
        BY <1>2, <3>1, <3>2, <3>3 DEF SameMode, SameWork, SameAsked, SamePlace, SamePhrase
  <2> QED
      BY <1>1, <2>1, <2>2 DEF r
<1>5. /\ IsHistory(hist') /\ (hist'.restored <=> hist.restored) /\ hist'.turned = hist.turned
      /\ hist'.top => lane.step /\ lane'.phrase = 0
      /\ lane.step => (hist.top => hist'.top)
  <2>1. CASE Snap \/ Resync
    <3>1. lane' = reset(lane, pos) \/ lane' = restart_song(r)
        BY <1>1
    <3>2. hist' = hist
        BY <2>1 DEF Snap, Resync
    <3>3. hist.top => lane.step /\ lane.phrase = 0
        BY DEF Inv, AtTop
    <3> QED
        BY <1>4, <3>1, <3>2, <3>3 DEF Inv
  <2>2. CASE Restart
    <3> DEFINE top == lane.step
    <3>1. hist' = [hist EXCEPT !.top = top] /\ top \in BOOLEAN
        BY <2>2 DEF Restart, Inv, LaneOK, IsLane
    <3>2. /\ IsHistory(hist') /\ (hist'.restored <=> hist.restored) /\ hist'.turned = hist.turned
          /\ (hist'.top <=> top)
      <4> HIDE DEF top
      <4> QED
          BY <3>1 DEF Inv, IsHistory
    <3>3. lane.step => \E p \in 0 .. Units - 1 : lane' = restart_song(reset(lane, p))
        BY <2>2 DEF Restart
    <3>4. lane.step => lane'.phrase = 0
      <4>1. ASSUME NEW p \in 0 .. Units - 1, lane' = restart_song(reset(lane, p))
            PROVE  lane'.phrase = 0
        <5>1. IsLane(reset(lane, p))
            BY ResetIs DEF Inv, LaneOK
        <5> QED
            BY <4>1, <5>1, RestartIs
      <4> QED
          BY <3>3, <4>1
    <3> QED
        BY <3>2, <3>4
  <2> QED
      BY <2>1, <2>2
<1>6. Asked(lane', hist')
    BY <1>4, <1>5, SameLength DEF Inv, Asked, SameWork
<1>7. law' = law /\ IsPart(part') /\ Target(part') = Target(part)
  <2>1. CASE Snap
      BY <2>1 DEF Snap, Inv, IsPart, Target
  <2>2. CASE Resync \/ Restart
      BY <2>2 DEF Resync, Restart, Inv, Target
  <2> QED
      BY <2>1, <2>2
<1>8. CacheHolds(law', part', lane')
    BY <1>4, <1>7 DEF Inv, CacheHolds, SameAsked
<1>9. AtTop(lane', hist')
    BY <1>4, <1>5 DEF AtTop, SameMode
<1>10. Inv'
    BY <1>4, <1>5, <1>6, <1>7, <1>8, <1>9 DEF Inv
<1> QED
    BY <1>4, <1>5, <1>10 DEF FromTheTop

LEMMA RestoreOK == ASSUME Inv, Restore PROVE Inv' /\ FromTheTop
<1> DEFINE r == Rearmed(law)
<1>0. IsMemory(law) /\ IsHistory(hist)
    BY DEF Inv
<1>1. IsMemory(r) /\ ~r.seeded
    BY <1>0 DEF Rearmed, IsMemory
<1>2. law' = Forgotten(r) /\ lane' = lane /\ part' = part
    BY DEF Restore
<1> HIDE DEF r
<1>3. IsMemory(law') /\ ~law'.seeded /\ law'.sent = None
    BY <1>1, <1>2 DEF Forgotten, IsMemory
<1>4. IsHistory(hist') /\ hist'.top = hist.top /\ hist'.turned = hist.turned
    BY <1>0 DEF Restore, IsHistory
<1> QED
    BY <1>2, <1>3, <1>4 DEF Inv, CacheHolds, Asked, AtTop, FromTheTop

LEMMA ReinitOK == ASSUME Inv, NEW initialize \in BOOLEAN, Reinit(initialize) PROVE Inv' /\ FromTheTop
<1>1. /\ LaneOK(lane') /\ lane'.cur = -1 /\ ~lane'.new_pending
      /\ lane'.length_pending => lane'.len # effective_length(lane')
    BY BootedIs DEF Reinit, Inv, LaneOK
<1>2. IsPart(part')
    BY BootPartIs DEF Reinit
<1>3. /\ IsHistory(hist') /\ (hist'.restored <=> hist.restored \/ initialize) /\ ~hist'.top
  <2> DEFINE restored == hist.restored \/ initialize
  <2>1. IsHistory(hist) /\ restored \in BOOLEAN
      BY DEF Inv, IsHistory
  <2>2. PICK no \in BOOLEAN : no = FALSE
      OBVIOUS
  <2>3. Note(no, restored, no)
      BY <2>2 DEF Reinit
  <2> HIDE DEF restored
  <2>4. IsHistory(hist') /\ (hist'.restored <=> restored) /\ ~hist'.top
      BY <2>1, <2>2, <2>3, NoteIs
  <2> QED
      BY <2>4 DEF restored
<1>4. IsMemory(law') /\ law'.sent = None /\ (law'.seeded => law.seeded /\ ~initialize)
  <2>0. IsMemory(law)
      BY DEF Inv
  <2>1. CASE initialize
    <3> DEFINE r == Rearmed(law)
    <3>1. IsMemory(r) /\ ~r.seeded
        BY <2>0 DEF Rearmed, IsMemory
    <3>2. law' = Forgotten(r)
        BY <2>1 DEF Reinit
    <3> HIDE DEF r
    <3> QED
        BY <3>1, <3>2 DEF Forgotten, IsMemory
  <2>2. CASE ~initialize
    <3>1. law' = Forgotten(law)
        BY <2>2 DEF Reinit
    <3> QED
        BY <2>0, <2>2, <3>1 DEF Forgotten, IsMemory
  <2> QED
      BY <2>1, <2>2
<1> QED
    BY <1>1, <1>2, <1>3, <1>4 DEF Inv, CacheHolds, Asked, AtTop, FromTheTop

LEMMA SetEngineIs ==
    ASSUME NEW p, IsPart(p), NEW e, NEW q, q = set_engine(p, e)
    PROVE  IsPart(q) /\ Target(q) = e
BY DEF set_engine, IsPart, Target

LEMMA SetPartStepIs ==
    ASSUME NEW p, IsPart(p), NEW on, NEW q, q = set_part_step(p, on)
    PROVE  IsPart(q) /\ Target(q) = Target(p)
<1> DEFINE s == p.snap \/ (p.seen /\ on /\ ~lane.step)
<1>1. q = [p EXCEPT !.snap = s, !.seen = TRUE]
    BY DEF set_part_step
<1> HIDE DEF s
<1> QED
    BY <1>1 DEF IsPart, Target

\* What the cache says was sent is what the deck was asked for.
LEMMA SentIs ==
    ASSUME Inv, NEW e, Kept(e) # None
    PROVE  /\ Kept(e).engine = Target(part)
           /\ Kept(e).form = lane.pending_form /\ Kept(e).song = lane.pending_song
BY DEF Inv, CacheHolds, Kept

\* One tick of the law, whatever the knobs are at.
LEMMA TickOK ==
    ASSUME Inv, NEW r \in Rungs, NEW e, NEW n \in StepKnob, Tick(r, e, n)
    PROVE  Inv' /\ FromTheTop
<1> DEFINE on == n > 0
           steps == IF on THEN n ELSE 1
           turned == law.seeded /\ r # law.rung
           a == set_step(lane, on, steps)
           b == IF turned THEN new_phrase(a) ELSE a
           c == IF Sent(Kept(e), "form", Form[r]) THEN b ELSE set_form(b, Form[r])
           q == IF Sent(Kept(e), "engine", e) THEN part ELSE set_engine(part, e)
           moved == <<on, steps>> # <<lane.step, lane.steps>>
           turn == (~hist.restored /\ r # law.rung) \/ moved
           top == hist.top /\ on
<1>1. /\ part' = set_part_step(q, on)
      /\ lane' = IF Sent(Kept(e), "song", Song[r]) THEN c ELSE set_song(c, Song[r])
      /\ law' = [seeded |-> TRUE, rung |-> r, asked |-> e, ran |-> part.eng,
                 sent |-> [engine |-> e, form |-> Form[r], song |-> Song[r]]]
      /\ Note(turn, FALSE, top)
    BY DEF Tick
<1>2. on \in BOOLEAN /\ turned \in BOOLEAN /\ turn \in BOOLEAN /\ top \in BOOLEAN
    BY DEF Inv, IsHistory, IsMemory
<1>3. turned => turn
    BY DEF Inv
<1>4. moved <=> ~(on = lane.step /\ steps = lane.steps)
    OBVIOUS
<1>5. top => hist.top /\ on
    OBVIOUS
<1>6. turn <=> (~hist.restored /\ r # law.rung) \/ moved
    OBVIOUS
<1>7. hist.top /\ on => top
    OBVIOUS
<1> HIDE DEF on, steps, turned, moved, turn, top
<1>10. /\ IsLane(a) /\ SamePhrase(lane, a) /\ SameAsked(lane, a)
       /\ a.step = on /\ a.steps = steps /\ a.notes = lane.notes /\ a.len = lane.len
       /\ a.new_pending = lane.new_pending
       /\ (a.length_pending <=>
               lane.length_pending \/ effective_length(a) # effective_length(lane))
       /\ on # lane.step => a.cur = -1
       /\ lane.cur = -1 => a.cur = -1 /\ a.pos = lane.pos
    BY <1>2, SetStepIs DEF Inv, LaneOK
<1> HIDE DEF a
<1>11. /\ IsLane(b) /\ SameMode(a, b) /\ SamePhrase(a, b) /\ SamePlace(a, b) /\ SameAsked(a, b)
       /\ b.len = a.len /\ b.length_pending = a.length_pending
       /\ ~turned => b.new_pending = a.new_pending
  <2>1. CASE turned
    <3>1. b = new_phrase(a)
        BY <2>1
    <3> HIDE DEF b
    <3> QED
        BY <1>10, <2>1, <3>1, NewPhraseIs
  <2>2. CASE ~turned
    <3>1. b = a
        BY <2>2
    <3> HIDE DEF b
    <3> QED
        BY <1>10, <3>1 DEF SameMode, SamePhrase, SamePlace, SameAsked
  <2> QED
      BY <2>1, <2>2
<1> HIDE DEF b
<1>12. /\ IsLane(c) /\ SameMode(b, c) /\ SamePhrase(b, c) /\ SamePlace(b, c)
       /\ c.len = b.len /\ c.length_pending = b.length_pending
       /\ c.new_pending = b.new_pending
       /\ c.pending_form = Form[r] /\ c.pending_song = b.pending_song
  <2>1. CASE Sent(Kept(e), "form", Form[r])
    <3>1. c = b
        BY <2>1
    <3>2. Kept(e) # None /\ Kept(e).form = Form[r]
        BY <2>1 DEF Sent
    <3>3. b.pending_form = Form[r]
        BY <1>10, <1>11, <3>2, SentIs DEF SameAsked
    <3> HIDE DEF c
    <3> QED
        BY <1>11, <3>1, <3>3 DEF SameMode, SamePhrase, SamePlace
  <2>2. CASE ~Sent(Kept(e), "form", Form[r])
    <3>1. c = set_form(b, Form[r])
        BY <2>2
    <3> HIDE DEF c
    <3> QED
        BY <1>11, <3>1, SetFormIs
  <2> QED
      BY <2>1, <2>2
<1> HIDE DEF c
<1>13. /\ IsLane(lane') /\ SameMode(c, lane') /\ SamePhrase(c, lane') /\ SamePlace(c, lane')
       /\ lane'.len = c.len /\ lane'.length_pending = c.length_pending
       /\ lane'.new_pending = c.new_pending
       /\ lane'.pending_form = Form[r] /\ lane'.pending_song = Song[r]
  <2>1. CASE Sent(Kept(e), "song", Song[r])
    <3>1. lane' = c
        BY <1>1, <2>1
    <3>2. Kept(e) # None /\ Kept(e).song = Song[r]
        BY <2>1 DEF Sent
    <3>3. c.pending_song = Song[r]
        BY <1>10, <1>11, <1>12, <3>2, SentIs DEF SameAsked
    <3> QED
        BY <1>12, <3>1, <3>3 DEF SameMode, SamePhrase, SamePlace
  <2>2. CASE ~Sent(Kept(e), "song", Song[r])
    <3>1. lane' = set_song(c, Song[r])
        BY <1>1, <2>2
    <3>2. Song[r] \in Songs
        BY DEF Songs
    <3> QED
        BY <1>12, <3>1, <3>2, SetSongIs
  <2> QED
      BY <2>1, <2>2
<1>14. /\ SamePhrase(lane, lane') /\ SamePlace(a, lane')
       /\ lane'.step = on /\ lane'.steps = steps /\ lane'.notes = lane.notes
       /\ lane'.len = lane.len
       /\ effective_length(lane') = effective_length(a)
       /\ lane'.length_pending = a.length_pending
       /\ ~turned => lane'.new_pending = lane.new_pending
  <2>1. SameMode(a, lane')
      BY <1>11, <1>12, <1>13 DEF SameMode
  <2> QED
      BY <1>10, <1>11, <1>12, <1>13, <2>1, SameLength DEF SameMode, SamePhrase, SamePlace
<1>15. LaneOK(lane')
  <2>1. InStep(lane')
      BY <1>14, StepKept DEF Inv, LaneOK
  <2>2. Owed(lane')
      BY <1>10, <1>14 DEF Inv, LaneOK, Owed
  <2> QED
      BY <1>13, <2>1, <2>2 DEF LaneOK
<1>16. IsPart(part') /\ Target(part') = e
  <2>1. IsPart(q) /\ Target(q) = e
    <3>1. CASE Sent(Kept(e), "engine", e)
      <4>1. q = part
          BY <3>1
      <4>2. Kept(e) # None /\ Kept(e).engine = e
          BY <3>1 DEF Sent
      <4> HIDE DEF q
      <4> QED
          BY <4>1, <4>2, SentIs DEF Inv
    <3>2. CASE ~Sent(Kept(e), "engine", e)
      <4>1. q = set_engine(part, e)
          BY <3>2
      <4> HIDE DEF q
      <4> QED
          BY <4>1, SetEngineIs DEF Inv
    <3> QED
        BY <3>1, <3>2
  <2> HIDE DEF q
  <2> QED
      BY <1>1, <2>1, SetPartStepIs
<1> HIDE DEF q
<1>17. IsMemory(law') /\ law'.sent = [engine |-> e, form |-> Form[r], song |-> Song[r]]
    BY <1>1 DEF IsMemory
<1>18. /\ IsHistory(hist') /\ ~hist'.restored /\ (hist'.top <=> top)
       /\ hist'.turned <=> (hist.turned \/ turn) /\ Pending(lane')
  <2>1. IsHistory(hist)
      BY DEF Inv
  <2>2. PICK no \in BOOLEAN : no = FALSE
      OBVIOUS
  <2>3. Note(turn, no, top)
      BY <1>1, <2>2
  <2> QED
      BY <1>2, <2>1, <2>2, <2>3, NoteIs
<1>19. CacheHolds(law', part', lane')
    BY <1>13, <1>16, <1>17 DEF CacheHolds
<1>20. Asked(lane', hist')
  <2>1. CASE turn
      BY <1>18, <2>1 DEF Asked, Pending
  <2>2. CASE ~turn
    <3>1. effective_length(a) = effective_length(lane)
      <4>1. SameMode(lane, a)
          BY <1>4, <1>6, <1>10, <2>2 DEF SameMode
      <4> QED
          BY <4>1, SameLength
    <3>2. lane'.new_pending = lane.new_pending /\ (lane'.length_pending <=> lane.length_pending)
        BY <1>3, <1>10, <1>14, <2>2, <3>1
    <3> QED
        BY <1>14, <1>18, <3>1, <3>2 DEF Inv, Asked, Pending
  <2> QED
      BY <2>1, <2>2
<1>21. AtTop(lane', hist')
    BY <1>5, <1>10, <1>14, <1>18 DEF Inv, AtTop, SamePhrase, SamePlace
<1>22. Inv'
    BY <1>15, <1>16, <1>17, <1>18, <1>19, <1>20, <1>21 DEF Inv
<1>23. FromTheTop
  <2>1. SUFFICES ASSUME hist.top, ~hist'.top, lane.step PROVE lane'.cur = -1
      BY DEF FromTheTop
  <2>2. ~on /\ on # lane.step
      BY <1>2, <1>7, <1>18, <2>1
  <2> QED
      BY <1>10, <1>14, <2>2 DEF SamePlace
<1> QED
    BY <1>22, <1>23

-----------------------------------------------------------------------------

LEMMA NextOK == ASSUME Inv, [Next]_vars PROVE Inv' /\ (FromTheTop \/ UNCHANGED vars)
<1>1. CASE Process
    BY <1>1, ProcessOK
<1>2. CASE Knobs
  <2>1. PICK r \in Rungs, e \in Engines, n \in StepKnob : Tick(r, e, n)
      BY <1>2 DEF Knobs
  <2> QED
      BY <2>1, TickOK
<1>3. CASE EngineSwap
    BY <1>3, SwapOK
<1>4. CASE Snap \/ Resync \/ Restart
    BY <1>4, ResetOK
<1>5. CASE Restore
    BY <1>5, RestoreOK
<1>6. CASE Reinit(TRUE) \/ Reinit(FALSE)
  <2>1. PICK i \in BOOLEAN : Reinit(i)
      BY <1>6
  <2> QED
      BY <2>1, ReinitOK
<1>7. CASE UNCHANGED vars
    BY <1>7 DEF vars, Inv
<1> QED
    BY <1>1, <1>2, <1>3, <1>4, <1>5, <1>6, <1>7 DEF Next

\* The deck's invariant: what the lane owes, what the cache says, and where a song
\* that was restarted stands.
THEOREM DeckInvariance == Spec => []Inv
<1>1. Inv /\ [Next]_vars => Inv'
    BY NextOK
<1> QED
    BY <1>1, InitOK, PTL DEF Spec

\* A pattern of the wrong length is rebuilt before it plays on, in whatever order
\* STEPS, the mode and the engine change (lane.cpp, _length_pending).
THEOREM LengthsAreOwed == Spec => []LengthIsOwed
<1>1. Inv => LengthIsOwed
    BY DEF Inv, LaneOK, Owed, LengthIsOwed
<1> QED
    BY <1>1, DeckInvariance, PTL

\* A pattern of the right length is thrown away at the player's word only: the
\* rungs a restore brings are no turns, and an engine's round trip owes nothing.
THEOREM RollsAreAsked == Spec => []PendingIsAsked
<1>1. Inv => PendingIsAsked
    BY DEF Inv, Asked, PendingIsAsked
<1> QED
    BY <1>1, DeckInvariance, PTL

\* The pattern that plays is the one the song has at this phrase, and B's cadence
\* is bound to the opening A has now.
THEOREM SongsAreInStep == Spec => []SongIsInStep
<1>1. Inv => SongIsInStep
    BY DEF Inv, LaneOK, InStep, SongIsInStep
<1> QED
    BY <1>1, DeckInvariance, PTL

\* A setter the law skips has already been sent to this very instrument.
THEOREM CacheIsKept == Spec => []CacheIsTrue
<1>1. Inv => CacheIsTrue
    BY DEF Inv, CacheHolds, Target, CacheIsTrue
<1> QED
    BY <1>1, DeckInvariance, PTL

\* After RESET the first step of a STEP deck is the song's first phrase's, with
\* nothing older pending, on every grid of more than one unit.
THEOREM RestartsAreFromTheTop == Spec => RestartPlaysFromTheTop
<1>1. Inv /\ [Next]_vars => [FromTheTop]_vars
    BY NextOK
<1>2. [FromTheTop]_vars =>
          [hist.top /\ ~hist'.top /\ lane.step /\ lane'.cur # -1 =>
              lane'.phrase = (IF lane'.pos < lane.pos THEN 1 % SongPeriod ELSE 0)
              /\ ~Pending(lane')]_vars
    BY DEF FromTheTop
<1> QED
    BY <1>1, <1>2, DeckInvariance, PTL DEF Spec, RestartPlaysFromTheTop

-----------------------------------------------------------------------------
(* A phase of so many units, and the slots of a cycle.                       *)

LEMMA Below ==
    ASSUME NEW m \in Int, NEW n \in Int, NEW u \in Nat \ {0}, m * u < n * u
    PROVE  m < n
<1> SUFFICES ASSUME m >= n PROVE FALSE
    OBVIOUS
<1> DEFINE d == m - n
<1>1. d \in Nat /\ m = n + d
    OBVIOUS
<1> HIDE DEF d
<1>2. m * u = n * u + d * u /\ d * u \in Nat /\ n * u \in Int
    BY <1>1
<1> QED
    BY <1>2

LEMMA QuotientIs ==
    ASSUME NEW a \in Nat, NEW u \in Nat \ {0}
    PROVE  /\ a \div u \in Nat /\ a % u \in 0 .. u - 1
           /\ a = (a \div u) * u + (a % u)
OBVIOUS

LEMMA QuotientOf ==
    ASSUME NEW a \in Nat, NEW u \in Nat \ {0}, NEW q \in Nat, q * u <= a, a < (q + 1) * u
    PROVE  a \div u = q
<1> DEFINE p == a \div u
           r == a % u
<1>1. p \in Nat /\ r \in 0 .. u - 1 /\ a = p * u + r
    BY QuotientIs
<1> HIDE DEF p, r
<1>2. q < p + 1
  <2>1. p * u + r < (p + 1) * u
      BY <1>1
  <2>2. q * u < (p + 1) * u
      BY <1>1, <2>1
  <2> QED
      BY <1>1, <2>2, Below
<1>3. p < q + 1
  <2>1. p * u <= a
      BY <1>1
  <2>2. p * u < (q + 1) * u
      BY <1>1, <2>1
  <2> QED
      BY <1>1, <2>2, Below
<1> QED
    BY <1>1, <1>2, <1>3 DEF p

\* The slot a phase is in, of k slots to a cycle of u units, and the next one.
LEMMA SlotIs ==
    ASSUME NEW u \in Nat \ {0}, NEW k \in 1 .. u, NEW pos \in 0 .. u - 1
    PROVE  /\ (pos * k) \div u \in 0 .. k - 1
           /\ pos + 1 < u => ((pos + 1) * k) \div u \in {(pos * k) \div u, (pos * k) \div u + 1}
           /\ pos + 1 = u => (pos * k) \div u = k - 1
<1> DEFINE a == pos * k
           q == a \div u
           r == a % u
<1>1. a \in Nat /\ a = pos * k
    OBVIOUS
<1> HIDE DEF a
<1>2. q \in Nat /\ r \in 0 .. u - 1 /\ a = q * u + r
    BY <1>1, QuotientIs
<1> HIDE DEF q, r
<1>3. q < k
  <2>1. u = pos + (u - pos) /\ u - pos > 0 /\ u - pos \in Nat
      OBVIOUS
  <2>2. k * u = a + k * (u - pos) /\ k * (u - pos) > 0
      BY <1>1, <2>1
  <2>3. q * u <= a
      BY <1>2
  <2>4. q * u < k * u
      BY <1>1, <1>2, <2>2, <2>3
  <2> QED
      BY <1>2, <2>4, Below
<1>4. ASSUME pos + 1 < u PROVE ((pos + 1) * k) \div u \in {q, q + 1}
  <2> DEFINE b == a + k
  <2>1. b \in Nat /\ (pos + 1) * k = b
      BY <1>1
  <2>2. b = q * u + (r + k) /\ r + k < u + u /\ r + k >= 0 /\ r + k \in Nat
      BY <1>1, <1>2
  <2> HIDE DEF b
  <2>3. (q + 1) * u = q * u + u /\ ((q + 1) + 1) * u = q * u + u + u /\ q * u \in Nat
      BY <1>2
  <2>4. CASE r + k < u
    <3>1. q * u <= b /\ b < (q + 1) * u
        BY <2>2, <2>3, <2>4
    <3> QED
        BY <1>2, <2>1, <3>1, QuotientOf
  <2>5. CASE r + k >= u
    <3>1. (q + 1) * u <= b /\ b < ((q + 1) + 1) * u /\ q + 1 \in Nat
        BY <1>2, <2>2, <2>3, <2>5
    <3>2. b \div u = q + 1
        BY <2>1, <3>1, QuotientOf
    <3> QED
        BY <2>1, <3>2
  <2> QED
      BY <2>2, <2>4, <2>5
<1>5. ASSUME pos + 1 = u PROVE q = k - 1
  <2>1. a + k = k * u /\ k <= u
      BY <1>1, <1>5
  <2>2. (k - 1) * u = k * u - u /\ ((k - 1) + 1) * u = k * u /\ k * u \in Nat
      OBVIOUS
  <2>3. (k - 1) * u <= a /\ a < ((k - 1) + 1) * u /\ k - 1 \in Nat
      BY <1>1, <2>1, <2>2
  <2> QED
      BY <1>1, <2>3, QuotientOf DEF q
<1> QED
    BY <1>2, <1>3, <1>4, <1>5 DEF q, a

\* A live turn of STEPS keeps the phase in the cycle.
LEMMA ReslottedIs ==
    ASSUME NEW u \in Nat \ {0}, NEW n \in Nat \ {0}, NEW x \in Nat
    PROVE  (x % (n * u)) \div n \in 0 .. u - 1
<1> DEFINE v == n * u
           y == x % v
           p == y \div n
<1>1. v \in Nat \ {0}
    OBVIOUS
<1> HIDE DEF v
<1>2. y \in Nat /\ y < v
    BY <1>1, QuotientIs
<1> HIDE DEF y
<1> DEFINE z == y % n
<1>3. p \in Nat /\ z \in 0 .. n - 1 /\ y = p * n + z
    BY <1>2, QuotientIs
<1> HIDE DEF p, z
<1>4. p * n < u * n
  <2>1. p * n <= y
      BY <1>3
  <2>2. v = u * n
      BY DEF v
  <2>3. p * n \in Int /\ u * n \in Int
      BY <1>3
  <2> QED
      BY <1>2, <2>1, <2>2, <2>3
<1>5. p < u
    BY <1>3, <1>4, Below
<1> QED
    BY <1>3, <1>5 DEF p, y, v

LEMMA MultipleIs ==
    ASSUME NEW a \in Int, NEW k \in Nat \ {0}
    PROVE  a % k = 0 <=> \E j \in Int : a = j * k
<1>1. ASSUME a % k = 0 PROVE \E j \in Int : a = j * k
  <2> DEFINE j == a \div k
  <2>1. j \in Int /\ a = j * k + (a % k)
      OBVIOUS
  <2> HIDE DEF j
  <2>2. a = j * k
      BY <1>1, <2>1
  <2> QED
      BY <2>1, <2>2
<1>2. ASSUME NEW j \in Int, a = j * k PROVE a % k = 0
  <2> DEFINE p == a \div k
             r == a % k
  <2>1. p \in Int /\ r \in 0 .. k - 1 /\ a = p * k + r
      OBVIOUS
  <2> HIDE DEF p, r
  <2>2. j * k < (p + 1) * k /\ p * k < (j + 1) * k
      BY <1>2, <2>1
  <2>3. j < p + 1 /\ p < j + 1
      BY <2>1, <2>2, Below
  <2>4. j = p
      BY <2>1, <2>3
  <2>5. r = 0
      BY <1>2, <2>1, <2>4
  <2> QED
      BY <2>5 DEF r
<1> QED
    BY <1>1, <1>2

\* Two places are the same slot of k.
SameSlot(a, b, k) == (a - b) % k = 0

\* The count goes on as the slot does, round a modulus of whole cycles.
LEMMA CountsOn ==
    ASSUME NEW k \in Nat \ {0}, NEW mod \in Nat \ {0}, mod % k = 0,
           NEW s \in Nat, NEW q \in Nat, NEW p \in Nat, SameSlot(s, q, k),
           p = q + 1 \/ (p = 0 /\ q = k - 1),
           NEW r, r = (s + 1) % mod
    PROVE  SameSlot(r, p, k)
<1>1. PICK i \in Int : mod = i * k
  <2>1. mod \in Int /\ mod % k = 0
      OBVIOUS
  <2> QED
      BY <2>1, MultipleIs
<1>2. PICK j \in Int : s - q = j * k
  <2>1. s - q \in Int /\ (s - q) % k = 0
      BY DEF SameSlot
  <2> QED
      BY <2>1, MultipleIs
<1> DEFINE t == (s + 1) \div mod
<1>3. t \in Nat /\ r \in Nat /\ s + 1 = t * mod + r
  <2> DEFINE a == s + 1
  <2>1. a \in Nat
      OBVIOUS
  <2> HIDE DEF a
  <2>2. a \div mod \in Nat /\ a % mod \in 0 .. mod - 1 /\ a = (a \div mod) * mod + (a % mod)
      BY <2>1, QuotientIs
  <2>3. a % mod \in Nat
      BY <2>2
  <2> QED
      BY <2>2, <2>3 DEF a
<1> HIDE DEF t
<1>4. t * mod = (t * i) * k /\ t * i \in Int
    BY <1>1, <1>3
<1> DEFINE c == t * i
<1>5. c \in Int /\ r = s + 1 - c * k
    BY <1>3, <1>4
<1> HIDE DEF c
<1>6. \E g \in Int : r - p = g * k
  <2>1. CASE p = q + 1
    <3>1. r - p = j * k - c * k
        BY <1>2, <1>3, <1>5, <2>1
    <3>2. j * k - c * k = (j - c) * k /\ j - c \in Int
        BY <1>5
    <3> QED
        BY <3>1, <3>2
  <2>2. CASE p = 0 /\ q = k - 1
    <3>1. r - p = j * k + k - c * k
        BY <1>2, <1>3, <1>5, <2>2
    <3>2. j * k + k - c * k = (j + 1 - c) * k /\ j + 1 - c \in Int
        BY <1>5
    <3> QED
        BY <3>1, <3>2
  <2> QED
      BY <2>1, <2>2
<1>7. r - p \in Int
    BY <1>3
<1> QED
    BY <1>6, <1>7, MultipleIs DEF SameSlot

-----------------------------------------------------------------------------
(* The deck's step clock.                                                   *)

\* Where the phase is, and the step it is in.
PlaceOK(l) ==
    /\ l.pos \in 0 .. Units - 1
    /\ l.step => l.steps \in StepKnob \ {0} /\ (l.cur = -1 \/ l.cur = StepAtPhase(l))

\* The deck step of a deck in STEP: what was played, while that is counted from the
\* copy of the lane's step; and the step of the phase, counted from there.
PlayedOK(l, d, p) ==
    l.step =>
        /\ p.count # None => p.count = d.step /\ d.last = l.cur
        /\ p.aligned => p.count # None /\ SameSlot(d.step, StepAtPhase(l), l.steps)

Steps == [step : Nat, last : Int]
Counts == [count : Nat \cup {None}, aligned : BOOLEAN]

DeckInv ==
    /\ Inv /\ PlaceOK(lane) /\ PlayedOK(lane, deck, played)
    /\ deck \in Steps /\ played \in Counts

LEMMA UnitsAre == Units \in Nat \ {0, 1} /\ DeckMod \in Nat \ {0, 1} /\ 0 \in 0 .. Units - 1
BY SlotsAssumption, DeckModAssumption

\* A lane in STEP has no more slots than the cycle has units, and the deck step's
\* modulus is whole cycles of them.
LEMMA StepsAre ==
    ASSUME NEW n \in StepKnob \ {0}
    PROVE  n \in 1 .. Units /\ n \in Nat \ {0} /\ DeckMod % n = 0
BY SlotsAssumption, UnitsAssumption, DeckModAssumption

LEMMA StepIs ==
    ASSUME NEW l, l.pos \in 0 .. Units - 1, l.steps \in StepKnob \ {0}
    PROVE  StepAtPhase(l) \in Nat
<1> DEFINE u == Units
           k == l.steps
           pos == l.pos
<1>1. u \in Nat \ {0} /\ k \in 1 .. u /\ pos \in 0 .. u - 1
    BY UnitsAre, StepsAre
<1>2. StepAtPhase(l) = (pos * k) \div u
    BY DEF StepAtPhase
<1> HIDE DEF u, k, pos
<1>3. (pos * k) \div u \in 0 .. k - 1
    BY <1>1, SlotIs
<1> QED
    BY <1>1, <1>2, <1>3

LEMMA SameStep ==
    ASSUME NEW l, NEW m, m.pos = l.pos, m.steps = l.steps
    PROVE  StepAtPhase(m) = StepAtPhase(l)
BY DEF StepAtPhase

\* The lane is left where it is.
LEMMA StaysOK ==
    ASSUME NEW l, NEW m, NEW d, NEW p, PlaceOK(l), PlayedOK(l, d, p), SamePlace(l, m),
           m.step = l.step, m.steps = l.steps
    PROVE  PlaceOK(m) /\ PlayedOK(m, d, p)
<1>1. StepAtPhase(m) = StepAtPhase(l) /\ m.pos = l.pos /\ m.cur = l.cur
    BY SameStep DEF SamePlace
<1> QED
    BY <1>1 DEF PlaceOK, PlayedOK

\* Heard, of a lane l that becomes m.
HeardIs(l, m, p, g) ==
    \/ g = NoCount
    \/ l.cur = -1 /\ g = p /\ (p.aligned => m.cur = StepAtPhase(l))
    \/ l.cur # -1 /\ m.cur # l.cur /\ p.count # None
       /\ g = [count |-> (p.count + 1) % DeckMod, aligned |-> p.aligned]
    \/ l.cur # -1 /\ g = p /\ (m.cur = l.cur \/ p.count = None)

\* One sample moves the phase on by a unit, or not.
LEMMA MovedOK ==
    ASSUME NEW l, PlaceOK(l), l.step, NEW m, NEW d \in 0 .. 1,
           m.pos = (l.pos + d) % Units, m.steps = l.steps, m.step, m.cur = StepAtPhase(m)
    PROVE  /\ PlaceOK(m)
           /\ LET q == StepAtPhase(l)
                  p == StepAtPhase(m)
              IN  q \in Nat /\ p \in Nat /\ (p = q \/ p = q + 1 \/ (p = 0 /\ q = l.steps - 1))
<1> DEFINE u == Units
           k == l.steps
           pos == l.pos
           q == (pos * k) \div u
           p == (m.pos * k) \div u
<1>1. /\ u \in Nat \ {0, 1} /\ k \in 1 .. u /\ k \in Nat \ {0} /\ pos \in 0 .. u - 1
      /\ m.pos = (pos + d) % u
    BY UnitsAre, StepsAre DEF PlaceOK
<1>2. StepAtPhase(l) = q /\ StepAtPhase(m) = p
    BY DEF StepAtPhase
<1>3. m.pos \in 0 .. u - 1 /\ PlaceOK(m)
  <2>1. m.pos \in 0 .. u - 1
      BY <1>1
  <2> QED
      BY <2>1 DEF PlaceOK
<1> HIDE DEF u, k, pos
<1>4. q \in 0 .. k - 1 /\ p \in 0 .. k - 1
    BY <1>1, <1>3, SlotIs
<1>5. p = q \/ p = q + 1 \/ (p = 0 /\ q = k - 1)
  <2>1. CASE d = 0
    <3>1. m.pos = pos
        BY <1>1, <2>1
    <3> QED
        BY <3>1
  <2>2. CASE d = 1 /\ pos + 1 < u
    <3>1. m.pos = pos + 1
        BY <1>1, <2>2
    <3>2. p = ((pos + 1) * k) \div u
        BY <3>1
    <3>3. ((pos + 1) * k) \div u \in {q, q + 1}
      <4>1. u \in Nat \ {0}
          BY <1>1
      <4> QED
          BY <1>1, <2>2, <4>1, SlotIs
    <3> HIDE DEF p, q
    <3> QED
        BY <3>2, <3>3
  <2>3. CASE d = 1 /\ pos + 1 = u
    <3>1. m.pos = 0
        BY <1>1, <2>3
    <3>2. 0 * k = 0 /\ 0 \div u = 0
        BY <1>1
    <3>3. q = k - 1
        BY <1>1, <2>3, SlotIs
    <3> QED
        BY <3>1, <3>2, <3>3
  <2> QED
      BY <1>1, <2>1, <2>2, <2>3
<1>6. q \in Nat /\ p \in Nat
    BY <1>1, <1>4
<1> QED
    BY <1>2, <1>3, <1>5, <1>6 DEF k

\* The deck's count follows the lane's steps.
LEMMA CountedOK ==
    ASSUME NEW l, PlaceOK(l), l.step, NEW m, NEW t \in 0 .. 1,
           m.pos = (l.pos + t) % Units, m.steps = l.steps, m.step, m.cur = StepAtPhase(m),
           NEW d \in Steps, NEW p \in Counts, PlayedOK(l, d, p), NEW g, HeardIs(l, m, p, g)
    PROVE  /\ PlayedOK(m, Counted(d, m.cur), g) /\ Counted(d, m.cur) \in Steps
           /\ g \in Counts
<1> DEFINE c == Counted(d, m.cur)
           q == StepAtPhase(l)
           s == StepAtPhase(m)
           k == l.steps
<1>1. /\ q \in Nat /\ s \in Nat /\ (s = q \/ s = q + 1 \/ (s = 0 /\ q = k - 1))
      /\ m.cur = s /\ m.steps = k /\ StepAtPhase(m) = s /\ StepAtPhase(l) = q
    BY MovedOK
<1>2. /\ d.step \in Nat
      /\ p.count # None => p.count = d.step /\ d.last = l.cur
      /\ p.aligned => p.count # None /\ SameSlot(d.step, q, k)
    BY DEF PlayedOK, Steps
<1>3. l.cur = -1 \/ l.cur = q
    BY DEF PlaceOK
<1>4. k \in Nat \ {0} /\ DeckMod % k = 0 /\ DeckMod \in Nat \ {0}
    BY StepsAre, UnitsAre DEF PlaceOK
<1> HIDE DEF q, s, k
<1>5. c.last = s /\ c.step = IF s # d.last /\ d.last >= 0 THEN (d.step + 1) % DeckMod ELSE d.step
    BY <1>1 DEF Counted
<1> HIDE DEF c
<1> SUFFICES PlayedOK(m, c, g) /\ c \in Steps /\ g \in Counts
    BY DEF c
<1>6. (d.step + 1) % DeckMod \in Nat
    BY <1>2, <1>4
<1>7. c \in Steps /\ c.step \in Nat
  <2>1. c.step \in Nat /\ c.last \in Int
      BY <1>1, <1>2, <1>5, <1>6
  <2>2. c = [step |-> c.step, last |-> c.last]
      BY DEF c, Counted
  <2> DEFINE x == c.step
             y == c.last
  <2>3. x \in Nat /\ y \in Int /\ c = [step |-> x, last |-> y]
      BY <2>1, <2>2
  <2> HIDE DEF x, y
  <2>4. c \in Steps
      BY <2>3 DEF Steps
  <2> QED
      BY <2>1, <2>4
<1>8. CASE g = NoCount
  <2>1. ~g.aligned /\ g.count = None /\ g \in Counts
      BY <1>8 DEF NoCount, Counts
  <2> QED
      BY <1>7, <2>1 DEF PlayedOK
<1>9. CASE l.cur = -1 /\ g = p /\ (p.aligned => m.cur = StepAtPhase(l))
  <2>1. p.aligned => s = q
      BY <1>1, <1>9
  <2>2. p.count # None => c.step = d.step
    <3>1. ASSUME p.count # None PROVE ~(d.last >= 0)
        BY <1>2, <1>9, <3>1
    <3> QED
        BY <1>5, <3>1
  <2>3. p.count # None => p.count = c.step /\ c.last = m.cur
      BY <1>1, <1>2, <1>5, <2>2
  <2>4. p.aligned => p.count # None /\ SameSlot(c.step, s, k)
      BY <1>2, <2>1, <2>2
  <2> QED
      BY <1>1, <1>2, <1>7, <1>9, <2>3, <2>4 DEF PlayedOK
<1>10. CASE /\ l.cur # -1 /\ m.cur # l.cur /\ p.count # None
            /\ g = [count |-> (p.count + 1) % DeckMod, aligned |-> p.aligned]
  <2>1. l.cur = q /\ s # q /\ d.last = q /\ p.count = d.step
      BY <1>1, <1>2, <1>3, <1>10
  <2>2. c.step = (d.step + 1) % DeckMod
      BY <1>1, <1>5, <2>1
  <2> DEFINE n == (p.count + 1) % DeckMod
  <2>3. n = c.step
      BY <2>1, <2>2
  <2> HIDE DEF n
  <2>4. (g.aligned <=> p.aligned) /\ g.count = n /\ g \in Counts
    <3>1. g = [count |-> n, aligned |-> p.aligned]
        BY <1>10 DEF n
    <3>2. n \in Nat /\ p.aligned \in BOOLEAN
        BY <1>7, <2>3 DEF Counts
    <3> QED
        BY <3>1, <3>2 DEF Counts
  <2>5. ASSUME p.aligned PROVE SameSlot(c.step, s, k)
    <3>1. s = q + 1 \/ (s = 0 /\ q = k - 1)
        BY <1>1, <2>1
    <3>2. SameSlot(d.step, q, k)
        BY <1>2, <2>5
    <3>3. SameSlot((d.step + 1) % DeckMod, s, k)
      <4> DEFINE e == d.step
                 mod == DeckMod
      <4>1. /\ e \in Nat /\ q \in Nat /\ s \in Nat /\ k \in Nat \ {0}
            /\ mod \in Nat \ {0} /\ mod % k = 0 /\ SameSlot(e, q, k)
          BY <1>1, <1>2, <1>4, <3>2
      <4> HIDE DEF e, mod
      <4>2. \/ s = q + 1
            \/ s = 0 /\ q = k - 1
          BY <3>1
      <4>3. SameSlot((e + 1) % mod, s, k)
          BY <4>1, <4>2, CountsOn
      <4> QED
          BY <4>3 DEF e, mod
    <3> QED
        BY <2>2, <3>3
  <2>6. n # None
      BY <1>7, <2>3, NoneAssumption
  <2> QED
      BY <1>1, <1>2, <1>5, <1>7, <2>3, <2>4, <2>5, <2>6 DEF PlayedOK
<1>11. CASE l.cur # -1 /\ g = p /\ (m.cur = l.cur \/ p.count = None)
  <2>1. ASSUME p.count # None PROVE s = q /\ c.step = d.step
      BY <1>1, <1>2, <1>3, <1>5, <1>11, <2>1
  <2>2. p.count # None => p.count = c.step /\ c.last = m.cur
      BY <1>1, <1>2, <1>5, <2>1
  <2>3. p.aligned => p.count # None /\ SameSlot(c.step, s, k)
      BY <1>2, <2>1
  <2> QED
      BY <1>1, <1>2, <1>7, <1>11, <2>2, <2>3 DEF PlayedOK
<1> QED
    BY <1>8, <1>9, <1>10, <1>11 DEF HeardIs

LEMMA DeckInitOK == DeckInit => DeckInv
<1> SUFFICES ASSUME DeckInit PROVE DeckInv
    OBVIOUS
<1>1. Inv
    BY InitOK DEF DeckInit
<1>2. ~lane.step /\ lane.pos = 0
  <2>1. lane = Booted(Blank) /\ IsLane(Blank)
      BY BlankIs DEF DeckInit, Init
  <2>2. lane.step = Blank.step /\ lane.pos = 0
      BY <2>1, BootedIs
  <2> QED
      BY <2>2 DEF Blank
<1>3. deck \in Steps /\ played \in Counts
    BY DEF DeckInit, Entered, FromEntry, Steps, Counts
<1> QED
    BY <1>1, <1>2, <1>3, UnitsAre DEF DeckInv, PlaceOK, PlayedOK

LEMMA DeckProcessOK ==
    ASSUME DeckInv, DeckProcess
    PROVE  PlaceOK(lane') /\ PlayedOK(lane', deck', played') /\ deck' \in Steps /\ played' \in Counts
<1>1. PICK d \in 0 .. 1, varied \in BOOLEAN : lane' = process(lane, d, varied)
    BY DEF DeckProcess, Process
<1>2. /\ lane'.pos = (lane.pos + d) % Units /\ (lane.step => lane'.cur = StepAtPhase(lane'))
      /\ lane'.step = lane.step /\ lane'.steps = lane.steps
    BY <1>1, ProcessIs DEF DeckInv, Inv, Answered, SameMode
<1>3. CASE lane.step
  <2>1. deck' = Counted(deck, lane'.cur) /\ played' = Heard
      BY <1>3 DEF DeckProcess
  <2>2. HeardIs(lane, lane', played, Heard)
    <3> DEFINE n == (played.count + 1) % DeckMod
    <3>1. [played EXCEPT !.count = n] = [count |-> n, aligned |-> played.aligned]
        BY DEF DeckInv, Counts
    <3> HIDE DEF n
    <3>2. CASE lane.cur = -1 /\ played.aligned /\ lane'.cur # StepAtPhase(lane)
      <4>1. Heard = NoCount
          BY <3>2 DEF Heard
      <4> QED
          BY <4>1 DEF HeardIs
    <3>3. CASE lane.cur # -1 /\ lane'.cur # lane.cur /\ played.count # None
      <4>1. Heard = [count |-> n, aligned |-> played.aligned]
          BY <3>1, <3>3 DEF Heard, n
      <4> QED
          BY <3>3, <4>1 DEF HeardIs, n
    <3>4. CASE /\ ~(lane.cur = -1 /\ played.aligned /\ lane'.cur # StepAtPhase(lane))
               /\ ~(lane.cur # -1 /\ lane'.cur # lane.cur /\ played.count # None)
      <4>1. Heard = played
          BY <3>4 DEF Heard
      <4> QED
          BY <3>4, <4>1 DEF HeardIs
    <3> QED
        BY <3>2, <3>3, <3>4
  <2>3. PlaceOK(lane')
      BY <1>2, <1>3, MovedOK DEF DeckInv
  <2>4. PlayedOK(lane', Counted(deck, lane'.cur), Heard) /\ Counted(deck, lane'.cur) \in Steps
        /\ Heard \in Counts
      BY <1>2, <1>3, <2>2, CountedOK DEF DeckInv
  <2> QED
      BY <2>1, <2>3, <2>4
<1>4. CASE ~lane.step
  <2>1. deck' = deck /\ played' = played
      BY <1>4 DEF DeckProcess
  <2>2. lane'.pos \in 0 .. Units - 1
      BY <1>2, UnitsAre DEF DeckInv, PlaceOK
  <2> QED
      BY <1>2, <1>4, <2>1, <2>2 DEF DeckInv, PlaceOK, PlayedOK
<1> QED
    BY <1>3, <1>4

\* A tick turns STEPS, and leaves the lane where that puts it.
LEMMA TickPlaces ==
    ASSUME IsLane(lane), NEW r \in Rungs, NEW e, NEW n \in StepKnob, Tick(r, e, n)
    PROVE  LET on == n > 0
               s == set_step(lane, on, IF on THEN n ELSE 1)
           IN  SameMode(s, lane') /\ SamePlace(s, lane')
<1> DEFINE on == n > 0
           steps == IF on THEN n ELSE 1
           turned == law.seeded /\ r # law.rung
           a == set_step(lane, on, steps)
           b == IF turned THEN new_phrase(a) ELSE a
           c == IF Sent(Kept(e), "form", Form[r]) THEN b ELSE set_form(b, Form[r])
<1>1. lane' = IF Sent(Kept(e), "song", Song[r]) THEN c ELSE set_song(c, Song[r])
    BY DEF Tick
<1>2. on \in BOOLEAN /\ Song[r] \in Songs
    BY DEF Songs
<1>3. IsLane(a)
  <2> DEFINE z == a
  <2>1. z = set_step(lane, on, steps)
      OBVIOUS
  <2> HIDE DEF on, steps, z
  <2>2. IsLane(z)
      BY <1>2, <2>1, SetStepIs
  <2> QED
      BY <2>2 DEF z, on, steps
<1> HIDE DEF a
<1>4. IsLane(b) /\ SameMode(a, b) /\ SamePlace(a, b)
    BY <1>3, NewPhraseIs DEF SameMode, SamePlace
<1> HIDE DEF b
<1>5. IsLane(c) /\ SameMode(b, c) /\ SamePlace(b, c)
    BY <1>4, SetFormIs DEF SameMode, SamePlace
<1> HIDE DEF c
<1>6. SameMode(c, lane') /\ SamePlace(c, lane')
    BY <1>1, <1>2, <1>5, SetSongIs DEF SameMode, SamePlace
<1>7. SameMode(a, lane') /\ SamePlace(a, lane')
    BY <1>4, <1>5, <1>6 DEF SameMode, SamePlace
<1> QED
    BY <1>7 DEF a

LEMMA DeckTurnedOK ==
    ASSUME DeckInv, DeckTurned
    PROVE  PlaceOK(lane') /\ PlayedOK(lane', deck', played') /\ deck' \in Steps /\ played' \in Counts
<1>1. PICK r \in Rungs, e \in Engines, n \in StepKnob : Tick(r, e, n)
    BY DEF DeckTurned, Knobs
<1> DEFINE on == n > 0
           steps == IF on THEN n ELSE 1
           s == set_step(lane, on, steps)
<1>2. n \in Nat /\ on \in BOOLEAN /\ (on => n \in StepKnob \ {0} /\ steps = n)
    BY SlotsAssumption
<1>3. SameMode(s, lane') /\ SamePlace(s, lane') /\ IsLane(lane)
    BY <1>1, TickPlaces DEF DeckInv, Inv, LaneOK
<1> HIDE DEF on, steps
<1>4. s = set_step(lane, on, steps)
    OBVIOUS
<1> HIDE DEF s
<1>5. /\ s.step = on /\ s.steps = steps /\ (on # lane.step => s.cur = -1)
      /\ lane.cur = -1 => s.cur = -1 /\ s.pos = lane.pos
      /\ Slotted(lane, s, on, steps)
    BY <1>4, <1>2, <1>3, SetStepIs
<1>6. /\ lane'.step = on /\ lane'.steps = steps /\ lane'.pos = s.pos /\ lane'.cur = s.cur
    BY <1>3, <1>5 DEF SameMode, SamePlace
<1>7. Entered \in Steps /\ FromEntry \in Counts /\ Entered.last = -1 /\ Entered.step = 0
      /\ FromEntry.count = 0 /\ ~FromEntry.aligned
    BY DEF Entered, FromEntry, Steps, Counts
<1>8. CASE on /\ lane.step
  <2>1. /\ deck' = deck
        /\ played' = IF lane'.cur # lane.cur THEN NoCount
                     ELSE [played EXCEPT !.aligned = @ /\ lane'.steps = lane.steps]
      BY <1>6, <1>8 DEF DeckTurned
  <2> DEFINE al == played.aligned /\ lane'.steps = lane.steps
             kept == [played EXCEPT !.aligned = al]
  <2>2. played' = IF lane'.cur # lane.cur THEN NoCount ELSE kept
      BY <2>1
  <2>3. al \in BOOLEAN
      BY DEF DeckInv, Counts
  <2> HIDE DEF al
  <2>4. kept \in Counts /\ kept.count = played.count /\ (kept.aligned <=> al)
      BY <2>3 DEF DeckInv, Counts
  <2> HIDE DEF kept
  <2>5. NoCount \in Counts /\ NoCount.count = None /\ ~NoCount.aligned
      BY DEF NoCount, Counts
  <2>6. CASE SamePlace(lane, s) /\ (steps = lane.steps \/ ~(lane.cur >= 0))
    <3>1. lane'.pos = lane.pos /\ lane'.cur = lane.cur /\ played' = kept
        BY <1>6, <2>2, <2>6 DEF SamePlace
    <3>2. steps = lane.steps => StepAtPhase(lane') = StepAtPhase(lane)
        BY <1>6, <3>1, SameStep
    <3>3. steps # lane.steps => lane.cur = -1
      <4>1. lane.cur = -1 \/ lane.cur = StepAtPhase(lane)
          BY <1>8 DEF DeckInv, PlaceOK
      <4>2. StepAtPhase(lane) \in Nat
          BY <1>8, StepIs DEF DeckInv, PlaceOK
      <4> QED
          BY <2>6, <4>1, <4>2
    <3>4. PlaceOK(lane')
        BY <1>2, <1>6, <1>8, <3>1, <3>2, <3>3 DEF DeckInv, PlaceOK
    <3>5. al => steps = lane.steps /\ played.aligned
        BY <1>6 DEF al
    <3>6. PlayedOK(lane', deck, kept)
        BY <1>6, <1>8, <2>4, <3>1, <3>2, <3>5 DEF DeckInv, PlayedOK
    <3> QED
        BY <2>1, <2>4, <3>1, <3>4, <3>6 DEF DeckInv
  <2>7. CASE /\ steps # lane.steps
             /\ s.pos = Reslotted(lane, steps).pos /\ s.cur = Reslotted(lane, steps).cur
    <3> DEFINE x == lane.pos * lane.steps
               pos == (x % (steps * Units)) \div steps
    <3>1. s.pos = pos /\ s.cur = (pos * steps) \div Units
      <4>1. Reslotted(lane, steps) = [lane EXCEPT !.pos = pos, !.cur = (pos * steps) \div Units]
          BY DEF Reslotted
      <4> HIDE DEF pos
      <4>2. /\ Reslotted(lane, steps).pos = pos
            /\ Reslotted(lane, steps).cur = (pos * steps) \div Units
          BY <1>3, <4>1 DEF IsLane, Fields
      <4> QED
          BY <2>7, <4>2
    <3>2. pos \in 0 .. Units - 1
      <4>1. Units \in Nat \ {0} /\ steps \in Nat \ {0} /\ lane.pos \in Nat /\ lane.steps \in Nat
        <5>1. lane.pos \in 0 .. Units - 1 /\ lane.steps \in StepKnob \ {0}
            BY <1>8 DEF DeckInv, PlaceOK
        <5>2. steps \in StepKnob \ {0}
            BY <1>2, <1>8
        <5> QED
            BY <5>1, <5>2, UnitsAre, StepsAre
      <4>2. x \in Nat
          BY <4>1
      <4> HIDE DEF x
      <4> QED
          BY <4>1, <4>2, ReslottedIs
    <3> HIDE DEF pos
    <3>3. lane'.pos \in 0 .. Units - 1 /\ lane'.cur = StepAtPhase(lane')
        BY <1>6, <3>1, <3>2 DEF StepAtPhase
    <3>4. PlaceOK(lane')
        BY <1>2, <1>6, <1>8, <3>3 DEF PlaceOK
    <3>5. ~al
        BY <1>6, <2>7 DEF al
    <3>6. PlayedOK(lane', deck, played') /\ played' \in Counts
      <4>1. CASE lane'.cur # lane.cur
          BY <2>2, <2>5, <4>1 DEF PlayedOK
      <4>2. CASE lane'.cur = lane.cur
        <5>1. played' = kept
            BY <2>2, <4>2
        <5>2. PlayedOK(lane', deck, kept)
            BY <1>8, <2>4, <3>5, <4>2 DEF DeckInv, PlayedOK
        <5> QED
            BY <2>4, <5>1, <5>2
      <4> QED
          BY <4>1, <4>2
    <3> QED
        BY <2>1, <3>4, <3>6 DEF DeckInv
  <2> QED
      BY <1>5, <1>8, <2>6, <2>7 DEF Slotted
<1>9. CASE on /\ ~lane.step
  <2>1. deck' = Entered /\ played' = FromEntry
      BY <1>9 DEF DeckTurned
  <2>2. lane'.cur = -1
      BY <1>5, <1>6, <1>9
  <2>3. lane'.pos \in 0 .. Units - 1
      BY <1>5, <1>6, <1>9 DEF Slotted, DeckInv, PlaceOK
  <2> QED
      BY <1>2, <1>6, <1>7, <1>9, <2>1, <2>2, <2>3 DEF PlaceOK, PlayedOK
<1>10. CASE ~on
  <2>1. deck' = Entered /\ played' = FromEntry
      BY <1>6, <1>10 DEF DeckTurned
  <2>2. lane'.pos \in 0 .. Units - 1
      BY <1>5, <1>6, <1>10 DEF Slotted, DeckInv, PlaceOK
  <2> QED
      BY <1>6, <1>7, <1>10, <2>1, <2>2 DEF PlaceOK, PlayedOK
<1> QED
    BY <1>2, <1>8, <1>9, <1>10

\* The lane is put somewhere, and its step is yet to be entered.
LEMMA PlacedOK ==
    ASSUME DeckInv, NEW pos \in 0 .. Units - 1, NEW m, SameMode(lane, m), m.pos = pos, m.cur = -1
    PROVE  PlaceOK(m) /\ (m.step => m.steps \in StepKnob \ {0} /\ StepAtPhase(m) \in Nat)
<1>1. PlaceOK(m)
    BY DEF DeckInv, PlaceOK, SameMode
<1> QED
    BY <1>1, StepIs DEF PlaceOK

LEMMA DeckSnapOK ==
    ASSUME DeckInv, DeckSnap
    PROVE  PlaceOK(lane') /\ PlayedOK(lane', deck', played') /\ deck' \in Steps /\ played' \in Counts
<1>1. PICK pos \in 0 .. Units - 1 : lane' = reset(lane, pos)
    BY DEF DeckSnap, Snap
<1>2. SameMode(lane, lane') /\ lane'.pos = pos /\ lane'.cur = -1
    BY <1>1, ResetIs DEF DeckInv, Inv, LaneOK
<1>3. PlaceOK(lane')
    BY <1>2, PlacedOK
<1>4. deck' = [deck EXCEPT !.last = -1] /\ played' = [played EXCEPT !.aligned = FALSE]
    BY DEF DeckSnap, Jumped
<1>5. deck' \in Steps /\ deck'.step = deck.step /\ deck'.last = -1
    BY <1>4 DEF DeckInv, Steps
<1>6. played' \in Counts /\ played'.count = played.count /\ ~played'.aligned
    BY <1>4 DEF DeckInv, Counts
<1>7. PlayedOK(lane', deck', played')
    BY <1>2, <1>5, <1>6 DEF DeckInv, PlayedOK, SameMode
<1> QED
    BY <1>3, <1>5, <1>6, <1>7

LEMMA DeckResetOK ==
    ASSUME DeckInv, DeckReset
    PROVE  PlaceOK(lane') /\ PlayedOK(lane', deck', played') /\ deck' \in Steps /\ played' \in Counts
<1>0. IsLane(lane)
    BY DEF DeckInv, Inv, LaneOK
<1>1. PICK pos \in 0 .. Units - 1 : SameMode(lane, lane') /\ lane'.pos = pos /\ lane'.cur = -1
  <2>1. CASE Resync
    <3>1. SameMode(lane, lane') /\ lane'.pos = 0 /\ lane'.cur = -1
        BY <1>0, <2>1, ResetIs DEF Resync
    <3> QED
        BY <3>1, UnitsAre
  <2>2. CASE Restart
    <3>1. PICK pos \in 0 .. Units - 1 :
             lane' = IF lane.step THEN restart_song(reset(lane, pos)) ELSE reset(lane, pos)
        BY <2>2 DEF Restart
    <3> DEFINE r == reset(lane, pos)
    <3>2. IsLane(r) /\ SameMode(lane, r) /\ r.pos = pos /\ r.cur = -1
        BY <1>0, ResetIs
    <3>3. lane' = r \/ lane' = restart_song(r)
        BY <3>1
    <3> HIDE DEF r
    <3>4. SameMode(lane, lane') /\ lane'.pos = pos /\ lane'.cur = -1
        BY <3>2, <3>3, RestartIs DEF SameMode, SamePlace
    <3> QED
        BY <3>4
  <2> QED
      BY <2>1, <2>2 DEF DeckReset
<1>2. PlaceOK(lane') /\ (lane'.step => lane'.steps \in StepKnob \ {0} /\ StepAtPhase(lane') \in Nat)
    BY <1>1, PlacedOK
<1>3. CASE lane.step
  <2> DEFINE q == StepAtPhase(lane')
  <2>1. deck' = [step |-> q, last |-> -1] /\ played' = [count |-> q, aligned |-> TRUE]
      BY <1>3 DEF DeckReset, FromHere
  <2>2. q \in Nat /\ q # None /\ lane'.steps \in Nat \ {0}
      BY <1>1, <1>2, <1>3, StepsAre, NoneAssumption DEF SameMode
  <2>3. q = StepAtPhase(lane')
      OBVIOUS
  <2> HIDE DEF q
  <2>4. deck' \in Steps /\ played' \in Counts
      BY <2>1, <2>2 DEF Steps, Counts
  <2>5. SameSlot(q, q, lane'.steps)
    <3>1. q - q = 0 /\ 0 % lane'.steps = 0
        BY <2>2
    <3> QED
        BY <3>1 DEF SameSlot
  <2>6. PlayedOK(lane', deck', played')
      BY <1>1, <2>1, <2>2, <2>3, <2>5 DEF PlayedOK
  <2> QED
      BY <1>2, <2>4, <2>6
<1>4. CASE ~lane.step
  <2>1. deck' = Entered /\ played' = FromEntry /\ ~lane'.step
      BY <1>1, <1>4 DEF DeckReset, SameMode
  <2> QED
      BY <1>2, <2>1 DEF Entered, FromEntry, Steps, Counts, PlayedOK
<1> QED
    BY <1>3, <1>4

LEMMA DeckReinitOK ==
    ASSUME DeckInv, DeckReinit
    PROVE  PlaceOK(lane') /\ PlayedOK(lane', deck', played') /\ deck' \in Steps /\ played' \in Counts
<1>1. lane' = Booted(lane) /\ deck' = deck
      /\ played' = IF lane.step THEN NoCount ELSE FromEntry
    BY DEF DeckReinit, Reinit
<1>2. lane'.step = lane.step /\ lane'.steps = lane.steps /\ lane'.pos = 0 /\ lane'.cur = -1
    BY <1>1, BootedIs DEF DeckInv, Inv, LaneOK
<1>3. PlaceOK(lane')
    BY <1>2, UnitsAre DEF DeckInv, PlaceOK
<1>4. played' \in Counts /\ (lane'.step => played'.count = None /\ ~played'.aligned)
    BY <1>1, <1>2 DEF NoCount, FromEntry, Counts
<1> QED
    BY <1>1, <1>3, <1>4 DEF DeckInv, PlayedOK

LEMMA DeckAloneOK ==
    ASSUME DeckInv, DeckAlone
    PROVE  PlaceOK(lane') /\ PlayedOK(lane', deck', played') /\ deck' \in Steps /\ played' \in Counts
<1>1. deck' = deck /\ played' = played
    BY DEF DeckAlone
<1>2. lane'.step = lane.step /\ lane'.steps = lane.steps /\ lane'.pos = lane.pos
      /\ (lane.step => lane'.cur = lane.cur)
  <2>1. CASE EngineSwap
    <3> DEFINE on == part.pend \in NoteEngines
    <3>1. lane' = set_flow_melody(lane, on) /\ on \in BOOLEAN /\ IsLane(lane)
        BY <2>1 DEF EngineSwap, DeckInv, Inv, LaneOK
    <3> HIDE DEF on
    <3> QED
        BY <3>1, MelodyIs
  <2>2. CASE Restore
      BY <2>2 DEF Restore
  <2> QED
      BY <2>1, <2>2 DEF DeckAlone
<1>3. StepAtPhase(lane') = StepAtPhase(lane)
    BY <1>2, SameStep
<1> QED
    BY <1>1, <1>2, <1>3 DEF DeckInv, PlaceOK, PlayedOK

\* A deck with its step clock is a deck.
LEMMA DeckNextIs == DeckNext => Next
BY DEF DeckNext, Next, DeckProcess, DeckTurned, DeckSnap, DeckReset, DeckReinit, DeckAlone

LEMMA DeckNextOK == ASSUME DeckInv, [DeckNext]_deckVars PROVE DeckInv'
<1>1. Inv'
  <2>1. [Next]_vars
      BY DeckNextIs DEF deckVars, vars
  <2> QED
      BY <2>1, NextOK DEF DeckInv
<1>2. PlaceOK(lane') /\ PlayedOK(lane', deck', played') /\ deck' \in Steps /\ played' \in Counts
  <2>1. CASE DeckProcess
      BY <2>1, DeckProcessOK
  <2>2. CASE DeckTurned
      BY <2>2, DeckTurnedOK
  <2>3. CASE DeckSnap
      BY <2>3, DeckSnapOK
  <2>4. CASE DeckReset
      BY <2>4, DeckResetOK
  <2>5. CASE DeckReinit
      BY <2>5, DeckReinitOK
  <2>6. CASE DeckAlone
      BY <2>6, DeckAloneOK
  <2>7. CASE UNCHANGED deckVars
      BY <2>7 DEF deckVars, DeckInv
  <2> QED
      BY <2>1, <2>2, <2>3, <2>4, <2>5, <2>6, <2>7 DEF DeckNext
<1> QED
    BY <1>1, <1>2 DEF DeckInv

\* A deck with its step clock does what the deck does: what is proved of a deck is
\* so of this one.
THEOREM DeckClockIsADeck == DeckSpec => Spec
<1>1. DeckInit => Init
    BY DEF DeckInit
<1>2. [DeckNext]_deckVars => [Next]_vars
    BY DeckNextIs DEF deckVars, vars
<1> QED
    BY <1>1, <1>2, PTL DEF DeckSpec, Spec

\* The deck's step clock's invariant: the copy of the lane's step is the lane's own
\* while the count is on.
THEOREM DeckClockInvariance == DeckSpec => []DeckInv
<1>1. DeckInv /\ [DeckNext]_deckVars => DeckInv'
    BY DeckNextOK
<1> QED
    BY <1>1, DeckInitOK, PTL DEF DeckSpec

\* The deck step counts the steps PITCH has played, whatever jumps, engines and
\* songs come between, and from RST or RESET on it is PITCH's own step, round the
\* cycle (SuperModulator::process, snap_pitch_phase, reset_phases).
THEOREM DeckStepsArePlayed == DeckSpec => []DeckStepIsPlayed
<1>1. DeckInv => DeckStepIsPlayed
  <2> SUFFICES ASSUME DeckInv, lane.step
               PROVE  /\ played.count # None => deck.step = played.count
                      /\ played.aligned /\ lane.cur # -1 => (deck.step - lane.cur) % lane.steps = 0
      BY DEF DeckStepIsPlayed
  <2>1. played.count # None => deck.step = played.count
      BY DEF DeckInv, PlayedOK
  <2>2. ASSUME played.aligned, lane.cur # -1 PROVE (deck.step - lane.cur) % lane.steps = 0
    <3>1. lane.cur = StepAtPhase(lane)
        BY <2>2 DEF DeckInv, PlaceOK
    <3>2. SameSlot(deck.step, StepAtPhase(lane), lane.steps)
        BY <2>2 DEF DeckInv, PlayedOK
    <3> QED
        BY <3>1, <3>2 DEF SameSlot
  <2> QED
      BY <2>1, <2>2
<1> QED
    BY <1>1, DeckClockInvariance, PTL
=============================================================================
