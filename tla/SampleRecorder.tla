--------------------------- MODULE SampleRecorder ---------------------------
(***************************************************************************)
(* A deck's record buffer and the slice map over it                         *)
(* (engine/sampler/sample_buffer.cpp, slice_map.cpp, process_in and         *)
(* load_sample in sampler_engine.cpp, REC in control/control_law.h).        *)
(*                                                                         *)
(* A first take grows freely from frame 0; stopping it rewinds the head and *)
(* fades out over the fade-in, and then locks the loop at the fill.  What is *)
(* recorded after that overdubs the loop.  The slice map holds the onsets of *)
(* what lies in the buffer, sorted: each written frame drops the markers     *)
(* the head passes and may add one.  Samples are abstracted: a frame has an  *)
(* onset or not.                                                            *)
(***************************************************************************)
EXTENDS Integers, FiniteSetsExt, SequencesExt

CONSTANTS
    Capacity,    \* frames of the buffer
    RecordFade,  \* kRecordFade
    MaxFade,     \* bound: _fade_ctr grows by one with each stop and punch-in
                 \* between two frames
    Refract,     \* _refract_len
    PreRoll,     \* _preroll
    MaxMarkers,  \* SliceMap::kMax
    None

ASSUME CapacityAssumption == Capacity \in Nat \ {0, 1}
ASSUME FadeAssumption == RecordFade \in Nat /\ RecordFade > 2 /\ MaxFade >= RecordFade
ASSUME DetectorAssumption == Refract \in Nat /\ PreRoll \in Nat
ASSUME MarkersAssumption == MaxMarkers \in Nat \ {0}
ASSUME NoneAssumption == None \notin Nat

VARIABLES
    host,    \* who turns REC: the control law, or a render scenario's events
    rec,     \* REC, as the player or the scenario has it
    buf,     \* SampleBuffer: state, fade (_fade_ctr), head, size, cut (_cut is
             \* on), resume (_fadeout_resume_head)
    slices,  \* SliceMap::_m: each marker's frame, and as a history whether the
             \* frame has been written again since
    det,     \* SliceMap: last (_last_frame), sweep, armed, refract
    hist     \* history of the last step: landed, the frame written; noted, the
             \* frame the slice map was told of; rearmed, a law tick found REC on
             \* during this fade-out

vars == <<host, rec, buf, slices, det, hist>>

Empty == [state |-> "idle", fade |-> 0, head |-> 0, size |-> 0, cut |-> FALSE, resume |-> 0]
FreshDetector == [last |-> None, sweep |-> 1, armed |-> TRUE, refract |-> 0]
NoFrame == [landed |-> None, noted |-> None, rearmed |-> FALSE]

Init ==
    /\ host \in {"law", "render"}
    /\ rec = FALSE
    /\ buf = Empty
    /\ slices = <<>>
    /\ det = FreshDetector
    /\ hist = NoFrame

-----------------------------------------------------------------------------
(* The record buffer.                                                       *)

\* cut: the loop is locked at the fill.
cut(b) == IF b.cut THEN b ELSE [b EXCEPT !.cut = TRUE, !.head = 0]

\* A punch-in during the fade-out goes on where the take was.  The mutant goes
\* on where the fade-out is.
PunchedInHere(b) == [b EXCEPT !.state = "fadein"]

PunchedIn(b) == [b EXCEPT !.state = "fadein", !.head = b.resume]

set_recording(b, on) ==
    CASE b.state = "idle" /\ on -> [b EXCEPT !.head = 0, !.state = "fadein", !.fade = 0]
      [] b.state = "fadeout" /\ on -> PunchedIn(b)
      [] b.state \in {"fadein", "sustain"} /\ ~on ->
            [b EXCEPT !.state = "fadeout", !.resume = b.head, !.head = IF b.cut THEN @ ELSE 0]
      [] OTHER -> b

\* The capacity is reached: the loop is locked.  The mutant does not lock it.
FilledFree(b) == [b EXCEPT !.size = Capacity, !.head = Capacity]

Filled(b) == cut([b EXCEPT !.size = Capacity])

\* A frame has been written; the head moves on.
Advanced(b) ==
    LET next == b.head + 1
    IN  CASE b.cut -> [b EXCEPT !.head = IF next >= b.size THEN 0 ELSE next]
          [] ~b.cut /\ next >= Capacity -> Filled(b)
          [] ~b.cut /\ next < Capacity ->
                [b EXCEPT !.head = next, !.size = IF next > @ THEN next ELSE @]

\* Stopped before a frame was written: nothing to lock.  The mutants: it locks;
\* it stays in the fade-out.
StoppedUnwrittenLocks(b) == [cut(b) EXCEPT !.state = "idle"]
StoppedUnwrittenStays(b) == b

StoppedUnwritten(b) == [b EXCEPT !.state = "idle"]

FadedIn(b) == [b EXCEPT !.fade = @ + 1, !.state = IF b.fade + 1 >= RecordFade - 1 THEN "sustain" ELSE @]

\* A frame lands unless the buffer is idle or the fade-out ends here.
Lands(b) == b.state \in {"fadein", "sustain"} \/ (b.state = "fadeout" /\ b.fade > 1)

write(b) ==
    CASE b.state = "idle" -> b
      [] b.state = "sustain" -> Advanced(b)
      [] b.state = "fadein" -> Advanced(FadedIn(b))
      [] b.state = "fadeout" /\ b.fade = 0 -> StoppedUnwritten(b)
      [] b.state = "fadeout" /\ b.fade = 1 -> [cut(b) EXCEPT !.state = "idle", !.fade = 0]
      [] b.state = "fadeout" /\ b.fade > 1 -> Advanced([b EXCEPT !.fade = @ - 1])

-----------------------------------------------------------------------------
(* The slice map.                                                           *)

lower_bound(m, frame) == 1 + Cardinality({i \in DOMAIN m : m[i].frame < frame})

\* Where a marker goes.  The mutant: at the end.
PlaceLast(m, frame) == Len(m) + 1

Place(m, frame) == lower_bound(m, frame)

MapFull(m) == Len(m) >= MaxMarkers

insert(m, frame) ==
    IF MapFull(m) THEN m ELSE InsertAt(m, Place(m, frame), [frame |-> frame, stale |-> FALSE])

\* The frame does not follow the last one: the sweep is re-aimed and the
\* detector starts again.  The mutant keeps the sweep.
ReAimedDetectorOnly(d, m, frame) ==
    IF d.last # None /\ frame = d.last + 1 THEN d
    ELSE [d EXCEPT !.armed = TRUE, !.refract = 0]

ReAimed(d, m, frame) ==
    IF d.last # None /\ frame = d.last + 1 THEN d
    ELSE [d EXCEPT !.sweep = lower_bound(m, frame), !.armed = TRUE, !.refract = 0]

\* The sweep drops the markers up to the head.
Swept(m, sweep, frame) ==
    LET passed == {i \in sweep .. Len(m) : \A j \in sweep .. i : m[j].frame <= frame}
    IN  SubSeq(m, 1, sweep - 1) \o SubSeq(m, sweep + Cardinality(passed), Len(m))

\* _detect, when the envelopes may fire (onset) or re-arm.
Fires(d, onset) == d.refract = 0 /\ d.armed /\ onset
Detected(d, onset, rearm) ==
    CASE d.refract > 0 -> [d EXCEPT !.refract = @ - 1]
      [] Fires(d, onset) -> [d EXCEPT !.armed = FALSE, !.refract = Refract]
      [] d.refract = 0 /\ ~d.armed -> [d EXCEPT !.armed = rearm]
      [] OTHER -> d

MarkerOf(frame) == IF frame > PreRoll THEN frame - PreRoll ELSE 0

\* The history's part: a marker at a frame that is written is stale.
Aged(m, frame, landed) == [i \in DOMAIN m |-> [m[i] EXCEPT !.stale = @ \/ (landed /\ m[i].frame = frame)]]

\* on_write.
NoteFrame(frame, landed, onset, rearm) ==
    LET aimed == ReAimed(det, slices, frame)
        left  == Aged(Swept(slices, aimed.sweep, frame), frame, landed)
        after == IF Fires(aimed, onset) THEN insert(left, MarkerOf(frame)) ELSE left
    IN  /\ slices' = after
        /\ det' = [Detected(aimed, onset, rearm) EXCEPT
                      !.last = frame,
                      !.sweep = IF Len(after) # Len(left) THEN lower_bound(after, frame + 1) ELSE @]

-----------------------------------------------------------------------------

\* process_in: a frame is written, and the slice map is told if the head moved.
Frame(onset, rearm) ==
    LET head  == buf.head
        moved == write(buf).head # head
    IN  /\ buf' = write(buf)
        /\ IF moved THEN NoteFrame(head, Lands(buf), onset, rearm)
           ELSE slices' = Aged(slices, head, Lands(buf)) /\ UNCHANGED det
        /\ hist' = [landed |-> IF Lands(buf) THEN head ELSE None,
                    noted |-> IF moved THEN head ELSE None,
                    rearmed |-> hist.rearmed /\ write(buf).state = "fadeout"]
        /\ UNCHANGED <<host, rec>>

\* The player, for the control law; a tick of the law, which compares REC with
\* the state of the buffer.
TurnRec ==
    /\ host = "law"
    /\ rec' = ~rec
    /\ UNCHANGED <<host, buf, slices, det, hist>>

LawTick ==
    /\ host = "law"
    /\ buf' = IF rec # (buf.state # "idle") THEN set_recording(buf, rec) ELSE buf
    /\ hist' = [NoFrame EXCEPT !.rearmed = hist.rearmed \/ (rec /\ buf.state = "fadeout")]
    /\ UNCHANGED <<host, rec, slices, det>>

\* A scenario's sampler_record event.
Event(on) ==
    /\ host = "render"
    /\ on /\ buf.state = "fadeout" => buf.fade < MaxFade
    /\ rec' = on
    /\ buf' = set_recording(buf, on)
    /\ hist' = NoFrame
    /\ UNCHANGED <<host, slices, det>>

Clear ==
    /\ buf' = Empty /\ slices' = <<>> /\ det' = FreshDetector /\ hist' = NoFrame
    /\ UNCHANGED <<host, rec>>

\* The onsets scan can find in n frames, as many as there is room for: after one,
\* Refract frames are dead and one re-arms.
MaxOnsets(n) == (n + Refract + 1) \div (Refract + 2)
Onsets(n) ==
    {at \in UNION {[1 .. k -> 0 .. n - 1] : k \in 0 .. MaxOnsets(n)} :
        \A i, j \in DOMAIN at : i < j => at[j] - at[i] >= Refract + 2}

ScannedMarkers(at) ==
    [i \in 1 .. Min({Len(at), MaxMarkers}) |-> [frame |-> MarkerOf(at[i]), stale |-> FALSE]]

\* load_sample: n frames of a file, at most the capacity; none at all clears.
Load(n) ==
    /\ LET frames == Min({n, Capacity})
       IN  /\ buf' = IF frames = 0 THEN Empty ELSE [Empty EXCEPT !.size = frames, !.cut = TRUE]
           /\ \E at \in Onsets(frames) :
                 /\ slices' = ScannedMarkers(at)
                 /\ det' \in [last : {None}, sweep : {1}, armed : BOOLEAN, refract : 0..Refract]
                 /\ det'.armed => det'.refract = 0
                 /\ at = <<>> => det'.armed
    /\ hist' = NoFrame
    /\ UNCHANGED <<host, rec>>

Next ==
    \/ \E onset, rearm \in BOOLEAN : Frame(onset, rearm)
    \/ TurnRec
    \/ LawTick
    \/ \E on \in BOOLEAN : Event(on)
    \/ Clear
    \/ \E n \in 0 .. Capacity + 1 : Load(n)

\* The audio and the control ticks keep running.
Frames == \E onset, rearm \in BOOLEAN : Frame(onset, rearm)
Spec == Init /\ [][Next]_vars /\ WF_vars(Frames) /\ WF_vars(LawTick)

-----------------------------------------------------------------------------
(* Properties.                                                              *)

TypeOK ==
    /\ host \in {"law", "render"} /\ rec \in BOOLEAN
    /\ buf \in [state : {"idle", "fadein", "sustain", "fadeout"}, fade : 0..MaxFade,
                head : 0..Capacity, size : 0..Capacity, cut : BOOLEAN, resume : 0..Capacity]
    /\ Len(slices) <= MaxMarkers
    /\ \A i \in DOMAIN slices : slices[i] \in [frame : 0 .. Capacity - 1, stale : BOOLEAN]
    /\ det \in [last : 0 .. Capacity - 1 \cup {None}, sweep : 1 .. MaxMarkers + 1,
                armed : BOOLEAN, refract : 0..Refract]

\* The head stays in the buffer, and in the loop once that is locked; so no loop
\* is ever locked empty, in which the deck could not record again.
WriteInBounds == buf.head < (IF buf.cut THEN buf.size ELSE Capacity)

\* A first take is one piece, however often it is stopped and punched in again:
\* it is always written at its end.
TakeIsContiguous == ~buf.cut /\ buf.state \in {"fadein", "sustain"} => buf.head = buf.size

\* The markers are sorted and lie in the content (slice_map.h: "ALWAYS sorted").
MarkersSorted ==
    /\ \A i, j \in DOMAIN slices : i < j => slices[i].frame <= slices[j].frame
    /\ \A i \in DOMAIN slices : slices[i].frame < buf.size

\* No marker outlives the material it marks: when its frame is written again it
\* goes.  A loop of one frame is the exception: its head never moves.
NoStaleMarker == buf.size > 1 => \A i \in DOMAIN slices : ~slices[i].stale

\* When REC stays off, recording ends for good.
StopIsFinal == <>[]~rec => <>[](buf.state = "idle")

\* The slice map is told of a frame exactly when one was written
\* (sampler_engine.cpp: whether the head moved "IS landing").
MovedIsLanded == hist.noted = hist.landed

\* A law tick that finds REC on again before the fade-out has ended goes on with
\* the take: that fade-out does not end (sample_buffer.h: "the second take
\* continues where the first stopped").
PunchInIsHeard == [][Frames /\ buf.size > 0 /\ rec /\ hist.rearmed /\ buf.state = "fadeout" => buf'.state # "idle"]_vars
=============================================================================
