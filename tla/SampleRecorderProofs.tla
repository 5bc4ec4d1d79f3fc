------------------------ MODULE SampleRecorderProofs ------------------------
(***************************************************************************)
(* Proofs about the record buffer and the slice map over it, for every      *)
(* capacity, fade length, dead time, pre-roll and size of the map: the head *)
(* stays in the loop, a first take is one piece, the markers are sorted and  *)
(* lie in the content, and none outlives the material it marks.             *)
(***************************************************************************)
EXTENDS SampleRecorder, TLAPS, FiniteSetTheorems, SequenceTheorems,
        WellFoundedInduction

States == {"idle", "fadein", "sustain", "fadeout"}

IsBuffer(b) == b \in [state : States, fade : Nat, head : Nat, size : Nat,
                      cut : BOOLEAN, resume : Nat]

\* A locked loop is not empty; the head, and where a stopped take goes on, lie in it.
Locked(b) ==
    /\ b.size <= Capacity
    /\ b.head < b.size
    /\ b.state = "fadeout" => b.resume < b.size

\* A first take: the fade-out, which runs from frame 0, ends before it reaches
\* the end of the take, because no take faded in for more frames than it has.
FirstTake(b) ==
    /\ b.size < Capacity
    /\ b.fade <= b.size
    /\ b.state # "idle" /\ b.fade = 0 => b.size = 0
    /\ b.state = "sustain" => b.fade > 0
    /\ b.state = "idle" => b.size = 0 /\ b.head = 0
    /\ b.state \in {"fadein", "sustain"} => b.head = b.size
    /\ b.state = "fadeout" => b.resume = b.size /\ b.head + b.fade <= b.size

BufOK(b) ==
    /\ IsBuffer(b)
    /\ b.cut => Locked(b)
    /\ ~b.cut => FirstTake(b)

-----------------------------------------------------------------------------

LEMMA EmptyOK == BufOK(Empty)
BY CapacityAssumption DEF BufOK, IsBuffer, Empty, States, Locked, FirstTake

LEMMA BufferFields ==
    ASSUME NEW b, IsBuffer(b)
    PROVE  /\ b.state \in States /\ b.fade \in Nat /\ b.head \in Nat /\ b.size \in Nat
           /\ b.resume \in Nat /\ Capacity \in Nat /\ Capacity > 1 /\ RecordFade \in Nat
           /\ RecordFade > 2
BY CapacityAssumption, FadeAssumption DEF IsBuffer

LEMMA CutIs ==
    ASSUME NEW b, IsBuffer(b)
    PROVE  /\ IsBuffer(cut(b)) /\ cut(b).cut
           /\ cut(b).state = b.state /\ cut(b).fade = b.fade /\ cut(b).size = b.size
           /\ cut(b).resume = b.resume /\ cut(b).head = IF b.cut THEN b.head ELSE 0
<1>1. CASE b.cut
    BY <1>1 DEF cut, IsBuffer
<1>2. CASE ~b.cut
    BY <1>2 DEF cut, IsBuffer
<1> QED
    BY <1>1, <1>2

\* Whoever turns REC, and in whatever state.
LEMMA RecordingOK ==
    ASSUME NEW b, BufOK(b), NEW on \in BOOLEAN
    PROVE  BufOK(set_recording(b, on))
<1>0. /\ IsBuffer(b) /\ b.state \in States /\ b.fade \in Nat /\ b.head \in Nat
      /\ b.size \in Nat /\ b.resume \in Nat
    BY BufferFields DEF BufOK
<1>1. CASE b.state = "idle" /\ on
  <2> DEFINE r == [b EXCEPT !.head = 0, !.state = "fadein", !.fade = 0]
  <2>1. set_recording(b, on) = r
      BY <1>1 DEF set_recording
  <2>2. /\ IsBuffer(r) /\ r.state = "fadein" /\ r.fade = 0 /\ r.head = 0
        /\ r.size = b.size /\ (r.cut <=> b.cut)
      BY <1>0 DEF IsBuffer, States
  <2> HIDE DEF r
  <2>3. ASSUME b.cut PROVE Locked(r)
      BY <1>0, <2>2, <2>3 DEF BufOK, Locked
  <2>4. ASSUME ~b.cut PROVE FirstTake(r)
      BY <1>0, <1>1, <2>2, <2>4 DEF BufOK, FirstTake
  <2> QED
      BY <2>1, <2>2, <2>3, <2>4 DEF BufOK
<1>2. CASE b.state = "fadeout" /\ on
  <2> DEFINE r == PunchedIn(b)
  <2>1. set_recording(b, on) = r
      BY <1>2 DEF set_recording
  <2>2. /\ IsBuffer(r) /\ r.state = "fadein" /\ r.fade = b.fade /\ r.head = b.resume
        /\ r.size = b.size /\ (r.cut <=> b.cut)
      BY <1>0 DEF IsBuffer, States, PunchedIn
  <2> HIDE DEF r
  <2> QED
      BY <1>0, <1>2, <2>1, <2>2 DEF BufOK, Locked, FirstTake
<1>3. CASE b.state \in {"fadein", "sustain"} /\ ~on
  <2> DEFINE r == [b EXCEPT !.state = "fadeout", !.resume = b.head,
                            !.head = IF b.cut THEN @ ELSE 0]
  <2>1. set_recording(b, on) = r
      BY <1>3 DEF set_recording
  <2>2. r.state = "fadeout" /\ r.fade = b.fade /\ r.size = b.size /\ (r.cut <=> b.cut)
        /\ r.resume = b.head /\ r.head = IF b.cut THEN b.head ELSE 0
      BY <1>0 DEF IsBuffer
  <2>3. IsBuffer(r)
      BY <1>0 DEF IsBuffer, States
  <2> HIDE DEF r
  <2> QED
      BY <1>0, <1>3, <2>1, <2>2, <2>3 DEF BufOK, Locked, FirstTake
<1>4. CASE (b.state = "idle" /\ ~on) \/ (b.state = "fadeout" /\ ~on)
           \/ (b.state \in {"fadein", "sustain"} /\ on)
  <2>1. set_recording(b, on) = b
      BY <1>4 DEF set_recording
  <2> QED
      BY <2>1
<1> QED
    BY <1>0, <1>1, <1>2, <1>3, <1>4 DEF States

\* A written frame moves the head on: in the loop, along the take, or to the lock
\* that a full buffer is.
LEMMA AdvancedOK ==
    ASSUME NEW b, IsBuffer(b), b.state \in {"fadein", "sustain", "fadeout"},
           b.cut => Locked(b),
           ~b.cut => /\ b.size < Capacity /\ b.fade <= b.size + 1 /\ b.fade > 0
                     /\ b.state # "fadeout" => b.head = b.size
                     /\ b.state = "fadeout" =>
                            b.resume = b.size /\ b.head + b.fade + 1 <= b.size
    PROVE  BufOK(Advanced(b))
<1>0. /\ Capacity \in Nat /\ Capacity > 1 /\ b.fade \in Nat /\ b.head \in Nat
      /\ b.size \in Nat /\ b.resume \in Nat
    BY BufferFields
<1>1. CASE b.cut
  <2> DEFINE r == [b EXCEPT !.head = IF b.head + 1 >= b.size THEN 0 ELSE b.head + 1]
  <2>1. Advanced(b) = r
      BY <1>1 DEF Advanced
  <2>2. /\ IsBuffer(r) /\ r.state = b.state /\ r.size = b.size /\ r.cut /\ r.resume = b.resume
        /\ r.head = IF b.head + 1 >= b.size THEN 0 ELSE b.head + 1
      BY <1>0, <1>1 DEF IsBuffer
  <2> HIDE DEF r
  <2> QED
      BY <1>0, <1>1, <2>1, <2>2 DEF BufOK, Locked
<1>2. CASE ~b.cut /\ b.head + 1 >= Capacity
  <2> DEFINE f == [b EXCEPT !.size = Capacity]
  <2>1. Advanced(b) = cut(f)
      BY <1>0, <1>2 DEF Advanced, Filled
  <2>2. IsBuffer(f) /\ ~f.cut /\ f.state = b.state /\ f.size = Capacity /\ f.resume = b.resume
      BY <1>0, <1>2 DEF IsBuffer
  <2>3. b.state # "fadeout"
      BY <1>0, <1>2
  <2> HIDE DEF f
  <2> QED
      BY <1>0, <2>1, <2>2, <2>3, CutIs DEF BufOK, Locked
<1>3. CASE ~b.cut /\ b.head + 1 < Capacity
  <2> DEFINE n == IF b.head + 1 > b.size THEN b.head + 1 ELSE b.size
             r == [b EXCEPT !.head = b.head + 1, !.size = n]
  <2>1. Advanced(b) = r
      BY <1>0, <1>3 DEF Advanced
  <2>2. n \in Nat
      BY <1>0
  <2> HIDE DEF n
  <2>3. /\ r.state = b.state /\ r.fade = b.fade /\ r.head = b.head + 1
        /\ r.size = n /\ ~r.cut /\ r.resume = b.resume
      BY <1>3 DEF IsBuffer
  <2>4. IsBuffer(r)
    <3> DEFINE m == b.head + 1
    <3>1. m \in Nat
        BY <1>0
    <3>2. r = [b EXCEPT !.head = m, !.size = n]
        OBVIOUS
    <3> HIDE DEF m, r
    <3> QED
        BY <2>2, <3>1, <3>2 DEF IsBuffer
  <2> HIDE DEF r
  <2> QED
      BY <1>0, <1>3, <2>1, <2>3, <2>4 DEF n, BufOK, FirstTake
<1> QED
    BY <1>0, <1>1, <1>2, <1>3

LEMMA WriteOK == ASSUME NEW b, BufOK(b) PROVE BufOK(write(b))
<1>0. /\ IsBuffer(b) /\ b.state \in States /\ b.fade \in Nat /\ b.head \in Nat
      /\ b.size \in Nat /\ b.resume \in Nat /\ Capacity \in Nat /\ Capacity > 1
      /\ RecordFade \in Nat /\ RecordFade > 2
    BY BufferFields DEF BufOK
<1>1. CASE b.state = "idle"
  <2>1. write(b) = b
      BY <1>1 DEF write
  <2> QED
      BY <2>1
<1>2. CASE b.state = "sustain"
  <2>1. write(b) = Advanced(b)
      BY <1>2 DEF write
  <2> QED
      BY <1>0, <1>2, <2>1, AdvancedOK DEF BufOK, FirstTake
<1>3. CASE b.state = "fadein"
  <2> DEFINE f == FadedIn(b)
  <2>1. write(b) = Advanced(f)
      BY <1>3 DEF write
  <2>2. IsBuffer(f)
    <3> DEFINE up == b.fade + 1
               st == IF up >= RecordFade - 1 THEN "sustain" ELSE b.state
    <3>1. up \in Nat /\ st \in States
        BY <1>0 DEF States
    <3>2. f = [b EXCEPT !.fade = up, !.state = st]
        BY <1>0 DEF FadedIn, IsBuffer
    <3> HIDE DEF f, up, st
    <3> QED
        BY <1>0, <3>1, <3>2 DEF IsBuffer
  <2>3. /\ f.state \in {"fadein", "sustain"} /\ f.fade = b.fade + 1
        /\ (f.cut <=> b.cut) /\ f.head = b.head /\ f.size = b.size /\ f.resume = b.resume
      BY <1>0, <1>3 DEF IsBuffer, FadedIn
  <2> HIDE DEF f
  <2>4. f.cut => Locked(f)
      BY <1>3, <2>3 DEF BufOK, Locked
  <2>5. ~f.cut => /\ f.size < Capacity /\ f.fade <= f.size + 1 /\ f.fade > 0
                  /\ f.state # "fadeout" => f.head = f.size
                  /\ f.state = "fadeout" =>
                         f.resume = f.size /\ f.head + f.fade + 1 <= f.size
      BY <1>0, <1>3, <2>3 DEF BufOK, FirstTake
  <2> QED
      BY <2>1, <2>2, <2>3, <2>4, <2>5, AdvancedOK
<1>4. CASE b.state = "fadeout" /\ b.fade = 0
  <2> DEFINE r == StoppedUnwritten(b)
  <2>1. write(b) = r
      BY <1>4 DEF write
  <2>2. /\ IsBuffer(r) /\ r.state = "idle" /\ r.fade = b.fade /\ r.head = b.head
        /\ r.size = b.size /\ (r.cut <=> b.cut)
      BY <1>0 DEF IsBuffer, States, StoppedUnwritten
  <2> HIDE DEF r
  <2> QED
      BY <1>0, <1>4, <2>1, <2>2 DEF BufOK, Locked, FirstTake
<1>5. CASE b.state = "fadeout" /\ b.fade = 1
  <2> DEFINE c == cut(b)
             r == [c EXCEPT !.state = "idle", !.fade = 0]
  <2>1. write(b) = r
      BY <1>5 DEF write
  <2>2. IsBuffer(c) /\ c.cut /\ c.size = b.size /\ c.head = IF b.cut THEN b.head ELSE 0
      BY <1>0, CutIs
  <2> HIDE DEF c
  <2>3. IsBuffer(r) /\ r.state = "idle" /\ r.cut /\ r.size = c.size /\ r.head = c.head
      BY <2>2 DEF IsBuffer, States
  <2> HIDE DEF r
  <2>4. b.size <= Capacity /\ r.head < b.size
      BY <1>0, <1>5, <2>2, <2>3 DEF BufOK, Locked, FirstTake
  <2> QED
      BY <2>1, <2>2, <2>3, <2>4 DEF BufOK, Locked
<1>6. CASE b.state = "fadeout" /\ b.fade > 1
  <2> DEFINE f == [b EXCEPT !.fade = @ - 1]
  <2>1. write(b) = Advanced(f)
      BY <1>0, <1>6 DEF write
  <2>2. IsBuffer(f)
      BY <1>0, <1>6 DEF IsBuffer
  <2>3. /\ f.state = "fadeout" /\ f.fade = b.fade - 1
        /\ (f.cut <=> b.cut) /\ f.head = b.head /\ f.size = b.size /\ f.resume = b.resume
      BY <1>0, <1>6 DEF IsBuffer
  <2> HIDE DEF f
  <2>4. f.cut => Locked(f)
      BY <1>6, <2>3 DEF BufOK, Locked
  <2>5. ~f.cut => /\ f.size < Capacity /\ f.fade <= f.size + 1 /\ f.fade > 0
                  /\ f.state # "fadeout" => f.head = f.size
                  /\ f.state = "fadeout" =>
                         f.resume = f.size /\ f.head + f.fade + 1 <= f.size
      BY <1>0, <1>6, <2>3 DEF BufOK, FirstTake
  <2> QED
      BY <2>1, <2>2, <2>3, <2>4, <2>5, AdvancedOK
<1> QED
    BY <1>0, <1>1, <1>2, <1>3, <1>4, <1>5, <1>6 DEF States

LEMMA LockedAt ==
    ASSUME NEW n \in Nat
    PROVE  LET r == [Empty EXCEPT !.size = n, !.cut = TRUE]
           IN  IsBuffer(r) /\ r.state = "idle" /\ r.size = n /\ r.head = 0 /\ r.cut
<1> DEFINE e == Empty
           r == [e EXCEPT !.size = n, !.cut = TRUE]
<1>1. IsBuffer(e) /\ e.state = "idle" /\ e.head = 0
    BY DEF IsBuffer, States, Empty
<1> HIDE DEF e
<1>2. IsBuffer(r) /\ r.state = e.state /\ r.size = n /\ r.head = e.head /\ r.cut
    BY <1>1 DEF IsBuffer
<1> QED
    BY <1>1, <1>2 DEF e

\* A file of n frames.
LEMMA LoadedOK ==
    ASSUME NEW n \in 0 .. Capacity + 1, Load(n)
    PROVE  BufOK(buf')
<1> DEFINE frames == Min({n, Capacity})
<1>1. frames \in 0 .. Capacity
    BY CapacityAssumption DEF Min
<1>2. buf' = IF frames = 0 THEN Empty ELSE [Empty EXCEPT !.size = frames, !.cut = TRUE]
    BY DEF Load
<1> HIDE DEF frames
<1>3. CASE frames = 0
    BY <1>2, <1>3, EmptyOK
<1>4. CASE frames # 0
  <2> DEFINE r == [Empty EXCEPT !.size = frames, !.cut = TRUE]
  <2>3. IsBuffer(r) /\ r.state = "idle" /\ r.size = frames /\ r.head = 0 /\ r.cut
    <3>1. frames \in Nat
        BY <1>1, CapacityAssumption
    <3> QED
        BY <3>1, LockedAt
  <2>2. buf' = r
      BY <1>2, <1>4
  <2> HIDE DEF r
  <2> QED
      BY <1>1, <1>4, <2>2, <2>3, CapacityAssumption DEF BufOK, Locked
<1> QED
    BY <1>3, <1>4

-----------------------------------------------------------------------------

\* The record buffer is in order after every sequence of frames, REC turns, clears
\* and loads (SampleBuffer::write, set_recording, clear, set_rec_size).
THEOREM BufferInvariance == Spec => []BufOK(buf)
<1> DEFINE Inv == rec \in BOOLEAN /\ BufOK(buf)
<1>1. Init => Inv
    BY EmptyOK DEF Init
<1>2. Inv /\ [Next]_vars => Inv'
  <2> SUFFICES ASSUME Inv, [Next]_vars PROVE rec' \in BOOLEAN /\ BufOK(buf')
      OBVIOUS
  <2>0. rec' \in BOOLEAN
      BY DEF Next, vars, Frame, TurnRec, LawTick, Event, Clear, Load
  <2>1. ASSUME NEW onset \in BOOLEAN, NEW rearm \in BOOLEAN, Frame(onset, rearm) PROVE BufOK(buf')
      BY <2>1, WriteOK DEF Frame
  <2>2. CASE TurnRec
      BY <2>2 DEF TurnRec
  <2>3. CASE LawTick
    <3>1. BufOK(set_recording(buf, rec))
        BY RecordingOK
    <3>2. buf' = buf \/ buf' = set_recording(buf, rec)
        BY <2>3 DEF LawTick
    <3>3. CASE buf' = buf
        BY <2>0, <3>3
    <3>4. CASE buf' = set_recording(buf, rec)
        BY <2>0, <3>1, <3>4
    <3> QED
        BY <3>2, <3>3, <3>4
  <2>4. ASSUME NEW on \in BOOLEAN, Event(on) PROVE BufOK(buf')
      BY <2>4, RecordingOK DEF Event
  <2>5. CASE Clear
      BY <2>5, EmptyOK DEF Clear
  <2>6. ASSUME NEW n \in 0 .. Capacity + 1, Load(n) PROVE BufOK(buf')
      BY <2>6, LoadedOK
  <2>7. CASE UNCHANGED vars
      BY <2>7 DEF vars
  <2> QED
      BY <2>0, <2>1, <2>2, <2>3, <2>4, <2>5, <2>6, <2>7 DEF Next
<1> QED
    BY <1>1, <1>2, PTL DEF Spec

\* No frame is written outside the buffer or, once it is locked, outside the loop;
\* no loop is ever locked empty.
THEOREM WritesStayInBounds == Spec => []WriteInBounds
<1>1. BufOK(buf) => WriteInBounds
    BY CapacityAssumption DEF BufOK, IsBuffer, States, Locked, FirstTake, WriteInBounds
<1> QED
    BY <1>1, BufferInvariance, PTL

\* A first take is written at its end, however often it is stopped and punched in
\* again (_fadeout_resume_head).
THEOREM TakesAreContiguous == Spec => []TakeIsContiguous
<1>1. BufOK(buf) => TakeIsContiguous
    BY DEF BufOK, FirstTake, TakeIsContiguous
<1> QED
    BY <1>1, BufferInvariance, PTL

-----------------------------------------------------------------------------
(* The slice map.                                                           *)

Markers == [frame : Nat, stale : BOOLEAN]

Sorted(m) == \A i, j \in DOMAIN m : i < j => m[i].frame <= m[j].frame

LEMMA MarkersIs ==
    ASSUME NEW m \in Seq(Markers)
    PROVE  /\ DOMAIN m = 1 .. Len(m) /\ Len(m) \in Nat
           /\ \A i \in 1 .. Len(m) : m[i] \in Markers /\ m[i].frame \in Nat
<1>1. /\ DOMAIN m = 1 .. Len(m) /\ Len(m) \in Nat
      /\ \A i \in 1 .. Len(m) : m[i] \in Markers
    OBVIOUS
<1> QED
    BY <1>1 DEF Markers

LEMMA SortedIs ==
    ASSUME NEW m \in Seq(Markers), Sorted(m), NEW i \in 1 .. Len(m), NEW j \in 1 .. Len(m), i <= j
    PROVE  m[i].frame <= m[j].frame
BY MarkersIs DEF Sorted

\* A nonempty set of naturals has a least element.
LEMMA LeastExists ==
    ASSUME NEW T \in SUBSET Nat, T # {}
    PROVE  \E x \in T : \A y \in T : x <= y
<1> DEFINE R == {p \in Nat \X Nat : p[1] < p[2]}
<1>1. IsWellFoundedOn(R, Nat)
    BY NatLessThanWellFounded, Zenon DEF OpToRel
<1> HIDE DEF R
<1>2. PICK x \in T : \A y \in T : ~(<<y, x>> \in R)
    BY <1>1, WFMin
<1>3. \A y \in T : ~(y < x)
    BY <1>2 DEF R
<1> QED
    BY <1>3

\* A nonempty bounded set of naturals has a greatest element.
LEMMA GreatestExists ==
    ASSUME NEW T \in SUBSET Nat, T # {}, NEW b \in Nat, \A x \in T : x <= b
    PROVE  \E x \in T : \A y \in T : y <= x
<1> DEFINE D == {b - x : x \in T}
<1>1. D \in SUBSET Nat /\ D # {}
  <2>1. ASSUME NEW x \in T
        PROVE  b - x \in Nat
    <3>1. x \in Nat /\ x <= b
        OBVIOUS
    <3> QED
        BY <3>1
  <2> QED
      BY <2>1
<1>2. PICK d \in D : \A e \in D : d <= e
  <2> HIDE DEF D
  <2> QED
      BY <1>1, LeastExists
<1>3. PICK x \in T : d = b - x
    BY <1>2
<1>4. ASSUME NEW y \in T
      PROVE  y <= x
  <2>1. b - y \in D
      OBVIOUS
  <2>2. b - x <= b - y
      BY <2>1, <1>2, <1>3
  <2>3. x \in Nat /\ y \in Nat
      OBVIOUS
  <2> QED
      BY <2>2, <2>3
<1> QED
    BY <1>4

\* A set of places with every place below each of them is the first so many.
LEMMA Prefix ==
    ASSUME NEW a \in Nat, NEW b \in Nat, NEW P \in SUBSET (a .. b),
           \A i \in P, j \in a .. b : j < i => j \in P
    PROVE  \E c \in Nat \cup {a - 1} : /\ c >= a - 1 /\ (c <= b \/ c = a - 1)
                                       /\ P = a .. c /\ Cardinality(P) = c - a + 1
<1>1. CASE P = {}
  <2>1. a .. a - 1 = {} /\ (a - 1) - a + 1 = 0
      OBVIOUS
  <2> QED
      BY <1>1, <2>1, FS_EmptySet
<1>2. CASE P # {}
  <2>1. P \in SUBSET Nat /\ \A i \in P : i <= b
      OBVIOUS
  <2>2. PICK c \in P : \A i \in P : i <= c
      BY <1>2, <2>1, GreatestExists
  <2>3. c \in Nat /\ c >= a /\ c <= b
      BY <2>1
  <2>4. P = a .. c
    <3>1. ASSUME NEW i \in a .. c PROVE i \in P
      <4>1. i \in a .. b /\ (i = c \/ i < c)
          BY <2>3
      <4> QED
          BY <4>1
    <3>2. ASSUME NEW i \in P PROVE i \in a .. c
      <4>1. i \in a .. b /\ i <= c
          BY <2>2
      <4> QED
          BY <2>3, <4>1
    <3> QED
        BY <3>1, <3>2
  <2>5. Cardinality(a .. c) = c - a + 1
      BY <2>3, FS_Interval
  <2> QED
      BY <2>3, <2>4, <2>5
<1> QED
    BY <1>1, <1>2

LEMMA LowerBoundIs ==
    ASSUME NEW m \in Seq(Markers), Sorted(m), NEW f \in Nat
    PROVE  /\ lower_bound(m, f) \in 1 .. Len(m) + 1
           /\ \A i \in 1 .. Len(m) : i < lower_bound(m, f) <=> m[i].frame < f
<1> DEFINE P == {i \in DOMAIN m : m[i].frame < f}
<1>1. DOMAIN m = 1 .. Len(m) /\ Len(m) \in Nat /\ \A i \in 1 .. Len(m) : m[i].frame \in Nat
    BY MarkersIs
<1>2. ASSUME NEW i \in P, NEW j \in 1 .. Len(m), j < i PROVE j \in P
  <2>1. i \in 1 .. Len(m) /\ m[i].frame < f /\ m[j].frame \in Nat /\ m[i].frame \in Nat
      BY <1>1
  <2>2. m[j].frame <= m[i].frame
      BY <1>1, <1>2, <2>1 DEF Sorted
  <2> QED
      BY <1>1, <2>1, <2>2
<1>3. P \in SUBSET (1 .. Len(m))
    BY <1>1
<1>4. lower_bound(m, f) = 1 + Cardinality(P)
    BY DEF lower_bound
<1>5. \A i \in 1 .. Len(m) : i \in P <=> m[i].frame < f
    BY <1>1
<1> HIDE DEF P
<1>6. PICK c \in Nat : c <= Len(m) /\ P = 1 .. c /\ Cardinality(P) = c
  <2>1. PICK c \in Nat \cup {1 - 1} : /\ c >= 1 - 1 /\ (c <= Len(m) \/ c = 1 - 1)
                                      /\ P = 1 .. c /\ Cardinality(P) = c - 1 + 1
      BY <1>1, <1>2, <1>3, Prefix
  <2>2. c \in Nat /\ c <= Len(m) /\ c - 1 + 1 = c
      BY <1>1, <2>1
  <2> QED
      BY <2>1, <2>2
<1> QED
    BY <1>1, <1>4, <1>5, <1>6

\* The sweep keeps what is before it and what is after the head.
LEMMA SweptIs ==
    ASSUME NEW m \in Seq(Markers), Sorted(m), NEW f \in Nat, NEW s \in 1 .. Len(m) + 1
    PROVE  LET w == Swept(m, s, f) IN
           /\ w \in Seq(Markers) /\ Sorted(w)
           /\ Len(w) >= s - 1 /\ Len(w) <= Len(m)
           /\ \A i \in 1 .. s - 1 : w[i] = m[i]
           /\ \A i \in s .. Len(w) : w[i].frame > f
           /\ \A i \in 1 .. Len(w) : \E j \in 1 .. Len(m) : w[i] = m[j]
<1> DEFINE w == Swept(m, s, f)
           P == {i \in s .. Len(m) : \A j \in s .. i : m[j].frame <= f}
<1>1. /\ DOMAIN m = 1 .. Len(m) /\ Len(m) \in Nat /\ s \in Nat /\ s >= 1 /\ s <= Len(m) + 1
      /\ \A i \in 1 .. Len(m) : m[i] \in Markers /\ m[i].frame \in Nat
    BY MarkersIs
<1>2. \A i \in P, j \in s .. Len(m) : j < i => j \in P
    BY <1>1
<1>3. P \in SUBSET (s .. Len(m))
    OBVIOUS
<1>4. \A i \in s .. Len(m) : i \in P <=> \A j \in s .. i : m[j].frame <= f
    OBVIOUS
<1>5. w = SubSeq(m, 1, s - 1) \o SubSeq(m, s + Cardinality(P), Len(m))
    BY DEF Swept
<1> HIDE DEF w, P
<1>6. PICK c \in Nat : c >= s - 1 /\ c <= Len(m) /\ P = s .. c /\ Cardinality(P) = c - s + 1
  <2>1. PICK c \in Nat \cup {s - 1} : /\ c >= s - 1 /\ (c <= Len(m) \/ c = s - 1)
                                      /\ P = s .. c /\ Cardinality(P) = c - s + 1
      BY <1>1, <1>2, <1>3, Prefix
  <2> QED
      BY <1>1, <2>1
<1> DEFINE k == c - s + 1
           u == SubSeq(m, 1, s - 1)
           v == SubSeq(m, c + 1, Len(m))
<1>7. k \in Nat /\ w = u \o v
  <2>1. k \in Nat /\ s + Cardinality(P) = c + 1
      BY <1>1, <1>6
  <2> QED
      BY <1>5, <2>1
<1>8. /\ u \in Seq(Markers) /\ Len(u) = s - 1 /\ \A i \in 1 .. s - 1 : u[i] = m[i]
    BY <1>1, SubSeqProperties
<1>9. /\ v \in Seq(Markers) /\ Len(v) = Len(m) - c /\ \A i \in 1 .. Len(m) - c : v[i] = m[c + i]
  <2>1. \A i \in c + 1 .. Len(m) : m[i] \in Markers
      BY <1>1, <1>6
  <2>2. c + 1 \in Int /\ Len(m) \in Int
      BY <1>1
  <2>3. /\ v \in Seq(Markers)
        /\ Len(v) = IF c + 1 <= Len(m) THEN Len(m) - (c + 1) + 1 ELSE 0
        /\ \A i \in 1 .. Len(m) - (c + 1) + 1 : v[i] = m[(c + 1) + i - 1]
      BY <2>1, <2>2, SubSeqProperties
  <2> HIDE DEF v
  <2> DEFINE n == Len(m)
  <2>4. n \in Nat /\ c \in Nat /\ c <= n
      BY <1>1, <1>6
  <2> HIDE DEF n
  <2>5. n - (c + 1) + 1 = n - c /\ n - c = IF c + 1 <= n THEN n - (c + 1) + 1 ELSE 0
      BY <2>4
  <2>6. ASSUME NEW i \in 1 .. n - c PROVE v[i] = m[c + i]
    <3>1. i \in 1 .. n - (c + 1) + 1 /\ (c + 1) + i - 1 = c + i
        BY <2>4
    <3> QED
        BY <2>3, <3>1 DEF n
  <2> QED
      BY <2>3, <2>5, <2>6 DEF n
<1> HIDE DEF u, v
<1>10. /\ w \in Seq(Markers) /\ Len(w) = s - 1 + (Len(m) - c)
       /\ \A i \in 1 .. s - 1 : w[i] = m[i]
       /\ \A i \in s .. Len(w) : w[i] = m[i + k]
  <2>1. /\ w \in Seq(Markers) /\ Len(w) = Len(u) + Len(v)
        /\ \A i \in 1 .. Len(u) + Len(v) : w[i] = IF i <= Len(u) THEN u[i] ELSE v[i - Len(u)]
      BY <1>7, <1>8, <1>9, ConcatProperties
  <2>2. ASSUME NEW i \in s .. Len(w) PROVE w[i] = m[i + k]
    <3>0. /\ i \in Nat /\ i >= s /\ i <= s - 1 + (Len(m) - c) /\ c \in Nat /\ c <= Len(m)
          /\ s \in Nat /\ s >= 1 /\ Len(m) \in Nat /\ Len(u) = s - 1
        BY <1>1, <1>6, <1>8, <1>9, <2>1
    <3>1. i - (s - 1) \in 1 .. Len(m) - c /\ c + (i - (s - 1)) = i + k /\ ~(i <= Len(u))
        BY <3>0
    <3>2. i \in 1 .. Len(u) + Len(v)
      <4>1. Len(v) = Len(m) - c
          BY <1>9
      <4> QED
          BY <3>0, <4>1
    <3>3. w[i] = v[i - (s - 1)]
        BY <2>1, <3>0, <3>1, <3>2
    <3> QED
        BY <1>9, <3>1, <3>3
  <2>3. Len(u) = s - 1 /\ Len(v) = Len(m) - c
      BY <1>8, <1>9
  <2>4. ASSUME NEW i \in 1 .. s - 1 PROVE w[i] = m[i]
    <3>1. i \in 1 .. Len(u) + Len(v) /\ i <= Len(u)
        BY <1>1, <1>6, <2>3
    <3> QED
        BY <1>8, <2>1, <3>1
  <2> QED
      BY <2>1, <2>2, <2>3, <2>4
<1>11. ASSUME NEW i \in s .. Len(w) PROVE w[i].frame > f
  <2>1. i + k \in c + 1 .. Len(m)
      BY <1>1, <1>6, <1>10
  <2>2. c + 1 \in s .. Len(m) /\ c + 1 \notin P
      BY <1>1, <1>6, <2>1
  <2>3. PICK j \in s .. c + 1 : ~(m[j].frame <= f)
      BY <1>4, <2>2
  <2>4. j = c + 1
    <3>1. CASE j # c + 1
      <4>1. j \in s .. c /\ c \in s .. Len(m) /\ c \in P
          BY <1>1, <1>6, <3>1
      <4> QED
          BY <1>4, <2>3, <4>1
    <3> QED
        BY <3>1
  <2>5. m[c + 1].frame > f
      BY <1>1, <2>2, <2>3, <2>4
  <2>6. m[c + 1].frame <= m[i + k].frame
    <3>1. c + 1 \in 1 .. Len(m) /\ i + k \in 1 .. Len(m) /\ c + 1 <= i + k
        BY <1>1, <1>6, <2>1, <2>2
    <3> QED
        BY <3>1, SortedIs
  <2>7. m[i + k].frame \in Nat /\ m[c + 1].frame \in Nat
      BY <1>1, <2>1, <2>2
  <2>8. w[i] = m[i + k]
      BY <1>10
  <2> DEFINE x == m[c + 1].frame
             y == m[i + k].frame
  <2>9. x \in Nat /\ y \in Nat /\ x > f /\ x <= y
      BY <2>5, <2>6, <2>7
  <2> HIDE DEF x, y
  <2>10. y > f
      BY <2>9
  <2> QED
      BY <2>8, <2>10 DEF y
<1>12. ASSUME NEW i \in 1 .. Len(w)
       PROVE  LET p == IF i < s THEN i ELSE i + k IN p \in 1 .. Len(m) /\ w[i] = m[p]
  <2>0. /\ i \in Nat /\ i >= 1 /\ i <= s - 1 + (Len(m) - c) /\ c \in Nat /\ c <= Len(m)
        /\ s \in Nat /\ s >= 1 /\ s <= Len(m) + 1 /\ Len(m) \in Nat /\ c >= s - 1
      BY <1>1, <1>6, <1>10
  <2>1. CASE i < s
    <3>1. i \in 1 .. s - 1 /\ i \in 1 .. Len(m)
        BY <2>0, <2>1
    <3> QED
        BY <1>10, <2>1, <3>1
  <2>2. CASE ~(i < s)
    <3>1. i \in s .. Len(w) /\ i + k \in 1 .. Len(m)
        BY <1>10, <2>0, <2>2
    <3> QED
        BY <1>10, <2>2, <3>1
  <2> QED
      BY <2>1, <2>2
<1>13. Sorted(w)
  <2> SUFFICES ASSUME NEW i \in 1 .. Len(w), NEW j \in 1 .. Len(w), i < j
               PROVE  w[i].frame <= w[j].frame
      BY <1>10 DEF Sorted
  <2> DEFINE p == IF i < s THEN i ELSE i + k
             q == IF j < s THEN j ELSE j + k
  <2>1. p \in 1 .. Len(m) /\ w[i] = m[p] /\ q \in 1 .. Len(m) /\ w[j] = m[q]
      BY <1>12
  <2>2. p < q
      BY <1>1, <1>7
  <2> HIDE DEF p, q
  <2> QED
      BY <1>1, <2>1, <2>2 DEF Sorted
<1>14. \A i \in 1 .. Len(w) : \E j \in 1 .. Len(m) : w[i] = m[j]
    BY <1>12
<1>15. Len(w) >= s - 1 /\ Len(w) <= Len(m)
    BY <1>1, <1>6, <1>10
<1> QED
    BY <1>10, <1>11, <1>13, <1>14, <1>15 DEF w

\* A marker goes where it belongs, if there is room.
LEMMA InsertIs ==
    ASSUME NEW m \in Seq(Markers), Sorted(m), NEW f \in Nat
    PROVE  LET r == insert(m, f) IN
           /\ r \in Seq(Markers) /\ Sorted(r) /\ (Len(r) = Len(m) => r = m) /\ Len(r) >= Len(m)
           /\ \A i \in 1 .. Len(r) :
                 \/ r[i] = [frame |-> f, stale |-> FALSE]
                 \/ \E j \in 1 .. Len(m) : r[i] = m[j]
<1> DEFINE e == [frame |-> f, stale |-> FALSE]
           p == lower_bound(m, f)
           u == SubSeq(m, 1, p - 1)
           v == SubSeq(m, p, Len(m))
           r == u \o <<e>> \o v
<1>1. /\ Len(m) \in Nat /\ \A i \in 1 .. Len(m) : m[i] \in Markers /\ m[i].frame \in Nat
    BY MarkersIs
<1>2. CASE MapFull(m)
  <2>1. insert(m, f) = m
      BY <1>2 DEF insert
  <2> QED
      BY <1>1, <2>1
<1>3. CASE ~MapFull(m)
  <2>1. insert(m, f) = r
      BY <1>3 DEF insert, Place, InsertAt
  <2>2. p \in 1 .. Len(m) + 1 /\ \A i \in 1 .. Len(m) : i < p <=> m[i].frame < f
      BY LowerBoundIs
  <2>3. e \in Markers /\ e.frame = f
      BY DEF Markers
  <2> HIDE DEF p, e
  <2>4. /\ u \in Seq(Markers) /\ Len(u) = p - 1 /\ \A i \in 1 .. p - 1 : u[i] = m[i]
      BY <1>1, <2>2, SubSeqProperties
  <2>5. /\ v \in Seq(Markers) /\ Len(v) = Len(m) - p + 1
        /\ \A i \in 1 .. Len(m) - p + 1 : v[i] = m[p + i - 1]
      BY <1>1, <2>2, SubSeqProperties
  <2> HIDE DEF u, v
  <2>6. <<e>> \in Seq(Markers) /\ Len(<<e>>) = 1 /\ <<e>>[1] = e
      BY <2>3
  <2> DEFINE w == u \o <<e>>
  <2>7. /\ w \in Seq(Markers) /\ Len(w) = p /\ w[p] = e /\ \A i \in 1 .. p - 1 : w[i] = m[i]
    <3>1. /\ w \in Seq(Markers) /\ Len(w) = Len(u) + Len(<<e>>)
          /\ \A i \in 1 .. Len(u) + Len(<<e>>) : w[i] = IF i <= Len(u) THEN u[i] ELSE <<e>>[i - Len(u)]
        BY <2>4, <2>6, ConcatProperties
    <3>2. p \in Nat /\ p - (p - 1) = 1
        BY <1>1, <2>2
    <3>3. w[p] = e
        BY <2>4, <2>6, <3>1, <3>2
    <3>4. ASSUME NEW i \in 1 .. p - 1 PROVE w[i] = m[i]
      <4>1. i \in 1 .. Len(u) + Len(<<e>>) /\ i <= Len(u)
          BY <2>4, <2>6, <3>2
      <4> QED
          BY <2>4, <3>1, <4>1
    <3>5. Len(w) = p
        BY <2>4, <2>6, <3>1, <3>2
    <3> QED
        BY <3>1, <3>3, <3>4, <3>5
  <2> HIDE DEF w
  <2>8. /\ r \in Seq(Markers) /\ Len(r) = Len(m) + 1
        /\ \A i \in 1 .. p : r[i] = w[i]
        /\ \A i \in p + 1 .. Len(m) + 1 : r[i] = m[i - 1]
    <3>1. /\ r \in Seq(Markers) /\ Len(r) = Len(w) + Len(v)
          /\ \A i \in 1 .. Len(w) + Len(v) : r[i] = IF i <= Len(w) THEN w[i] ELSE v[i - Len(w)]
        BY <2>5, <2>7, ConcatProperties DEF w
    <3>2. ASSUME NEW i \in p + 1 .. Len(m) + 1 PROVE r[i] = m[i - 1]
      <4>1. i - p \in 1 .. Len(m) - p + 1 /\ p + (i - p) - 1 = i - 1 /\ ~(i <= p)
            /\ i \in 1 .. Len(w) + Len(v)
          BY <1>1, <2>2, <2>5, <2>7
      <4> QED
          BY <2>5, <2>7, <3>1, <4>1
    <3>3. ASSUME NEW i \in 1 .. p PROVE r[i] = w[i]
      <4>1. i \in 1 .. Len(w) + Len(v) /\ i <= Len(w)
          BY <1>1, <2>2, <2>5, <2>7
      <4> QED
          BY <3>1, <4>1
    <3>4. Len(w) + Len(v) = Len(m) + 1
        BY <1>1, <2>2, <2>5, <2>7
    <3> QED
        BY <3>1, <3>2, <3>3, <3>4
  <2> HIDE DEF r
  <2>9. ASSUME NEW i \in 1 .. Len(r)
        PROVE  \/ i < p /\ i \in 1 .. Len(m) /\ r[i] = m[i]
               \/ i = p /\ r[i] = e
               \/ i > p /\ i - 1 \in 1 .. Len(m) /\ r[i] = m[i - 1]
      BY <1>1, <2>2, <2>7, <2>8
  <2>10. ASSUME NEW i \in 1 .. Len(r), NEW j \in 1 .. Len(r), i < j
         PROVE  r[i].frame <= r[j].frame
    <3>0. i \in Nat /\ j \in Nat /\ p \in Nat /\ i < j
        BY <1>1, <2>2, <2>8, <2>10
    <3>1. CASE i < p /\ j < p
      <4>1. /\ i \in 1 .. Len(m) /\ r[i] = m[i] /\ j \in 1 .. Len(m) /\ r[j] = m[j] /\ i <= j
          BY <2>9, <3>0, <3>1
      <4>2. m[i].frame <= m[j].frame
          BY <4>1, SortedIs
      <4> QED
          BY <4>1, <4>2
    <3>2. CASE i < p /\ j = p
      <4>1. i \in 1 .. Len(m) /\ r[i] = m[i] /\ r[j] = e
          BY <2>9, <3>0, <3>2
      <4>2. m[i].frame < f /\ m[i].frame \in Nat
          BY <1>1, <2>2, <3>2, <4>1
      <4> QED
          BY <2>3, <4>1, <4>2
    <3>3. CASE i < p /\ j > p
      <4>1. /\ i \in 1 .. Len(m) /\ r[i] = m[i]
            /\ j - 1 \in 1 .. Len(m) /\ r[j] = m[j - 1] /\ i <= j - 1
          BY <2>9, <3>0, <3>3
      <4>2. m[i].frame <= m[j - 1].frame
          BY <4>1, SortedIs
      <4> QED
          BY <4>1, <4>2
    <3>4. CASE i = p /\ j > p
      <4>1. r[i] = e /\ j - 1 \in 1 .. Len(m) /\ r[j] = m[j - 1] /\ ~(j - 1 < p)
          BY <2>9, <3>0, <3>4
      <4>2. ~(m[j - 1].frame < f) /\ m[j - 1].frame \in Nat
          BY <1>1, <2>2, <4>1
      <4> QED
          BY <2>3, <4>1, <4>2
    <3>5. CASE i > p
      <4>1. /\ i - 1 \in 1 .. Len(m) /\ r[i] = m[i - 1]
            /\ j - 1 \in 1 .. Len(m) /\ r[j] = m[j - 1] /\ i - 1 <= j - 1
          BY <2>9, <3>0, <3>5
      <4>2. m[i - 1].frame <= m[j - 1].frame
          BY <4>1, SortedIs
      <4> QED
          BY <4>1, <4>2
    <3> QED
        BY <3>0, <3>1, <3>2, <3>3, <3>4, <3>5
  <2>11. Sorted(r) /\ Len(r) # Len(m) /\ Len(r) >= Len(m)
      BY <1>1, <2>8, <2>10 DEF Sorted
  <2>12. \A i \in 1 .. Len(r) : r[i] = e \/ \E j \in 1 .. Len(m) : r[i] = m[j]
      BY <2>9
  <2> QED
      BY <2>1, <2>8, <2>11, <2>12 DEF e
<1> QED
    BY <1>2, <1>3

\* The history's marks leave the frames alone.
LEMMA AgedIs ==
    ASSUME NEW m \in Seq(Markers), NEW f \in Nat, NEW landed \in BOOLEAN
    PROVE  LET a == Aged(m, f, landed) IN
           /\ a \in Seq(Markers) /\ Len(a) = Len(m) /\ (Sorted(m) => Sorted(a))
           /\ \A i \in 1 .. Len(m) :
                 /\ a[i].frame = m[i].frame
                 /\ a[i].stale <=> m[i].stale \/ (landed /\ m[i].frame = f)
<1> DEFINE old(i) == m[i].stale \/ (landed /\ m[i].frame = f)
           new(i) == [m[i] EXCEPT !.stale = old(i)]
           a == Aged(m, f, landed)
<1>1. /\ DOMAIN m = 1 .. Len(m) /\ Len(m) \in Nat
      /\ \A i \in 1 .. Len(m) : m[i] \in Markers
    BY MarkersIs
<1>2. ASSUME NEW i \in 1 .. Len(m)
      PROVE  new(i) \in Markers /\ new(i).frame = m[i].frame /\ (new(i).stale <=> old(i))
  <2> DEFINE o == old(i)
  <2>1. m[i] \in Markers /\ m[i].stale \in BOOLEAN
      BY <1>1 DEF Markers
  <2>2. o \in BOOLEAN
      BY <2>1
  <2> HIDE DEF o
  <2>3. LET n == [m[i] EXCEPT !.stale = o] IN n \in Markers /\ n.frame = m[i].frame /\ n.stale = o
      BY <2>1, <2>2 DEF Markers
  <2> QED
      BY <2>3 DEF o
<1>3. a = [i \in 1 .. Len(m) |-> new(i)]
    BY <1>1 DEF Aged
<1> HIDE DEF new, a
<1>4. a \in Seq(Markers) /\ Len(a) = Len(m) /\ \A i \in 1 .. Len(m) : a[i] = new(i)
    BY <1>1, <1>2, <1>3
<1>5. Sorted(m) => Sorted(a)
    BY <1>1, <1>2, <1>4 DEF Sorted
<1> QED
    BY <1>2, <1>4, <1>5 DEF a

Detectors == [last : Nat \cup {None}, sweep : Nat, armed : BOOLEAN, refract : Nat]

\* The slice map m, with detector d, over buffer b: the sweep has the markers up to
\* the last frame behind it; only a loop of one frame can outlive a marker's frame.
MapOK(m, d, b) ==
    /\ m \in Seq(Markers) /\ Sorted(m)
    /\ d \in Detectors /\ d.sweep \in 1 .. Len(m) + 1
    /\ d.last # None => \A i \in 1 .. d.sweep - 1 : m[i].frame <= d.last
    /\ \A i \in 1 .. Len(m) : m[i].frame < b.size
    /\ (\E i \in 1 .. Len(m) : m[i].stale) => b.cut /\ b.size = 1

LEMMA NoMarkersOK == ASSUME NEW b PROVE MapOK(<<>>, FreshDetector, b)
<1>1. <<>> \in Seq(Markers) /\ Len(<<>>) = 0 /\ DOMAIN <<>> = 1 .. 0
    OBVIOUS
<1>2. FreshDetector \in Detectors /\ FreshDetector.last = None /\ FreshDetector.sweep = 1
    BY DEF FreshDetector, Detectors
<1> QED
    BY <1>1, <1>2 DEF MapOK, Sorted

\* What an aim at a frame leaves behind the sweep is below it.
LEMMA ReAimedIs ==
    ASSUME NEW m, NEW d, NEW b, MapOK(m, d, b), NEW f \in Nat
    PROVE  LET a == ReAimed(d, m, f) IN
           /\ a \in Detectors /\ a.sweep \in 1 .. Len(m) + 1
           /\ \A i \in 1 .. a.sweep - 1 : m[i].frame < f
<1>0. /\ m \in Seq(Markers) /\ Sorted(m) /\ d \in Detectors /\ d.sweep \in 1 .. Len(m) + 1
      /\ Len(m) \in Nat /\ \A i \in 1 .. Len(m) : m[i].frame \in Nat
      /\ d.last # None => \A i \in 1 .. d.sweep - 1 : m[i].frame <= d.last
    BY MarkersIs DEF MapOK
<1>1. CASE d.last # None /\ f = d.last + 1
  <2>1. ReAimed(d, m, f) = d
      BY <1>1 DEF ReAimed
  <2>2. d.last \in Nat
      BY <1>0, <1>1 DEF Detectors
  <2>3. ASSUME NEW i \in 1 .. d.sweep - 1 PROVE m[i].frame < f
    <3>1. m[i].frame <= d.last /\ m[i].frame \in Nat
        BY <1>0, <1>1
    <3> QED
        BY <1>1, <2>2, <3>1
  <2> QED
      BY <1>0, <2>1, <2>3
<1>2. CASE ~(d.last # None /\ f = d.last + 1)
  <2> DEFINE p == lower_bound(m, f)
             a == [d EXCEPT !.sweep = p, !.armed = TRUE, !.refract = 0]
  <2>1. ReAimed(d, m, f) = a
      BY <1>2 DEF ReAimed
  <2>2. p \in 1 .. Len(m) + 1 /\ \A i \in 1 .. Len(m) : i < p <=> m[i].frame < f
      BY <1>0, LowerBoundIs
  <2> HIDE DEF p
  <2>3. p \in Nat
      BY <1>0, <2>2
  <2>4. a \in Detectors /\ a.sweep = p
      BY <1>0, <2>3 DEF Detectors
  <2> HIDE DEF a
  <2>5. ASSUME NEW i \in 1 .. p - 1 PROVE m[i].frame < f
    <3>1. i \in 1 .. Len(m) /\ i < p
        BY <1>0, <2>2, <2>3
    <3> QED
        BY <2>2, <3>1
  <2> QED
      BY <2>1, <2>2, <2>4, <2>5
<1> QED
    BY <1>1, <1>2

LEMMA DetectedIs ==
    ASSUME NEW d \in Detectors, NEW onset \in BOOLEAN, NEW rearm \in BOOLEAN
    PROVE  /\ Detected(d, onset, rearm) \in Detectors
           /\ Detected(d, onset, rearm).sweep = d.sweep
<1>0. d.refract \in Nat /\ Refract \in Nat
    BY DetectorAssumption DEF Detectors
<1>1. CASE d.refract > 0
  <2> DEFINE n == d.refract - 1
  <2>1. n \in Nat /\ ~Fires(d, onset)
      BY <1>0, <1>1 DEF Fires
  <2>2. Detected(d, onset, rearm) = [d EXCEPT !.refract = n]
      BY <1>0, <1>1, <2>1 DEF Detected
  <2> HIDE DEF n
  <2> QED
      BY <2>1, <2>2 DEF Detectors
<1>2. CASE d.refract = 0 /\ Fires(d, onset)
  <2>1. Detected(d, onset, rearm) = [d EXCEPT !.armed = FALSE, !.refract = Refract]
      BY <1>2 DEF Detected, Fires
  <2> QED
      BY <1>0, <2>1 DEF Detectors
<1>3. CASE d.refract = 0 /\ ~Fires(d, onset) /\ ~d.armed
  <2>1. Detected(d, onset, rearm) = [d EXCEPT !.armed = rearm]
      BY <1>3 DEF Detected
  <2> QED
      BY <2>1 DEF Detectors
<1>4. CASE d.refract = 0 /\ ~Fires(d, onset) /\ d.armed
  <2>1. Detected(d, onset, rearm) = d
      BY <1>4 DEF Detected
  <2> QED
      BY <2>1
<1> QED
    BY <1>0, <1>1, <1>2, <1>3, <1>4

LEMMA MarkerOfIs ==
    ASSUME NEW f \in Nat
    PROVE  MarkerOf(f) \in Nat /\ MarkerOf(f) <= f
BY DetectorAssumption DEF MarkerOf

\* The map told of frame f, which is below the size the buffer then has.
LEMMA NoteFrameOK ==
    ASSUME NEW b, NEW c, MapOK(slices, det, b), NEW f \in Nat,
           b.size \in Nat, c.size \in Nat, b.size <= c.size, f < c.size,
           b.cut => c.cut /\ c.size = b.size,
           NEW landed \in BOOLEAN, NEW onset \in BOOLEAN, NEW rearm \in BOOLEAN,
           NoteFrame(f, landed, onset, rearm)
    PROVE  MapOK(slices', det', c)
<1> DEFINE aimed == ReAimed(det, slices, f)
           swept == Swept(slices, aimed.sweep, f)
           left  == Aged(swept, f, landed)
           put   == insert(left, MarkerOf(f))
           found == Detected(aimed, onset, rearm)
           after == IF Fires(aimed, onset) THEN put ELSE left
           sweep == IF Len(after) # Len(left) THEN lower_bound(after, f + 1) ELSE found.sweep
<1>1. /\ slices' = after
      /\ det' = [found EXCEPT !.last = f, !.sweep = sweep]
    BY DEF NoteFrame
<1>2. /\ slices \in Seq(Markers) /\ Sorted(slices) /\ Len(slices) \in Nat
      /\ \A i \in 1 .. Len(slices) : slices[i].frame \in Nat /\ slices[i].frame < b.size
      /\ (\E i \in 1 .. Len(slices) : slices[i].stale) => b.cut /\ b.size = 1
    BY MarkersIs DEF MapOK
<1>3. /\ aimed \in Detectors /\ aimed.sweep \in 1 .. Len(slices) + 1
      /\ \A i \in 1 .. aimed.sweep - 1 : slices[i].frame < f
    BY ReAimedIs
<1> HIDE DEF aimed
<1>4. /\ found \in Detectors /\ found.sweep = aimed.sweep
    BY <1>3, DetectedIs
<1> HIDE DEF found
<1>5. /\ swept \in Seq(Markers) /\ Sorted(swept) /\ Len(swept) >= aimed.sweep - 1
      /\ \A i \in 1 .. aimed.sweep - 1 : swept[i] = slices[i]
      /\ \A i \in aimed.sweep .. Len(swept) : swept[i].frame > f
      /\ \A i \in 1 .. Len(swept) : \E j \in 1 .. Len(slices) : swept[i] = slices[j]
  <2>1. /\ slices \in Seq(Markers) /\ Sorted(slices) /\ f \in Nat
        /\ aimed.sweep \in 1 .. Len(slices) + 1
      BY <1>2, <1>3
  <2> QED
      BY <2>1, SweptIs
<1> HIDE DEF swept
<1>6. /\ Len(swept) \in Nat /\ \A i \in 1 .. Len(swept) : swept[i].frame \in Nat
      /\ aimed.sweep \in Nat /\ aimed.sweep >= 1
  <2>1. Len(swept) \in Nat /\ \A i \in 1 .. Len(swept) : swept[i].frame \in Nat
      BY <1>5, MarkersIs
  <2>2. aimed.sweep \in Nat /\ aimed.sweep >= 1
      BY <1>2, <1>3
  <2> QED
      BY <2>1, <2>2
<1>7. ASSUME NEW i \in 1 .. Len(swept)
      PROVE  /\ swept[i].frame # f /\ swept[i].frame < c.size
             /\ swept[i].stale => c.cut /\ c.size = 1
  <2>1. PICK j \in 1 .. Len(slices) : swept[i] = slices[j]
      BY <1>5
  <2>2. /\ swept[i].frame < b.size /\ swept[i].frame \in Nat
        /\ swept[i].stale => b.cut /\ b.size = 1
      BY <1>2, <2>1
  <2>3. swept[i].frame # f
    <3>1. CASE i < aimed.sweep
      <4>1. i \in 1 .. aimed.sweep - 1
          BY <1>6, <3>1
      <4>2. swept[i] = slices[i] /\ slices[i].frame < f
          BY <1>3, <1>5, <4>1
      <4> QED
          BY <2>2, <4>2
    <3>2. CASE i >= aimed.sweep
      <4>1. i \in aimed.sweep .. Len(swept)
          BY <1>6, <3>2
      <4>2. swept[i].frame > f
          BY <1>5, <4>1
      <4> QED
          BY <2>2, <4>2
    <3> QED
        BY <1>6, <3>1, <3>2
  <2> QED
      BY <2>2, <2>3
<1>8. /\ left \in Seq(Markers) /\ Len(left) = Len(swept) /\ Sorted(left)
      /\ \A i \in 1 .. Len(swept) :
            /\ left[i].frame = swept[i].frame
            /\ left[i].stale <=> swept[i].stale \/ (landed /\ swept[i].frame = f)
    BY <1>5, AgedIs
<1> HIDE DEF left
<1>9. /\ \A i \in 1 .. Len(left) : left[i].frame < c.size /\ left[i].frame \in Nat
      /\ \A i \in 1 .. Len(left) : left[i].stale => c.cut /\ c.size = 1
      /\ \A i \in 1 .. aimed.sweep - 1 : left[i].frame <= f
  <2>1. \A i \in 1 .. Len(left) : left[i].frame < c.size /\ left[i].frame \in Nat
      BY <1>6, <1>7, <1>8
  <2>2. \A i \in 1 .. Len(left) : left[i].stale => c.cut /\ c.size = 1
      BY <1>7, <1>8
  <2>3. ASSUME NEW i \in 1 .. aimed.sweep - 1 PROVE left[i].frame <= f
    <3>1. i \in 1 .. Len(swept)
        BY <1>5, <1>6
    <3>2. left[i].frame = slices[i].frame /\ slices[i].frame < f /\ left[i].frame \in Nat
        BY <1>3, <1>5, <1>6, <1>8, <3>1
    <3> QED
        BY <3>2
  <2> QED
      BY <2>1, <2>2, <2>3
<1>10. MarkerOf(f) \in Nat /\ MarkerOf(f) <= f
    BY MarkerOfIs
<1>11. /\ put \in Seq(Markers) /\ Sorted(put) /\ (Len(put) = Len(left) => put = left)
       /\ \A i \in 1 .. Len(put) :
             \/ put[i] = [frame |-> MarkerOf(f), stale |-> FALSE]
             \/ \E j \in 1 .. Len(left) : put[i] = left[j]
    BY <1>8, <1>10, InsertIs
<1> HIDE DEF put
<1>12. /\ after \in Seq(Markers) /\ Sorted(after) /\ (Len(after) = Len(left) => after = left)
       /\ \A i \in 1 .. Len(after) :
             \/ after[i] = [frame |-> MarkerOf(f), stale |-> FALSE]
             \/ \E j \in 1 .. Len(left) : after[i] = left[j]
    BY <1>8, <1>11
<1> HIDE DEF after
<1>13. ASSUME NEW i \in 1 .. Len(after)
       PROVE  after[i].frame < c.size /\ (after[i].stale => c.cut /\ c.size = 1)
  <2>1. CASE after[i] = [frame |-> MarkerOf(f), stale |-> FALSE]
    <3>1. after[i].frame = MarkerOf(f) /\ ~after[i].stale
        BY <2>1
    <3> QED
        BY <1>10, <3>1
  <2>2. CASE \E j \in 1 .. Len(left) : after[i] = left[j]
      BY <1>9, <2>2
  <2> QED
      BY <1>12, <2>1, <2>2
<1>14. /\ sweep \in 1 .. Len(after) + 1 /\ \A i \in 1 .. sweep - 1 : after[i].frame <= f
  <2>0. Len(after) \in Nat /\ \A i \in 1 .. Len(after) : after[i].frame \in Nat
      BY <1>12, MarkersIs
  <2>1. CASE Len(after) # Len(left)
    <3> DEFINE p == lower_bound(after, f + 1)
    <3>1. f + 1 \in Nat
        OBVIOUS
    <3>2. p \in 1 .. Len(after) + 1 /\ \A i \in 1 .. Len(after) : i < p <=> after[i].frame < f + 1
        BY <1>12, <3>1, LowerBoundIs
    <3>3. sweep = p
        BY <2>1
    <3> HIDE DEF p, sweep
    <3>4. ASSUME NEW i \in 1 .. p - 1 PROVE after[i].frame <= f
      <4>1. i \in 1 .. Len(after) /\ i < p
          BY <2>0, <3>2
      <4> QED
          BY <2>0, <3>2, <4>1
    <3> QED
        BY <3>2, <3>3, <3>4
  <2>2. CASE Len(after) = Len(left)
    <3>1. after = left /\ sweep = aimed.sweep
        BY <1>4, <1>12, <2>2
    <3>2. aimed.sweep \in 1 .. Len(left) + 1
        BY <1>5, <1>6, <1>8
    <3> QED
        BY <1>9, <3>1, <3>2
  <2> QED
      BY <2>1, <2>2
<1> HIDE DEF sweep
<1>15. det' \in Detectors /\ det'.last = f /\ det'.sweep = sweep
  <2>1. sweep \in Nat
      BY <1>14
  <2> QED
      BY <1>1, <1>4, <2>1 DEF Detectors
<1> QED
    BY <1>1, <1>12, <1>13, <1>14, <1>15 DEF MapOK

\* What a written frame does to the loop and the fill; the head stays only in a
\* loop of one frame.
LEMMA AdvancedFills ==
    ASSUME NEW b, IsBuffer(b), b.size <= Capacity, b.head < Capacity, b.cut => b.head < b.size
    PROVE  LET r == Advanced(b) IN
           /\ r.size \in Nat /\ b.size <= r.size /\ b.head < r.size
           /\ b.cut => r.cut /\ r.size = b.size
           /\ r.head = b.head => b.cut /\ b.size = 1
<1>0. /\ Capacity \in Nat /\ Capacity > 1 /\ b.head \in Nat /\ b.size \in Nat
    BY BufferFields
<1>1. CASE b.cut
  <2> DEFINE h == IF b.head + 1 >= b.size THEN 0 ELSE b.head + 1
             r == [b EXCEPT !.head = h]
  <2>1. Advanced(b) = r
      BY <1>1 DEF Advanced
  <2>2. r.size = b.size /\ r.cut /\ r.head = h
      BY <1>1 DEF IsBuffer
  <2> HIDE DEF r
  <2>3. h = b.head => b.size = 1
      BY <1>0, <1>1
  <2> QED
      BY <1>0, <1>1, <2>1, <2>2, <2>3
<1>2. CASE ~b.cut /\ b.head + 1 >= Capacity
  <2> DEFINE f == [b EXCEPT !.size = Capacity]
  <2>1. Advanced(b) = cut(f)
      BY <1>0, <1>2 DEF Advanced, Filled
  <2>2. IsBuffer(f) /\ ~f.cut /\ f.size = Capacity
      BY <1>0, <1>2 DEF IsBuffer
  <2> HIDE DEF f
  <2>3. cut(f).size = Capacity /\ cut(f).head = 0
      BY <2>2, CutIs
  <2> QED
      BY <1>0, <1>2, <2>1, <2>3
<1>3. CASE ~b.cut /\ b.head + 1 < Capacity
  <2> DEFINE n == IF b.head + 1 > b.size THEN b.head + 1 ELSE b.size
             r == [b EXCEPT !.head = b.head + 1, !.size = n]
  <2>1. Advanced(b) = r
      BY <1>0, <1>3 DEF Advanced
  <2>2. n \in Nat /\ b.size <= n /\ b.head < n
      BY <1>0
  <2> HIDE DEF n
  <2>3. r.head = b.head + 1 /\ r.size = n
      BY DEF IsBuffer
  <2> HIDE DEF r
  <2> QED
      BY <1>0, <1>3, <2>1, <2>2, <2>3
<1> QED
    BY <1>0, <1>1, <1>2, <1>3

LEMMA BufferBounds ==
    ASSUME NEW b, BufOK(b)
    PROVE  IsBuffer(b) /\ b.size <= Capacity /\ b.head < Capacity /\ (b.cut => b.head < b.size)
<1>1. IsBuffer(b) /\ b.state \in States /\ b.head \in Nat /\ b.size \in Nat /\ b.fade \in Nat
      /\ Capacity \in Nat
    BY BufferFields DEF BufOK
<1>2. CASE b.cut
    BY <1>1, <1>2 DEF BufOK, Locked
<1>3. CASE ~b.cut
    BY <1>1, <1>3, CapacityAssumption DEF BufOK, FirstTake, States
<1> QED
    BY <1>1, <1>2, <1>3

LEMMA WriteFills ==
    ASSUME NEW b, BufOK(b)
    PROVE  LET r == write(b) IN
           /\ b.size \in Nat /\ r.size \in Nat /\ b.size <= r.size
           /\ b.cut => r.cut /\ r.size = b.size
           /\ r.head # b.head => b.head < r.size
           /\ r.head = b.head /\ Lands(b) => b.cut /\ b.size = 1
<1>0. /\ IsBuffer(b) /\ b.state \in States /\ b.fade \in Nat /\ b.head \in Nat /\ b.size \in Nat
      /\ b.size <= Capacity /\ b.head < Capacity /\ (b.cut => b.head < b.size)
    BY BufferFields, BufferBounds DEF BufOK
<1>1. CASE b.state = "idle"
  <2>1. write(b) = b /\ ~Lands(b)
      BY <1>1 DEF write, Lands
  <2> QED
      BY <1>0, <2>1
<1>2. CASE b.state = "sustain"
  <2>1. write(b) = Advanced(b)
      BY <1>2 DEF write
  <2> QED
      BY <1>0, <2>1, AdvancedFills
<1>3. CASE b.state = "fadein"
  <2> DEFINE f == FadedIn(b)
  <2>1. write(b) = Advanced(f)
      BY <1>3 DEF write
  <2>2. IsBuffer(f)
    <3> DEFINE up == b.fade + 1
               st == IF up >= RecordFade - 1 THEN "sustain" ELSE b.state
    <3>1. up \in Nat /\ st \in States
        BY <1>0 DEF States
    <3>2. f = [b EXCEPT !.fade = up, !.state = st]
        BY <1>0 DEF FadedIn, IsBuffer
    <3> HIDE DEF f, up, st
    <3> QED
        BY <1>0, <3>1, <3>2 DEF IsBuffer
  <2>3. (f.cut <=> b.cut) /\ f.head = b.head /\ f.size = b.size
      BY <1>0 DEF IsBuffer, FadedIn
  <2> HIDE DEF f
  <2> QED
      BY <1>0, <2>1, <2>2, <2>3, AdvancedFills
<1>4. CASE b.state = "fadeout" /\ b.fade = 0
  <2> DEFINE r == StoppedUnwritten(b)
  <2>1. write(b) = r /\ ~Lands(b)
      BY <1>4 DEF write, Lands
  <2>2. r.head = b.head /\ r.size = b.size /\ (r.cut <=> b.cut)
      BY <1>0 DEF IsBuffer, StoppedUnwritten
  <2> HIDE DEF r
  <2> QED
      BY <1>0, <2>1, <2>2
<1>5. CASE b.state = "fadeout" /\ b.fade = 1
  <2> DEFINE c == cut(b)
             r == [c EXCEPT !.state = "idle", !.fade = 0]
  <2>1. write(b) = r /\ ~Lands(b)
      BY <1>5 DEF write, Lands
  <2>2. IsBuffer(c) /\ c.cut /\ c.size = b.size /\ c.head = IF b.cut THEN b.head ELSE 0
      BY <1>0, CutIs
  <2> HIDE DEF c
  <2>3. r.cut /\ r.size = c.size /\ r.head = c.head
      BY <2>2 DEF IsBuffer
  <2> HIDE DEF r
  <2>4. ~b.cut => b.head < b.size
      BY <1>0, <1>5 DEF BufOK, FirstTake
  <2> QED
      BY <1>0, <2>1, <2>2, <2>3, <2>4
<1>6. CASE b.state = "fadeout" /\ b.fade > 1
  <2> DEFINE f == [b EXCEPT !.fade = @ - 1]
  <2>1. write(b) = Advanced(f)
      BY <1>0, <1>6 DEF write
  <2>2. IsBuffer(f) /\ (f.cut <=> b.cut) /\ f.head = b.head /\ f.size = b.size
      BY <1>0, <1>6 DEF IsBuffer
  <2> HIDE DEF f
  <2> QED
      BY <1>0, <2>1, <2>2, AdvancedFills
<1> QED
    BY <1>0, <1>1, <1>2, <1>3, <1>4, <1>5, <1>6 DEF States

LEMMA RecordingKeeps ==
    ASSUME NEW b, BufOK(b), NEW on \in BOOLEAN
    PROVE  set_recording(b, on).size = b.size /\ (set_recording(b, on).cut <=> b.cut)
<1>0. IsBuffer(b) /\ b.state \in States
    BY BufferFields DEF BufOK
<1>1. CASE b.state = "idle" /\ on
    BY <1>0, <1>1 DEF set_recording, IsBuffer
<1>2. CASE b.state = "fadeout" /\ on
    BY <1>0, <1>2 DEF set_recording, PunchedIn, IsBuffer
<1>3. CASE b.state \in {"fadein", "sustain"} /\ ~on
  <2> DEFINE h == IF b.cut THEN b.head ELSE 0
  <2>1. set_recording(b, on) = [b EXCEPT !.state = "fadeout", !.resume = b.head, !.head = h]
      BY <1>3 DEF set_recording
  <2> HIDE DEF h
  <2> QED
      BY <1>0, <2>1 DEF IsBuffer
<1>4. CASE (b.state = "idle" /\ ~on) \/ (b.state = "fadeout" /\ ~on)
           \/ (b.state \in {"fadein", "sustain"} /\ on)
  <2>1. set_recording(b, on) = b
      BY <1>4 DEF set_recording
  <2> QED
      BY <2>1
<1> QED
    BY <1>0, <1>1, <1>2, <1>3, <1>4 DEF States

\* The same map over a buffer with the same loop.
LEMMA SameLoopOK ==
    ASSUME NEW m, NEW d, NEW b, NEW c, MapOK(m, d, b), c.size = b.size, c.cut <=> b.cut
    PROVE  MapOK(m, d, c)
BY DEF MapOK

\* A frame that lands where the head stays: in a loop of one frame.
LEMMA HeldMapOK ==
    ASSUME NEW m, NEW d, NEW b, MapOK(m, d, b), NEW c, b.size \in Nat, c.size \in Nat, b.size <= c.size,
           b.cut => c.cut /\ c.size = b.size,
           NEW f \in Nat, NEW landed \in BOOLEAN, landed => b.cut /\ b.size = 1
    PROVE  MapOK(Aged(m, f, landed), d, c)
<1> DEFINE a == Aged(m, f, landed)
<1>1. /\ m \in Seq(Markers) /\ Sorted(m) /\ Len(m) \in Nat
      /\ \A i \in 1 .. Len(m) : m[i].frame \in Nat /\ m[i].frame < b.size
    BY MarkersIs DEF MapOK
<1>2. /\ a \in Seq(Markers) /\ Len(a) = Len(m) /\ Sorted(a)
      /\ \A i \in 1 .. Len(m) :
            /\ a[i].frame = m[i].frame
            /\ a[i].stale <=> m[i].stale \/ (landed /\ m[i].frame = f)
  <2>1. m \in Seq(Markers) /\ Sorted(m)
      BY <1>1
  <2>2. a \in Seq(Markers) /\ Len(a) = Len(m)
      BY <2>1, AgedIs
  <2>3. Sorted(a)
      BY <2>1, AgedIs
  <2>4. ASSUME NEW i \in 1 .. Len(m) PROVE a[i].frame = m[i].frame
      BY <2>1, AgedIs
  <2>5. ASSUME NEW i \in 1 .. Len(m) PROVE a[i].stale <=> m[i].stale \/ (landed /\ m[i].frame = f)
      BY <2>1, AgedIs
  <2> QED
      BY <2>1, <2>2, <2>3, <2>4, <2>5
<1> HIDE DEF a
<1>3. (\E i \in 1 .. Len(a) : a[i].stale) => c.cut /\ c.size = 1
    BY <1>2 DEF MapOK
<1>4. \A i \in 1 .. Len(a) : a[i].frame < c.size
    BY <1>1, <1>2
<1>5. /\ d \in Detectors /\ d.sweep \in 1 .. Len(m) + 1
      /\ d.last # None => \A i \in 1 .. d.sweep - 1 : m[i].frame <= d.last
    BY DEF MapOK
<1>6. d.last # None => \A i \in 1 .. d.sweep - 1 : a[i].frame <= d.last
  <2>1. \A i \in 1 .. d.sweep - 1 : i \in 1 .. Len(m)
      BY <1>1, <1>5
  <2> QED
      BY <1>2, <1>5, <2>1
<1>7. MapOK(a, d, c)
    BY <1>2, <1>3, <1>4, <1>5, <1>6 DEF MapOK
<1> QED
    BY <1>7 DEF a

LEMMA FrameMapOK ==
    ASSUME BufOK(buf), MapOK(slices, det, buf),
           NEW onset \in BOOLEAN, NEW rearm \in BOOLEAN, Frame(onset, rearm)
    PROVE  MapOK(slices', det', buf')
<1> DEFINE r == write(buf)
<1>1. /\ buf' = r
      /\ IF r.head # buf.head THEN NoteFrame(buf.head, Lands(buf), onset, rearm)
         ELSE slices' = Aged(slices, buf.head, Lands(buf)) /\ UNCHANGED det
    BY DEF Frame
<1>2. /\ buf.size \in Nat /\ r.size \in Nat /\ buf.size <= r.size
      /\ buf.cut => r.cut /\ r.size = buf.size
      /\ r.head # buf.head => buf.head < r.size
      /\ r.head = buf.head /\ Lands(buf) => buf.cut /\ buf.size = 1
    BY WriteFills
<1> HIDE DEF r
<1>3. buf.head \in Nat /\ Lands(buf) \in BOOLEAN
    BY BufferFields DEF BufOK, Lands
<1>4. CASE r.head # buf.head
  <2>1. NoteFrame(buf.head, Lands(buf), onset, rearm)
      BY <1>1, <1>4
  <2> QED
      BY <1>1, <1>2, <1>3, <1>4, <2>1, NoteFrameOK
<1>5. CASE r.head = buf.head
  <2>1. slices' = Aged(slices, buf.head, Lands(buf)) /\ det' = det
      BY <1>1, <1>5
  <2>2. Lands(buf) => buf.cut /\ buf.size = 1
      BY <1>2, <1>5
  <2>3. MapOK(Aged(slices, buf.head, Lands(buf)), det, r)
      BY <1>2, <1>3, <2>2, HeldMapOK
  <2> QED
      BY <1>1, <2>1, <2>3
<1> QED
    BY <1>4, <1>5

\* scan: the onsets come in order, and a marker lies at its onset or before it.
LEMMA ScannedOK ==
    ASSUME NEW n \in Nat, NEW at \in Onsets(n), NEW d \in Detectors, d.sweep = 1, d.last = None,
           NEW b, b.size = n
    PROVE  MapOK(ScannedMarkers(at), d, b)
<1> DEFINE k == Min({Len(at), MaxMarkers})
           m == ScannedMarkers(at)
<1>1. PICK l \in 0 .. MaxOnsets(n) :
         /\ at \in [1 .. l -> 0 .. n - 1]
         /\ \A i, j \in DOMAIN at : i < j => at[j] - at[i] >= Refract + 2
    BY DEF Onsets
<1>2. l \in Nat /\ Len(at) = l /\ DOMAIN at = 1 .. l
  <2>1. l \in Nat
      OBVIOUS
  <2> QED
      BY <1>1, <2>1
<1>3. k \in Nat /\ k <= l
    BY <1>2, MarkersAssumption DEF Min
<1> HIDE DEF k
<1>4. \A i \in 1 .. k : at[i] \in Nat /\ at[i] < n
  <2>1. \A i \in 1 .. k : i \in 1 .. l
      BY <1>2, <1>3
  <2>2. \A i \in 1 .. l : at[i] \in 0 .. n - 1
      BY <1>1
  <2> QED
      BY <2>1, <2>2
<1>5. m = [i \in 1 .. k |-> [frame |-> MarkerOf(at[i]), stale |-> FALSE]]
    BY DEF ScannedMarkers, k
<1> HIDE DEF m
<1>6. \A i \in 1 .. k : MarkerOf(at[i]) \in Nat /\ MarkerOf(at[i]) <= at[i]
    BY <1>4, MarkerOfIs
<1>7. m \in Seq(Markers) /\ Len(m) = k
  <2>1. \A i \in 1 .. k : [frame |-> MarkerOf(at[i]), stale |-> FALSE] \in Markers
      BY <1>6 DEF Markers
  <2> QED
      BY <1>3, <1>5, <2>1
<1>8. \A i \in 1 .. k : m[i].frame = MarkerOf(at[i]) /\ ~m[i].stale
    BY <1>5
<1>9. ASSUME NEW i \in 1 .. k, NEW j \in 1 .. k, i < j
      PROVE  m[i].frame <= m[j].frame
  <2>1. i \in DOMAIN at /\ j \in DOMAIN at
      BY <1>2, <1>3
  <2>2. at[j] - at[i] >= Refract + 2
      BY <1>1, <1>9, <2>1
  <2>3. at[i] \in Nat /\ at[j] \in Nat /\ at[i] <= at[j]
      BY <1>4, <2>2, DetectorAssumption
  <2>4. MarkerOf(at[i]) <= MarkerOf(at[j])
      BY <2>3, DetectorAssumption DEF MarkerOf
  <2> QED
      BY <1>8, <2>4
<1>10. Sorted(m)
  <2>1. DOMAIN m = 1 .. k
      BY <1>5
  <2> QED
      BY <1>9, <2>1 DEF Sorted
<1>11. \A i \in 1 .. k : m[i].frame < n
    BY <1>4, <1>6, <1>8
<1>12. 1 \in 1 .. k + 1
    BY <1>3
<1> QED
    BY <1>7, <1>8, <1>10, <1>11, <1>12 DEF MapOK, m

LEMMA LoadedMapOK ==
    ASSUME NEW n \in 0 .. Capacity + 1, Load(n)
    PROVE  MapOK(slices', det', buf')
<1> DEFINE frames == Min({n, Capacity})
<1>1. frames \in Nat
    BY CapacityAssumption DEF Min
<1>2. /\ buf' = IF frames = 0 THEN Empty ELSE [Empty EXCEPT !.size = frames, !.cut = TRUE]
      /\ \E at \in Onsets(frames) :
            /\ slices' = ScannedMarkers(at)
            /\ det' \in [last : {None}, sweep : {1}, armed : BOOLEAN, refract : 0 .. Refract]
    BY DEF Load
<1> HIDE DEF frames
<1>3. buf'.size = frames
  <2>1. CASE frames = 0
      BY <1>2, <2>1 DEF Empty
  <2>2. CASE frames # 0
      BY <1>1, <1>2, <2>2, LockedAt
  <2> QED
      BY <2>1, <2>2
<1>4. det' \in Detectors /\ det'.sweep = 1 /\ det'.last = None
    BY <1>2, DetectorAssumption DEF Detectors
<1>5. PICK at \in Onsets(frames) : slices' = ScannedMarkers(at)
    BY <1>2
<1>6. MapOK(ScannedMarkers(at), det', buf')
    BY <1>1, <1>3, <1>4, ScannedOK
<1> QED
    BY <1>5, <1>6

-----------------------------------------------------------------------------

THEOREM MapInvariance == Spec => [](BufOK(buf) /\ MapOK(slices, det, buf))
<1> DEFINE Inv == rec \in BOOLEAN /\ MapOK(slices, det, buf)
<1>1. Init => Inv
    BY NoMarkersOK DEF Init
<1>2. Inv /\ BufOK(buf) /\ [Next]_vars => Inv'
  <2> SUFFICES ASSUME Inv, BufOK(buf), [Next]_vars
               PROVE  rec' \in BOOLEAN /\ MapOK(slices', det', buf')
      OBVIOUS
  <2>0. rec' \in BOOLEAN
      BY DEF Next, vars, Frame, TurnRec, LawTick, Event, Clear, Load
  <2>1. ASSUME NEW onset \in BOOLEAN, NEW rearm \in BOOLEAN, Frame(onset, rearm)
        PROVE  MapOK(slices', det', buf')
      BY <2>1, FrameMapOK
  <2>2. CASE TurnRec
      BY <2>2 DEF TurnRec
  <2>3. CASE LawTick
    <3>1. slices' = slices /\ det' = det
          /\ (buf' = buf \/ buf' = set_recording(buf, rec))
        BY <2>3 DEF LawTick
    <3>2. buf'.size = buf.size /\ (buf'.cut <=> buf.cut)
        BY <3>1, RecordingKeeps
    <3> QED
        BY <2>0, <3>1, <3>2, SameLoopOK
  <2>4. ASSUME NEW on \in BOOLEAN, Event(on) PROVE MapOK(slices', det', buf')
    <3>1. slices' = slices /\ det' = det /\ buf' = set_recording(buf, on)
        BY <2>4 DEF Event
    <3>2. buf'.size = buf.size /\ (buf'.cut <=> buf.cut)
        BY <3>1, RecordingKeeps
    <3> QED
        BY <3>1, <3>2, SameLoopOK
  <2>5. CASE Clear
      BY <2>5, NoMarkersOK DEF Clear
  <2>6. ASSUME NEW n \in 0 .. Capacity + 1, Load(n) PROVE MapOK(slices', det', buf')
      BY <2>6, LoadedMapOK
  <2>7. CASE UNCHANGED vars
      BY <2>7 DEF vars
  <2> QED
      BY <2>0, <2>1, <2>2, <2>3, <2>4, <2>5, <2>6, <2>7 DEF Next
<1> QED
    BY <1>1, <1>2, BufferInvariance, PTL DEF Spec

\* The markers are sorted and lie in the content, whatever is recorded over them,
\* cleared or loaded (SliceMap::on_write, insert, scan: "ALWAYS sorted").
THEOREM MarkersAreSorted == Spec => []MarkersSorted
<1>1. MapOK(slices, det, buf) => MarkersSorted
  <2> SUFFICES ASSUME MapOK(slices, det, buf) PROVE MarkersSorted
      OBVIOUS
  <2>1. DOMAIN slices = 1 .. Len(slices)
      BY MarkersIs DEF MapOK
  <2> QED
      BY <2>1 DEF MapOK, Sorted, MarkersSorted
<1> QED
    BY <1>1, MapInvariance, PTL

\* A marker goes when its frame is written again, from wherever the head came
\* there: the sweep has dropped all it passed and is re-aimed when the head jumps
\* (SliceMap::on_write).
THEOREM NoMarkerIsStale == Spec => []NoStaleMarker
<1>1. MapOK(slices, det, buf) => NoStaleMarker
  <2> SUFFICES ASSUME MapOK(slices, det, buf), buf.size > 1
               PROVE  \A i \in DOMAIN slices : ~slices[i].stale
      BY DEF NoStaleMarker
  <2>1. DOMAIN slices = 1 .. Len(slices)
      BY MarkersIs DEF MapOK
  <2> QED
      BY <2>1 DEF MapOK
<1> QED
    BY <1>1, MapInvariance, PTL

-----------------------------------------------------------------------------
(* The stop: what StopIsFinal rests on.                                     *)

Stopping(b) == b.state \in {"idle", "fadeout"}

\* A render scenario turns REC and the buffer in one event.
EventInv == host = "render" /\ ~rec => Stopping(buf)

\* While REC is off no step leads back: an idle buffer stays idle, and a fade-out
\* goes on or ends.
NoStepBack ==
    /\ buf.state = "idle" => buf'.state = "idle"
    /\ buf.state = "fadeout" =>
          buf'.state = "idle" \/ (buf'.state = "fadeout" /\ buf'.fade <= buf.fade)

\* Each frame is one less of the fade-out.
FrameDescends == buf.state = "fadeout" => buf'.state = "idle" \/ buf'.fade < buf.fade

LEMMA AdvancedKeeps ==
    ASSUME NEW b, IsBuffer(b)
    PROVE  Advanced(b).state = b.state /\ Advanced(b).fade = b.fade
<1>1. b.head \in Nat /\ b.size \in Nat /\ Capacity \in Nat
    BY BufferFields
<1>2. CASE b.cut
    BY <1>2 DEF Advanced, IsBuffer
<1>3. CASE ~b.cut /\ b.head + 1 >= Capacity
  <2> DEFINE r == [b EXCEPT !.size = Capacity]
  <2>1. Advanced(b) = cut(r)
      BY <1>1, <1>3 DEF Advanced, Filled
  <2>2. IsBuffer(r) /\ r.state = b.state /\ r.fade = b.fade
      BY <1>1 DEF IsBuffer
  <2> HIDE DEF r
  <2> QED
      BY <2>1, <2>2, CutIs
<1>4. CASE ~b.cut /\ b.head + 1 < Capacity
    BY <1>1, <1>4 DEF Advanced, IsBuffer
<1> QED
    BY <1>1, <1>2, <1>3, <1>4

\* A frame of a fade-out is one frame of it less, or its end.
LEMMA WriteDescends ==
    ASSUME NEW b, BufOK(b)
    PROVE  /\ b.state = "idle" => write(b).state = "idle"
           /\ b.state = "fadeout" =>
                 \/ write(b).state = "idle"
                 \/ write(b).state = "fadeout" /\ write(b).fade < b.fade
<1>0. IsBuffer(b) /\ b.fade \in Nat
    BY BufferFields DEF BufOK
<1>1. CASE b.state = "idle"
    BY <1>1 DEF write
<1>2. CASE b.state = "fadeout" /\ b.fade = 0
    BY <1>0, <1>2 DEF write, StoppedUnwritten, IsBuffer
<1>3. CASE b.state = "fadeout" /\ b.fade = 1
  <2> DEFINE c == cut(b)
  <2>1. write(b) = [c EXCEPT !.state = "idle", !.fade = 0]
      BY <1>3 DEF write
  <2>2. IsBuffer(c)
      BY <1>0, CutIs
  <2> HIDE DEF c
  <2> QED
      BY <1>3, <2>1, <2>2 DEF IsBuffer
<1>4. CASE b.state = "fadeout" /\ b.fade > 1
  <2> DEFINE f == [b EXCEPT !.fade = @ - 1]
  <2>1. write(b) = Advanced(f)
      BY <1>0, <1>4 DEF write
  <2>2. IsBuffer(f) /\ f.state = "fadeout" /\ f.fade = b.fade - 1
      BY <1>0, <1>4 DEF IsBuffer
  <2> HIDE DEF f
  <2> QED
      BY <1>0, <1>4, <2>1, <2>2, AdvancedKeeps
<1> QED
    BY <1>0, <1>1, <1>2, <1>3, <1>4

\* REC off stops a recording, and nothing else changes the state for it.
LEMMA RecordingStops ==
    ASSUME NEW b, BufOK(b)
    PROVE  /\ Stopping(set_recording(b, FALSE))
           /\ Stopping(b) => set_recording(b, FALSE) = b
<1>0. IsBuffer(b) /\ b.state \in States
    BY BufferFields DEF BufOK
<1>1. CASE Stopping(b)
    BY <1>1 DEF set_recording, Stopping
<1>2. CASE b.state \in {"fadein", "sustain"}
  <2> DEFINE h == IF b.cut THEN b.head ELSE 0
  <2>1. set_recording(b, FALSE) = [b EXCEPT !.state = "fadeout", !.resume = b.head, !.head = h]
      BY <1>2 DEF set_recording
  <2> HIDE DEF h
  <2> QED
      BY <1>0, <1>2, <2>1 DEF IsBuffer, Stopping
<1> QED
    BY <1>0, <1>1, <1>2 DEF States, Stopping

\* Clear and Load leave an idle buffer.
LEMMA LoadIsIdle ==
    ASSUME NEW n \in 0 .. Capacity + 1, Load(n)
    PROVE  buf'.state = "idle"
<1> DEFINE frames == Min({n, Capacity})
<1>1. frames \in Nat
    BY CapacityAssumption DEF Min
<1>2. buf' = IF frames = 0 THEN Empty ELSE [Empty EXCEPT !.size = frames, !.cut = TRUE]
    BY DEF Load
<1> HIDE DEF frames
<1>3. CASE frames = 0
    BY <1>2, <1>3 DEF Empty
<1>4. CASE frames # 0
    BY <1>1, <1>2, <1>4, LockedAt
<1> QED
    BY <1>3, <1>4

LEMMA FrameStops ==
    ASSUME BufOK(buf), Frames
    PROVE  NoStepBack /\ FrameDescends /\ UNCHANGED <<host, rec>>
<1>1. buf' = write(buf) /\ UNCHANGED <<host, rec>>
    BY DEF Frames, Frame
<1>2. BufOK(buf')
    BY <1>1, WriteOK
<1>3. buf.fade \in Nat /\ buf'.fade \in Nat
    BY <1>2, BufferFields DEF BufOK
<1> QED
    BY <1>1, <1>3, WriteDescends DEF NoStepBack, FrameDescends

LEMMA TickStops ==
    ASSUME BufOK(buf), LawTick, rec = FALSE
    PROVE  Stopping(buf') /\ NoStepBack
<1>0. IsBuffer(buf) /\ buf.state \in States /\ buf.fade \in Nat
    BY BufferFields DEF BufOK
<1>1. CASE buf.state = "idle"
  <2>1. buf' = buf
      BY <1>1 DEF LawTick
  <2> QED
      BY <1>1, <2>1 DEF Stopping, NoStepBack
<1>2. CASE buf.state # "idle"
  <2>1. buf' = set_recording(buf, FALSE)
      BY <1>2 DEF LawTick
  <2>2. Stopping(buf')
      BY <2>1, RecordingStops
  <2>3. ASSUME buf.state = "fadeout" PROVE buf' = buf
      BY <2>1, <2>3, RecordingStops DEF Stopping
  <2>4. NoStepBack
      BY <1>0, <1>2, <2>3 DEF NoStepBack
  <2> QED
      BY <2>2, <2>4
<1> QED
    BY <1>1, <1>2

LEMMA StopStep ==
    ASSUME rec \in BOOLEAN, BufOK(buf), EventInv, [Next]_vars
    PROVE  /\ EventInv'
           /\ ~rec' => NoStepBack
<1>0. IsBuffer(buf) /\ buf.state \in States /\ buf.fade \in Nat
    BY BufferFields DEF BufOK
<1>1. CASE Frames
    BY <1>1, FrameStops DEF EventInv, NoStepBack, Stopping
<1>2. CASE TurnRec
    BY <1>0, <1>2 DEF TurnRec, EventInv, NoStepBack
<1>3. CASE LawTick
  <2>1. UNCHANGED <<host, rec>> /\ host = "law"
      BY <1>3 DEF LawTick
  <2> QED
      BY <1>3, <2>1, TickStops DEF EventInv
<1>4. ASSUME NEW on \in BOOLEAN, Event(on) PROVE EventInv' /\ (~rec' => NoStepBack)
  <2>1. rec' = on /\ buf' = set_recording(buf, on)
      BY <1>4 DEF Event
  <2>2. CASE on
      BY <2>1, <2>2 DEF EventInv
  <2>3. CASE ~on
    <3>1. buf' = set_recording(buf, FALSE)
        BY <2>1, <2>3
    <3>2. Stopping(buf')
        BY <3>1, RecordingStops
    <3>3. ASSUME Stopping(buf) PROVE buf' = buf
        BY <3>1, <3>3, RecordingStops
    <3>4. NoStepBack
        BY <1>0, <3>3 DEF NoStepBack, Stopping
    <3> QED
        BY <3>2, <3>4 DEF EventInv
  <2> QED
      BY <2>2, <2>3
<1>5. ASSUME Clear \/ \E n \in 0 .. Capacity + 1 : Load(n)
      PROVE  EventInv' /\ NoStepBack
  <2>1. buf'.state = "idle"
      BY <1>5, LoadIsIdle DEF Clear, Empty
  <2> QED
      BY <2>1 DEF EventInv, NoStepBack, Stopping
<1>6. CASE UNCHANGED vars
    BY <1>0, <1>6 DEF vars, EventInv, NoStepBack, Stopping
<1> QED
    BY <1>1, <1>2, <1>3, <1>4, <1>5, <1>6 DEF Next, Frames

\* While REC is off nothing records again, the law's next tick stops what still
\* records (a render event has stopped it already), and each frame of the fade-out
\* is one less of it: the bound behind StopIsFinal, of which fairness is the rest
\* (control_law.h's REC; SampleBuffer::set_recording, write).
THEOREM StopDescends ==
    Spec => /\ [](host = "render" /\ ~rec => Stopping(buf))
            /\ [][/\ ~rec' => NoStepBack
                  /\ Frames => FrameDescends
                  /\ LawTick /\ ~rec => Stopping(buf')]_vars
<1> DEFINE Inv == rec \in BOOLEAN /\ EventInv
<1>1. Init => Inv
  <2> SUFFICES ASSUME Init PROVE rec \in BOOLEAN /\ EventInv
      OBVIOUS
  <2>1. buf.state = "idle"
      BY DEF Init, Empty
  <2>2. rec \in BOOLEAN
      BY DEF Init
  <2> QED
      BY <2>1, <2>2 DEF EventInv, Stopping
<1>2. BufOK(buf) /\ Inv /\ [Next]_vars => Inv'
  <2> SUFFICES ASSUME BufOK(buf), Inv, [Next]_vars PROVE rec' \in BOOLEAN /\ EventInv'
      OBVIOUS
  <2>1. rec' \in BOOLEAN
      BY DEF Next, vars, Frame, TurnRec, LawTick, Event, Clear, Load
  <2> QED
      BY <2>1, StopStep
<1>3. BufOK(buf) /\ Inv /\ [Next]_vars =>
          [/\ ~rec' => NoStepBack
           /\ Frames => FrameDescends
           /\ LawTick /\ ~rec => Stopping(buf')]_vars
  <2> SUFFICES ASSUME BufOK(buf), Inv, [Next]_vars
               PROVE  /\ ~rec' => NoStepBack
                      /\ Frames => FrameDescends
                      /\ LawTick /\ ~rec => Stopping(buf')
      OBVIOUS
  <2>1. LawTick /\ ~rec => Stopping(buf')
      BY TickStops
  <2> QED
      BY <2>1, StopStep, FrameStops
<1>4. Inv => (host = "render" /\ ~rec => Stopping(buf))
    BY DEF EventInv
<1> QED
    BY <1>1, <1>2, <1>3, <1>4, BufferInvariance, PTL DEF Spec
=============================================================================
