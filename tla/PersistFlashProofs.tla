-------------------------- MODULE PersistFlashProofs --------------------------
(***************************************************************************)
(* Proofs about the two flash sectors, for every number of slots, every set *)
(* of layouts and panel vectors, and both the product and the stress image. *)
(***************************************************************************)
EXTENDS PersistFlash, TLAPS, WellFoundedInduction

\* DistinctSeqs for one flash and one layout.
DistinctIn(f, l) ==
    \A p, q \in Valid(f, l) : f[p].seq = f[q].seq => p = q

\* Every record of g is in f, in the same slot: what an erase, a torn program
\* or a power cut leaves of f.
Remains(g, f) == \A p \in Pos : g[p] \in Record => g[p] = f[p]

-----------------------------------------------------------------------------
(* Numbers.                                                                 *)

\* A nonempty set of naturals has a least element.
LEMMA LeastExists ==
    ASSUME NEW T \in SUBSET Nat, T # {}
    PROVE  \E x \in T : \A y \in T : x <= y
<1> DEFINE R == {p \in Nat \X Nat : p[1] < p[2]}
<1>1. IsWellFoundedOn(R, Nat)
    BY NatLessThanWellFounded, Zenon DEF OpToRel
<1> HIDE DEF R
<1>2. PICK x \in T : \A y \in T : ~(<<y, x>> \in R)
    BY <1>1, WFMin
<1>3. \A y \in T : ~(y < x)
    BY <1>2 DEF R
<1> QED
    BY <1>3

\* A nonempty bounded set of naturals has a greatest element.
LEMMA GreatestExists ==
    ASSUME NEW T \in SUBSET Nat, T # {}, NEW b \in Nat, \A x \in T : x <= b
    PROVE  \E x \in T : \A y \in T : y <= x
<1> DEFINE D == {b - x : x \in T}
<1>1. D \in SUBSET Nat /\ D # {}
  <2>1. ASSUME NEW x \in T
        PROVE  b - x \in Nat
    <3>1. x \in Nat /\ x <= b
        OBVIOUS
    <3> QED
        BY <3>1
  <2> QED
      BY <2>1
<1>2. PICK d \in D : \A e \in D : d <= e
  <2> HIDE DEF D
  <2> QED
      BY <1>1, LeastExists
<1>3. PICK x \in T : d = b - x
    BY <1>2
<1>4. ASSUME NEW y \in T
      PROVE  y <= x
  <2>1. b - y \in D
      OBVIOUS
  <2>2. b - x <= b - y
      BY <2>1, <1>2, <1>3
  <2>3. x \in Nat /\ y \in Nat
      OBVIOUS
  <2> QED
      BY <2>2, <2>3
<1> QED
    BY <1>4

-----------------------------------------------------------------------------
(* The scan.                                                                *)

LEMMA RecordFields ==
    ASSUME NEW r \in Record
    PROVE  r.seq \in Nat /\ r.seq >= 1 /\ r.seq <= MaxSeq
           /\ r.layout \in Layouts /\ r.knobs \in Knobs
BY MaxSeqAssumption DEF Record

\* With distinct sequence numbers the scan has exactly one answer: the valid
\* slot whose record is newer than all the others.
LEMMA ScanNewest ==
    ASSUME NEW f, NEW l, DistinctIn(f, l), Valid(f, l) # {}
    PROVE  /\ LatestPos(f, l) \in Valid(f, l)
           /\ \A q \in Valid(f, l) \ {LatestPos(f, l)} :
                 f[q].seq < f[LatestPos(f, l)].seq
<1> DEFINE T == {f[p].seq : p \in Valid(f, l)}
<1>1. \A p \in Valid(f, l) : p \in Pos /\ f[p] \in Record
    BY DEF Valid
<1>2. \A p \in Valid(f, l) : f[p].seq \in Nat /\ f[p].seq <= MaxSeq
    BY <1>1, RecordFields
<1>3. PICK t \in T : \A u \in T : u <= t
  <2>1. T \in SUBSET Nat /\ T # {} /\ \A x \in T : x <= MaxSeq
      BY <1>2
  <2> HIDE DEF T
  <2> QED
      BY <2>1, GreatestExists, MaxSeqAssumption
<1>4. PICK p \in Valid(f, l) : t = f[p].seq
    BY <1>3
<1>5. \A q \in Valid(f, l) : f[q].seq <= f[p].seq
    BY <1>3, <1>4
<1>6. IsLatest(f, l, p)
  <2>1. ASSUME NEW q \in Valid(f, l)
        PROVE  f[q].seq < f[p].seq \/ (f[q].seq = f[p].seq /\ ~ScannedBefore(q, p))
    <3>1. CASE q = p
      <4>1. p \in Sectors \X Slots
          BY <1>1 DEF Pos
      <4>2. p[1] \in Int /\ p[2] \in Int
          BY <4>1 DEF Sectors, Slots
      <4> QED
          BY <3>1, <4>2 DEF ScannedBefore
    <3>2. CASE q # p
      <4>1. f[q].seq # f[p].seq
          BY <3>2 DEF DistinctIn
      <4> QED
          BY <4>1, <1>2, <1>5
    <3> QED
        BY <3>1, <3>2
  <2> QED
      BY <2>1 DEF IsLatest
<1>7. IsLatest(f, l, LatestPos(f, l))
    BY <1>1, <1>6 DEF LatestPos
<1>8. LatestPos(f, l) \in Valid(f, l)
    BY <1>7 DEF IsLatest
<1>9. ASSUME NEW q \in Valid(f, l), q # LatestPos(f, l)
      PROVE  f[q].seq < f[LatestPos(f, l)].seq
  <2>1. f[q].seq # f[LatestPos(f, l)].seq
      BY <1>8, <1>9 DEF DistinctIn
  <2> QED
      BY <2>1, <1>7 DEF IsLatest
<1> QED
    BY <1>8, <1>9

\* A valid slot newer than all the others is what the scan finds.
LEMMA ScanIs ==
    ASSUME NEW f, NEW l, DistinctIn(f, l), NEW p \in Valid(f, l),
           \A q \in Valid(f, l) \ {p} : f[q].seq < f[p].seq
    PROVE  /\ LatestPos(f, l) = p
           /\ Found(f, l) = f[p]
           /\ LatestSeq(f, l) = f[p].seq
<1> DEFINE m == LatestPos(f, l)
<1>1. m \in Valid(f, l) /\ \A q \in Valid(f, l) \ {m} : f[q].seq < f[m].seq
    BY ScanNewest
<1>2. f[m].seq \in Nat /\ f[p].seq \in Nat
    BY <1>1, RecordFields DEF Valid
<1> HIDE DEF m
<1>3. m = p
    BY <1>1, <1>2
<1> QED
    BY <1>3 DEF m, Found, LatestSeq

\* Found and LatestSeq agree with the slot the scan picks.
LEMMA ScanFacts ==
    ASSUME NEW f, NEW l, DistinctIn(f, l)
    PROVE  /\ Found(f, l) \in Record \cup {NoRecord}
           /\ LatestSeq(f, l) \in Nat /\ LatestSeq(f, l) <= MaxSeq
           /\ \A p \in Valid(f, l) : f[p].seq <= LatestSeq(f, l)
           /\ Valid(f, l) = {} => Found(f, l) = NoRecord /\ LatestSeq(f, l) = 0
           /\ Valid(f, l) # {} => /\ Found(f, l) \in Record
                                  /\ Found(f, l).seq = LatestSeq(f, l)
                                  /\ Found(f, l).layout = l
<1>1. CASE Valid(f, l) = {}
    BY <1>1, MaxSeqAssumption DEF Found, LatestSeq
<1>2. CASE Valid(f, l) # {}
  <2> DEFINE m == LatestPos(f, l)
  <2>1. m \in Valid(f, l) /\ \A q \in Valid(f, l) \ {m} : f[q].seq < f[m].seq
      BY <1>2, ScanNewest
  <2>2. f[m] \in Record /\ f[m].layout = l
      BY <2>1 DEF Valid
  <2>3. Found(f, l) = f[m] /\ LatestSeq(f, l) = f[m].seq
      BY <1>2 DEF Found, LatestSeq
  <2>4. f[m].seq \in Nat /\ f[m].seq <= MaxSeq
      BY <2>2, RecordFields
  <2>5. \A p \in Valid(f, l) : f[p].seq \in Nat
      BY RecordFields DEF Valid
  <2> HIDE DEF m
  <2>6. \A p \in Valid(f, l) : f[p].seq <= f[m].seq
      BY <2>1, <2>4, <2>5
  <2> QED
      BY <1>2, <2>2, <2>3, <2>4, <2>6
<1> QED
    BY <1>1, <1>2

-----------------------------------------------------------------------------
(* What erases and programs do to the scan.                                 *)

\* The records that remain keep their order: if the newest one remains, the
\* scan finds it as before.
LEMMA RemainsKeepsNewest ==
    ASSUME NEW f, NEW g, NEW l, DistinctIn(f, l), Remains(g, f),
           Valid(f, l) # {} => g[LatestPos(f, l)] = f[LatestPos(f, l)]
    PROVE  /\ DistinctIn(g, l)
           /\ Found(g, l) = Found(f, l)
           /\ LatestSeq(g, l) = LatestSeq(f, l)
<1>1. \A p \in Valid(g, l) : p \in Valid(f, l) /\ g[p] = f[p]
    BY DEF Valid, Remains
<1>2. DistinctIn(g, l)
    BY <1>1 DEF DistinctIn
<1>3. CASE Valid(f, l) = {}
  <2>1. Valid(g, l) = {}
      BY <1>1, <1>3
  <2> QED
      BY <1>2, <1>3, <2>1 DEF Found, LatestSeq
<1>4. CASE Valid(f, l) # {}
  <2> DEFINE m == LatestPos(f, l)
  <2>1. m \in Valid(f, l) /\ \A q \in Valid(f, l) \ {m} : f[q].seq < f[m].seq
      BY <1>4, ScanNewest
  <2>2. g[m] = f[m]
      BY <1>4
  <2>3. m \in Valid(g, l)
      BY <2>1, <2>2 DEF Valid
  <2>4. \A q \in Valid(g, l) \ {m} : g[q].seq < g[m].seq
      BY <1>1, <2>1, <2>2
  <2>5. Found(g, l) = g[m] /\ LatestSeq(g, l) = g[m].seq
      BY <1>2, <2>3, <2>4, ScanIs
  <2> QED
      BY <1>2, <1>4, <2>2, <2>5 DEF Found, LatestSeq
<1> QED
    BY <1>3, <1>4

\* Records that remain stay distinct, whatever else is lost.
LEMMA RemainsDistinct ==
    ASSUME NEW f, NEW g, NEW l, DistinctIn(f, l), Remains(g, f)
    PROVE  DistinctIn(g, l)
BY DEF DistinctIn, Valid, Remains

\* A record newer than all the others, put in a slot that held none, is what
\* the scan finds.
LEMMA NewRecordFound ==
    ASSUME NEW f \in [Pos -> Content], NEW t \in Pos, NEW r \in Record,
           f[t] = Blank, DistinctIn(f, r.layout),
           LatestSeq(f, r.layout) < r.seq
    PROVE  LET g == [f EXCEPT ![t] = r]
           IN  DistinctIn(g, r.layout) /\ Found(g, r.layout) = r
<1> DEFINE g == [f EXCEPT ![t] = r]
           l == r.layout
<1>1. g[t] = r /\ \A p \in Pos \ {t} : g[p] = f[p]
    OBVIOUS
<1>2. t \notin Valid(f, l)
    BY ContentAssumption DEF Valid
<1>3. t \in Valid(g, l) /\ \A p \in Valid(g, l) \ {t} : p \in Valid(f, l) /\ g[p] = f[p]
    BY <1>1 DEF Valid
<1>4. \A p \in Valid(f, l) : f[p].seq \in Nat /\ f[p].seq <= LatestSeq(f, l)
    BY ScanFacts, RecordFields DEF Valid
<1>a. l = r.layout /\ g[t] = r /\ r.seq \in Nat /\ LatestSeq(f, l) \in Nat
         /\ LatestSeq(f, l) < r.seq /\ DistinctIn(f, l)
    BY <1>1, ScanFacts, RecordFields
<1> HIDE DEF g, l
<1>5. \A p \in Valid(g, l) \ {t} : g[p].seq < g[t].seq
    BY <1>a, <1>3, <1>4
<1>6. DistinctIn(g, l)
  <2>1. \A p \in Valid(g, l) : g[p].seq \in Nat
      BY RecordFields DEF Valid
  <2>2. ASSUME NEW p \in Valid(g, l), NEW q \in Valid(g, l), g[p].seq = g[q].seq
        PROVE  p = q
    <3>1. CASE p = t
        BY <1>5, <2>1, <2>2, <3>1
    <3>2. CASE q = t
        BY <1>5, <2>1, <2>2, <3>2
    <3>3. CASE p # t /\ q # t
        BY <1>3, <1>a, <2>2, <3>3 DEF DistinctIn
    <3> QED
        BY <3>1, <3>2, <3>3
  <2> QED
      BY <2>2 DEF DistinctIn
<1>7. Found(g, l) = r
    BY <1>a, <1>3, <1>5, <1>6, ScanIs
<1> QED
    BY <1>6, <1>7 DEF g, l

-----------------------------------------------------------------------------
(* The slot of the next save.                                               *)

\* Without an erase the slot is blank; with one its sector does not hold the
\* newest record.
LEMMA NextSlotFacts ==
    ASSUME NEW f \in [Pos -> Content], NEW l, DistinctIn(f, l)
    PROVE  LET n == NextSlot(f, l)
           IN  /\ n.pos \in Pos
               /\ n.erase \in BOOLEAN
               /\ ~n.erase => f[n.pos] = Blank
               /\ n.erase /\ Valid(f, l) # {} => LatestPos(f, l)[1] # n.pos[1]
<1> DEFINE p == LatestPos(f, l)
           room == BlankAfter(f, p)
           n == NextSlot(f, l)
<1>1. 0 \in Slots
    BY SlotsAssumption DEF Slots
<1>2. CASE Valid(f, l) = {}
  <2>1. n = [pos |-> <<0, 0>>, erase |-> Stress \/ f[<<0, 0>>] # Blank]
      BY <1>2 DEF NextSlot
  <2> DEFINE z == <<0, 0>>
  <2>2. z \in Pos
      BY <1>1 DEF Pos, Sectors
  <2>3. n.pos = z /\ n.erase = (Stress \/ f[z] # Blank)
      BY <2>1
  <2> HIDE DEF n, z
  <2>4. n.pos \in Pos /\ n.erase \in BOOLEAN /\ (~n.erase => f[n.pos] = Blank)
      BY <2>2, <2>3, StressAssumption
  <2> QED
      BY <1>2, <2>4 DEF n
<1>3. CASE Valid(f, l) # {}
  <2>1. p \in Pos
      BY <1>3, ScanNewest DEF Valid
  <2>2. p[1] \in Sectors /\ p[2] \in Slots
      BY <2>1 DEF Pos
  <2>3. CASE ~Stress /\ room # {}
    <3> DEFINE i == CHOOSE i \in room : \A j \in room : i <= j
    <3>1. \E k \in room : \A j \in room : k <= j
      <4>1. room \in SUBSET Nat
          BY SlotsAssumption DEF BlankAfter, Slots
      <4> HIDE DEF room
      <4> QED
          BY <2>3, <4>1, LeastExists
    <3>2. i \in room
        BY <3>1
    <3>3. i \in Slots /\ f[<<p[1], i>>] = Blank
        BY <3>2 DEF BlankAfter
    <3>4. n = [pos |-> <<p[1], i>>, erase |-> FALSE]
        BY <1>3, <2>3 DEF NextSlot
    <3> HIDE DEF n, i, p
    <3>5. n.pos = <<p[1], i>> /\ n.erase = FALSE
        BY <3>4
    <3>6. <<p[1], i>> \in Pos
        BY <2>2, <3>3 DEF Pos
    <3>7. n.pos \in Pos /\ ~n.erase /\ n.erase \in BOOLEAN /\ f[n.pos] = Blank
        BY <3>3, <3>5, <3>6
    <3> QED
        BY <3>7 DEF n
  <2>4. CASE ~(~Stress /\ room # {})
    <3>1. n = [pos |-> <<1 - p[1], 0>>, erase |-> Stress \/ f[<<1 - p[1], 0>>] # Blank]
        BY <1>3, <2>4 DEF NextSlot
    <3>2. 1 - p[1] \in Sectors /\ 1 - p[1] # p[1]
        BY <2>2 DEF Sectors
    <3> DEFINE b == <<1 - p[1], 0>>
    <3>3. b \in Pos /\ b[1] # p[1]
        BY <1>1, <3>2 DEF Pos
    <3>4. n.pos = b /\ n.erase = (Stress \/ f[b] # Blank)
        BY <3>1
    <3> HIDE DEF n, b, p
    <3>5. /\ n.pos \in Pos /\ n.erase \in BOOLEAN
          /\ ~n.erase => f[n.pos] = Blank
          /\ p[1] # n.pos[1]
        BY <3>3, <3>4, StressAssumption
    <3> QED
        BY <3>5 DEF n, p
  <2> QED
      BY <2>3, <2>4
<1> QED
    BY <1>2, <1>3

-----------------------------------------------------------------------------
(* The steps of a save.                                                     *)

\* An erase, whole or in part, of a sector that does not hold the newest
\* record changes nothing the scan finds.
LEMMA EraseStep ==
    ASSUME NEW f \in [Pos -> Content], NEW l0, NEW s \in Sectors,
           NEW g \in PartlyErased(f, s) \cup {Erased(f, s)},
           \A l \in Layouts : DistinctIn(f, l), l0 \in Layouts,
           Valid(f, l0) # {} => LatestPos(f, l0)[1] # s
    PROVE  /\ g \in [Pos -> Content]
           /\ \A l \in Layouts : DistinctIn(g, l)
           /\ Found(g, l0) = Found(f, l0)
           /\ LatestSeq(g, l0) = LatestSeq(f, l0)
<1>1. /\ g \in [Pos -> Content]
      /\ \A p \in Pos : g[p] \in {f[p], Blank, Torn} /\ (p[1] # s => g[p] = f[p])
  <2>1. CASE g = Erased(f, s)
      BY <2>1 DEF Erased, Content
  <2>2. CASE g \in PartlyErased(f, s)
    <3>1. PICK h \in [Slots -> {"kept", "blank", "torn"}] :
             g = [p \in Pos |-> IF p[1] # s \/ h[p[2]] = "kept" THEN f[p]
                                ELSE IF h[p[2]] = "blank" THEN Blank ELSE Torn]
        BY <2>2 DEF PartlyErased
    <3> QED
        BY <3>1 DEF Content
  <2> QED
      BY <2>1, <2>2
<1>2. Remains(g, f)
    BY <1>1, ContentAssumption DEF Remains
<1>3. \A l \in Layouts : DistinctIn(g, l)
    BY <1>2, RemainsDistinct
<1>4. Valid(f, l0) # {} => g[LatestPos(f, l0)] = f[LatestPos(f, l0)]
    BY <1>1, ScanNewest DEF Valid
<1> QED
    BY <1>1, <1>2, <1>3, <1>4, RemainsKeepsNewest

\* A program of a blank slot, whole or in part: the scan finds what it found
\* before or the new record.
LEMMA ProgramStep ==
    ASSUME NEW f \in [Pos -> Content], NEW t \in Pos, NEW r \in Record,
           NEW g \in Programmed(f, t, r), f[t] = Blank,
           \A l \in Layouts : DistinctIn(f, l),
           LatestSeq(f, r.layout) < r.seq
    PROVE  /\ g \in [Pos -> Content]
           /\ \A l \in Layouts : DistinctIn(g, l)
           /\ \/ Found(g, r.layout) = r
              \/ /\ Found(g, r.layout) = Found(f, r.layout)
                 /\ LatestSeq(g, r.layout) = LatestSeq(f, r.layout)
<1>1. PICK c \in {f[t], Torn, r} : g = [f EXCEPT ![t] = c]
    BY DEF Programmed
<1>2. r.layout \in Layouts
    BY RecordFields
<1>3. CASE c = r
  <2>1. DistinctIn(g, r.layout) /\ Found(g, r.layout) = r
      BY <1>1, <1>2, <1>3, NewRecordFound
  <2>2. ASSUME NEW l \in Layouts, l # r.layout
        PROVE  DistinctIn(g, l)
    <3>1. \A p \in Valid(g, l) : p \in Valid(f, l) /\ g[p] = f[p]
        BY <1>1, <1>3, <2>2 DEF Valid
    <3> QED
        BY <3>1 DEF DistinctIn
  <2>3. g \in [Pos -> Content]
      BY <1>1, <1>3 DEF Content
  <2> QED
      BY <2>1, <2>2, <2>3
<1>4. CASE c # r
  <2>1. g \in [Pos -> Content] /\ Remains(g, f)
      BY <1>1, <1>4, ContentAssumption DEF Content, Remains
  <2>2. t \notin Valid(f, r.layout)
      BY ContentAssumption DEF Valid
  <2>3. Valid(f, r.layout) # {} =>
           g[LatestPos(f, r.layout)] = f[LatestPos(f, r.layout)]
      BY <1>1, <1>2, <2>2, ScanNewest DEF Valid
  <2> QED
      BY <1>2, <2>1, <2>3, RemainsKeepsNewest, RemainsDistinct
<1> QED
    BY <1>3, <1>4

-----------------------------------------------------------------------------
(* The invariant.                                                           *)

LEMMA BlankFlash ==
    \A l : Valid([p \in Pos |-> Blank], l) = {}
BY ContentAssumption DEF Valid

LEMMA InitInv == Init => IInv
<1> SUFFICES ASSUME Init
             PROVE  IInv
    OBVIOUS
<1>1. <<0, 0>> \in Pos
    BY SlotsAssumption DEF Pos, Sectors, Slots
<1>2. TypeOK
    BY <1>1 DEF Init, TypeOK, Content
<1>3. DistinctSeqs
    BY BlankFlash DEF Init, DistinctSeqs
<1> QED
    BY <1>2, <1>3 DEF Init, IInv, AckedSurvives, SaveInv, Saving

\* What the scan finds survives: it stays, or the record being saved takes its
\* place.  AckedSurvives follows from this.
LEMMA AckedKept ==
    ASSUME TypeOK, DistinctSeqs, AckedSurvives,
           TypeOK', DistinctSeqs', fw' = fw, acked' = acked,
           \/ /\ Found(flash', fw) = Found(flash, fw)
              /\ LatestSeq(flash', fw) = LatestSeq(flash, fw)
           \/ /\ rec \in Record
              /\ Found(flash', fw) = rec
              /\ LatestSeq(flash, fw) < rec.seq
    PROVE  AckedSurvives'
<1> SUFFICES ASSUME acked # NoRecord
             PROVE  /\ Valid(flash', fw) # {}
                    /\ Found(flash', fw) = acked \/ Found(flash', fw).seq > acked.seq
    BY DEF AckedSurvives
<1>1. acked \in Record /\ acked.seq \in Nat
    BY RecordFields DEF TypeOK
<1>2. DistinctIn(flash, fw) /\ DistinctIn(flash', fw)
    BY DEF TypeOK, DistinctSeqs, DistinctIn
<1>3. /\ Valid(flash, fw) # {}
      /\ Found(flash, fw) = acked \/ Found(flash, fw).seq > acked.seq
    BY DEF AckedSurvives
<1>4. /\ Found(flash, fw) \in Record
      /\ Found(flash, fw).seq = LatestSeq(flash, fw)
      /\ LatestSeq(flash, fw) \in Nat
    BY <1>2, <1>3, ScanFacts
<1>5. Found(flash', fw) \in Record => Valid(flash', fw) # {}
    BY ContentAssumption DEF Found
<1>6. CASE Found(flash', fw) = Found(flash, fw)
    BY <1>3, <1>4, <1>5, <1>6
<1>7. CASE rec \in Record /\ Found(flash', fw) = rec /\ LatestSeq(flash, fw) < rec.seq
  <2>1. rec.seq \in Nat
      BY <1>7, RecordFields
  <2>2. LatestSeq(flash, fw) >= acked.seq
      BY <1>1, <1>3, <1>4
  <2>3. rec.seq > acked.seq
      BY <1>1, <1>4, <1>7, <2>1, <2>2
  <2> QED
      BY <1>5, <1>7, <2>3
<1> QED
    BY <1>6, <1>7

\* One step keeps the invariant, one case per action.
LEMMA NextInv == IInv /\ [Next]_vars => IInv'
<1> SUFFICES ASSUME IInv, [Next]_vars
             PROVE  IInv'
    OBVIOUS
<1> USE DEF IInv
<1>t. TypeOK
    OBVIOUS
<1>d. \A l \in Layouts : DistinctIn(flash, l)
    BY DEF DistinctSeqs, DistinctIn
<1>z. <<0, 0>> \in Pos
    BY SlotsAssumption DEF Pos, Sectors, Slots
<1>s. target[1] \in Sectors
    BY DEF TypeOK, Pos
<1>f. /\ LatestSeq(flash, fw) \in Nat
      /\ Found(flash, fw) \in Record \cup {NoRecord}
    BY <1>d, ScanFacts DEF TypeOK
<1>1. CASE Boot
    BY <1>1 DEF Boot, TypeOK, DistinctSeqs, AckedSurvives, SaveInv, Saving
<1>2. CASE Update
  <2>1. PICK l \in Layouts \ {fw} : fw' = l /\ acked' = Found(flash, l)
      BY <1>2 DEF Update
  <2>2. Found(flash, l) \in Record \cup {NoRecord}
      BY <1>d, ScanFacts
  <2>3. TypeOK'
      BY <1>2, <2>1, <2>2 DEF Update, TypeOK
  <2>4. AckedSurvives'
      BY <1>2, <2>1 DEF Update, AckedSurvives, Found
  <2> QED
      BY <1>2, <2>3, <2>4 DEF Update, DistinctSeqs, SaveInv, Saving
<1>3. ASSUME NEW k \in Knobs, BeginSave(k)
      PROVE  IInv'
  <2>1. /\ NextSlot(flash, fw).pos \in Pos
        /\ NextSlot(flash, fw).erase \in BOOLEAN
        /\ ~NextSlot(flash, fw).erase => flash[NextSlot(flash, fw).pos] = Blank
        /\ NextSlot(flash, fw).erase /\ Valid(flash, fw) # {} =>
               LatestPos(flash, fw)[1] # NextSlot(flash, fw).pos[1]
      BY <1>d, NextSlotFacts DEF TypeOK
  <2>2. rec' \in Record /\ rec'.layout = fw /\ rec'.seq = LatestSeq(flash, fw) + 1
      BY <1>3, <1>f, MaxSeqAssumption DEF BeginSave, Record, TypeOK
  <2>3. TypeOK'
      BY <1>3, <2>1, <2>2 DEF BeginSave, TypeOK
  <2>4. DistinctSeqs' /\ AckedSurvives'
      BY <1>3 DEF BeginSave, DistinctSeqs, AckedSurvives
  <2>5. LatestSeq(flash, fw) < rec'.seq
      BY <1>f, <2>2
  <2>6. SaveInv'
      BY <1>3, <2>1, <2>2, <2>5 DEF BeginSave, SaveInv
  <2> QED
      BY <2>3, <2>4, <2>6
<1>4. CASE EraseSector
  <2>1. /\ flash' \in [Pos -> Content]
        /\ \A l \in Layouts : DistinctIn(flash', l)
        /\ Found(flash', fw) = Found(flash, fw)
        /\ LatestSeq(flash', fw) = LatestSeq(flash, fw)
    <3>1. flash' \in PartlyErased(flash, target[1]) \cup {Erased(flash, target[1])}
        BY <1>4 DEF EraseSector
    <3>2. Valid(flash, fw) # {} => LatestPos(flash, fw)[1] # target[1]
        BY <1>4 DEF EraseSector, SaveInv
    <3> QED
        BY <1>d, <1>s, <3>1, <3>2, EraseStep DEF TypeOK
  <2>2. TypeOK'
      BY <1>4, <2>1 DEF EraseSector, TypeOK
  <2>3. DistinctSeqs'
      BY <2>1, <2>2 DEF DistinctSeqs, DistinctIn
  <2>4. AckedSurvives'
      BY <1>4, <2>1, <2>2, <2>3, AckedKept DEF EraseSector
  <2>5. flash'[target] = Blank
      BY <1>4 DEF EraseSector, Erased, TypeOK
  <2>6. SaveInv'
      BY <1>4, <2>1, <2>5 DEF EraseSector, SaveInv, Saving
  <2> QED
      BY <2>2, <2>3, <2>4, <2>6
<1>5. CASE EraseFails
  <2>1. /\ flash' \in [Pos -> Content]
        /\ \A l \in Layouts : DistinctIn(flash', l)
        /\ Found(flash', fw) = Found(flash, fw)
        /\ LatestSeq(flash', fw) = LatestSeq(flash, fw)
    <3>1. flash' \in PartlyErased(flash, target[1]) \cup {Erased(flash, target[1])}
        BY <1>5 DEF EraseFails
    <3>2. Valid(flash, fw) # {} => LatestPos(flash, fw)[1] # target[1]
        BY <1>5 DEF EraseFails, SaveInv
    <3> QED
        BY <1>d, <1>s, <3>1, <3>2, EraseStep DEF TypeOK
  <2>2. TypeOK'
      BY <1>5, <2>1 DEF EraseFails, TypeOK
  <2>3. DistinctSeqs'
      BY <2>1, <2>2 DEF DistinctSeqs, DistinctIn
  <2>4. AckedSurvives'
      BY <1>5, <2>1, <2>2, <2>3, AckedKept DEF EraseFails
  <2>5. SaveInv'
      BY <1>5, <2>1 DEF EraseFails, SaveInv, Saving
  <2> QED
      BY <2>2, <2>3, <2>4, <2>5
<1>6. CASE Write
  <2>0. rec \in Record /\ rec.layout = fw /\ LatestSeq(flash, fw) < rec.seq
        /\ flash[target] = Blank
      BY <1>6 DEF Write, SaveInv, Saving
  <2>1. /\ flash' \in [Pos -> Content]
        /\ \A l \in Layouts : DistinctIn(flash', l)
        /\ \/ Found(flash', fw) = rec
           \/ /\ Found(flash', fw) = Found(flash, fw)
              /\ LatestSeq(flash', fw) = LatestSeq(flash, fw)
      BY <1>6, <1>d, <2>0, ProgramStep DEF Write, TypeOK
  <2>2. TypeOK'
      BY <1>6, <2>1 DEF Write, TypeOK
  <2>3. DistinctSeqs'
      BY <2>1, <2>2 DEF DistinctSeqs, DistinctIn
  <2>4. AckedSurvives'
      BY <1>6, <2>0, <2>1, <2>2, <2>3, AckedKept DEF Write
  <2>5. SaveInv'
      BY <1>6, <2>0, <2>1 DEF Write, SaveInv, Saving
  <2> QED
      BY <2>2, <2>3, <2>4, <2>5
<1>7. CASE ReadBack
  <2>1. ASSUME flash[target] = rec
        PROVE  Found(flash, fw) = rec /\ rec \in Record
    <3>1. rec \in Record /\ rec.layout = fw /\ rec.seq \in Nat
        BY <1>7, RecordFields DEF ReadBack, SaveInv, Saving
    <3>2. target \in Valid(flash, fw)
        BY <2>1, <3>1 DEF Valid, TypeOK
    <3>3. rec.seq <= LatestSeq(flash, fw)
        BY <1>d, <2>1, <3>2, ScanFacts DEF TypeOK
    <3> QED
        BY <1>7, <1>f, <3>1, <3>3 DEF ReadBack, SaveInv
  <2>2. acked' = acked \/ (acked' = rec /\ rec \in Record /\ Found(flash, fw) = rec)
      BY <1>7, <2>1 DEF ReadBack
  <2>3. TypeOK'
      BY <1>7, <2>2 DEF ReadBack, TypeOK
  <2>4. AckedSurvives'
      BY <1>7, <2>2, ContentAssumption DEF ReadBack, AckedSurvives, Found
  <2> QED
      BY <1>7, <2>3, <2>4 DEF ReadBack, DistinctSeqs, SaveInv, Saving
<1>8. CASE Unmap
    BY <1>8 DEF Unmap, TypeOK, DistinctSeqs, AckedSurvives, SaveInv, Saving
<1>9. CASE PowerCut
  <2>1. /\ flash' \in [Pos -> Content]
        /\ \A l \in Layouts : DistinctIn(flash', l)
        /\ \/ /\ rec \in Record
              /\ LatestSeq(flash, fw) < rec.seq
              /\ Found(flash', fw) = rec
           \/ /\ Found(flash', fw) = Found(flash, fw)
              /\ LatestSeq(flash', fw) = LatestSeq(flash, fw)
    <3>1. CASE pc = "erase"
      <4>1. flash' \in PartlyErased(flash, target[1]) \cup {Erased(flash, target[1])}
          BY <1>9, <3>1 DEF PowerCut
      <4>2. Valid(flash, fw) # {} => LatestPos(flash, fw)[1] # target[1]
          BY <3>1 DEF SaveInv
      <4> QED
          BY <1>d, <1>s, <4>1, <4>2, EraseStep DEF TypeOK
    <3>2. CASE pc = "program"
      <4>1. rec \in Record /\ rec.layout = fw /\ LatestSeq(flash, fw) < rec.seq
            /\ flash[target] = Blank
          BY <3>2 DEF SaveInv, Saving
      <4>2. flash' \in Programmed(flash, target, rec)
          BY <1>9, <3>2 DEF PowerCut
      <4> QED
          BY <1>d, <4>1, <4>2, ProgramStep DEF TypeOK
    <3>3. CASE pc \notin {"erase", "program"}
      <4>1. flash' = flash
          BY <1>9, <3>3 DEF PowerCut
      <4> QED
          BY <1>d, <4>1 DEF TypeOK
    <3> QED
        BY <3>1, <3>2, <3>3
  <2>2. TypeOK'
      BY <1>9, <1>z, <2>1 DEF PowerCut, TypeOK
  <2>3. DistinctSeqs'
      BY <2>1, <2>2 DEF DistinctSeqs, DistinctIn
  <2>4. AckedSurvives'
      BY <1>9, <2>1, <2>2, <2>3, AckedKept DEF PowerCut
  <2> QED
      BY <1>9, <2>2, <2>3, <2>4 DEF PowerCut, SaveInv, Saving
<1>10. CASE UNCHANGED vars
    BY <1>10 DEF vars, TypeOK, DistinctSeqs, AckedSurvives, SaveInv, Saving
<1> QED
    BY <1>1, <1>2, <1>3, <1>4, <1>5, <1>6, <1>7, <1>8, <1>9, <1>10 DEF Next

\* The invariant holds in every reachable state.
THEOREM Invariance == Spec => []IInv
<1>1. Init => IInv
    BY InitInv
<1>2. IInv /\ [Next]_vars => IInv'
    BY NextInv
<1> QED
    BY <1>1, <1>2, PTL DEF Spec

\* Type correctness of the two sectors and of the save in progress.
THEOREM TypeCorrect == Spec => []TypeOK
<1>1. IInv => TypeOK
    BY DEF IInv
<1> QED
    BY <1>1, Invariance, PTL

\* An acknowledged save is never lost, for any number of slots and any history
\* of power cuts, failed erases and torn programs.
THEOREM AckedSaveSurvives == Spec => []AckedSurvives
<1>1. IInv => AckedSurvives
    BY DEF IInv
<1> QED
    BY <1>1, Invariance, PTL

\* No two records of one layout share a sequence number.
THEOREM SeqsDistinct == Spec => []DistinctSeqs
<1>1. IInv => DistinctSeqs
    BY DEF IInv
<1> QED
    BY <1>1, Invariance, PTL

-----------------------------------------------------------------------------
(* The two sectors implement a durable cell.                                *)

LEMMA InitCell == Init => Cell!Init
BY BlankFlash DEF Init, Cell!Init, Found, Saving

\* Every step of the sectors is a step of the cell or leaves it alone.
LEMMA NextCell == IInv /\ IInv' /\ [Next]_vars => [Cell!Next]_(Cell!cell)
<1> SUFFICES ASSUME IInv, IInv', [Next]_vars
             PROVE  [Cell!Next]_(Cell!cell)
    OBVIOUS
<1> USE DEF IInv
<1> DEFINE S == Found(flash, fw)
           R == IF Saving THEN rec ELSE NoRecord
<1>d. /\ \A l \in Layouts : DistinctIn(flash, l)
      /\ fw \in Layouts
      /\ target[1] \in Sectors
    BY DEF DistinctSeqs, DistinctIn, TypeOK, Pos
<1>r. Saving => rec \in Record /\ rec # NoRecord /\ rec.layout = fw
    BY ContentAssumption DEF SaveInv
<1>f. S \in Record \cup {NoRecord}
    BY <1>d, ScanFacts
<1>1. CASE Boot
    BY <1>1 DEF Boot, Saving, Cell!cell
<1>2. CASE Update
  <2>1. R = NoRecord /\ R' = NoRecord
      BY <1>2 DEF Update, Saving
  <2>2. acked' = S'
      BY <1>2 DEF Update
  <2>3. S' \in Record \cup {NoRecord}
      BY ScanFacts DEF DistinctSeqs, DistinctIn, TypeOK
  <2>4. Cell!Reinterpret
      BY <2>1, <2>2, <2>3 DEF Cell!Reinterpret
  <2> QED
      BY <2>4 DEF Cell!Next
<1>3. ASSUME NEW k \in Knobs, BeginSave(k)
      PROVE  [Cell!Next]_(Cell!cell)
  <2>1. R = NoRecord /\ R' = rec' /\ rec' \in Record
    <3>1. Saving' /\ ~Saving
        BY <1>3 DEF BeginSave, Saving
    <3> QED
        BY <3>1 DEF SaveInv
  <2>2. S' = S /\ acked' = acked
      BY <1>3 DEF BeginSave
  <2>3. S # NoRecord => rec'.seq > S.seq
    <3>1. S # NoRecord => S.seq = LatestSeq(flash, fw)
        BY <1>d, ScanFacts
    <3>2. LatestSeq(flash, fw) \in Nat /\ rec'.seq = LatestSeq(flash, fw) + 1
        BY <1>3, <1>d, ScanFacts DEF BeginSave
    <3> QED
        BY <3>1, <3>2
  <2>4. Cell!Ask
      BY <2>1, <2>2, <2>3 DEF Cell!Ask
  <2> QED
      BY <2>4 DEF Cell!Next
<1>4. CASE EraseSector
  <2>1. Found(flash', fw) = S
    <3>1. flash' \in PartlyErased(flash, target[1]) \cup {Erased(flash, target[1])}
        BY <1>4 DEF EraseSector
    <3>2. Valid(flash, fw) # {} => LatestPos(flash, fw)[1] # target[1]
        BY <1>4 DEF EraseSector, SaveInv
    <3> QED
        BY <1>d, <3>1, <3>2, EraseStep DEF TypeOK
  <2> QED
      BY <1>4, <2>1 DEF EraseSector, Saving, Cell!cell
<1>5. CASE EraseFails
  <2>1. Found(flash', fw) = S
    <3>1. flash' \in PartlyErased(flash, target[1]) \cup {Erased(flash, target[1])}
        BY <1>5 DEF EraseFails
    <3>2. Valid(flash, fw) # {} => LatestPos(flash, fw)[1] # target[1]
        BY <1>5 DEF EraseFails, SaveInv
    <3> QED
        BY <1>d, <3>1, <3>2, EraseStep DEF TypeOK
  <2> QED
      BY <1>5, <2>1 DEF EraseFails, Saving, Cell!cell
<1>6. CASE Write
  <2>1. Saving /\ Saving' /\ fw' = fw /\ rec' = rec /\ acked' = acked
      BY <1>6 DEF Write, Saving
  <2>2. LatestSeq(flash, fw) < rec.seq /\ flash[target] = Blank
      BY <1>6 DEF Write, SaveInv
  <2>3. S' = rec \/ S' = S
      BY <1>6, <1>d, <1>r, <2>1, <2>2, ProgramStep DEF Write, TypeOK
  <2> QED
      BY <1>r, <2>1, <2>3 DEF Cell!Next, Cell!Commit, Cell!cell
<1>7. CASE ReadBack
  <2>1. Saving /\ ~Saving' /\ S' = S
      BY <1>7 DEF ReadBack, Saving
  <2>2. CASE ok /\ flash[target] = rec
    <3>1. rec.seq \in Nat /\ target \in Valid(flash, fw)
        BY <1>r, <2>1, <2>2, RecordFields DEF Valid, TypeOK
    <3>2. rec.seq <= LatestSeq(flash, fw) /\ LatestSeq(flash, fw) \in Nat
        BY <1>d, <2>2, <3>1, ScanFacts
    <3>3. S = rec
        BY <1>7, <3>1, <3>2 DEF ReadBack, SaveInv
    <3>4. acked' = rec
        BY <1>7, <2>2 DEF ReadBack
    <3> QED
        BY <1>r, <2>1, <3>3, <3>4 DEF Cell!Next, Cell!Acknowledge
  <2>3. CASE ~(ok /\ flash[target] = rec)
    <3>1. acked' = acked
        BY <1>7, <2>3 DEF ReadBack
    <3> QED
        BY <1>r, <2>1, <3>1 DEF Cell!Next, Cell!GiveUp
  <2> QED
      BY <2>2, <2>3
<1>8. CASE Unmap
  <2>1. Saving /\ ~Saving' /\ S' = S /\ acked' = acked
      BY <1>8 DEF Unmap, Saving
  <2> QED
      BY <1>r, <2>1 DEF Cell!Next, Cell!GiveUp
<1>9. CASE PowerCut
  <2>1. ~Saving' /\ fw' = fw /\ acked' = acked
      BY <1>9 DEF PowerCut, Saving
  <2>2. CASE pc = "erase"
    <3>1. flash' \in PartlyErased(flash, target[1]) \cup {Erased(flash, target[1])}
        BY <1>9, <2>2 DEF PowerCut
    <3>2. Valid(flash, fw) # {} => LatestPos(flash, fw)[1] # target[1]
        BY <2>2 DEF SaveInv
    <3>3. S' = S
        BY <1>d, <2>1, <3>1, <3>2, EraseStep DEF TypeOK
    <3> QED
        BY <1>r, <2>1, <2>2, <3>3 DEF Cell!Next, Cell!GiveUp, Saving
  <2>3. CASE pc = "program"
    <3>1. LatestSeq(flash, fw) < rec.seq /\ flash[target] = Blank
        BY <2>3 DEF SaveInv
    <3>2. flash' \in Programmed(flash, target, rec)
        BY <1>9, <2>3 DEF PowerCut
    <3>3. S' = S \/ S' = rec
        BY <1>d, <1>r, <2>1, <2>3, <3>1, <3>2, ProgramStep DEF TypeOK, Saving
    <3> QED
        BY <1>r, <2>1, <2>3, <3>3 DEF Cell!Next, Cell!GiveUp, Saving
  <2>4. CASE pc \in {"idle", "check"}
    <3>1. S' = S
        BY <1>9, <2>1, <2>4 DEF PowerCut
    <3>2. CASE pc = "check"
        BY <1>r, <2>1, <3>1, <3>2 DEF Cell!Next, Cell!GiveUp, Saving
    <3>3. CASE pc = "idle"
        BY <2>1, <3>1, <3>3 DEF Cell!cell, Saving
    <3> QED
        BY <2>4, <3>2, <3>3
  <2> QED
      BY <1>9, <2>2, <2>3, <2>4 DEF PowerCut, TypeOK
<1>10. CASE UNCHANGED vars
    BY <1>10 DEF vars, Cell!cell, Saving
<1> QED
    BY <1>1, <1>2, <1>3, <1>4, <1>5, <1>6, <1>7, <1>8, <1>9, <1>10 DEF Next

\* The sectors implement the durable cell: the scan's answer changes only by
\* becoming the record being saved, and "saved" is only said of that record.
THEOREM SectorsImplementCell == Spec => ImplementsCell
<1>1. Init => Cell!Init
    BY InitCell
<1>2. IInv /\ IInv' /\ [Next]_vars => [Cell!Next]_(Cell!cell)
    BY NextCell
<1> QED
    BY <1>1, <1>2, Invariance, PTL DEF Spec, ImplementsCell, Cell!Spec
=============================================================================
