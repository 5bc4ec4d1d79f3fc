---------------------------- MODULE PersistFlash ----------------------------
(***************************************************************************)
(* The two flash sectors in which the firmware keeps the panel's state      *)
(* (shell/persist_record.cpp, shell/persist_flash.cpp).                     *)
(*                                                                         *)
(* A sector holds NumSlots slots.  A save appends one record to the first   *)
(* blank slot after the newest one; a full sector rolls to slot 0 of the    *)
(* other, which is erased first when that slot is not blank.  A save is not *)
(* atomic: the power can go while the sector is being erased or the slot    *)
(* programmed, either call can fail, and libDaisy can fail to put the flash *)
(* back into memory-mapped mode, after which nothing reads it until the     *)
(* next power-up.  At power-up the boot code scans both sectors for the     *)
(* newest record of its own layout; a firmware update changes that layout.  *)
(***************************************************************************)
EXTENDS Integers

CONSTANTS
    NumSlots,  \* kPersistSlots: slots per sector
    Knobs,     \* the panel vectors a record can hold
    Layouts,   \* the PersistLayouts of the firmware versions
    MaxSeq,    \* bound on the sequence number (uint32 in the code)
    Stress,    \* TRUE in the SHELL_PERSIST_STRESS_ON image
    Blank,     \* a slot whose bytes are all 0xFF
    Torn,      \* a slot with bytes that pass no record check of any layout
    NoRecord   \* "no record": SlotPick.sector = -1

Record == [layout : Layouts, seq : 1..MaxSeq, knobs : Knobs]

ASSUME SlotsAssumption == NumSlots \in Nat \ {0}
ASSUME MaxSeqAssumption == MaxSeq \in Nat
ASSUME StressAssumption == Stress \in BOOLEAN
ASSUME ContentAssumption ==
    /\ {Blank, Torn, NoRecord} \cap Record = {}
    /\ Blank # Torn

Sectors == {0, 1}
Slots   == 0 .. NumSlots - 1
Pos     == Sectors \X Slots
Content == Record \cup {Blank, Torn}

VARIABLES
    flash,     \* [Pos -> Content]
    fw,        \* the layout of the firmware on the board
    pc,        \* where the foreground is: "off", "idle" or inside persist_write
    unmapped,  \* g_unmapped: the memory-mapped window is lost until power-up
    rec,       \* the record being saved (g_wbuf)
    target,    \* the slot it goes to (SlotNext.sector, SlotNext.slot)
    ok,        \* persist_write's local ok
    acked      \* history: the last record persist_write returned true for, or
               \* what the boot of a newly flashed firmware found

vars == <<flash, fw, pc, unmapped, rec, target, ok, acked>>

-----------------------------------------------------------------------------
(* The scan.                                                               *)

\* record_valid: a slot holds a record of layout l.
Valid(f, l) == {p \in Pos : f[p] \in Record /\ f[p].layout = l}

\* The order in which pick_latest looks at the slots.
ScannedBefore(p, q) == p[1] < q[1] \/ (p[1] = q[1] /\ p[2] < q[2])

\* p is what pick_latest returns: a valid slot that is scanned first among
\* those with the highest sequence number.
IsLatest(f, l, p) ==
    /\ p \in Valid(f, l)
    /\ \A q \in Valid(f, l) :
          \/ f[q].seq < f[p].seq
          \/ f[q].seq = f[p].seq /\ ~ScannedBefore(q, p)

LatestPos(f, l) == CHOOSE p \in Pos : IsLatest(f, l, p)

\* The record the scan finds in flash f for layout l.
Found(f, l) == IF Valid(f, l) = {} THEN NoRecord ELSE f[LatestPos(f, l)]

\* Mutant of LatestSeq: the number is looked up in sector 0 only.
LatestSeqOfSector0(f, l) ==
    LET front == {f[p].seq : p \in {q \in Valid(f, l) : q[1] = 0}}
    IN  IF front = {} THEN 0 ELSE CHOOSE n \in front : \A m \in front : m <= n

\* SlotPick.seq, 0 when there is no record.
LatestSeq(f, l) == IF Valid(f, l) = {} THEN 0 ELSE f[LatestPos(f, l)].seq

-----------------------------------------------------------------------------
(* The slot the next save goes to.                                          *)

\* The blank slots after the newest record, in its sector.
BlankAfter(f, p) == {i \in Slots : i > p[2] /\ f[<<p[1], i>>] = Blank}

\* Mutant of NextSlot: a full sector rolls to its own slot 0, over the newest
\* record.
NextSlotInPlace(f, l) ==
    LET p == LatestPos(f, l)
        room == BlankAfter(f, p)
    IN  IF Valid(f, l) = {}
        THEN [pos |-> <<0, 0>>, erase |-> f[<<0, 0>>] # Blank]
        ELSE IF room # {}
             THEN [pos |-> <<p[1], CHOOSE i \in room : \A j \in room : i <= j>>,
                   erase |-> FALSE]
             ELSE [pos |-> <<p[1], 0>>, erase |-> TRUE]

\* Mutant of NextSlot: the slot after the newest record, past the last one too.
NextSlotPastEnd(f, l) ==
    LET p == LatestPos(f, l)
    IN  IF Valid(f, l) = {}
        THEN [pos |-> <<0, 0>>, erase |-> f[<<0, 0>>] # Blank]
        ELSE [pos |-> <<p[1], p[2] + 1>>, erase |-> FALSE]

\* next_slot: the slot and erase_first.
NextSlot(f, l) ==
    LET p == LatestPos(f, l)
        room == BlankAfter(f, p)
        roll == <<1 - p[1], 0>>
    IN  IF Valid(f, l) = {}
        THEN [pos |-> <<0, 0>>, erase |-> Stress \/ f[<<0, 0>>] # Blank]
        ELSE IF ~Stress /\ room # {}
             THEN [pos   |-> <<p[1], CHOOSE i \in room : \A j \in room : i <= j>>,
                   erase |-> FALSE]
             ELSE [pos |-> roll, erase |-> Stress \/ f[roll] # Blank]

-----------------------------------------------------------------------------
(* What the flash chip can do to a sector or a slot.                        *)

\* An erase that stopped part way: every slot of the sector is as it was, is
\* blank already, or has lost bits.
PartlyErased(f, s) ==
    {[p \in Pos |-> IF p[1] # s \/ h[p[2]] = "kept" THEN f[p]
                    ELSE IF h[p[2]] = "blank" THEN Blank ELSE Torn] :
        h \in [Slots -> {"kept", "blank", "torn"}]}

Erased(f, s) == [p \in Pos |-> IF p[1] = s THEN Blank ELSE f[p]]

\* A program of slot p with record r: nothing yet, some bytes, or all of them.
\* Only a blank slot can take a record; on any other the bits are lost.
Programmed(f, p, r) ==
    {[f EXCEPT ![p] = c] : c \in {f[p], Torn} \cup (IF f[p] = Blank THEN {r} ELSE {})}

-----------------------------------------------------------------------------

Init ==
    /\ flash = [p \in Pos |-> Blank]
    /\ fw \in Layouts
    /\ pc = "off"
    /\ unmapped = FALSE
    /\ rec = NoRecord
    /\ target = <<0, 0>>
    /\ ok = FALSE
    /\ acked = NoRecord

\* Power-up: persist_boot scans the sectors (it changes nothing in them).
Boot ==
    /\ pc = "off"
    /\ pc' = "idle"
    /\ UNCHANGED <<flash, fw, unmapped, rec, target, ok, acked>>

\* A firmware with another layout is put on the board: its scan accepts only
\* the records of that layout.
Update ==
    /\ pc = "off"
    /\ \E l \in Layouts \ {fw} :
          /\ fw' = l
          /\ acked' = Found(flash, l)
    /\ UNCHANGED <<flash, pc, unmapped, rec, target, ok>>

\* The foreground builds the record and persist_write finds its slot.
BeginSave(k) ==
    /\ pc = "idle"
    /\ ~unmapped
    /\ LatestSeq(flash, fw) < MaxSeq
    /\ rec' = [layout |-> fw, seq |-> LatestSeq(flash, fw) + 1, knobs |-> k]
    /\ target' = NextSlot(flash, fw).pos
    /\ ok' = TRUE
    /\ pc' = IF NextSlot(flash, fw).erase THEN "erase" ELSE "program"
    /\ UNCHANGED <<flash, fw, unmapped, acked>>

\* EraseSector returns OK ...
EraseSector ==
    /\ pc = "erase"
    /\ flash' = Erased(flash, target[1])
    /\ pc' = "program"
    /\ UNCHANGED <<fw, unmapped, rec, target, ok, acked>>

\* ... or an error: nothing is programmed.
EraseFails ==
    /\ pc = "erase"
    /\ flash' \in PartlyErased(flash, target[1])
    /\ ok' = FALSE
    /\ pc' = "check"
    /\ UNCHANGED <<fw, unmapped, rec, target, acked>>

\* Write() reports OK whatever its pages did.
Write ==
    /\ pc = "program"
    /\ flash' \in Programmed(flash, target, rec)
    /\ pc' = "check"
    /\ UNCHANGED <<fw, unmapped, rec, target, ok, acked>>

\* Mutant of ReadBack: the driver's return value is the verdict.
ReadBackTrusting ==
    /\ pc = "check"
    /\ pc' = "idle"
    /\ acked' = IF ok THEN rec ELSE acked
    /\ UNCHANGED <<flash, fw, unmapped, rec, target, ok>>

\* The read-back is the verdict.
ReadBack ==
    /\ pc = "check"
    /\ pc' = "idle"
    /\ acked' = IF ok /\ flash[target] = rec THEN rec ELSE acked
    /\ UNCHANGED <<flash, fw, unmapped, rec, target, ok>>

\* The window is not mapped again: the save counts as failed, whatever the
\* flash now holds, and no later one is tried.
Unmap ==
    /\ pc = "check"
    /\ pc' = "idle"
    /\ unmapped' = TRUE
    /\ UNCHANGED <<flash, fw, rec, target, ok, acked>>

\* The power goes, at any instant.
PowerCut ==
    /\ pc # "off"
    /\ \/ pc = "erase" /\ flash' \in PartlyErased(flash, target[1])
       \/ pc = "program" /\ flash' \in Programmed(flash, target, rec)
       \/ pc \in {"idle", "check"} /\ flash' = flash
    /\ pc' = "off"
    /\ unmapped' = FALSE
    /\ rec' = NoRecord
    /\ target' = <<0, 0>>
    /\ ok' = FALSE
    /\ UNCHANGED <<fw, acked>>

Next ==
    \/ Boot \/ Update \/ PowerCut
    \/ \E k \in Knobs : BeginSave(k)
    \/ EraseSector \/ EraseFails \/ Write
    \/ ReadBack \/ Unmap

Spec == Init /\ [][Next]_vars

-----------------------------------------------------------------------------
(* Properties.                                                              *)

Saving == pc \in {"erase", "program", "check"}

TypeOK ==
    /\ flash \in [Pos -> Content]
    /\ fw \in Layouts
    /\ pc \in {"off", "idle", "erase", "program", "check"}
    /\ unmapped \in BOOLEAN
    /\ rec \in Record \cup {NoRecord}
    /\ target \in Pos
    /\ ok \in BOOLEAN
    /\ acked \in Record \cup {NoRecord}

\* A record persist_write has acknowledged is never lost: whenever the power
\* goes, the boot scan finds it or a newer one of the same firmware (persist_
\* flash.cpp: "a power cut from here on still leaves one valid record").
AckedSurvives ==
    acked # NoRecord =>
        /\ Valid(flash, fw) # {}
        /\ \/ Found(flash, fw) = acked
           \/ Found(flash, fw).seq > acked.seq

\* No two slots hold records of one layout with the same sequence number, so
\* the strict comparison of pick_latest never has to choose between two saves.
DistinctSeqs ==
    \A l \in Layouts : \A p, q \in Valid(flash, l) :
        flash[p].seq = flash[q].seq => p = q

\* Inside persist_write: the record is newer than any other of its layout until
\* it is found itself, the sector about to be erased does not hold the newest
\* record, and the slot about to be programmed is blank.
SaveInv ==
    /\ Saving => rec \in Record /\ rec.layout = fw
    /\ pc \in {"erase", "program"} => LatestSeq(flash, fw) < rec.seq
    /\ pc = "erase" /\ Valid(flash, fw) # {} => LatestPos(flash, fw)[1] # target[1]
    /\ pc = "program" => flash[target] = Blank
    /\ pc = "check" => LatestSeq(flash, fw) < rec.seq \/ Found(flash, fw) = rec

\* The inductive invariant of the proofs.
IInv == TypeOK /\ DistinctSeqs /\ AckedSurvives /\ SaveInv

\* The two sectors implement one durable cell: whatever the flash does and
\* whenever the power goes, what a boot would find changes only by becoming
\* the record being saved; no erase, failed program or power cut makes the
\* scan fall back to an older record, and "saved" is reported only for the
\* record the scan finds.
Cell == INSTANCE DurableCell
            WITH stored  <- Found(flash, fw),
                 request <- IF Saving THEN rec ELSE NoRecord

ImplementsCell == Cell!Spec
=============================================================================
