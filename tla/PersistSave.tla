----------------------------- MODULE PersistSave -----------------------------
(***************************************************************************)
(* When the panel's state is saved (shell/panel_scan.cpp,                   *)
(* shell/persist_policy.cpp).                                               *)
(*                                                                         *)
(* The audio callback is an interrupt: it owns the knob vector and, once    *)
(* per sweep after the boot take, publishes a copy under a sequence count   *)
(* that is even when the copy is whole.  The foreground loop copies the     *)
(* published vector word by word, again if the count moved meanwhile,       *)
(* compares it with the copy of its previous pass, and asks the save policy *)
(* whether a save is due: nothing changed for Quiet, and Floor since the    *)
(* last save.  The flash is the durable cell of DurableCell, which          *)
(* PersistFlash implements.                                                 *)
(***************************************************************************)
EXTENDS Integers, FiniteSets

CONSTANTS
    Values,     \* values of one word
    ExciteOf,   \* the excite flags each value of the compared word leads to
    Quiet,      \* kSaveQuietMs, in passes of the loop
    Floor,      \* kSaveFloorMs
    ClockMod,   \* the millisecond counter wraps here (2^32 in the code)
    PubMod,     \* g_pub_seq counts below this bound (see NextCount); even
    MaxSeq,     \* bound on the record's sequence number
    MaxTurns,   \* bound on the changes of the vector
    MaxFails,   \* bound on the saves that do not verify
    MaxCuts,    \* bound on the power cuts
    NoRecord

ASSUME ValuesAssumption == Values # {}
ASSUME ExciteAssumption == ExciteOf \in [Values -> Values]
ASSUME QuietAssumption == Quiet \in Nat \ {0}
ASSUME FloorAssumption == Floor \in Nat /\ Floor > Quiet
ASSUME ClockAssumption == ClockMod \in Nat /\ ClockMod > Quiet + Floor
ASSUME PubAssumption == PubMod \in Nat /\ PubMod > 4 /\ PubMod % 2 = 0

\* The words of the vector in the order they are copied.  The excite flags are
\* saved and restored but never compared (persist_differs).
Words    == <<"knob", "excite">>
Compared == {"knob"}
Vector   == [{"knob", "excite"} -> Values]
Record   == [seq : 1..MaxSeq, knobs : Vector]

\* The flags go with ENGINE: a turn onto the BBD sets one, any other engine clears
\* it (apply_excite_events), and the boot take does as a turn would
\* (excite_after_take).  They follow within a few sweeps, long before the vector
\* has been quiet for Quiet, so one step stands for both.
Followed(v) == v["excite"] = ExciteOf[v["knob"]]
Initial     == CHOOSE v \in Vector : Followed(v)   \* kInitParamDefaults

VARIABLES
    stored, request, acked,  \* the durable cell
    power,     \* the board runs
    knobs,     \* g_knobs and the excite flags, owned by the callback
    takeDone,  \* g_take.done
    pub,       \* what the callback published: g_pub_seq, g_pub_knobs
    fg,        \* the foreground: where it is and its copy (see FgIdle)
    prev,      \* persist_prev
    seeded,    \* persist_seeded
    policy,    \* SavePolicy
    now,       \* System::GetNow()
    passed,    \* a pass has ended since the last tick
    steady,    \* history: ticks since a pass saw a change, up to Quiet
    spaced,    \* history: ticks since the last write ended, up to Floor
    saw,       \* history: a pass has seen a change since power-up
    left       \* what is left of the three budgets

callback   == <<knobs, takeDone, pub>>
foreground == <<fg, prev, seeded, policy>>
history    == <<steady, spaced, saw>>
cell       == <<stored, request, acked>>
vars == <<cell, power, callback, foreground, now, passed, history, left>>

Cell == INSTANCE DurableCell

\* The loop between two passes.  at: the next word to copy, or "idle", "test"
\* (the copy is whole, the count is read again), "decide", "write".
\* count: the g_pub_seq read before the copy.  snap (history): what was
\* published then.  cut: a publication fell into the copy.
FgIdle ==
    [at |-> "idle", word |-> 1, count |-> 0, cur |-> Initial, snap |-> Initial, cut |-> FALSE]

Fresh == [last_change |-> 0, last_save |-> 0, saved_once |-> FALSE, dirty |-> FALSE]

Init ==
    /\ Cell!Init
    /\ power = FALSE
    /\ knobs = Initial
    /\ takeDone = FALSE
    /\ pub = [seq |-> 0, knobs |-> Initial]
    /\ fg = FgIdle
    /\ prev = Initial
    /\ seeded = FALSE
    /\ policy = Fresh
    /\ now = 0
    /\ passed = FALSE
    /\ steady = 0 /\ spaced = Floor /\ saw = FALSE
    /\ left = [turns |-> MaxTurns, fails |-> MaxFails, cuts |-> MaxCuts]

-----------------------------------------------------------------------------
(* Power.                                                                   *)

\* persist_boot: the vector starts from the stored record.
PowerUp ==
    /\ ~power
    /\ power' = TRUE
    /\ knobs' = IF stored = NoRecord THEN Initial ELSE stored.knobs
    /\ UNCHANGED <<cell, takeDone, pub, foreground, now, passed, history, left>>

\* Everything in RAM is lost; a save under way may still have reached the cell.
PowerCut ==
    /\ power
    /\ left.cuts > 0
    /\ left' = [left EXCEPT !.cuts = @ - 1]
    /\ \/ request # NoRecord /\ Cell!GiveUp
       \/ request = NoRecord /\ UNCHANGED cell
    /\ power' = FALSE
    /\ knobs' = Initial
    /\ takeDone' = FALSE
    /\ pub' = [seq |-> 0, knobs |-> Initial]
    /\ fg' = FgIdle
    /\ prev' = Initial
    /\ seeded' = FALSE
    /\ policy' = Fresh
    /\ now' = 0
    /\ passed' = FALSE
    /\ steady' = 0 /\ spaced' = Floor /\ saw' = FALSE

-----------------------------------------------------------------------------
(* The callback.                                                            *)

\* The boot take writes the pots' positions, once; a pot moved while the board
\* was off changes the vector here.
Take ==
    /\ power /\ ~takeDone
    /\ takeDone' = TRUE
    /\ knobs' \in {knobs} \cup IF left.turns > 0 THEN {v \in Vector : Followed(v)} ELSE {}
    /\ left' = IF knobs' = knobs THEN left ELSE [left EXCEPT !.turns = @ - 1]
    /\ UNCHANGED <<cell, power, pub, foreground, now, passed, history>>

\* A control is moved: a compared word changes, and the flags follow.
Turn ==
    /\ power /\ takeDone
    /\ left.turns > 0
    /\ left' = [left EXCEPT !.turns = @ - 1]
    /\ \E w \in Compared, v \in Values :
          /\ v # knobs[w]
          /\ knobs' = [knobs EXCEPT ![w] = v, !["excite"] = ExciteOf[v]]
    /\ UNCHANGED <<cell, power, takeDone, pub, foreground, now, passed, history>>

\* g_pub_seq after a publication.  The code's 32-bit count returns to 0, which
\* means "nothing published", only after years of sweeps; the model's returns to
\* the count of the first publication.
NextCount(count) == IF count + 2 < PubMod THEN count + 2 ELSE 2

\* The end of a sweep publishes the vector.  The callback is never interrupted
\* by the foreground, so the odd count is not seen; a sweep is much longer than
\* a copy and its retry, so at most one publication falls into a pass's copying.
Publish ==
    /\ power /\ takeDone
    /\ fg.at = "copy" \/ fg.at = "test" => ~fg.cut
    /\ pub' = [seq |-> NextCount(pub.seq), knobs |-> knobs]
    /\ fg' = [fg EXCEPT !.cut = fg.at \in {"copy", "test"}]
    /\ UNCHANGED <<cell, power, knobs, takeDone, prev, seeded, policy, now, passed, history, left>>

-----------------------------------------------------------------------------
(* The foreground loop.                                                     *)

\* Unsigned difference of two readings of the millisecond counter.
Since(t) == (now - t) % ClockMod

\* The vectors differ in a word that counts as a change.
persist_differs(a, b) == \E w \in Compared : a[w] # b[w]

\* The policy after it is told whether the vector changed.
Noted(p, changed) == IF changed THEN [p EXCEPT !.last_change = now, !.dirty = TRUE] ELSE p

\* Mutant of save_due: the floor between two writes is not looked at.
save_due_no_floor(p) == p.dirty /\ Since(p.last_change) >= Quiet

save_due(p) ==
    /\ p.dirty
    /\ Since(p.last_change) >= Quiet
    /\ p.saved_once => Since(p.last_save) >= Floor

save_done(p, t) == [p EXCEPT !.last_save = t, !.saved_once = TRUE, !.dirty = FALSE]

\* Mutant of save_failed: the vector counts as saved.
save_failed_forgets(p, t) == save_done(p, t)

save_failed(p, t) == [save_done(p, t) EXCEPT !.dirty = TRUE]

\* A pass reads the count and starts to copy.
StartCopy ==
    /\ power /\ fg.at = "idle" /\ ~passed
    /\ fg' = [fg EXCEPT !.at = "copy", !.word = 1, !.count = pub.seq,
                        !.snap = pub.knobs, !.cut = FALSE]
    /\ UNCHANGED <<cell, power, callback, prev, seeded, policy, now, passed, history, left>>

CopyWord ==
    /\ power /\ fg.at = "copy"
    /\ LET w == Words[fg.word]
       IN  fg' = [fg EXCEPT !.cur[w] = pub.knobs[w],
                            !.word = 3 - @,
                            !.at = IF fg.word = 2 THEN "test" ELSE "copy"]
    /\ UNCHANGED <<cell, power, callback, prev, seeded, policy, now, passed, history, left>>

\* Mutant of Retry: the count is not read again.
NoRetry(count) == FALSE

\* The count moved: the copy is taken again.
Retry(count) == count # pub.seq

TestCopy ==
    /\ power /\ fg.at = "test"
    /\ fg' = IF Retry(fg.count)
             THEN [fg EXCEPT !.at = "copy", !.count = pub.seq, !.snap = pub.knobs]
             ELSE [fg EXCEPT !.at = "decide"]
    /\ UNCHANGED <<cell, power, callback, prev, seeded, policy, now, passed, history, left>>

\* Nothing published yet: the pass ends.
\* The first copy seeds the comparison.
Seed ==
    /\ power /\ fg.at = "decide"
    /\ fg.count = 0 \/ ~seeded
    /\ prev' = IF fg.count = 0 THEN prev ELSE fg.cur
    /\ seeded' = (seeded \/ fg.count # 0)
    /\ fg' = FgIdle
    /\ passed' = TRUE
    /\ UNCHANGED <<cell, power, callback, policy, now, history, left>>

\* A later copy is compared with the previous pass's; when a save is due its
\* record is built, one above the newest sequence number, and written.
Decide ==
    /\ power /\ fg.at = "decide"
    /\ fg.count # 0 /\ seeded
    /\ prev' = fg.cur
    /\ LET changed == persist_differs(fg.cur, prev)
           noted   == Noted(policy, changed)
       IN  /\ policy' = noted
           /\ steady' = IF changed THEN 0 ELSE steady
           /\ saw' = (saw \/ changed)
           /\ IF save_due(noted)
              THEN /\ request' = [seq   |-> IF stored = NoRecord THEN 1 ELSE stored.seq + 1,
                                  knobs |-> fg.cur]
                   /\ Cell!Ask
                   /\ fg' = [fg EXCEPT !.at = "write"]
                   /\ passed' = passed
              ELSE /\ fg' = FgIdle
                   /\ passed' = TRUE
                   /\ UNCHANGED cell
    /\ UNCHANGED <<power, callback, seeded, now, spaced, left>>

\* The erase and the program take time: the record reaches the cell.
Reach ==
    /\ power /\ fg.at = "write"
    /\ stored # request
    /\ Cell!Commit
    /\ UNCHANGED <<power, callback, foreground, now, passed, history, left>>

\* The write verified ...
Saved ==
    /\ power /\ fg.at = "write"
    /\ Cell!Acknowledge
    /\ policy' = save_done(policy, now)
    /\ fg' = FgIdle
    /\ passed' = TRUE
    /\ spaced' = 0
    /\ UNCHANGED <<power, callback, prev, seeded, now, steady, saw, left>>

\* ... or not.
NotSaved ==
    /\ power /\ fg.at = "write"
    /\ left.fails > 0
    /\ left' = [left EXCEPT !.fails = @ - 1]
    /\ Cell!GiveUp
    /\ policy' = save_failed(policy, now)
    /\ fg' = FgIdle
    /\ passed' = TRUE
    /\ spaced' = 0
    /\ UNCHANGED <<power, callback, prev, seeded, now, steady, saw>>

\* Time passes between the passes (one tick of the model is the 500 ms from one
\* pass to the next) and during a write.
Tick ==
    /\ power
    /\ (fg.at = "idle" /\ passed) \/ fg.at = "write"
    /\ now' = (now + 1) % ClockMod
    /\ passed' = FALSE
    /\ steady' = IF steady < Quiet THEN steady + 1 ELSE steady
    /\ spaced' = IF spaced < Floor THEN spaced + 1 ELSE spaced
    /\ UNCHANGED <<cell, power, callback, foreground, saw, left>>

-----------------------------------------------------------------------------

Foreground == StartCopy \/ CopyWord \/ TestCopy \/ Seed \/ Decide \/ Reach \/ Saved

Next ==
    \/ PowerUp \/ PowerCut
    \/ Take \/ Turn \/ Publish
    \/ Foreground \/ NotSaved
    \/ Tick

\* The board is switched on again, the callback keeps sweeping and the loop
\* keeps passing.
Fairness ==
    /\ WF_vars(PowerUp) /\ WF_vars(Take) /\ SF_vars(Publish)
    /\ WF_vars(Foreground) /\ WF_vars(Tick)

Spec == Init /\ [][Next]_vars /\ Fairness
-----------------------------------------------------------------------------

TypeOK ==
    /\ {stored, request, acked} \subseteq Record \cup {NoRecord}
    /\ knobs \in Vector /\ prev \in Vector
    /\ {power, takeDone, seeded, passed, saw} \subseteq BOOLEAN
    /\ pub \in [seq : 0 .. PubMod - 1, knobs : Vector]
    /\ fg \in [at : {"idle", "copy", "test", "decide", "write"}, word : 1..2,
               count : 0 .. PubMod - 1, cur : Vector, snap : Vector, cut : BOOLEAN]
    /\ policy \in [last_change : 0 .. ClockMod - 1, last_save : 0 .. ClockMod - 1,
                   saved_once : BOOLEAN, dirty : BOOLEAN]
    /\ now \in 0 .. ClockMod - 1
    /\ steady \in 0..Quiet /\ spaced \in 0..Floor
    /\ left \in [turns : 0..MaxTurns, fails : 0..MaxFails, cuts : 0..MaxCuts]

\* The vector a pass decides on, and saves, is one the callback published at
\* one instant: no word of a later publication is mixed into it (panel_scan.cpp,
\* the copy between two equal, even counts).
CopyIsWhole == fg.at \in {"decide", "write"} => fg.cur = fg.snap

\* A write starts only after Quiet without a change and Floor after the last
\* write, however the millisecond counter has wrapped meanwhile.
WritesAreRare ==
    [][fg.at # "write" /\ fg'.at = "write" => steady' >= Quiet /\ spaced >= Floor]_vars

\* Once the panel is left alone, a change the loop has seen since power-up ends
\* up in the flash: a change during a write, or a write that did not verify, is
\* not forgotten, and the record is the whole vector, excite flags included.
ChangeIsSaved ==
    <>[](power /\ (saw => stored # NoRecord /\ stored.knobs = pub.knobs))

\* The design says the loop compares the published vector with the last saved
\* record (docs/superpowers/specs/2026-10-28-panel-state-persistence-design.md,
\* section 5.1): once the panel is left alone, the two agree.
RecordMatchesPanel ==
    <>[](stored # NoRecord => \A w \in Compared : stored.knobs[w] = pub.knobs[w])
=============================================================================
