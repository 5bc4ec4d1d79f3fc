-------------------------- MODULE PersistSaveProofs --------------------------
(***************************************************************************)
(* Proofs about the save loop, for every vector alphabet, quiet time, floor *)
(* and wrap of the counters: the copy a save is built from is whole, writes *)
(* are as rare as the policy says, and what a pass has seen is saved or     *)
(* still owed.                                                              *)
(***************************************************************************)
EXTENDS PersistSave, TLAPS

Foregrounds == [at : {"idle", "copy", "test", "decide", "write"}, word : 1 .. 2, count : Nat,
                cur : Vector, snap : Vector, cut : BOOLEAN]

Policies == [last_change : 0 .. ClockMod - 1, last_save : 0 .. ClockMod - 1,
             saved_once : BOOLEAN, dirty : BOOLEAN]

Typed ==
    /\ stored \in Record \cup {NoRecord}
    /\ request \in Record \cup {NoRecord}
    /\ knobs \in Vector
    /\ pub \in [seq : Nat, knobs : Vector]
    /\ fg \in Foregrounds
    /\ policy \in Policies
    /\ now \in 0 .. ClockMod - 1
    /\ steady \in 0 .. Quiet
    /\ spaced \in 0 .. Floor

\* While the count that was read still stands, what has been copied is what was
\* published then; a publication during the copy moves the count away.
CopyFollows ==
    /\ fg.at \in {"copy", "test"} /\ ~fg.cut => fg.count = pub.seq
    /\ fg.at \in {"copy", "test"} /\ fg.count = pub.seq => fg.snap = pub.knobs
    /\ fg.at = "copy" /\ fg.word = 2 /\ fg.count = pub.seq => fg.cur["knob"] = fg.snap["knob"]
    /\ fg.at = "test" => fg.word = 1
    /\ fg.at = "test" /\ fg.count = pub.seq => fg.cur = fg.snap
    /\ fg.at \in {"decide", "write"} => fg.cur = fg.snap

\* The policy's two ages never run ahead of the true ones: when the counter has
\* wrapped past a stamp, the age is too short, never too long.
AgesAreTrue ==
    /\ steady >= Quiet \/ steady >= Since(policy.last_change)
    /\ policy.saved_once => spaced >= Floor \/ spaced >= Since(policy.last_save)
    /\ ~policy.saved_once => spaced >= Floor

-----------------------------------------------------------------------------
(* The counters.                                                            *)

LEMMA Constants ==
    /\ Quiet \in Nat /\ Quiet > 0 /\ Floor \in Nat /\ Floor > Quiet
    /\ ClockMod \in Nat /\ ClockMod > 1 /\ PubMod \in Nat /\ PubMod > 4
BY QuietAssumption, FloorAssumption, ClockAssumption, PubAssumption

\* A tick makes an age one longer at most.
LEMMA AgeGrows ==
    ASSUME NEW m \in Nat, m > 1, NEW a \in 0 .. m - 1, NEW b \in 0 .. m - 1
    PROVE  /\ (a - b) % m \in Nat
           /\ (((a + 1) % m) - b) % m <= ((a - b) % m) + 1
           /\ (a + 1) % m \in 0 .. m - 1
           /\ (a - a) % m = 0
OBVIOUS

LEMMA CountMoves == ASSUME NEW c \in Nat PROVE NextCount(c) \in Nat /\ NextCount(c) # c
BY Constants DEF NextCount

LEMMA InitialIs == Initial \in Vector /\ Followed(Initial)
<1>1. PICK x \in Values : TRUE
    BY ValuesAssumption
<1> DEFINE v == [w \in {"knob", "excite"} |-> IF w = "knob" THEN x ELSE ExciteOf[x]]
<1>2. v \in Vector /\ Followed(v)
    BY ExciteAssumption DEF Vector, Followed
<1> HIDE DEF v
<1>3. \E u \in Vector : Followed(u)
    BY <1>2
<1> QED
    BY <1>3 DEF Initial

LEMMA FreshIs == Fresh \in Policies /\ Fresh.last_change = 0 /\ ~Fresh.saved_once
BY Constants DEF Fresh, Policies

LEMMA IdleIs == FgIdle \in Foregrounds /\ FgIdle.at = "idle"
BY InitialIs DEF FgIdle, Foregrounds

-----------------------------------------------------------------------------
(* What each step does to the two records, field by field.                  *)

\* The loop starts its copy of a publication, and starts it over.
Started(f, p) == [f EXCEPT !.at = "copy", !.word = 1, !.count = p.seq,
                           !.snap = p.knobs, !.cut = FALSE]
Restarted(f, p) == [f EXCEPT !.at = "copy", !.count = p.seq, !.snap = p.knobs]

LEMMA StartIs ==
    ASSUME NEW f \in Foregrounds, NEW p \in [seq : Nat, knobs : Vector],
           NEW g, g = Started(f, p)
    PROVE  /\ g \in Foregrounds /\ g.at = "copy" /\ g.word = 1 /\ g.count = p.seq
           /\ g.snap = p.knobs /\ ~g.cut
<1>1. p.seq \in Nat /\ p.knobs \in Vector
    OBVIOUS
<1>2. g.at = "copy" /\ g.word = 1 /\ g.count = p.seq
    BY DEF Started, Foregrounds
<1>3. g.snap = p.knobs /\ ~g.cut
    BY DEF Started, Foregrounds
<1> DEFINE n == p.seq
           k == p.knobs
<1> HIDE DEF n, k
<1>4. g = [f EXCEPT !.at = "copy", !.word = 1, !.count = n, !.snap = k, !.cut = FALSE]
    BY DEF n, k, Started
<1>5. n \in Nat /\ k \in Vector
    BY <1>1 DEF n, k
<1>6. g \in Foregrounds
  <2> DEFINE h == [f EXCEPT !.at = "copy", !.word = 1]
  <2>1. h \in Foregrounds
    <3> DEFINE one == 1
    <3>1. h = [f EXCEPT !.at = "copy", !.word = one] /\ one \in 1 .. 2
        OBVIOUS
    <3> HIDE DEF h, one
    <3> QED
        BY <3>1 DEF Foregrounds
  <2>2. g = [h EXCEPT !.count = n, !.snap = k, !.cut = FALSE]
      BY <1>4
  <2> HIDE DEF h
  <2> QED
      BY <1>5, <2>1, <2>2 DEF Foregrounds
<1> QED
    BY <1>2, <1>3, <1>6

LEMMA RetryIs ==
    ASSUME NEW f \in Foregrounds, NEW p \in [seq : Nat, knobs : Vector],
           NEW g, g = Restarted(f, p)
    PROVE  /\ g \in Foregrounds /\ g.at = "copy" /\ g.word = f.word /\ g.count = p.seq
           /\ g.snap = p.knobs
BY DEF Restarted, Foregrounds

LEMMA AtIs ==
    ASSUME NEW f \in Foregrounds, NEW at \in {"decide", "write"}, NEW g, g = [f EXCEPT !.at = at]
    PROVE  g \in Foregrounds /\ g.at = at /\ g.cur = f.cur /\ g.snap = f.snap
BY DEF Foregrounds

LEMMA CutIs ==
    ASSUME NEW f \in Foregrounds, NEW c \in BOOLEAN, NEW g, g = [f EXCEPT !.cut = c]
    PROVE  /\ g \in Foregrounds /\ g.at = f.at /\ g.word = f.word /\ g.count = f.count
           /\ g.cur = f.cur /\ g.snap = f.snap /\ (g.cut <=> c)
BY DEF Foregrounds

LEMMA NotedIs ==
    ASSUME NEW p \in Policies, now \in 0 .. ClockMod - 1, NEW changed \in BOOLEAN
    PROVE  /\ Noted(p, changed) \in Policies
           /\ (Noted(p, changed).saved_once <=> p.saved_once)
           /\ Noted(p, changed).last_save = p.last_save
           /\ changed => Noted(p, changed).last_change = now
           /\ ~changed => Noted(p, changed) = p
<1>1. CASE changed
    BY <1>1 DEF Noted, Policies
<1>2. CASE ~changed
    BY <1>2 DEF Noted
<1> QED
    BY <1>1, <1>2

LEMMA DoneIs ==
    ASSUME NEW p \in Policies, NEW t \in 0 .. ClockMod - 1
    PROVE  /\ save_done(p, t) \in Policies /\ save_done(p, t).last_save = t
           /\ save_done(p, t).saved_once /\ save_done(p, t).last_change = p.last_change
BY DEF save_done, Policies

LEMMA FailedIs ==
    ASSUME NEW p \in Policies, NEW t \in 0 .. ClockMod - 1
    PROVE  /\ save_failed(p, t) \in Policies /\ save_failed(p, t).last_save = t
           /\ save_failed(p, t).saved_once /\ save_failed(p, t).last_change = p.last_change
<1> DEFINE d == save_done(p, t)
<1>1. d \in Policies /\ d.last_save = t /\ d.saved_once /\ d.last_change = p.last_change
    BY DEF save_done, Policies
<1>2. save_failed(p, t) = [d EXCEPT !.dirty = TRUE]
    BY DEF save_failed
<1> HIDE DEF d
<1> QED
    BY <1>1, <1>2 DEF Policies

-----------------------------------------------------------------------------
(* The invariant.                                                           *)

Inv == Typed /\ CopyFollows /\ AgesAreTrue

LEMMA InitOK == Init => Inv
<1> SUFFICES ASSUME Init PROVE Inv
    OBVIOUS
<1>1. Typed
    BY InitialIs, FreshIs, IdleIs, Constants DEF Init, Cell!Init, Typed
<1>2. CopyFollows
    BY IdleIs DEF Init, CopyFollows
<1>3. (0 - 0) % ClockMod = 0
    BY AgeGrows, Constants
<1>4. AgesAreTrue
    BY <1>3, FreshIs, Constants DEF Init, AgesAreTrue, Since
<1> QED
    BY <1>1, <1>2, <1>4 DEF Inv

\* What does not touch the loop, the published copy and the policy.
Untouched ==
    /\ fg' = fg /\ pub' = pub /\ policy' = policy /\ now' = now
    /\ steady' = steady /\ spaced' = spaced

LEMMA UntouchedOK == ASSUME Inv, Untouched, Typed' PROVE Inv'
BY DEF Inv, Untouched, CopyFollows, AgesAreTrue, Since

\* The flash is asked, written, answered or left.
LEMMA CellTyped ==
    ASSUME Typed, Cell!Ask \/ Cell!Commit \/ Cell!Acknowledge \/ Cell!GiveUp
    PROVE  stored' \in Record \cup {NoRecord} /\ request' \in Record \cup {NoRecord}
BY DEF Typed, Cell!Ask, Cell!Commit, Cell!Acknowledge, Cell!GiveUp

LEMMA PowerOK == ASSUME Inv, PowerUp \/ PowerCut PROVE Inv'
<1>1. CASE PowerUp
  <2>1. knobs' \in Vector
      BY <1>1, InitialIs DEF PowerUp, Inv, Typed, Record
  <2>2. Typed' /\ Untouched
      BY <1>1, <2>1 DEF PowerUp, Inv, Typed, Untouched, cell, foreground, history
  <2> QED
      BY <2>2, UntouchedOK
<1>2. CASE PowerCut
  <2>1. stored' \in Record \cup {NoRecord} /\ request' \in Record \cup {NoRecord}
      BY <1>2, CellTyped DEF PowerCut, Inv, Typed, cell
  <2>2. Typed'
      BY <1>2, <2>1, InitialIs, FreshIs, IdleIs, Constants DEF PowerCut, Typed
  <2>3. CopyFollows'
      BY <1>2, IdleIs DEF PowerCut, CopyFollows
  <2>4. (0 - 0) % ClockMod = 0
      BY AgeGrows, Constants
  <2>5. AgesAreTrue'
      BY <1>2, <2>4, FreshIs, Constants DEF PowerCut, AgesAreTrue, Since
  <2> QED
      BY <2>2, <2>3, <2>5 DEF Inv
<1> QED
    BY <1>1, <1>2

LEMMA CallbackOK == ASSUME Inv, Take \/ Turn PROVE Inv'
<1>1. knobs' \in Vector
  <2>1. CASE Take
      BY <2>1 DEF Take, Inv, Typed
  <2>2. CASE Turn
    <3>1. PICK w \in Compared, v \in Values :
              knobs' = [knobs EXCEPT ![w] = v, !["excite"] = ExciteOf[v]]
        BY <2>2 DEF Turn
    <3>2. ExciteOf[v] \in Values
        BY ExciteAssumption
    <3> QED
        BY <3>1, <3>2 DEF Inv, Typed, Vector, Compared
  <2> QED
      BY <2>1, <2>2
<1>2. Typed' /\ Untouched
    BY <1>1 DEF Take, Turn, Inv, Typed, Untouched, cell, foreground, history
<1> QED
    BY <1>2, UntouchedOK

LEMMA PublishOK == ASSUME Inv, Publish PROVE Inv'
<1> DEFINE c == fg.at \in {"copy", "test"}
<1>1. fg' = [fg EXCEPT !.cut = c] /\ c \in BOOLEAN
    BY DEF Publish
<1>2. /\ fg' \in Foregrounds /\ fg'.at = fg.at /\ fg'.word = fg.word
      /\ fg'.count = fg.count /\ fg'.cur = fg.cur /\ fg'.snap = fg.snap /\ (fg'.cut <=> c)
  <2> HIDE DEF c
  <2> QED
      BY <1>1, CutIs DEF Inv, Typed
<1>3. pub.seq \in Nat /\ pub'.seq = NextCount(pub.seq) /\ pub'.knobs = knobs
    BY DEF Publish, Inv, Typed
<1>4. pub'.seq \in Nat /\ pub'.seq # pub.seq
    BY <1>3, CountMoves
<1>5. Typed'
    BY <1>2, <1>3, <1>4 DEF Publish, Inv, Typed, cell, history
<1>6. c => ~fg.cut /\ fg.count = pub.seq
    BY DEF Publish, Inv, CopyFollows
<1>7. CopyFollows'
    BY <1>2, <1>4, <1>6 DEF Inv, CopyFollows
<1>8. AgesAreTrue'
    BY DEF Publish, Inv, AgesAreTrue, Since, history
<1> QED
    BY <1>5, <1>7, <1>8 DEF Inv

\* The steps of a pass up to the decision leave the policy alone.
LEMMA AgesStand ==
    ASSUME Inv, policy' = policy, now' = now, steady' = steady, spaced' = spaced
    PROVE  AgesAreTrue'
BY DEF Inv, AgesAreTrue, Since

LEMMA CopyOK == ASSUME Inv, StartCopy \/ CopyWord \/ TestCopy PROVE Inv'
<1>0. /\ fg \in Foregrounds /\ pub \in [seq : Nat, knobs : Vector] /\ pub.knobs \in Vector
    BY DEF Inv, Typed
<1>1. CASE StartCopy
  <2>1. /\ fg' \in Foregrounds /\ fg'.at = "copy" /\ fg'.word = 1 /\ fg'.count = pub.seq
        /\ fg'.snap = pub.knobs
    <3>1. fg' = Started(fg, pub)
        BY <1>1 DEF StartCopy, Started
    <3> QED
        BY <1>0, <3>1, StartIs
  <2>2. Typed'
      BY <1>1, <2>1 DEF StartCopy, Inv, Typed, cell, callback, history
  <2>3. CopyFollows'
      BY <1>1, <2>1 DEF StartCopy, CopyFollows, callback
  <2> QED
      BY <1>1, <2>2, <2>3, AgesStand DEF StartCopy, history, Inv
<1>2. CASE CopyWord
  <2> DEFINE w == Words[fg.word]
             n == 3 - fg.word
             at == IF fg.word = 2 THEN "test" ELSE "copy"
  <2>1. /\ w \in {"knob", "excite"} /\ n \in 1 .. 2 /\ at \in {"copy", "test"}
        /\ fg.word = 1 => w = "knob" /\ n = 2 /\ at = "copy"
        /\ fg.word = 2 => w = "excite" /\ n = 1 /\ at = "test"
      BY <1>0 DEF Words, Foregrounds
  <2> DEFINE c == [fg.cur EXCEPT ![w] = pub.knobs[w]]
  <2>2. c \in Vector /\ fg' = [fg EXCEPT !.cur = c, !.word = n, !.at = at]
    <3>1. c \in Vector
        BY <1>0, <2>1 DEF Foregrounds, Vector
    <3>2. fg' = [fg EXCEPT !.cur = c, !.word = n, !.at = at]
        BY <1>0, <1>2 DEF CopyWord, Foregrounds
    <3> QED
        BY <3>1, <3>2
  <2> HIDE DEF w, n, at, c
  <2>3. /\ fg' \in Foregrounds /\ fg'.at = at /\ fg'.word = n
        /\ fg'.count = fg.count /\ fg'.snap = fg.snap /\ (fg'.cut <=> fg.cut)
        /\ fg'.cur = [fg.cur EXCEPT ![w] = pub.knobs[w]]
    <3>1. n \in 1 .. 2 /\ at \in {"copy", "test"}
        BY <2>1
    <3>2. fg' \in Foregrounds
        BY <1>0, <2>2, <3>1 DEF Foregrounds
    <3>3. /\ fg'.at = at /\ fg'.word = n /\ fg'.count = fg.count /\ fg'.snap = fg.snap
          /\ (fg'.cut <=> fg.cut) /\ fg'.cur = c
        BY <1>0, <2>2 DEF Foregrounds
    <3> QED
        BY <3>2, <3>3 DEF c
  <2>4. Typed'
      BY <1>2, <2>3 DEF CopyWord, Inv, Typed, cell, callback, history
  <2>5. CopyFollows'
    <3>1. fg.at = "copy" /\ pub' = pub /\ fg.word \in 1 .. 2 /\ fg.cur \in Vector /\ fg.snap \in Vector
        BY <1>0, <1>2 DEF CopyWord, callback, Foregrounds
    <3>2. CASE fg.word = 1
        BY <2>1, <2>3, <3>1, <3>2 DEF Inv, CopyFollows, Vector
    <3>3. CASE fg.word = 2
      <4>1. fg.count = pub.seq => fg'.cur = fg'.snap
          BY <2>1, <2>3, <3>1, <3>3 DEF Inv, CopyFollows, Vector
      <4> QED
          BY <2>1, <2>3, <3>1, <3>3, <4>1 DEF Inv, CopyFollows
    <3> QED
        BY <3>1, <3>2, <3>3
  <2> QED
      BY <1>2, <2>4, <2>5, AgesStand DEF CopyWord, history, Inv
<1>3. CASE TestCopy /\ fg.count # pub.seq
  <2>1. /\ fg' \in Foregrounds /\ fg'.at = "copy" /\ fg'.word = fg.word /\ fg'.count = pub.seq
        /\ fg'.snap = pub.knobs
    <3>1. fg' = Restarted(fg, pub)
        BY <1>3 DEF TestCopy, Retry, Restarted
    <3> QED
        BY <1>0, <3>1, RetryIs
  <2>2. Typed'
      BY <1>3, <2>1 DEF TestCopy, Inv, Typed, cell, callback, history
  <2>3. CopyFollows'
      BY <1>3, <2>1 DEF TestCopy, Inv, CopyFollows, callback
  <2> QED
      BY <1>3, <2>2, <2>3, AgesStand DEF TestCopy, history, Inv
<1>4. CASE TestCopy /\ fg.count = pub.seq
  <2>1. fg' \in Foregrounds /\ fg'.at = "decide" /\ fg'.cur = fg.cur /\ fg'.snap = fg.snap
      BY <1>0, <1>4, AtIs DEF TestCopy, Retry
  <2>2. Typed'
      BY <1>4, <2>1 DEF TestCopy, Inv, Typed, cell, callback, history
  <2>3. CopyFollows'
      BY <1>4, <2>1 DEF TestCopy, Inv, CopyFollows
  <2> QED
      BY <1>4, <2>2, <2>3, AgesStand DEF TestCopy, history, Inv
<1> QED
    BY <1>1, <1>2, <1>3, <1>4

LEMMA SeedOK == ASSUME Inv, Seed PROVE Inv'
<1>1. Typed'
    BY IdleIs DEF Seed, Inv, Typed, cell, callback, history
<1>2. CopyFollows'
    BY IdleIs DEF Seed, CopyFollows
<1> QED
    BY <1>1, <1>2, AgesStand DEF Seed, history, Inv

\* The decision: a change starts the quiet time anew.
LEMMA DecideOK ==
    ASSUME Inv, Decide
    PROVE  Inv' /\ (fg'.at = "write" => steady' >= Quiet /\ spaced >= Floor)
<1> DEFINE changed == persist_differs(fg.cur, prev)
           noted == Noted(policy, changed)
<1>0. /\ fg \in Foregrounds /\ policy \in Policies /\ now \in 0 .. ClockMod - 1
      /\ now' = now /\ spaced' = spaced /\ pub' = pub /\ knobs' = knobs /\ fg.at = "decide"
      /\ steady \in 0 .. Quiet /\ spaced \in 0 .. Floor
    BY DEF Decide, Inv, Typed, callback
<1>1. /\ policy' = noted /\ changed \in BOOLEAN
      /\ steady' = IF changed THEN 0 ELSE steady
      /\ IF save_due(noted)
         THEN Cell!Ask /\ fg' = [fg EXCEPT !.at = "write"]
         ELSE fg' = FgIdle /\ UNCHANGED cell
    BY DEF Decide, persist_differs
<1> HIDE DEF changed
<1>2. /\ noted \in Policies /\ (noted.saved_once <=> policy.saved_once)
      /\ noted.last_save = policy.last_save
      /\ changed => noted.last_change = now
      /\ ~changed => noted = policy
    BY <1>0, <1>1, NotedIs
<1> HIDE DEF noted
<1>3. fg' \in Foregrounds /\ fg'.at \in {"idle", "write"}
      /\ (fg'.at = "write" => fg'.cur = fg.cur /\ fg'.snap = fg.snap /\ save_due(noted))
    BY <1>0, <1>1, AtIs, IdleIs
<1>4. stored' \in Record \cup {NoRecord} /\ request' \in Record \cup {NoRecord}
    BY <1>1, CellTyped DEF Inv, Typed, cell
<1>5. Typed'
    BY <1>0, <1>1, <1>2, <1>3, <1>4, Constants DEF Inv, Typed
<1>6. CopyFollows'
    BY <1>0, <1>3 DEF Inv, CopyFollows
<1>7. AgesAreTrue'
  <2>1. CASE changed
    <3>1. (now - now) % ClockMod = 0
        BY <1>0, AgeGrows, Constants
    <3> QED
        BY <1>0, <1>1, <1>2, <2>1, <3>1, Constants DEF Inv, AgesAreTrue, Since
  <2>2. CASE ~changed
      BY <1>0, <1>1, <1>2, <2>2 DEF Inv, AgesAreTrue, Since
  <2> QED
      BY <2>1, <2>2
<1>8. ASSUME save_due(noted) PROVE steady' >= Quiet /\ spaced >= Floor
  <2>1. noted.dirty /\ Since(noted.last_change) >= Quiet
        /\ (noted.saved_once => Since(noted.last_save) >= Floor)
      BY <1>8 DEF save_due
  <2>2. Since(noted.last_change) \in Nat /\ Since(noted.last_save) \in Nat
      BY <1>0, <1>2, AgeGrows, Constants DEF Since, Policies
  <2>3. /\ steady' >= Quiet \/ steady' >= Since(noted.last_change)
        /\ noted.saved_once => spaced >= Floor \/ spaced >= Since(noted.last_save)
        /\ ~noted.saved_once => spaced >= Floor
      BY <1>0, <1>1, <1>7, <2>1 DEF AgesAreTrue, Since
  <2>4. steady' \in Nat /\ spaced \in Nat
      BY <1>0, <1>1
  <2> QED
      BY <2>1, <2>2, <2>3, <2>4, Constants
<1> QED
    BY <1>3, <1>5, <1>6, <1>7, <1>8 DEF Inv

LEMMA WriteOK == ASSUME Inv, Reach \/ Saved \/ NotSaved PROVE Inv'
<1>0. stored' \in Record \cup {NoRecord} /\ request' \in Record \cup {NoRecord}
    BY CellTyped DEF Reach, Saved, NotSaved, Inv
<1>1. CASE Reach
  <2>1. Typed' /\ Untouched
      BY <1>0, <1>1 DEF Reach, Inv, Typed, Untouched, callback, foreground, history
  <2> QED
      BY <2>1, UntouchedOK
<1>2. ASSUME Saved \/ NotSaved PROVE Inv'
  <2>1. /\ policy' \in Policies /\ policy'.last_save = now /\ policy'.saved_once
        /\ policy'.last_change = policy.last_change
    <3>0. policy \in Policies /\ now \in 0 .. ClockMod - 1
        BY DEF Inv, Typed
    <3>1. CASE Saved
        BY <3>0, <3>1, DoneIs DEF Saved
    <3>2. CASE NotSaved
        BY <3>0, <3>2, FailedIs DEF NotSaved
    <3> QED
        BY <1>2, <3>1, <3>2
  <2>2. now' = now /\ spaced' = 0 /\ fg' = FgIdle /\ steady' = steady /\ pub' = pub /\ knobs' = knobs
      BY <1>2 DEF Saved, NotSaved, callback
  <2>3. Typed'
      BY <1>0, <2>1, <2>2, IdleIs, Constants DEF Inv, Typed
  <2>4. CopyFollows'
      BY <2>2, IdleIs DEF CopyFollows
  <2>5. (now - now) % ClockMod = 0
      BY AgeGrows, Constants DEF Inv, Typed
  <2>6. AgesAreTrue'
      BY <2>1, <2>2, <2>5 DEF Inv, AgesAreTrue, Since
  <2> QED
      BY <2>3, <2>4, <2>6 DEF Inv
<1> QED
    BY <1>1, <1>2

LEMMA TickOK == ASSUME Inv, Tick PROVE Inv'
<1>0. /\ policy \in Policies /\ now \in 0 .. ClockMod - 1 /\ policy' = policy
      /\ now' = (now + 1) % ClockMod /\ fg' = fg /\ pub' = pub
      /\ steady \in 0 .. Quiet /\ spaced \in 0 .. Floor
      /\ steady' = IF steady < Quiet THEN steady + 1 ELSE steady
      /\ spaced' = IF spaced < Floor THEN spaced + 1 ELSE spaced
    BY DEF Tick, Inv, Typed, foreground, callback
<1>1. policy.last_change \in 0 .. ClockMod - 1 /\ policy.last_save \in 0 .. ClockMod - 1
    BY <1>0 DEF Policies
<1>2. now' \in 0 .. ClockMod - 1
    BY <1>0, AgeGrows, Constants
<1>3. Typed'
    BY <1>0, <1>2, Constants DEF Tick, Inv, Typed, cell, callback
<1>4. CopyFollows'
    BY <1>0 DEF Inv, CopyFollows
<1>5. ASSUME NEW t \in 0 .. ClockMod - 1
      PROVE  Since(t) \in Nat /\ Since(t)' <= Since(t) + 1 /\ Since(t)' \in Nat
    BY <1>0, <1>2, AgeGrows, Constants DEF Since
<1>6. AgesAreTrue'
    BY <1>0, <1>1, <1>5, Constants DEF Inv, AgesAreTrue
<1> QED
    BY <1>3, <1>4, <1>6 DEF Inv

\* The step, and what the action property says of it.
LEMMA NextOK ==
    ASSUME Inv, [Next]_vars
    PROVE  Inv' /\ (fg.at # "write" /\ fg'.at = "write" => steady' >= Quiet /\ spaced >= Floor)
<1>0. fg \in Foregrounds
    BY DEF Inv, Typed
<1>1. CASE PowerUp \/ PowerCut
  <2>1. fg' = fg \/ fg' = FgIdle
      BY <1>1 DEF PowerUp, PowerCut, foreground
  <2> QED
      BY <1>1, <2>1, PowerOK, IdleIs
<1>2. CASE Take \/ Turn
  <2>1. fg' = fg
      BY <1>2 DEF Take, Turn, foreground
  <2> QED
      BY <1>2, <2>1, CallbackOK
<1>3. CASE Publish
  <2>1. fg'.at = fg.at
      BY <1>0, <1>3 DEF Publish, Foregrounds
  <2> QED
      BY <1>3, <2>1, PublishOK
<1>4. CASE StartCopy \/ CopyWord \/ TestCopy
  <2>1. fg'.at # "write"
    <3>1. CASE StartCopy
        BY <1>0, <3>1 DEF StartCopy, Foregrounds
    <3>2. CASE CopyWord
        BY <1>0, <3>2 DEF CopyWord, Foregrounds
    <3>3. CASE TestCopy
        BY <1>0, <3>3 DEF TestCopy, Foregrounds
    <3> QED
        BY <1>4, <3>1, <3>2, <3>3
  <2> QED
      BY <1>4, <2>1, CopyOK
<1>5. CASE Seed
  <2>1. fg' = FgIdle
      BY <1>5 DEF Seed
  <2> QED
      BY <1>5, <2>1, SeedOK, IdleIs
<1>6. CASE Decide
    BY <1>6, DecideOK
<1>7. CASE Reach \/ Saved \/ NotSaved
  <2>1. fg.at = "write"
      BY <1>7 DEF Reach, Saved, NotSaved
  <2> QED
      BY <1>7, <2>1, WriteOK
<1>8. CASE Tick
  <2>1. fg' = fg
      BY <1>8 DEF Tick, foreground
  <2> QED
      BY <1>8, <2>1, TickOK
<1>9. CASE UNCHANGED vars
  <2>1. Typed' /\ Untouched
      BY <1>9 DEF vars, Inv, Typed, Untouched, cell, callback, foreground, history
  <2>2. fg' = fg
      BY <2>1 DEF Untouched
  <2> QED
      BY <2>1, <2>2, UntouchedOK
<1> QED
    BY <1>1, <1>2, <1>3, <1>4, <1>5, <1>6, <1>7, <1>8, <1>9 DEF Next, Foreground

\* The loop's invariant: what a publication during a copy leaves, and how the two
\* ages of the policy relate to the true ones.
THEOREM LoopInvariance == Spec => []Inv
<1>1. Inv /\ [Next]_vars => Inv'
    BY NextOK
<1> QED
    BY <1>1, InitOK, PTL DEF Spec

\* The vector a pass decides on and saves is one publication, whole
\* (panel_scan.cpp, the copy between two equal, even counts), whatever the words'
\* values are and wherever the count wraps.
THEOREM CopiesAreWhole == Spec => []CopyIsWhole
<1>1. Inv => CopyIsWhole
    BY DEF Inv, CopyFollows, CopyIsWhole
<1> QED
    BY <1>1, LoopInvariance, PTL

\* No write starts before the vector has been quiet for Quiet and Floor has passed
\* since the last write (persist_policy.cpp), for every quiet time, floor and wrap
\* of the millisecond counter.
THEOREM WritesKeepTheFloor == Spec => WritesAreRare
<1>1. Inv /\ [Next]_vars =>
          [fg.at # "write" /\ fg'.at = "write" => steady' >= Quiet /\ spaced >= Floor]_vars
    BY NextOK
<1> QED
    BY <1>1, LoopInvariance, PTL DEF Spec, WritesAreRare

-----------------------------------------------------------------------------
(* What the loop has seen: the safety behind ChangeIsSaved.                 *)

\* Every vector but the copy under way has its flags.
AllFollowed ==
    /\ Followed(knobs) /\ Followed(pub.knobs) /\ Followed(prev) /\ Followed(fg.snap)
    /\ stored # NoRecord => Followed(stored.knobs)
    /\ request # NoRecord => Followed(request.knobs)

\* What the last pass compared is in the flash, or the policy still owes it.
SeenIsOwed == saw /\ ~policy.dirty => stored # NoRecord /\ stored.knobs = prev

SeenInv ==
    /\ prev \in Vector /\ saw \in BOOLEAN /\ seeded \in BOOLEAN
    /\ AllFollowed
    /\ saw => seeded
    /\ fg.at = "write" => policy.dirty /\ request.knobs = prev
    /\ SeenIsOwed

LEMMA SeenInit == Init => SeenInv
<1> SUFFICES ASSUME Init PROVE SeenInv
    OBVIOUS
<1>1. FgIdle.snap = Initial /\ FgIdle.at = "idle"
    BY DEF FgIdle
<1> QED
    BY <1>1, InitialIs DEF Init, Cell!Init, SeenInv, AllFollowed, SeenIsOwed

LEMMA SeenPower == ASSUME Inv, SeenInv, PowerUp \/ PowerCut PROVE SeenInv'
<1>1. CASE PowerUp
    BY <1>1, InitialIs DEF PowerUp, SeenInv, AllFollowed, SeenIsOwed, cell, foreground, history
<1>2. CASE PowerCut
  <2>1. stored' # NoRecord => Followed(stored'.knobs)
      BY <1>2 DEF PowerCut, Cell!GiveUp, SeenInv, AllFollowed, cell
  <2>2. request' = NoRecord
      BY <1>2 DEF PowerCut, Cell!GiveUp, cell
  <2>3. FgIdle.snap = Initial /\ FgIdle.at = "idle"
      BY DEF FgIdle
  <2>4. /\ knobs' = Initial /\ pub'.knobs = Initial /\ prev' = Initial /\ fg' = FgIdle
        /\ ~saw' /\ saw' \in BOOLEAN /\ seeded' \in BOOLEAN
      BY <1>2 DEF PowerCut
  <2> QED
      BY <2>1, <2>2, <2>3, <2>4, InitialIs DEF SeenInv, AllFollowed, SeenIsOwed
<1> QED
    BY <1>1, <1>2

LEMMA SeenCallback == ASSUME Inv, SeenInv, Take \/ Turn \/ Publish PROVE SeenInv'
<1>1. CASE Take
  <2>1. Followed(knobs')
      BY <1>1 DEF Take, SeenInv, AllFollowed
  <2> QED
      BY <1>1, <2>1 DEF Take, SeenInv, AllFollowed, SeenIsOwed, cell, foreground, history
<1>2. CASE Turn
  <2>1. PICK w \in Compared, v \in Values :
            knobs' = [knobs EXCEPT ![w] = v, !["excite"] = ExciteOf[v]]
      BY <1>2 DEF Turn
  <2>2. Followed(knobs')
      BY <2>1 DEF Followed, Compared, Inv, Typed, Vector
  <2> QED
      BY <1>2, <2>2 DEF Turn, SeenInv, AllFollowed, SeenIsOwed, cell, foreground, history
<1>3. CASE Publish
  <2> DEFINE c == fg.at \in {"copy", "test"}
  <2>1. fg' = [fg EXCEPT !.cut = c]
      BY <1>3 DEF Publish
  <2> HIDE DEF c
  <2>2. fg'.at = fg.at /\ fg'.snap = fg.snap
      BY <2>1 DEF Inv, Typed, Foregrounds
  <2>3. pub'.knobs = knobs
      BY <1>3 DEF Publish
  <2> QED
      BY <1>3, <2>2, <2>3 DEF Publish, SeenInv, AllFollowed, SeenIsOwed, cell, history
<1> QED
    BY <1>1, <1>2, <1>3

LEMMA SeenCopy == ASSUME Inv, SeenInv, StartCopy \/ CopyWord \/ TestCopy PROVE SeenInv'
<1>1. fg \in Foregrounds
    BY DEF Inv, Typed
<1>2. CASE StartCopy
  <2>1. fg'.at # "write" /\ fg'.snap = pub.knobs
      BY <1>1, <1>2 DEF StartCopy, Foregrounds
  <2> QED
      BY <1>2, <2>1 DEF StartCopy, SeenInv, AllFollowed, SeenIsOwed, cell, callback, history
<1>3. CASE CopyWord
  <2>1. fg'.at # "write" /\ fg'.snap = fg.snap
      BY <1>1, <1>3 DEF CopyWord, Foregrounds
  <2> QED
      BY <1>3, <2>1 DEF CopyWord, SeenInv, AllFollowed, SeenIsOwed, cell, callback, history
<1>4. CASE TestCopy
  <2>1. fg'.at # "write" /\ fg'.snap \in {fg.snap, pub.knobs}
      BY <1>1, <1>4 DEF TestCopy, Foregrounds
  <2> QED
      BY <1>4, <2>1 DEF TestCopy, SeenInv, AllFollowed, SeenIsOwed, cell, callback, history
<1> QED
    BY <1>2, <1>3, <1>4

LEMMA SeenSeed == ASSUME Inv, SeenInv, Seed PROVE SeenInv'
<1>1. fg' = FgIdle /\ FgIdle.at = "idle" /\ FgIdle.snap = Initial
    BY DEF Seed, FgIdle
<1>2. fg.cur \in Vector /\ Followed(fg.cur)
    BY DEF Seed, Inv, Typed, Foregrounds, CopyFollows, SeenInv, AllFollowed
<1>3. prev' \in Vector /\ Followed(prev') /\ (saw => prev' = prev) /\ seeded' \in BOOLEAN
      /\ (saw => seeded')
    BY <1>2 DEF Seed, SeenInv, AllFollowed
<1> QED
    BY <1>1, <1>3, InitialIs
    DEF Seed, SeenInv, AllFollowed, SeenIsOwed, cell, callback, history

\* A pass that sees no change has compared the very vector the last one did.
LEMMA SeenDecide == ASSUME Inv, SeenInv, Decide PROVE SeenInv'
<1> DEFINE changed == persist_differs(fg.cur, prev)
           noted == Noted(policy, changed)
<1>1. /\ fg.cur \in Vector /\ Followed(fg.cur) /\ prev \in Vector /\ Followed(prev)
      /\ fg \in Foregrounds /\ policy \in Policies
    BY DEF Decide, Inv, Typed, Foregrounds, CopyFollows, SeenInv, AllFollowed
<1>2. ~changed => fg.cur = prev
  <2> SUFFICES ASSUME fg.cur["knob"] = prev["knob"] PROVE fg.cur = prev
      BY DEF persist_differs, Compared
  <2>1. fg.cur["excite"] = prev["excite"]
      BY <1>1 DEF Followed
  <2> QED
      BY <1>1, <2>1 DEF Vector
<1>3. /\ prev' = fg.cur /\ policy' = noted /\ saw' = (saw \/ changed) /\ seeded' = seeded
      /\ seeded /\ stored' = stored /\ knobs' = knobs /\ pub' = pub
    BY DEF Decide, Cell!Ask, cell, callback
<1>4. changed => noted.dirty
    BY <1>1 DEF Noted, Policies
<1>5. ~changed => noted = policy
    BY DEF Noted
<1>6. changed \in BOOLEAN
    BY DEF persist_differs
<1>7. CASE save_due(noted)
  <2>1. fg' = [fg EXCEPT !.at = "write"] /\ request'.knobs = fg.cur /\ noted.dirty
      BY <1>7 DEF Decide, save_due
  <2> HIDE DEF noted, changed
  <2>2. fg'.snap = fg.snap
      BY <1>1, <2>1, AtIs
  <2> QED
      BY <1>1, <1>2, <1>3, <1>4, <1>5, <1>6, <2>1, <2>2
      DEF SeenInv, AllFollowed, SeenIsOwed
<1>8. CASE ~save_due(noted)
  <2>1. fg' = FgIdle /\ request' = request
      BY <1>8 DEF Decide, cell
  <2>2. FgIdle.at = "idle" /\ FgIdle.snap = Initial
      BY DEF FgIdle
  <2> HIDE DEF noted, changed
  <2> QED
      BY <1>1, <1>2, <1>3, <1>4, <1>5, <1>6, <2>1, <2>2, InitialIs
      DEF SeenInv, AllFollowed, SeenIsOwed
<1> QED
    BY <1>7, <1>8

\* A write that verified holds what was compared; one that did not is still owed.
LEMMA SeenWrite == ASSUME Inv, SeenInv, Reach \/ Saved \/ NotSaved PROVE SeenInv'
<1>1. CASE Reach
    BY <1>1
    DEF Reach, Cell!Commit, SeenInv, AllFollowed, SeenIsOwed, callback, foreground, history
<1>2. FgIdle.at = "idle" /\ FgIdle.snap = Initial
    BY DEF FgIdle
<1>3. CASE Saved
  <2>1. stored # NoRecord /\ stored.knobs = prev /\ stored' = stored /\ request' = NoRecord
      BY <1>3 DEF Saved, Cell!Acknowledge, SeenInv
  <2> QED
      BY <1>2, <1>3, <2>1, InitialIs DEF Saved, SeenInv, AllFollowed, SeenIsOwed, callback
<1>4. CASE NotSaved
  <2>1. policy'.dirty
    <3>1. policy \in Policies /\ now \in 0 .. ClockMod - 1
        BY DEF Inv, Typed
    <3>2. save_done(policy, now) \in Policies
        BY <3>1, DoneIs
    <3> QED
        BY <1>4, <3>2 DEF NotSaved, save_failed, Policies
  <2>2. (stored' # NoRecord => Followed(stored'.knobs)) /\ request' = NoRecord
      BY <1>4 DEF NotSaved, Cell!GiveUp, SeenInv, AllFollowed
  <2> QED
      BY <1>2, <1>4, <2>1, <2>2, InitialIs DEF NotSaved, SeenInv, AllFollowed, SeenIsOwed, callback
<1> QED
    BY <1>1, <1>3, <1>4

\* What a pass has compared since power-up is in the flash, the whole vector with
\* its flags, or the policy still owes it: no change the loop has seen is forgotten
\* by a failed write, a change during a write, a wrap of the clock or a copy taken
\* again (persist_prev, save_due, save_done, save_failed).
THEOREM NothingSeenIsForgotten == Spec => []SeenIsOwed
<1>1. Inv /\ SeenInv /\ [Next]_vars => SeenInv'
  <2> SUFFICES ASSUME Inv, SeenInv, [Next]_vars PROVE SeenInv'
      OBVIOUS
  <2>1. CASE Tick
      BY <2>1 DEF Tick, SeenInv, AllFollowed, SeenIsOwed, cell, callback, foreground
  <2>2. CASE UNCHANGED vars
      BY <2>2 DEF vars, SeenInv, AllFollowed, SeenIsOwed, cell, callback, foreground, history
  <2> QED
      BY <2>1, <2>2, SeenPower, SeenCallback, SeenCopy, SeenSeed, SeenDecide, SeenWrite
      DEF Next, Foreground
<1>2. SeenInv => SeenIsOwed
    BY DEF SeenInv
<1> QED
    BY <1>1, <1>2, SeenInit, LoopInvariance, PTL DEF Spec
=============================================================================
