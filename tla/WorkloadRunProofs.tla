------------------------- MODULE WorkloadRunProofs -------------------------
(***************************************************************************)
(* Proofs about the workload runs and the overrun guard, for every table of *)
(* workloads, every gesture, every settle and every guard length.           *)
(***************************************************************************)
EXTENDS WorkloadRun, FiniteSetTheorems, TLAPS

Runs == [active : BOOLEAN, age : Nat, settle : Nat, offset : Nat]
Guards == [streak : Nat, pstreak : Nat, silent : Nat, tripped : BOOLEAN]
Togs == [armed : BOOLEAN, age : Nat]
Recs == [on : BOOLEAN, release : BOOLEAN]
Gests == [on : BOOLEAN, next : Nat]
Frames == [pc : {"before", "win", "reset", "after"}, prev : BOOLEAN, before : BOOLEAN,
           foul : BOOLEAN]
Hists == [load : Nat, toggle : Nat, tally : Nat, cb : Nat, period : Nat]

\* The callback's working record.
Callbacks == [run : Runs, guard : Guards, tog : Togs, off : BOOLEAN, rec : Recs, gest : Gests,
              did : {"none", "load", "toggle"}, reset : BOOLEAN]

TypeOK ==
    /\ run \in Runs /\ guard \in Guards /\ tog \in Togs /\ off \in BOOLEAN
    /\ rec \in Recs /\ gest \in Gests /\ heard \in BOOLEAN
    /\ win \in [reset : BOOLEAN, foul : BOOLEAN] /\ peak \in BOOLEAN
    /\ frame \in Frames /\ hist \in Hists

-----------------------------------------------------------------------------
(* What a block's command does.                                             *)

LEMMA DueType == ASSUME NEW n \in Nat PROVE Due(n) \in Nat
<1>1. DOMAIN Steps = 1 .. Len(Steps) /\ Len(Steps) \in Nat
    BY SettleAssumption
<1>2. IsFiniteSet(DOMAIN Steps)
    BY <1>1, FS_Interval
<1>3. {i \in DOMAIN Steps : Steps[i] <= n} \subseteq DOMAIN Steps
    OBVIOUS
<1>4. IsFiniteSet({i \in DOMAIN Steps : Steps[i] <= n})
    BY <1>2, <1>3, FS_Subset
<1> QED
    BY <1>4, FS_CardinalityType DEF Due

LEMMA NowType == ASSUME TypeOK PROVE Now \in Callbacks
BY DEF TypeOK, Now, Callbacks, Runs, Togs, Guards, Recs, Gests

LEMMA CountedType == ASSUME NEW r \in Runs PROVE counted(r) \in Nat
BY DEF counted, counting, Runs

LEMMA ResettleType == ASSUME NEW r \in Runs PROVE resettle(r) \in Runs
BY CountedType, SettleAssumption DEF resettle, Runs, counting

LEMMA StartedType == ASSUME NEW w \in Workloads PROVE Started(w) \in Runs
BY SettleAssumption DEF Started, Runs

\* The working record after each command.
IsLoad(k) == \E w \in Workloads :
    /\ k.run = Started(w) /\ k.guard = Clear /\ k.did = "load" /\ k.reset
    /\ k.rec = [on |-> w.rec, release |-> w.rec] /\ k.off = off
    /\ k.gest.on => k.gest.next = 0

IsHome(k) ==
    /\ k.run = Stopped(Now.run) /\ k.guard = Clear /\ k.did = "none" /\ k.reset
    /\ ~k.rec.on /\ k.rec.release = rec.release /\ k.off = off /\ ~k.gest.on

IsReset(k) ==
    /\ k.run = Now.run /\ k.guard = Clear /\ k.did = "none" /\ k.rec = rec /\ k.off = off
    /\ k.gest = gest

IsToggle(k) ==
    /\ k.run = resettle(Now.run) /\ k.did = "toggle" /\ k.rec = rec /\ k.gest = gest
    /\ k.guard = IF k.off = off THEN guard ELSE reset_streak(guard)

IsNothing(k) ==
    /\ k.run = Now.run /\ k.guard = guard /\ k.did = "none" /\ k.rec = rec /\ k.off = off
    /\ k.gest = gest

LEMMA Commands ==
    ASSUME TypeOK, NEW k \in Commanded(Now)
    PROVE  /\ k \in Callbacks
           /\ IsNothing(k) \/ IsLoad(k) \/ IsHome(k) \/ IsReset(k) \/ IsToggle(k)
<1>1. Now \in Callbacks
    BY NowType
<1>2. Now.guard = guard /\ Now.off = off /\ Now.rec = rec /\ Now.gest = gest /\ Now.did = "none"
    BY DEF Now
<1>3. Clear \in Guards
    BY DEF Clear, Guards
<1>4. CASE k = Now
    BY <1>1, <1>2, <1>4 DEF IsNothing
<1>5. CASE \E w \in Workloads : k = Load(Now, w)
  <2>1. PICK w \in Workloads : k = Load(Now, w)
      BY <1>5
  <2>2. w.rec \in BOOLEAN
      BY SettleAssumption
  <2> QED
      BY <1>1, <1>2, <1>3, <2>1, <2>2, StartedType
      DEF Load, start_workload, Callbacks, Recs, Gests, IsLoad
<1>6. CASE k = Gesture(Now)
  <2>1. Base \in Workloads /\ Base.rec \in BOOLEAN
      BY SettleAssumption
  <2> QED
      BY <1>1, <1>2, <1>3, <1>6, <2>1, StartedType
      DEF Gesture, start_workload, Callbacks, Recs, Gests, IsLoad
<1>7. CASE k = Home(Now)
  <2>1. Stopped(Now.run) \in Runs
      BY <1>1 DEF Stopped, Callbacks, Runs
  <2> QED
      BY <1>1, <1>2, <1>3, <1>7, <2>1 DEF Home, Callbacks, Recs, Gests, IsHome
<1>8. CASE k = ResetMax(Now)
    BY <1>1, <1>2, <1>3, <1>8 DEF ResetMax, Callbacks, IsReset
<1>9. CASE \E b \in BOOLEAN : k = Toggle(Now, b)
  <2>1. PICK b \in BOOLEAN : k = Toggle(Now, b)
      BY <1>9
  <2>2. resettle(Now.run) \in Runs
      BY <1>1, ResettleType DEF Callbacks
  <2>3. reset_streak(guard) \in Guards /\ guard \in Guards
      BY DEF reset_streak, Guards, TypeOK
  <2> QED
      BY <1>1, <1>2, <2>1, <2>2, <2>3 DEF Toggle, Callbacks, Togs, IsToggle
<1> QED
    BY <1>4, <1>5, <1>6, <1>7, <1>8, <1>9 DEF Commanded

Larger(a, b) == IF a >= b THEN a ELSE b

\* What remote_block() makes of the command's record k.
IsAfter(c, k) ==
    /\ c \in Callbacks
    /\ c.run = k.run /\ c.did = k.did /\ c.off = k.off
    /\ c.guard = IF settle_ends(k.run) /\ k.guard.tripped THEN Clear ELSE k.guard
    /\ c.rec = IF settle_ends(k.run) THEN [k.rec EXCEPT !.on = @ /\ ~k.rec.release] ELSE k.rec
    /\ settle_ends(k.run) => c.reset
    /\ c.gest = [k.gest EXCEPT !.next = IF k.gest.on /\ counting(k.run) THEN Larger(Due(counted(k.run)), @) ELSE @]

LEMMA Stages ==
    ASSUME TypeOK, NEW c \in remote_block
    PROVE  \E k \in Commanded(Now) : IsAfter(c, k)
<1>1. PICK k \in Commanded(Now) : c = Gestured(SettleEnds(TogEnds(k)))
    BY DEF remote_block
<1>2. k \in Callbacks
    BY Commands
<1> DEFINE t == TogEnds(k)  s == SettleEnds(t)
<1>3. /\ t \in Callbacks /\ t.run = k.run /\ t.did = k.did /\ t.off = k.off
      /\ t.guard = k.guard /\ t.rec = k.rec /\ t.gest = k.gest
    BY <1>2 DEF TogEnds, Callbacks, Togs
<1>4. /\ s \in Callbacks /\ s.run = t.run /\ s.did = t.did /\ s.off = t.off
      /\ s.guard = IF settle_ends(t.run) /\ t.guard.tripped THEN Clear ELSE t.guard
      /\ s.rec = IF settle_ends(t.run) THEN [t.rec EXCEPT !.on = @ /\ ~t.rec.release] ELSE t.rec
      /\ settle_ends(t.run) => s.reset
      /\ s.gest = t.gest
  <2>1. Clear \in Guards
      BY DEF Clear, Guards
  <2>2. [t.rec EXCEPT !.on = @ /\ ~t.rec.release] \in Recs
      BY <1>3 DEF Callbacks, Recs
  <2> HIDE DEF t
  <2> QED
      BY <1>3, <2>1, <2>2 DEF SettleEnds, Callbacks
<1>5. /\ c \in Callbacks /\ c.run = s.run /\ c.did = s.did /\ c.off = s.off
      /\ c.guard = s.guard /\ c.rec = s.rec /\ c.reset = s.reset
      /\ c.gest = [s.gest EXCEPT !.next = IF s.gest.on /\ counting(s.run) THEN Larger(Due(counted(s.run)), @) ELSE @]
  <2>1. c = Gestured(s)
      BY <1>1
  <2>2. counted(s.run) \in Nat
      BY <1>4, CountedType DEF Callbacks
  <2>3. Due(counted(s.run)) \in Nat
      BY <2>2, DueType
  <2> HIDE DEF s
  <2> QED
      BY <1>4, <2>1, <2>3 DEF Gestured, Callbacks, Gests, Larger
<1>6. IsAfter(c, k)
    BY <1>3, <1>4, <1>5 DEF IsAfter
<1> QED
    BY <1>6

LEMMA GuardType ==
    ASSUME NEW g \in Guards, NEW cb \in BOOLEAN, NEW period \in BOOLEAN
    PROVE  block(g, cb, period) \in Guards
<1>1. Silenced(g) \in Guards
    BY DEF Silenced, Clear, Guards
<1>2. ASSUME NEW n \in Nat, NEW over \in BOOLEAN PROVE Extended(n, over) \in Nat
    BY DEF Extended
<1>3. Fed(g, cb, period) \in Guards
  <2>1. Extended(g.streak, cb) \in Nat /\ Extended(g.pstreak, period) \in Nat
      BY <1>2 DEF Guards
  <2> QED
      BY <2>1 DEF Fed, Guards
<1> QED
    BY <1>1, <1>3 DEF block

LEMMA RememberType ==
    ASSUME TypeOK, NEW c \in Callbacks, NEW cb \in BOOLEAN, NEW period \in BOOLEAN,
           Remember(c, cb, period)
    PROVE  hist' \in Hists
<1>1. ASSUME NEW n \in Nat, NEW over \in BOOLEAN PROVE Row(c, n, over) \in Nat
    BY <1>1, SettleAssumption DEF Row, Least
<1>2. ASSUME NEW n \in Nat PROVE Left(n) \in Nat
    BY DEF Left
<1>3. Tally(c) \in Nat
    BY DEF Tally, TypeOK, Hists
<1>4. hist.load \in Nat /\ hist.toggle \in Nat /\ hist.cb \in Nat /\ hist.period \in Nat
    BY DEF TypeOK, Hists
<1>5. c.run.settle \in Nat
    BY DEF Callbacks, Runs
<1> QED
    BY <1>1, <1>2, <1>3, <1>4, <1>5, SettleAssumption DEF Remember, Hists

LEMMA TypeStep == TypeOK /\ [Next]_vars => TypeOK'
<1> SUFFICES ASSUME TypeOK, [Next]_vars PROVE TypeOK'
    OBVIOUS
<1>1. ASSUME Block PROVE TypeOK'
  <2>1. PICK c \in remote_block, cb \in BOOLEAN, period \in BOOLEAN :
            /\ run' = c.run /\ tog' = c.tog /\ off' = c.off /\ rec' = c.rec /\ gest' = c.gest
            /\ heard' = ~guard_tripped(c)
            /\ block_end(c, cb, period)
            /\ Remember(c, cb, period)
      BY <1>1 DEF Block
  <2>2. c \in Callbacks
      BY Stages DEF IsAfter
  <2>3. hist' \in Hists
      BY <2>1, <2>2, RememberType
  <2>4. block(c.guard, cb, period) \in Guards
      BY <2>2, GuardType DEF Callbacks
  <2>5. /\ guard' \in Guards /\ win' \in [reset : BOOLEAN, foul : BOOLEAN]
        /\ peak' \in BOOLEAN /\ frame' \in Frames
      BY <2>1, <2>2, <2>4 DEF block_end, Callbacks, Frames, TypeOK
  <2> QED
      BY <2>1, <2>2, <2>3, <2>5 DEF TypeOK, Callbacks, guard_tripped
<1>2. ASSUME Foreground PROVE TypeOK'
  <2>1. /\ frame \in Frames /\ run \in Runs /\ win.foul \in BOOLEAN /\ peak \in BOOLEAN
        /\ win \in [reset : BOOLEAN, foul : BOOLEAN]
      BY DEF TypeOK
  <2>2. counting(run) \in BOOLEAN
      BY <2>1 DEF counting, Runs
  <2>3. frame' \in Frames /\ win' \in [reset : BOOLEAN, foul : BOOLEAN]
    <3>1. CASE FrameBefore
        BY <3>1, <2>1, <2>2 DEF FrameBefore, Frames
    <3>2. CASE FrameWin
        BY <3>2, <2>1 DEF FrameWin, Frames
    <3>3. CASE FrameReset
        BY <3>3, <2>1 DEF FrameReset, Frames
    <3>4. CASE FrameAfter
        BY <3>4, <2>1 DEF FrameAfter, Frames
    <3> QED
        BY <1>2, <3>1, <3>2, <3>3, <3>4 DEF Foreground
  <2>4. UnchangedCallback
      BY <1>2 DEF Foreground, FrameBefore, FrameWin, FrameReset, FrameAfter
  <2> QED
      BY <2>3, <2>4 DEF TypeOK, UnchangedCallback
<1>3. ASSUME UNCHANGED vars PROVE TypeOK'
    BY <1>3 DEF vars, TypeOK
<1> QED
    BY <1>1, <1>2, <1>3 DEF Next

LEMMA TypeInit == Init => TypeOK
<1> SUFFICES ASSUME Init PROVE TypeOK
    OBVIOUS
<1>1. run \in Runs /\ tog \in Togs /\ rec \in Recs /\ gest \in Gests
    BY DEF Init, Runs, Togs, Recs, Gests
<1>2. guard \in Guards
    BY DEF Init, Clear, Guards
<1>3. frame \in Frames /\ hist \in Hists
    BY DEF Init, Frames, Hists
<1>4. off \in BOOLEAN /\ heard \in BOOLEAN /\ peak \in BOOLEAN
    BY DEF Init
<1>5. win \in [reset : BOOLEAN, foul : BOOLEAN]
    BY DEF Init
<1> QED
    BY <1>1, <1>2, <1>3, <1>4, <1>5 DEF TypeOK

LEMMA TypeInvariant == Spec => []TypeOK
<1>1. TypeOK /\ [Next]_vars => TypeOK'
    BY TypeStep
<1> QED
    BY TypeInit, <1>1, PTL DEF Spec

-----------------------------------------------------------------------------
(* A block, as the properties see it.                                       *)

\* What a block does to the state, from its command's record k.
IsBlock(c, k, cb, period) ==
    /\ k \in Callbacks
    /\ IsNothing(k) \/ IsLoad(k) \/ IsHome(k) \/ IsReset(k) \/ IsToggle(k)
    /\ IsAfter(c, k)
    /\ run' = c.run /\ off' = c.off /\ rec' = c.rec /\ gest' = c.gest
    /\ heard' = ~guard_tripped(c)
    /\ block_end(c, cb, period)
    /\ Remember(c, cb, period)

LEMMA BlockIs ==
    ASSUME TypeOK, Block
    PROVE  \E c, k \in Callbacks, cb, period \in BOOLEAN : IsBlock(c, k, cb, period)
<1>1. PICK c \in remote_block, cb \in BOOLEAN, period \in BOOLEAN :
          /\ run' = c.run /\ tog' = c.tog /\ off' = c.off /\ rec' = c.rec /\ gest' = c.gest
          /\ heard' = ~guard_tripped(c)
          /\ block_end(c, cb, period)
          /\ Remember(c, cb, period)
    BY DEF Block
<1>2. PICK k \in Commanded(Now) : IsAfter(c, k)
    BY Stages
<1>3. c \in Callbacks
    BY <1>2 DEF IsAfter
<1>4. k \in Callbacks /\ (IsNothing(k) \/ IsLoad(k) \/ IsHome(k) \/ IsReset(k) \/ IsToggle(k))
    BY Commands
<1>5. IsBlock(c, k, cb, period)
    BY <1>1, <1>2, <1>4 DEF IsBlock
<1> QED
    BY <1>3, <1>4, <1>5

\* The foreground leaves the run, the guard and the history alone.
LEMMA ForegroundIs ==
    ASSUME Foreground
    PROVE  UNCHANGED <<run, guard, tog, off, rec, gest, heard, peak, hist>>
BY DEF Foreground, FrameBefore, FrameWin, FrameReset, FrameAfter, UnchangedCallback

-----------------------------------------------------------------------------
(* The settle.                                                              *)

\* Blocks until the run counts: the code's own reckoning.
Remaining(r) == IF r.age >= r.settle THEN 0 ELSE r.settle - r.age

\* The run's settle ends with the later of the LOAD's and the last TOG's.
SettleInv ==
    /\ hist.toggle <= TogBlocks
    /\ run.active => Remaining(run) = Larger(hist.load, hist.toggle)

\* A run's settle after each command is the later of the two, too.
LEMMA SettleCommand ==
    ASSUME TypeOK, SettleInv, NEW k \in Callbacks,
           IsNothing(k) \/ IsLoad(k) \/ IsHome(k) \/ IsReset(k) \/ IsToggle(k),
           k.run.active
    PROVE  Remaining(k.run) = Larger(IF k.did = "load" THEN k.run.settle ELSE Left(hist.load),
                                     IF k.did = "toggle" THEN TogBlocks ELSE Left(hist.toggle))
<1>1. /\ hist.load \in Nat /\ hist.toggle \in Nat /\ TogBlocks \in Nat
      /\ hist.toggle <= TogBlocks /\ TogBlocks > 0
    BY SettleAssumption DEF TypeOK, Hists, SettleInv
<1>2. run \in Runs /\ run.active \in BOOLEAN /\ run.age \in Nat /\ run.settle \in Nat
    BY DEF TypeOK, Runs
<1>3. run.active => /\ Now.run.active /\ Now.run.age = run.age + 1
                    /\ Now.run.settle = run.settle
    BY <1>2 DEF Now, Runs
<1>4. ~run.active => ~Now.run.active
    BY DEF Now
<1>5. run.active => Remaining(Now.run) = Larger(Left(hist.load), Left(hist.toggle))
    BY <1>1, <1>2, <1>3 DEF SettleInv, Remaining, Larger, Left
<1>6. CASE IsNothing(k) \/ IsReset(k)
    BY <1>4, <1>5, <1>6 DEF IsNothing, IsReset
<1>7. CASE IsLoad(k)
  <2>1. PICK w \in Workloads : k.run = Started(w) /\ k.did = "load"
      BY <1>7 DEF IsLoad
  <2>2. k.run.age = 0 /\ k.run.settle = w.settle
      BY <2>1 DEF Started
  <2>3. w.settle \in Nat /\ TogBlocks < w.settle
      BY SettleAssumption
  <2> QED
      BY <1>1, <2>1, <2>2, <2>3 DEF Remaining, Larger, Left
<1>8. CASE IsHome(k)
  <2>1. ~k.run.active
      BY <1>2, <1>8, NowType DEF IsHome, Stopped, Callbacks, Runs
  <2> QED
      BY <2>1
<1>9. CASE IsToggle(k)
  <2>1. k.run = resettle(Now.run) /\ k.did = "toggle"
      BY <1>9 DEF IsToggle
  <2>2. Now.run \in Runs
      BY NowType DEF Callbacks
  <2>3. run.active
      BY <1>4, <2>1, <2>2 DEF resettle, counting, Runs
  <2>4. CASE counting(Now.run)
    <3>1. k.run.age = 0 /\ k.run.settle = TogBlocks
        BY <2>1, <2>2, <2>4 DEF resettle, Runs
    <3>2. Remaining(Now.run) = 0
        BY <2>4 DEF counting, Remaining
    <3>3. Left(hist.load) = 0
        BY <1>1, <1>5, <2>3, <3>2 DEF Larger, Left
    <3> QED
        BY <1>1, <2>1, <3>1, <3>3 DEF Remaining, Larger
  <2>5. CASE ~counting(Now.run) /\ Now.run.age + TogBlocks > Now.run.settle
    <3>1. k.run.age = 0 /\ k.run.settle = TogBlocks
        BY <1>3, <2>1, <2>2, <2>3, <2>5 DEF resettle, Runs
    <3>2. Left(hist.load) <= TogBlocks
        BY <1>1, <1>2, <1>3, <1>5, <2>3, <2>5 DEF Larger, Left, Remaining, counting
    <3>3. Left(hist.load) \in Nat
        BY <1>1 DEF Left
    <3> QED
        BY <1>1, <2>1, <3>1, <3>2, <3>3 DEF Remaining, Larger
  <2>6. CASE ~counting(Now.run) /\ ~(Now.run.age + TogBlocks > Now.run.settle)
    <3>1. k.run = Now.run
        BY <2>1, <2>6 DEF resettle
    <3> QED
        BY <1>1, <1>2, <1>3, <1>5, <2>1, <2>3, <2>6, <3>1 DEF Larger, Left, Remaining
  <2> QED
      BY <2>4, <2>5, <2>6
<1> QED
    BY <1>6, <1>7, <1>8, <1>9

LEMMA SettleStep == TypeOK /\ SettleInv /\ [Next]_vars => SettleInv'
<1> SUFFICES ASSUME TypeOK, SettleInv, [Next]_vars PROVE SettleInv'
    OBVIOUS
<1>1. ASSUME Block PROVE SettleInv'
  <2>1. PICK c, k \in Callbacks, cb, period \in BOOLEAN : IsBlock(c, k, cb, period)
      BY <1>1, BlockIs
  <2>2. run' = k.run /\ c.run = k.run /\ c.did = k.did
      BY <2>1 DEF IsBlock, IsAfter
  <2>3. /\ hist'.load = IF k.did = "load" THEN k.run.settle ELSE Left(hist.load)
        /\ hist'.toggle = IF k.did = "toggle" THEN TogBlocks ELSE Left(hist.toggle)
      BY <2>1, <2>2 DEF IsBlock, Remember
  <2>4. hist'.toggle <= TogBlocks
      BY <2>3, SettleAssumption DEF SettleInv, TypeOK, Hists, Left
  <2>5. ASSUME k.run.active
        PROVE  Remaining(k.run) = Larger(hist'.load, hist'.toggle)
      BY <2>1, <2>3, <2>5, SettleCommand DEF IsBlock
  <2> QED
      BY <2>2, <2>4, <2>5 DEF SettleInv
<1>2. ASSUME Foreground PROVE SettleInv'
    BY <1>2, ForegroundIs DEF SettleInv, Remaining
<1>3. ASSUME UNCHANGED vars PROVE SettleInv'
    BY <1>3 DEF vars, SettleInv, Remaining
<1> QED
    BY <1>1, <1>2, <1>3 DEF Next

\* A block counts exactly when the LOAD's settle and the last TOG's are both
\* over, for every table of workloads and every TOG settle shorter than theirs
\* (WorkloadRun::counting() after start() and resettle()).
THEOREM CountingIsSettled == Spec => []CountIsSettled
<1>1. Init => SettleInv
    BY SettleAssumption DEF Init, SettleInv
<1>2. TypeOK /\ SettleInv /\ [Next]_vars => SettleInv'
    BY SettleStep
<1>3. TypeOK /\ SettleInv => CountIsSettled
    BY DEF TypeOK, SettleInv, CountIsSettled, Remaining, Larger, counting, Runs, Hists
<1> QED
    BY <1>1, <1>2, <1>3, TypeInvariant, PTL DEF Spec

-----------------------------------------------------------------------------
(* The guard.                                                               *)

\* A streak is never longer than the row of played, late blocks behind it; a
\* guard that is off has none.
TripInv ==
    /\ off => guard.streak = 0 /\ guard.pstreak = 0
    /\ ~guard.tripped => guard.streak <= hist.cb /\ guard.pstreak <= hist.period
    /\ hist.cb <= GuardBlocks /\ hist.period <= GuardBlocks

\* The same of the guard a block's end finds, before it is fed.
LEMMA TripCommand ==
    ASSUME TypeOK, TripInv, NEW c \in Callbacks, NEW k \in Callbacks,
           NEW cb \in BOOLEAN, NEW period \in BOOLEAN, IsBlock(c, k, cb, period)
    PROVE  /\ c.off => c.guard.streak = 0 /\ c.guard.pstreak = 0
           /\ ~c.guard.tripped =>
                 /\ c.guard.streak <= IF c.did = "load" THEN 0 ELSE hist.cb
                 /\ c.guard.pstreak <= IF c.did = "load" THEN 0 ELSE hist.period
<1>1. /\ c.off = k.off /\ c.did = k.did
      /\ c.guard = Clear \/ (c.guard = k.guard)
    BY DEF IsBlock, IsAfter
<1>2. Clear.streak = 0 /\ Clear.pstreak = 0 /\ ~Clear.tripped
    BY DEF Clear
<1>3. hist.cb \in Nat /\ hist.period \in Nat
    BY DEF TypeOK, Hists
<1>4. k.guard = Clear \/ k.guard = guard \/ k.guard = reset_streak(guard)
    BY DEF IsBlock, IsNothing, IsLoad, IsHome, IsReset, IsToggle
<1>5. /\ reset_streak(guard).streak = 0 /\ reset_streak(guard).pstreak = 0
      /\ reset_streak(guard).tripped = guard.tripped
    BY DEF reset_streak, TypeOK, Guards
<1>6. k.guard = guard /\ k.guard # Clear => k.did # "load"
    BY DEF IsBlock, IsNothing, IsLoad, IsHome, IsReset, IsToggle
<1>7. CASE c.guard = Clear
    BY <1>2, <1>3, <1>7
<1>8. CASE c.guard = reset_streak(guard)
    BY <1>3, <1>5, <1>8
<1>9. CASE c.guard = guard /\ k.guard = guard /\ guard # Clear /\ guard # reset_streak(guard)
  <2>1. k.off = off
      BY <1>9 DEF IsBlock, IsNothing, IsLoad, IsHome, IsReset, IsToggle
  <2> QED
      BY <1>1, <1>6, <1>9, <2>1 DEF TripInv
<1> QED
    BY <1>1, <1>4, <1>7, <1>8, <1>9

\* A streak that is no longer than its row stays so in a played block.
LEMMA RowCovers ==
    ASSUME NEW c \in Callbacks, NEW n \in Nat, NEW streak \in Nat, NEW over \in BOOLEAN,
           ~c.off, ~guard_tripped(c), streak <= IF c.did = "load" THEN 0 ELSE n, n <= GuardBlocks
    PROVE  /\ Row(c, n, over) \in Nat /\ Row(c, n, over) <= GuardBlocks
           /\ Extended(streak, over) <= Row(c, n, over)
<1>1. GuardBlocks \in Nat \ {0}
    BY SettleAssumption
<1> DEFINE m == IF c.did = "load" THEN 0 ELSE n
<1>2. m \in Nat /\ streak <= m /\ m <= GuardBlocks
    BY <1>1
<1>3. Row(c, n, over) = IF ~over THEN 0 ELSE Least(m + 1, GuardBlocks)
    BY DEF Row
<1> HIDE DEF m
<1>4. Least(m + 1, GuardBlocks) = IF m + 1 < GuardBlocks THEN m + 1 ELSE GuardBlocks
    BY DEF Least
<1>5. CASE ~over
    BY <1>1, <1>3, <1>5 DEF Extended
<1>6. CASE over
    BY <1>1, <1>2, <1>3, <1>4, <1>6 DEF Extended
<1> QED
    BY <1>5, <1>6

\* A block keeps TripInv, and trips only after a full row.
LEMMA TripBlock ==
    ASSUME TypeOK, TripInv, Block
    PROVE  /\ TripInv'
           /\ guard'.tripped /\ ~guard.tripped =>
                 hist'.cb = GuardBlocks \/ hist'.period = GuardBlocks
<1>1. PICK c, k \in Callbacks, cb, period \in BOOLEAN : IsBlock(c, k, cb, period)
    BY BlockIs
<1>2. /\ c.off => c.guard.streak = 0 /\ c.guard.pstreak = 0
      /\ ~c.guard.tripped =>
            /\ c.guard.streak <= IF c.did = "load" THEN 0 ELSE hist.cb
            /\ c.guard.pstreak <= IF c.did = "load" THEN 0 ELSE hist.period
    BY <1>1, TripCommand
<1>3. /\ off' = c.off
      /\ guard' = IF c.off THEN c.guard ELSE block(c.guard, cb, period)
      /\ hist'.cb = Row(c, hist.cb, cb) /\ hist'.period = Row(c, hist.period, period)
    BY <1>1 DEF IsBlock, block_end, Remember
<1>4. /\ c.guard \in Guards /\ c.off \in BOOLEAN /\ hist.cb \in Nat /\ hist.period \in Nat
      /\ GuardBlocks \in Nat \ {0}
    BY SettleAssumption DEF Callbacks, TypeOK, Hists
<1>5. CASE c.off
  <2>1. hist'.cb = 0 /\ hist'.period = 0
      BY <1>3, <1>5 DEF Row
  <2>2. guard'.tripped => guard.tripped
    <3>1. c.guard = Clear \/ c.guard = guard \/ c.guard = reset_streak(guard)
        BY <1>1 DEF IsBlock, IsAfter, IsNothing, IsLoad, IsHome, IsReset, IsToggle
    <3>2. ~Clear.tripped /\ reset_streak(guard).tripped = guard.tripped
        BY DEF Clear, reset_streak, TypeOK, Guards
    <3> QED
        BY <1>3, <1>5, <3>1, <3>2
  <2> QED
      BY <1>2, <1>3, <1>4, <1>5, <2>1, <2>2 DEF TripInv
<1>6. CASE ~c.off /\ c.guard.tripped
  <2>1. guard' = Silenced(c.guard)
      BY <1>3, <1>6 DEF block
  <2>2. guard'.tripped \/ guard' = Clear
      BY <1>6, <2>1, <1>4 DEF Silenced, Guards
  <2>3. hist'.cb = 0 /\ hist'.period = 0
      BY <1>3, <1>6 DEF Row, guard_tripped
  <2>4. guard.tripped
    <3>1. c.guard = Clear \/ c.guard = guard \/ c.guard = reset_streak(guard)
        BY <1>1 DEF IsBlock, IsAfter, IsNothing, IsLoad, IsHome, IsReset, IsToggle
    <3>2. ~Clear.tripped /\ reset_streak(guard).tripped = guard.tripped
        BY DEF Clear, reset_streak, TypeOK, Guards
    <3> QED
        BY <1>6, <3>1, <3>2
  <2> QED
      BY <1>3, <1>4, <1>6, <2>2, <2>3, <2>4 DEF TripInv, Clear
<1>7. CASE ~c.off /\ ~c.guard.tripped
  <2> DEFINE s == Extended(c.guard.streak, cb)
             q == Extended(c.guard.pstreak, period)
  <2>1. s \in Nat /\ q \in Nat
      BY <1>4 DEF Extended, Guards
  <2>2. guard' = Fed(c.guard, cb, period)
      BY <1>3, <1>7 DEF block
  <2>3. guard'.streak = s /\ guard'.pstreak = q
        /\ guard'.tripped = (s >= GuardBlocks \/ q >= GuardBlocks)
      BY <1>4, <2>2 DEF Fed, Guards
  <2>4. ~guard_tripped(c)
      BY <1>7 DEF guard_tripped
  <2>5. /\ s <= hist'.cb /\ hist'.cb <= GuardBlocks /\ hist'.cb \in Nat
      BY <1>2, <1>3, <1>4, <1>7, <2>4, RowCovers DEF Guards, TripInv
  <2>6. /\ q <= hist'.period /\ hist'.period <= GuardBlocks /\ hist'.period \in Nat
      BY <1>2, <1>3, <1>4, <1>7, <2>4, RowCovers DEF Guards, TripInv
  <2> HIDE DEF s, q
  <2> QED
      BY <1>3, <1>4, <1>7, <2>1, <2>3, <2>5, <2>6 DEF TripInv
<1> QED
    BY <1>4, <1>5, <1>6, <1>7

LEMMA TripStep == TypeOK /\ TripInv /\ [Next]_vars => TripInv'
<1> SUFFICES ASSUME TypeOK, TripInv, [Next]_vars PROVE TripInv'
    OBVIOUS
<1>1. ASSUME Block PROVE TripInv'
    BY <1>1, TripBlock
<1>2. ASSUME Foreground PROVE TripInv'
    BY <1>2, ForegroundIs DEF TripInv
<1>3. ASSUME UNCHANGED vars PROVE TripInv'
    BY <1>3 DEF vars, TripInv
<1> QED
    BY <1>1, <1>2, <1>3 DEF Next

\* The guard trips only for GuardBlocks blocks in a row of one run that were
\* played with the guard on and were over one limit, whatever TOGs of bit 31,
\* loads, settle ends and re-arms come between (OverrunGuard::block(),
\* reset_streak(), clear()).
THEOREM GuardTripsAreReal == Spec => TripsAreReal
<1>1. Init => TripInv
    BY SettleAssumption DEF Init, TripInv, Clear
<1>2. TypeOK /\ TripInv /\ [Next]_vars => TripInv'
    BY TripStep
<1>3. TypeOK /\ TripInv /\ [Next]_vars =>
          [guard'.tripped /\ ~guard.tripped =>
               hist'.cb = GuardBlocks \/ hist'.period = GuardBlocks]_vars
  <2>1. ASSUME TypeOK, TripInv, Block, guard'.tripped, ~guard.tripped
        PROVE  hist'.cb = GuardBlocks \/ hist'.period = GuardBlocks
      BY <2>1, TripBlock
  <2>2. ASSUME Foreground PROVE guard' = guard
      BY <2>2, ForegroundIs
  <2> QED
      BY <2>1, <2>2 DEF Next
<1> QED
    BY <1>1, <1>2, <1>3, TypeInvariant, PTL DEF Spec, TripsAreReal

-----------------------------------------------------------------------------
(* The first counted block.                                                 *)

\* REC latched by the material is let go before a block counts.
HeardInv ==
    /\ settle_ends(run) => heard
    /\ run.active /\ rec.on => rec.release /\ ~counting(run)

LEMMA HeardBlock == TypeOK /\ HeardInv /\ Block => HeardInv'
<1> SUFFICES ASSUME TypeOK, HeardInv, Block PROVE HeardInv'
    OBVIOUS
<1>1. PICK c, k \in Callbacks, cb, period \in BOOLEAN : IsBlock(c, k, cb, period)
    BY BlockIs
<1>2. /\ run' = k.run /\ c.run = k.run /\ rec' = c.rec /\ heard' = ~guard_tripped(c)
      /\ c.guard = IF settle_ends(k.run) /\ k.guard.tripped THEN Clear ELSE k.guard
      /\ c.rec = IF settle_ends(k.run) THEN [k.rec EXCEPT !.on = @ /\ ~k.rec.release] ELSE k.rec
    BY <1>1 DEF IsBlock, IsAfter
<1>3. settle_ends(run') => heard'
  <2>1. settle_ends(k.run) => ~c.guard.tripped
      BY <1>2 DEF Clear
  <2> QED
      BY <1>2, <2>1 DEF guard_tripped
<1>4. /\ run \in Runs /\ Now.run \in Runs /\ k.run \in Runs /\ rec \in Recs /\ k.rec \in Recs
      /\ TogBlocks \in Nat \ {0}
    BY NowType, SettleAssumption DEF TypeOK, Callbacks
<1>5. k.run.active /\ k.rec.on => k.rec.release /\ (counting(k.run) => settle_ends(k.run))
  <2> SUFFICES ASSUME k.run.active, k.rec.on
               PROVE  k.rec.release /\ (counting(k.run) => settle_ends(k.run))
      OBVIOUS
  <2>1. run.active => /\ Now.run.active /\ Now.run.age = run.age + 1
                      /\ Now.run.settle = run.settle
      BY <1>4 DEF Now, Runs
  <2>2. ~run.active => ~Now.run.active
      BY DEF Now
  <2>3. CASE IsNothing(k) \/ IsReset(k)
      BY <1>4, <2>1, <2>2, <2>3 DEF IsNothing, IsReset, HeardInv, counting, settle_ends, Runs
  <2>4. CASE IsLoad(k)
    <3>1. PICK w \in Workloads : k.run = Started(w) /\ k.rec = [on |-> w.rec, release |-> w.rec]
        BY <2>4 DEF IsLoad
    <3>2. w.settle \in Nat /\ TogBlocks < w.settle
        BY SettleAssumption
    <3> QED
        BY <1>4, <3>1, <3>2 DEF Started, counting
  <2>5. CASE IsHome(k)
      BY <2>5 DEF IsHome
  <2>6. CASE IsToggle(k)
    <3>1. k.run = resettle(Now.run) /\ k.rec = rec
        BY <2>6 DEF IsToggle
    <3>2. run.active
        BY <1>4, <2>2, <3>1 DEF resettle, counting, Runs
    <3>3. rec.release
        BY <3>1, <3>2 DEF HeardInv
    <3>4. ~counting(k.run)
        BY <1>4, <3>1 DEF resettle, counting, Runs
    <3> QED
        BY <3>1, <3>3, <3>4
  <2> QED
      BY <1>1, <2>3, <2>4, <2>5, <2>6 DEF IsBlock
<1>6. k.run.active /\ c.rec.on => c.rec.release /\ ~counting(k.run)
    BY <1>2, <1>4, <1>5 DEF Recs
<1> QED
    BY <1>2, <1>3, <1>6 DEF HeardInv

LEMMA HeardStep == TypeOK /\ HeardInv /\ [Next]_vars => HeardInv'
<1>1. ASSUME HeardInv, Foreground PROVE HeardInv'
    BY <1>1, ForegroundIs DEF HeardInv, settle_ends, counting
<1>2. ASSUME HeardInv, UNCHANGED vars PROVE HeardInv'
    BY <1>2 DEF vars, HeardInv, settle_ends, counting
<1> QED
    BY <1>1, <1>2, HeardBlock DEF Next

\* The block a settle ends in is played, and no counted block records: the
\* guard is cleared and REC released exactly there, after a TOG's re-settle
\* too (remote_block(), rearm_at_settle_end()).
THEOREM CountingStartsHeard == Spec => []CountStartsHeard
<1>1. Init => HeardInv
    BY DEF Init, HeardInv, settle_ends
<1>2. TypeOK /\ HeardInv /\ [Next]_vars => HeardInv'
    BY HeardStep
<1>3. HeardInv => CountStartsHeard
    BY DEF HeardInv, CountStartsHeard, counting
<1> QED
    BY <1>1, <1>2, <1>3, TypeInvariant, PTL DEF Spec

-----------------------------------------------------------------------------
(* The foreground's frame.                                                  *)

\* While the run counts, the window and cb_max hold counted blocks only, and
\* so does what a frame copied of them if the run counted at the reading
\* before; a reading of the current gen is only undone by HOME.
FrameInv ==
    /\ counting(run) => ~win.foul /\ ~peak
    /\ frame.prev => counting(run) \/ ~run.active
    /\ frame.before => counting(run) \/ ~run.active
    /\ frame.pc \in {"reset", "after"} /\ frame.prev /\ counting(run) => ~frame.foul

LEMMA FrameBlock == TypeOK /\ FrameInv /\ Block => FrameInv'
<1> SUFFICES ASSUME TypeOK, FrameInv, Block PROVE FrameInv'
    OBVIOUS
<1>1. PICK c, k \in Callbacks, cb, period \in BOOLEAN : IsBlock(c, k, cb, period)
    BY BlockIs
<1>2. /\ run' = c.run /\ c.run = k.run /\ c.did = k.did
      /\ settle_ends(c.run) => c.reset
      /\ win'.foul = (~counting(c.run) \/ (~(win.reset \/ c.reset) /\ (Bumped(c) \/ win.foul)))
      /\ peak' = (~counting(c.run) \/ (~c.reset /\ (Bumped(c) \/ peak)))
      /\ frame' = IF Bumped(c) THEN [frame EXCEPT !.prev = FALSE, !.before = FALSE, !.foul = TRUE]
                  ELSE frame
    BY <1>1 DEF IsBlock, IsAfter, block_end
<1>3. /\ run \in Runs /\ Now.run \in Runs /\ k.run \in Runs /\ frame \in Frames
      /\ TogBlocks \in Nat \ {0}
    BY NowType, SettleAssumption DEF TypeOK, Callbacks
<1>4. run.active => /\ Now.run.active /\ Now.run.age = run.age + 1
                    /\ Now.run.settle = run.settle
    BY <1>3 DEF Now, Runs
<1>5. ~run.active => ~Now.run.active
    BY DEF Now

\* Without a new gen the run goes on, or HOME ended it.
<1>6. ~Bumped(k) => k.run = Now.run \/ ~k.run.active
  <2>1. CASE IsLoad(k)
      BY <2>1 DEF IsLoad, Bumped
  <2>2. CASE IsHome(k)
      BY <1>3, <2>2 DEF IsHome, Stopped, Runs
  <2>3. CASE IsToggle(k)
      BY <1>3, <2>3 DEF IsToggle, Bumped
  <2> QED
      BY <1>1, <2>1, <2>2, <2>3 DEF IsBlock, IsNothing, IsReset

\* With one it does not count yet.
<1>7. Bumped(k) => ~counting(k.run)
  <2>1. CASE IsLoad(k)
    <3>1. PICK w \in Workloads : k.run = Started(w)
        BY <2>1 DEF IsLoad
    <3>2. w.settle \in Nat /\ TogBlocks < w.settle
        BY SettleAssumption
    <3> QED
        BY <1>3, <3>1, <3>2 DEF Started, counting
  <2>2. CASE IsToggle(k)
      BY <1>3, <2>2 DEF IsToggle, resettle, counting, Runs
  <2> QED
      BY <1>1, <2>1, <2>2 DEF IsBlock, IsNothing, IsReset, IsHome, Bumped
<1>8. Bumped(c) = Bumped(k)
    BY <1>2 DEF Bumped
<1>9. CASE Bumped(k)
  <2>1. frame'.prev = FALSE /\ frame'.before = FALSE
      BY <1>2, <1>3, <1>8, <1>9 DEF Frames
  <2> QED
      BY <1>2, <1>7, <1>9, <2>1 DEF FrameInv
<1>10. CASE ~Bumped(k)
  <2>1. frame' = frame
      BY <1>2, <1>8, <1>10
  <2>2. counting(k.run) => k.run = Now.run /\ (counting(run) \/ settle_ends(k.run))
      BY <1>3, <1>4, <1>5, <1>6, <1>10 DEF counting, settle_ends, Runs
  <2>3. counting(run) => counting(k.run) \/ ~k.run.active
      BY <1>3, <1>4, <1>6, <1>10 DEF counting, Runs
  <2>4. ~run.active => ~k.run.active
      BY <1>5, <1>6, <1>10
  <2>5. counting(k.run) => ~win'.foul /\ ~peak'
      BY <1>2, <1>8, <1>10, <2>2 DEF FrameInv
  <2>6. frame.pc \in {"reset", "after"} /\ frame.prev /\ counting(k.run) => ~frame.foul
      BY <2>2, <2>4 DEF FrameInv, counting
  <2> QED
      BY <1>2, <2>1, <2>3, <2>4, <2>5, <2>6 DEF FrameInv
<1> QED
    BY <1>9, <1>10

LEMMA FrameForeground == TypeOK /\ FrameInv /\ Foreground => FrameInv'
<1> SUFFICES ASSUME TypeOK, FrameInv, Foreground PROVE FrameInv'
    OBVIOUS
<1>1. run' = run /\ peak' = peak
    BY ForegroundIs
<1>2. frame \in Frames /\ win \in [reset : BOOLEAN, foul : BOOLEAN]
    BY DEF TypeOK
<1>3. counting(run)' = counting(run)
    BY <1>1 DEF counting
<1>4. win'.foul = win.foul
    BY <1>2 DEF Foreground, FrameBefore, FrameWin, FrameReset, FrameAfter
<1>5. CASE FrameBefore
    BY <1>1, <1>2, <1>3, <1>4, <1>5 DEF FrameBefore, FrameInv, Frames
<1>6. CASE FrameWin
    BY <1>1, <1>2, <1>3, <1>4, <1>6 DEF FrameWin, FrameInv, Frames
<1>7. CASE FrameReset
    BY <1>1, <1>2, <1>3, <1>4, <1>7 DEF FrameReset, FrameInv, Frames
<1>8. CASE FrameAfter
    BY <1>1, <1>2, <1>3, <1>4, <1>8 DEF FrameAfter, FrameInv, Frames
<1> QED
    BY <1>5, <1>6, <1>7, <1>8 DEF Foreground

LEMMA FrameStep == TypeOK /\ FrameInv /\ [Next]_vars => FrameInv'
<1>1. ASSUME FrameInv, UNCHANGED vars PROVE FrameInv'
    BY <1>1 DEF vars, FrameInv, counting
<1> QED
    BY <1>1, FrameBlock, FrameForeground DEF Next

\* A frame printed counting=1 holds counted blocks of its own run only,
\* wherever the callback cut into the reading (run_panel_scan_report()'s
\* `before` and `after` readings of the run).
THEOREM CountedFrames == Spec => FramesAreCounted
<1>1. Init => FrameInv
    BY DEF Init, FrameInv, counting
<1>2. TypeOK /\ FrameInv /\ [Next]_vars => FrameInv'
    BY FrameStep
<1>3. FrameInv =>
          [frame.pc = "after" /\ frame'.pc = "before" /\ Counted => ~frame.foul]_vars
    BY DEF FrameInv, Counted
<1> QED
    BY <1>1, <1>2, <1>3, TypeInvariant, PTL DEF Spec, FramesAreCounted
-----------------------------------------------------------------------------
(* The gesture.                                                             *)

\* The steps written for a block before the n-th counted one.
StepsBefore(n) == {i \in DOMAIN Steps : Steps[i] < n}

\* The code's reckoning of the counted blocks is the tally of those that were,
\* across every pause; a gesture plays in a run only, and has applied the steps
\* of the blocks counted so far.
StepsInv ==
    /\ run.active => hist.tally = IF counting(run) THEN counted(run) + 1 ELSE run.offset
    /\ gest.on => run.active /\ gest.next = Cardinality(StepsBefore(hist.tally))

\* More blocks, more steps; a block's own steps are due in it.
LEMMA StepsGrow ==
    ASSUME NEW m \in Nat, NEW n \in Nat, m <= n
    PROVE  /\ Cardinality(StepsBefore(m)) \in Nat
           /\ Cardinality(StepsBefore(m)) <= Cardinality(StepsBefore(n))
           /\ StepsBefore(0) = {}
           /\ Due(n) = Cardinality(StepsBefore(n + 1))
<1>1. DOMAIN Steps = 1 .. Len(Steps) /\ Len(Steps) \in Nat
    BY SettleAssumption
<1>2. \A i \in DOMAIN Steps : Steps[i] \in Nat
    BY SettleAssumption, <1>1
<1>3. IsFiniteSet(DOMAIN Steps)
    BY <1>1, FS_Interval
<1>4. StepsBefore(n) \subseteq DOMAIN Steps /\ StepsBefore(m) \subseteq StepsBefore(n)
    BY <1>2 DEF StepsBefore
<1>5. IsFiniteSet(StepsBefore(n))
    BY <1>3, <1>4, FS_Subset
<1>6. /\ IsFiniteSet(StepsBefore(m))
      /\ Cardinality(StepsBefore(m)) <= Cardinality(StepsBefore(n))
    BY <1>4, <1>5, FS_Subset
<1>7. StepsBefore(0) = {}
    BY <1>2 DEF StepsBefore
<1>8. {i \in DOMAIN Steps : Steps[i] <= n} = StepsBefore(n + 1)
    BY <1>2 DEF StepsBefore
<1> QED
    BY <1>6, <1>7, <1>8, FS_CardinalityType DEF Due

\* The tally after a command, as the command's record reckons it.
LEMMA StepsCommand ==
    ASSUME TypeOK, StepsInv, NEW k \in Callbacks,
           IsNothing(k) \/ IsLoad(k) \/ IsHome(k) \/ IsReset(k) \/ IsToggle(k),
           k.run.active
    PROVE  /\ Tally(k) = IF counting(k.run) THEN counted(k.run) + 1 ELSE k.run.offset
           /\ k.did # "load" => run.active
           /\ k.did = "load" => Tally(k) = 0
<1>1. /\ hist.tally \in Nat /\ run \in Runs /\ Now.run \in Runs /\ k.run \in Runs
      /\ TogBlocks \in Nat \ {0}
    BY NowType, SettleAssumption DEF TypeOK, Hists, Callbacks
<1>2. run.active => /\ Now.run.active /\ Now.run.age = run.age + 1
                    /\ Now.run.settle = run.settle /\ Now.run.offset = run.offset
    BY <1>1 DEF Now, Runs
<1>3. ~run.active => ~Now.run.active
    BY DEF Now

\* The block before this one's command, as it stands.
<1>4. ASSUME run.active PROVE hist.tally = Now.run.offset + IF counting(Now.run) THEN Now.run.age - Now.run.settle ELSE 0
    BY <1>1, <1>2, <1>4 DEF StepsInv, counting, counted, Runs
<1>5. CASE IsNothing(k) \/ IsReset(k)
  <2>1. k.run = Now.run /\ k.did = "none"
      BY <1>5 DEF IsNothing, IsReset
  <2> QED
      BY <1>1, <1>3, <1>4, <2>1 DEF Tally, counted, Runs
<1>6. CASE IsLoad(k)
  <2>1. PICK w \in Workloads : k.run = Started(w) /\ k.did = "load"
      BY <1>6 DEF IsLoad
  <2>2. w.settle \in Nat /\ TogBlocks < w.settle
      BY SettleAssumption
  <2>3. ~counting(k.run) /\ k.run.offset = 0
      BY <1>1, <2>1, <2>2 DEF Started, counting
  <2> QED
      BY <2>1, <2>3 DEF Tally
<1>7. CASE IsHome(k)
    BY <1>1, <1>7 DEF IsHome, Stopped, Runs
<1>8. CASE IsToggle(k)
  <2>1. k.run = resettle(Now.run) /\ k.did = "toggle"
      BY <1>8 DEF IsToggle
  <2>2. run.active
      BY <1>1, <1>3, <2>1 DEF resettle, counting, Runs
  <2>3. ~counting(k.run)
      BY <1>1, <2>1 DEF resettle, counting, Runs
  <2>4. k.run.offset = hist.tally
      BY <1>1, <1>4, <2>1, <2>2 DEF resettle, counting, counted, Runs
  <2> QED
      BY <2>1, <2>2, <2>3, <2>4, <1>1 DEF Tally
<1> QED
    BY <1>5, <1>6, <1>7, <1>8

LEMMA StepsBlock == TypeOK /\ StepsInv /\ Block => StepsInv'
<1> SUFFICES ASSUME TypeOK, StepsInv, Block PROVE StepsInv'
    OBVIOUS
<1>1. PICK c, k \in Callbacks, cb, period \in BOOLEAN : IsBlock(c, k, cb, period)
    BY BlockIs
<1>2. /\ run' = k.run /\ c.run = k.run /\ c.did = k.did
      /\ gest' = [k.gest EXCEPT !.next = IF k.gest.on /\ counting(k.run) THEN Larger(Due(counted(k.run)), @) ELSE @]
    BY <1>1 DEF IsBlock, IsAfter
<1>3. hist'.tally = Tally(k)
    BY <1>1, <1>2 DEF IsBlock, Remember, Tally
<1>4. /\ hist.tally \in Nat /\ k.run \in Runs /\ k.gest \in Gests /\ gest \in Gests
    BY DEF TypeOK, Hists, Callbacks
<1>5. k.run.active =>
         /\ Tally(k) = IF counting(k.run) THEN counted(k.run) + 1 ELSE k.run.offset
         /\ k.did # "load" => run.active
         /\ k.did = "load" => Tally(k) = 0
    BY <1>1, StepsCommand DEF IsBlock
<1>6. run'.active => hist'.tally = IF counting(run') THEN counted(run') + 1 ELSE run'.offset
    BY <1>2, <1>3, <1>5
<1>7. ASSUME gest'.on
      PROVE  run'.active /\ gest'.next = Cardinality(StepsBefore(hist'.tally))
  <2>1. k.gest.on
      BY <1>2, <1>4, <1>7 DEF Gests
  <2>2. k.run.active
    <3>1. CASE IsLoad(k)
        BY <3>1 DEF IsLoad, Started
    <3>2. CASE IsHome(k)
        BY <2>1, <3>2 DEF IsHome
    <3>3. CASE IsNothing(k) \/ IsReset(k) \/ IsToggle(k)
      <4>1. run.active
          BY <2>1, <3>3 DEF IsNothing, IsReset, IsToggle, StepsInv
      <4>2. Now.run \in Runs /\ Now.run.active
          BY <4>1, NowType DEF Now, Callbacks, Runs
      <4> QED
          BY <3>3, <4>2 DEF IsNothing, IsReset, IsToggle, resettle, Runs
    <3> QED
        BY <1>1, <3>1, <3>2, <3>3 DEF IsBlock
  \* Before the block's own steps, those of the blocks before it are applied.
  <2>3. k.gest.next = Cardinality(StepsBefore(IF k.did = "load" THEN 0 ELSE hist.tally))
    <3>1. CASE IsLoad(k)
      <4>1. StepsBefore(0) = {}
          BY StepsGrow
      <4> QED
          BY <2>1, <3>1, <4>1, FS_EmptySet DEF IsLoad
    <3>2. CASE IsNothing(k) \/ IsReset(k) \/ IsToggle(k)
        BY <2>1, <3>2 DEF IsNothing, IsReset, IsToggle, StepsInv
    <3> QED
        BY <1>1, <2>1, <3>1, <3>2 DEF IsBlock, IsHome
  <2> DEFINE m == IF k.did = "load" THEN 0 ELSE hist.tally
  <2>4. m \in Nat
      BY <1>4
  <2>5. Tally(k) = m + IF counting(k.run) THEN 1 ELSE 0
      BY <2>2, <2>4 DEF Tally
  <2>6. CASE counting(k.run)
    <3>1. counted(k.run) \in Nat /\ Tally(k) = counted(k.run) + 1
        BY <1>4, <1>5, <2>2, <2>6, CountedType
    <3>2. Due(counted(k.run)) = Cardinality(StepsBefore(Tally(k)))
        BY <3>1, StepsGrow
    <3>3. /\ Cardinality(StepsBefore(m)) \in Nat /\ Cardinality(StepsBefore(Tally(k))) \in Nat
          /\ Cardinality(StepsBefore(m)) <= Cardinality(StepsBefore(Tally(k)))
      <4>1. Tally(k) \in Nat /\ m <= Tally(k)
          BY <2>4, <2>5, <3>1
      <4> QED
          BY <2>4, <4>1, StepsGrow
    <3>4. gest'.next = Larger(Due(counted(k.run)), k.gest.next)
        BY <1>2, <1>4, <2>1, <2>6 DEF Gests
    <3> QED
        BY <1>2, <1>3, <2>2, <2>3, <3>2, <3>3, <3>4 DEF Larger
  <2>7. CASE ~counting(k.run)
    <3>1. gest'.next = k.gest.next
        BY <1>2, <1>4, <2>7 DEF Gests
    <3>2. Tally(k) = m
        BY <2>4, <2>5, <2>7
    <3> QED
        BY <1>2, <1>3, <2>2, <2>3, <3>1, <3>2
  <2> QED
      BY <2>6, <2>7
<1> QED
    BY <1>6, <1>7 DEF StepsInv

LEMMA StepsStep == TypeOK /\ StepsInv /\ [Next]_vars => StepsInv'
<1>1. ASSUME StepsInv, Foreground PROVE StepsInv'
    BY <1>1, ForegroundIs DEF StepsInv, counting, counted, StepsBefore
<1>2. ASSUME StepsInv, UNCHANGED vars PROVE StepsInv'
    BY <1>2 DEF vars, StepsInv, counting, counted, StepsBefore
<1> QED
    BY <1>1, <1>2, StepsBlock DEF Next

\* A gesture's step is applied in the counted block it was written for, for
\* every list of steps and however often a TOG pauses the count
\* (WorkloadRun::counted() after resettle(), the gesture's loop).
THEOREM StepsAreOnTime == Spec => []StepsOnTime
<1>1. Init => StepsInv
    BY DEF Init, StepsInv
<1>2. TypeOK /\ StepsInv /\ [Next]_vars => StepsInv'
    BY StepsStep
<1>3. StepsInv => StepsOnTime
    BY DEF StepsInv, StepsOnTime, StepsBefore
<1> QED
    BY <1>1, <1>2, <1>3, TypeInvariant, PTL DEF Spec

-----------------------------------------------------------------------------
(* The silence: what GuardLetsGo rests on.                                  *)

\* A silence is shorter than the guard's re-arm, and the guard was on in it.
SilenceInv ==
    /\ guard.silent < RearmBlocks
    /\ ~heard => ~off

\* In a row of silenced blocks each is one nearer the re-arm, or lets go.
SilenceGrows ==
    ~heard' => /\ guard.tripped
               /\ ~heard /\ guard'.tripped => guard'.silent = guard.silent + 1

LEMMA SilenceBlock ==
    ASSUME TypeOK, SilenceInv, Block
    PROVE  SilenceInv' /\ SilenceGrows
<1>1. PICK c, k \in Callbacks, cb, period \in BOOLEAN : IsBlock(c, k, cb, period)
    BY BlockIs
<1>2. /\ off' = c.off /\ heard' = ~(c.guard.tripped /\ ~c.off)
      /\ guard' = IF c.off THEN c.guard ELSE block(c.guard, cb, period)
    BY <1>1 DEF IsBlock, block_end, guard_tripped
<1>3. /\ c.guard \in Guards /\ guard \in Guards /\ c.off \in BOOLEAN /\ off \in BOOLEAN
      /\ heard \in BOOLEAN /\ RearmBlocks \in Nat \ {0}
    BY SettleAssumption DEF Callbacks, TypeOK
<1>4. /\ c.off = k.off
      /\ \/ c.guard = Clear
         \/ c.guard = guard
         \/ c.guard = reset_streak(guard) /\ k.off # off
    BY <1>1 DEF IsBlock, IsAfter, IsNothing, IsLoad, IsHome, IsReset, IsToggle
<1>5. Clear.silent = 0 /\ ~Clear.tripped
    BY DEF Clear
<1>6. reset_streak(guard).silent = 0 /\ reset_streak(guard).tripped = guard.tripped
    BY <1>3 DEF reset_streak, Guards
<1>7. c.guard.silent < RearmBlocks /\ (c.guard.tripped => guard.tripped)
    BY <1>3, <1>4, <1>5, <1>6 DEF SilenceInv
<1>8. Silenced(c.guard) = Clear \/
        /\ c.guard.silent + 1 < RearmBlocks
        /\ Silenced(c.guard).silent = c.guard.silent + 1
    BY <1>3 DEF Silenced, Guards
<1>9. Fed(c.guard, cb, period).silent = c.guard.silent
    BY <1>3 DEF Fed, Guards
<1>10. guard'.silent < RearmBlocks
    BY <1>2, <1>3, <1>5, <1>7, <1>8, <1>9 DEF block
<1>11. SilenceInv'
    BY <1>2, <1>3, <1>10 DEF SilenceInv
<1>12. ASSUME ~heard' PROVE guard.tripped
    BY <1>2, <1>7, <1>12
<1>13. ASSUME ~heard', ~heard, guard'.tripped PROVE guard'.silent = guard.silent + 1
  <2>1. guard' = Silenced(c.guard) /\ c.guard.tripped /\ ~c.off
      BY <1>2, <1>13 DEF block
  <2>2. guard'.silent = c.guard.silent + 1
      BY <1>5, <1>8, <1>13, <2>1
  <2>3. ~off /\ ~k.off
      BY <1>4, <1>13, <2>1 DEF SilenceInv
  <2>4. c.guard = guard
      BY <1>3, <1>4, <1>5, <2>1, <2>3
  <2> QED
      BY <2>2, <2>4
<1> QED
    BY <1>11, <1>12, <1>13 DEF SilenceGrows

\* process() is silenced by a tripped guard only, and never for more than
\* RearmBlocks blocks on end: each of them brings the re-arm one nearer, and a
\* TOG of bit 31, which starts the silence again, lets process() be called
\* (OverrunGuard::block(), reset_streak(); the callback's guard_tripped).
THEOREM SilenceIsBounded ==
    Spec => [](guard.silent < RearmBlocks) /\ [][Block => SilenceGrows]_vars
<1>1. Init => SilenceInv
    BY SettleAssumption DEF Init, SilenceInv, Clear
<1>2. TypeOK /\ SilenceInv /\ [Next]_vars => SilenceInv'
  <2> SUFFICES ASSUME TypeOK, SilenceInv, [Next]_vars PROVE SilenceInv'
      OBVIOUS
  <2>1. ASSUME Block PROVE SilenceInv'
      BY <2>1, SilenceBlock
  <2>2. ASSUME Foreground PROVE SilenceInv'
      BY <2>2, ForegroundIs DEF SilenceInv
  <2>3. ASSUME UNCHANGED vars PROVE SilenceInv'
      BY <2>3 DEF vars, SilenceInv
  <2> QED
      BY <2>1, <2>2, <2>3 DEF Next
<1>3. TypeOK /\ SilenceInv /\ [Next]_vars => [Block => SilenceGrows]_vars
    BY SilenceBlock
<1>4. SilenceInv => guard.silent < RearmBlocks
    BY DEF SilenceInv
<1> QED
    BY <1>1, <1>2, <1>3, <1>4, TypeInvariant, PTL DEF Spec
=============================================================================
