---------------------------- MODULE WorkloadRun ----------------------------
(* The remote workload runs of the measurement image and the overrun guard  *)
(* that silences a callback over its budget: remote_block() and             *)
(* panel_scan_block_end() (shell/panel_scan.cpp) over OverrunGuard,         *)
(* WorkloadRun and TogSettle (shell/workload_run.cpp), and the foreground's *)
(* frame, which says whether the numbers it prints are counted.             *)
(*                                                                          *)
(* A block is one audio callback, an interrupt the foreground cannot enter. *)
(* The frame's reads and its reset are a step each, with blocks in between. *)
(* Every block number the code keeps is compared as an unsigned difference  *)
(* to the current one, so the model keeps the differences (ages). A gen is  *)
(* only ever compared for equality with the run's own: the model keeps      *)
(* whether what was read is still of the current gen.                       *)
EXTENDS Integers, Sequences, FiniteSets

CONSTANTS
    Workloads,      \* the workload table: set of [settle, rec]
    Base,           \* the workload under the gesture
    Steps,          \* the gesture: the counted block of each of its steps
    GuardBlocks,    \* kGuardBlocks
    RearmBlocks,    \* kGuardRearmBlocks
    TogBlocks,      \* kTogSettleBlocks
    MaxAge,         \* bound: blocks a run is left alone (the code's age wraps
                    \* at 2^32 blocks, 99 days)
    MaxTally        \* bound: counted blocks up to which a run is toggled

(* The table's settles (500 and 2500 blocks) are longer than a TOG's (200). *)
ASSUME SettleAssumption ==
    /\ TogBlocks \in Nat \ {0} /\ GuardBlocks \in Nat \ {0} /\ RearmBlocks \in Nat \ {0}
    /\ \A w \in Workloads : w.settle \in Nat /\ TogBlocks < w.settle /\ w.rec \in BOOLEAN
    /\ Base \in Workloads /\ Steps \in Seq(Nat)

VARIABLES
    run,    \* WorkloadRun: active, blocks since start_, settle_, offset_
    guard,  \* OverrunGuard: streaks, silence count, tripped
    tog,    \* TogSettle: armed, blocks since the TOG
    off,    \* bit 31 of the toggle word: the guard is not consulted
    rec,    \* REC: latched in the vector, and whether the run's end releases it
    gest,   \* the gesture: playing, its steps applied
    heard,  \* whether the last block called process()
    win,    \* the WIN window: reset asked, holds a block the run does not count
    peak,   \* cb_max: holds a block the run does not count
    frame,  \* the foreground's frame: pc, what it read
    hist    \* history: what really happened, for the properties

vars == <<run, guard, tog, off, rec, gest, heard, win, peak, frame, hist>>

-----------------------------------------------------------------------------
(* The overrun guard *)

Clear == [streak |-> 0, pstreak |-> 0, silent |-> 0, tripped |-> FALSE]

Extended(streak, over) == IF ~over THEN 0 ELSE IF streak < GuardBlocks THEN streak + 1 ELSE streak

(* A tripped guard counts the blocks it silences and lets go by itself.     *)
Silenced(g) ==
    IF g.silent + 1 >= RearmBlocks THEN Clear ELSE [g EXCEPT !.silent = @ + 1]

Fed(g, cb, period) ==
    LET s == Extended(g.streak, cb)
        p == Extended(g.pstreak, period)
    IN  [g EXCEPT !.streak = s, !.pstreak = p, !.tripped = s >= GuardBlocks \/ p >= GuardBlocks]

block(g, cb, period) == IF g.tripped THEN Silenced(g) ELSE Fed(g, cb, period)

reset_streak(g) == [g EXCEPT !.streak = 0, !.pstreak = 0, !.silent = 0]

-----------------------------------------------------------------------------
(* A run: its settle and its count *)

counting(r) == r.active /\ r.age >= r.settle

settle_ends(r) == r.active /\ r.age = r.settle

counted(r) == IF counting(r) THEN r.offset + (r.age - r.settle) ELSE 0

Started(w) == [active |-> TRUE, age |-> 0, settle |-> w.settle, offset |-> 0]

Stopped(r) == [r EXCEPT !.active = FALSE, !.age = 0]

\* mutant: a TOG during the settle always takes its place.
resettle_short(r) ==
    IF ~r.active THEN r
    ELSE [r EXCEPT !.offset = IF counting(r) THEN counted(r) ELSE @,
                   !.age = 0, !.settle = TogBlocks]

\* mutant: the count goes on from the block after the TOG's.
resettle_past(r) ==
    IF counting(r)
    THEN [r EXCEPT !.offset = counted(r) + 1, !.age = 0, !.settle = TogBlocks]
    ELSE IF r.active /\ r.age + TogBlocks > r.settle
    THEN [r EXCEPT !.age = 0, !.settle = TogBlocks]
    ELSE r

(* A TOG: the count pauses and the run settles again, at the later of the   *)
(* two ends when it was still settling.                                     *)
resettle(r) ==
    IF counting(r)
    THEN [r EXCEPT !.offset = counted(r), !.age = 0, !.settle = TogBlocks]
    ELSE IF r.active /\ r.age + TogBlocks > r.settle
    THEN [r EXCEPT !.age = 0, !.settle = TogBlocks]
    ELSE r

-----------------------------------------------------------------------------
(* The callback. c is what remote_block() works on; c.did is its command,   *)
(* c.reset says that the maxima were reset.                                 *)

Now == [run |-> IF run.active THEN [run EXCEPT !.age = @ + 1] ELSE run,
        guard |-> guard,
        tog |-> IF tog.armed THEN [tog EXCEPT !.age = @ + 1] ELSE tog,
        off |-> off, rec |-> rec, gest |-> gest, did |-> "none", reset |-> FALSE]

start_workload(c, w) ==
    [c EXCEPT !.run = Started(w), !.guard = Clear, !.did = "load", !.reset = TRUE,
              !.rec = [on |-> w.rec, release |-> w.rec]]

Load(c, w) == [start_workload(c, w) EXCEPT !.gest.on = FALSE]

Gesture(c) == [start_workload(c, Base) EXCEPT !.gest = [on |-> TRUE, next |-> 0]]

(* HOME restores the panel of the first LOAD; REC was off in it.            *)
Home(c) == [c EXCEPT !.run = Stopped(@), !.gest.on = FALSE, !.guard = Clear, !.reset = TRUE,
                     !.rec.on = FALSE]

ResetMax(c) == [c EXCEPT !.guard = Clear, !.reset = TRUE]

\* mutant: every TOG starts the silence again.
ToggleStartsSilence(c, bit31) ==
    [c EXCEPT !.off = bit31, !.guard = reset_streak(@), !.tog = [armed |-> TRUE, age |-> 0],
              !.run = resettle(@), !.did = "toggle"]

\* mutant: the streaks outlive the blocks the guard was off.
ToggleKeepsStreak(c, bit31) ==
    [c EXCEPT !.off = bit31, !.tog = [armed |-> TRUE, age |-> 0],
              !.run = resettle(@), !.did = "toggle"]

(* TOG: bit 31 as given (another bit leaves it). A flip of bit 31 starts    *)
(* the guard's streaks again.                                               *)
Toggle(c, bit31) ==
    [c EXCEPT !.off = bit31, !.guard = IF bit31 = c.off THEN @ ELSE reset_streak(@),
              !.tog = [armed |-> TRUE, age |-> 0],
              !.run = resettle(@), !.did = "toggle"]

(* The run's gen went up: a LOAD, or a TOG during a run.                    *)
Bumped(c) == c.did = "load" \/ (c.did = "toggle" /\ c.run.active)

(* At most one command a block.                                             *)
Commanded(c) ==
    {c} \union {Load(c, w) : w \in Workloads} \union {Gesture(c), Home(c), ResetMax(c)}
        \union IF counted(c.run) <= MaxTally
               THEN {Toggle(c, b) : b \in BOOLEAN} ELSE {}

TogEnds(c) ==
    IF c.tog.armed /\ c.tog.age >= TogBlocks
    THEN [c EXCEPT !.tog = [armed |-> FALSE, age |-> 0], !.reset = TRUE] ELSE c

\* mutant: a tripped guard stays tripped into the counted blocks.
SettleEndsTripped(c) ==
    IF settle_ends(c.run)
    THEN [c EXCEPT !.rec.on = @ /\ ~c.rec.release, !.reset = TRUE]
    ELSE c

(* The settle's end: REC is released, the maxima start again, and a tripped *)
(* guard lets go.                                                           *)
SettleEnds(c) ==
    IF settle_ends(c.run)
    THEN [c EXCEPT !.rec.on = @ /\ ~c.rec.release, !.reset = TRUE,
                   !.guard = IF c.guard.tripped THEN Clear ELSE @]
    ELSE c

Due(n) == Cardinality({i \in DOMAIN Steps : Steps[i] <= n})

(* The gesture's steps that are due by this block.                          *)
Gestured(c) ==
    IF c.gest.on /\ counting(c.run)
    THEN [c EXCEPT !.gest.next = IF Due(counted(c.run)) > @ THEN Due(counted(c.run)) ELSE @]
    ELSE c

remote_block == {Gestured(SettleEnds(TogEnds(c))) : c \in Commanded(Now)}

guard_tripped(c) == c.guard.tripped /\ ~c.off

Least(a, b) == IF a < b THEN a ELSE b

Left(n) == IF n = 0 THEN 0 ELSE n - 1

(* How many played blocks of the run in a row were over, the guard on.      *)
Row(c, n, over) ==
    IF c.off \/ guard_tripped(c) \/ ~over THEN 0
    ELSE Least((IF c.did = "load" THEN 0 ELSE n) + 1, GuardBlocks)

Tally(c) ==
    IF ~c.run.active THEN 0
    ELSE (IF c.did = "load" THEN 0 ELSE hist.tally) + (IF counting(c.run) THEN 1 ELSE 0)

(* What happened in a block: the blocks left of the LOAD's settle and of    *)
(* the last TOG's, the counted blocks of the run so far, and the rows of    *)
(* blocks over each limit.                                                  *)
Remember(c, cb, period) ==
    hist' = [load   |-> IF c.did = "load" THEN c.run.settle ELSE Left(hist.load),
             toggle |-> IF c.did = "toggle" THEN TogBlocks ELSE Left(hist.toggle),
             tally  |-> Tally(c),
             cb     |-> Row(c, hist.cb, cb),
             period |-> Row(c, hist.period, period)]

(* The end of the block: the guard is fed unless it is off, and the block   *)
(* goes into the maxima and, after the reset that was asked for, into the   *)
(* window.                                                                  *)
block_end(c, cb, period) ==
    LET foul == ~counting(c.run)
    IN  /\ guard' = IF c.off THEN c.guard ELSE block(c.guard, cb, period)
        /\ win' = [reset |-> FALSE,
                   foul |-> foul \/ (~(win.reset \/ c.reset) /\ (Bumped(c) \/ win.foul))]
        /\ peak' = (foul \/ (~c.reset /\ (Bumped(c) \/ peak)))
        /\ frame' = IF Bumped(c) THEN [frame EXCEPT !.prev = FALSE, !.before = FALSE, !.foul = TRUE]
                    ELSE frame

Block ==
    \E c \in remote_block, cb, period \in BOOLEAN :
        /\ c.run.age <= MaxAge
        /\ run' = c.run /\ tog' = c.tog /\ off' = c.off /\ rec' = c.rec /\ gest' = c.gest
        /\ heard' = ~guard_tripped(c)
        /\ block_end(c, cb, period)
        /\ Remember(c, cb, period)

-----------------------------------------------------------------------------
(* The foreground's frame: a run reading before the numbers, the numbers,   *)
(* the reset of the window, and a run reading after.                        *)

UnchangedCallback == UNCHANGED <<run, guard, tog, off, rec, gest, heard, peak, hist>>

FrameBefore ==
    /\ frame.pc = "before"
    /\ frame' = [frame EXCEPT !.pc = "win", !.before = counting(run)]
    /\ UNCHANGED win /\ UnchangedCallback

FrameWin ==
    /\ frame.pc = "win"
    /\ frame' = [frame EXCEPT !.pc = "reset", !.foul = win.foul \/ peak]
    /\ UNCHANGED win /\ UnchangedCallback

FrameReset ==
    /\ frame.pc = "reset"
    /\ frame' = [frame EXCEPT !.pc = "after"]
    /\ win' = [win EXCEPT !.reset = TRUE]
    /\ UnchangedCallback

\* mutant: a frame counts when the run counts as it is printed.
CountedNow == counting(run)

(* counting=1: settled at the previous frame's first reading, still settled *)
(* now, and the gen the same.                                               *)
Counted == frame.prev /\ counting(run)

FrameAfter ==
    /\ frame.pc = "after"
    /\ frame' = [pc |-> "before", prev |-> frame.before, before |-> FALSE, foul |-> FALSE]
    /\ UNCHANGED win /\ UnchangedCallback

Foreground == FrameBefore \/ FrameWin \/ FrameReset \/ FrameAfter

Init ==
    /\ run = [active |-> FALSE, age |-> 0, settle |-> 0, offset |-> 0]
    /\ guard = Clear
    /\ tog = [armed |-> FALSE, age |-> 0]
    /\ off = FALSE
    /\ rec = [on |-> FALSE, release |-> FALSE]
    /\ gest = [on |-> FALSE, next |-> 0]
    /\ heard = TRUE
    /\ win = [reset |-> FALSE, foul |-> TRUE]
    /\ peak = TRUE
    /\ frame = [pc |-> "before", prev |-> FALSE, before |-> FALSE, foul |-> FALSE]
    /\ hist = [load |-> 0, toggle |-> 0, tally |-> 0, cb |-> 0, period |-> 0]

Next == Block \/ Foreground

(* The audio interrupt comes every 2 ms.                                    *)
Spec == Init /\ [][Next]_vars /\ WF_vars(Block)

-----------------------------------------------------------------------------
(* Properties *)

(* A block counts exactly when its run's own settle is over and the last    *)
(* TOG is kTogSettleBlocks back: whatever the order of loads and TOGs,      *)
(* nothing of a switch-over is measured and no settled block is lost        *)
(* (WorkloadRun::counting() after start() and resettle()).                  *)
CountIsSettled ==
    run.active => (counting(run) <=> hist.load = 0 /\ hist.toggle = 0)

(* The first counted block plays what the run is about: the callback was    *)
(* not silenced, and REC has been let go (remote_block()'s settle end).     *)
CountStartsHeard ==
    /\ settle_ends(run) => heard
    /\ counting(run) => ~rec.on

(* A gesture's step is applied in the counted block it was written for,     *)
(* across every pause a TOG makes: the applied steps are always those of    *)
(* the blocks counted so far (WorkloadRun::counted(), the gesture's loop).  *)
StepsOnTime ==
    gest.on => gest.next = Cardinality({i \in DOMAIN Steps : Steps[i] < hist.tally})

(* The guard trips only for GuardBlocks blocks in a row of one run that     *)
(* were played, while it was on, and were over one and the same limit.      *)
TripsAreReal ==
    [][guard'.tripped /\ ~guard.tripped =>
           hist'.cb = GuardBlocks \/ hist'.period = GuardBlocks]_vars

(* A frame printed counting=1 holds counted blocks of its own run only, in  *)
(* its window and in cb_max, wherever the callback cut into its reading.    *)
FramesAreCounted ==
    [][frame.pc = "after" /\ frame'.pc = "before" /\ Counted => ~frame.foul]_vars

(* The guard always lets go: process() is called again and again, whatever  *)
(* the host sends and however late the blocks are.                          *)
GuardLetsGo == []<>heard
=============================================================================
