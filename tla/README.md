# FireFlow in TLA+

TLA+ models of the parts of FireFlow whose correctness is a matter of order,
interruption and failure: what the firmware saves and when, how a deck changes
its engine, how a clock at the jack becomes a tempo and a beat, how a deck keeps
its song, how commands come over USB, how a measured run is counted, how a take
is recorded. TLC checks them on small instances; TLAPS proves what matters most
about the flash log, the save loop, the engine switch, the clock, the song and its
step clock, the measured runs and the recorder for every value of the constants.

1. [The system](#the-system)
2. [The modules](#the-modules)
3. [The runs](#the-runs)
4. [Fairness](#fairness)
5. [The proofs](#the-proofs)
6. [What the runs found](#what-the-runs-found)
7. [Not modelled](#not-modelled)
8. [Plan](#plan)
9. [Running it](#running-it)

## The system

FireFlow is one portable C++ instrument (`engine/`) behind one shared control
law (`control/`), in three hosts: a VCV Rack module (`host/vcv`), an offline
renderer (`host/render`) and the firmware of a Daisy Patch Submodule
(`shell/`). Two decks each have five modulation lanes, one of five engines
(synth, sampler, WAVE, BODY, BBD) and an effect chain; a centre mixes them.

Three things run concurrently on the board:

| actor | what it is | state it owns |
|---|---|---|
| audio callback | an interrupt, once per block of 96 samples (2 ms) | knob vector, pot ownership, boot take, control law, instrument, clock law |
| USB receive | an interrupt of the same priority | line assembler, head of the command ring, the ping flag |
| foreground | the main loop, a pass about every 500 ms | the save policy and its copies, the flash, the printed answers |

They share plain variables: a published copy of the knob vector under a
sequence count, a single-producer ring, a flag, and the pending bits of the
EXTI, which the hardware sets at any instant. Nothing blocks and nothing locks.
In VCV the host serialises the calls; there the hard part is that patches are
restored into a module that is already running. Power can go at any time.

### Components

For each: its state, its operations, what is hard about it, what makes it right.

**Flash records** (`persist_record`, `persist_flash`). Two sectors of slots, each
blank, torn, or a record with a layout, a sequence number and a checksum.
`persist_boot` scans for the newest; `persist_write` picks a slot, erases if it
must, programs, reads back. Hard: the power goes between any two of those, the
driver's result is not a verdict, another firmware's records lie beside one's
own. Right when what was acknowledged is always found again, and the sectors
look like one cell.

**Save loop** (`panel_scan`, `persist_policy`). The callback publishes the knob
vector at the end of each sweep; the foreground copies it, compares it with the
previous copy and saves once it has been quiet for 15 s and 5 min have passed
since the last save. Hard: the callback interrupts the copy; a millisecond
counter wraps; a change falls into a save; a save fails. Right when copies are
whole, writes are rare and changes are not lost.

**Boot take, pots, ENGINE** (`boot_take`, `pot_owner`, `panel_step`,
`control_tick`, `bbd_edge_state`, `Part`). At power-up the record gives the knob
vector, then the first sweep of readings overwrites it (the take), then pots
write only once moved. Turning ENGINE starts a fade-out and a swap; turning it
onto the BBD drops FLUX to 0 and sets the excite flag, which is saved. Hard: the
running engine lags the knob; a restore looks like a turn; a pot never reads.
Right when the edge fires once per turn and never for a restore.

**Clock law and jacks** (`clock_law`, `gate_latch`). Edges become periods, a
window of periods a tempo, resets restarts. Hard: odd periods, lost clocks,
resets that come a little before or after their pulse, edges between the read of
the latch and its clear. Right when a steady clock is followed, glitches are
ridden out, and every reset is answered on a pulse if there is one.

**Remote command channel** (`remote_cmd`, `remote_listen`; measurement images).
Bytes become lines, lines commands; BOOT and PING act in the interrupt, the rest
goes through a ring to the callback. Hard: packets cut lines anywhere, indices
wrap, the pop is interrupted, the ping flag is cleared by one side and set by the
other. Right when the channel means the text, whatever the cuts.

**Record buffer and slice map** (`sample_buffer`, `slice_map`, parts of
`sampler_engine`). A take grows, is stopped into a fade-out over its own
beginning, and is locked as a loop that later takes overdub; a sorted array of
onset markers follows what is written. Hard: stop and punch-in inside either
fade, stops before a frame, a buffer that fills up, wraps, markers whose material
is overwritten. Right when writes stay in the loop, takes stay in one piece and
no marker outlives its material.

**Transport and song restart** (`transport.h`, `Instrument::restart`). The beat
count, snapped to pulses on a grid that moves with PACE; restarts dated back to
their pulse; its own wrap goes back to the clock law and answers a reset whose
clock is gone. Hard: resets just before or after a pulse, PACE turned between
pulses, a clock that comes back with a stale tempo. Right when the beat stands as
many steps past the 1 as pulses have come.

**Overrun guard and workload runs** (`workload_run`, the remote part of
`panel_scan`). Callbacks over budget in a row silence the instrument; silence, a
load or a run's settling re-arms it. A run counts blocks once it has settled; a
toggle pauses the count; the foreground prints frames of what was counted. Hard:
commands in any block, the guard tripping in the settle, callbacks between the
foreground's readings. Right when only settled, audible blocks are counted and a
frame holds blocks of one run.

**Control law** (`control_law.h`, `drift_settle_state`, `song_rung_state`,
`mod_layer`). Panel to setters, through a cache of the values sent, with edge
detectors for DRIFT, SONG and the BBD that must ignore restores. Hard: the
instrument is re-initialised or changes its engine behind the cache. Right when
what is skipped is really there.

**Lanes and song form** (`engine/mod`). Phases, patterns A and B, pending FORM,
SONG, NEW and length work that lands on phrase boundaries. Hard: STEPS, the mode
and the engine change in any order while work is pending; restarts and restores
fall in between. Right when no phrase of the wrong length is forgotten, none is
thrown away unasked, and the pattern that plays is the song's.

**Engines, effects, mixing, pitch** (`engine/synth`, `body`, `feed`, `fx`,
`center`, `pitch`): signal processing, with voice allocation and the quantizer's
hysteresis as its discrete parts.

**Keys, pot walk, LEDs, hosts, measurement images**: see `PROJECT.json`, which
lists every component with its sources and why it is or is not modelled.

### How they interact

```
  pots, keys --> callback: sweep -> boot take / pot ownership -> knob vector
  jacks -> EXTI pending bits -> callback: clock law -> tempo, restart
  USB -> receive interrupt -> ring -> callback;  ping flag -> foreground
  knob vector -> control law -> Instrument (set_engine, REC, ...) -> decks
  running engine -> control law -> events -> FLUX, pot ownership, excite flag
  end of sweep: published vector --(sequence count)--> foreground -> flash
  flash -> boot: knob vector, excite flag
```

## The modules

| module | models | state | actions |
|---|---|---|---|
| `PersistFlash` | the two sectors | contents of each slot, the firmware, the save under way, the last acknowledged record | boot, update, begin of a save, erase, program, read-back, lost mapping, power cut |
| `DurableCell` | what the sectors promise | the stored record, the request, the acknowledged one | ask, commit, acknowledge, give up, reinterpret |
| `PersistSave` | publication and save loop, over a `DurableCell` | knob vector, published copy and count, the loop's copies, the policy, the clock | take, turn, publish; copy word by word, test, seed, decide; the write's outcomes; tick, power |
| `EngineSwitch` | one deck from power-up | record, pots, knobs, take, law, part, excite flag and its hold | move; pots, take, law tick, end of sweep, audio of each block |
| `ClockLaw` | the clock law | running, tempo, window, held period, ages, armed reset | a call with any edges and knob; a discontinuity |
| `ClockJack` | the jacks in front of it | pending bits, the bits read | edge; read, then clear with the law's call |
| `Transport` | the beat | operators only: position, grid, fresh, PACE | |
| `SongClock` | jacks, law and transport together | the transport, the phase the law saw last | edge; read; a block with its law, pulse, restart, tempo and PACE; RST |
| `SongDeck` | the PITCH lane and its song behind the control law | lane, part, what the law remembers | sample; tick with any knobs; engine swap, STEP snap, RST, RESET; preset, Initialize, new sample rate |
| `DeckClock` | the deck's step clock over that lane | the deck step, the copy of PITCH's step | the same, each with what it does to the count |
| `WorkloadRun` | runs, overrun guard, frame | run, guard, toggle's settle, bit 31, REC, gesture, window, frame | a block with any command, late or not; the frame's four readings |
| `CommandChannel` | what the channel promises | text since the last newline, queue, ping | receive, take, note |
| `RemoteChannel` | the channel | line, ring, flag, where the pop and the pong are | receive; the pop's three steps; the pong's three |
| `SampleRecorder` | record buffer and slice map | REC, buffer, markers, detector | frame; REC turned, law tick, scenario event; clear, load |
| `PersistFlashProofs`, `PersistSaveProofs`, `EngineSwitchProofs`, `ClockProofs`, `SongDeckProofs`, `WorkloadRunProofs`, `SampleRecorderProofs`, `RemoteChannelProofs` | proofs | | |

`MC*.tla` give TLC the constants. Each definition that models code is listed in
`PROJECT.json` under `map`, with its lines. Definitions keep the source's names
where there is one (`save_due`, `pot_own`, `on_edge`, `set_recording`); one whose
comment begins with "mutant", or that comes just before a definition whose comment
mentions one, is a broken variant used to show that a property can fail.

Two pairs of modules refine each other. `PersistFlash` implements `DurableCell`:
the cell holds what a boot would find. `PersistSave` then uses the cell itself,
so it composes with the flash without its slots. `RemoteChannel` implements
`CommandChannel`: the queue is the part of the ring between its indices, and the
text typed is what the assembler holds. `SongClock` composes three modules: it
extends `ClockJack`, which extends `ClockLaw`, and `Transport`. `DeckClock` extends
`SongDeck` and adds what `SuperModulator` keeps beside its lane to each of its actions.

### What an action stands for

A callback is an interrupt that the foreground never interrupts, so a whole
callback is one action wherever only the foreground could see the difference
(`Publish`). It is cut into steps where something else can come in: hardware
edges between the read and the clear of the pending bits (`ClockJack`), the pots'
new positions between blocks (`EngineSwitch`). The foreground is cut at every
read of a shared word. In `RemoteChannel` the receive interrupt may also come
between the callback's steps, which the board's priorities exclude and the ring
does not rely on.

Abstractions worth knowing:

- *Values.* Knob vectors are a compared word and an excite word, whose flags the word
  leads to; pots have a few positions and noise above them; a frame has an onset or not;
  a line is a sequence over two letters and a newline.
- *Excite flags.* The loop saves them and does not compare them. In `PersistSave` they
  follow ENGINE (`Followed`), which is what the events of the law and the boot take make
  of them; without that a flag that changed and left the words as they were, between two
  passes, would wait for the next change to be saved.
- *Time.* The clock law counts calls, and its ages saturate from the point at
  which no comparison can tell them apart. The save loop counts passes; the
  clock wraps after four.
- *Tempo.* The mean period is kept as a sum and a count, so every comparison is one
  of integers; the code's are of floats and doubles.
- *Sequence count.* `g_pub_seq` is 32 bits wide and 0 means "nothing published";
  the model's count wraps to 2, since the code's wrap to 0 is years of sweeps away.
- *Beat.* Positions are whole units of a bar. A PACE turn starts the grid again where
  the counter is, in the middle of a step or not, so the next pulse moves the beat by
  up to half a step. A block moves the beat by whole units, the rest of the division is
  dropped. `BeatCountsPulses` is off from a PACE turn, a lost clock or a pulse that is no nearer
  to the next point of the grid than to another, to the next restart.
- *Song.* A pattern is the length it was generated at and whether B's cadence leads
  to A's opening; a song is a function from phrases to A and B. The step grid is
  straight: SHUFFLE only moves the boundaries. A STEPS turn from 8 to 4 and back
  within a phrase leaves a rebuild pending with nothing changed, as in the code, which
  is why `PendingIsAsked` takes any turn since the last landing as asking. A restart
  lands on A, since every song of the ladder begins with it (`LadderAssumption`).
- *Runs.* A block is over each limit or not. Block numbers are kept as ages, and a
  `gen` as "still the current one", because the code only takes differences of the
  first and compares the second. LATE, the void mark of a pot take, trip counters, the
  warm-up and the texts of the acknowledgements decide nothing that is modelled.

## The runs

| run | question | bounds and why they are enough |
|---|---|---|
| `flash_sectors` | is anything acknowledged ever lost, and do the sectors implement the cell? | two slots a sector and four records: appends, rolls in both directions, erases of a used sector; two layouts; every torn erase and program |
| `save_loop` | whole copies, rare writes, no change lost | three turns (there and back after a save, and one more), one failed write, one power cut; a quiet time of 1, a floor of 2 and a clock that wraps at 4, so every difference is taken across the wrap |
| `save_loop_vs_design` | does the record follow the panel as the design says? | as above, without failed writes |
| `engine_switch` | FLUX, the excite flag and the landing of every switch | three engines, so a turn can pass through another one; two moves, of which the second can fall into the fade of the first; a fade of up to two blocks in a sweep of three; every record, every dead row |
| `clock_law` | tempo, loss, knob, restarts | periods of 3 to 6 calls and a band of 5/4: two odd periods can agree, disagree, and lie on either side; a window of three, so that it fills, wraps and is emptied; two readings of the knob, exchanged by symmetry as they are only compared |
| `clock_jacks` | edges, resets and the beat, from the jack to the song | `SongClock` with one period of two blocks and two PACEs; a bar of two or four steps; edges at every step of the callback; 370,370 states. More periods are the theorems' |
| `song_deck` | length, rolls, song, cache, restarts, landing, deck step | `DeckClock`: FLOW and one or two STEPS, of which one differs from FLOW's length; three rungs: two songs under one form, another form; an engine with notes and one without; a cycle of two units, a FLOW floor of two samples; the deck step modulo 2, where a step too many shows; 236,913 states |
| `workload_run` | counting, trips, frames, re-arming | settles of 3 and 4 over a toggle's of 2; two late blocks trip, two silent ones re-arm; a gesture with steps on the first counted block and two on the second; 93,544 states |
| `remote_channel` | does the channel refine its specification? | lines of two letters in packets of three bytes: whole, cut, overlong and empty lines; a ring of two with indices that wrap at four; 71,272 states |
| `sample_recorder` | writes, takes, markers, stops | a buffer of five frames with fades of three: takes shorter and longer than the fade, a full buffer, loops of one frame; two markers at most, so the map fills |
| `recorder_landing` | is a frame noted exactly when it landed? | the same instance |
| `recorder_punch_in` | is a punch-in heard through the control law? | the same instance |

Names of bounds: `MaxSeq`, `MaxTurns`, `MaxFails`, `MaxCuts`, `PubMod`, `ClockMod`
(persistence), `MaxMoves` (engine), `EdgeCap`, `ValidCap`, `OneCap` (clock ages),
`Steady` and `Settle` (the run of equal periods is counted up to twice the window; a
clock counts as steady from two more than the window), `MaxAge` (blocks a run is left alone, longer than
any settle; the code's age wraps after 99 days), `MaxTally` (counted blocks up to
which a run is toggled), `Wrap` (ring indices), `DeckMod` (the deck step), `MaxFade` (the fade
counter, which a stop and a punch-in between two frames raise by one each time;
the fade curve clamps it).

Deadlock is not checked in `flash_sectors`, which stops when the sequence numbers
run out while the power is on with nothing to save, and in `remote_channel`, where
the board leaves for the bootloader.

What the properties say is in the comment above each of them. The ones that
carry the project:

- `AckedSurvives`, `DistinctSeqs`, `ImplementsCell`: no crash, torn write or failed
  erase makes the boot scan fall back behind an acknowledged save.
- `CopyIsWhole`, `WritesAreRare`, `ChangeIsSaved`: the foreground against the
  callback, the wrap of the clock, and retries.
- `EdgesAreTurns`, `ExciteIsRight`, `FluxWaitsForThePlayer`, `SwitchesLand`: an edge per
  turn, none per restore, the saved flag right, and an end to every switch.
- `SteadyClockIsFollowed`, `NoExcursion` (single odd periods in a steady clock leave the
  tempo exactly where it was), `KnobTakesOver`, `RestartIsOnAPulse`,
  `EdgesAreSeen`, `BeatCountsPulses`, `ResetRestartsTheSong`: the clock from the jack to
  the beat. The last one needs the composition: what answers a reset whose clock is
  gone is the wrap of the transport that the law itself moves.
- `LengthIsOwed`, `PendingIsAsked`, `SongIsInStep`, `RestartPlaysFromTheTop`,
  `PendingLands`: a deck's phrase is rebuilt when and only when it must be, and a
  restart plays from the top. `DeckStepIsPlayed`: the texture lanes move with the melody. `CacheIsTrue`: the law's cache against everything that
  changes the instrument behind it.
- `CountIsSettled`, `CountStartsHeard`, `StepsOnTime`, `TripsAreReal`,
  `FramesAreCounted`, `GuardLetsGo`: what a measured number stands for.
- `CopyIsOldest`, `PingIsAnswered`, `ImplementsChannel`: the channel means its text.
- `WriteInBounds`, `TakeIsContiguous`, `MarkersSorted`, `NoStaleMarker`, `StopIsFinal`: the
  recorder. `NoStaleMarker` leaves out loops of a single frame, for the reason
  `recorder_landing` shows.

## Fairness

Safety needs none. The liveness properties assume:

- *The callback and the foreground keep running* (`WF` on their actions): the
  callback is a DMA interrupt with a deadline, the foreground an endless loop. In
  `WorkloadRun` that is `WF(Block)`, a block every 2 ms; in `SongClock` that the
  callback's place moves for ever, since its steps alternate. No beat is assumed to
  wrap: it follows from the blocks.
- *The phase moves for ever* (`SongDeck`): samples are processed and some of them move
  the lane, whatever else happens in between.
- *The board is switched on again* (`WF(PowerUp)`), after finitely many cuts.
- *Publications recur* (`SF(Publish)`): sweeps end for ever, but the model holds one
  back while the foreground is in a copy another has already cut into.
- *Frames and law ticks recur* in the recorder.

Two liveness properties are conditional in their own text: `PendingLands` speaks of a
deck that is left alone from some time on, because a player can hold a phrase back
for ever by turning STEPS, and `ResetRestartsTheSong` of one whose RST is not pressed
for ever, because RST sets back the beat that would wrap.

Nothing is assumed of the player, the clock, the host or the flash chip: an edge, a
turn, a packet need never come, and a save may fail whenever the budget allows.

## The proofs

Every theorem holds for all values of the constants that satisfy the named
assumptions beside them; TLC evaluates those in each run. The list with a sentence on
each is in `PROJECT.json` under `theorems`.

| module | theorem | property |
|---|---|---|
| `PersistFlashProofs` | `TypeCorrect`, `AckedSaveSurvives`, `SeqsDistinct`, `SectorsImplementCell`, from `Invariance` | `TypeOK`, `AckedSurvives`, `DistinctSeqs`, `ImplementsCell` |
| `PersistSaveProofs` | `CopiesAreWhole`, `WritesKeepTheFloor` | `CopyIsWhole`, `WritesAreRare` |
| | `NothingSeenIsForgotten` | the safety behind `ChangeIsSaved` |
| `EngineSwitchProofs` | `EdgesAreTheTurns`, `ExciteFlagIsRight`, `FluxWaits` | `EdgesAreTurns`, `ExciteIsRight`, `FluxWaitsForThePlayer` |
| `ClockProofs` | `RestartsAreOnPulses`, `EveryEdgeIsSeen`, `SteadyClocksAreFollowed`, `GapsMoveNoTempo`, `KnobTakesTheTempoOver` | `RestartIsOnAPulse`, `EdgesAreSeen`, `SteadyClockIsFollowed`, `NoExcursion`, `KnobTakesOver` |
| | `BeatsCountThePulses`, `NoEdgeIsLost`, `SongRestartsAreOnPulses`, with `BeatsKeepTheJacks` and `InBandIsOnBeat` | `BeatCountsPulses`, `EdgesAreSeen`, `RestartIsOnAPulse`, all of `SongSpec` |
| | `ResetsAreKept` | the safety half of `ResetRestartsTheSong` |
| `SongDeckProofs` | `LengthsAreOwed`, `RollsAreAsked`, `SongsAreInStep`, `CacheIsKept`, `RestartsAreFromTheTop`, from `DeckInvariance` | `LengthIsOwed`, `PendingIsAsked`, `SongIsInStep`, `CacheIsTrue`, `RestartPlaysFromTheTop` |
| | `DeckStepsArePlayed`, from `DeckClockInvariance`; `DeckClockIsADeck` | `DeckStepIsPlayed`; `DeckSpec => Spec`, which carries the five above to the run |
| `WorkloadRunProofs` | `CountingIsSettled`, `CountingStartsHeard`, `StepsAreOnTime`, `GuardTripsAreReal`, `CountedFrames` | `CountIsSettled`, `CountStartsHeard`, `StepsOnTime`, `TripsAreReal`, `FramesAreCounted` |
| | `SilenceIsBounded` | the bound behind `GuardLetsGo` |
| `SampleRecorderProofs` | `WritesStayInBounds`, `TakesAreContiguous`, `MarkersAreSorted`, `NoMarkerIsStale` | `WriteInBounds`, `TakeIsContiguous`, `MarkersSorted`, `NoStaleMarker` |
| | `StopDescends` | the bound behind `StopIsFinal` |
| `RemoteChannelProofs` | `TypeCorrect`, `CopiesAreOldest`, `RingIsTheChannel`, from `ChannelInvariance` | `TypeOK`, `CopyIsOldest`, `ImplementsChannel` |

`EveryEdgeIsSeen` is about `JackSpec`, the jacks without the transport. `BeatsKeepTheJacks` is
`SongSpec => JackSpec`, and carries it to the run (`NoEdgeIsLost`).

None of these properties is inductive. What each needs besides itself:

**The flash** (slots, layouts, knob vectors, the bound on the sequence number, product
and stress image). `AckedSurvives` says nothing about a save in progress, so the step
that erases a sector could erase the newest record. `IInv` adds `SaveInv`, what holds
inside `persist_write`: the record being saved is newer than all others of its layout
until it is found itself; the sector about to be erased does not hold the newest
record; the slot about to be programmed is blank. The lemmas follow the code:

- `ScanNewest`, `ScanIs`, `ScanFacts`: with distinct sequence numbers the scan has one
  answer, the newest record.
- `NextSlotFacts`: the slot chosen is blank or in a sector that is erased first, and
  that sector is not the newest record's.
- `RemainsKeepsNewest`, `EraseStep`: an erase that leaves the newest record alone, however
  far it gets, does not change what the scan finds.
- `NewRecordFound`, `ProgramStep`: a program leaves the scan where it was or makes it find
  the new record.
- `NextInv`, `NextCell`: one step per action.

Where the code scans for the first or the newest of something, the least and the
greatest element of a set of naturals are needed; `LeastExists` takes the one from
the library's fact that `<` is well founded on the naturals, `GreatestExists` the other
from it.

**The save loop** (word values, of which there is one; quiet time, floor, both wraps).
`CopyFollows`: while the count the loop has read still stands, each word it has copied
is the published one; a publication moves the count, and the test sees it. `AgesAreTrue`:
the ages the policy computes by unsigned subtraction never run ahead of the true ones.
When the counter wraps past a stamp they are too short, which makes a write later, never
earlier. `SeenInv`: what the last pass compared is what the flash holds, or the policy is dirty;
during a write it is both dirty and what is being written, so neither an answer nor a failure
can lose it. A pass that sees no change has compared the same vector, flags included, because
every vector but a copy under way has the flags of its ENGINE (`ExciteAssumption`). What
`ChangeIsSaved` adds is that a dirty vector is written in the end.

**The engine switch** (engines, rows, noise and touch of the pots, sweep and fade). The
properties speak of the moment an edge fires or a sweep ends; the invariants follow a
turn from the pot to the landing. `TurnInv` has three parts. `TakeInv`: until the take is
done no pot has written anything and the knob still says what was booted. `LawInv`: an edge
is owed exactly while a turn onto the BBD is under way, and once the restore is
over the engine the law remembers lags the running one only if that is the knob's.
`SweepInv`: a fade is as old as the block of the sweep, so whatever a sweep starts has landed
before the next one reads the pots (`SweepAssumption`); this is what keeps two turns
from being under way at once. `ExciteInv` says when the hold stands for the flag, and
`FluxInv` that FLUX, once dropped, is not owned and its reference is where the pot stands,
so only a move of more than the noise can write it again (`TouchAssumption`: what a resting
pot reads stays within the touch threshold, which is what the threshold is for).

**The clock** (range of periods, window, band, timeout, reset window). `LawKeeps` follows
one call through its stages: a pulse sets the last valid edge to this call, a restart
while the clock runs takes its age from that edge, and none of the stages in between
moves it. For the jacks the invariant adds that nothing is read and unhandled between
two blocks. A reset that is read is a restart or stays armed, and an armed one goes with a
restart or with RST (`ResetsAreKept`); `ResetRestartsTheSong` adds that the block it waits for
comes.

`BeatInv` is about the beat, for every range of periods. While the count is on, the grid and
the counter are where the pulses and the time since the last one put them, modulo two steps:
a pulse asks of the beat only which point is nearest, and an odd and an even one differ by a
step. The law's age of the last edge saturates, but `ClockIs` keeps it within the timeout of a
clock that runs, which is below the saturation (`SumBounds`, `AgeCounts`), so the age is
the time. A pulse before or behind the next point moves the counter to it (`PulseOnBeat`),
provided that point is the nearest (`OnBeat`); a restart puts it on its pulse and past it by the
pulse's age. `InBandIsOnBeat` shows what the proviso costs where the tempo divides the beat:
nothing for a pulse in a band below 3:2, and the code's is 1.2, so what takes the count off is a
period the law itself holds back. `CountAssumption`: no count is negative.

`TempoInv` is about the tempo. While the law runs, the history carries
the last period, how long it has repeated, and the period the whole window held when a stray
one came. `Follows` ties them to the window: its tail is the run of equal periods, less the one
that may be held back; what is held is out of the band, on the recorded side; while there is
a base, the window is full of it. So a run of `Settle` periods has filled the window
whatever was in it, and a single odd period is held and then dropped. The mean of a window
of equal periods is that period (`Sum` is a recursive function, whose defining equation
`SumsExist` proves). Stopped, `Waits` keeps the tempo until the knob moves. `NoneAssumption`: a
period is a number and `None` is not.

**The song** (STEPS positions, slots, rungs, songs, engines, grids of at least two units).
`Inv` holds four things together: `LaneOK` (the length is right or owed; the
pattern is the song's, and B's cadence is bound), `CacheHolds` (what was sent is what
the lane has pending or plays), `Asked` (a roll is the player's) and `AtTop` (a
restarted song stands on its first phrase with its step not yet entered). `Asked` needs
the cache: it is because the first tick after a restore sends what is already there that
it rolls nothing. `law.seeded => ~hist.restored` ties the rung detector to the restore.
`NextOK` has one lemma per action over field-by-field facts about the lane's operations.

The deck step adds two parts to it. `PlaceOK`: the lane's step, once entered, is the slot of its
phase. `PlayedOK`: the deck's copy of that step is current and its step is the number
played, as long as that is counted; from a reset on, the deck step and the slot of the phase
agree modulo the steps of the cycle. `DeckMod` is whole cycles for every STEPS position, so
counting modulo it keeps the slot. `UnitsAssumption`: a cycle has at least a unit for each
step, so that a sample enters one step at most (a step of the fastest lane is hundreds of
samples). Every step of `DeckSpec` is a step of `Spec` or leaves `SongDeck` alone; the proof is by
name, since each action of the one has the other's as a conjunct.

**The runs** (workload table, gesture, guard length, silence, settles longer than a
toggle's). `SettleInv`: what is left of the run's settle is the longer of what is left of the
LOAD's and of the toggle's. `TripInv`: each streak is bounded by the row of blocks that were
really late, and is zero while the guard is off. `HeardInv`: REC is on in a run only if
the run's end of settling releases it, and not once it counts. `FrameInv`: a counting run
has nothing foul in the window or the maximum, and a frame that began in a counting run
keeps that until a LOAD or a toggle changes the `gen`. `SilenceInv`: the silence is shorter than
the re-arm, and a silenced block had the guard on, so the toggle of bit 31 that would start the silence
anew in it is one that turns the guard off and lets the block be played. `StepsInv`: the tally is the counted
blocks, and the next step of a gesture is the number of its steps that lie before them, so
none comes early, late or twice.

**The recorder** (capacity, fade). `BufOK` splits on the lock. `Locked`: the loop is not
empty and holds the head and the resume point. `FirstTake`: the fade counter is
never above the frames written, so a fade-out that runs from frame 0 ends before the end
of the take. The second is what makes repeated stops and punch-ins safe, and is
not visible in either state alone.

For the markers, `MapOK`: they are sorted and within the buffer; the sweep's index stands
behind markers at or before the last frame it was told of, so what it erases on the
way to the next frame is what was overwritten; and a stale one exists in a locked loop of
one frame only. `NoMarkerIsStale` is `NoStaleMarker`, which leaves that loop out. Insertion is
by the place the code's search finds; an erase shifts the rest and keeps the
order (`MapInvariance`).

`EventInv` and `StopDescends`: with REC off a state other than idle and the fade-out is one the
law's next tick ends (a scenario's event has ended it at once), and a frame of the
fade-out takes one off the fade counter, whether or not it fills the buffer. That a tick and the
frames come is the fairness of `StopIsFinal`.

**The remote channel** (letters, commands, the sizes of a line, a packet and the ring, and
where its indices wrap). The code goes over a packet byte by byte and then command by command;
the specification says what the whole text means. So three descriptions are carried along
the two loops, by the least place at which one would fail:

- `Assembled`: after each byte the assembler holds the text since the last newline, or is
  discarding if that is overlong, and has put out the commands that ended so far.
  `Room` is why nothing is put out in vain: every command but the first, which
  may have begun in an earlier packet, has brought its letters and its newline in this one. This is the
  count in the comment on `kMaxCmdsPerPacket` (`remote_listen.cpp:47-53`), and `PacketAssumption` is
  its arithmetic: 64 bytes, 16 commands, three letters.
- `Heeded`: after each command the ring holds what it held and, behind it, as many as fit of those
  that came before a BOOT; the flag and the jump say whether a PING or a BOOT was among them.
- `Lists`: the commands of a packet are read off at the places where they end, in order;
  `Meaning` joins the two loops at these places.

`QueueOf` reads the ring between its indices. A push writes a slot outside and a pop leaves the
others alone because no two places less than a ring apart share a slot, also across the wrap,
which is a multiple of the capacity (`WrapAssumption`; in the code 2^32 and 8). `RInv` adds to the types that a pop
under way has something to pop and has copied the oldest, and that the pong
clears a flag only while it is set. `NoneAssumption`: an empty slot is no command, and the mark of an overlong
text is no text.

Only model-checked:

- every liveness property and everything about fairness, as there is no prover for
  `ENABLED`: `ChangeIsSaved`, `SwitchesLand`, `ResetRestartsTheSong`, `PendingLands`,
  `GuardLetsGo`, `PingIsAnswered`, `StopIsFinal`. Of four of them the safety half is a theorem:
  `NothingSeenIsForgotten`, `ResetsAreKept`, `SilenceIsBounded`, `StopDescends`.

## What the runs found

Three places where the program does not do what its own text says. Each is a run
that is expected to end in a violation.

1. `save_loop_vs_design`. The design compares the panel with the last *saved* record;
   the loop compares it with its own first copy. A pot moved while the board is off
   is taken over by the boot take, and is not saved until something else changes.
2. `recorder_landing`. `process_in` takes "the head moved" for "a frame landed". The end
   of a first take's fade-out moves the head (by locking the loop) without a frame,
   and the slice map is told of a frame that was not written, which drops the markers
   at its place. A loop of one frame is written without the head moving.
3. `recorder_punch_in`. A punch-in during the fade-out resumes the take, by design and by
   test; but the control law forwards REC only when it differs from `is_recording()`,
   which is still true in the fade-out. The punch-in never arrives, the take is locked
   short, and the next tick starts an overdub. A scenario's events do reach the buffer.

Observed, with no run of their own: the comment in `slice_map.h` that at most one
marker is removed per refractory time does not hold at the seam of a pass, where an
old marker and a new one can lie closer; and a turn onto the BBD while a restored
engine is still landing would be swallowed with the restore, which the firmware's
timing excludes (a released pot needs a second sweep, the fade is shorter than one)
and `SweepAssumption` states.

In the measured runs: `panel_scan.cpp:339-342` says that a LOAD clears an old trip
before it can be printed, but the trip counter the foreground compares is not cleared
with it, so a trip from before a LOAD can be printed after its acknowledgement
(1937-1941); and a block that falls between the foreground's readings at 1680 and
1686-1688 can put a silenced block into a frame printed `tripped=0`, which
the comment at 1678-1679 rules out. Counters and `tripped` are not part of the frame in
`WorkloadRun`.

In the deck, three steps after which the deck step is not PITCH's until the next RST or
RESET. `DeckClock` models what they do, and its history stops counting at them, so
`DeckStepIsPlayed` says that there are no others: a live STEPS turn that wraps PITCH's
step is counted as a step played (`super_modulator.cpp:152-158`); a reset dated back to
within a sample of a boundary starts the count one behind (`super_modulator.h:211-216`);
`init` resets the lanes and not the deck step, so that a new sample rate in a running
STEP deck leaves the followers in an arbitrary slot beside a melody that starts at 0
(`super_modulator.cpp:20-35`), as the comment in `reset_phases` says of a reset that
forgot it (`super_modulator.h:205-214`).

## Not modelled

Signal processing (engines, effects, mixing, grains, the quantizer), because its
correctness is about reals and sound; pure I/O (JSON, WAV, drawing, printing); the
measurement images' probes and benches; generated, vendored and build code. Together
these are most of the lines: probes, generated workloads, tables, the Rack widget and
the voices have little state that a step could get wrong, and what they have is
covered by the repository's exact host tests.

In the modelled parts: `parse_command_line`'s grammar and the skipped carriage return;
the effect of SET, KEY and the other remote commands on the panel; the CRC (a
record passes or does not); floating point; the SHIFT and MOD keys and the boot mute; the
excite flag's and the pots' part of VCV's restore into a live module (its effect on the
law's cache and edges is in `SongDeck`); the texture lanes' own slots and SPOT, notes,
SHUFFLE, EVOLVE's amounts and what the phrase generator writes; the law's other setters,
which go through the same cache, and DRIFT's edge, which is the SONG rung's
machine on a Boolean; grains and slice playback; a pot take's void mark, trip counters
and acknowledgement texts. The save in measurement images, which is suppressed, and in
the stress image, which is due every two seconds, are left out of `PersistSave`; the
stress image's slot choice is in `PersistFlash`.

## Plan

In order, most important first. Done: 1 to 10, and half of 11.

1. `PersistFlash`, `DurableCell` and their proofs.
2. `PersistSave` over the cell, and its proofs.
3. `EngineSwitch`.
4. `ClockLaw`, then `ClockJack` around it, and their proofs.
5. `CommandChannel`, `RemoteChannel`.
6. `SampleRecorder`, and the proofs about its buffer.
7. `Transport`, composed with the clock in `SongClock`.
8. The sent-value cache and the SONG rung, in `SongDeck`.
9. `WorkloadRun` and its proofs.
10. The PITCH lane and its song, in `SongDeck`, and its proofs.
11. The deck step, in `DeckClock`; still to come, the texture lanes that follow it.
12. The pot walk and the keys in front of `EngineSwitch`; VCV's restore.
13. The grain pool and voice allocation.

Proofs: every safety property a passing run checks is a theorem.

## Running it

```
tlc -workers 2 -config MCPersistFlash.cfg MCPersistFlash
tlapm PersistFlashProofs.tla
```

The other runs are listed in `PROJECT.json` with their module and configuration; the
longest takes about three minutes on two cores.
