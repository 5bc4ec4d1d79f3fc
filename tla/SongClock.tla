----------------------------- MODULE SongClock -----------------------------
(***************************************************************************)
(* From the jacks to the beat: the clock law's pulses and restarts move the *)
(* transport (the clock step of panel_scan_tick and Instrument), whose own  *)
(* beat comes back to the law as the wrap that answers a reset when the     *)
(* clock is gone.                                                          *)
(***************************************************************************)
EXTENDS ClockJack, Transport

VARIABLES
    song,   \* the transport
    prevPhase,  \* the beat phase the law saw last
    count   \* history: pulses since the song's 1, modulo 2; -1 after a restart
            \* without a clock; None when the count is off

songVars == <<law, out, hist, pend, seen, at, owed, song, prevPhase, count>>

\* The count is off or it is a number: None is no mark of its own.
ASSUME CountAssumption == None # -1

SongInit ==
    /\ JackInit
    /\ song \in {AtStart(p) : p \in Paces}
    /\ prevPhase = 0
    /\ count = None

\* Instrument::restart leaves the transport alone without a STEP deck.  The
\* mutant forgets how long ago the 1 was.
RestartedNow(t, age, tempo) == reset(t)

Restarted(t, age, tempo) == advance(reset(t), age, tempo)

\* Mutant of Played: the restart before the pulse.
PlayedRestartFirst(t, o, step, tempo) ==
    LET restarted == IF o.restart /\ step THEN Restarted(t, o.age, tempo) ELSE t
    IN  IF ~o.pulse THEN restarted
        ELSE IF o.counted THEN clock_pulse_counted(restarted) ELSE clock_pulse(restarted)

\* The pulse first, then the restart.
Played(t, o, step, tempo) ==
    LET pulsed == IF ~o.pulse THEN t
                  ELSE IF o.counted THEN clock_pulse_counted(t) ELSE clock_pulse(t)
    IN  IF o.restart /\ step THEN Restarted(pulsed, o.age, tempo) ELSE pulsed

\* A pulse so many blocks after the last one is nearer to the next point of the grid
\* than to any other, where the tempo brings the beat by then.
OnBeat(blocks, tempo, pace) ==
    LET way == 2 * blocks * StepOf(tempo, pace)
    IN  pace <= way /\ way < 3 * pace

\* The count goes on with a pulse on the beat, and is off after a pulse off it, a PACE
\* turn and a lost clock.
Counting(o, step, p) ==
    CASE p # song.pace -> None
      [] p = song.pace /\ o.restart /\ step -> IF law'.running THEN 0 ELSE -1
      [] p = song.pace /\ ~(o.restart /\ step) /\ o.pulse ->
            IF o.counted /\ count = -1 THEN 1
            ELSE IF count \in {0, 1} /\ OnBeat(law.valid + 1, law.tempo, song.pace)
            THEN 1 - count
            ELSE None
      [] OTHER -> IF law'.running \/ count = -1 THEN count ELSE None

\* One block: the law with the edges and the beat, its pulse and restart, then
\* the control law's tempo and PACE, and the block's beats.
SongBlock(k, p, step) ==
    /\ Block(k, beat_phase(song) < prevPhase)
    /\ song' = tick(set_pace(Played(song, out', step, law.tempo), p), law'.tempo)
    /\ prevPhase' = beat_phase(song)
    /\ count' = Counting(out', step, p)

AnySongBlock == \E k \in Knobs, p \in Paces, step \in BOOLEAN : SongBlock(k, p, step)

\* RST, "resync to bar": the bar without the song.
Resync ==
    /\ song' = reset(song)
    /\ count' = None
    /\ UNCHANGED <<law, out, hist, pend, seen, at, owed, prevPhase>>

Still == UNCHANGED <<song, prevPhase, count>>

SongCallback == (Read /\ Still) \/ AnySongBlock
SongNext == ((\E line \in Lines : Edge(line)) /\ Still) \/ SongCallback \/ Resync

SongSpec == SongInit /\ [][SongNext]_songVars /\ []<><<at' # at>>_songVars

-----------------------------------------------------------------------------
(* Properties.                                                              *)

\* The beat is where the clock says: as many pace steps past the song's 1 as
\* pulses, and as much of one as the time since the last, whatever edges, resets,
\* back-dated or not, and restarts of the clock with a stale tempo came before.
BeatCountsPulses ==
    count \in {0, 1} =>
        /\ law.running
        /\ (song.beats - count * song.pace - (law.valid + 1) * StepOf(law.tempo, song.pace))
              % (2 * song.pace) = 0

\* A RESET edge restarts the song, with the clock or without it: what a reset
\* waits for, when its clock is gone, is the wrap of the transport's own beat.
ResetRestartsTheSong == (<>[][~Resync]_songVars) => ("reset" \in owed ~> out.restart)
=============================================================================
