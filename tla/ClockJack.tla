----------------------------- MODULE ClockJack -----------------------------
(***************************************************************************)
(* The CLOCK and RESET jacks on the board (shell/gate_latch.cpp and the     *)
(* clock step of panel_scan_tick in shell/panel_scan.cpp): edges set        *)
(* pending bits at any time, the audio callback reads the bits, clears the  *)
(* ones it has read and gives them to the clock law, once per block.        *)
(***************************************************************************)
EXTENDS ClockLaw

VARIABLES
    pend,   \* the EXTI pending bits of the two lines
    seen,   \* pr, the bits this block has read
    at,     \* where the callback is
    owed    \* history: lines with an edge the law has not been given

jackVars == <<law, out, hist, pend, seen, at, owed>>

Lines == {"clock", "reset"}

\* gate_latch_arm drops what was pending before the audio starts.
JackInit == Init /\ pend = {} /\ seen = {} /\ at = "read" /\ owed = {}

\* A falling edge at a jack.
Edge(line) ==
    /\ pend' = pend \cup {line}
    /\ owed' = owed \cup {line}
    /\ UNCHANGED <<law, out, hist, seen, at>>

\* gate_latch_take reads the bits ...
Read ==
    /\ at = "read"
    /\ seen' = pend
    /\ at' = "clear"
    /\ UNCHANGED <<law, out, hist, pend, owed>>

\* Mutant of Cleared: both lines, whatever was read.
ClearedBoth(bits) == {}

\* ... and clears the ones it has read (write 1 to clear).
Cleared(bits) == bits \ seen

\* Then the law takes the block's edges, which nothing can change any more.
Block(k, wrap) ==
    /\ at = "clear"
    /\ pend' = Cleared(pend)
    /\ Law("clock" \in seen, "reset" \in seen, k, wrap)
    /\ at' = "read"
    /\ seen' = {}
    /\ owed' = owed \ seen
    /\ UNCHANGED hist

JackNext ==
    \/ \E line \in Lines : Edge(line)
    \/ Read
    \/ \E k \in Knobs, wrap \in BOOLEAN : Block(k, wrap)

JackSpec == JackInit /\ [][JackNext]_jackVars

-----------------------------------------------------------------------------

\* No line with an edge is forgotten, however an edge falls between the read
\* and the clear (gate_latch.cpp: "Clear only what was read").
EdgesAreSeen == owed \subseteq pend \cup seen
=============================================================================
