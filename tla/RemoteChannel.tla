---------------------------- MODULE RemoteChannel ----------------------------
(***************************************************************************)
(* The remote command channel of the measurement images                     *)
(* (shell/remote_cmd.cpp, remote_listen.cpp, remote_block in panel_scan.cpp): *)
(* the USB receive interrupt assembles lines and acts on BOOT, sets a flag   *)
(* for PING and pushes the rest into a ring with free-running indices; the   *)
(* audio callback pops one per block, the foreground answers PING.  On the   *)
(* board the audio and USB interrupts do not preempt each other; the ring    *)
(* does not rely on it, so here the receive interrupt may come at every step *)
(* of the pop.                                                              *)
(***************************************************************************)
EXTENDS Integers, Sequences

CONSTANTS Letters, Newline, Commands, Boot, Ping, MaxLine, PacketBytes, Capacity, Overlong,
    MaxCmds,  \* kMaxCmdsPerPacket
    Wrap,     \* where the free-running indices wrap
    None

ASSUME TextAssumption == Newline \notin Letters
ASSUME CommandsAssumption ==
    /\ Boot # Ping /\ {Boot, Ping} \cap Commands = {}
    /\ \A c \in Commands \cup {Boot, Ping} : c \in Seq(Letters) /\ Len(c) \in 1 .. MaxLine
ASSUME SizeAssumption == MaxLine \in Nat /\ Capacity \in Nat \ {0} /\ PacketBytes \in Nat \ {0}
\* A packet completes MaxCmds of the shortest commands at most (kMaxCmdsPerPacket).
ASSUME PacketAssumption ==
    /\ MaxCmds \in Nat
    /\ \E shortest \in 1 .. MaxLine :
          /\ \A c \in Commands \cup {Boot, Ping} : Len(c) >= shortest
          /\ PacketBytes <= MaxCmds * (shortest + 1)
ASSUME WrapAssumption == Wrap \in Nat /\ Wrap % Capacity = 0 /\ Wrap > Capacity
ASSUME NoneAssumption == None \notin Commands /\ Overlong \notin Seq(Letters)

VARIABLES
    line, discarding,  \* LineAssembler: line_ and len_, discarding_
    slots, head, tail, \* CmdRing
    g_ping,
    packet,            \* history: what this step has received
    booted,            \* history: the board has left for the bootloader
    block,             \* the callback's pop: where it is and the command it has
    fg,                \* the foreground's remote_take_ping
    owed               \* history: a PING came that no pong answered

vars == <<packet, line, discarding, slots, head, tail, g_ping, booted, block, fg, owed>>

Init ==
    /\ packet = <<>> /\ line = <<>> /\ discarding = FALSE
    /\ slots \in [0 .. Capacity - 1 -> {None}] /\ head = 0 /\ tail = 0
    /\ g_ping = FALSE /\ booted = FALSE /\ owed = FALSE
    /\ block = [at |-> "idle", cmd |-> None]
    /\ fg = "idle"

-----------------------------------------------------------------------------

\* The end of a line: it is put out if it is a command and there is room.
PutOut(a) ==
    IF ~a.discarding /\ Len(a.out) < MaxCmds /\ a.line \in Commands \cup {Boot, Ping}
    THEN Append(a.out, a.line) ELSE a.out

\* The mutant does not stop discarding.
NewlineDiscards(a) == [a EXCEPT !.line = <<>>, !.out = PutOut(a)]

EndOfLine(a) == [a EXCEPT !.line = <<>>, !.discarding = FALSE, !.out = PutOut(a)]

\* A line has no room for a further character.  The mutant makes one more.
LineFullLate(text) == Len(text) > MaxLine

LineFull(text) == Len(text) = MaxLine

\* feed, for one byte.
Byte(a, ch) ==
    CASE ch = Newline -> EndOfLine(a)
      [] ch # Newline /\ a.discarding -> a
      [] ch # Newline /\ ~a.discarding /\ LineFull(a.line) ->
            [a EXCEPT !.discarding = TRUE, !.line = <<>>]
      [] ch # Newline /\ ~a.discarding /\ ~LineFull(a.line) ->
            [a EXCEPT !.line = Append(@, ch)]

feed(text) ==
    LET fed[i \in 0 .. Len(text)] ==
            IF i = 0 THEN [line |-> line, discarding |-> discarding, out |-> <<>>]
            ELSE Byte(fed[i - 1], text[i])
    IN  fed[Len(text)]

\* Mutant of Full: one more than there are slots.
FullLate(r) == (r.head - tail) % Wrap > Capacity

Full(r) == (r.head - tail) % Wrap >= Capacity

push(r, c) == IF Full(r) THEN r
              ELSE [r EXCEPT !.slots = [@ EXCEPT ![r.head % Capacity] = c], !.head = (@ + 1) % Wrap]

\* on_rx, for one command.
Command(r, c) ==
    CASE r.booted -> r
      [] ~r.booted /\ c = Boot -> [r EXCEPT !.booted = TRUE]
      [] ~r.booted /\ c = Ping -> [r EXCEPT !.ping = TRUE]
      [] ~r.booted /\ c \in Commands -> push(r, c)

\* What on_rx makes of the commands of a packet.
Delivered(cmds) ==
    LET after[i \in 0 .. Len(cmds)] ==
            IF i = 0 THEN [slots |-> slots, head |-> head, ping |-> g_ping, booted |-> booted]
            ELSE Command(after[i - 1], cmds[i])
    IN  after[Len(cmds)]

\* The receive interrupt.
Receive(text) ==
    /\ ~booted
    /\ packet' = text
    /\ \E fed \in {feed(text)} : \E r \in {Delivered(fed.out)} :
           /\ line' = fed.line /\ discarding' = fed.discarding
           /\ slots' = r.slots /\ head' = r.head
           /\ g_ping' = r.ping /\ booted' = r.booted
           /\ owed' = (owed \/ \E i \in DOMAIN fed.out : fed.out[i] = Ping)
    /\ UNCHANGED <<tail, block, fg>>

-----------------------------------------------------------------------------
(* The callback's pop.                                                      *)

PopBegin ==
    /\ packet' = <<>>
    /\ ~booted /\ block.at = "idle" /\ head # tail
    /\ block' = [block EXCEPT !.at = "copy"]
    /\ UNCHANGED <<line, discarding, slots, head, tail, g_ping, booted, fg, owed>>

PopCopy ==
    /\ packet' = <<>>
    /\ ~booted /\ block.at = "copy"
    /\ block' = [at |-> "release", cmd |-> slots[tail % Capacity]]
    /\ UNCHANGED <<line, discarding, slots, head, tail, g_ping, booted, fg, owed>>

PopRelease ==
    /\ packet' = <<>>
    /\ ~booted /\ block.at = "release"
    /\ tail' = (tail + 1) % Wrap
    /\ block' = [at |-> "idle", cmd |-> None]
    /\ UNCHANGED <<line, discarding, slots, head, g_ping, booted, fg, owed>>

Callback == PopBegin \/ PopCopy \/ PopRelease

-----------------------------------------------------------------------------
(* The foreground: remote_take_ping sees the flag, clears it, and the pong   *)
(* is printed.                                                              *)

\* The mutant clears the flag after the pong.
AfterLate(f) == CASE f = "idle" -> "print" [] f = "print" -> "clear" [] f = "clear" -> "idle"

AfterFg(f) == CASE f = "idle" -> "clear" [] f = "clear" -> "print" [] f = "print" -> "idle"

SeePing ==
    /\ packet' = <<>>
    /\ ~booted /\ fg = "idle" /\ g_ping
    /\ fg' = AfterFg(fg)
    /\ UNCHANGED <<line, discarding, slots, head, tail, g_ping, booted, block, owed>>

ClearPing ==
    /\ packet' = <<>>
    /\ ~booted /\ fg = "clear"
    /\ g_ping' = FALSE
    /\ fg' = AfterFg(fg)
    /\ UNCHANGED <<line, discarding, slots, head, tail, booted, block, owed>>

PrintPong ==
    /\ packet' = <<>>
    /\ ~booted /\ fg = "print"
    /\ owed' = FALSE
    /\ fg' = AfterFg(fg)
    /\ UNCHANGED <<line, discarding, slots, head, tail, g_ping, booted, block>>

Foreground == SeePing \/ ClearPing \/ PrintPong

-----------------------------------------------------------------------------

Packets == UNION {[1..n -> Letters \cup {Newline}] : n \in 1..PacketBytes}

Next == (\E p \in Packets : Receive(p)) \/ Callback \/ Foreground

\* The callback and the report loop keep running; the host need send nothing.
Spec == Init /\ [][Next]_vars /\ WF_vars(Callback) /\ WF_vars(Foreground)

-----------------------------------------------------------------------------
(* Properties.                                                              *)

InRing == (head - tail) % Wrap

TypeOK ==
    /\ line \in Seq(Letters) /\ Len(line) <= MaxLine /\ discarding \in BOOLEAN
    /\ slots \in [0 .. Capacity - 1 -> Commands \cup {None}]
    /\ head \in 0 .. Wrap - 1 /\ tail \in 0 .. Wrap - 1 /\ InRing <= Capacity
    /\ g_ping \in BOOLEAN /\ booted \in BOOLEAN /\ owed \in BOOLEAN
    /\ block \in [at : {"idle", "copy", "release"}, cmd : Commands \cup {None}]
    /\ fg \in {"idle", "clear", "print"}

\* The command that is acted on is the oldest of the ring, although the
\* interrupt may push between its copy and its release.
CopyIsOldest == block.at = "release" => block.cmd # None /\ block.cmd = slots[tail % Capacity]

\* Every PING is answered by a pong that comes after it, unless the board leaves.
PingIsAnswered == owed ~> (~owed \/ booted)

\* Whatever way the text is cut into packets, whatever its lines and however
\* the pop is interrupted, the channel does what CommandChannel says.
Channel == INSTANCE CommandChannel WITH
    typed <- IF discarding THEN Overlong ELSE line,
    queue <- [k \in 1..InRing |-> slots[(tail + k - 1) % Capacity]],
    ping <- g_ping

ImplementsChannel == Channel!Spec
=============================================================================
