--------------------------- MODULE CommandChannel ---------------------------
(***************************************************************************)
(* What the remote command channel promises (shell/remote_cmd.h,            *)
(* remote_listen.h): the text received so far means its whole lines, however *)
(* it was cut into packets; a line that is too long or no command means      *)
(* nothing.  BOOT acts at once, PING is remembered, every other command      *)
(* waits in a queue of Capacity, or is dropped when that is full.            *)
(***************************************************************************)
EXTENDS Integers, Sequences

CONSTANTS
    Letters,      \* characters of a line
    Newline,
    Commands,     \* the texts that are a command to be queued
    Boot, Ping,   \* the texts of the two others
    MaxLine,      \* kMaxLine
    PacketBytes,  \* kFsPacketBytes
    Capacity,     \* kCapacity
    Overlong      \* a text since the last newline of more than MaxLine letters

VARIABLES
    packet,  \* what this step has received
    typed,   \* the text since the last newline
    queue,   \* commands that wait
    ping,    \* a PING has come that nobody has taken note of
    booted   \* the board has left for the bootloader

vars == <<packet, typed, queue, ping, booted>>

Init == packet = <<>> /\ typed = <<>> /\ queue = <<>> /\ ping = FALSE /\ booted = FALSE

Known == Commands \cup {Boot, Ping}

\* The text between the last newline before place i of a packet and i; without one
\* the packet goes on with what was typed before it.
Newlines(text, i) == {n \in 1 .. i - 1 : text[n] = Newline}
Since(text, i) ==
    IF Newlines(text, i) = {}
    THEN IF typed = Overlong THEN Overlong ELSE typed \o SubSeq(text, 1, i - 1)
    ELSE LET last == CHOOSE n \in Newlines(text, i) : \A m \in Newlines(text, i) : m <= n
         IN  SubSeq(text, last + 1, i - 1)

Held(line) == IF line = Overlong \/ Len(line) > MaxLine THEN Overlong ELSE line

\* Where the commands of a packet end, and those that are heard: a BOOT leaves what
\* comes after it unheard.
Ends(text) == {e \in 1 .. Len(text) : text[e] = Newline /\ Since(text, e) \in Known}
Heard(text) == {e \in Ends(text) : \A b \in Ends(text) : b < e => Since(text, b) # Boot}

\* The places of a set in their order.
InOrder(S) ==
    {at \in UNION {[1 .. n -> S] : n \in 0 .. PacketBytes} :
        /\ \A i, j \in DOMAIN at : i < j => at[i] < at[j]
        /\ \A e \in S : \E i \in DOMAIN at : at[i] = e}

\* The commands there is room for.
Fitting(q) == SubSeq(q, 1, IF Len(q) > Capacity THEN Capacity ELSE Len(q))

Receive ==
    /\ packet' \in Seq(Letters \cup {Newline}) /\ Len(packet') \in 1..PacketBytes
    /\ ~booted
    /\ \E at \in InOrder({e \in Heard(packet') : Since(packet', e) \in Commands}) :
          queue' = Fitting(queue \o [k \in DOMAIN at |-> Since(packet', at[k])])
    /\ ping' = (ping \/ \E e \in Heard(packet') : Since(packet', e) = Ping)
    /\ booted' = \E e \in Ends(packet') : Since(packet', e) = Boot
    /\ typed' = Held(Since(packet', Len(packet') + 1))

\* The callback takes the oldest command.
Take == packet' = <<>> /\ ~booted /\ queue # <<>> /\ queue' = Tail(queue) /\ UNCHANGED <<typed, ping, booted>>

\* The foreground takes note of the PINGs.
Note == packet' = <<>> /\ ~booted /\ ping /\ ping' = FALSE /\ UNCHANGED <<typed, queue, booted>>

\* Nothing that shows.
Idle == packet' = <<>> /\ UNCHANGED <<typed, queue, ping, booted>>

Next == Receive \/ Take \/ Note \/ Idle

Spec == Init /\ [][Next]_vars
=============================================================================
