----------------------------- MODULE DurableCell -----------------------------
(***************************************************************************)
(* What the two flash sectors promise: one cell that holds one record.      *)
(* A save writes it atomically or not at all, whatever goes wrong on the    *)
(* way; an answer of "saved" is given only for the record the cell holds.   *)
(***************************************************************************)
EXTENDS Integers

CONSTANTS Record,   \* records, each with a field seq
          NoRecord  \* the empty cell, and "no save in progress"

VARIABLES stored,   \* what the cell holds
          request,  \* the record being saved
          acked     \* the last record a save was acknowledged for

cell == <<stored, request, acked>>

Init == stored = NoRecord /\ request = NoRecord /\ acked = NoRecord

\* A save starts; its record is newer than the one in the cell.
Ask ==
    /\ request = NoRecord
    /\ \E r \in Record :
          /\ stored # NoRecord => r.seq > stored.seq
          /\ request' = r
    /\ UNCHANGED <<stored, acked>>

\* The record takes the place of the old one, in one step.
Commit ==
    /\ request # NoRecord
    /\ stored' = request
    /\ UNCHANGED <<request, acked>>

\* The save ends and reports success ...
Acknowledge ==
    /\ request # NoRecord
    /\ stored = request
    /\ request' = NoRecord
    /\ acked' = request
    /\ UNCHANGED stored

\* ... or a failure; a power cut may commit in the same step.
GiveUp ==
    /\ request # NoRecord
    /\ request' = NoRecord
    /\ stored' \in {stored, request}
    /\ UNCHANGED acked

\* Another firmware reads the cell its own way.
Reinterpret ==
    /\ request = NoRecord
    /\ stored' \in Record \cup {NoRecord}
    /\ acked' = stored'
    /\ UNCHANGED request

Next == Ask \/ Commit \/ Acknowledge \/ GiveUp \/ Reinterpret

Spec == Init /\ [][Next]_cell
=============================================================================
