----------------------------- MODULE MCSongDeck -----------------------------
(* Three rungs: two songs under one form, and another form.                  *)
EXTENDS DeckClock

CONSTANTS f1, f2
Off == [i \in 0 .. 1 |-> 0]
ABAB == [i \in 0 .. 1 |-> i]
MCForm == <<f1, f1, f2>>
MCSong == <<Off, ABAB, ABAB>>
=============================================================================
