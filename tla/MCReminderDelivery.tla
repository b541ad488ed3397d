------------------------ MODULE MCReminderDelivery ------------------------
(* Instances of ReminderDelivery for TLC: two dispatchers, two requests    *)
(* that edit the note, a single-digit number of edits and faults.  No      *)
(* symmetry: a temporal property is checked.                               *)
EXTENDS ReminderDelivery

CONSTANTS d1, d2, e1, e2

MCDispatcher == {d1, d2}
MCEditor     == {e1, e2}
Routes       == {"route"}
RoutesTools  == {"route", "tool"}
=============================================================================
