------------------------ MODULE MCCalendarDelivery ------------------------
(* Instances of CalendarDelivery for TLC.  Workers and texts are model     *)
(* values; no symmetry, as a temporal property is checked.                 *)
EXTENDS CalendarDelivery

CONSTANTS w1, w2, a, b, x

MCWorker == {w1, w2}
MCText   == {a, b, x}
MCCancelling == {x}
=============================================================================
