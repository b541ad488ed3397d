--------------------------- MODULE MCActionPolicy ---------------------------
(* Instances of ActionPolicy for TLC: a smart-home domain served by one      *)
(* process per request, as in shared mode, and a calendar domain served by a *)
(* single process, as in local mode.                                         *)
EXTENDS ActionPolicy

CONSTANTS create, cancel, device, q1, q2

DeviceKind  == device :> "smart_home_turn_on"
DeviceLevel == device :> 5

CalendarKind  == (create :> "create_event") @@ (cancel :> "cancel_event")
CalendarLevel == (create :> 4) @@ (cancel :> 5)

OneProcess == [r \in Request |-> "web"]
Replicas   == [r \in Request |-> r]

Symmetry == Permutations(Request)
=============================================================================
