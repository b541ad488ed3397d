----------------------------- MODULE MCAgentRuns -----------------------------
(* Instances of AgentRuns for TLC: two browsers for the properties that hold, *)
(* one for the stream that does not end.                                     *)
EXTENDS AgentRuns

CONSTANTS c1, c2

Two == {c1, c2}
One == {c1}
=============================================================================
