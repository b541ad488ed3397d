\* A run that is stopped before it began; the docstring of subscribe
\* (agent_runs.py:159).
SPECIFICATION FairSpec
CHECK_DEADLOCK FALSE

CONSTANTS
  c1 = c1  c2 = c2
  Client <- One
  MaxRuns = 2
  MaxEvents = 1

PROPERTIES
  StreamsUntilEnd
