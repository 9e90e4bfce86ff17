\* A run over three sections against any provider.
CONSTANTS
  Sections = 3
  Interval = 3
  Latencies <- MCLatencies
  Gaps <- MCGaps
SPECIFICATION Spec
INVARIANTS OnlyRefusalDowngrades BillBounded SectionsArePaced FailuresAreRecorded
\* A run ends.
CHECK_DEADLOCK FALSE
