\* The clock may have run out with every job settled: the system stops there.
CHECK_DEADLOCK FALSE
SPECIFICATION Spec
CONSTANTS
  JobId = {j1,j2}
  Window = 2
  MaxTime = 4
INVARIANT TypeOK
INVARIANT OneEventPerIncident
INVARIANT BadReadingReported
