SPECIFICATION JobSpec
CONSTANTS
  j1 = j1
  j2 = j2
  w1 = w1
  w2 = w2
  NoJob = nojob
  Job <- Jobs2
  Worker <- Workers2
  Batches = 2
  MaxDeliveries = 2
  Slow = FALSE
INVARIANT
  AckedHasOutcome
CHECK_DEADLOCK FALSE
