\* The interval is longer than the join timeout, as 5000 ms is than 2000 ms.
CONSTANTS
  Callers = {c1}
  MaxId = 1
  Intervals = {4}
  Timeout = 2
  Lag = 1
SPECIFICATION Spec
INVARIANTS RemovedWritesNoMore
