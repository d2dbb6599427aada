\* The interval is longer than the join timeout, as 5000 ms is than 2000 ms.
\* One caller uses freezeAllResults, the other freezeAdd.
CONSTANTS
  Callers = {c1, c2}
  GroupCallers = {c2}
  MaxId = 2
  Intervals = {3}
  Timeout = 1
  Lag = 1
SPECIFICATION HFairSpec
PROPERTIES CallsReturn AddersStopTheirOwn
