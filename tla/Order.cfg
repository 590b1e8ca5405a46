SPECIFICATION FairSpec
CONSTANTS
  k1 = k1
  k2 = k2
  w1 = w1
  w2 = w2
  Commands <- AnyCaller
  Expiries <- ExpiryEvents
  Workers = {w1, w2}
  Correlations = {k1, k2}
  MaxFaults = 2
INVARIANTS TypeOK HistoryIsPublished
PROPERTIES SettledForever ExpiryRepairsPending
CHECK_DEADLOCK FALSE
