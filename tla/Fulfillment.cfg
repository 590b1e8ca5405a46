SPECIFICATION FairHandoffSpec
CONSTANTS
  r1 = r1
  c1 = c1
  c2 = c2
  w1 = w1
  w2 = w2
  q1 = q1
  Reservations = {r1}
  Owners = {c1, c2}
  Commands <- WorkflowCommands
  Workers = {w1, w2}
  Plan <- PlannedCancel
  MaxFaults = 2
  Handoffs <- Queued
  Consumers = {q1}
  MaxReceives = 2
INVARIANTS TypeOK CallbackIsTrue
PROPERTIES ImplementsLedger BegunHandoffIsDecided
CHECK_DEADLOCK FALSE
