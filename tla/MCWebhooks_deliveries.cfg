SPECIFICATION FairSpec
CONSTANTS
  Events = {e1}
  Endpoints = {w1, w2}
  Subscribed = {w1, w2}
  BatchSize = 1
  RetrySchedule <- TwoDelays
  LongestDelay = 2
  MaxLag = 1
  MaxFaults = 1
  MaxResets = 1
INVARIANTS
  TypeOK
  SendsBounded
PROPERTIES
  Backoff
  Settles
  EventQueued
  ImplementsDelivery
CHECK_DEADLOCK FALSE
