\* Two SMS, one receiver and one scan: the receiver and the scan overlap on an
\* SMS; BatchLimit leaves a second batch to send, MaxRunAttempts lets one fault
\* exhaust the runs.
SPECIFICATION FairSpec
CONSTANTS
  Messages = {1, 2}
  Late = {2}
  Receivers = {"manifest"}
  Scans = {"periodic"}
  BatchLimit = 1
  MaxRunAttempts = 0
  None = None
  MaxFaults = 1
INVARIANTS
  NothingDropped
  CursorSound
  CopiesAccounted
  IInv
PROPERTIES
  Uploaded
CHECK_DEADLOCK FALSE
