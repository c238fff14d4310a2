SPECIFICATION Spec
CONSTANTS
  w1 = w1
  w2 = w2
  d1 = d1
  d2 = d2
  none = none
  Workers <- OneWorker
  NoWorker = none
  Purges <- NoPurge
  MaxStalled = 1
  TranscodeAttempts = 3
  ArchiveAttempts = 5
  MaxCrashes = 0
  Faults = {"media"}
INVARIANT FailedDiskIsClear
\* A refused request, or a Transcode nobody deletes, is where the system stops.
CHECK_DEADLOCK FALSE
