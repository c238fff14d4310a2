SPECIFICATION DrainPurgingSpec
CONSTANTS
  w1 = w1
  w2 = w2
  d1 = d1
  d2 = d2
  none = none
  Workers <- OneWorker
  NoWorker = none
  Purges <- OnePurge
  MaxStalled = 1
  TranscodeAttempts = 2
  ArchiveAttempts = 1
  MaxCrashes = 1
  Faults = {"media"}
  MaxDrains = 1
INVARIANT RestartsCostNothing
PROPERTY PurgeConverges
\* A refused request, or a Transcode nobody deletes, is where the system stops.
CHECK_DEADLOCK FALSE
