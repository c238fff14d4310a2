SPECIFICATION Spec
CONSTANTS
  w1 = w1
  w2 = w2
  d1 = d1
  d2 = d2
  none = none
  Workers <- TwoWorkers
  NoWorker = none
  Purges <- OnePurge
  MaxStalled = 1
  TranscodeAttempts = 2
  ArchiveAttempts = 2
  MaxCrashes = 1
  Faults = {"lostReply", "rustfs"}
SYMMETRY Symmetry
INVARIANT AnnouncedIsServable
INVARIANT WebhooksTellTheOutcome
\* A refused request, or a Transcode nobody deletes, is where the system stops.
CHECK_DEADLOCK FALSE
