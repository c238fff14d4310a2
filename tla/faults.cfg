SPECIFICATION Spec
CONSTANTS
  w1 = w1
  w2 = w2
  d1 = d1
  d2 = d2
  none = none
  Workers <- TwoWorkers
  NoWorker = none
  Purges <- TwoPurges
  MaxStalled = 1
  TranscodeAttempts = 3
  ArchiveAttempts = 5
  MaxCrashes = 0
  Faults = {"db", "redis", "rustfs", "media", "disk", "httpCrash"}
SYMMETRY Symmetry
INVARIANT TypeOK
INVARIANT DeletionExclusive
INVARIANT NoOrphanBytes
INVARIANT AnnouncedIsServable
INVARIANT MasterIsKept
INVARIANT SourceOutlivesItsJob
INVARIANT ArchivedDiskIsClear
INVARIANT RemoteHasNoMaster
INVARIANT WebhooksTellTheOutcome
PROPERTY PublishedIsNotReencoded
PROPERTY FailedIsFinal
PROPERTY NoResurrection
PROPERTY ReclaimsAsPromised
\* A refused request, or a Transcode nobody deletes, is where the system stops.
CHECK_DEADLOCK FALSE
