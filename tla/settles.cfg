SPECIFICATION StatusSpec
CONSTANTS
  w1 = w1
  w2 = w2
  d1 = d1
  d2 = d2
  none = none
  Workers <- OneWorker
  NoWorker = none
  Purges <- OnePurge
  MaxStalled = 1
  TranscodeAttempts = 3
  ArchiveAttempts = 2
  MaxCrashes = 0
  Faults = {"rustfs", "media"}
INVARIANT PollKeepsUp
PROPERTY TerminalIsFinal
PROPERTY LivesAsPromised
PROPERTY OneWebhook
PROPERTY AcceptedSettles
PROPERTY CompletedReleasesDisk
PROPERTY OutcomeIsPushed
\* A refused request, or a Transcode nobody deletes, is where the system stops.
CHECK_DEADLOCK FALSE
