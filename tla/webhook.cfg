SPECIFICATION FairSpec
CONSTANTS
  w1 = w1
  w2 = w2
  done = done
  failed = failed
  none = none
  Workers <- TwoWorkers
  NoWorker = none
  Deliveries <- BothPayloads
  NoDelivery = none
  MaxStalled = 1
  WebhookAttempts = 3
  MaxTroubles = 2
INVARIANT CompletedWasHandled
INVARIANT PostsAreBounded
PROPERTY DeliverySettles
\* Every delivery has ended.
CHECK_DEADLOCK FALSE
