SPECIFICATION Spec
CONSTANTS
  Job = {j1}
  Robots = {"short_pause", "rest_request", "wait_field"}
  Worker = {w1, w2}
  OnceWorker = {}
  NoWorker = NoWorker
  Replicas = 2
  BatchSize = 1
  MaxAttempts = 2
  LeaseTimeout = 1
  RecoveryInterval = 1
  InitialDelay = 1
  FieldTimeout = 1
  PollInterval = 1
  RetryDelays = {1}
  OverdueCap = 0
  NoticeCap = 2
  LeaseOverrun = TRUE
INVARIANT TypeOK
INVARIANT CompletedWasResumed
INVARIANT NotResumedEarly
INVARIANT CallsArePaid
PROPERTY TerminalIsFinal
