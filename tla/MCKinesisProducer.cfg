\* send_events over three events, two attempts per event, one SDK resend.
CONSTANTS
  NLines = 4
  Shards = {"shard0", "shard1"}
  ShardOf <- MCShardOf
  Retries = 2
  FiniteEventCount = 3
  SdkResends = 1
  None = None
SPECIFICATION FairSpec
INVARIANTS
  ReportMatchesStream
  DuplicationBounded
  AckedOrderKept
PROPERTIES
  StopIsGraceful
  ImplementsLedger
  RunsToQuota
