\* Two runs over one shard, possibly in the same second, that are killed anywhere;
\* one that is left alone may find more records than it may read.
CONSTANTS
  Runs = {"r1", "r2"}
  ShardList <- OneShardList
  IteratorType <- BothTypes
  MaxRecords = 2
  MaxEmptyPolls = 2
  RecordKinds = {"event", "garbled", "binary"}
  ShardCapacity = 3
  MaxSecond = 1
  NoFile = NoFile
SPECIFICATION MCSpec
INVARIANTS
  BatchInOrder
  FilesAccountable
PROPERTIES
  ImplementsMicroBatch
  LatestSkipsBacklog
  PollingRunsOut
