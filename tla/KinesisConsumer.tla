-------------------------- MODULE KinesisConsumer --------------------------
(***************************************************************************)
(* KinesisStreamConsumerService.consume_to_directory                       *)
(* (src/stream_consumer/service.py), as run by one or more overlapping     *)
(* processes while records keep arriving.  A process polls the shards one  *)
(* after the other, each from an iterator it opens when the shard's turn   *)
(* comes, then writes the raw, canonical and bronze files of its batch,    *)
(* named by the second at which it stopped polling.                        *)
(*                                                                         *)
(* A record is known by its shard and sequence number.  Any client call    *)
(* may raise and the process may be killed at any step; what it had        *)
(* written stays.                                                          *)
(***************************************************************************)
EXTENDS Integers, Sequences, FiniteSets, SequencesExt

CONSTANTS
  Runs,             \* consumer processes
  ShardList,        \* list_shards' answer, a sequence of shards
  IteratorType,     \* per run, "LATEST" or "TRIM_HORIZON"
  MaxRecords,       \* request.max_records
  MaxEmptyPolls,    \* request.max_empty_polls
  RecordKinds,      \* the kinds of record data that arrive
  ShardCapacity,    \* bound: records put per shard
  MaxSecond,        \* bound: the clock stops here
  NoFile            \* no file of that name

Shards == ToSet(ShardList)
Seconds == 0..MaxSecond
GetRecordsLimit == 1000

(* "event": a JSON object; "garbled": other text; "binary": not UTF-8.     *)
Kinds == {"event", "garbled", "binary"}

ASSUME ConsumerAssumption ==
  /\ ShardList \in Seq(Shards) /\ IsInjective(ShardList) /\ ShardList # <<>>
  /\ IteratorType \in [Runs -> {"LATEST", "TRIM_HORIZON"}]
  /\ MaxRecords \in Nat /\ MaxEmptyPolls \in Nat
  /\ ShardCapacity \in Nat /\ MaxSecond \in Nat
  /\ RecordKinds \subseteq Kinds

Records == Shards \X (1..ShardCapacity)
NoIterator == 0
NotStamped == -1
FileKinds == {"raw", "canonical", "bronze"}
InFile == [raw |-> "in raw", canonical |-> "in canonical", bronze |-> "in bronze"]

VARIABLES
  stream,       \* per shard, the kinds of the records put, in order
  sealed,       \* shards closed by a reshard: they receive nothing more
  clock,        \* seconds
  pc,           \* per run, what consume_to_directory does next
  turn,         \* per run, index of the shard being consumed
  iterator,     \* per run, next sequence number to read, or NoIterator
  emptyPolls,   \* per run, the local of _consume_shard
  batch,        \* per run, the records collected
  stamp,        \* per run, the second that names its files
  file,         \* per kind and second, the texts in a file, or NoFile
  together      \* history: kinds of file two runs had open at a time

kinesis == <<stream, sealed>>
locals == <<turn, iterator, emptyPolls, batch, stamp>>
disk == <<file, together>>
vars == <<kinesis, clock, pc, locals, disk>>

Init ==
  /\ stream = [s \in Shards |-> <<>>] /\ sealed = {} /\ clock = 0
  /\ pc = [r \in Runs |-> "start"]
  /\ turn = [r \in Runs |-> 1]
  /\ iterator = [r \in Runs |-> NoIterator]
  /\ emptyPolls = [r \in Runs |-> 0]
  /\ batch = [r \in Runs |-> <<>>]
  /\ stamp = [r \in Runs |-> NotStamped]
  /\ file = [k \in FileKinds |-> [t \in Seconds |-> NoFile]] /\ together = {}

-----------------------------------------------------------------------------
(* The environment: producers, resharding and time.                        *)

Arrive(s, kind) ==
  /\ s \notin sealed /\ Len(stream[s]) < ShardCapacity
  /\ stream' = [stream EXCEPT ![s] = Append(@, kind)]
  /\ UNCHANGED <<sealed, clock, pc, locals, disk>>

Seal(s) ==
  /\ s \notin sealed
  /\ sealed' = sealed \cup {s}
  /\ UNCHANGED <<stream, clock, pc, locals, disk>>

Tick ==
  /\ clock < MaxSecond
  /\ clock' = clock + 1
  /\ UNCHANGED <<kinesis, pc, locals, disk>>

-----------------------------------------------------------------------------
(* consume(): polling the shards in turn.                                  *)

Go(r, label) == pc' = [pc EXCEPT ![r] = label]

Shard(r) == ShardList[turn[r]]

ListShards(r) ==
  /\ pc[r] = "start"
  /\ Go(r, "open")
  /\ UNCHANGED <<kinesis, clock, locals, disk>>

(* Mutant of OpenIterator: every iterator type reads from the start.       *)
OpenAtHorizon(r) ==
  /\ pc[r] = "open"
  /\ iterator' = [iterator EXCEPT ![r] = 1]
  /\ emptyPolls' = [emptyPolls EXCEPT ![r] = 0]
  /\ Go(r, "poll")
  /\ UNCHANGED <<kinesis, clock, turn, batch, stamp, disk>>

(* The head of _consume_shard.  LATEST points past the newest record, so   *)
(* whatever the shard holds by now is out of reach of this run.            *)
OpenIterator(r) ==
  /\ pc[r] = "open"
  /\ iterator' = [iterator EXCEPT ![r] =
       IF MaxRecords = 0 THEN NoIterator
       ELSE IF IteratorType[r] = "LATEST" THEN Len(stream[Shard(r)]) + 1 ELSE 1]
  /\ emptyPolls' = [emptyPolls EXCEPT ![r] = 0]
  /\ Go(r, "poll")
  /\ UNCHANGED <<kinesis, clock, turn, batch, stamp, disk>>

(* The condition of _consume_shard's while loop.                           *)
KeepsPolling(r) ==
  /\ iterator[r] # NoIterator
  /\ Len(batch[r]) < MaxRecords
  /\ emptyPolls[r] < MaxEmptyPolls

(* How many records get_records may return: up to the limit of those from  *)
(* the iterator on, possibly none although there are some.                 *)
Responses(r) ==
  {count \in 0..ShardCapacity :
     /\ count <= MaxRecords - Len(batch[r]) /\ count <= GetRecordsLimit
     /\ iterator[r] + count - 1 <= Len(stream[Shard(r)])}

(* Mutant of NextIterator: one record too far.                             *)
NextIteratorSkips(r, count) ==
  IF Shard(r) \in sealed /\ iterator[r] + count > Len(stream[Shard(r)])
    THEN NoIterator ELSE iterator[r] + count + 1

(* NextShardIterator is absent once a sealed shard has been read to its end*)
NextIterator(r, count) ==
  IF Shard(r) \in sealed /\ iterator[r] + count > Len(stream[Shard(r)])
    THEN NoIterator ELSE iterator[r] + count

Fetched(r, count) == [k \in 1..count |-> <<Shard(r), iterator[r] + k - 1>>]

(* Mutant of GetRecords: an empty answer does not count.                   *)
GetRecordsForever(r, count) ==
  /\ pc[r] = "poll" /\ KeepsPolling(r) /\ count \in Responses(r)
  /\ \A k \in 1..count : stream[Shard(r)][iterator[r] + k - 1] # "binary"
  /\ iterator' = [iterator EXCEPT ![r] = NextIterator(r, count)]
  /\ batch' = [batch EXCEPT ![r] = @ \o Fetched(r, count)]
  /\ UNCHANGED <<kinesis, clock, pc, turn, emptyPolls, stamp, disk>>

(* One get_records call whose records, if any, all decode.                 *)
GetRecords(r, count) ==
  /\ pc[r] = "poll" /\ KeepsPolling(r) /\ count \in Responses(r)
  /\ \A k \in 1..count : stream[Shard(r)][iterator[r] + k - 1] # "binary"
  /\ iterator' = [iterator EXCEPT ![r] = NextIterator(r, count)]
  /\ emptyPolls' = [emptyPolls EXCEPT ![r] = IF count = 0 THEN @ + 1 ELSE 0]
  /\ batch' = [batch EXCEPT ![r] = @ \o Fetched(r, count)]
  /\ UNCHANGED <<kinesis, clock, pc, turn, stamp, disk>>

(* The loop is over: consume() stops when the batch is full or goes on to  *)
(* the next shard.                                                         *)
LeaveShard(r) ==
  /\ pc[r] = "poll" /\ ~KeepsPolling(r)
  /\ IF Len(batch[r]) >= MaxRecords \/ turn[r] = Len(ShardList)
       THEN Go(r, "stamp") /\ UNCHANGED turn
       ELSE Go(r, "open") /\ turn' = [turn EXCEPT ![r] = @ + 1]
  /\ UNCHANGED <<kinesis, clock, iterator, emptyPolls, batch, stamp, disk>>

-----------------------------------------------------------------------------
(* consume_to_directory(): the files.                                      *)

(* Mutant of StampFiles: the batch is cut one record short.                *)
StampFilesCut(r) ==
  /\ pc[r] = "stamp"
  /\ stamp' = [stamp EXCEPT ![r] = clock]
  /\ batch' = [batch EXCEPT ![r] =
       IF Len(@) < MaxRecords THEN @ ELSE SubSeq(@, 1, MaxRecords - 1)]
  /\ Go(r, "raw")
  /\ UNCHANGED <<kinesis, clock, turn, iterator, emptyPolls, disk>>

(* records[:max_records] cuts nothing: no batch is longer (BatchInOrder).  *)
StampFiles(r) ==
  /\ pc[r] = "stamp"
  /\ stamp' = [stamp EXCEPT ![r] = clock]
  /\ Go(r, "raw")
  /\ UNCHANGED <<kinesis, clock, turn, iterator, emptyPolls, batch, disk>>

IsEvent(record) == stream[record[1]][record[2]] = "event"

(* The records that go to a file, by their place in the batch: all to the  *)
(* raw one, those that parse to the canonical one and, the same text, to   *)
(* the bronze one.                                                         *)
Places(kind, r) ==
  {k \in DOMAIN batch[r] : kind = "raw" \/ IsEvent(batch[r][k])}

Content(kind, r) == Restrict(batch[r], Places(kind, r))

(* What a write cut short leaves: the first of these records.              *)
Beginnings(kind, r) ==
  {Restrict(batch[r], Places(kind, r) \cap (1..n)) : n \in 0..Len(batch[r])}

After(kind) ==
  CASE kind = "raw" -> "canonical" [] kind = "canonical" -> "bronze" [] kind = "bronze" -> "done"

(* The other runs that have the file of this run open.                     *)
Overlaps(r, kind) ==
  LET others == {q \in Runs : pc[q] = InFile[kind] /\ stamp[q] = stamp[r]}
  IN  ({kind} \X others \X {r}) \cup ({kind} \X {r} \X others)

(* Mutant of OpenFile: the file is opened for appending.                   *)
OpenToAppend(r, kind) ==
  /\ pc[r] = kind
  /\ file' = [file EXCEPT ![kind][stamp[r]] = IF @ = NoFile THEN <<>> ELSE @]
  /\ together' = together \cup Overlaps(r, kind)
  /\ Go(r, InFile[kind])
  /\ UNCHANGED <<kinesis, clock, locals>>

(* write_text opens the file, which empties it, and then writes the text   *)
(* from the start.  A run of the same second may have opened it before,    *)
(* and write after: the texts of a file are those written since it was     *)
(* emptied last, each over the ones before it.                             *)
OpenFile(r, kind) ==
  /\ pc[r] = kind
  /\ file' = [file EXCEPT ![kind][stamp[r]] = <<>>]
  /\ together' = together \cup Overlaps(r, kind)
  /\ Go(r, InFile[kind])
  /\ UNCHANGED <<kinesis, clock, locals>>

Lay(r, kind, text) ==
  file' = [file EXCEPT ![kind][stamp[r]] = Append(@, [by |-> r, text |-> text])]

WriteFile(r, kind) ==
  /\ pc[r] = InFile[kind]
  /\ Lay(r, kind, Content(kind, r))
  /\ Go(r, After(kind))
  /\ UNCHANGED <<kinesis, clock, locals, together>>

-----------------------------------------------------------------------------
(* Failures.  A record that is not UTF-8 makes decode() raise: everything  *)
(* the run has collected is lost with it.                                  *)
DecodeFails(r, count) ==
  /\ pc[r] = "poll" /\ KeepsPolling(r) /\ count \in Responses(r)
  /\ \E k \in 1..count : stream[Shard(r)][iterator[r] + k - 1] = "binary"
  /\ Go(r, "failed")
  /\ UNCHANGED <<kinesis, clock, locals, disk>>

(* A client call raises (no retry() here), or the task is killed.          *)
Fail(r) ==
  /\ pc[r] \notin {"done", "failed"}
  /\ Go(r, "failed")
  /\ UNCHANGED <<kinesis, clock, locals, disk>>

(* Killed while it writes: the first part of the text is there.            *)
FailWriting(r, kind) ==
  /\ pc[r] = InFile[kind]
  /\ \E text \in Beginnings(kind, r) : Lay(r, kind, text)
  /\ Go(r, "failed")
  /\ UNCHANGED <<kinesis, clock, locals, together>>

Step(r) ==
  \/ ListShards(r) \/ OpenIterator(r) \/ LeaveShard(r) \/ StampFiles(r)
  \/ \E count \in 0..ShardCapacity : GetRecords(r, count) \/ DecodeFails(r, count)
  \/ \E kind \in FileKinds : OpenFile(r, kind) \/ WriteFile(r, kind)

Failure(r) == Fail(r) \/ \E kind \in FileKinds : FailWriting(r, kind)

Environment ==
  \/ \E s \in Shards : Seal(s) \/ \E kind \in RecordKinds : Arrive(s, kind)
  \/ Tick

Finished == (\A r \in Runs : pc[r] \in {"done", "failed"}) /\ UNCHANGED vars

Next == Environment \/ Finished \/ \E r \in Runs : Step(r) \/ Failure(r)

Spec == Init /\ [][Next]_vars

-----------------------------------------------------------------------------
Texts == UNION {[places -> Records] : places \in SUBSET (1..MaxRecords)}

TypeOK ==
  /\ stream \in [Shards -> Seq(RecordKinds)]
  /\ sealed \subseteq Shards /\ clock \in Seconds
  /\ pc \in [Runs -> {"start", "open", "poll", "stamp", "done", "failed"}
                     \cup FileKinds \cup {InFile[kind] : kind \in FileKinds}]
  /\ turn \in [Runs -> 1..Len(ShardList)]
  /\ iterator \in [Runs -> Nat] /\ emptyPolls \in [Runs -> 0..MaxEmptyPolls]
  /\ batch \in [Runs -> Seq(Records)] /\ stamp \in [Runs -> Seconds \cup {NotStamped}]
  /\ file \in [FileKinds -> [Seconds -> {NoFile} \cup Seq([by : Runs, text : Texts])]]
  /\ together \subseteq FileKinds \X Runs \X Runs

(* A batch never exceeds max_records, holds only records of the stream, in *)
(* shard order, and within a shard without a gap, a repeat or a swap; with *)
(* TRIM_HORIZON it starts each shard at its oldest record.                 *)
BatchInOrder ==
  \A r \in Runs :
    /\ Len(batch[r]) <= MaxRecords
    /\ \A k \in DOMAIN batch[r] :
         LET s == batch[r][k][1]  n == batch[r][k][2] IN
         /\ n \in 1..Len(stream[s])
         /\ k > 1 /\ batch[r][k-1][1] = s => batch[r][k-1][2] = n - 1
         /\ k = 1 \/ batch[r][k-1][1] # s =>
              /\ IteratorType[r] = "TRIM_HORIZON" => n = 1
              /\ \A j \in 1..(k-1) : \E a, b \in DOMAIN ShardList :
                   a < b /\ ShardList[a] = batch[r][j][1] /\ ShardList[b] = s

(* The only run that named its files by its second.                        *)
Alone(r) == stamp[r] # NotStamped /\ \A q \in Runs \ {r} : stamp[q] # stamp[r]

Holds(r, kind, text) == file[kind][stamp[r]] = <<[by |-> r, text |-> text]>>

Begun(r, kind, texts) ==
  file[kind][stamp[r]] = <<>> \/ \E text \in texts : Holds(r, kind, text)

(* Wherever a run is killed, its files tell how far it came: the bronze    *)
(* file exists only once the canonical one is complete, that one only once *)
(* the raw one is, a torn file is a beginning of what was to be written,   *)
(* and a finished run has all its parsed events, and only those, in bronze.*)
FilesOfOneRun ==
  \A r \in Runs : Alone(r) =>
    LET Exists(kind) == file[kind][stamp[r]] # NoFile
        events       == Content("canonical", r)
        parts        == Beginnings("canonical", r)
    IN  /\ Exists("raw") => Begun(r, "raw", Beginnings("raw", r))
        /\ Exists("canonical") => Holds(r, "raw", batch[r]) /\ Begun(r, "canonical", parts)
        /\ Exists("bronze") => Holds(r, "canonical", events) /\ Begun(r, "bronze", parts)
        /\ pc[r] = "done" => Holds(r, "bronze", events)

(* A file of several runs holds the whole text of each, or a beginning if  *)
(* that run was killed, and two texts only of runs that both had it open   *)
(* at a time: then one is written over the other, and what is left of the  *)
(* longer one shows behind the shorter.  Without such an overlap the file  *)
(* is what the last of them wrote.                                         *)
MixedOnlyTogether ==
  \A kind \in FileKinds, t \in Seconds : file[kind][t] # NoFile =>
    LET texts == file[kind][t] IN
    /\ \A n \in DOMAIN texts :
         LET q == texts[n].by IN
         /\ stamp[q] = t /\ texts[n].text \in Beginnings(kind, q)
         /\ pc[q] # "failed" => texts[n].text = Content(kind, q)
    /\ \A m, n \in DOMAIN texts :
         m # n => texts[m].by # texts[n].by /\ <<kind, texts[m].by, texts[n].by>> \in together

(* However runs overlap and are killed, the files of a run that shares its *)
(* second with none tell how far it came, and every text in any file is    *)
(* accounted for.                                                          *)
FilesAccountable == FilesOfOneRun /\ MixedOnlyTogether

(* What another run does never reaches a batch, and a batch is final once  *)
(* polling has stopped, whatever arrives while the files are written.      *)
Arrived == [s \in Shards |-> Len(stream[s])]
Taken == [r \in Runs |-> ToSet(batch[r])]
Closed == {r \in Runs : pc[r] \notin {"start", "open", "poll"}}

Batching == INSTANCE MicroBatch WITH arrived <- Arrived, taken <- Taken, closed <- Closed

ImplementsMicroBatch == Batching!Spec

(* What the stream held when a LATEST run began is never in its batch: a   *)
(* record is read by such a run only if it arrives while the run is on.    *)
LatestSkipsBacklog ==
  \A r \in Runs, s \in Shards : \A n \in 1..ShardCapacity :
    IteratorType[r] = "LATEST" =>
      [](pc[r] = "start" /\ Len(stream[s]) >= n => []( <<s, n>> \notin ToSet(batch[r])))

(* How many get_records calls a run may still make.                        *)
CallsLeft(r) ==
  LET room == MaxRecords - Len(batch[r]) + Len(ShardList) - turn[r] IN
  CASE pc[r] \in {"start", "open"} -> MaxEmptyPolls * (room + 1)
    [] pc[r] = "poll" -> MaxEmptyPolls * room + (MaxEmptyPolls - emptyPolls[r])
    [] OTHER -> 0

(* Polling runs out although records that keep arriving reset the count of *)
(* empty answers: every get_records call of a run brings it nearer to its  *)
(* end and nothing that arrives takes it further away, so that it makes    *)
(* max_empty_polls * (max_records + number of shards) calls at most; what  *)
(* it does between two calls and after them is no loop.                    *)
PollingRunsOut ==
  [][\A r \in Runs :
       /\ CallsLeft(r)' \in Nat /\ CallsLeft(r)' <= CallsLeft(r)
       /\ (\E count \in 0..ShardCapacity : GetRecords(r, count)) => CallsLeft(r)' < CallsLeft(r)]_vars

=============================================================================
