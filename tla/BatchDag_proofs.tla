--------------------------- MODULE BatchDag_proofs ---------------------------
(***************************************************************************)
(* Proofs about BatchDag for any number of runs, tries and failures:       *)
(* metadata in batch/raw is always about a file that is there, an          *)
(* expectation suite is in the way only of runs that overlap, a table in   *)
(* S3 names data that is not there only while a run is in the middle, a    *)
(* run that overlaps no other carries its own extraction through, and      *)
(* facts have their accounts (MetadataMeansData, SuiteFailsOnlyTogether,   *)
(* PublishedReadable, OwnExtractionThrough and FactsHaveAccounts); the     *)
(* last part is type correctness.                                          *)
(***************************************************************************)
EXTENDS BatchDag, SequenceTheorems, WellFoundedInduction, TLAPS

-----------------------------------------------------------------------------
(* The inductive invariant.                                                *)

Fields == {"task", "todo", "attempt", "own", "staged", "frame", "seen", "wrote", "report",
           "clashed"}

(* The state of a run is a record of these fields, whatever they hold.     *)
Shaped(state) == state = [field \in Fields |-> state[field]]

Phases == {"data", "metadata", "clear", "add"}
FileDatasets == {"accounts", "customers", "transactions"}

(* Pieces of work on files: those after the first are not begun.           *)
FileWork(todo, begins) ==
  /\ \E stamps : todo \in Seq(Phases \X FileDatasets \X stamps)
  /\ \A i \in 2..Len(todo) : todo[i][1] = begins

(* The metadata's turn comes only once the data has been put.              *)
UploadState(state, objects) ==
  state.task = "upload" =>
    /\ FileWork(state.todo, "data")
    /\ state.todo # <<>> =>
         LET piece == state.todo[1] IN
           \/ piece[1] = "data"
           \/ piece[1] = "metadata" /\ <<"data", piece[2], piece[3]>> \in objects

ValidationState(state) == state.task = "validate" => FileWork(state.todo, "clear")

(* Between the deletion and the addition of a suite it is not there.       *)
SuiteGone(r) ==
  run[r].task = "validate" /\ run[r].todo # <<>> /\ run[r].todo[1][1] = "add" =>
    run[r].todo[1][2] \notin suites

DagInv ==
  /\ run = [r \in Runs |-> run[r]]
  /\ \A r \in Runs :
       Shaped(run[r]) /\ UploadState(run[r], raw) /\ ValidationState(run[r])
  /\ MetadataMeansData
  /\ \A q, r \in Runs : q # r /\ Active(q) /\ Active(r) => q \in overlapped
  /\ \A r \in Runs \ overlapped : SuiteGone(r)
  /\ SuiteFailsOnlyTogether

-----------------------------------------------------------------------------
(* The bookkeeping of the tasks.                                           *)

(* A task that begins, for the first time or again, has no files planned.  *)
LEMMA RestartedFacts ==
  ASSUME NEW state, Shaped(state)
  PROVE  /\ Shaped(Restarted(state))
         /\ Restarted(state).task = state.task
         /\ Restarted(state).clashed = state.clashed
         /\ state.task \in {"upload", "validate"} => Restarted(state).todo = <<>>
<1>1. /\ Restarted(state) = [state EXCEPT !.todo = FixedWork(state.task), !.frame = {}, !.seen = <<>>]
      /\ state.task \in {"upload", "validate"} => FixedWork(state.task) = <<>>
  BY DEF Restarted, FixedWork
<1> QED
  BY <1>1 DEF Shaped, Fields

(* A run that has finished a task begins the next one with nothing found.  *)
LEMMA FinishedFacts ==
  ASSUME NEW state, Shaped(state)
  PROVE  /\ Shaped(Finished(state)) /\ Finished(state).clashed = state.clashed
         /\ Finished(state).task \in {"upload", "validate"} => Finished(state).todo = <<>>
<1> DEFINE next == [state EXCEPT !.task = Following(state.task), !.attempt = 1]
<1>1. Shaped(next) /\ next.clashed = state.clashed
  BY DEF Shaped, Fields
<1>2. Finished(state) = Restarted(next)
  BY DEF Finished
<1> HIDE DEF next
<1> QED
  BY <1>1, <1>2, RestartedFacts

(* A task that is tried again begins with nothing found.                   *)
LEMMA RetriedFacts ==
  ASSUME NEW state, Shaped(state)
  PROVE  /\ Shaped(Retried(state)) /\ Retried(state).clashed = state.clashed
         /\ Retried(state).task \in {"upload", "validate"} => Retried(state).todo = <<>>
<1> DEFINE next == IF state.attempt >= Attempts THEN [state EXCEPT !.task = "failed"]
                   ELSE [state EXCEPT !.attempt = state.attempt + 1]
<1>1. Shaped(next) /\ next.clashed = state.clashed
  BY DEF Shaped, Fields
<1>2. Retried(state) = Restarted(next)
  BY DEF Retried
<1> HIDE DEF next
<1> QED
  BY <1>1, <1>2, RestartedFacts

(* A piece that is done is the first one of the work that was found.       *)
LEMMA AdvancedFacts ==
  ASSUME NEW state, Shaped(state)
  PROVE  /\ Shaped(Advanced(state)) /\ Advanced(state).clashed = state.clashed
         /\ Advanced(state).task \in {"upload", "validate"} =>
              \/ Advanced(state).todo = <<>>
              \/ /\ Advanced(state).task = state.task /\ Len(state.todo) > 1
                 /\ Advanced(state).todo = Tail(state.todo)
<1>1. CASE Len(state.todo) > 1
  BY <1>1 DEF Advanced, Shaped, Fields
<1>2. CASE ~(Len(state.todo) > 1)
  BY <1>2, FinishedFacts DEF Advanced
<1> QED
  BY <1>1, <1>2

(* A piece that is half done keeps its place with another phase.           *)
LEMMA TurnedFacts ==
  ASSUME NEW state, NEW phase, Shaped(state)
  PROVE  /\ Shaped(Turned(state, phase)) /\ Turned(state, phase).clashed = state.clashed
         /\ Turned(state, phase).task = state.task
         /\ Turned(state, phase).todo =
              << <<phase, state.todo[1][2], state.todo[1][3]>> >> \o Tail(state.todo)
BY DEF Turned, Shaped, Fields

(* Work on files, nothing done yet, one piece done, one half done.         *)
LEMMA NoWork ==
  ASSUME NEW begins
  PROVE  FileWork(<<>>, begins)
BY DEF FileWork

(* What is left of the files' work after the first piece is files' work,   *)
(* with its first piece not begun.                                         *)
LEMMA WorkLeft ==
  ASSUME NEW todo, NEW begins, FileWork(todo, begins), Len(todo) > 1
  PROVE  FileWork(Tail(todo), begins) /\ Tail(todo)[1][1] = begins
<1>1. PICK stamps : todo \in Seq(Phases \X FileDatasets \X stamps)
  BY DEF FileWork
<1>2. /\ Tail(todo) \in Seq(Phases \X FileDatasets \X stamps) /\ Len(todo) \in Nat
      /\ Len(Tail(todo)) = Len(todo) - 1
      /\ \A i \in 1..Len(Tail(todo)) : Tail(todo)[i] = todo[i + 1]
  BY <1>1
<1> QED
  BY <1>2 DEF FileWork

(* The first piece of the files' work may be half done.                    *)
LEMMA WorkTurned ==
  ASSUME NEW todo, NEW begins, FileWork(todo, begins), todo # <<>>, NEW phase \in Phases
  PROVE  LET turned == << <<phase, todo[1][2], todo[1][3]>> >> \o Tail(todo) IN
           /\ FileWork(turned, begins) /\ turned # <<>>
           /\ turned[1] = <<phase, todo[1][2], todo[1][3]>>
<1>1. PICK stamps : todo \in Seq(Phases \X FileDatasets \X stamps)
  BY DEF FileWork
<1> DEFINE first == <<phase, todo[1][2], todo[1][3]>>
           turned == <<first>> \o Tail(todo)
<1>2. Len(todo) \in Nat /\ Len(todo) > 0 /\ todo[1] \in Phases \X FileDatasets \X stamps
  BY <1>1
<1>3. first \in Phases \X FileDatasets \X stamps
  BY <1>2
<1>4. /\ Tail(todo) \in Seq(Phases \X FileDatasets \X stamps)
      /\ Len(Tail(todo)) = Len(todo) - 1
      /\ \A i \in 1..Len(Tail(todo)) : Tail(todo)[i] = todo[i + 1]
  BY <1>1, <1>2
<1> HIDE DEF first
<1>5. /\ turned \in Seq(Phases \X FileDatasets \X stamps)
      /\ Len(turned) = Len(todo) /\ turned[1] = first
      /\ \A i \in 2..Len(turned) : turned[i] = Tail(todo)[i - 1]
  BY <1>2, <1>3, <1>4
<1>6. \A i \in 2..Len(turned) : turned[i] = todo[i]
  BY <1>2, <1>4, <1>5
<1> HIDE DEF turned
<1>7. FileWork(turned, begins) /\ turned # <<>>
  BY <1>2, <1>5, <1>6 DEF FileWork
<1> QED
  BY <1>5, <1>7 DEF turned, first

(* What is found on disk is planned whole.                                 *)
LEMMA DiscoveredWork ==
  ASSUME NEW phase \in Phases
  PROVE  FileWork(Discovered(phase), phase)
         /\ \A i \in 1..Len(Discovered(phase)) : Discovered(phase)[i][1] = phase
<1> DEFINE newest == {Latest(d) : d \in FileDatasets}
           Pieces == {phase} \X FileDatasets \X newest
           Of(d) == IF Stamps(d) = {} THEN <<>> ELSE << <<phase, d, Latest(d)>> >>
<1>1. ASSUME NEW d \in FileDatasets PROVE Of(d) \in Seq(Pieces)
  <2>1. <<phase, d, Latest(d)>> \in Pieces
    OBVIOUS
  <2> HIDE DEF Pieces
  <2> QED
    BY <2>1
<1>2. Discovered(phase) = Of("accounts") \o Of("customers") \o Of("transactions")
  BY DEF Discovered
<1>3. Of("accounts") \in Seq(Pieces) /\ Of("customers") \in Seq(Pieces)
      /\ Of("transactions") \in Seq(Pieces)
  BY <1>1 DEF FileDatasets
<1>4. Discovered(phase) \in Seq(Pieces)
  <2> HIDE DEF Of, Pieces
  <2> QED
    BY <1>2, <1>3
<1>5. \A i \in 1..Len(Discovered(phase)) : Discovered(phase)[i] \in Pieces
  <2> HIDE DEF Pieces
  <2> QED
    BY <1>4
<1>6. \A i \in 1..Len(Discovered(phase)) : Discovered(phase)[i][1] = phase
  BY <1>5
<1>7. Discovered(phase) \in Seq(Phases \X FileDatasets \X newest)
  <2>1. Pieces \subseteq Phases \X FileDatasets \X newest
    OBVIOUS
  <2> HIDE DEF Pieces
  <2> QED
    BY <1>4, <2>1
<1>8. \A i \in 2..Len(Discovered(phase)) : Discovered(phase)[i][1] = phase
  <2>1. Len(Discovered(phase)) \in Nat
    BY <1>7
  <2> QED
    BY <1>6, <2>1
<1> QED
  BY <1>6, <1>7, <1>8 DEF FileWork

-----------------------------------------------------------------------------
(* A step of one run: what is left to show is about that run and the raw   *)
(* layer.  An active run that is not overlapped is alone, so no other run  *)
(* can be between the deletion and the addition of a suite.                *)
LEMMA OneRunSteps ==
  ASSUME DagInv, NEW r \in Runs, Active(r), NEW next, run' = [run EXCEPT ![r] = next],
         Shaped(next), UploadState(next, raw'), ValidationState(next),
         raw \subseteq raw', MetadataMeansData', overlapped' = overlapped,
         next.task = "validate" /\ next.todo # <<>> /\ next.todo[1][1] = "add" =>
           next.todo[1][2] \notin suites',
         next.clashed => r \in overlapped
  PROVE  DagInv'
<1>1. run'[r] = next /\ (\A q \in Runs \ {r} : run'[q] = run[q]) /\ run' = [q \in Runs |-> run'[q]]
  BY DEF DagInv
<1>2. \A q \in Runs : Shaped(run'[q]) /\ UploadState(run'[q], raw') /\ ValidationState(run'[q])
  <2> SUFFICES ASSUME NEW q \in Runs \ {r}
               PROVE  Shaped(run'[q]) /\ UploadState(run'[q], raw') /\ ValidationState(run'[q])
    BY <1>1
  <2>1. Shaped(run[q]) /\ UploadState(run[q], raw) /\ ValidationState(run[q]) /\ run'[q] = run[q]
    BY <1>1 DEF DagInv
  <2> QED
    BY <2>1 DEF UploadState
<1>3. \A p, q \in Runs : p # q /\ Active(p)' /\ Active(q)' => p \in overlapped'
  BY <1>1 DEF DagInv, Active
<1>4. ASSUME NEW q \in Runs \ overlapped' PROVE SuiteGone(q)'
  <2>1. CASE q = r
    BY <1>1, <2>1 DEF SuiteGone
  <2>2. CASE q # r
    <3>1. ~Active(q) /\ run'[q] = run[q]
      BY <1>1, <1>4, <2>2 DEF DagInv
    <3> QED
      BY <3>1 DEF Active, SuiteGone
  <2> QED
    BY <2>1, <2>2
<1>5. SuiteFailsOnlyTogether'
  BY <1>1 DEF DagInv, SuiteFailsOnlyTogether
<1> QED
  BY <1>1, <1>2, <1>3, <1>4, <1>5 DEF DagInv

(* The same for the steps that leave upload and validation alone.          *)
LEMMA OtherTaskSteps ==
  ASSUME DagInv, NEW r \in Runs, Active(r), NEW next, run' = [run EXCEPT ![r] = next],
         Shaped(next), next.task \in {"upload", "validate"} => next.todo = <<>>,
         raw' = raw, overlapped' = overlapped, next.clashed = run[r].clashed
  PROVE  DagInv'
<1>1. FileWork(<<>>, "data") /\ FileWork(<<>>, "clear")
  BY NoWork
<1>2. UploadState(next, raw') /\ ValidationState(next)
  BY <1>1 DEF UploadState, ValidationState
<1>3. MetadataMeansData'
  BY DEF DagInv, MetadataMeansData
<1>4. next.clashed => r \in overlapped
  BY DEF DagInv, SuiteFailsOnlyTogether
<1> QED
  BY <1>2, <1>3, <1>4, OneRunSteps

(* What every state of a run satisfies.                                    *)
LEMMA RunState ==
  ASSUME DagInv, NEW r \in Runs
  PROVE  /\ run = [q \in Runs |-> run[q]] /\ Shaped(run[r])
         /\ UploadState(run[r], raw) /\ ValidationState(run[r])
         /\ run[r].clashed => r \in overlapped
         /\ r \notin overlapped => SuiteGone(r)
BY DEF DagInv, SuiteFailsOnlyTogether

(* An exception, or a kill by the execution_timeout, at any moment of a    *)
(* task.                                                                   *)
LEMMA KilledKeeps ==
  ASSUME DagInv, NEW r \in Runs, TaskKilled(r)
  PROVE  DagInv'
<1> DEFINE next == Retried(run[r])
<1>1. /\ Active(r) /\ run' = [run EXCEPT ![r] = next]
      /\ raw' = raw /\ overlapped' = overlapped
  BY DEF TaskKilled
<1>2. /\ Shaped(next) /\ next.clashed = run[r].clashed
      /\ next.task \in {"upload", "validate"} => next.todo = <<>>
  BY RunState, RetriedFacts
<1> HIDE DEF next
<1> QED
  BY <1>1, <1>2, OtherTaskSteps

(* A run that starts is the one that may overlap others.                   *)
LEMMA StartKeeps ==
  ASSUME DagInv, NEW r \in Runs, StartRun(r)
  PROVE  DagInv'
<1>1. /\ run' = [run EXCEPT ![r] = [run[r] EXCEPT !.task = "extract", !.attempt = 1]]
      /\ raw' = raw /\ suites' = suites /\ run[r].task = "none"
      /\ overlapped \subseteq overlapped'
      /\ \A q \in Runs : Active(q) => q \in overlapped' /\ r \in overlapped'
  BY DEF StartRun, disk
<1>2. /\ run'[r] = [run[r] EXCEPT !.task = "extract", !.attempt = 1]
      /\ \A q \in Runs \ {r} : run'[q] = run[q]
      /\ run' = [q \in Runs |-> run'[q]]
  BY <1>1 DEF DagInv
<1>3. Shaped(run'[r]) /\ run'[r].task = "extract" /\ run'[r].clashed = run[r].clashed
  BY <1>2, RunState DEF Shaped, Fields
<1>4. \A q \in Runs : Shaped(run'[q]) /\ UploadState(run'[q], raw') /\ ValidationState(run'[q])
  BY <1>1, <1>2, <1>3 DEF DagInv, UploadState, ValidationState
<1>5. MetadataMeansData'
  BY <1>1 DEF DagInv, MetadataMeansData
<1>6. \A p, q \in Runs : p # q /\ Active(p)' /\ Active(q)' => p \in overlapped'
  BY <1>1, <1>2 DEF Active
<1>7. ASSUME NEW q \in Runs \ overlapped' PROVE SuiteGone(q)'
  <2>1. CASE q = r
    BY <1>3, <2>1 DEF SuiteGone
  <2>2. CASE q # r
    BY <1>1, <1>2, <1>7, <2>2, RunState DEF SuiteGone
  <2> QED
    BY <2>1, <2>2
<1>8. SuiteFailsOnlyTogether'
  BY <1>1, <1>2, <1>3 DEF DagInv, SuiteFailsOnlyTogether
<1> QED
  BY <1>2, <1>4, <1>5, <1>6, <1>7, <1>8 DEF DagInv

-----------------------------------------------------------------------------
(* The tasks that neither validate nor upload.                             *)

(* The extraction writes files, it removes none.                           *)
LEMMA ExtractionKeeps ==
  ASSUME DagInv, NEW r \in Runs, Extract(r) \/ WriteFile(r)
  PROVE  DagInv'
<1>1. CASE Extract(r)
  <2> DEFINE next == [run[r] EXCEPT !.own = clock',
                        !.todo = [i \in DOMAIN Datasets |-> <<"write", Datasets[i], clock'>>]]
  <2>1. /\ Active(r) /\ run' = [run EXCEPT ![r] = next] /\ run[r].task = "extract"
        /\ raw' = raw /\ overlapped' = overlapped
    BY <1>1 DEF Extract, Begins, Active
  <2>2. Shaped(next) /\ next.clashed = run[r].clashed /\ next.task = "extract"
    BY <2>1, RunState DEF Shaped, Fields
  <2> HIDE DEF next
  <2> QED
    BY <2>1, <2>2, OtherTaskSteps
<1>2. CASE WriteFile(r)
  <2> DEFINE next == Advanced(run[r])
  <2>1. /\ Active(r) /\ run' = [run EXCEPT ![r] = next] /\ run[r].task = "extract"
        /\ raw' = raw /\ overlapped' = overlapped
    BY <1>2 DEF WriteFile, Works, Active
  <2>2. /\ Shaped(next) /\ next.clashed = run[r].clashed
        /\ next.task \in {"upload", "validate"} => next.todo = <<>>
    BY <2>1, RunState, AdvancedFacts
  <2> HIDE DEF next
  <2> QED
    BY <2>1, <2>2, OtherTaskSteps
<1> QED
  BY <1>1, <1>2

(* Staging touches neither batch/raw nor the suites.                       *)
LEMMA StagingKeeps ==
  ASSUME DagInv, NEW r \in Runs, PlanStage(r) \/ StageFile(r)
  PROVE  DagInv'
<1>1. CASE PlanStage(r)
  <2> DEFINE work == Append([i \in DOMAIN Datasets |->
                               <<"copy", Datasets[i], Latest(Datasets[i])>>],
                            <<"derive", Balances,
                              <<Latest("accounts"), Latest("transactions")>>>>)
             planned == [run[r] EXCEPT !.staged = {}, !.todo = work]
             next == run'[r]
  <2>1. /\ Active(r) /\ run[r].task = "stage" /\ raw' = raw /\ overlapped' = overlapped
        /\ run' = [run EXCEPT ![r] = next] /\ next \in {planned, Retried(run[r])}
    BY <1>1, RunState DEF PlanStage, Begins, Active
  <2>2. Shaped(planned) /\ planned.clashed = run[r].clashed /\ planned.task = "stage"
    <3>1. planned = [run[r] EXCEPT !.staged = {}, !.todo = work]
      OBVIOUS
    <3> HIDE DEF work, planned
    <3>2. Shaped(run[r])
      BY RunState
    <3>3. Shaped(planned)
      BY <3>1, <3>2 DEF Shaped, Fields
    <3>4. planned.clashed = run[r].clashed /\ planned.task = run[r].task
      BY <3>1, <3>2 DEF Shaped, Fields
    <3> QED
      BY <2>1, <3>3, <3>4
  <2>3. /\ Shaped(Retried(run[r])) /\ Retried(run[r]).clashed = run[r].clashed
        /\ Retried(run[r]).task \in {"upload", "validate"} => Retried(run[r]).todo = <<>>
    BY RunState, RetriedFacts
  <2> HIDE DEF planned, next
  <2>4. /\ Shaped(next) /\ next.clashed = run[r].clashed
        /\ next.task \in {"upload", "validate"} => next.todo = <<>>
    BY <2>1, <2>2, <2>3
  <2> QED
    BY <2>1, <2>4, OtherTaskSteps
<1>2. CASE StageFile(r)
  <2> DEFINE staging == [run[r] EXCEPT !.staged = run[r].staged \cup {<<Piece(r)[2], Piece(r)[3]>>}]
             next == Advanced(staging)
  <2>1. /\ Active(r) /\ run' = [run EXCEPT ![r] = next] /\ run[r].task = "stage"
        /\ raw' = raw /\ overlapped' = overlapped
    BY <1>2 DEF StageFile, Works, Active
  <2>2. Shaped(staging) /\ staging.clashed = run[r].clashed /\ staging.task = "stage"
    BY <2>1, RunState DEF Shaped, Fields
  <2> HIDE DEF staging
  <2>3. /\ Shaped(next) /\ next.clashed = run[r].clashed
        /\ next.task \in {"upload", "validate"} => next.todo = <<>>
    BY <2>2, AdvancedFacts
  <2> HIDE DEF next
  <2> QED
    BY <2>1, <2>3, OtherTaskSteps
<1> QED
  BY <1>1, <1>2

(* Nor does Spark.                                                         *)
LEMMA SparkKeeps ==
  ASSUME DagInv, NEW r \in Runs, WriteTable(r)
  PROVE  DagInv'
<1> DEFINE layer == Piece(r)[1]
           table == Piece(r)[2]
           frame == IF layer = Layers[1] THEN FrameOf(table) ELSE run[r].frame
           wrote == IF <<layer, table>> = <<"gold", "transactions">>
                    THEN lake[layer][table].version + 1 ELSE run[r].wrote
           state == [run[r] EXCEPT !.frame = frame, !.wrote = wrote]
           next == IF layer = "gold" THEN Advanced(state) ELSE Turned(state, "gold")
<1>1. /\ Active(r) /\ run' = [run EXCEPT ![r] = next] /\ run[r].task = "spark"
      /\ raw' = raw /\ overlapped' = overlapped
  BY DEF WriteTable, Works, Active
<1>2. Shaped(state) /\ state.clashed = run[r].clashed /\ state.task = "spark"
  <2> HIDE DEF frame, wrote
  <2> QED
    BY <1>1, RunState DEF Shaped, Fields
<1> HIDE DEF state
<1>3. /\ Shaped(next) /\ next.clashed = run[r].clashed
      /\ next.task \in {"upload", "validate"} => next.todo = <<>>
  BY <1>2, AdvancedFacts, TurnedFacts
<1> HIDE DEF next
<1> QED
  BY <1>1, <1>3, OtherTaskSteps

(* Nor does the publisher.                                                 *)
LEMMA PublishingKeeps ==
  ASSUME DagInv, NEW r \in Runs, ListFirst(r) \/ ListSecond(r) \/ UploadFiles(r)
  PROVE  DagInv'
<1> DEFINE next == run'[r]
<1>1. Active(r) /\ run[r].task = "publish" /\ raw' = raw /\ overlapped' = overlapped
  BY DEF ListFirst, ListSecond, UploadFiles, Works, Active
<1>2. /\ run' = [run EXCEPT ![r] = next] /\ Shaped(next) /\ next.clashed = run[r].clashed
      /\ next.task \in {"upload", "validate"} => next.todo = <<>>
  <2>1. CASE ListFirst(r)
    <3> DEFINE now == Versions(Piece(r)[2])
               listed == [run[r] EXCEPT !.seen = [log |-> now, data |-> now]]
    <3>1. run' = [run EXCEPT ![r] = Turned(listed, "list on")]
      BY <2>1 DEF ListFirst
    <3>2. Shaped(listed) /\ listed.clashed = run[r].clashed /\ listed.task = "publish"
      <4> HIDE DEF now
      <4> QED
        BY <1>1, RunState DEF Shaped, Fields
    <3> HIDE DEF listed
    <3>3. next = Turned(listed, "list on")
      BY <3>1, RunState
    <3>4. LET after == Turned(listed, "list on") IN
            Shaped(after) /\ after.clashed = run[r].clashed /\ after.task = "publish"
      BY <3>2, TurnedFacts
    <3> HIDE DEF next
    <3> QED
      BY <3>1, <3>3, <3>4
  <2>2. CASE ListSecond(r)
    <3> DEFINE layer == Piece(r)[2]
               lists(part) == [run[r].seen EXCEPT ![part] = Versions(layer)]
               work == [i \in DOMAIN PublishOrder |-> <<"log", PublishOrder[i], layer>>]
                         \o Tail(run[r].todo)
               listed(part) == [run[r] EXCEPT !.seen = lists(part), !.todo = work]
    <3>1. PICK part \in {"log", "data"} : run' = [run EXCEPT ![r] = listed(part)]
      BY <2>2 DEF ListSecond
    <3>2. /\ Shaped(listed(part)) /\ listed(part).clashed = run[r].clashed
          /\ listed(part).task = "publish"
      <4> HIDE DEF work, lists
      <4> QED
        BY <1>1, RunState DEF Shaped, Fields
    <3> HIDE DEF listed
    <3>3. next = listed(part)
      BY <3>1, RunState
    <3> QED
      BY <3>1, <3>2, <3>3
  <2>3. CASE UploadFiles(r)
    <3>1. /\ run' = [run EXCEPT ![r] = next]
          /\ next \in {Turned(run[r], "data"), Advanced(run[r])}
      BY <2>3, RunState DEF UploadFiles
    <3>2. LET after == Turned(run[r], "data") IN
            Shaped(after) /\ after.clashed = run[r].clashed /\ after.task = "publish"
      BY <1>1, RunState, TurnedFacts
    <3>3. LET after == Advanced(run[r]) IN
            /\ Shaped(after) /\ after.clashed = run[r].clashed
            /\ after.task \in {"upload", "validate"} => after.todo = <<>>
      BY <1>1, RunState, AdvancedFacts
    <3> HIDE DEF next
    <3> QED
      BY <3>1, <3>2, <3>3
  <2> QED
    BY <2>1, <2>2, <2>3
<1> HIDE DEF next
<1> QED
  BY <1>1, <1>2, OtherTaskSteps

(* The report only reads.                                                  *)
LEMMA ReportKeeps ==
  ASSUME DagInv, NEW r \in Runs, Report(r)
  PROVE  DagInv'
<1> DEFINE report == [accounts |-> Latest("accounts"), transactions |-> Latest("transactions"),
                      fact_transaction |-> lake.gold["transactions"].version]
           state == [run[r] EXCEPT !.report = report]
           next == Finished(state)
<1>1. /\ Active(r) /\ run' = [run EXCEPT ![r] = next]
      /\ raw' = raw /\ overlapped' = overlapped
  BY DEF Report, Begins, Active
<1>2. Shaped(state) /\ state.clashed = run[r].clashed
  <2> HIDE DEF report
  <2> QED
    BY RunState DEF Shaped, Fields
<1> HIDE DEF state
<1>3. /\ Shaped(next) /\ next.clashed = run[r].clashed
      /\ next.task \in {"upload", "validate"} => next.todo = <<>>
  BY <1>2, FinishedFacts
<1> HIDE DEF next
<1> QED
  BY <1>1, <1>3, OtherTaskSteps

-----------------------------------------------------------------------------
(* Validation.                                                             *)

(* Validation: add fails on a suite only if another run has added it since *)
(* it was cleared, and then the two overlap.                               *)
LEMMA ValidationKeeps ==
  ASSUME DagInv, NEW r \in Runs, PlanValidation(r) \/ ClearSuite(r) \/ AddSuiteAndRun(r)
  PROVE  DagInv'
<1> DEFINE next == run'[r]
<1>1. /\ Active(r) /\ run[r].task = "validate" /\ raw' = raw /\ overlapped' = overlapped
      /\ Shaped(run[r]) /\ FileWork(run[r].todo, "clear")
  BY RunState DEF PlanValidation, ClearSuite, AddSuiteAndRun, Planned, Begins, Works, Active,
                  ValidationState
<1>2. MetadataMeansData'
  BY <1>1 DEF DagInv, MetadataMeansData
<1>3. run[r].clashed => r \in overlapped
  BY RunState
<1>4. CASE PlanValidation(r)
  <2> DEFINE planned == [run[r] EXCEPT !.todo = Discovered("clear")]
  <2>1. run' = [run EXCEPT ![r] = planned] /\ suites' = suites
    BY <1>4 DEF PlanValidation, Planned, disk
  <2>2. /\ Shaped(planned) /\ planned.clashed = run[r].clashed /\ planned.task = "validate"
        /\ planned.todo = Discovered("clear")
    BY <1>1 DEF Shaped, Fields
  <2> HIDE DEF planned
  <2>3. /\ FileWork(planned.todo, "clear")
        /\ \A k \in 1..Len(planned.todo) : planned.todo[k][1] = "clear"
    BY <2>2, DiscoveredWork DEF Phases
  <2>4. planned.todo # <<>> => planned.todo[1][1] = "clear"
    BY <2>3 DEF FileWork
  <2>5. UploadState(planned, raw') /\ ValidationState(planned)
    BY <2>2, <2>3 DEF UploadState, ValidationState
  <2> QED
    BY <1>1, <1>2, <1>3, <2>1, <2>2, <2>4, <2>5, OneRunSteps
<1>5. CASE ClearSuite(r)
  <2> DEFINE cleared == Turned(run[r], "add")
             piece == run[r].todo[1]
  <2>1. /\ run' = [run EXCEPT ![r] = cleared] /\ suites' = suites \ {piece[2]}
        /\ run[r].todo # <<>>
    BY <1>5 DEF ClearSuite, Cleared, Works, Piece
  <2>2. /\ Shaped(cleared) /\ cleared.clashed = run[r].clashed /\ cleared.task = "validate"
        /\ cleared.todo = << <<"add", piece[2], piece[3]>> >> \o Tail(run[r].todo)
    BY <1>1, TurnedFacts
  <2> HIDE DEF cleared
  <2>3. FileWork(cleared.todo, "clear") /\ cleared.todo[1] = <<"add", piece[2], piece[3]>>
    BY <1>1, <2>1, <2>2, WorkTurned DEF Phases
  <2>4. UploadState(cleared, raw') /\ ValidationState(cleared)
    BY <2>2, <2>3 DEF UploadState, ValidationState
  <2>5. cleared.todo[1][2] \notin suites'
    BY <2>1, <2>3
  <2> QED
    BY <1>1, <1>2, <1>3, <2>1, <2>2, <2>4, <2>5, OneRunSteps
<1>6. CASE AddSuiteAndRun(r)
  <2> DEFINE clashing == [Retried(run[r]) EXCEPT !.clashed = TRUE]
             added == IF Piece(r)[2] \in suites THEN clashing
                      ELSE IF HoldsNothing(Piece(r)) THEN Retried(run[r]) ELSE Advanced(run[r])
  <2>1. /\ run' = [run EXCEPT ![r] = added] /\ run[r].todo # <<>> /\ run[r].todo[1][1] = "add"
        /\ Piece(r) = run[r].todo[1]
    BY <1>6 DEF AddSuiteAndRun, Works, Piece
  <2>2. Piece(r)[2] \in suites => r \in overlapped
    BY <1>1, <2>1, RunState DEF SuiteGone
  <2>3. /\ Shaped(Retried(run[r])) /\ Retried(run[r]).clashed = run[r].clashed
        /\ Retried(run[r]).task \in {"upload", "validate"} => Retried(run[r]).todo = <<>>
    BY <1>1, RetriedFacts
  <2>4. /\ Shaped(clashing) /\ clashing.task = Retried(run[r]).task
        /\ clashing.todo = Retried(run[r]).todo
    BY <2>3 DEF Shaped, Fields
  <2>5. /\ Shaped(Advanced(run[r])) /\ Advanced(run[r]).clashed = run[r].clashed
        /\ Advanced(run[r]).task \in {"upload", "validate"} =>
             \/ Advanced(run[r]).todo = <<>>
             \/ /\ Advanced(run[r]).task = "validate" /\ Len(run[r].todo) > 1
                /\ Advanced(run[r]).todo = Tail(run[r].todo)
    BY <1>1, AdvancedFacts
  <2> HIDE DEF clashing
  <2>6. /\ Shaped(added)
        /\ added.clashed => r \in overlapped
        /\ added.task \in {"upload", "validate"} =>
             \/ added.todo = <<>>
             \/ /\ added.task = "validate" /\ Len(run[r].todo) > 1
                /\ added.todo = Tail(run[r].todo)
    BY <1>3, <2>2, <2>3, <2>4, <2>5
  <2> HIDE DEF added
  <2>7. FileWork(<<>>, "data") /\ FileWork(<<>>, "clear")
    BY NoWork
  <2>8. Len(run[r].todo) > 1 =>
          FileWork(Tail(run[r].todo), "clear") /\ Tail(run[r].todo)[1][1] = "clear"
    BY <1>1, WorkLeft
  <2>9. UploadState(added, raw') /\ ValidationState(added)
    BY <2>6, <2>7, <2>8 DEF UploadState, ValidationState
  <2>10. ~(added.task = "validate" /\ added.todo # <<>> /\ added.todo[1][1] = "add")
    BY <2>6, <2>8
  <2> QED
    BY <1>1, <1>2, <2>1, <2>6, <2>9, <2>10, OneRunSteps
<1> QED
  BY <1>4, <1>5, <1>6

-----------------------------------------------------------------------------
(* The upload.                                                             *)

(* The upload: metadata follows its file.                                  *)
LEMMA UploadKeeps ==
  ASSUME DagInv, NEW r \in Runs, PlanUpload(r) \/ Put(r) \/ PutGivenUp(r)
  PROVE  DagInv'
<1>1. /\ Active(r) /\ run[r].task = "upload" /\ overlapped' = overlapped
      /\ Shaped(run[r]) /\ FileWork(run[r].todo, "data")
  BY RunState DEF PlanUpload, Put, PutGivenUp, Planned, Begins, Works, Active, UploadState
<1>2. run[r].clashed => r \in overlapped
  BY RunState
<1>3. PutOrder[1] = "data" /\ PutOrder[2] = "metadata"
  BY DEF PutOrder
<1>4. CASE PlanUpload(r)
  <2> DEFINE planned == [run[r] EXCEPT !.todo = Discovered("data")]
  <2>1. run' = [run EXCEPT ![r] = planned] /\ raw' = raw
    BY <1>3, <1>4 DEF PlanUpload, Planned
  <2>2. /\ Shaped(planned) /\ planned.clashed = run[r].clashed /\ planned.task = "upload"
        /\ planned.todo = Discovered("data")
    BY <1>1 DEF Shaped, Fields
  <2> HIDE DEF planned
  <2>3. /\ FileWork(planned.todo, "data")
        /\ \A k \in 1..Len(planned.todo) : planned.todo[k][1] = "data"
    BY <2>2, DiscoveredWork DEF Phases
  <2>4. planned.todo # <<>> => planned.todo[1][1] = "data"
    BY <2>3 DEF FileWork
  <2>5. UploadState(planned, raw') /\ ValidationState(planned)
    BY <2>2, <2>3, <2>4 DEF UploadState, ValidationState
  <2>6. MetadataMeansData'
    BY <2>1 DEF DagInv, MetadataMeansData
  <2> QED
    BY <1>1, <1>2, <2>1, <2>2, <2>5, <2>6, OneRunSteps
<1> DEFINE piece == run[r].todo[1]
<1>5. ASSUME run[r].todo # <<>>
      PROVE  /\ piece = <<piece[1], piece[2], piece[3]>>
             /\ \/ piece[1] = "data"
                \/ piece[1] = "metadata" /\ <<"data", piece[2], piece[3]>> \in raw
  <2>1. PICK stamps : run[r].todo \in Seq(Phases \X FileDatasets \X stamps)
    BY <1>1 DEF FileWork
  <2>2. piece \in Phases \X FileDatasets \X stamps
    BY <1>5, <2>1
  <2>3. piece = <<piece[1], piece[2], piece[3]>>
    <3> HIDE DEF piece
    <3> QED
      BY <2>2
  <2> QED
    BY <1>1, <1>5, <2>3, RunState DEF UploadState
(* Adding the piece whose turn it is keeps metadata about data.            *)
<1>6. ASSUME run[r].todo # <<>>, raw' = raw \cup {piece}
      PROVE  MetadataMeansData'
  <2> HIDE DEF piece
  <2> QED
    BY <1>5, <1>6 DEF DagInv, MetadataMeansData
<1>7. /\ Shaped(Retried(run[r])) /\ Retried(run[r]).clashed = run[r].clashed
      /\ Retried(run[r]).task \in {"upload", "validate"} => Retried(run[r]).todo = <<>>
  BY <1>1, RetriedFacts
<1>8. FileWork(<<>>, "data") /\ FileWork(<<>>, "clear")
  BY NoWork
<1>9. \A objects : UploadState(Retried(run[r]), objects) /\ ValidationState(Retried(run[r]))
  BY <1>7, <1>8 DEF UploadState, ValidationState
<1>10. CASE PutGivenUp(r)
  <2>1. /\ run' = [run EXCEPT ![r] = Retried(run[r])] /\ raw' = raw \cup {piece}
        /\ run[r].todo # <<>>
    BY <1>10 DEF PutGivenUp, Works, Piece
  <2> HIDE DEF piece
  <2> QED
    BY <1>1, <1>2, <1>6, <1>7, <1>9, <2>1, OneRunSteps
<1>11. CASE Put(r) /\ HoldsNothing(piece)
  <2>1. run' = [run EXCEPT ![r] = Retried(run[r])] /\ raw' = raw
    BY <1>11 DEF Put, Works, Piece
  <2>2. MetadataMeansData'
    BY <2>1 DEF DagInv, MetadataMeansData
  <2> QED
    BY <1>1, <1>2, <1>7, <1>9, <2>1, <2>2, OneRunSteps
<1>12. CASE Put(r) /\ ~HoldsNothing(piece)
  <2>1. /\ raw' = raw \cup {piece} /\ run[r].todo # <<>>
        /\ run' = [run EXCEPT ![r] =
                     IF piece[1] = "data" THEN Turned(run[r], "metadata") ELSE Advanced(run[r])]
    BY <1>3, <1>12 DEF Put, Works, Piece
  <2>2. CASE piece[1] = "data"
    <3> DEFINE turned == Turned(run[r], "metadata")
    <3>1. run' = [run EXCEPT ![r] = turned]
      BY <2>1, <2>2
    <3>2. /\ Shaped(turned) /\ turned.clashed = run[r].clashed /\ turned.task = "upload"
          /\ turned.todo = << <<"metadata", piece[2], piece[3]>> >> \o Tail(run[r].todo)
      BY <1>1, TurnedFacts
    <3> HIDE DEF turned
    <3>3. FileWork(turned.todo, "data") /\ turned.todo[1] = <<"metadata", piece[2], piece[3]>>
      BY <1>1, <2>1, <3>2, WorkTurned DEF Phases
    <3>4. <<"data", piece[2], piece[3]>> \in raw'
      <4> HIDE DEF piece
      <4> QED
        BY <1>5, <2>1, <2>2
    <3>5. UploadState(turned, raw') /\ ValidationState(turned)
      BY <3>2, <3>3, <3>4 DEF UploadState, ValidationState
    <3> HIDE DEF piece
    <3> QED
      BY <1>1, <1>2, <1>6, <2>1, <3>1, <3>2, <3>5, OneRunSteps
  <2>3. CASE piece[1] # "data"
    <3> DEFINE left == Advanced(run[r])
    <3>1. run' = [run EXCEPT ![r] = left]
      BY <2>1, <2>3
    <3>2. /\ Shaped(left) /\ left.clashed = run[r].clashed
          /\ left.task \in {"upload", "validate"} =>
               \/ left.todo = <<>>
               \/ /\ left.task = "upload" /\ Len(run[r].todo) > 1
                  /\ left.todo = Tail(run[r].todo)
      BY <1>1, AdvancedFacts
    <3> HIDE DEF left
    <3>3. Len(run[r].todo) > 1 =>
            FileWork(Tail(run[r].todo), "data") /\ Tail(run[r].todo)[1][1] = "data"
      BY <1>1, WorkLeft
    <3>4. UploadState(left, raw') /\ ValidationState(left)
      BY <1>8, <3>2, <3>3 DEF UploadState, ValidationState
    <3>5. ~(left.task = "validate" /\ left.todo # <<>>)
      BY <3>2
    <3> HIDE DEF piece
    <3> QED
      BY <1>1, <1>2, <1>6, <2>1, <3>1, <3>2, <3>4, <3>5, OneRunSteps
  <2> QED
    BY <2>2, <2>3
<1> QED
  BY <1>4, <1>10, <1>11, <1>12

-----------------------------------------------------------------------------
(* The invariant holds before the first run.                               *)
LEMMA InitDagInv == Init => DagInv
<1> SUFFICES ASSUME Init PROVE DagInv
  OBVIOUS
<1>1. /\ run = [r \in Runs |-> run[r]] /\ \A r \in Runs : run[r] = Idle
      /\ raw = {} /\ overlapped = {}
  BY DEF Init
<1>2. Shaped(Idle) /\ Idle.task = "none" /\ ~Idle.clashed
  BY DEF Shaped, Fields, Idle
<1> QED
  BY <1>1, <1>2 DEF DagInv, UploadState, ValidationState, MetadataMeansData, Active, SuiteGone,
                    SuiteFailsOnlyTogether

(* Every step keeps it.                                                    *)
LEMMA DagInvKept == DagInv /\ [Next]_vars => DagInv'
<1> SUFFICES ASSUME DagInv, [Next]_vars PROVE DagInv'
  OBVIOUS
<1>1. ASSUME NEW r \in Runs, StartRun(r) PROVE DagInv'
  BY <1>1, StartKeeps
<1>2. ASSUME NEW r \in Runs, Work(r) PROVE DagInv'
  BY <1>2, ExtractionKeeps, ValidationKeeps, UploadKeeps, StagingKeeps, SparkKeeps,
     PublishingKeeps, ReportKeeps DEF Work
<1>3. ASSUME NEW r \in Runs, PutGivenUp(r) PROVE DagInv'
  BY <1>3, UploadKeeps
<1>4. ASSUME NEW r \in Runs, TaskKilled(r) PROVE DagInv'
  BY <1>4, KilledKeeps
<1>5. CASE UNCHANGED vars
  BY <1>5 DEF vars, disk, DagInv, MetadataMeansData, SuiteFailsOnlyTogether, Active, SuiteGone
<1> QED
  BY <1>1, <1>2, <1>3, <1>4, <1>5 DEF Next

(* Metadata in batch/raw is about a file that is there, whatever uploads   *)
(* are killed, given up, repeated and overlap.                             *)
THEOREM MetadataCorrect == Spec => []MetadataMeansData
<1>1. DagInv => MetadataMeansData
  BY DEF DagInv
<1> QED
  BY <1>1, InitDagInv, DagInvKept, PTL DEF Spec

(* A run whose validation found its suite in the way was overlapped,       *)
(* whatever earlier runs and killed tries have left on disk.               *)
THEOREM SuitesCorrect == Spec => []SuiteFailsOnlyTogether
<1>1. DagInv => SuiteFailsOnlyTogether
  BY DEF DagInv
<1> QED
  BY <1>1, InitDagInv, DagInvKept, PTL DEF Spec

-----------------------------------------------------------------------------
(* The lake and its copy in S3.                                            *)

LayerSet == Range(Layers)
TableSet == Range(Tables)

LakeTypes ==
  /\ lake = [layer \in LayerSet |-> [t \in TableSet |->
               [version |-> lake[layer][t].version, of |-> lake[layer][t].of]]]
  /\ s3 = [layer \in LayerSet |-> [t \in TableSet |->
             [log |-> s3[layer][t].log, data |-> s3[layer][t].data]]]
  /\ \A layer \in LayerSet, t \in TableSet :
       /\ lake[layer][t].version \in Nat
       /\ s3[layer][t].log \in Nat /\ s3[layer][t].log <= lake[layer][t].version
       /\ s3[layer][t].data \in Nat /\ s3[layer][t].data <= lake[layer][t].version

SparkPieces == LayerSet \X TableSet \X {0}
ListPieces == {"list", "list on"} \X LayerSet \X {0}
PutPieces == {"log", "data"} \X TableSet \X LayerSet

SparkState(r) == run[r].task = "spark" => run[r].todo \in Seq(SparkPieces)

LayerOf(piece) == IF piece[1] \in {"list", "list on"} THEN piece[2] ELSE piece[3]

(* The tables listed, of one layer, come before the layers not yet listed. *)
PublishWork(todo) ==
  /\ todo \in Seq(ListPieces \cup PutPieces) /\ todo # <<>>
  /\ \A i \in 2..Len(todo) :
       todo[i][1] = "list" \/ (todo[i][1] = "log" /\ todo[i][3] = todo[1][3])
  /\ \A i, j \in 1..Len(todo) :
       i < j /\ todo[i][1] \in {"list", "list on"} => todo[j][1] = "list"

(* What a listing found is in the lake.                                    *)
Listed(seen, layer) ==
  /\ seen \in [{"log", "data"} -> [TableSet -> Nat]]
  /\ \A part \in {"log", "data"}, t \in TableSet : seen[part][t] <= lake[layer][t].version

PublishState(r) ==
  run[r].task = "publish" =>
    /\ PublishWork(run[r].todo)
    /\ run[r].todo[1][1] # "list" => Listed(run[r].seen, LayerOf(run[r].todo[1]))

(* The run is still going to put version v of a table's data, or a later.  *)
PutsData(state, layer, t, v) ==
  /\ state.task = "publish"
  /\ \E i \in DOMAIN state.todo :
       LET piece == state.todo[i] IN
         \/ piece[1] = "list" /\ piece[2] = layer
         \/ piece[1] = "list on" /\ piece[2] = layer /\ state.seen["data"][t] >= v
         \/ /\ piece[1] \in {"log", "data"} /\ piece[2] = t /\ piece[3] = layer
            /\ state.seen["data"][t] >= v

Carries(state, layer, t, v) ==
  state.task \in {"spark", "failed"} \/ PutsData(state, layer, t, v)

(* Every version in the lake is in S3 with its data or some run is going   *)
(* to put it there, or was given up.                                       *)
VersionsCarried ==
  \A layer \in LayerSet, t \in TableSet :
    \/ s3[layer][t].data >= lake[layer][t].version
    \/ \E r \in Runs : Carries(run[r], layer, t, lake[layer][t].version)

(* The run is still going to put the log of what it wrote.                 *)
PutsLog(state) ==
  \E i \in DOMAIN state.todo :
    LET piece == state.todo[i] IN
      \/ piece[1] = "list" /\ piece[2] = "gold"
      \/ piece[1] = "list on" /\ piece[2] = "gold" /\ state.seen["log"]["transactions"] >= state.wrote
      \/ /\ piece[1] = "log" /\ piece[2] = "transactions" /\ piece[3] = "gold"
         /\ state.seen["log"]["transactions"] >= state.wrote

WroteState(r) ==
  /\ run[r].wrote \in Nat /\ run[r].wrote <= lake["gold"]["transactions"].version
  /\ run[r].task = "publish" =>
       s3["gold"]["transactions"].log >= run[r].wrote \/ PutsLog(run[r])
  /\ run[r].task \in {"report", "done"} => s3["gold"]["transactions"].log >= run[r].wrote

LakeInv ==
  /\ LakeTypes /\ VersionsCarried
  /\ \A r \in Runs : SparkState(r) /\ PublishState(r) /\ WroteState(r)

-----------------------------------------------------------------------------
(* What the constants name.                                                *)
LEMMA LayersFacts ==
  /\ Layers \in Seq(LayerSet) /\ Len(Layers) \in Nat /\ Len(Layers) > 0
  /\ DOMAIN Layers = 1..Len(Layers)
  /\ "gold" \in LayerSet
  /\ \A i \in 1..Len(Layers) : Layers[i] \in LayerSet
  /\ \A layer \in LayerSet : \E i \in 1..Len(Layers) : Layers[i] = layer
<1>1. CASE Layers = <<"gold">>
  <2>1. LayerSet = {"gold"}
    BY <1>1 DEF LayerSet, Range
  <2> QED
    BY <1>1, <2>1
<1>2. CASE Layers = <<"silver", "gold">>
  <2>1. LayerSet = {"silver", "gold"}
    BY <1>2 DEF LayerSet, Range
  <2> QED
    BY <1>2, <2>1
<1> QED
  BY <1>1, <1>2, LayersAssumption

(* What is known of the tables, with customers or without.                 *)
LEMMA TablesFacts ==
  /\ DOMAIN Tables = 1..Len(Tables) /\ Len(Tables) \in Nat
  /\ \/ /\ Len(Tables) = 3
        /\ Tables[1] = "accounts" /\ Tables[2] = "transactions" /\ Tables[3] = Balances
        /\ TableSet = {"accounts", "transactions", Balances}
     \/ /\ Len(Tables) = 4 /\ Tables[1] = "customers"
        /\ Tables[2] = "accounts" /\ Tables[3] = "transactions" /\ Tables[4] = Balances
        /\ TableSet = {"customers", "accounts", "transactions", Balances}
<1>1. CASE Datasets = <<"accounts", "transactions">>
  <2>1. /\ DOMAIN Tables = 1..3 /\ Len(Tables) = 3
        /\ Tables[1] = "accounts" /\ Tables[2] = "transactions" /\ Tables[3] = Balances
    BY <1>1 DEF Tables, Balances
  <2>2. 1..3 = {1, 2, 3}
    OBVIOUS
  <2>3. TableSet = {Tables[i] : i \in {1, 2, 3}}
    BY <2>1, <2>2 DEF TableSet, Range
  <2> QED
    BY <2>1, <2>3
<1>2. CASE Datasets = <<"customers", "accounts", "transactions">>
  <2>1. /\ DOMAIN Tables = 1..4 /\ Len(Tables) = 4 /\ Tables[1] = "customers"
        /\ Tables[2] = "accounts" /\ Tables[3] = "transactions" /\ Tables[4] = Balances
    BY <1>2 DEF Tables, Balances
  <2>2. 1..4 = {1, 2, 3, 4}
    OBVIOUS
  <2>3. TableSet = {Tables[i] : i \in {1, 2, 3, 4}}
    BY <2>1, <2>2 DEF TableSet, Range
  <2> QED
    BY <2>1, <2>3
<1> QED
  BY <1>1, <1>2, DatasetsAssumption

(* Every table is among those published, whatever their order.             *)
LEMMA PublishOrderFacts ==
  /\ PublishOrder \in Seq(TableSet)
  /\ DOMAIN PublishOrder = 1..Len(PublishOrder) /\ Len(PublishOrder) \in Nat
  /\ \A i \in 1..Len(PublishOrder) : PublishOrder[i] \in TableSet
  /\ \A t \in TableSet : \E i \in 1..Len(PublishOrder) : PublishOrder[i] = t
<1>1. ASSUME NEW t
      PROVE  Named(t) \in Seq(TableSet) /\ Range(Named(t)) = {t} \cap TableSet
  <2>1. CASE t \in TableSet
    <3>1. Named(t) = <<t>>
      BY <2>1 DEF Named, TableSet
    <3> QED
      BY <2>1, <3>1 DEF Range
  <2>2. CASE t \notin TableSet
    <3>1. Named(t) = <<>>
      BY <2>2 DEF Named, TableSet
    <3> QED
      BY <2>2, <3>1 DEF Range
  <2> QED
    BY <2>1, <2>2
<1> DEFINE a == Named("accounts")
           c == Named("customers")
           b == Named(Balances)
           t == Named("transactions")
<1>2. /\ a \in Seq(TableSet) /\ c \in Seq(TableSet) /\ b \in Seq(TableSet) /\ t \in Seq(TableSet)
      /\ Range(a) = {"accounts"} \cap TableSet /\ Range(c) = {"customers"} \cap TableSet
      /\ Range(b) = {Balances} \cap TableSet /\ Range(t) = {"transactions"} \cap TableSet
  BY <1>1
<1> DEFINE ac == a \o c
           acb == ac \o b
<1>3. PublishOrder = acb \o t
  BY DEF PublishOrder
<1> HIDE DEF a, b, c, t
<1>4. ac \in Seq(TableSet) /\ Range(ac) = Range(a) \cup Range(c)
  BY <1>2, RangeConcatenation
<1> HIDE DEF ac
<1>5. acb \in Seq(TableSet) /\ Range(acb) = Range(a) \cup Range(c) \cup Range(b)
  BY <1>2, <1>4, RangeConcatenation
<1> HIDE DEF acb
<1>6. /\ PublishOrder \in Seq(TableSet)
      /\ Range(PublishOrder) = Range(a) \cup Range(c) \cup Range(b) \cup Range(t)
  BY <1>2, <1>3, <1>5, RangeConcatenation
<1>7. Range(PublishOrder) = TableSet
  <2>1. TableSet \subseteq {"accounts", "customers", Balances, "transactions"}
    BY TablesFacts
  <2> QED
    BY <1>2, <1>6, <2>1
<1>8. DOMAIN PublishOrder = 1..Len(PublishOrder) /\ Len(PublishOrder) \in Nat
      /\ \A i \in 1..Len(PublishOrder) : PublishOrder[i] \in TableSet
  BY <1>6
<1> QED
  BY <1>6, <1>7, <1>8 DEF Range

(* The order of the tasks.                                                 *)
LEMMA FollowingTask ==
  /\ Following("extract") = "validate" /\ Following("validate") = "upload"
  /\ Following("upload") = "stage" /\ Following("stage") = "spark"
  /\ Following("spark") = "publish" /\ Following("publish") = "report"
  /\ Following("report") = "done"
<1> DEFINE place(task) == CHOOSE i \in 1..8 : TaskOrder[i] = task
<1>1. DOMAIN TaskOrder = 1..8
  BY DEF TaskOrder
<1>2. \A task : Following(task) = TaskOrder[1 + place(task)]
  BY <1>1 DEF Following
<1>3. ASSUME NEW j \in 1..8 PROVE place(TaskOrder[j]) = j
  <2>1. \A i \in 1..8 : TaskOrder[i] = TaskOrder[j] => i = j
    BY DEF TaskOrder
  <2> QED
    BY <2>1
<1> HIDE DEF place
<1>4. \A j \in 1..8 : Following(TaskOrder[j]) = TaskOrder[1 + j]
  BY <1>2, <1>3
<1>5. \A j \in 1..7 : Following(TaskOrder[j]) = TaskOrder[j + 1]
  BY <1>4
<1> QED
  BY <1>5 DEF TaskOrder

(* The work of Spark and of the publisher that is known beforehand.        *)
LEMMA FixedWorkFacts ==
  /\ FixedWork("spark") \in Seq(SparkPieces)
  /\ PublishWork(FixedWork("publish"))
  /\ \A i \in DOMAIN FixedWork("publish") : FixedWork("publish")[i][1] = "list"
  /\ \A layer \in LayerSet : \E i \in DOMAIN FixedWork("publish") :
       FixedWork("publish")[i][1] = "list" /\ FixedWork("publish")[i][2] = layer
<1>1. FixedWork("spark") \in Seq(SparkPieces)
  <2>1. FixedWork("spark") = [i \in DOMAIN Tables |-> <<Layers[1], Tables[i], 0>>]
    BY DEF FixedWork, SparkOrder
  <2>2. DOMAIN Tables = 1..Len(Tables) /\ Len(Tables) \in Nat
        /\ \A i \in 1..Len(Tables) : Tables[i] \in TableSet
    BY TablesFacts DEF TableSet, Range
  <2>3. \A i \in 1..Len(Tables) : <<Layers[1], Tables[i], 0>> \in SparkPieces
    BY <2>2, LayersFacts DEF SparkPieces
  <2> QED
    BY <2>1, <2>2, <2>3
<1> DEFINE lists == [i \in 1..Len(Layers) |-> <<"list", Layers[i], 0>>]
<1>2. FixedWork("publish") = lists
  BY LayersFacts DEF FixedWork
<1>3. \A i \in 1..Len(Layers) : <<"list", Layers[i], 0>> \in ListPieces \cup PutPieces
  BY LayersFacts DEF ListPieces
<1>4. lists \in Seq(ListPieces \cup PutPieces) /\ Len(lists) = Len(Layers) /\ lists # <<>>
  BY <1>3, LayersFacts
<1>5. PublishWork(lists)
  BY <1>4, LayersFacts DEF PublishWork
<1>6. /\ DOMAIN lists = 1..Len(Layers)
      /\ \A i \in 1..Len(Layers) : lists[i][1] = "list" /\ lists[i][2] = Layers[i]
  OBVIOUS
<1> HIDE DEF lists
<1>7. \A i \in DOMAIN lists : lists[i][1] = "list"
  BY <1>6
<1>8. \A layer \in LayerSet : \E i \in DOMAIN lists : lists[i][1] = "list" /\ lists[i][2] = layer
  BY <1>6, LayersFacts
<1> QED
  BY <1>1, <1>2, <1>5, <1>7, <1>8

-----------------------------------------------------------------------------
(* The bookkeeping of the tasks, once more: what it does to the task, to   *)
(* the work planned and to what the run has done.                          *)

Kept(next, state) ==
  /\ next.wrote = state.wrote /\ next.own = state.own
  /\ next.staged = state.staged /\ next.report = state.report

(* What a task that starts anew keeps of the run.                          *)
LEMMA RestartedFields ==
  ASSUME NEW state, Shaped(state)
  PROVE  /\ Restarted(state).task = state.task
         /\ Restarted(state).todo = FixedWork(state.task) /\ Kept(Restarted(state), state)
<1> DEFINE work == FixedWork(state.task)
<1>1. Restarted(state) = [state EXCEPT !.todo = work, !.frame = {}, !.seen = <<>>]
  BY DEF Restarted
<1> HIDE DEF work
<1>2. /\ Restarted(state).task = state.task /\ Restarted(state).todo = work
      /\ Kept(Restarted(state), state)
  BY <1>1 DEF Shaped, Fields, Kept
<1> QED
  BY <1>2 DEF work

(* What a finished task keeps of the run.                                  *)
LEMMA FinishedFields ==
  ASSUME NEW state, Shaped(state)
  PROVE  /\ Finished(state).task = Following(state.task)
         /\ Finished(state).todo = FixedWork(Following(state.task))
         /\ Kept(Finished(state), state)
<1> DEFINE following == Following(state.task)
           next == [state EXCEPT !.task = following, !.attempt = 1]
<1>1. Finished(state) = Restarted(next)
  BY DEF Finished
<1>2. Shaped(next) /\ next.task = following /\ Kept(next, state)
  <2> HIDE DEF following
  <2> QED
    BY DEF Shaped, Fields, Kept
<1> HIDE DEF next
<1>3. /\ Restarted(next).task = next.task /\ Restarted(next).todo = FixedWork(next.task)
      /\ Kept(Restarted(next), next)
  BY <1>2, RestartedFields
<1> QED
  BY <1>1, <1>2, <1>3 DEF Kept

(* What a retry keeps of the run, unless it was the last one.              *)
LEMMA RetriedFields ==
  ASSUME NEW state, Shaped(state)
  PROVE  /\ \/ Retried(state).task = "failed"
            \/ /\ Retried(state).task = state.task
               /\ Retried(state).todo = FixedWork(state.task)
         /\ Kept(Retried(state), state)
<1> DEFINE next == IF state.attempt >= Attempts THEN [state EXCEPT !.task = "failed"]
                   ELSE [state EXCEPT !.attempt = state.attempt + 1]
<1>1. Retried(state) = Restarted(next)
  BY DEF Retried
<1>2. Shaped(next) /\ next.task \in {"failed", state.task} /\ Kept(next, state)
  BY DEF Shaped, Fields, Kept
<1> HIDE DEF next
<1>3. /\ Restarted(next).task = next.task /\ Restarted(next).todo = FixedWork(next.task)
      /\ Kept(Restarted(next), next)
  BY <1>2, RestartedFields
<1> QED
  BY <1>1, <1>2, <1>3 DEF Kept

(* What a piece that is done keeps of the run.                             *)
LEMMA AdvancedFields ==
  ASSUME NEW state, Shaped(state)
  PROVE  /\ Len(state.todo) > 1 =>
              /\ Advanced(state).task = state.task /\ Advanced(state).todo = Tail(state.todo)
              /\ Advanced(state).seen = state.seen /\ Advanced(state).frame = state.frame
         /\ ~(Len(state.todo) > 1) =>
              /\ Advanced(state).task = Following(state.task)
              /\ Advanced(state).todo = FixedWork(Following(state.task))
         /\ Kept(Advanced(state), state)
<1>1. CASE Len(state.todo) > 1
  <2> DEFINE rest == Tail(state.todo)
  <2>1. Advanced(state) = [state EXCEPT !.todo = rest]
    BY <1>1 DEF Advanced
  <2> HIDE DEF rest
  <2>2. /\ Advanced(state).task = state.task /\ Advanced(state).todo = rest
        /\ Advanced(state).seen = state.seen /\ Advanced(state).frame = state.frame
        /\ Kept(Advanced(state), state)
    BY <2>1 DEF Shaped, Fields, Kept
  <2> QED
    BY <1>1, <2>2 DEF rest
<1>2. CASE ~(Len(state.todo) > 1)
  <2>1. Advanced(state) = Finished(state)
    BY <1>2 DEF Advanced
  <2> QED
    BY <1>2, <2>1, FinishedFields
<1> QED
  BY <1>1, <1>2

(* What a piece that is half done keeps of the run.                        *)
LEMMA TurnedFields ==
  ASSUME NEW state, NEW phase, Shaped(state)
  PROVE  /\ Turned(state, phase).seen = state.seen /\ Turned(state, phase).frame = state.frame
         /\ Kept(Turned(state, phase), state)
<1> DEFINE work == << <<phase, state.todo[1][2], state.todo[1][3]>> >> \o Tail(state.todo)
<1>1. Turned(state, phase) = [state EXCEPT !.todo = work]
  BY DEF Turned
<1> HIDE DEF work
<1> QED
  BY <1>1 DEF Shaped, Fields, Kept

(* A step of one run leaves the others alone.                              *)
LEMMA NextRun ==
  ASSUME DagInv, NEW r \in Runs, NEW next, run' = [run EXCEPT ![r] = next]
  PROVE  run'[r] = next /\ \A q \in Runs \ {r} : run'[q] = run[q]
BY DEF DagInv

-----------------------------------------------------------------------------
(* Steps that leave the lake and its copy alone: what they must not take   *)
(* away is a carrier.                                                      *)
LEMMA LakeStands ==
  ASSUME DagInv, LakeInv, NEW r \in Runs, NEW next, run' = [run EXCEPT ![r] = next],
         lake' = lake, s3' = s3,
         \A layer \in LayerSet, t \in TableSet :
           Carries(run[r], layer, t, lake[layer][t].version) =>
             Carries(next, layer, t, lake[layer][t].version),
         SparkState(r)', PublishState(r)', WroteState(r)'
  PROVE  LakeInv'
<1>1. run'[r] = next /\ \A q \in Runs \ {r} : run'[q] = run[q]
  BY NextRun
<1>2. LakeTypes'
  BY DEF LakeInv, LakeTypes
<1>3. VersionsCarried'
  <2>1. ASSUME NEW layer \in LayerSet, NEW t \in TableSet,
               ~(s3[layer][t].data >= lake[layer][t].version)
        PROVE  \E q \in Runs : Carries(run'[q], layer, t, lake[layer][t].version)
    <3>1. PICK q \in Runs : Carries(run[q], layer, t, lake[layer][t].version)
      BY <2>1 DEF LakeInv, VersionsCarried
    <3> QED
      BY <1>1, <3>1
  <2> QED
    BY <2>1 DEF VersionsCarried
<1>4. ASSUME NEW q \in Runs \ {r} PROVE SparkState(q)' /\ PublishState(q)' /\ WroteState(q)'
  <2>1. SparkState(q) /\ PublishState(q) /\ WroteState(q) /\ run'[q] = run[q]
    BY <1>1 DEF LakeInv
  <2>2. PublishState(q)'
    BY <2>1 DEF PublishState, Listed
  <2>3. SparkState(q)' /\ WroteState(q)'
    BY ZenonT(30), <2>1 DEF SparkState, WroteState, PutsLog
  <2> QED
    BY <2>2, <2>3
<1> QED
  BY <1>2, <1>3, <1>4 DEF LakeInv

(* A run that neither writes nor publishes carries nothing.                *)
LEMMA OutsideSteps ==
  ASSUME DagInv, LakeInv, NEW r \in Runs, NEW next, run' = [run EXCEPT ![r] = next],
         lake' = lake, s3' = s3, run[r].task \notin {"spark", "publish", "failed"},
         next.wrote = run[r].wrote, next.task # "publish",
         next.task \in {"report", "done"} => run[r].task \in {"report", "done"},
         next.task = "spark" => next.todo = FixedWork("spark")
  PROVE  LakeInv'
<1>1. run'[r] = next
  BY NextRun
<1>2. \A layer, t, v : ~Carries(run[r], layer, t, v)
  BY DEF Carries, PutsData
<1>3. SparkState(r)' /\ PublishState(r)'
  BY <1>1, FixedWorkFacts DEF SparkState, PublishState
<1>4. WroteState(r)'
  <2>1. WroteState(r)
    BY DEF LakeInv
  <2> QED
    BY <1>1, <2>1 DEF WroteState
<1> QED
  BY <1>2, <1>3, <1>4, LakeStands

(* The piece of publishing a run is at.                                    *)
LEMMA FirstPiece ==
  ASSUME NEW todo, PublishWork(todo)
  PROVE  /\ Head(todo) = todo[1] /\ todo[1] \in ListPieces \cup PutPieces
         /\ todo[1][1] \in {"list", "list on", "log", "data"}
         /\ todo[1][1] \in {"list", "list on"} => todo[1] \in ListPieces
         /\ todo[1][1] \in {"log", "data"} => todo[1] \in PutPieces
         /\ LayerOf(todo[1]) \in LayerSet
<1> DEFINE Pieces == ListPieces \cup PutPieces
<1>1. todo \in Seq(Pieces) /\ todo # <<>>
  BY DEF PublishWork
<1>2. Head(todo) = todo[1] /\ todo[1] \in Pieces
  <2> HIDE DEF Pieces
  <2> QED
    BY <1>1
<1> QED
  BY <1>2 DEF ListPieces, PutPieces, LayerOf

(* What is listed is in the lake, and stays there.                         *)
LEMMA ListedLater ==
  ASSUME NEW seen, NEW layer, Listed(seen, layer), layer \in LayerSet,
         \A l \in LayerSet, t \in TableSet :
           lake[l][t].version \in Nat /\ lake'[l][t].version \in Nat
           /\ lake[l][t].version <= lake'[l][t].version
  PROVE  Listed(seen, layer)'
BY DEF Listed

(* With every layer still to be listed everything is carried.              *)
LEMMA FixedWorkCarries ==
  ASSUME NEW state, \/ state.task \in {"spark", "failed"}
                    \/ state.task = "publish" /\ state.todo = FixedWork("publish")
  PROVE  /\ \A layer \in LayerSet : \A t, v : Carries(state, layer, t, v)
         /\ state.task = "publish" => /\ PutsLog(state)
                                      /\ PublishWork(state.todo) /\ state.todo[1][1] = "list"
<1>1. CASE state.task \in {"spark", "failed"}
  BY <1>1 DEF Carries
<1>2. CASE state.task = "publish" /\ state.todo = FixedWork("publish")
  <2>1. ASSUME NEW layer \in LayerSet, NEW t, NEW v PROVE Carries(state, layer, t, v)
    <3>1. PICK i \in DOMAIN FixedWork("publish") :
            FixedWork("publish")[i][1] = "list" /\ FixedWork("publish")[i][2] = layer
      BY FixedWorkFacts
    <3> QED
      BY <1>2, <3>1 DEF Carries, PutsData
  <2>2. PutsLog(state)
    <3>1. PICK i \in DOMAIN FixedWork("publish") :
            FixedWork("publish")[i][1] = "list" /\ FixedWork("publish")[i][2] = "gold"
      BY FixedWorkFacts, LayersFacts
    <3> QED
      BY <1>2, <3>1 DEF PutsLog
  <2>3. PublishWork(state.todo) /\ state.todo[1][1] = "list"
    <3>1. FixedWork("publish") \in Seq(ListPieces \cup PutPieces) /\ FixedWork("publish") # <<>>
      BY FixedWorkFacts DEF PublishWork
    <3>2. 1 \in DOMAIN FixedWork("publish")
      BY <3>1
    <3> QED
      BY <1>2, <3>2, FixedWorkFacts
  <2> QED
    BY <2>1, <2>2, <2>3
<1> QED
  BY <1>1, <1>2

(* A task tried again has everything still to do.                          *)
LEMMA RetriedKeepsLake ==
  ASSUME DagInv, LakeInv, NEW r \in Runs, NEW next, run' = [run EXCEPT ![r] = next],
         lake' = lake, s3' = s3, next.wrote = run[r].wrote,
         \/ next.task = "failed"
         \/ next.task = run[r].task /\ next.todo = FixedWork(run[r].task)
  PROVE  LakeInv'
<1>1. run'[r] = next
  BY NextRun
<1>2. CASE next.task \notin {"spark", "publish", "failed"}
  BY <1>2, OutsideSteps
<1>3. CASE next.task \in {"spark", "publish", "failed"}
  <2>1. /\ \A layer \in LayerSet : \A t, v : Carries(next, layer, t, v)
        /\ next.task = "publish" =>
             PutsLog(next) /\ PublishWork(next.todo) /\ next.todo[1][1] = "list"
    BY <1>3, FixedWorkCarries
  <2>2. SparkState(r)' /\ PublishState(r)'
    BY <1>1, <1>3, <2>1, FixedWorkFacts DEF SparkState, PublishState
  <2>3. WroteState(r)'
    <3>1. WroteState(r)
      BY DEF LakeInv
    <3> QED
      BY <1>1, <1>3, <2>1, <3>1 DEF WroteState
  <2> QED
    BY <2>1, <2>2, <2>3, LakeStands
<1> QED
  BY <1>2, <1>3

(* A task that fails and leaves lake and bucket as they are.               *)
LEMMA RetriedStepKeepsLake ==
  ASSUME DagInv, LakeInv, NEW r \in Runs, run' = [run EXCEPT ![r] = Retried(run[r])],
         lake' = lake, s3' = s3
  PROVE  LakeInv'
<1> DEFINE next == Retried(run[r])
<1>1. /\ next.task = "failed" \/ (next.task = run[r].task /\ next.todo = FixedWork(run[r].task))
      /\ next.wrote = run[r].wrote
  BY RunState, RetriedFields DEF Kept
<1> HIDE DEF next
<1> QED
  BY <1>1, RetriedKeepsLake DEF next

(* A kill leaves lake and bucket as they are, in the middle perhaps.       *)
LEMMA KilledKeepsLake ==
  ASSUME DagInv, LakeInv, NEW r \in Runs, TaskKilled(r)
  PROVE  LakeInv'
BY RetriedStepKeepsLake DEF TaskKilled, disk

(* So does the start of a run.                                             *)
LEMMA StartKeepsLake ==
  ASSUME DagInv, LakeInv, NEW r \in Runs, StartRun(r)
  PROVE  LakeInv'
<1> DEFINE next == [run[r] EXCEPT !.task = "extract", !.attempt = 1]
<1>1. /\ run' = [run EXCEPT ![r] = next] /\ lake' = lake /\ s3' = s3 /\ run[r].task = "none"
  BY DEF StartRun, disk
<1>2. next.task = "extract" /\ next.wrote = run[r].wrote
  BY RunState DEF Shaped, Fields
<1> HIDE DEF next
<1> QED
  BY <1>1, <1>2, OutsideSteps

(* A piece done, in a task that neither writes nor publishes.              *)
LEMMA AdvancedOutside ==
  ASSUME NEW state, Shaped(state), state.task \in {"extract", "validate", "upload", "stage"}
  PROVE  LET next == Advanced(state) IN
           /\ next.wrote = state.wrote /\ next.task \notin {"publish", "report", "done"}
           /\ next.task = "spark" => next.todo = FixedWork("spark")
<1>1. CASE Len(state.todo) > 1
  BY <1>1, AdvancedFields DEF Kept
<1>2. CASE ~(Len(state.todo) > 1)
  BY <1>2, AdvancedFields, FollowingTask DEF Kept
<1> QED
  BY <1>1, <1>2

(* Work planned, or turned to its second half.                             *)
LEMMA PlannedKeepsLake ==
  ASSUME DagInv, LakeInv, NEW r \in Runs, NEW task \in {"validate", "upload"}, NEW work,
         Planned(r, task, work), lake' = lake, s3' = s3
  PROVE  LakeInv'
<1> DEFINE next == [run[r] EXCEPT !.todo = work]
<1>1. run' = [run EXCEPT ![r] = next] /\ run[r].task = task
  BY DEF Planned, Begins
<1>2. next.task = task /\ next.wrote = run[r].wrote
  BY <1>1, RunState DEF Shaped, Fields
<1> HIDE DEF next
<1> QED
  BY <1>1, <1>2, OutsideSteps

(* A piece half done before Spark.                                         *)
LEMMA TurnedKeepsLake ==
  ASSUME DagInv, LakeInv, NEW r \in Runs, run[r].task \in {"validate", "upload"}, NEW phase,
         run' = [run EXCEPT ![r] = Turned(run[r], phase)], lake' = lake, s3' = s3
  PROVE  LakeInv'
<1> DEFINE next == Turned(run[r], phase)
<1>1. next.task = run[r].task /\ next.wrote = run[r].wrote
  BY RunState, TurnedFacts, TurnedFields DEF Kept
<1> HIDE DEF next
<1> QED
  BY <1>1, OutsideSteps DEF next

(* A piece done before Spark, which may be the last one of its task.       *)
LEMMA AdvancedKeepsLake ==
  ASSUME DagInv, LakeInv, NEW r \in Runs,
         run[r].task \in {"extract", "validate", "upload", "stage"},
         run' = [run EXCEPT ![r] = Advanced(run[r])], lake' = lake, s3' = s3
  PROVE  LakeInv'
<1> DEFINE next == Advanced(run[r])
<1>1. /\ next.wrote = run[r].wrote /\ next.task \notin {"publish", "report", "done"}
      /\ next.task = "spark" => next.todo = FixedWork("spark")
  BY RunState, AdvancedOutside
<1> HIDE DEF next
<1> QED
  BY <1>1, OutsideSteps DEF next

(* The extraction is before the lake,                                      *)
LEMMA ExtractionKeepsLake ==
  ASSUME DagInv, LakeInv, NEW r \in Runs, Extract(r) \/ WriteFile(r)
  PROVE  LakeInv'
<1>1. CASE Extract(r)
  <2> DEFINE next == [run[r] EXCEPT !.own = clock',
                        !.todo = [i \in DOMAIN Datasets |-> <<"write", Datasets[i], clock'>>]]
  <2>1. /\ run' = [run EXCEPT ![r] = next] /\ lake' = lake /\ s3' = s3 /\ run[r].task = "extract"
    BY <1>1 DEF Extract, Begins
  <2>2. next.task = "extract" /\ next.wrote = run[r].wrote
    BY <2>1, RunState DEF Shaped, Fields
  <2> HIDE DEF next
  <2> QED
    BY <2>1, <2>2, OutsideSteps
<1>2. CASE WriteFile(r)
  BY <1>2, AdvancedKeepsLake DEF WriteFile, Works
<1> QED
  BY <1>1, <1>2

(* so is validation,                                                       *)
LEMMA ValidationKeepsLake ==
  ASSUME DagInv, LakeInv, NEW r \in Runs, PlanValidation(r) \/ ClearSuite(r) \/ AddSuiteAndRun(r)
  PROVE  LakeInv'
<1>1. CASE PlanValidation(r)
  BY <1>1, PlannedKeepsLake DEF PlanValidation, disk
<1>2. CASE ClearSuite(r)
  BY <1>2, TurnedKeepsLake DEF ClearSuite, Works
<1>3. CASE AddSuiteAndRun(r)
  <2>1. lake' = lake /\ s3' = s3 /\ run[r].task = "validate"
    BY <1>3 DEF AddSuiteAndRun, Works
  <2>2. CASE Piece(r)[2] \in suites
    <3> DEFINE again == Retried(run[r])
               next == [again EXCEPT !.clashed = TRUE]
    <3>1. run' = [run EXCEPT ![r] = next]
      BY <1>3, <2>2 DEF AddSuiteAndRun
    <3>2. /\ Shaped(again) /\ again.wrote = run[r].wrote
          /\ again.task = "failed" \/ (again.task = run[r].task /\ again.todo = FixedWork(run[r].task))
      BY RunState, RetriedFacts, RetriedFields DEF Kept
    <3> HIDE DEF again
    <3>3. next.wrote = again.wrote /\ next.task = again.task /\ next.todo = again.todo
      BY <3>2 DEF Shaped, Fields
    <3> HIDE DEF next
    <3> QED
      BY <2>1, <3>1, <3>2, <3>3, RetriedKeepsLake
  <2>3. CASE Piece(r)[2] \notin suites /\ HoldsNothing(Piece(r))
    <3>1. run' = [run EXCEPT ![r] = Retried(run[r])]
      BY <1>3, <2>3 DEF AddSuiteAndRun
    <3> QED
      BY <2>1, <3>1, RetriedStepKeepsLake
  <2>4. CASE Piece(r)[2] \notin suites /\ ~HoldsNothing(Piece(r))
    <3>1. run' = [run EXCEPT ![r] = Advanced(run[r])]
      BY <1>3, <2>4 DEF AddSuiteAndRun
    <3> QED
      BY <2>1, <3>1, AdvancedKeepsLake
  <2> QED
    BY <2>2, <2>3, <2>4
<1> QED
  BY <1>1, <1>2, <1>3

(* the upload,                                                             *)
LEMMA UploadKeepsLake ==
  ASSUME DagInv, LakeInv, NEW r \in Runs, PlanUpload(r) \/ Put(r) \/ PutGivenUp(r)
  PROVE  LakeInv'
<1>1. CASE PlanUpload(r)
  BY <1>1, PlannedKeepsLake DEF PlanUpload, disk
<1>2. CASE Put(r)
  <2>1. lake' = lake /\ s3' = s3 /\ run[r].task = "upload"
    BY <1>2 DEF Put, Works, disk
  <2>2. \/ run' = [run EXCEPT ![r] = Retried(run[r])]
        \/ run' = [run EXCEPT ![r] = Turned(run[r], PutOrder[2])]
        \/ run' = [run EXCEPT ![r] = Advanced(run[r])]
    BY <1>2 DEF Put
  <2> QED
    BY <2>1, <2>2, RetriedStepKeepsLake, TurnedKeepsLake, AdvancedKeepsLake
<1>3. CASE PutGivenUp(r)
  BY <1>3, RetriedStepKeepsLake DEF PutGivenUp, disk
<1> QED
  BY <1>1, <1>2, <1>3

(* and staging.                                                            *)
LEMMA StagingKeepsLake ==
  ASSUME DagInv, LakeInv, NEW r \in Runs, PlanStage(r) \/ StageFile(r)
  PROVE  LakeInv'
<1>1. CASE PlanStage(r)
  <2>1. lake' = lake /\ s3' = s3 /\ run[r].task = "stage"
    BY <1>1 DEF PlanStage, Begins, disk
  <2>2. CASE \E i \in DOMAIN Datasets : Latest(Datasets[i]) = 0
    <3>1. run' = [run EXCEPT ![r] = Retried(run[r])]
      BY <1>1, <2>2 DEF PlanStage
    <3> QED
      BY <2>1, <3>1, RetriedStepKeepsLake
  <2>3. CASE ~\E i \in DOMAIN Datasets : Latest(Datasets[i]) = 0
    <3> DEFINE work == Append([i \in DOMAIN Datasets |->
                                 <<"copy", Datasets[i], Latest(Datasets[i])>>],
                              <<"derive", Balances, <<Latest("accounts"), Latest("transactions")>>>>)
               next == [run[r] EXCEPT !.staged = {}, !.todo = work]
    <3>1. run' = [run EXCEPT ![r] = next]
      BY <1>1, <2>3 DEF PlanStage
    <3> HIDE DEF work
    <3>2. next.task = "stage" /\ next.wrote = run[r].wrote
      BY <2>1, RunState DEF Shaped, Fields
    <3> HIDE DEF next
    <3> QED
      BY <2>1, <3>1, <3>2, OutsideSteps
  <2> QED
    BY <2>2, <2>3
<1>2. CASE StageFile(r)
  <2> DEFINE file == <<Piece(r)[2], Piece(r)[3]>>
             state == [run[r] EXCEPT !.staged = run[r].staged \cup {file}]
             next == Advanced(state)
  <2>1. /\ run' = [run EXCEPT ![r] = next] /\ lake' = lake /\ s3' = s3 /\ run[r].task = "stage"
    BY <1>2 DEF StageFile, Works
  <2> HIDE DEF file
  <2>2. Shaped(state) /\ state.task = "stage" /\ state.wrote = run[r].wrote
    BY <2>1, RunState DEF Shaped, Fields
  <2> HIDE DEF state
  <2>3. /\ next.wrote = state.wrote /\ next.task \notin {"publish", "report", "done"}
        /\ next.task = "spark" => next.todo = FixedWork("spark")
    BY <2>2, AdvancedOutside
  <2> HIDE DEF next
  <2> QED
    BY <2>1, <2>2, <2>3, OutsideSteps
<1> QED
  BY <1>1, <1>2

(* The report only reads.                                                  *)
LEMMA ReportKeepsLake ==
  ASSUME DagInv, LakeInv, NEW r \in Runs, Report(r)
  PROVE  LakeInv'
<1> DEFINE found == [accounts |-> Latest("accounts"), transactions |-> Latest("transactions"),
                     fact_transaction |-> lake.gold["transactions"].version]
           state == [run[r] EXCEPT !.report = found]
           next == Finished(state)
<1>1. /\ run' = [run EXCEPT ![r] = next] /\ lake' = lake /\ s3' = s3 /\ run[r].task = "report"
  BY DEF Report, Begins, disk
<1> HIDE DEF found
<1>2. Shaped(state) /\ state.task = "report" /\ state.wrote = run[r].wrote
  BY <1>1, RunState DEF Shaped, Fields
<1> HIDE DEF state
<1>3. next.wrote = state.wrote /\ next.task = "done"
  BY <1>2, FinishedFields, FollowingTask DEF Kept
<1> HIDE DEF next
<1> QED
  BY <1>1, <1>2, <1>3, OutsideSteps

-----------------------------------------------------------------------------
(* run_spark_batch: whoever writes is going to publish.                    *)

(* The parts of a table in the lake and of its copy in the bucket.         *)
LEMMA LakeFields ==
  ASSUME LakeTypes, NEW l \in LayerSet, NEW t \in TableSet
  PROVE  /\ lake[l][t] = [version |-> lake[l][t].version, of |-> lake[l][t].of]
         /\ lake[l][t].version \in Nat
         /\ s3[l][t] = [log |-> s3[l][t].log, data |-> s3[l][t].data]
         /\ s3[l][t].log \in Nat /\ s3[l][t].log <= lake[l][t].version
         /\ s3[l][t].data \in Nat /\ s3[l][t].data <= lake[l][t].version
<1>1. /\ lake[l][t].version \in Nat
      /\ s3[l][t].log \in Nat /\ s3[l][t].log <= lake[l][t].version
      /\ s3[l][t].data \in Nat /\ s3[l][t].data <= lake[l][t].version
  BY DEF LakeTypes
<1>2. lake[l][t] = [version |-> lake[l][t].version, of |-> lake[l][t].of]
  <2> DEFINE of(k, u) == [version |-> lake[k][u].version, of |-> lake[k][u].of]
  <2>1. lake = [k \in LayerSet |-> [u \in TableSet |-> of(k, u)]]
    BY DEF LakeTypes
  <2> HIDE DEF of
  <2>2. lake[l][t] = of(l, t)
    BY <2>1
  <2> QED
    BY <2>2 DEF of
<1>3. s3[l][t] = [log |-> s3[l][t].log, data |-> s3[l][t].data]
  <2> DEFINE of(k, u) == [log |-> s3[k][u].log, data |-> s3[k][u].data]
  <2>1. s3 = [k \in LayerSet |-> [u \in TableSet |-> of(k, u)]]
    BY DEF LakeTypes
  <2> HIDE DEF of
  <2>2. s3[l][t] = of(l, t)
    BY <2>1
  <2> QED
    BY <2>2 DEF of
<1> QED
  BY <1>1, <1>2, <1>3

(* Versions are ordered.                                                   *)
LEMMA Ascending ==
  ASSUME NEW a \in Nat, NEW b \in Nat, NEW c \in Nat, a <= b, b <= c
  PROVE  a <= c
OBVIOUS

(* A new version of a table: what the bucket names stays carried by a run  *)
(* which is at work, by this one at least.                                 *)
LEMMA WriteKeepsLake ==
  ASSUME DagInv, LakeInv, NEW r \in Runs, WriteTable(r)
  PROVE  LakeInv'
<1> DEFINE layer == Piece(r)[1]
           table == Piece(r)[2]
           frame == IF layer = Layers[1] THEN FrameOf(table) ELSE run[r].frame
           wrote == IF <<layer, table>> = <<"gold", "transactions">>
                    THEN lake[layer][table].version + 1 ELSE run[r].wrote
           state == [run[r] EXCEPT !.frame = frame, !.wrote = wrote]
           next == IF layer = "gold" THEN Advanced(state) ELSE Turned(state, "gold")
<1>1. run[r].task = "spark" /\ run[r].todo # <<>> /\ s3' = s3
  BY DEF WriteTable, Works
<1>2. run' = [run EXCEPT ![r] = next]
  BY DEF WriteTable
<1>3. PICK rows : lake' = [lake EXCEPT ![layer][table] =
                             [version |-> lake[layer][table].version + 1, of |-> rows]]
  BY DEF WriteTable, WriteDelta
<1>4. run[r].todo \in Seq(SparkPieces)
  BY <1>1 DEF LakeInv, SparkState
<1>5. Piece(r) = run[r].todo[1] /\ run[r].todo[1] \in SparkPieces
  BY <1>1, <1>4 DEF Piece
<1>6. layer \in LayerSet /\ table \in TableSet /\ Piece(r)[3] = 0
  BY <1>5 DEF SparkPieces
<1> HIDE DEF frame
<1>7. /\ Shaped(state) /\ state.task = "spark" /\ state.todo = run[r].todo /\ state.wrote = wrote
  <2> HIDE DEF wrote
  <2> QED
    BY <1>1, RunState DEF Shaped, Fields
<1> HIDE DEF state
<1>8. /\ next.wrote = wrote
      /\ \/ next.task = "spark" /\ next.todo \in Seq(SparkPieces)
         \/ next.task = "publish" /\ next.todo = FixedWork("publish")
  <2> HIDE DEF wrote
  <2>1. CASE layer = "gold" /\ Len(state.todo) > 1
    <3>1. /\ next.task = "spark" /\ next.todo = Tail(state.todo) /\ next.wrote = wrote
      BY <1>7, <2>1, AdvancedFields DEF Kept
    <3> HIDE DEF next
    <3> QED
      BY <1>4, <1>7, <2>1, <3>1
  <2>2. CASE layer = "gold" /\ ~(Len(state.todo) > 1)
    BY <1>7, <2>2, AdvancedFields, FollowingTask DEF Kept
  <2>3. CASE layer # "gold"
    <3> DEFINE turned == << <<"gold", table, Piece(r)[3]>> >> \o Tail(run[r].todo)
    <3>1. next.task = "spark" /\ next.todo = turned /\ next.wrote = wrote
      BY <1>5, <1>7, <2>3, TurnedFacts, TurnedFields DEF Kept
    <3>2. <<"gold", table, Piece(r)[3]>> \in SparkPieces
      BY <1>6, LayersFacts DEF SparkPieces
    <3>3. turned \in Seq(SparkPieces)
      BY <1>1, <1>4, <3>2
    <3> QED
      BY <3>1, <3>3
  <2> QED
    BY <2>1, <2>2, <2>3
<1> HIDE DEF next, layer, table
<1> DEFINE new == [version |-> lake[layer][table].version + 1, of |-> rows]
<1>9. lake' = [l \in LayerSet |-> [t \in TableSet |->
                 IF l = layer /\ t = table THEN new ELSE lake[l][t]]]
  <2>1. lake = [l \in LayerSet |-> lake[l]] /\ \A l \in LayerSet : lake[l] = [t \in TableSet |-> lake[l][t]]
    BY DEF LakeInv, LakeTypes
  <2>2. lake' = [lake EXCEPT ![layer][table] = new]
    BY <1>3
  <2> HIDE DEF new
  <2> QED
    BY <1>6, <2>1, <2>2
<1>10. ASSUME NEW l \in LayerSet, NEW t \in TableSet
       PROVE  /\ lake'[l][t] = [version |-> lake'[l][t].version, of |-> lake'[l][t].of]
              /\ lake'[l][t].version = IF l = layer /\ t = table THEN lake[l][t].version + 1
                                       ELSE lake[l][t].version
              /\ lake[l][t].version \in Nat /\ lake'[l][t].version \in Nat
              /\ lake[l][t].version <= lake'[l][t].version
  <2>1. /\ lake[l][t] = [version |-> lake[l][t].version, of |-> lake[l][t].of]
        /\ lake[l][t].version \in Nat
    BY LakeFields DEF LakeInv
  <2>2. lake'[l][t] = IF l = layer /\ t = table THEN new ELSE lake[l][t]
    BY <1>9
  <2>3. CASE l = layer /\ t = table
    BY <2>1, <2>2, <2>3
  <2>4. CASE ~(l = layer /\ t = table)
    BY <2>1, <2>2, <2>4
  <2> QED
    BY <2>3, <2>4
<1> HIDE DEF new
<1>11. LakeTypes'
  <2>1. lake' = [l \in LayerSet |-> [t \in TableSet |->
                   [version |-> lake'[l][t].version, of |-> lake'[l][t].of]]]
    BY <1>9, <1>10
  <2>2. ASSUME NEW l \in LayerSet, NEW t \in TableSet
        PROVE  /\ lake'[l][t].version \in Nat
               /\ s3[l][t].log \in Nat /\ s3[l][t].log <= lake'[l][t].version
               /\ s3[l][t].data \in Nat /\ s3[l][t].data <= lake'[l][t].version
    <3>1. /\ s3[l][t].log \in Nat /\ s3[l][t].log <= lake[l][t].version
          /\ s3[l][t].data \in Nat /\ s3[l][t].data <= lake[l][t].version
      BY LakeFields DEF LakeInv
    <3>2. /\ lake[l][t].version \in Nat /\ lake'[l][t].version \in Nat
          /\ lake[l][t].version <= lake'[l][t].version
      BY <1>10
    <3> QED
      BY <3>1, <3>2, Ascending
  <2>3. s3 = [l \in LayerSet |-> [t \in TableSet |->
                [log |-> s3[l][t].log, data |-> s3[l][t].data]]]
    BY DEF LakeInv, LakeTypes
  <2> QED
    BY <1>1, <2>1, <2>2, <2>3 DEF LakeTypes
<1>12. ASSUME NEW l \in LayerSet, NEW t, NEW v PROVE Carries(next, l, t, v)
  BY <1>8, FixedWorkCarries
<1>13. run'[r] = next /\ \A q \in Runs \ {r} : run'[q] = run[q]
  BY <1>2, NextRun
<1>14. VersionsCarried'
  <2>1. \A l \in LayerSet, t \in TableSet :
          \E q \in Runs : Carries(run'[q], l, t, lake'[l][t].version)
    BY <1>12, <1>13
  <2> QED
    BY <2>1 DEF VersionsCarried
<1>15. ASSUME NEW q \in Runs \ {r} PROVE SparkState(q)' /\ PublishState(q)' /\ WroteState(q)'
  <2>1. SparkState(q) /\ PublishState(q) /\ WroteState(q) /\ run'[q] = run[q]
    BY <1>13 DEF LakeInv
  <2>2. PublishState(q)'
    <3> SUFFICES ASSUME run[q].task = "publish", run[q].todo[1][1] # "list"
                 PROVE  Listed(run[q].seen, LayerOf(run[q].todo[1]))'
      BY <2>1 DEF PublishState
    <3>1. Listed(run[q].seen, LayerOf(run[q].todo[1])) /\ LayerOf(run[q].todo[1]) \in LayerSet
      BY <2>1, FirstPiece DEF PublishState
    <3> QED
      BY <1>10, <2>1, <3>1, ListedLater
  <2>3. WroteState(q)'
    <3>1. /\ run[q].wrote \in Nat /\ run[q].wrote <= lake["gold"]["transactions"].version
      BY <2>1 DEF WroteState
    <3>2. "gold" \in LayerSet /\ "transactions" \in TableSet
      BY LayersFacts, TablesFacts
    <3>3. LET before == lake["gold"]["transactions"].version
              after == lake'["gold"]["transactions"].version
          IN before \in Nat /\ after \in Nat /\ before <= after
      BY <1>10, <3>2
    <3>4. run[q].wrote <= lake'["gold"]["transactions"].version
      BY <3>1, <3>3, Ascending
    <3> QED
      BY <1>1, <2>1, <3>4 DEF WroteState
  <2>4. SparkState(q)'
    BY <2>1 DEF SparkState
  <2> QED
    BY <2>2, <2>3, <2>4
<1>16. SparkState(r)' /\ PublishState(r)'
  BY <1>8, <1>13, FixedWorkCarries DEF SparkState, PublishState
<1>17. WroteState(r)'
  <2>1. run[r].wrote \in Nat /\ run[r].wrote <= lake["gold"]["transactions"].version
    BY DEF LakeInv, WroteState
  <2>2. "gold" \in LayerSet /\ "transactions" \in TableSet
    BY LayersFacts, TablesFacts
  <2>3. wrote \in Nat /\ wrote <= lake'["gold"]["transactions"].version
    <3> DEFINE before == lake["gold"]["transactions"].version
               after == lake'["gold"]["transactions"].version
    <3>1. /\ before \in Nat /\ after \in Nat /\ before <= after
          /\ layer = "gold" /\ table = "transactions" => after = before + 1
      BY <1>10, <2>2
    <3>2. run[r].wrote \in Nat /\ run[r].wrote <= before
      BY <2>1
    <3>3. \/ layer = "gold" /\ table = "transactions" /\ wrote = before + 1
          \/ wrote = run[r].wrote
      OBVIOUS
    <3> HIDE DEF before, after, wrote
    <3>4. wrote \in Nat /\ wrote <= after
      BY <3>1, <3>2, <3>3, Ascending
    <3> QED
      BY <3>4 DEF after
  <2>4. next.task = "publish" => PutsLog(next)
    BY <1>8, FixedWorkCarries
  <2> HIDE DEF wrote
  <2> QED
    BY <1>8, <1>13, <2>3, <2>4 DEF WroteState
<1> QED
  BY <1>11, <1>14, <1>15, <1>16, <1>17 DEF LakeInv

-----------------------------------------------------------------------------
(* publish_curated_batch: from the list of a layer to the puts of its      *)
(* tables.                                                                 *)

(* A sequence with another first member.                                   *)
LEMMA TurnedSequence ==
  ASSUME NEW S, NEW todo \in Seq(S), todo # <<>>, NEW first \in S
  PROVE  LET turned == <<first>> \o Tail(todo) IN
           /\ turned \in Seq(S) /\ turned # <<>> /\ Len(todo) \in Nat /\ Len(todo) > 0
           /\ DOMAIN turned = 1..Len(todo) /\ Len(turned) = Len(todo) /\ turned[1] = first
           /\ \A i \in 2..Len(todo) : turned[i] = todo[i]
OBVIOUS

(* A sequence without its first member.                                    *)
LEMMA TailSequence ==
  ASSUME NEW S, NEW todo \in Seq(S), Len(todo) > 1
  PROVE  /\ Tail(todo) \in Seq(S) /\ Tail(todo) # <<>> /\ Len(todo) \in Nat
         /\ DOMAIN Tail(todo) = 1..(Len(todo) - 1) /\ Len(Tail(todo)) = Len(todo) - 1
         /\ \A i \in 1..(Len(todo) - 1) : Tail(todo)[i] = todo[i + 1]
OBVIOUS

(* The first piece is half done.                                           *)
Halved(piece, phase) ==
  \/ piece[1] = "list" /\ phase = "list on"
  \/ piece[1] = "log" /\ phase = "data"

(* The publisher's work with a first piece half done.                      *)
LEMMA PublishTurned ==
  ASSUME NEW todo, PublishWork(todo), NEW phase, Halved(todo[1], phase)
  PROVE  LET turned == << <<phase, todo[1][2], todo[1][3]>> >> \o Tail(todo) IN
           /\ PublishWork(turned) /\ turned[1][1] = phase
           /\ turned[1][2] = todo[1][2] /\ turned[1][3] = todo[1][3]
           /\ LayerOf(turned[1]) = LayerOf(todo[1])
           /\ \A i \in DOMAIN todo :
                /\ i \in DOMAIN turned
                /\ i # 1 => /\ turned[i] = todo[i]
                            /\ todo[1][1] \in {"list", "list on"} => todo[i][1] = "list"
<1> DEFINE Pieces == ListPieces \cup PutPieces
           first == <<phase, todo[1][2], todo[1][3]>>
           turned == <<first>> \o Tail(todo)
<1>1. todo \in Seq(Pieces) /\ todo # <<>>
  BY DEF PublishWork
<1>2. first \in Pieces /\ first[1] = phase /\ first[2] = todo[1][2] /\ first[3] = todo[1][3]
      /\ LayerOf(first) = LayerOf(todo[1])
  BY FirstPiece DEF Halved, ListPieces, PutPieces, LayerOf
<1> HIDE DEF Pieces, first
<1>3. /\ turned \in Seq(Pieces) /\ turned # <<>> /\ Len(todo) \in Nat /\ Len(todo) > 0
      /\ DOMAIN turned = 1..Len(todo) /\ Len(turned) = Len(todo) /\ turned[1] = first
      /\ \A i \in 2..Len(todo) : turned[i] = todo[i]
  BY <1>1, <1>2, TurnedSequence
<1>4. DOMAIN todo = 1..Len(todo)
  BY <1>1
<1> HIDE DEF turned
<1>5. \A i \in 2..Len(todo) :
        turned[i][1] = "list" \/ (turned[i][1] = "log" /\ turned[i][3] = turned[1][3])
  BY <1>2, <1>3 DEF PublishWork
<1> DEFINE Later(i, j) == /\ j \in 2..Len(todo) /\ turned[j] = todo[j]
                          /\ i # 1 => turned[i] = todo[i]
<1>8. ASSUME NEW i \in 1..Len(todo), NEW j \in 1..Len(todo), i < j PROVE Later(i, j)
  BY <1>3, <1>8
<1>6. ASSUME NEW i \in 1..Len(todo), NEW j \in 1..Len(todo), i < j,
             turned[i][1] \in {"list", "list on"}
      PROVE  turned[j][1] = "list"
  <2>1. Later(i, j)
    BY <1>6, <1>8
  <2>2. todo[i][1] \in {"list", "list on"}
    <3>1. CASE i = 1
      BY <1>2, <1>3, <1>6, <3>1 DEF Halved
    <3>2. CASE i # 1
      BY <1>6, <2>1, <3>2
    <3> QED
      BY <3>1, <3>2
  <2> QED
    BY <1>6, <2>1, <2>2 DEF PublishWork
<1>7. PublishWork(turned)
  BY <1>3, <1>5, <1>6 DEF PublishWork, Pieces
<1>9. ASSUME NEW i \in DOMAIN todo
      PROVE  /\ i \in DOMAIN turned /\ i \in 1..Len(todo) /\ 1 \in 1..Len(todo)
             /\ i # 1 => 1 < i /\ turned[i] = todo[i]
  BY <1>3, <1>4, <1>9
<1>10. ASSUME NEW i \in DOMAIN todo, i # 1, todo[1][1] \in {"list", "list on"}
       PROVE  todo[i][1] = "list"
  BY <1>9, <1>10 DEF PublishWork
<1> QED
  BY <1>2, <1>3, <1>7, <1>9, <1>10 DEF turned, first

(* The publisher's work without its first piece.                           *)
LEMMA PublishAdvanced ==
  ASSUME NEW todo, PublishWork(todo), todo[1][1] \in {"log", "data"}, Len(todo) > 1
  PROVE  /\ PublishWork(Tail(todo))
         /\ Tail(todo)[1][1] # "list" => LayerOf(Tail(todo)[1]) = LayerOf(todo[1])
         /\ \A i \in DOMAIN todo : i # 1 => \E j \in DOMAIN Tail(todo) : Tail(todo)[j] = todo[i]
<1> DEFINE Pieces == ListPieces \cup PutPieces
           rest == Tail(todo)
<1>1. todo \in Seq(Pieces)
  BY DEF PublishWork
<1> HIDE DEF Pieces
<1>2. /\ rest \in Seq(Pieces) /\ rest # <<>> /\ Len(todo) \in Nat /\ DOMAIN todo = 1..Len(todo)
      /\ DOMAIN rest = 1..(Len(todo) - 1) /\ Len(rest) = Len(todo) - 1
      /\ \A i \in 1..(Len(todo) - 1) : rest[i] = todo[i + 1]
  BY <1>1, TailSequence
<1> HIDE DEF rest
<1>3. rest[1] = todo[2] /\ 2 \in 2..Len(todo)
  BY <1>2
<1>4. rest[1][1] = "list" \/ (rest[1][1] = "log" /\ rest[1][3] = todo[1][3])
  BY <1>3 DEF PublishWork
<1> DEFINE Shifted(i, j) ==
             /\ rest[i] = todo[i + 1] /\ rest[j] = todo[j + 1] /\ i + 1 < j + 1
             /\ i + 1 \in 1..Len(todo) /\ j + 1 \in 1..Len(todo)
<1>9. ASSUME NEW i \in 1..Len(rest), NEW j \in 1..Len(rest), i < j PROVE Shifted(i, j)
  BY <1>2, <1>9
<1>5. ASSUME NEW i \in 1..Len(rest), NEW j \in 1..Len(rest), i < j,
             rest[i][1] \in {"list", "list on"}
      PROVE  rest[j][1] = "list"
  <2>1. Shifted(i, j)
    BY <1>5, <1>9
  <2> QED
    BY ZenonT(30), <1>5, <2>1 DEF PublishWork
<1>6. ASSUME NEW i \in 2..Len(rest)
      PROVE  rest[i][1] = "list" \/ (rest[i][1] = "log" /\ rest[i][3] = rest[1][3])
  <2>1. rest[i] = todo[i + 1] /\ i + 1 \in 2..Len(todo) /\ 1 < i /\ 1 \in 1..Len(rest) /\ i \in 1..Len(rest)
    BY <1>2
  <2>2. CASE rest[1][1] = "list"
    BY <1>5, <2>1, <2>2
  <2>3. CASE rest[1][1] # "list"
    BY <1>4, <2>1, <2>3 DEF PublishWork
  <2> QED
    BY <2>2, <2>3
<1>7. PublishWork(rest)
  BY <1>2, <1>5, <1>6 DEF PublishWork, Pieces
<1>8. rest[1][1] # "list" => LayerOf(rest[1]) = LayerOf(todo[1])
  BY <1>4 DEF LayerOf
<1>10. ASSUME NEW i \in DOMAIN todo, i # 1 PROVE \E j \in DOMAIN rest : rest[j] = todo[i]
  <2>1. i - 1 \in DOMAIN rest /\ rest[i - 1] = todo[i]
    BY <1>2, <1>10
  <2> QED
    BY <2>1
<1> QED
  BY <1>7, <1>8, <1>10 DEF rest

(* The first half of a listing.                                            *)
LEMMA ListFirstKeepsLake ==
  ASSUME DagInv, LakeInv, NEW r \in Runs, ListFirst(r)
  PROVE  LakeInv'
<1> DEFINE todo == run[r].todo
           layer == Piece(r)[2]
           now == Versions(layer)
           found == [log |-> now, data |-> now]
           state == [run[r] EXCEPT !.seen = found]
           next == Turned(state, "list on")
<1>1. /\ run' = [run EXCEPT ![r] = next] /\ lake' = lake /\ s3' = s3
      /\ run[r].task = "publish" /\ todo # <<>> /\ Piece(r)[1] = "list"
  BY DEF ListFirst, Works, disk
<1>2. PublishWork(todo) /\ WroteState(r)
  BY <1>1 DEF LakeInv, PublishState
<1>3. Piece(r) = todo[1]
  BY <1>2, FirstPiece DEF Piece
<1>4. layer = todo[1][2] /\ todo[1][1] = "list" /\ layer \in LayerSet /\ LayerOf(todo[1]) = layer
  BY <1>1, <1>2, <1>3, FirstPiece DEF ListPieces, LayerOf
<1>0. run[r].todo = todo
  OBVIOUS
<1> HIDE DEF layer, todo
<1>5. /\ found \in [{"log", "data"} -> [TableSet -> Nat]]
      /\ \A part \in {"log", "data"}, t \in TableSet : found[part][t] = lake[layer][t].version
  <2>1. now \in [TableSet -> Nat] /\ \A t \in TableSet : now[t] = lake[layer][t].version
    BY <1>4, LakeFields DEF Versions, TableSet, LakeInv
  <2> HIDE DEF now
  <2> QED
    BY <2>1
<1> HIDE DEF found
<1>6. Shaped(state) /\ state.todo = todo /\ state.task = "publish" /\ state.seen = found
      /\ state.wrote = run[r].wrote
  BY <1>0, <1>1, RunState DEF Shaped, Fields
<1> HIDE DEF state
<1>7. /\ next.task = "publish" /\ next.wrote = run[r].wrote /\ next.seen = found
      /\ next.todo = << <<"list on", todo[1][2], todo[1][3]>> >> \o Tail(todo)
  BY <1>6, TurnedFacts, TurnedFields DEF Kept
<1> HIDE DEF next
<1>8. /\ PublishWork(next.todo) /\ next.todo[1][1] = "list on" /\ next.todo[1][2] = layer
      /\ LayerOf(next.todo[1]) = layer
      /\ \A i \in DOMAIN todo :
           /\ i \in DOMAIN next.todo
           /\ i # 1 => next.todo[i] = todo[i] /\ todo[i][1] = "list"
  <2> DEFINE turned == << <<"list on", todo[1][2], todo[1][3]>> >> \o Tail(todo)
  <2>1. /\ PublishWork(turned) /\ turned[1][1] = "list on"
        /\ turned[1][2] = todo[1][2] /\ turned[1][3] = todo[1][3]
        /\ LayerOf(turned[1]) = LayerOf(todo[1])
        /\ \A i \in DOMAIN todo :
             /\ i \in DOMAIN turned
             /\ i # 1 => /\ turned[i] = todo[i]
                         /\ todo[1][1] \in {"list", "list on"} => todo[i][1] = "list"
    <3>1. Halved(todo[1], "list on")
      BY <1>4 DEF Halved
    <3> QED
      BY <1>2, <3>1, PublishTurned
  <2> HIDE DEF turned
  <2> QED
    BY <1>4, <1>7, <2>1 DEF turned
<1>9. ASSUME NEW l \in LayerSet, NEW t \in TableSet,
             Carries(run[r], l, t, lake[l][t].version)
      PROVE  Carries(next, l, t, lake[l][t].version)
  <2>1. PICK i \in DOMAIN todo :
           \/ todo[i][1] = "list" /\ todo[i][2] = l
           \/ todo[i][1] = "list on" /\ todo[i][2] = l
           \/ todo[i][1] \in {"log", "data"} /\ todo[i][2] = t /\ todo[i][3] = l
    BY <1>0, <1>1, <1>9 DEF Carries, PutsData
  <2>2. todo[i][1] = "list" /\ todo[i][2] = l
    BY <1>4, <1>8, <2>1
  <2>3. CASE i = 1
    <3>1. /\ i \in DOMAIN next.todo /\ layer = l
          /\ next.todo[i][1] = "list on" /\ next.todo[i][2] = l
      BY <1>4, <1>8, <2>2, <2>3
    <3>2. next.seen["data"][t] = lake[l][t].version /\ lake[l][t].version \in Nat
      BY <1>5, <1>7, <3>1, LakeFields DEF LakeInv
    <3>3. next.seen["data"][t] >= lake[l][t].version
      BY <3>2
    <3> QED
      BY <1>7, <3>1, <3>3 DEF Carries, PutsData
  <2>4. CASE i # 1
    BY <1>7, <1>8, <2>2, <2>4 DEF Carries, PutsData
  <2> QED
    BY <2>3, <2>4
<1>10. run'[r] = next
  BY <1>1, NextRun
<1>11. Listed(found, layer)
  <2>1. \A t \in TableSet : lake[layer][t].version \in Nat
    BY <1>4, LakeFields DEF LakeInv
  <2>2. \A part \in {"log", "data"}, t \in TableSet : found[part][t] <= lake[layer][t].version
    BY <1>5, <2>1
  <2> QED
    BY <1>5, <2>2 DEF Listed
<1>12. SparkState(r)' /\ PublishState(r)'
  BY <1>1, <1>7, <1>8, <1>10, <1>11 DEF SparkState, PublishState, Listed
<1>13. s3["gold"]["transactions"].log >= run[r].wrote \/ PutsLog(next)
  <2> SUFFICES ASSUME PutsLog(run[r]) PROVE PutsLog(next)
    BY <1>1, <1>2 DEF WroteState
  <2>1. PICK i \in DOMAIN todo :
           \/ todo[i][1] = "list" /\ todo[i][2] = "gold"
           \/ todo[i][1] = "list on" /\ todo[i][2] = "gold"
           \/ todo[i][1] = "log" /\ todo[i][2] = "transactions" /\ todo[i][3] = "gold"
    BY <1>0 DEF PutsLog
  <2>2. todo[i][1] = "list" /\ todo[i][2] = "gold"
    BY <1>4, <1>8, <2>1
  <2>3. CASE i = 1
    <3>1. /\ i \in DOMAIN next.todo /\ layer = "gold"
          /\ next.todo[i][1] = "list on" /\ next.todo[i][2] = "gold"
      BY <1>4, <1>8, <2>2, <2>3
    <3>2. /\ next.seen["log"]["transactions"] = lake["gold"]["transactions"].version
          /\ lake["gold"]["transactions"].version \in Nat
      BY ZenonT(30), <1>4, <1>5, <1>7, <3>1, LakeFields, TablesFacts DEF LakeInv
    <3>3. next.seen["log"]["transactions"] >= next.wrote
      BY <1>2, <1>7, <3>2 DEF WroteState
    <3> QED
      BY <3>1, <3>3 DEF PutsLog
  <2>4. CASE i # 1
    BY <1>8, <2>2, <2>4 DEF PutsLog
  <2> QED
    BY <2>3, <2>4
<1>14. WroteState(r)'
  BY <1>1, <1>2, <1>7, <1>10, <1>13 DEF WroteState
<1> QED
  BY <1>1, <1>9, <1>12, <1>14, LakeStands

(* The elements of a sequence of two parts, and of one without its first.  *)
Parts(ab, a, b) ==
  /\ \A i \in DOMAIN a : i \in DOMAIN ab /\ ab[i] = a[i]
  /\ \A i \in DOMAIN b : \E j \in DOMAIN ab : ab[j] = b[i]
  /\ \A i \in DOMAIN ab :
       IF i <= Len(a) THEN i \in DOMAIN a /\ ab[i] = a[i] ELSE \E k \in DOMAIN b : ab[i] = b[k]

(* Two sequences, one after the other.                                     *)
LEMMA Joined ==
  ASSUME NEW S, NEW a \in Seq(S), NEW b \in Seq(S), NEW ab, ab = a \o b
  PROVE  /\ ab \in Seq(S) /\ Len(a) \in Nat /\ DOMAIN ab = 1..Len(ab) /\ Len(ab) \in Nat
         /\ Parts(ab, a, b)
<1>1. /\ ab \in Seq(S) /\ Len(a) \in Nat /\ DOMAIN ab = 1..Len(ab) /\ Len(ab) \in Nat
      /\ Len(ab) = Len(a) + Len(b) /\ DOMAIN a = 1..Len(a) /\ DOMAIN b = 1..Len(b) /\ Len(b) \in Nat
      /\ \A i \in 1..Len(a) : ab[i] = a[i]
      /\ \A i \in 1..Len(b) : ab[Len(a) + i] = b[i]
  OBVIOUS
<1>2. \A i \in DOMAIN a : i \in DOMAIN ab /\ ab[i] = a[i]
  BY <1>1
<1>3. ASSUME NEW i \in DOMAIN b PROVE \E j \in DOMAIN ab : ab[j] = b[i]
  <2>1. Len(a) + i \in DOMAIN ab /\ ab[Len(a) + i] = b[i]
    BY <1>1, <1>3
  <2> QED
    BY <2>1
<1>4. ASSUME NEW i \in DOMAIN ab
      PROVE  IF i <= Len(a) THEN i \in DOMAIN a /\ ab[i] = a[i] ELSE \E k \in DOMAIN b : ab[i] = b[k]
  <2>1. CASE i <= Len(a)
    BY <1>1, <1>4, <2>1
  <2>2. CASE ~(i <= Len(a))
    <3>1. i - Len(a) \in DOMAIN b /\ ab[i] = b[i - Len(a)]
      <4>1. i - Len(a) \in 1..Len(b) /\ Len(a) + (i - Len(a)) = i
        BY <1>1, <1>4, <2>2
      <4> QED
        BY <1>1, <4>1
    <3> QED
      BY <2>2, <3>1
  <2> QED
    BY <2>1, <2>2
<1> QED
  BY <1>1, <1>2, <1>3, <1>4 DEF Parts

RestFacts(todo, rest) ==
  /\ 1 \in DOMAIN todo
  /\ \A i \in DOMAIN todo : i \in 1..Len(todo) /\ i \in Nat
  /\ \A i \in DOMAIN rest : \E k \in DOMAIN todo : 1 < k /\ k # 1 /\ rest[i] = todo[k]
  /\ \A i \in DOMAIN todo : i # 1 => \E k \in DOMAIN rest : rest[k] = todo[i]

(* What is left keeps its order.                                           *)
RestOrder(todo, rest) ==
  \A j \in DOMAIN rest : \E k \in DOMAIN todo :
    /\ k # 1 /\ rest[j] = todo[k]
    /\ \A i \in DOMAIN todo : i # 1 /\ i < k => \E l \in DOMAIN rest : l < j /\ rest[l] = todo[i]

(* What is left of a sequence after its first member, in the same order.   *)
LEMMA RestOf ==
  ASSUME NEW S, NEW todo \in Seq(S), todo # <<>>, NEW rest, rest = Tail(todo)
  PROVE  rest \in Seq(S) /\ RestFacts(todo, rest) /\ RestOrder(todo, rest)
<1>1. /\ rest \in Seq(S) /\ DOMAIN rest = 1..(Len(todo) - 1) /\ DOMAIN todo = 1..Len(todo)
      /\ Len(todo) \in Nat /\ Len(todo) > 0
      /\ \A i \in 1..(Len(todo) - 1) : rest[i] = todo[i + 1]
  OBVIOUS
<1>2. ASSUME NEW i \in DOMAIN rest
      PROVE  \E k \in DOMAIN todo : 1 < k /\ k # 1 /\ rest[i] = todo[k]
  <2>1. i + 1 \in DOMAIN todo /\ 1 < i + 1 /\ i + 1 # 1 /\ rest[i] = todo[i + 1]
    BY <1>1, <1>2
  <2> QED
    BY <2>1
<1>3. ASSUME NEW i \in DOMAIN todo, i # 1 PROVE \E k \in DOMAIN rest : rest[k] = todo[i]
  <2>1. i - 1 \in DOMAIN rest /\ (i - 1) + 1 = i
    BY <1>1, <1>3
  <2>2. rest[i - 1] = todo[i]
    BY <1>1, <2>1
  <2> QED
    BY <2>1, <2>2
<1>4. ASSUME NEW j \in DOMAIN rest
      PROVE  /\ j + 1 \in DOMAIN todo /\ j + 1 # 1 /\ rest[j] = todo[j + 1]
             /\ \A i \in DOMAIN todo : i # 1 /\ i < j + 1 =>
                  i - 1 \in DOMAIN rest /\ i - 1 < j /\ rest[i - 1] = todo[i]
  <2>1. j + 1 \in DOMAIN todo /\ j + 1 # 1 /\ rest[j] = todo[j + 1]
    BY <1>1, <1>4
  <2>2. ASSUME NEW i \in DOMAIN todo, i # 1, i < j + 1
        PROVE  i - 1 \in DOMAIN rest /\ i - 1 < j /\ rest[i - 1] = todo[i]
    <3>1. i - 1 \in DOMAIN rest /\ i - 1 < j /\ (i - 1) + 1 = i
      BY <1>1, <1>4, <2>2
    <3>2. rest[i - 1] = todo[(i - 1) + 1]
      BY <1>1, <3>1
    <3> QED
      BY <3>1, <3>2
  <2> QED
    BY <2>1, <2>2
<1> QED
  BY <1>1, <1>2, <1>3, <1>4 DEF RestFacts, RestOrder

(* The tables of the layer listed take its place.                          *)
StartsListed(todo, layer) == todo[1][1] = "list on" /\ todo[1][2] = layer

LogsOf(layer) == [i \in DOMAIN PublishOrder |-> <<"log", PublishOrder[i], layer>>]

ListedFacts(todo, layer, work) ==
  /\ PublishWork(work) /\ work[1][1] = "log" /\ LayerOf(work[1]) = layer
  /\ \A t \in TableSet : \E j \in DOMAIN work :
       work[j][1] = "log" /\ work[j][2] = t /\ work[j][3] = layer
  /\ \A i \in DOMAIN todo :
       i # 1 => todo[i][1] = "list" /\ \E j \in DOMAIN work : work[j] = todo[i]

(* The publisher's work once a layer is listed: its tables, then the rest. *)
LEMMA ListedWork ==
  ASSUME NEW todo, PublishWork(todo), NEW layer \in LayerSet, NEW work,
         StartsListed(todo, layer), work = LogsOf(layer) \o Tail(todo)
  PROVE  ListedFacts(todo, layer, work)
<1> DEFINE Pieces == ListPieces \cup PutPieces
           put(i) == <<"log", PublishOrder[i], layer>>
           logs == LogsOf(layer)
           rest == Tail(todo)
           Puts(piece) == piece[1] = "log" /\ piece[3] = layer
           Lists(piece) == piece[1] = "list"
           Of(piece, t) == piece[1] = "log" /\ piece[2] = t /\ piece[3] = layer
<1>1. \A i \in 1..Len(PublishOrder) :
        put(i) \in Pieces /\ Puts(put(i)) /\ Of(put(i), PublishOrder[i])
  BY PublishOrderFacts DEF PutPieces
<1>2. work = logs \o rest /\ rest = Tail(todo)
  OBVIOUS
<1>20. logs = [i \in 1..Len(PublishOrder) |-> put(i)]
  BY PublishOrderFacts DEF LogsOf
<1>3. todo \in Seq(Pieces) /\ todo # <<>>
  BY DEF PublishWork
<1>4. \A i \in DOMAIN todo : 1 \in DOMAIN todo /\ 1 < i => Lists(todo[i])
  <2>1. DOMAIN todo = 1..Len(todo)
    BY <1>3
  <2>2. todo[1][1] \in {"list", "list on"}
    BY DEF StartsListed
  <2> QED
    BY <2>1, <2>2 DEF PublishWork
<1> HIDE DEF Pieces, put, Puts, Lists, Of, rest, logs
<1>5. /\ logs \in Seq(Pieces) /\ DOMAIN logs = 1..Len(PublishOrder) /\ Len(logs) = Len(PublishOrder)
      /\ \A i \in DOMAIN logs : logs[i] = put(i)
  BY <1>1, <1>20, PublishOrderFacts
<1>6. /\ rest \in Seq(Pieces) /\ 1 \in DOMAIN todo
      /\ \A i \in DOMAIN todo : i \in 1..Len(todo) /\ i \in Nat
      /\ \A i \in DOMAIN rest : \E k \in DOMAIN todo : 1 < k /\ k # 1 /\ rest[i] = todo[k]
      /\ \A i \in DOMAIN todo : i # 1 => \E k \in DOMAIN rest : rest[k] = todo[i]
  <2>1. rest \in Seq(Pieces) /\ RestFacts(todo, rest)
    BY <1>2, <1>3, RestOf
  <2> QED
    BY <2>1 DEF RestFacts
<1>7. \A i \in DOMAIN rest : Lists(rest[i])
  BY <1>4, <1>6
<1>8. /\ work \in Seq(Pieces) /\ Len(logs) \in Nat /\ DOMAIN work = 1..Len(work) /\ Len(work) \in Nat
      /\ \A i \in DOMAIN logs : i \in DOMAIN work /\ work[i] = logs[i]
      /\ \A i \in DOMAIN rest : \E j \in DOMAIN work : work[j] = rest[i]
      /\ \A i \in DOMAIN work :
           IF i <= Len(logs) THEN i \in DOMAIN logs /\ work[i] = logs[i]
           ELSE \E k \in DOMAIN rest : work[i] = rest[k]
  <2>1. /\ work \in Seq(Pieces) /\ Len(logs) \in Nat /\ DOMAIN work = 1..Len(work)
        /\ Len(work) \in Nat /\ Parts(work, logs, rest)
    <3>1. logs \in Seq(Pieces) /\ rest \in Seq(Pieces) /\ work = logs \o rest
      BY <1>2, <1>5, <1>6
    <3> QED
      BY <3>1, Joined
  <2> QED
    BY <2>1 DEF Parts
<1>9. ASSUME NEW t \in TableSet PROVE \E j \in DOMAIN work : Of(work[j], t)
  <2>1. PICK i \in 1..Len(PublishOrder) : PublishOrder[i] = t
    BY PublishOrderFacts
  <2>2. Of(logs[i], t) /\ i \in DOMAIN logs
    BY <1>1, <1>5, <2>1
  <2> QED
    BY <1>8, <2>2
<1>10. 1 \in DOMAIN logs
  <2>1. \E t : t \in TableSet
    BY TablesFacts
  <2> QED
    BY <1>5, <2>1, PublishOrderFacts
<1>11. Puts(work[1]) /\ work # <<>> /\ work[1] \in Pieces
  <2>1. logs[1] = put(1) /\ Puts(put(1)) /\ put(1) \in Pieces
    BY <1>1, <1>5, <1>10
  <2>2. 1 \in DOMAIN work /\ work[1] = logs[1]
    BY <1>8, <1>10
  <2> QED
    BY <1>8, <2>1, <2>2
<1>12. \A i \in DOMAIN work : Lists(work[i]) \/ Puts(work[i])
  BY <1>1, <1>5, <1>7, <1>8
<1>13. ASSUME NEW i \in DOMAIN work, NEW j \in DOMAIN work, i < j, ~(i <= Len(logs))
       PROVE  Lists(work[j])
  <2>1. ~(j <= Len(logs))
    BY <1>8, <1>13
  <2> QED
    BY <1>7, <1>8, <2>1
<1>14. \A i \in DOMAIN work : i <= Len(logs) => Puts(work[i])
  BY <1>1, <1>5, <1>8
<1>15. \A i, j \in DOMAIN work : i < j => Puts(work[i]) \/ Lists(work[j])
  BY <1>8, <1>13, <1>14
<1>16. \A i \in 2..Len(work) : i \in DOMAIN work
  BY <1>8
<1>17. PublishWork(work)
  <2>1. \A i \in 2..Len(work) : work[i][1] = "list" \/ (work[i][1] = "log" /\ work[i][3] = work[1][3])
    BY <1>11, <1>12, <1>16 DEF Puts, Lists
  <2>2. \A i, j \in 1..Len(work) :
          i < j /\ work[i][1] \in {"list", "list on"} => work[j][1] = "list"
    BY ZenonT(30), <1>8, <1>15 DEF Puts, Lists
  <2> QED
    BY <1>8, <1>11, <2>1, <2>2 DEF PublishWork, Pieces
<1>18. work[1][1] = "log" /\ LayerOf(work[1]) = layer
  BY <1>11 DEF Puts, LayerOf
<1>19. \A i \in DOMAIN todo :
         i # 1 => todo[i][1] = "list" /\ \E j \in DOMAIN work : work[j] = todo[i]
  <2>1. ASSUME NEW i \in DOMAIN todo, i # 1
        PROVE  Lists(todo[i]) /\ \E j \in DOMAIN work : work[j] = todo[i]
    <3>1. PICK k \in DOMAIN rest : rest[k] = todo[i]
      BY <1>6, <2>1
    <3>2. Lists(rest[k]) /\ \E j \in DOMAIN work : work[j] = rest[k]
      BY <1>7, <1>8
    <3> QED
      BY <3>1, <3>2
  <2> QED
    BY <2>1 DEF Lists
<1> QED
  BY <1>9, <1>17, <1>18, <1>19 DEF Of, ListedFacts

(* The second half of a listing, when another run may have written since.  *)
LEMMA ListSecondKeepsLake ==
  ASSUME DagInv, LakeInv, NEW r \in Runs, ListSecond(r)
  PROVE  LakeInv'
<1> DEFINE todo == run[r].todo
           layer == Piece(r)[2]
           now == Versions(layer)
           before == run[r].seen
           found(part) == [before EXCEPT ![part] = now]
           work == LogsOf(layer) \o Tail(todo)
           listed(part) == [run[r] EXCEPT !.seen = found(part), !.todo = work]
<1>1. /\ lake' = lake /\ s3' = s3
      /\ run[r].task = "publish" /\ todo # <<>> /\ Piece(r)[1] = "list on"
  BY DEF ListSecond, Works, disk
<1>2. PICK part \in {"log", "data"} : run' = [run EXCEPT ![r] = listed(part)]
  BY DEF ListSecond, LogsOf
<1>3. PublishWork(todo) /\ WroteState(r)
      /\ (todo[1][1] # "list" => Listed(before, LayerOf(todo[1])))
  BY <1>1 DEF LakeInv, PublishState
<1>4. /\ layer = todo[1][2] /\ todo[1][1] = "list on" /\ layer \in LayerSet
      /\ LayerOf(todo[1]) = layer
  <2>1. Piece(r) = todo[1]
    BY <1>3, FirstPiece DEF Piece
  <2> QED
    BY <1>1, <1>3, <2>1, FirstPiece DEF ListPieces, LayerOf
<1>5. StartsListed(todo, layer)
  BY <1>4 DEF StartsListed
<1> DEFINE next == listed(part)
           seen == found(part)
<1>6. /\ Listed(seen, layer)
      /\ \A p \in {"log", "data"}, t \in TableSet :
           /\ before[p][t] \in Nat /\ seen[p][t] \in Nat /\ before[p][t] <= seen[p][t]
  <2>1. /\ before \in [{"log", "data"} -> [TableSet -> Nat]]
        /\ \A p \in {"log", "data"}, t \in TableSet : before[p][t] <= lake[layer][t].version
    BY <1>3, <1>4 DEF Listed
  <2>2. /\ now \in [TableSet -> Nat]
        /\ \A t \in TableSet : now[t] = lake[layer][t].version /\ now[t] \in Nat
    BY <1>4, LakeFields DEF Versions, TableSet, LakeInv
  <2>3. seen = [before EXCEPT ![part] = now]
    OBVIOUS
  <2> HIDE DEF seen, now, before
  <2>4. /\ seen \in [{"log", "data"} -> [TableSet -> Nat]]
        /\ seen[part] = now /\ \A p \in {"log", "data"} \ {part} : seen[p] = before[p]
    BY <2>1, <2>2, <2>3
  <2>5. ASSUME NEW p \in {"log", "data"}, NEW t \in TableSet
        PROVE  /\ before[p][t] \in Nat /\ seen[p][t] \in Nat /\ before[p][t] <= seen[p][t]
               /\ seen[p][t] <= lake[layer][t].version
    <3>1. /\ before[p][t] \in Nat /\ before[p][t] <= lake[layer][t].version
          /\ now[t] = lake[layer][t].version /\ now[t] \in Nat /\ seen[p][t] \in Nat
      BY <2>1, <2>2, <2>4
    <3>2. CASE p = part
      <4>1. seen[p][t] = now[t]
        BY <2>4, <3>2
      <4> QED
        BY <3>1, <4>1
    <3>3. CASE p # part
      <4>1. seen[p][t] = before[p][t]
        BY <2>4, <3>3
      <4> QED
        BY <3>1, <4>1
    <3> QED
      BY <3>2, <3>3
  <2>6. \A p \in {"log", "data"}, t \in TableSet : seen[p][t] <= lake[layer][t].version
    BY <2>5
  <2> QED
    BY <2>4, <2>5, <2>6 DEF Listed
<1>7. run[r].todo = todo /\ run[r].seen = before /\ work = LogsOf(layer) \o Tail(todo)
      /\ run' = [run EXCEPT ![r] = next]
  BY <1>2
<1>8. /\ next.task = "publish" /\ next.wrote = run[r].wrote /\ next.todo = work /\ next.seen = seen
  <2> HIDE DEF work, found
  <2> QED
    BY <1>1, RunState DEF Shaped, Fields
<1> HIDE DEF todo, layer, found, before, work, listed, next, seen
<1>9. /\ PublishWork(work) /\ work[1][1] = "log" /\ LayerOf(work[1]) = layer
      /\ \A t \in TableSet : \E j \in DOMAIN work :
           work[j][1] = "log" /\ work[j][2] = t /\ work[j][3] = layer
      /\ \A i \in DOMAIN todo :
           i # 1 => todo[i][1] = "list" /\ \E j \in DOMAIN work : work[j] = todo[i]
  <2>1. ListedFacts(todo, layer, work)
    BY <1>3, <1>4, <1>5, <1>7, ListedWork
  <2> QED
    BY <2>1 DEF ListedFacts
<1>10. ASSUME NEW l \in LayerSet, NEW t \in TableSet,
              Carries(run[r], l, t, lake[l][t].version)
       PROVE  Carries(next, l, t, lake[l][t].version)
  <2> DEFINE v == lake[l][t].version
  <2>1. PICK i \in DOMAIN todo :
           \/ todo[i][1] = "list" /\ todo[i][2] = l
           \/ todo[i][1] = "list on" /\ todo[i][2] = l /\ before["data"][t] >= v
           \/ todo[i][1] \in {"log", "data"} /\ todo[i][2] = t /\ todo[i][3] = l
    BY <1>1, <1>7, <1>10 DEF Carries, PutsData
  <2>2. CASE i = 1
    <3>1. layer = l /\ before["data"][t] >= v
      BY <1>4, <2>1, <2>2
    <3>2. PICK j \in DOMAIN work : work[j][1] = "log" /\ work[j][2] = t /\ work[j][3] = l
      BY <1>9, <3>1
    <3>3. seen["data"][t] >= v
      <4>1. v \in Nat
        BY LakeFields DEF LakeInv
      <4>2. before["data"][t] \in Nat /\ seen["data"][t] \in Nat /\ before["data"][t] <= seen["data"][t]
        BY <1>6
      <4> HIDE DEF v
      <4> QED
        BY <3>1, <4>1, <4>2
    <3> QED
      BY <1>8, <3>2, <3>3 DEF Carries, PutsData
  <2>3. CASE i # 1
    <3>1. todo[i][1] = "list" /\ todo[i][2] = l
      BY <1>9, <2>1, <2>3
    <3>2. PICK j \in DOMAIN work : work[j] = todo[i]
      BY <1>9, <2>3
    <3> QED
      BY <1>8, <3>1, <3>2 DEF Carries, PutsData
  <2> QED
    BY <2>2, <2>3
<1>11. run'[r] = next
  BY <1>7, NextRun
<1>12. SparkState(r)' /\ PublishState(r)'
  BY <1>1, <1>6, <1>8, <1>9, <1>11 DEF SparkState, PublishState, Listed
<1>13. s3["gold"]["transactions"].log >= run[r].wrote \/ PutsLog(next)
  <2> SUFFICES ASSUME PutsLog(run[r]) PROVE PutsLog(next)
    BY <1>1, <1>3 DEF WroteState
  <2> DEFINE v == run[r].wrote
  <2>1. PICK i \in DOMAIN todo :
           \/ todo[i][1] = "list" /\ todo[i][2] = "gold"
           \/ todo[i][1] = "list on" /\ todo[i][2] = "gold" /\ before["log"]["transactions"] >= v
           \/ todo[i][1] = "log" /\ todo[i][2] = "transactions" /\ todo[i][3] = "gold"
    BY <1>7 DEF PutsLog
  <2>2. CASE i = 1
    <3>1. layer = "gold" /\ before["log"]["transactions"] >= v
      BY <1>4, <2>1, <2>2
    <3>2. PICK j \in DOMAIN work :
            work[j][1] = "log" /\ work[j][2] = "transactions" /\ work[j][3] = "gold"
      <4>1. "transactions" \in TableSet
        BY TablesFacts
      <4> QED
        BY <1>9, <3>1, <4>1
    <3>3. seen["log"]["transactions"] >= v
      <4>1. v \in Nat
        BY <1>3 DEF WroteState
      <4>2. /\ before["log"]["transactions"] \in Nat /\ seen["log"]["transactions"] \in Nat
            /\ before["log"]["transactions"] <= seen["log"]["transactions"]
        BY <1>6, TablesFacts
      <4> HIDE DEF v
      <4> QED
        BY <3>1, <4>1, <4>2
    <3> QED
      BY <1>8, <3>2, <3>3 DEF PutsLog
  <2>3. CASE i # 1
    <3>1. todo[i][1] = "list" /\ todo[i][2] = "gold"
      BY <1>9, <2>1, <2>3
    <3>2. PICK j \in DOMAIN work : work[j] = todo[i]
      BY <1>9, <2>3
    <3> QED
      BY <1>8, <3>1, <3>2 DEF PutsLog
  <2> QED
    BY <2>2, <2>3
<1>14. WroteState(r)'
  BY <1>1, <1>3, <1>8, <1>11, <1>13 DEF WroteState
<1> QED
  BY <1>1, <1>7, <1>10, <1>12, <1>14, LakeStands

(* One part of a table in the bucket is put, the other stays.              *)
LEMMA PutFields ==
  ASSUME NEW old, old = [log |-> old.log, data |-> old.data], NEW value,
         NEW part \in {"log", "data"}, NEW next, next = [old EXCEPT ![part] = value]
  PROVE  /\ next = [log |-> next.log, data |-> next.data] /\ next[part] = value
         /\ next.log = IF part = "log" THEN value ELSE old.log
         /\ next.data = IF part = "data" THEN value ELSE old.data
<1> DEFINE a == old.log
           b == old.data
<1>1. old = [log |-> a, data |-> b]
  OBVIOUS
<1> HIDE DEF a, b
<1>2. CASE part = "log"
  <2>1. next = [log |-> value, data |-> b]
    BY <1>1, <1>2
  <2> QED
    BY <1>1, <1>2, <2>1
<1>3. CASE part = "data"
  <2>1. next = [log |-> a, data |-> value]
    BY <1>1, <1>3
  <2> QED
    BY <1>1, <1>3, <2>1
<1> QED
  BY <1>2, <1>3

(* A put: what S3 has of the table is then what was listed, or newer.      *)
LEMMA PutRaises ==
  ASSUME LakeInv, NEW layer \in LayerSet, NEW table \in TableSet, NEW part \in {"log", "data"},
         NEW version \in Nat, version <= lake[layer][table].version,
         s3' = [s3 EXCEPT ![layer][table][part] =
                  IF version > s3[layer][table][part] THEN version ELSE s3[layer][table][part]],
         lake' = lake
  PROVE  /\ LakeTypes' /\ s3'[layer][table][part] >= version
         /\ \A l \in LayerSet, t \in TableSet, p \in {"log", "data"} :
              s3[l][t][p] \in Nat /\ s3'[l][t][p] \in Nat /\ s3'[l][t][p] >= s3[l][t][p]
<1> DEFINE raised == IF version > s3[layer][table][part] THEN version ELSE s3[layer][table][part]
           new(l, t) == IF l = layer /\ t = table THEN [s3[layer][table] EXCEPT ![part] = raised]
                        ELSE s3[l][t]
<1>1. s3' = [l \in LayerSet |-> [t \in TableSet |-> new(l, t)]]
  <2>1. s3 = [l \in LayerSet |-> s3[l]] /\ \A l \in LayerSet : s3[l] = [t \in TableSet |-> s3[l][t]]
    BY DEF LakeInv, LakeTypes
  <2>2. s3' = [s3 EXCEPT ![layer] = [s3[layer] EXCEPT ![table] =
                 [s3[layer][table] EXCEPT ![part] = raised]]]
    OBVIOUS
  <2> DEFINE put == [s3[layer][table] EXCEPT ![part] = raised]
  <2>3. s3' = [s3 EXCEPT ![layer] = [s3[layer] EXCEPT ![table] = put]]
    BY <2>2
  <2>4. \A l, t : new(l, t) = IF l = layer /\ t = table THEN put ELSE s3[l][t]
    OBVIOUS
  <2> HIDE DEF put, new
  <2> QED
    BY <2>1, <2>3, <2>4
<1>2. ASSUME NEW l \in LayerSet, NEW t \in TableSet
      PROVE  /\ s3'[l][t] = new(l, t) /\ lake[l][t].version \in Nat
             /\ s3[l][t] = [log |-> s3[l][t].log, data |-> s3[l][t].data]
             /\ s3[l][t].log \in Nat /\ s3[l][t].log <= lake[l][t].version
             /\ s3[l][t].data \in Nat /\ s3[l][t].data <= lake[l][t].version
  <2>1. s3'[l][t] = new(l, t)
    <3> HIDE DEF new
    <3> QED
      BY <1>1
  <2> QED
    BY <2>1, LakeFields DEF LakeInv
<1>3. /\ raised \in Nat /\ raised >= version /\ raised >= s3[layer][table][part]
      /\ raised <= lake[layer][table].version
  <2>1. /\ s3[layer][table][part] \in Nat /\ s3[layer][table][part] <= lake[layer][table].version
        /\ lake[layer][table].version \in Nat
    BY <1>2
  <2> QED
    BY <2>1
<1> HIDE DEF raised
<1>4. ASSUME NEW l \in LayerSet, NEW t \in TableSet
      PROVE  /\ s3'[l][t] = [log |-> s3'[l][t].log, data |-> s3'[l][t].data]
             /\ s3'[l][t].log \in Nat /\ s3'[l][t].log <= lake[l][t].version
             /\ s3'[l][t].data \in Nat /\ s3'[l][t].data <= lake[l][t].version
             /\ s3'[l][t].log >= s3[l][t].log /\ s3'[l][t].data >= s3[l][t].data
             /\ l = layer /\ t = table => s3'[l][t][part] = raised
  <2>1. CASE l = layer /\ t = table
    <3> DEFINE old == s3[l][t]
               next == s3'[l][t]
    <3>1. next = [old EXCEPT ![part] = raised] /\ old = [log |-> old.log, data |-> old.data]
      BY <1>2, <2>1
    <3>2. /\ old.log \in Nat /\ old.log <= lake[l][t].version
          /\ old.data \in Nat /\ old.data <= lake[l][t].version
          /\ part = "log" => raised >= old.log
          /\ part = "data" => raised >= old.data
          /\ raised \in Nat /\ raised <= lake[l][t].version
      BY <1>2, <1>3, <2>1
    <3> HIDE DEF old, next
    <3>3. /\ next = [log |-> next.log, data |-> next.data] /\ next[part] = raised
          /\ next.log = IF part = "log" THEN raised ELSE old.log
          /\ next.data = IF part = "data" THEN raised ELSE old.data
      BY <3>1, PutFields
    <3>4. /\ next.log \in Nat /\ next.log <= lake[l][t].version /\ next.log >= old.log
          /\ next.data \in Nat /\ next.data <= lake[l][t].version /\ next.data >= old.data
      BY <3>2, <3>3
    <3> QED
      BY <3>3, <3>4 DEF old, next
  <2>2. CASE ~(l = layer /\ t = table)
    <3>1. s3'[l][t] = s3[l][t]
      BY <1>2, <2>2
    <3> QED
      BY <1>2, <2>2, <3>1
  <2> QED
    BY <2>1, <2>2
<1> HIDE DEF new
<1>5. LakeTypes'
  <2>1. s3' = [l \in LayerSet |-> [t \in TableSet |->
                 [log |-> s3'[l][t].log, data |-> s3'[l][t].data]]]
    BY <1>1, <1>4
  <2>2. lake' = [l \in LayerSet |-> [t \in TableSet |->
                   [version |-> lake'[l][t].version, of |-> lake'[l][t].of]]]
    BY DEF LakeInv, LakeTypes
  <2>3. \A l \in LayerSet, t \in TableSet :
          /\ lake'[l][t].version \in Nat
          /\ s3'[l][t].log \in Nat /\ s3'[l][t].log <= lake'[l][t].version
          /\ s3'[l][t].data \in Nat /\ s3'[l][t].data <= lake'[l][t].version
    BY <1>2, <1>4
  <2> QED
    BY <2>1, <2>2, <2>3 DEF LakeTypes
<1>6. s3'[layer][table][part] >= version
  BY <1>3, <1>4
<1>7. ASSUME NEW l \in LayerSet, NEW t \in TableSet, NEW p \in {"log", "data"}
      PROVE  s3[l][t][p] \in Nat /\ s3'[l][t][p] \in Nat /\ s3'[l][t][p] >= s3[l][t][p]
  BY <1>2, <1>4
<1> QED
  BY <1>5, <1>6, <1>7

(* The last piece is the first one.                                        *)
LEMMA AllAtFirst ==
  ASSUME NEW todo, PublishWork(todo), ~(Len(todo) > 1)
  PROVE  \A i \in DOMAIN todo : i = 1
<1> DEFINE Pieces == ListPieces \cup PutPieces
<1>1. todo \in Seq(Pieces)
  BY DEF PublishWork
<1> HIDE DEF Pieces
<1> QED
  BY <1>1

(* What a put leaves to do: everything but what it did.                    *)
LeftToDo(next, state) ==
  /\ next.task \in {"publish", "report"} /\ next.wrote = state.wrote
  /\ \A i \in DOMAIN state.todo :
       i # 1 => /\ next.task = "publish" /\ next.seen = state.seen
                /\ \E j \in DOMAIN next.todo : next.todo[j] = state.todo[i]
  /\ next.task = "publish" =>
       /\ next.seen = state.seen /\ PublishWork(next.todo)
       /\ next.todo[1][1] # "list" => LayerOf(next.todo[1]) = LayerOf(state.todo[1])
  /\ state.todo[1][1] = "log" =>
       /\ next.task = "publish"
       /\ \E j \in DOMAIN next.todo :
            /\ next.todo[j][1] = "data"
            /\ next.todo[j][2] = state.todo[1][2] /\ next.todo[j][3] = state.todo[1][3]

AtLog(todo) == todo[1][1] = "log"

(* A log that is put has its data left to do.                              *)
LEMMA LogPut ==
  ASSUME NEW state, Shaped(state), state.task = "publish", PublishWork(state.todo),
         AtLog(state.todo)
  PROVE  LeftToDo(Turned(state, "data"), state)
<1> DEFINE todo == state.todo
           turned == << <<"data", todo[1][2], todo[1][3]>> >> \o Tail(todo)
           next == Turned(state, "data")
<1>1. /\ next.task = "publish" /\ next.wrote = state.wrote /\ next.seen = state.seen
      /\ next.todo = turned /\ state.todo = todo /\ PublishWork(todo)
  BY TurnedFacts, TurnedFields DEF Kept
<1>2. /\ PublishWork(turned) /\ turned[1][1] = "data"
      /\ turned[1][2] = todo[1][2] /\ turned[1][3] = todo[1][3]
      /\ LayerOf(turned[1]) = LayerOf(todo[1])
      /\ \A i \in DOMAIN todo :
           /\ i \in DOMAIN turned
           /\ i # 1 => /\ turned[i] = todo[i]
                       /\ todo[1][1] \in {"list", "list on"} => todo[i][1] = "list"
  <2>1. Halved(todo[1], "data")
    BY DEF Halved, AtLog
  <2>2. PublishWork(todo)
    BY <1>1
  <2> HIDE DEF todo, next
  <2> QED
    BY <2>1, <2>2, PublishTurned
<1>3. 1 \in DOMAIN todo
  <2> DEFINE Pieces == ListPieces \cup PutPieces
  <2>1. todo \in Seq(Pieces) /\ todo # <<>>
    BY <1>1 DEF PublishWork
  <2> HIDE DEF Pieces
  <2> QED
    BY <2>1
<1> HIDE DEF todo, turned, next
<1>4. LeftToDo(next, state)
  BY <1>1, <1>2, <1>3 DEF LeftToDo
<1> QED
  BY <1>4 DEF next

(* Data that is put has nothing of its table left to do.                   *)
LEMMA DataPut ==
  ASSUME NEW state, Shaped(state), state.task = "publish", PublishWork(state.todo),
         state.todo[1][1] = "data"
  PROVE  LeftToDo(Advanced(state), state)
<1> DEFINE todo == state.todo
           next == Advanced(state)
<1>1. CASE Len(todo) > 1
  <2> DEFINE rest == Tail(todo)
  <2>1. /\ next.task = "publish" /\ next.wrote = state.wrote /\ next.seen = state.seen
        /\ next.todo = rest /\ state.todo = todo /\ PublishWork(todo)
    BY <1>1, AdvancedFields DEF Kept
  <2>2. /\ PublishWork(rest)
        /\ rest[1][1] # "list" => LayerOf(rest[1]) = LayerOf(todo[1])
        /\ \A i \in DOMAIN todo : i # 1 => \E j \in DOMAIN rest : rest[j] = todo[i]
    BY <1>1, PublishAdvanced
  <2> HIDE DEF todo, next, rest
  <2>3. LeftToDo(next, state)
    BY <2>1, <2>2 DEF LeftToDo
  <2> QED
    BY <2>3 DEF next
<1>2. CASE ~(Len(todo) > 1)
  <2>1. next.task = "report" /\ next.wrote = state.wrote /\ state.todo = todo
    BY <1>2, AdvancedFields, FollowingTask DEF Kept
  <2>2. \A i \in DOMAIN todo : i = 1
    BY <1>2, AllAtFirst
  <2> HIDE DEF todo, next
  <2>3. LeftToDo(next, state)
    BY <2>1, <2>2 DEF LeftToDo
  <2> QED
    BY <2>3 DEF next
<1> QED
  BY <1>1, <1>2

(* The put that matters: a log may now name data which is not there yet,   *)
(* and this run is the one that carries it.                                *)
LEMMA UploadFilesKeepsLake ==
  ASSUME DagInv, LakeInv, NEW r \in Runs, UploadFiles(r)
  PROVE  LakeInv'
<1> DEFINE todo == run[r].todo
           seen == run[r].seen
           piece == todo[1]
           part == piece[1]
           table == piece[2]
           layer == piece[3]
           version == seen[part][table]
           next == IF part = "log" THEN Turned(run[r], "data") ELSE Advanced(run[r])
<1>1. run[r].task = "publish" /\ lake' = lake /\ Piece(r)[1] \in {"log", "data"}
  BY DEF UploadFiles, Works, disk
<1>2. PublishWork(todo) /\ WroteState(r)
      /\ (part # "list" => Listed(seen, LayerOf(piece)))
  BY <1>1 DEF LakeInv, PublishState
<1>3. Piece(r) = piece
  BY <1>2, FirstPiece DEF Piece
<1>4. part \in {"log", "data"} /\ table \in TableSet /\ layer \in LayerSet /\ LayerOf(piece) = layer
  BY <1>1, <1>2, <1>3, FirstPiece DEF PutPieces, LayerOf
<1>5. run' = [run EXCEPT ![r] = next]
  BY <1>3 DEF UploadFiles
<1>6. s3' = [s3 EXCEPT ![layer][table][part] =
               IF version > s3[layer][table][part] THEN version ELSE s3[layer][table][part]]
  BY <1>3 DEF UploadFiles
<1>7. LeftToDo(next, run[r])
  <2>1. CASE part = "log"
    <3>1. AtLog(todo) /\ PublishWork(run[r].todo) /\ Shaped(run[r])
      BY <1>2, <2>1, RunState DEF AtLog
    <3> QED
      BY <1>1, <2>1, <3>1, LogPut
  <2>2. CASE part = "data"
    BY <1>1, <1>2, <2>2, RunState, DataPut
  <2> QED
    BY <1>4, <2>1, <2>2
<1>8. Listed(seen, layer) /\ version \in Nat /\ version <= lake[layer][table].version
  <2>1. Listed(seen, layer)
    BY <1>2, <1>4
  <2> QED
    BY <1>4, <2>1 DEF Listed
<1>9. /\ LakeTypes' /\ s3'[layer][table][part] >= version
      /\ \A l \in LayerSet, t \in TableSet, p \in {"log", "data"} :
           s3[l][t][p] \in Nat /\ s3'[l][t][p] \in Nat /\ s3'[l][t][p] >= s3[l][t][p]
  <2> HIDE DEF version, layer, table, part
  <2> QED
    BY <1>1, <1>4, <1>6, <1>8, PutRaises
<1>10. run'[r] = next /\ \A q \in Runs \ {r} : run'[q] = run[q]
  BY <1>5, NextRun
<1>11. /\ run[r].todo = todo /\ run[r].seen = seen /\ todo[1] = piece
       /\ piece[1] = part /\ piece[2] = table /\ piece[3] = layer /\ version = seen[part][table]
  OBVIOUS
<1> HIDE DEF todo, seen, piece, part, table, layer, version, next
<1>12. ASSUME NEW l \in LayerSet, NEW t \in TableSet, ~(s3'[l][t].data >= lake[l][t].version)
       PROVE  \E q \in Runs : Carries(run'[q], l, t, lake[l][t].version)
  <2> DEFINE v == lake[l][t].version
  <2>1. v \in Nat /\ s3[l][t].data \in Nat /\ s3'[l][t].data \in Nat
        /\ s3'[l][t].data >= s3[l][t].data
    BY <1>9, LakeFields DEF LakeInv
  <2>2. ~(s3[l][t].data >= v)
    BY <1>12, <2>1
  <2>3. PICK q \in Runs : Carries(run[q], l, t, v)
    BY <2>2 DEF LakeInv, VersionsCarried
  <2>4. CASE q # r
    BY <1>10, <2>3, <2>4
  <2>5. CASE q = r
    <3>1. PICK i \in DOMAIN todo :
            \/ todo[i][1] = "list" /\ todo[i][2] = l
            \/ todo[i][1] = "list on" /\ todo[i][2] = l /\ seen["data"][t] >= v
            \/ /\ todo[i][1] \in {"log", "data"} /\ todo[i][2] = t /\ todo[i][3] = l
               /\ seen["data"][t] >= v
      BY <1>1, <1>11, <2>3, <2>5 DEF Carries, PutsData
    <3>2. CASE i # 1
      <4>1. /\ next.task = "publish" /\ next.seen = seen
            /\ \E j \in DOMAIN next.todo : next.todo[j] = todo[i]
        BY <1>7, <1>11, <3>2 DEF LeftToDo
      <4>2. PICK j \in DOMAIN next.todo : next.todo[j] = todo[i]
        BY <4>1
      <4>3. Carries(next, l, t, v)
        BY <3>1, <4>1, <4>2 DEF Carries, PutsData
      <4> QED
        BY <1>10, <4>3
    <3>3. CASE i = 1
      <4>1. table = t /\ layer = l /\ seen["data"][t] >= v
        BY <1>4, <1>11, <3>1, <3>3
      <4>2. part = "log"
        <5> SUFFICES ASSUME part = "data" PROVE FALSE
          BY <1>4
        <5>1. s3'[l][t].data >= seen["data"][t] /\ seen["data"][t] \in Nat
          BY <1>8, <1>9, <1>11, <4>1
        <5> QED
          BY <1>12, <2>1, <4>1, <5>1
      <4>3. /\ next.task = "publish" /\ next.seen = seen
            /\ \E j \in DOMAIN next.todo :
                 next.todo[j][1] = "data" /\ next.todo[j][2] = t /\ next.todo[j][3] = l
        BY <1>7, <1>11, <4>1, <4>2 DEF LeftToDo
      <4>4. Carries(next, l, t, v)
        BY <4>1, <4>3 DEF Carries, PutsData
      <4> QED
        BY <1>10, <4>4
    <3> QED
      BY <3>2, <3>3
  <2> QED
    BY <2>4, <2>5
<1>13. VersionsCarried'
  BY <1>1, <1>12 DEF VersionsCarried
<1>14. /\ s3["gold"]["transactions"].log \in Nat /\ s3'["gold"]["transactions"].log \in Nat
       /\ s3'["gold"]["transactions"].log >= s3["gold"]["transactions"].log
  <2>1. "gold" \in LayerSet /\ "transactions" \in TableSet
    BY LayersFacts, TablesFacts
  <2> QED
    BY <1>9, <2>1
<1>15. \A q \in Runs : s3["gold"]["transactions"].log >= run[q].wrote =>
                         s3'["gold"]["transactions"].log >= run[q].wrote
  <2>1. \A q \in Runs : run[q].wrote \in Nat
    BY DEF LakeInv, WroteState
  <2> QED
    BY <1>14, <2>1
<1>16. ASSUME NEW q \in Runs \ {r} PROVE SparkState(q)' /\ PublishState(q)' /\ WroteState(q)'
  <2>1. SparkState(q) /\ PublishState(q) /\ WroteState(q) /\ run'[q] = run[q]
    BY <1>10 DEF LakeInv
  <2>2. PublishState(q)'
    BY <1>1, <2>1 DEF PublishState, Listed
  <2>3. SparkState(q)' /\ WroteState(q)'
    BY <1>1, <1>15, <2>1 DEF SparkState, WroteState, PutsLog
  <2> QED
    BY <2>2, <2>3
<1>17. SparkState(r)' /\ PublishState(r)'
  BY <1>1, <1>4, <1>7, <1>8, <1>10, <1>11 DEF SparkState, PublishState, LeftToDo, Listed
<1>18. s3'["gold"]["transactions"].log >= run[r].wrote
       \/ (next.task = "publish" /\ PutsLog(next))
  <2> SUFFICES ASSUME PutsLog(run[r]), ~(s3'["gold"]["transactions"].log >= run[r].wrote)
               PROVE  next.task = "publish" /\ PutsLog(next)
    BY <1>1, <1>2, <1>15 DEF WroteState
  <2> DEFINE v == run[r].wrote
  <2>1. PICK i \in DOMAIN todo :
           \/ todo[i][1] = "list" /\ todo[i][2] = "gold"
           \/ todo[i][1] = "list on" /\ todo[i][2] = "gold" /\ seen["log"]["transactions"] >= v
           \/ /\ todo[i][1] = "log" /\ todo[i][2] = "transactions" /\ todo[i][3] = "gold"
              /\ seen["log"]["transactions"] >= v
    BY <1>11 DEF PutsLog
  <2>2. CASE i # 1
    <3>1. /\ next.task = "publish" /\ next.seen = seen /\ next.wrote = v
          /\ \E j \in DOMAIN next.todo : next.todo[j] = todo[i]
      BY <1>7, <1>11, <2>2 DEF LeftToDo
    <3>2. PICK j \in DOMAIN next.todo : next.todo[j] = todo[i]
      BY <3>1
    <3> QED
      BY <2>1, <3>1, <3>2 DEF PutsLog
  <2>3. CASE i = 1
    <3>1. /\ part = "log" /\ table = "transactions" /\ layer = "gold"
          /\ seen["log"]["transactions"] >= v
      BY <1>4, <1>11, <2>1, <2>3
    <3>2. s3'["gold"]["transactions"].log >= seen["log"]["transactions"]
          /\ seen["log"]["transactions"] \in Nat
      BY <1>8, <1>9, <1>11, <3>1
    <3>3. v \in Nat
      BY <1>2 DEF WroteState
    <3> QED
      BY <1>14, <3>1, <3>2, <3>3
  <2> QED
    BY <2>2, <2>3
<1>19. WroteState(r)'
  BY <1>1, <1>2, <1>7, <1>10, <1>18 DEF WroteState, LeftToDo
<1> QED
  BY <1>9, <1>13, <1>16, <1>17, <1>19 DEF LakeInv

-----------------------------------------------------------------------------
(* The invariant holds before the first run.                               *)
LEMMA InitLakeInv == Init => LakeInv
<1> SUFFICES ASSUME Init PROVE LakeInv
  OBVIOUS
<1>1. /\ lake = [layer \in LayerSet |-> [t \in TableSet |-> [version |-> 0, of |-> {}]]]
      /\ s3 = [layer \in LayerSet |-> [t \in TableSet |-> [log |-> 0, data |-> 0]]]
      /\ \A r \in Runs : run[r].task = "none" /\ run[r].wrote = 0
  BY DEF Init, LayerSet, TableSet, Idle
<1>2. \A layer \in LayerSet, t \in TableSet :
        lake[layer][t] = [version |-> 0, of |-> {}] /\ s3[layer][t] = [log |-> 0, data |-> 0]
  BY <1>1
<1>3. LakeTypes
  BY <1>1, <1>2 DEF LakeTypes
<1>4. VersionsCarried
  BY <1>2 DEF VersionsCarried
<1>5. ASSUME NEW r \in Runs PROVE SparkState(r) /\ PublishState(r) /\ WroteState(r)
  <2>1. "gold" \in LayerSet /\ "transactions" \in TableSet
    BY LayersFacts, TablesFacts
  <2>2. lake["gold"]["transactions"].version = 0
    BY <1>2, <2>1
  <2> QED
    BY <1>1, <2>2 DEF SparkState, PublishState, WroteState
<1> QED
  BY <1>3, <1>4, <1>5 DEF LakeInv

(* Every step keeps it.                                                    *)
LEMMA LakeInvKept == DagInv /\ LakeInv /\ [Next]_vars => LakeInv'
<1> SUFFICES ASSUME DagInv, LakeInv, [Next]_vars PROVE LakeInv'
  OBVIOUS
<1>1. ASSUME NEW r \in Runs, StartRun(r) PROVE LakeInv'
  BY <1>1, StartKeepsLake
<1>2. ASSUME NEW r \in Runs, Work(r) PROVE LakeInv'
  BY <1>2, ExtractionKeepsLake, ValidationKeepsLake, UploadKeepsLake, StagingKeepsLake,
     WriteKeepsLake, ListFirstKeepsLake, ListSecondKeepsLake, UploadFilesKeepsLake,
     ReportKeepsLake DEF Work
<1>3. ASSUME NEW r \in Runs, PutGivenUp(r) PROVE LakeInv'
  BY <1>3, UploadKeepsLake
<1>4. ASSUME NEW r \in Runs, TaskKilled(r) PROVE LakeInv'
  BY <1>4, KilledKeepsLake
<1>5. CASE UNCHANGED vars
  <2>1. lake' = lake /\ s3' = s3 /\ run' = run
    BY <1>5 DEF vars, disk
  <2>2. LakeTypes'
    BY <2>1 DEF LakeInv, LakeTypes
  <2>3. VersionsCarried'
    BY <2>1 DEF LakeInv, VersionsCarried
  <2>4. ASSUME NEW r \in Runs PROVE SparkState(r)' /\ PublishState(r)' /\ WroteState(r)'
    BY <2>1 DEF LakeInv, SparkState, PublishState, Listed, WroteState
  <2> QED
    BY <2>2, <2>3, <2>4 DEF LakeInv
<1> QED
  BY <1>1, <1>2, <1>3, <1>4, <1>5 DEF Next

(* A Delta log in S3 names files that are not there only while a run is in *)
(* the middle of writing or publishing, or was given up there; a run that  *)
(* reports has the log of what it wrote in S3, whoever published between.  *)
THEOREM PublishedCorrect == Spec => []PublishedReadable
<1>1. DagInv /\ LakeInv => PublishedReadable
  <2> SUFFICES ASSUME DagInv, LakeInv PROVE PublishedReadable
    OBVIOUS
  <2>1. ASSUME NEW layer \in LayerSet, NEW t \in TableSet, s3[layer][t].log > s3[layer][t].data
        PROVE  \E r \in Runs : run[r].task \in {"spark", "publish", "failed"}
    <3>1. /\ s3[layer][t].log \in Nat /\ s3[layer][t].data \in Nat
          /\ lake[layer][t].version \in Nat /\ s3[layer][t].log <= lake[layer][t].version
      BY LakeFields DEF LakeInv
    <3>2. ~(s3[layer][t].data >= lake[layer][t].version)
      BY <2>1, <3>1
    <3>3. PICK r \in Runs : Carries(run[r], layer, t, lake[layer][t].version)
      BY <3>2 DEF LakeInv, VersionsCarried
    <3> QED
      BY <3>3 DEF Carries, PutsData
  <2>2. \A r \in Runs :
          run[r].task \in {"report", "done"} => s3.gold["transactions"].log >= run[r].wrote
    BY DEF LakeInv, WroteState
  <2> QED
    BY <2>1, <2>2 DEF PublishedReadable, LayerSet, TableSet
<1>2. Init => DagInv /\ LakeInv
  BY InitDagInv, InitLakeInv
<1>3. DagInv /\ LakeInv /\ [Next]_vars => DagInv' /\ LakeInv'
  BY DagInvKept, LakeInvKept
<1> QED
  BY <1>1, <1>2, <1>3, PTL DEF Spec

-----------------------------------------------------------------------------
(* What a run that no other overlaps has done so far of its own extraction.*)

FileSet == Range(Datasets)

(* Extracted, and still to be: the files on disk are of the last stamp.    *)
Written(stamp) == stamp = clock /\ \A d \in FileSet : <<d, stamp>> \in files

ToWrite(state) ==
  /\ state.own = clock
  /\ \A d \in FileSet :
       <<d, state.own>> \in files \/ \E i \in DOMAIN state.todo : state.todo[i][2] = d

ToValidate(state) ==
  \/ state.own \notin empty
  \/ \E i \in DOMAIN state.todo :
       state.todo[i][2] = "transactions" /\ state.todo[i][3] = state.own

InRaw(dataset, stamp, objects) ==
  <<"data", dataset, stamp>> \in objects /\ <<"metadata", dataset, stamp>> \in objects

Uploaded(stamp, objects) == \A d \in FileSet : InRaw(d, stamp, objects)

ToUpload(state, objects) ==
  \A d \in FileSet :
    \/ InRaw(d, state.own, objects)
    \/ \E i \in DOMAIN state.todo : state.todo[i][2] = d /\ state.todo[i][3] = state.own

File(piece) == <<piece[2], piece[3]>>

StagedBy(stamp) ==
  {<<d, stamp>> : d \in FileSet} \cup {<<Balances, <<stamp, stamp>>>>}

Sequence(todo) == \E S : todo \in Seq(S)

ToStage(state) ==
  /\ Sequence(state.todo)
  /\ state.staged \subseteq StagedBy(state.own)
  /\ \A i \in DOMAIN state.todo : File(state.todo[i]) \in StagedBy(state.own)
  /\ \A f \in StagedBy(state.own) :
       f \in state.staged \/ \E i \in DOMAIN state.todo : File(state.todo[i]) = f

GoldVersion == lake["gold"]["transactions"].version

ToBuild(state, version) ==
  state.wrote = version \/ \E i \in DOMAIN state.todo : state.todo[i][2] = "transactions"

ReportOf(state) ==
  [accounts |-> state.own, transactions |-> state.own, fact_transaction |-> state.wrote]

OwnState(state) ==
  /\ state.task = "extract" => state.todo = <<>> \/ ToWrite(state)
  /\ state.task \in {"validate", "upload", "stage", "spark", "publish", "report"} =>
       Written(state.own)
  /\ state.task = "validate" => state.todo = <<>> \/ ToValidate(state)
  /\ state.task \in {"upload", "stage", "spark", "publish", "report", "done"} =>
       state.own \notin empty
  /\ state.task = "upload" => state.todo = <<>> \/ ToUpload(state, raw)
  /\ state.task \in {"stage", "spark", "publish", "report", "done"} => Uploaded(state.own, raw)
  /\ state.task = "stage" => state.todo = <<>> \/ ToStage(state)
  /\ state.task \in {"spark", "publish", "report", "done"} => state.staged = StagedBy(state.own)
  /\ state.task = "spark" => ToBuild(state, GoldVersion)
  /\ state.task \in {"publish", "report"} => state.wrote = GoldVersion
  /\ state.task = "done" => state.report = ReportOf(state)

WritePieces(stamp) == {"write"} \X FileSet \X {stamp}

(* Every stamp is of an extraction that took place.                        *)
Stamped(r) ==
  /\ run[r].own \in Nat /\ run[r].own <= clock
  /\ run[r].task = "none" => run[r].todo = <<>>
  /\ run[r].task = "extract" => run[r].todo \in Seq(WritePieces(run[r].own))

StampInv ==
  /\ clock \in Nat
  /\ \A f \in files : f[2] \in Nat /\ f[2] <= clock

OwnInv ==
  /\ StampInv
  /\ \A r \in Runs : Stamped(r) /\ (r \notin overlapped => OwnState(run[r]))

(* The tables are written in an order of their own, the accounts before    *)
(* what needs them.                                                        *)
LEMMA SparkOrderFacts ==
  /\ \E i \in DOMAIN FixedWork("spark") : FixedWork("spark")[i][2] = "transactions"
  /\ \A i \in DOMAIN FixedWork("spark") : FixedWork("spark")[i][1] = Layers[1]
  /\ \A j \in DOMAIN FixedWork("spark") : FixedWork("spark")[j][2] \in {"transactions", Balances} =>
       \E i \in DOMAIN FixedWork("spark") : i < j /\ FixedWork("spark")[i][2] = "accounts"
<1> DEFINE work == FixedWork("spark")
<1>1. /\ DOMAIN work = 1..Len(Tables)
      /\ \A i \in 1..Len(Tables) : work[i] = <<Layers[1], Tables[i], 0>>
  <2>1. work = [i \in 1..Len(Tables) |-> <<Layers[1], Tables[i], 0>>]
    BY TablesFacts DEF FixedWork, SparkOrder
  <2> HIDE DEF work
  <2> QED
    BY <2>1
<1> HIDE DEF work
<1>2. \A i \in 1..Len(Tables) : work[i][1] = Layers[1] /\ work[i][2] = Tables[i]
  BY <1>1
<1>3. CASE /\ Len(Tables) = 3
           /\ Tables[1] = "accounts" /\ Tables[2] = "transactions" /\ Tables[3] = Balances
  <2>1. /\ 1 \in DOMAIN work /\ 2 \in DOMAIN work /\ 1 < 2 /\ 1 < 3
        /\ \A j \in DOMAIN work : j = 1 \/ j = 2 \/ j = 3
    BY <1>1, <1>3
  <2>2. work[1][2] = "accounts" /\ work[2][2] = "transactions"
    BY <1>1, <1>2, <1>3, <2>1
  <2>3. \A j \in DOMAIN work : work[j][2] \in {"transactions", Balances} => 1 < j
    BY <2>1, <2>2 DEF Balances
  <2> QED
    BY <1>1, <1>2, <2>1, <2>2, <2>3 DEF work
<1>4. CASE /\ Len(Tables) = 4 /\ Tables[1] = "customers"
           /\ Tables[2] = "accounts" /\ Tables[3] = "transactions" /\ Tables[4] = Balances
  <2>1. /\ 1 \in DOMAIN work /\ 2 \in DOMAIN work /\ 3 \in DOMAIN work /\ 2 < 3 /\ 2 < 4
        /\ \A j \in DOMAIN work : j = 1 \/ j = 2 \/ j = 3 \/ j = 4
    BY <1>1, <1>4
  <2>2. work[1][2] = "customers" /\ work[2][2] = "accounts" /\ work[3][2] = "transactions"
    BY <1>1, <1>2, <1>4, <2>1
  <2>3. \A j \in DOMAIN work : work[j][2] \in {"transactions", Balances} => 2 < j
    BY <2>1, <2>2 DEF Balances
  <2> QED
    BY <1>1, <1>2, <2>1, <2>2, <2>3 DEF work
<1> QED
  BY <1>3, <1>4, TablesFacts

-----------------------------------------------------------------------------
(* The other runs: an active run that is not overlapped is alone, and what *)
(* a run that is done did stays.                                           *)
LEMMA OwnSteps ==
  ASSUME DagInv, OwnInv, NEW r \in Runs, Active(r), NEW next, run' = [run EXCEPT ![r] = next],
         overlapped' = overlapped, clock <= clock', raw \subseteq raw',
         \A e \in empty' : e \in empty \/ ~(e <= clock),
         StampInv', Stamped(r)', r \notin overlapped => OwnState(run[r])'
  PROVE  OwnInv'
<1>1. run'[r] = next /\ \A q \in Runs \ {r} : run'[q] = run[q]
  BY NextRun
<1>2. ASSUME NEW q \in Runs \ {r} PROVE Stamped(q)'
  <2>1. Stamped(q) /\ run'[q] = run[q] /\ clock \in Nat /\ clock' \in Nat
    BY <1>1 DEF OwnInv, StampInv
  <2>2. run[q].own \in Nat /\ run[q].own <= clock'
    <3>1. run[q].own \in Nat /\ run[q].own <= clock
      BY <2>1 DEF Stamped
    <3> QED
      BY <2>1, <3>1
  <2> QED
    BY <2>1, <2>2 DEF Stamped
<1>3. ASSUME NEW q \in Runs \ {r}, q \notin overlapped PROVE OwnState(run[q])'
  <2>1. OwnState(run[q]) /\ run'[q] = run[q] /\ Stamped(q)
    BY <1>1, <1>3 DEF OwnInv
  <2>2. run[q].task \in {"none", "done", "failed"}
    BY <1>3 DEF DagInv, Active
  <2>3. CASE run[q].task = "done"
    <3>1. run[q].own \notin empty'
      BY <2>1, <2>3 DEF OwnState, Stamped
    <3>2. Uploaded(run[q].own, raw)'
      BY <2>1, <2>3 DEF OwnState, Uploaded, InRaw
    <3>3. Uploaded(run[q].own, raw)' /\ (StagedBy(run[q].own))' = StagedBy(run[q].own)
          /\ (ReportOf(run[q]))' = ReportOf(run[q])
      BY <2>1, <3>2 DEF StagedBy, ReportOf
    <3> QED
      BY <2>1, <2>3, <3>1, <3>3 DEF OwnState
  <2>4. CASE run[q].task \in {"none", "failed"}
    BY <2>1, <2>4 DEF OwnState
  <2> QED
    BY <2>2, <2>3, <2>4
<1> QED
  BY <1>2, <1>3 DEF OwnInv

(* Steps that keep the files of the batch as they are.                     *)
LEMMA OwnLocal ==
  ASSUME DagInv, OwnInv, NEW r \in Runs, Active(r), NEW next, run' = [run EXCEPT ![r] = next],
         overlapped' = overlapped, clock' = clock, files' = files, empty' = empty,
         raw \subseteq raw', next.own = run[r].own, next.task \notin {"none", "extract"},
         r \notin overlapped => OwnState(run[r])'
  PROVE  OwnInv'
<1>1. run'[r] = next
  BY NextRun
<1>2. StampInv /\ Stamped(r) /\ StampInv'
  BY DEF OwnInv, StampInv
<1>3. Stamped(r)'
  BY <1>1, <1>2 DEF Stamped
<1>4. clock <= clock'
  BY <1>2 DEF StampInv
<1> QED
  BY <1>2, <1>3, <1>4, OwnSteps

(* No pieces are pieces of any extraction.                                 *)
LEMMA NothingToWrite == \A stamp : <<>> \in Seq(WritePieces(stamp))
OBVIOUS

(* A task tried again, or given up, has nothing begun.                     *)
LEMMA RetriedOwn ==
  ASSUME DagInv, OwnInv, NEW r \in Runs, Active(r), NEW next, run' = [run EXCEPT ![r] = next],
         overlapped' = overlapped, clock' = clock, files' = files, empty' = empty, lake' = lake,
         raw \subseteq raw', Kept(next, run[r]),
         \/ next.task = "failed"
         \/ next.task = run[r].task /\ next.todo = FixedWork(run[r].task)
  PROVE  OwnInv'
<1>1. run'[r] = next /\ next.own = run[r].own
  BY NextRun DEF Kept
<1>2. StampInv /\ Stamped(r) /\ StampInv' /\ clock <= clock'
  BY DEF OwnInv, StampInv
<1>3. Stamped(r)'
  <2>1. CASE next.task = "failed"
    BY <1>1, <1>2, <2>1 DEF Stamped
  <2>2. CASE next.task = run[r].task /\ next.todo = FixedWork(run[r].task)
    <3>1. run[r].task # "none"
      BY DEF Active
    <3>2. next.task = "extract" => next.todo = <<>>
      BY <2>2 DEF FixedWork
    <3> QED
      BY <1>1, <1>2, <2>2, <3>1, <3>2, NothingToWrite DEF Stamped
  <2> QED
    BY <2>1, <2>2
<1>4. ASSUME r \notin overlapped PROVE OwnState(run[r])'
  <2>1. OwnState(run[r])
    BY <1>4 DEF OwnInv
  <2>2. CASE next.task = "failed"
    BY <1>1, <2>2 DEF OwnState
  <2>3. CASE next.task = run[r].task /\ next.todo = FixedWork(run[r].task)
    <3>1. next.task \in {"extract", "validate", "upload", "stage"} => next.todo = <<>>
      BY <2>3 DEF FixedWork
    <3>2. next.task = "spark" => ToBuild(next, GoldVersion)
      <4> SUFFICES ASSUME next.task = "spark" PROVE ToBuild(next, GoldVersion)
        OBVIOUS
      <4>1. next.todo = FixedWork("spark")
        BY <2>3
      <4>2. PICK i \in DOMAIN FixedWork("spark") : FixedWork("spark")[i][2] = "transactions"
        BY SparkOrderFacts
      <4> QED
        BY <4>1, <4>2 DEF ToBuild
    <3>3. /\ Written(run[r].own)' <=> Written(run[r].own)
          /\ Uploaded(run[r].own, raw) => Uploaded(run[r].own, raw)'
          /\ (StagedBy(run[r].own))' = StagedBy(run[r].own)
          /\ GoldVersion' = GoldVersion
          /\ ToBuild(next, GoldVersion) => ToBuild(run[r], GoldVersion)'
      BY <1>1 DEF Written, Uploaded, InRaw, StagedBy, GoldVersion, ToBuild
    <3>4. run[r].task \notin {"none", "done", "failed"}
      BY DEF Active
    <3> QED
      BY <1>1, <2>1, <2>3, <3>1, <3>2, <3>3, <3>4 DEF OwnState, Kept
  <2> QED
    BY <2>2, <2>3
<1> QED
  BY <1>2, <1>3, <1>4, OwnSteps

(* A task that fails starts over with nothing of its own undone.           *)
LEMMA RetriedStepOwn ==
  ASSUME DagInv, OwnInv, NEW r \in Runs, Active(r), run' = [run EXCEPT ![r] = Retried(run[r])],
         overlapped' = overlapped, clock' = clock, files' = files, empty' = empty, lake' = lake,
         raw \subseteq raw'
  PROVE  OwnInv'
<1> DEFINE next == Retried(run[r])
<1>1. /\ next.task = "failed" \/ (next.task = run[r].task /\ next.todo = FixedWork(run[r].task))
      /\ Kept(next, run[r])
  BY RunState, RetriedFields
<1> HIDE DEF next
<1> QED
  BY <1>1, RetriedOwn DEF next

(* A kill leaves the task to be tried from its beginning, or the run       *)
(* failed.                                                                 *)
LEMMA KilledOwn ==
  ASSUME DagInv, OwnInv, NEW r \in Runs, TaskKilled(r)
  PROVE  OwnInv'
BY RetriedStepOwn DEF TaskKilled, disk

(* A run that starts may overlap others; nothing is claimed of them then.  *)
LEMMA StartOwn ==
  ASSUME DagInv, OwnInv, NEW r \in Runs, StartRun(r)
  PROVE  OwnInv'
<1> DEFINE next == [run[r] EXCEPT !.task = "extract", !.attempt = 1]
<1>1. /\ run' = [run EXCEPT ![r] = next] /\ run[r].task = "none"
      /\ clock' = clock /\ files' = files /\ empty' = empty /\ raw' = raw /\ lake' = lake
      /\ overlapped \subseteq overlapped'
      /\ \A q \in Runs : Active(q) => q \in overlapped' /\ r \in overlapped'
  BY DEF StartRun, disk
<1>2. next.task = "extract" /\ next.own = run[r].own /\ next.todo = run[r].todo
  BY RunState DEF Shaped, Fields
<1> HIDE DEF next
<1>3. run'[r] = next /\ \A q \in Runs \ {r} : run'[q] = run[q]
  BY <1>1, NextRun
<1>4. StampInv'
  BY <1>1 DEF OwnInv, StampInv
<1>5. Stamped(r)' /\ OwnState(run[r])'
  <2>1. Stamped(r)
    BY DEF OwnInv
  <2>2. next.todo = <<>>
    BY <1>1, <1>2, <2>1 DEF Stamped
  <2>3. Stamped(r)'
    BY <1>1, <1>2, <1>3, <2>1, <2>2, NothingToWrite DEF Stamped
  <2> QED
    BY <1>2, <1>3, <2>2, <2>3 DEF OwnState
<1>6. ASSUME NEW q \in Runs \ {r} PROVE Stamped(q)'
  BY <1>1, <1>3 DEF OwnInv, Stamped
<1>7. ASSUME NEW q \in Runs \ {r}, q \notin overlapped' PROVE OwnState(run[q])'
  <2>1. OwnState(run[q]) /\ run'[q] = run[q]
    BY <1>1, <1>3, <1>7 DEF OwnInv
  <2>2. run[q].task \in {"none", "done", "failed"}
    BY <1>1, <1>7 DEF Active
  <2>3. /\ Uploaded(run[q].own, raw)' <=> Uploaded(run[q].own, raw)
        /\ (StagedBy(run[q].own))' = StagedBy(run[q].own)
        /\ (ReportOf(run[q]))' = ReportOf(run[q])
    BY <1>1, <2>1 DEF Uploaded, InRaw, StagedBy, ReportOf
  <2>4. CASE run[q].task = "done"
    BY <1>1, <2>1, <2>3, <2>4 DEF OwnState
  <2>5. CASE run[q].task \in {"none", "failed"}
    BY <2>1, <2>5 DEF OwnState
  <2> QED
    BY <2>2, <2>4, <2>5
<1> QED
  BY <1>4, <1>5, <1>6, <1>7 DEF OwnInv

-----------------------------------------------------------------------------
(* Work in pieces: what is left after one is done, or half of one.         *)

Moved(next, state) ==
  /\ Kept(next, state)
  /\ \/ /\ next.task = state.task
        /\ Sequence(next.todo) /\ RestFacts(state.todo, next.todo)
        /\ RestOrder(state.todo, next.todo)
     \/ /\ next.task = Following(state.task) /\ next.todo = FixedWork(Following(state.task))
        /\ \A i \in DOMAIN state.todo : i = 1

(* The first piece of the work and what is left of it.                     *)
LEMMA FirstOf ==
  ASSUME NEW todo, Sequence(todo), todo # <<>>
  PROVE  /\ 1 \in DOMAIN todo /\ Head(todo) = todo[1] /\ Sequence(Tail(todo))
         /\ RestFacts(todo, Tail(todo)) /\ RestOrder(todo, Tail(todo))
         /\ ~(Len(todo) > 1) => \A i \in DOMAIN todo : i = 1
<1>1. PICK S : todo \in Seq(S)
  BY DEF Sequence
<1>2. RestFacts(todo, Tail(todo)) /\ RestOrder(todo, Tail(todo)) /\ Tail(todo) \in Seq(S)
  BY <1>1, RestOf
<1>3. /\ 1 \in DOMAIN todo /\ Head(todo) = todo[1]
      /\ ~(Len(todo) > 1) => \A i \in DOMAIN todo : i = 1
  BY <1>1
<1> QED
  BY <1>2, <1>3 DEF Sequence

(* A piece that is done leaves the later ones to do, or was the last.      *)
LEMMA AdvancedMoves ==
  ASSUME NEW state, Shaped(state), Sequence(state.todo), state.todo # <<>>
  PROVE  Moved(Advanced(state), state)
<1>1. /\ Sequence(Tail(state.todo)) /\ RestFacts(state.todo, Tail(state.todo))
      /\ RestOrder(state.todo, Tail(state.todo))
      /\ ~(Len(state.todo) > 1) => \A i \in DOMAIN state.todo : i = 1
  BY FirstOf
<1>2. CASE Len(state.todo) > 1
  BY <1>1, <1>2, AdvancedFields DEF Moved
<1>3. CASE ~(Len(state.todo) > 1)
  BY <1>1, <1>3, AdvancedFields DEF Moved
<1> QED
  BY <1>2, <1>3

(* Half done, a piece is still about the same file.                        *)
SameTargets(turned, todo) ==
  /\ DOMAIN turned = DOMAIN todo
  /\ \A i \in DOMAIN todo :
       /\ turned[i][2] = todo[i][2] /\ turned[i][3] = todo[i][3]
       /\ i # 1 => turned[i] = todo[i]

(* A piece half done leaves the same files to do.                          *)
LEMMA TurnedTargets ==
  ASSUME NEW state, NEW phase, Shaped(state), Sequence(state.todo), state.todo # <<>>
  PROVE  /\ Turned(state, phase).task = state.task
         /\ SameTargets(Turned(state, phase).todo, state.todo)
<1> DEFINE todo == state.todo
           first == <<phase, todo[1][2], todo[1][3]>>
           turned == <<first>> \o Tail(todo)
<1>1. PICK S : todo \in Seq(S)
  BY DEF Sequence
<1>2. first[2] = todo[1][2] /\ first[3] = todo[1][3]
  OBVIOUS
<1>3. Turned(state, phase).task = state.task /\ Turned(state, phase).todo = turned
  BY TurnedFacts
<1>4. state.todo = todo /\ todo # <<>> /\ turned = <<first>> \o Tail(todo)
  OBVIOUS
<1> HIDE DEF todo, first
<1>5. /\ DOMAIN todo = 1..Len(todo) /\ Len(todo) \in Nat
      /\ Tail(todo) \in Seq(S) /\ Len(Tail(todo)) = Len(todo) - 1
      /\ \A i \in 1..(Len(todo) - 1) : Tail(todo)[i] = todo[i + 1]
  BY <1>1, <1>4
<1>6. /\ turned[1] = first /\ DOMAIN turned = 1..Len(todo)
      /\ \A i \in 2..Len(todo) : turned[i] = Tail(todo)[i - 1]
  BY <1>1, <1>4, <1>5
<1> HIDE DEF turned
<1>7. ASSUME NEW i \in DOMAIN todo
      PROVE  i \in DOMAIN turned /\ turned[i] = IF i = 1 THEN first ELSE todo[i]
  <2>1. CASE i = 1
    BY <1>5, <1>6, <1>7, <2>1
  <2>2. CASE i # 1
    <3>1. i \in 2..Len(todo) /\ i - 1 \in 1..(Len(todo) - 1) /\ (i - 1) + 1 = i
      BY <1>5, <1>7, <2>2
    <3> QED
      BY <1>5, <1>6, <1>7, <2>2, <3>1
  <2> QED
    BY <2>1, <2>2
<1>8. SameTargets(turned, todo)
  BY <1>2, <1>5, <1>6, <1>7 DEF SameTargets
<1> QED
  BY <1>3, <1>4, <1>8

-----------------------------------------------------------------------------
(* extract_plaid_batch.                                                    *)

(* What is known of the datasets of an extraction.                         *)
LEMMA DatasetsFacts ==
  /\ DOMAIN Datasets = 1..Len(Datasets) /\ Len(Datasets) \in Nat /\ Len(Datasets) > 0
  /\ \A i \in 1..Len(Datasets) : Datasets[i] \in FileSet
  /\ \A d \in FileSet : \E i \in 1..Len(Datasets) : Datasets[i] = d
  /\ "accounts" \in FileSet /\ "transactions" \in FileSet
  /\ FileSet \subseteq FileDatasets /\ Balances \notin FileSet
<1>1. CASE Datasets = <<"accounts", "transactions">>
  <2>1. FileSet = {"accounts", "transactions"}
    BY <1>1 DEF FileSet, Range
  <2> QED
    BY <1>1, <2>1 DEF FileDatasets, Balances
<1>2. CASE Datasets = <<"customers", "accounts", "transactions">>
  <2>1. FileSet = {"customers", "accounts", "transactions"}
    BY <1>2 DEF FileSet, Range
  <2> QED
    BY <1>2, <2>1 DEF FileDatasets, Balances
<1> QED
  BY <1>1, <1>2, DatasetsAssumption

(* An extraction begins with a stamp of its own and no file of it there.   *)
LEMMA ExtractOwn ==
  ASSUME DagInv, OwnInv, NEW r \in Runs, Extract(r)
  PROVE  OwnInv'
<1> DEFINE stamp == clock'
           write(i) == <<"write", Datasets[i], stamp>>
           work == [i \in DOMAIN Datasets |-> write(i)]
           next == [run[r] EXCEPT !.own = stamp, !.todo = work]
<1>1. /\ run' = [run EXCEPT ![r] = next] /\ run[r].task = "extract" /\ clock' = clock + 1
      /\ files' = files /\ raw' = raw /\ overlapped' = overlapped
      /\ \A e \in empty' : e \in empty \/ e = clock'
  BY DEF Extract, Begins
<1>2. Active(r) /\ clock \in Nat /\ clock' \in Nat /\ clock <= clock' /\ ~(clock' <= clock)
  BY <1>1 DEF Active, OwnInv, StampInv
<1>3. /\ work \in Seq(WritePieces(stamp)) /\ DOMAIN work = 1..Len(Datasets)
      /\ \A i \in 1..Len(Datasets) : work[i] = write(i)
  <2>1. \A i \in 1..Len(Datasets) : write(i) \in WritePieces(stamp)
    BY DatasetsFacts DEF WritePieces
  <2> HIDE DEF write, stamp
  <2> QED
    BY <2>1, DatasetsFacts
<1>4. ASSUME NEW d \in FileSet PROVE \E i \in DOMAIN work : work[i][2] = d
  <2>1. PICK i \in 1..Len(Datasets) : Datasets[i] = d
    BY DatasetsFacts
  <2>2. write(i)[2] = d
    BY <2>1
  <2> HIDE DEF write, work
  <2> QED
    BY <1>3, <2>2
<1> HIDE DEF work
<1>5. next.task = "extract" /\ next.own = stamp /\ next.todo = work
  BY <1>1, RunState DEF Shaped, Fields
<1> HIDE DEF next
<1>6. run'[r] = next
  BY <1>1, NextRun
<1>7. StampInv'
  <2>1. \A f \in files : f[2] \in Nat /\ f[2] <= clock
    BY DEF OwnInv, StampInv
  <2>2. \A f \in files : f[2] \in Nat /\ f[2] <= clock'
    BY <1>2, <2>1, Ascending
  <2> QED
    BY <1>1, <1>2, <2>2 DEF StampInv
<1>8. Stamped(r)'
  BY <1>2, <1>3, <1>5, <1>6 DEF Stamped
<1>9. OwnState(run[r])'
  <2>1. ToWrite(run[r])'
    BY <1>4, <1>5, <1>6 DEF ToWrite
  <2> QED
    BY <1>5, <1>6, <2>1 DEF OwnState
<1>10. raw \subseteq raw' /\ \A e \in empty' : e \in empty \/ ~(e <= clock)
  BY <1>1, <1>2
<1> QED
  BY <1>1, <1>2, <1>7, <1>8, <1>9, <1>10, OwnSteps

(* It has then written its files one by one.                               *)
LEMMA WriteFileOwn ==
  ASSUME DagInv, OwnInv, NEW r \in Runs, WriteFile(r)
  PROVE  OwnInv'
<1> DEFINE todo == run[r].todo
           own == run[r].own
           file == <<Piece(r)[2], Piece(r)[3]>>
           next == Advanced(run[r])
<1>1. /\ run' = [run EXCEPT ![r] = next] /\ run[r].task = "extract" /\ todo # <<>>
      /\ clock' = clock /\ empty' = empty /\ raw' = raw /\ overlapped' = overlapped
      /\ files' = files \cup {file}
  BY DEF WriteFile, Works
<1>2. Active(r) /\ StampInv /\ Stamped(r) /\ Shaped(run[r])
  BY <1>1, RunState DEF Active, OwnInv
<1>3. todo \in Seq(WritePieces(own)) /\ own \in Nat /\ own <= clock
  BY <1>1, <1>2 DEF Stamped
<1>4. Sequence(todo) /\ Piece(r) = todo[1] /\ todo[1] \in WritePieces(own)
  <2>1. Sequence(todo) /\ todo[1] \in WritePieces(own)
    BY <1>1, <1>3 DEF Sequence
  <2> QED
    BY <1>1, <2>1, FirstOf DEF Piece
<1>5. file = <<todo[1][2], own>>
  BY <1>4 DEF WritePieces
<1>6. Moved(next, run[r])
  BY <1>1, <1>2, <1>4, AdvancedMoves
<1>7. \/ next.task = "extract" /\ next.todo \in Seq(WritePieces(own)) /\ RestFacts(todo, next.todo)
      \/ next.task = "validate" /\ next.todo = <<>> /\ \A i \in DOMAIN todo : i = 1
  <2>1. CASE Len(todo) > 1
    <3>1. next.task = "extract" /\ next.todo = Tail(todo)
      BY <1>1, <1>2, <2>1, AdvancedFields
    <3>2. Tail(todo) \in Seq(WritePieces(own)) /\ RestFacts(todo, Tail(todo))
      <4>1. Tail(todo) \in Seq(WritePieces(own))
        BY <1>3, <2>1, TailSequence
      <4>2. RestFacts(todo, Tail(todo))
        BY <1>1, <1>4, FirstOf
      <4> QED
        BY <4>1, <4>2
    <3> QED
      BY <3>1, <3>2
  <2>2. CASE ~(Len(todo) > 1)
    <3>1. next.task = "validate" /\ next.todo = FixedWork("validate")
      BY <1>1, <1>2, <2>2, AdvancedFields, FollowingTask
    <3>2. FixedWork("validate") = <<>>
      BY DEF FixedWork
    <3> QED
      BY <1>1, <1>4, <2>2, <3>1, <3>2, FirstOf
  <2> QED
    BY <2>1, <2>2
<1>8. next.own = own
  BY <1>6 DEF Moved, Kept
<1> HIDE DEF next
<1>9. run'[r] = next
  BY <1>1, NextRun
<1>10. StampInv'
  <2>1. file[2] \in Nat /\ file[2] <= clock
    BY <1>3, <1>5
  <2> QED
    BY <1>1, <1>2, <2>1 DEF StampInv
<1>11. Stamped(r)'
  BY <1>1, <1>3, <1>7, <1>8, <1>9 DEF Stamped
<1>12. ASSUME r \notin overlapped PROVE OwnState(run[r])'
  <2>1. ToWrite(run[r])
    BY <1>1, <1>12 DEF OwnInv, OwnState
  <2>2. ASSUME NEW d \in FileSet, <<d, own>> \notin files'
        PROVE  next.task = "extract" /\ \E i \in DOMAIN next.todo : next.todo[i][2] = d
    <3>1. PICK i \in DOMAIN todo : todo[i][2] = d
      BY <1>1, <2>1, <2>2 DEF ToWrite
    <3>2. i # 1
      BY <1>1, <1>5, <2>2, <3>1
    <3> QED
      BY <1>7, <3>1, <3>2 DEF RestFacts
  <2>3. CASE next.task = "extract"
    <3>1. ToWrite(run[r])'
      BY <1>1, <1>8, <1>9, <2>1, <2>2 DEF ToWrite
    <3> QED
      BY <1>9, <2>3, <3>1 DEF OwnState
  <2>4. CASE next.task = "validate"
    <3>1. Written(run[r].own)'
      BY <1>1, <1>8, <1>9, <2>1, <2>2, <2>4 DEF Written, ToWrite
    <3>2. next.todo = <<>>
      BY <1>7, <2>4
    <3> QED
      BY <1>9, <2>4, <3>1, <3>2 DEF OwnState
  <2> QED
    BY <1>7, <2>3, <2>4
<1>13. clock <= clock' /\ raw \subseteq raw' /\ \A e \in empty' : e \in empty
  BY <1>1, <1>2 DEF StampInv
<1> QED
  BY <1>1, <1>2, <1>10, <1>11, <1>12, <1>13, OwnSteps

-----------------------------------------------------------------------------
(* What the later tasks find: the newest files are the run's own.          *)

(* The newest file of a dataset is that of the newest extraction if that   *)
(* one has written all its files.                                          *)
LEMMA LatestOwn ==
  ASSUME StampInv, NEW stamp, Written(stamp), NEW d \in FileSet
  PROVE  Stamps(d) # {} /\ Latest(d) = stamp
<1> DEFINE S == Stamps(d)
<1>1. stamp \in S
  <2>1. <<d, stamp>> \in files
    BY DEF Written
  <2> QED
    BY <2>1 DEF Stamps
<1>2. \A x \in S : x \in Nat /\ x <= stamp
  BY DEF Stamps, StampInv, Written
<1>3. Latest(d) = Max(S)
  BY <1>1 DEF Latest
<1> HIDE DEF S
<1>4. \A x \in S : (\A y \in S : x >= y) => x = stamp
  BY <1>1, <1>2
<1>5. \A y \in S : stamp >= y
  BY <1>1, <1>2
<1>6. Max(S) = stamp
  BY <1>1, <1>4, <1>5 DEF Max
<1> QED
  BY <1>1, <1>3, <1>6 DEF S

(* Discovery finds the newest file of every dataset that has one.          *)
LEMMA DiscoveredHas ==
  ASSUME NEW phase
  PROVE  /\ Sequence(Discovered(phase))
         /\ \A d \in FileDatasets : Stamps(d) # {} =>
              \E i \in DOMAIN Discovered(phase) : Discovered(phase)[i] = <<phase, d, Latest(d)>>
<1> DEFINE newest(d) == <<phase, d, Latest(d)>>
           All == {newest(d) : d \in FileDatasets}
           Of(d) == IF Stamps(d) = {} THEN <<>> ELSE <<newest(d)>>
           a == Of("accounts")
           c == Of("customers")
           t == Of("transactions")
           ac == a \o c
           act == ac \o t
<1>1. Discovered(phase) = act
  BY DEF Discovered
<1>2. ASSUME NEW d \in FileDatasets
      PROVE  /\ Of(d) \in Seq(All)
             /\ Stamps(d) # {} => \E i \in DOMAIN Of(d) : Of(d)[i] = newest(d)
  <2>1. newest(d) \in All
    OBVIOUS
  <2> HIDE DEF All, newest
  <2>2. CASE Stamps(d) = {}
    BY <2>2
  <2>3. CASE Stamps(d) # {}
    <3>1. Of(d) = <<newest(d)>>
      BY <2>3
    <3> HIDE DEF Of
    <3>2. 1 \in DOMAIN Of(d) /\ Of(d)[1] = newest(d) /\ Of(d) \in Seq(All)
      BY <2>1, <3>1
    <3> QED
      BY <3>2
  <2> QED
    BY <2>2, <2>3
<1> HIDE DEF All, newest, Of
<1>3. a \in Seq(All) /\ c \in Seq(All) /\ t \in Seq(All)
  BY <1>2 DEF FileDatasets
<1>4. /\ Stamps("accounts") # {} => \E i \in DOMAIN a : a[i] = newest("accounts")
      /\ Stamps("customers") # {} => \E i \in DOMAIN c : c[i] = newest("customers")
      /\ Stamps("transactions") # {} => \E i \in DOMAIN t : t[i] = newest("transactions")
  BY <1>2 DEF FileDatasets
<1>5. ac = a \o c /\ act = ac \o t
  OBVIOUS
<1> HIDE DEF a, c, t, ac, act
<1>6. ac \in Seq(All) /\ Parts(ac, a, c)
  BY <1>3, <1>5, Joined
<1>7. act \in Seq(All) /\ Parts(act, ac, t)
  BY <1>3, <1>5, <1>6, Joined
<1>8. /\ \A i \in DOMAIN a : \E j \in DOMAIN act : act[j] = a[i]
      /\ \A i \in DOMAIN c : \E j \in DOMAIN act : act[j] = c[i]
      /\ \A i \in DOMAIN t : \E j \in DOMAIN act : act[j] = t[i]
  BY <1>6, <1>7 DEF Parts
<1>9. ASSUME NEW d \in FileDatasets, Stamps(d) # {}
      PROVE  \E j \in DOMAIN act : act[j] = newest(d)
  BY <1>4, <1>8, <1>9 DEF FileDatasets
<1> QED
  BY <1>1, <1>7, <1>9 DEF Sequence, newest

(* What a task that looks for the newest files of the datasets plans.      *)
LEMMA PlannedOwn ==
  ASSUME StampInv, NEW stamp, Written(stamp), NEW phase
  PROVE  /\ Sequence(Discovered(phase))
         /\ \A d \in FileSet : \E i \in DOMAIN Discovered(phase) :
              Discovered(phase)[i][2] = d /\ Discovered(phase)[i][3] = stamp
<1> SUFFICES ASSUME NEW d \in FileSet
             PROVE  \E i \in DOMAIN Discovered(phase) :
                      Discovered(phase)[i][2] = d /\ Discovered(phase)[i][3] = stamp
  BY DiscoveredHas
<1>1. Stamps(d) # {} /\ Latest(d) = stamp /\ d \in FileDatasets
  BY LatestOwn, DatasetsFacts
<1>2. PICK i \in DOMAIN Discovered(phase) : Discovered(phase)[i] = <<phase, d, Latest(d)>>
  BY <1>1, DiscoveredHas
<1>3. Discovered(phase)[i][2] = d /\ Discovered(phase)[i][3] = stamp
  BY <1>1, <1>2
<1> QED
  BY <1>3

-----------------------------------------------------------------------------
(* validate_extracted_batch: the transactions are checked like the others. *)

(* The run validates what it wrote, with no run in between,                *)
LEMMA ValidationOwn ==
  ASSUME DagInv, OwnInv, NEW r \in Runs, PlanValidation(r) \/ ClearSuite(r) \/ AddSuiteAndRun(r)
  PROVE  OwnInv'
<1> DEFINE todo == run[r].todo
           own == run[r].own
<1>1. /\ run[r].task = "validate" /\ Active(r) /\ Shaped(run[r]) /\ StampInv
      /\ clock' = clock /\ files' = files /\ empty' = empty /\ raw' = raw /\ lake' = lake
      /\ overlapped' = overlapped
  BY RunState DEF PlanValidation, ClearSuite, AddSuiteAndRun, Planned, Begins, Works, Active,
     disk, OwnInv
<1>2. Sequence(todo)
  BY <1>1, RunState DEF ValidationState, FileWork, Sequence
<1>3. r \notin overlapped => OwnState(run[r]) /\ Written(own)
  BY <1>1 DEF OwnInv, OwnState
<1>4. ASSUME NEW next, run'[r] = next, next.own = own, r \notin overlapped,
             \/ next.task = "validate" /\ ToValidate(next)
             \/ next.task = "upload" /\ next.todo = <<>> /\ own \notin empty
      PROVE  OwnState(run[r])'
  <2>1. Written(run[r].own)'
    BY <1>1, <1>3, <1>4 DEF Written
  <2>2. CASE next.task = "validate" /\ ToValidate(next)
    <3>1. ToValidate(run[r])'
      BY <1>1, <1>4, <2>2 DEF ToValidate
    <3> QED
      BY <1>4, <2>1, <2>2, <3>1 DEF OwnState
  <2>3. CASE next.task = "upload" /\ next.todo = <<>> /\ own \notin empty
    BY <1>1, <1>4, <2>1, <2>3 DEF OwnState
  <2> QED
    BY <1>4, <2>2, <2>3
<1>5. CASE PlanValidation(r)
  <2> DEFINE work == Discovered("clear")
             next == [run[r] EXCEPT !.todo = work]
  <2>1. run' = [run EXCEPT ![r] = next]
    BY <1>5 DEF PlanValidation, Planned
  <2> HIDE DEF work
  <2>2. next.task = "validate" /\ next.own = own /\ next.todo = work
    BY <1>1 DEF Shaped, Fields
  <2> HIDE DEF next
  <2>3. r \notin overlapped => ToValidate(next)
    BY <1>1, <1>3, <2>2, PlannedOwn, DatasetsFacts DEF ToValidate, work
  <2>4. run'[r] = next
    BY <2>1, NextRun
  <2> QED
    BY <1>1, <1>4, <2>1, <2>2, <2>3, <2>4, OwnLocal
<1>6. CASE ClearSuite(r)
  <2> DEFINE next == Turned(run[r], "add")
  <2>1. run' = [run EXCEPT ![r] = next] /\ todo # <<>>
    BY <1>6 DEF ClearSuite, Works
  <2>2. next.task = "validate" /\ next.own = own /\ SameTargets(next.todo, todo)
    BY <1>1, <1>2, <2>1, TurnedTargets, TurnedFields DEF Kept
  <2> HIDE DEF next
  <2>3. r \notin overlapped => ToValidate(next)
    <3> SUFFICES ASSUME r \notin overlapped PROVE ToValidate(next)
      OBVIOUS
    <3>1. ToValidate(run[r])
      BY <1>1, <1>3, <2>1 DEF OwnState
    <3> QED
      BY <2>2, <3>1 DEF ToValidate, SameTargets
  <2>4. run'[r] = next
    BY <2>1, NextRun
  <2> QED
    BY <1>1, <1>4, <2>1, <2>2, <2>3, <2>4, OwnLocal
<1>7. CASE AddSuiteAndRun(r)
  <2>1. todo # <<>>
    BY <1>7 DEF AddSuiteAndRun, Works
  <2>2. Piece(r) = todo[1] /\ 1 \in DOMAIN todo
    BY <1>2, <2>1, FirstOf DEF Piece
  <2>3. CASE Piece(r)[2] \in suites
    <3> DEFINE again == Retried(run[r])
               next == [again EXCEPT !.clashed = TRUE]
    <3>1. run' = [run EXCEPT ![r] = next]
      BY <1>7, <2>3 DEF AddSuiteAndRun
    <3>2. /\ Shaped(again) /\ Kept(again, run[r])
          /\ again.task = "failed" \/ (again.task = run[r].task /\ again.todo = FixedWork(run[r].task))
      BY <1>1, RetriedFacts, RetriedFields
    <3> HIDE DEF again
    <3>3. next.task = again.task /\ next.todo = again.todo /\ Kept(next, again)
      BY <3>2 DEF Shaped, Fields, Kept
    <3> HIDE DEF next
    <3>4. Kept(next, run[r])
      BY <3>2, <3>3 DEF Kept
    <3> QED
      BY <1>1, <3>1, <3>2, <3>3, <3>4, RetriedOwn
  <2>4. CASE Piece(r)[2] \notin suites /\ HoldsNothing(Piece(r))
    <3>1. run' = [run EXCEPT ![r] = Retried(run[r])]
      BY <1>7, <2>4 DEF AddSuiteAndRun
    <3> QED
      BY <1>1, <3>1, RetriedStepOwn
  <2>5. CASE Piece(r)[2] \notin suites /\ ~HoldsNothing(Piece(r))
    <3> DEFINE next == Advanced(run[r])
    <3>1. run' = [run EXCEPT ![r] = next]
      BY <1>7, <2>5 DEF AddSuiteAndRun
    <3>2. Moved(next, run[r])
      BY <1>1, <1>2, <2>1, AdvancedMoves
    <3> HIDE DEF next
    <3>3. /\ next.own = own
          /\ \/ next.task = "validate" /\ RestFacts(todo, next.todo)
             \/ next.task = "upload" /\ next.todo = <<>> /\ \A i \in DOMAIN todo : i = 1
      BY <1>1, <3>2, FollowingTask DEF Moved, Kept, FixedWork
    <3>4. r \notin overlapped => \/ next.task = "validate" /\ ToValidate(next)
                                 \/ next.task = "upload" /\ next.todo = <<>> /\ own \notin empty
      <4> SUFFICES ASSUME r \notin overlapped, own \in empty
                   PROVE  next.task = "validate" /\ ToValidate(next)
        BY <3>3 DEF ToValidate
      <4>1. PICK i \in DOMAIN todo : todo[i][2] = "transactions" /\ todo[i][3] = own
        BY <1>1, <1>3, <2>1 DEF OwnState, ToValidate
      <4>2. i # 1
        BY <2>2, <2>5, <4>1 DEF HoldsNothing
      <4>3. next.task = "validate" /\ RestFacts(todo, next.todo)
        BY <3>3, <4>2
      <4> QED
        BY <3>3, <4>1, <4>2, <4>3 DEF RestFacts, ToValidate
    <3>5. run'[r] = next
      BY <3>1, NextRun
    <3> QED
      BY <1>1, <1>4, <3>1, <3>3, <3>4, <3>5, OwnLocal
  <2> QED
    BY <2>3, <2>4, <2>5
<1> QED
  BY <1>5, <1>6, <1>7

-----------------------------------------------------------------------------
(* upload_bronze_batch: a file is behind the run once its metadata is put. *)

(* and uploads it.                                                         *)
LEMMA UploadOwn ==
  ASSUME DagInv, OwnInv, NEW r \in Runs, PlanUpload(r) \/ Put(r) \/ PutGivenUp(r)
  PROVE  OwnInv'
<1> DEFINE todo == run[r].todo
           own == run[r].own
<1>1. /\ run[r].task = "upload" /\ Active(r) /\ Shaped(run[r]) /\ StampInv
      /\ clock' = clock /\ files' = files /\ empty' = empty /\ lake' = lake
      /\ overlapped' = overlapped /\ raw \subseteq raw'
  BY RunState DEF PlanUpload, Put, PutGivenUp, Planned, Begins, Works, Active, disk, OwnInv
<1>2. Sequence(todo)
  BY <1>1, RunState DEF UploadState, FileWork, Sequence
<1>3. r \notin overlapped => OwnState(run[r]) /\ Written(own) /\ own \notin empty
  BY <1>1 DEF OwnInv, OwnState
<1>4. ASSUME NEW next, run'[r] = next, next.own = own, r \notin overlapped,
             \/ next.task = "upload" /\ ToUpload(next, raw')
             \/ next.task = "stage" /\ next.todo = <<>> /\ Uploaded(own, raw')
      PROVE  OwnState(run[r])'
  <2>1. Written(run[r].own)' /\ run'[r].own \notin empty'
    BY <1>1, <1>3, <1>4 DEF Written
  <2>2. CASE next.task = "upload" /\ ToUpload(next, raw')
    <3>1. ToUpload(run[r], raw)'
      BY <1>4, <2>2 DEF ToUpload
    <3> QED
      BY <1>4, <2>1, <2>2, <3>1 DEF OwnState
  <2>3. CASE next.task = "stage" /\ next.todo = <<>> /\ Uploaded(own, raw')
    <3>1. Uploaded(run[r].own, raw)'
      BY <1>4, <2>3 DEF Uploaded
    <3> QED
      BY <1>4, <2>1, <2>3, <3>1 DEF OwnState
  <2> QED
    BY <1>4, <2>2, <2>3
<1>5. CASE PlanUpload(r)
  <2> DEFINE work == Discovered(PutOrder[1])
             next == [run[r] EXCEPT !.todo = work]
  <2>1. run' = [run EXCEPT ![r] = next]
    BY <1>5 DEF PlanUpload, Planned
  <2> HIDE DEF work
  <2>2. next.task = "upload" /\ next.own = own /\ next.todo = work
    BY <1>1 DEF Shaped, Fields
  <2> HIDE DEF next
  <2>3. r \notin overlapped => ToUpload(next, raw')
    BY <1>1, <1>3, <2>2, PlannedOwn DEF ToUpload, work
  <2>4. run'[r] = next
    BY <2>1, NextRun
  <2> QED
    BY <1>1, <1>4, <2>1, <2>2, <2>3, <2>4, OwnLocal
<1>6. CASE Put(r) /\ HoldsNothing(Piece(r))
  <2>1. run' = [run EXCEPT ![r] = Retried(run[r])]
    BY <1>6 DEF Put
  <2> QED
    BY <1>1, <2>1, RetriedStepOwn
<1>7. CASE PutGivenUp(r)
  <2>1. run' = [run EXCEPT ![r] = Retried(run[r])]
    BY <1>7 DEF PutGivenUp
  <2> QED
    BY <1>1, <2>1, RetriedStepOwn
<1>8. CASE Put(r) /\ ~HoldsNothing(Piece(r))
  <2>1. todo # <<>> /\ raw' = raw \cup {Piece(r)}
    BY <1>8 DEF Put, Works
  <2>2. Piece(r) = todo[1] /\ 1 \in DOMAIN todo
    BY <1>2, <2>1, FirstOf DEF Piece
  <2>3. r \notin overlapped => ToUpload(run[r], raw)
    BY <1>1, <1>3, <2>1 DEF OwnState
  <2>4. \A d, stamp : InRaw(d, stamp, raw) => InRaw(d, stamp, raw')
    BY <1>1 DEF InRaw
  <2>5. CASE Piece(r)[1] = "data"
    <3> DEFINE next == Turned(run[r], PutOrder[2])
    <3>1. run' = [run EXCEPT ![r] = next]
      BY <1>8, <2>5 DEF Put, PutOrder
    <3>2. next.task = "upload" /\ next.own = own /\ SameTargets(next.todo, todo)
      BY <1>1, <1>2, <2>1, TurnedTargets, TurnedFields DEF Kept
    <3> HIDE DEF next
    <3>3. r \notin overlapped => ToUpload(next, raw')
      BY <2>3, <2>4, <3>2 DEF ToUpload, SameTargets
    <3>4. run'[r] = next
      BY <3>1, NextRun
    <3> QED
      BY <1>1, <1>4, <3>1, <3>2, <3>3, <3>4, OwnLocal
  <2>6. CASE Piece(r)[1] # "data"
    <3> DEFINE next == Advanced(run[r])
    <3>1. run' = [run EXCEPT ![r] = next]
      BY <1>8, <2>6 DEF Put, PutOrder
    <3>2. Moved(next, run[r])
      BY <1>1, <1>2, <2>1, AdvancedMoves
    <3> HIDE DEF next
    <3>3. /\ next.own = own
          /\ \/ next.task = "upload" /\ RestFacts(todo, next.todo)
             \/ next.task = "stage" /\ next.todo = <<>> /\ \A i \in DOMAIN todo : i = 1
      BY <1>1, <3>2, FollowingTask DEF Moved, Kept, FixedWork
    <3>4. InRaw(todo[1][2], todo[1][3], raw')
      <4>1. PICK stamps : todo \in Seq(Phases \X FileDatasets \X stamps)
        BY <1>1, RunState DEF UploadState, FileWork
      <4>2. todo[1] \in Phases \X FileDatasets \X stamps
        BY <2>1, <4>1
      <4>3. todo[1][1] = "metadata" /\ <<"data", todo[1][2], todo[1][3]>> \in raw
        BY <1>1, <2>1, <2>2, <2>6, RunState DEF UploadState
      <4>4. todo[1] = <<"metadata", todo[1][2], todo[1][3]>>
        BY <4>2, <4>3
      <4> QED
        BY <2>1, <2>2, <4>3, <4>4 DEF InRaw
    <3>5. ASSUME r \notin overlapped, NEW d \in FileSet, ~InRaw(d, own, raw')
          PROVE  /\ next.task = "upload"
                 /\ \E i \in DOMAIN next.todo : next.todo[i][2] = d /\ next.todo[i][3] = own
      <4>1. PICK i \in DOMAIN todo : todo[i][2] = d /\ todo[i][3] = own
        BY <2>3, <2>4, <3>5 DEF ToUpload
      <4>2. i # 1
        BY <3>4, <3>5, <4>1
      <4> QED
        BY <3>3, <4>1, <4>2 DEF RestFacts
    <3>6. r \notin overlapped => \/ next.task = "upload" /\ ToUpload(next, raw')
                                 \/ next.task = "stage" /\ next.todo = <<>> /\ Uploaded(own, raw')
      BY <3>3, <3>5 DEF ToUpload, Uploaded
    <3>7. run'[r] = next
      BY <3>1, NextRun
    <3> QED
      BY <1>1, <1>4, <3>1, <3>3, <3>6, <3>7, OwnLocal
  <2> QED
    BY <2>5, <2>6
<1> QED
  BY <1>5, <1>6, <1>7, <1>8

-----------------------------------------------------------------------------
(* stage_local_bronze: the newest files are copied, the accounts before    *)
(* the transactions, and the balances are derived from them at the end.    *)

StagingWork ==
  Append([i \in DOMAIN Datasets |-> <<"copy", Datasets[i], Latest(Datasets[i])>>],
         <<"derive", Balances, <<Latest("accounts"), Latest("transactions")>>>>)

(* What there is to stage: a copy per dataset, then the balances.          *)
LEMMA StagingWorkFacts ==
  /\ Sequence(StagingWork) /\ DOMAIN StagingWork = 1..(Len(Datasets) + 1)
  /\ \A i \in 1..Len(Datasets) :
       /\ StagingWork[i][1] = "copy" /\ StagingWork[i][2] = Datasets[i]
       /\ StagingWork[i][3] = Latest(Datasets[i])
  /\ StagingWork[Len(Datasets) + 1][1] = "derive"
  /\ StagingWork[Len(Datasets) + 1][2] = Balances
  /\ StagingWork[Len(Datasets) + 1][3] = <<Latest("accounts"), Latest("transactions")>>
<1> DEFINE copy(i) == <<"copy", Datasets[i], Latest(Datasets[i])>>
           copies == [i \in DOMAIN Datasets |-> copy(i)]
           derive == <<"derive", Balances, <<Latest("accounts"), Latest("transactions")>>>>
           n == Len(Datasets)
           All == {copy(i) : i \in 1..n} \cup {derive}
           work == Append(copies, derive)
<1>1. \A i \in 1..n : copy(i) \in All /\ derive \in All
  OBVIOUS
<1>2. \A i : copy(i)[1] = "copy" /\ copy(i)[2] = Datasets[i] /\ copy(i)[3] = Latest(Datasets[i])
  OBVIOUS
<1>3. /\ derive[1] = "derive" /\ derive[2] = Balances
      /\ derive[3] = <<Latest("accounts"), Latest("transactions")>>
  OBVIOUS
<1>4. derive \in All /\ StagingWork = work
  BY DEF StagingWork
<1> HIDE DEF copy, derive, All
<1>5. copies \in Seq(All) /\ Len(copies) = n /\ \A i \in 1..n : copies[i] = copy(i)
  BY <1>1, DatasetsFacts
<1> HIDE DEF copies
<1>6. /\ work \in Seq(All) /\ DOMAIN work = 1..(n + 1) /\ work[n + 1] = derive
      /\ \A i \in 1..n : work[i] = copy(i)
  BY <1>4, <1>5, DatasetsFacts
<1> HIDE DEF work
<1> QED
  BY <1>2, <1>3, <1>4, <1>6 DEF Sequence

(* It stages what it wrote, and the balances derived from it.              *)
LEMMA StagingOwn ==
  ASSUME DagInv, OwnInv, NEW r \in Runs, PlanStage(r) \/ StageFile(r)
  PROVE  OwnInv'
<1> DEFINE todo == run[r].todo
           own == run[r].own
<1>1. /\ run[r].task = "stage" /\ Active(r) /\ Shaped(run[r]) /\ StampInv
      /\ clock' = clock /\ files' = files /\ empty' = empty /\ lake' = lake /\ raw' = raw
      /\ overlapped' = overlapped
  BY RunState DEF PlanStage, StageFile, Begins, Works, Active, disk, OwnInv
<1>2. r \notin overlapped =>
        OwnState(run[r]) /\ Written(own) /\ own \notin empty /\ Uploaded(own, raw)
  BY <1>1 DEF OwnInv, OwnState
<1>3. ASSUME NEW next, run'[r] = next, next.own = own, r \notin overlapped,
             \/ next.task = "stage" /\ ToStage(next)
             \/ /\ next.task = "spark" /\ next.todo = FixedWork("spark")
                /\ next.staged = StagedBy(own)
      PROVE  OwnState(run[r])'
  <2>1. Written(run[r].own)' /\ run'[r].own \notin empty' /\ Uploaded(run[r].own, raw)'
    BY <1>1, <1>2, <1>3 DEF Written, Uploaded, InRaw
  <2>2. CASE next.task = "stage" /\ ToStage(next)
    <3>1. ToStage(run[r])'
      BY <1>3, <2>2 DEF ToStage, StagedBy, File, Sequence
    <3> QED
      BY <1>3, <2>1, <2>2, <3>1 DEF OwnState
  <2>3. CASE /\ next.task = "spark" /\ next.todo = FixedWork("spark")
             /\ next.staged = StagedBy(own)
    <3>1. ToBuild(run[r], GoldVersion)'
      BY <1>3, <2>3, SparkOrderFacts DEF ToBuild
    <3>2. run'[r].staged = (StagedBy(run[r].own))'
      BY <1>3, <2>3 DEF StagedBy
    <3> QED
      BY <1>3, <2>1, <2>3, <3>1, <3>2 DEF OwnState
  <2> QED
    BY <1>3, <2>2, <2>3
<1>4. CASE PlanStage(r) /\ \E i \in DOMAIN Datasets : Latest(Datasets[i]) = 0
  <2>1. run' = [run EXCEPT ![r] = Retried(run[r])]
    BY <1>4 DEF PlanStage
  <2> QED
    BY <1>1, <2>1, RetriedStepOwn
<1>5. CASE PlanStage(r) /\ ~\E i \in DOMAIN Datasets : Latest(Datasets[i]) = 0
  <2> DEFINE work == StagingWork
             next == [run[r] EXCEPT !.staged = {}, !.todo = work]
  <2>1. run' = [run EXCEPT ![r] = next]
    BY <1>5 DEF PlanStage, StagingWork
  <2> HIDE DEF work
  <2>2. next.task = "stage" /\ next.own = own /\ next.todo = work /\ next.staged = {}
    BY <1>1 DEF Shaped, Fields
  <2> HIDE DEF next
  <2>3. ASSUME r \notin overlapped PROVE ToStage(next)
    <3>1. \A d \in FileSet : Latest(d) = own
      BY <1>1, <1>2, <2>3, LatestOwn
    <3>2. /\ \A i \in 1..Len(Datasets) : File(work[i]) = <<Datasets[i], own>>
          /\ File(work[Len(Datasets) + 1]) = <<Balances, <<own, own>>>>
          /\ DOMAIN work = 1..(Len(Datasets) + 1) /\ Sequence(work)
      BY <3>1, StagingWorkFacts, DatasetsFacts DEF File, work
    <3>3. \A i \in DOMAIN work : i \in 1..Len(Datasets) \/ i = Len(Datasets) + 1
      BY <3>2, DatasetsFacts
    <3>4. \A i \in 1..Len(Datasets) : i \in DOMAIN work
      BY <3>2, DatasetsFacts
    <3>5. Len(Datasets) + 1 \in DOMAIN work
      BY <3>2, DatasetsFacts
    <3>6. \A i \in DOMAIN work : File(work[i]) \in StagedBy(own)
      BY <3>2, <3>3, DatasetsFacts DEF StagedBy
    <3>7. ASSUME NEW f \in StagedBy(own) PROVE \E i \in DOMAIN work : File(work[i]) = f
      <4>1. CASE f = <<Balances, <<own, own>>>>
        BY <3>2, <3>5, <4>1
      <4>2. CASE \E d \in FileSet : f = <<d, own>>
        BY <3>2, <3>4, <4>2, DatasetsFacts
      <4> QED
        BY <3>7, <4>1, <4>2 DEF StagedBy
    <3> QED
      BY <2>2, <3>2, <3>6, <3>7 DEF ToStage
  <2>4. run'[r] = next
    BY <2>1, NextRun
  <2> QED
    BY <1>1, <1>3, <2>1, <2>2, <2>3, <2>4, OwnLocal
<1>6. CASE StageFile(r)
  <2> DEFINE file == <<Piece(r)[2], Piece(r)[3]>>
             staged == run[r].staged \cup {file}
             state == [run[r] EXCEPT !.staged = staged]
             next == Advanced(state)
  <2>1. run' = [run EXCEPT ![r] = next] /\ todo # <<>>
    BY <1>6 DEF StageFile, Works
  <2> HIDE DEF file, staged
  <2>2. Shaped(state) /\ state.task = "stage" /\ state.own = own /\ state.todo = todo
        /\ state.staged = staged
    BY <1>1 DEF Shaped, Fields
  <2> HIDE DEF state
  <2>3. next.task \in {"stage", "spark"} /\ next.own = own
    BY <2>2, AdvancedFields, FollowingTask DEF Kept
  <2>4. Sequence(todo) => Moved(next, state)
    BY <2>1, <2>2, AdvancedMoves
  <2> HIDE DEF next
  <2>5. ASSUME r \notin overlapped
        PROVE  \/ next.task = "stage" /\ ToStage(next)
               \/ /\ next.task = "spark" /\ next.todo = FixedWork("spark")
                  /\ next.staged = StagedBy(own)
    <3>1. ToStage(run[r])
      BY <1>1, <1>2, <2>1, <2>5 DEF OwnState
    <3>2. Moved(next, state) /\ Sequence(todo)
      BY <2>4, <3>1 DEF ToStage
    <3>3. file = File(todo[1]) /\ 1 \in DOMAIN todo
      BY <2>1, <3>2, FirstOf DEF Piece, File, file
    <3>4. next.staged = run[r].staged \cup {file}
      BY <2>2, <3>2 DEF Moved, Kept, staged
    <3>5. next.staged \subseteq StagedBy(own)
      BY <3>1, <3>3, <3>4 DEF ToStage
    <3>6. ASSUME NEW f \in StagedBy(own), f \notin next.staged
          PROVE  \E i \in DOMAIN todo : i # 1 /\ File(todo[i]) = f
      <4>1. f \notin run[r].staged /\ f # file
        BY <3>4, <3>6
      <4> QED
        BY <3>1, <3>3, <4>1 DEF ToStage
    <3>7. CASE /\ next.task = "stage" /\ Sequence(next.todo)
               /\ RestFacts(todo, next.todo)
      <4>1. \A i \in DOMAIN next.todo : File(next.todo[i]) \in StagedBy(own)
        BY <3>1, <3>7 DEF ToStage, RestFacts
      <4>2. \A f \in StagedBy(own) :
              f \in next.staged \/ \E i \in DOMAIN next.todo : File(next.todo[i]) = f
        BY <3>6, <3>7 DEF RestFacts
      <4> QED
        BY <2>3, <3>5, <3>7, <4>1, <4>2 DEF ToStage
    <3>8. CASE /\ next.task = "spark" /\ next.todo = FixedWork("spark")
               /\ \A i \in DOMAIN todo : i = 1
      BY <3>5, <3>6, <3>8
    <3> QED
      BY <2>2, <3>2, <3>7, <3>8, FollowingTask DEF Moved
  <2>6. run'[r] = next
    BY <2>1, NextRun
  <2> QED
    BY <1>1, <1>3, <2>1, <2>3, <2>5, <2>6, OwnLocal
<1> QED
  BY <1>4, <1>5, <1>6

-----------------------------------------------------------------------------
(* run_spark_batch: a commit replaces one table and leaves the others.     *)

(* An overwrite changes one table of one layer.                            *)
LEMMA OneTableWritten ==
  ASSUME LakeTypes, NEW layer \in LayerSet, NEW table \in TableSet, NEW rows,
         WriteDelta(layer, table, rows)
  PROVE  /\ lake'[layer][table].version = lake[layer][table].version + 1
         /\ lake'[layer][table].of = rows
         /\ \A l \in LayerSet, t \in TableSet :
              ~(l = layer /\ t = table) => lake'[l][t] = lake[l][t]
<1> DEFINE new == [version |-> lake[layer][table].version + 1, of |-> rows]
<1>1. lake' = [lake EXCEPT ![layer][table] = new]
  BY DEF WriteDelta
<1>2. lake = [l \in LayerSet |-> lake[l]] /\ \A l \in LayerSet : lake[l] = [t \in TableSet |-> lake[l][t]]
  BY DEF LakeTypes
<1>3. new.version = lake[layer][table].version + 1 /\ new.of = rows
  OBVIOUS
<1> HIDE DEF new
<1>4. \A l \in LayerSet, t \in TableSet :
        lake'[l][t] = IF l = layer /\ t = table THEN new ELSE lake[l][t]
  BY <1>1, <1>2
<1> QED
  BY <1>3, <1>4

Frame(state, layer, table) == IF layer = Layers[1] THEN FrameOf(table) ELSE state.frame

(* The step of a run that writes the first table of its work.              *)
TableWritten(next, state) ==
  LET layer == state.todo[1][1]
      table == state.todo[1][2]
  IN
  /\ next.own = state.own /\ next.staged = state.staged
  /\ layer \in LayerSet /\ table \in TableSet
  /\ IF layer = "gold" /\ table = "transactions" THEN next.wrote = GoldVersion'
     ELSE next.wrote = state.wrote /\ GoldVersion' = GoldVersion
  /\ IF layer = "gold"
     THEN \/ /\ next.task = "spark" /\ RestFacts(state.todo, next.todo)
             /\ RestOrder(state.todo, next.todo)
          \/ /\ next.task = "publish" /\ \A i \in DOMAIN state.todo : i = 1
     ELSE /\ next.task = "spark" /\ SameTargets(next.todo, state.todo)
          /\ next.frame = Frame(state, layer, table)
  /\ \A t \in TableSet : layer # "gold" \/ t # table =>
       lake'["gold"][t].of = lake["gold"][t].of
  /\ layer = "gold" /\ table # "customers" =>
       lake'["gold"][table].of = Frame(state, layer, table)

(* What one step of Spark makes of the run.                                *)
LEMMA WriteTableFacts ==
  ASSUME DagInv, LakeInv, NEW r \in Runs, WriteTable(r)
  PROVE  \E next : run' = [run EXCEPT ![r] = next] /\ TableWritten(next, run[r])
<1> DEFINE todo == run[r].todo
           layer == Piece(r)[1]
           table == Piece(r)[2]
           frame == Frame(run[r], layer, table)
           wrote == IF <<layer, table>> = <<"gold", "transactions">>
                    THEN lake[layer][table].version + 1 ELSE run[r].wrote
           state == [run[r] EXCEPT !.frame = frame, !.wrote = wrote]
           next == IF layer = "gold" THEN Advanced(state) ELSE Turned(state, "gold")
<1>1. run[r].task = "spark" /\ todo # <<>> /\ run' = [run EXCEPT ![r] = next]
  BY DEF WriteTable, Works, Frame
<1>2. PICK rows \in Deduplications(table, frame) : WriteDelta(layer, table, rows)
  BY DEF WriteTable, Frame
<1>3. todo \in Seq(SparkPieces) /\ Sequence(todo)
  BY <1>1 DEF LakeInv, SparkState, Sequence
<1>4. Piece(r) = todo[1] /\ todo[1] \in SparkPieces
  <2> HIDE DEF todo
  <2>1. 1 \in DOMAIN todo /\ Head(todo) = todo[1]
    BY <1>1, <1>3, FirstOf
  <2>2. todo[1] \in SparkPieces
    BY <1>3, <2>1
  <2> QED
    BY <2>1, <2>2 DEF Piece, todo
<1>5. layer = todo[1][1] /\ table = todo[1][2] /\ layer \in LayerSet /\ table \in TableSet
  BY <1>4 DEF SparkPieces
<1>6. "gold" \in LayerSet /\ "transactions" \in TableSet
  BY LayersFacts, TablesFacts
<1>7. /\ IF layer = "gold" /\ table = "transactions" THEN wrote = GoldVersion'
         ELSE wrote = run[r].wrote /\ GoldVersion' = GoldVersion
      /\ \A t \in TableSet : layer # "gold" \/ t # table =>
           lake'["gold"][t].of = lake["gold"][t].of
      /\ layer = "gold" /\ table # "customers" => lake'["gold"][table].of = frame
  <2>1. LakeTypes
    BY DEF LakeInv
  <2>2. /\ lake'[layer][table].version = lake[layer][table].version + 1
        /\ lake'[layer][table].of = rows
        /\ \A l \in LayerSet, t \in TableSet :
             ~(l = layer /\ t = table) => lake'[l][t] = lake[l][t]
    BY <1>2, <1>5, <2>1, OneTableWritten
  <2>3. table # "customers" => rows = frame
    BY <1>2 DEF Deduplications
  <2> QED
    BY <1>5, <1>6, <2>2, <2>3 DEF GoldVersion
<1> HIDE DEF frame, wrote
<1>8. /\ Shaped(state) /\ state.task = "spark" /\ state.todo = todo /\ state.wrote = wrote
      /\ state.own = run[r].own /\ state.staged = run[r].staged
      /\ state.frame = frame
  BY <1>1, RunState DEF Shaped, Fields
<1> HIDE DEF state
<1>9. Kept(next, state)
  BY <1>8, AdvancedFields, TurnedFields
<1>10. IF layer = "gold"
       THEN \/ /\ next.task = "spark" /\ RestFacts(todo, next.todo)
               /\ RestOrder(todo, next.todo)
            \/ /\ next.task = "publish" /\ \A i \in DOMAIN todo : i = 1
       ELSE next.task = "spark" /\ SameTargets(next.todo, todo) /\ next.frame = frame
  <2>1. CASE layer = "gold"
    <3>1. Moved(next, state)
      BY <1>1, <1>3, <1>8, <2>1, AdvancedMoves
    <3> QED
      BY <1>8, <2>1, <3>1, FollowingTask DEF Moved
  <2>2. CASE layer # "gold"
    BY <1>1, <1>3, <1>8, <2>2, TurnedTargets, TurnedFields
  <2> QED
    BY <2>1, <2>2
<1> HIDE DEF next
<1>11. TableWritten(next, run[r])
  BY <1>5, <1>7, <1>8, <1>9, <1>10 DEF TableWritten, Kept, frame
<1> QED
  BY <1>1, <1>11

(* Spark writes every table from what is staged, the run's own included.   *)
LEMMA SparkOwn ==
  ASSUME DagInv, LakeInv, OwnInv, NEW r \in Runs, WriteTable(r)
  PROVE  OwnInv'
<1> DEFINE todo == run[r].todo
           own == run[r].own
<1>1. /\ run[r].task = "spark" /\ Active(r) /\ todo # <<>>
      /\ clock' = clock /\ files' = files /\ empty' = empty /\ raw' = raw
      /\ overlapped' = overlapped
  BY DEF WriteTable, Works, Active
<1>2. PICK next : run' = [run EXCEPT ![r] = next] /\ TableWritten(next, run[r])
  BY WriteTableFacts
<1>3. run'[r] = next /\ next.own = own /\ next.task \in {"spark", "publish"}
  BY <1>2, NextRun DEF TableWritten
<1>4. ASSUME r \notin overlapped PROVE OwnState(run[r])'
  <2>1. /\ OwnState(run[r]) /\ Written(own) /\ own \notin empty /\ Uploaded(own, raw)
        /\ run[r].staged = StagedBy(own) /\ ToBuild(run[r], GoldVersion)
    BY <1>1, <1>4 DEF OwnInv, OwnState
  <2>2. /\ Written(run[r].own)' /\ run'[r].own \notin empty' /\ Uploaded(run[r].own, raw)'
        /\ run'[r].staged = (StagedBy(run[r].own))'
    BY <1>1, <1>2, <1>3, <2>1 DEF Written, Uploaded, InRaw, StagedBy, TableWritten
  <2>3. \/ next.wrote = GoldVersion'
        \/ /\ next.task = "spark"
           /\ \E i \in DOMAIN next.todo : next.todo[i][2] = "transactions"
    <3>1. CASE todo[1][1] = "gold" /\ todo[1][2] = "transactions"
      BY <1>2, <3>1 DEF TableWritten
    <3>2. CASE /\ ~(todo[1][1] = "gold" /\ todo[1][2] = "transactions")
               /\ run[r].wrote = GoldVersion
      BY <1>2, <3>2 DEF TableWritten
    <3>3. CASE /\ ~(todo[1][1] = "gold" /\ todo[1][2] = "transactions")
               /\ \E i \in DOMAIN todo : todo[i][2] = "transactions"
      <4>1. PICK i \in DOMAIN todo : todo[i][2] = "transactions"
        BY <3>3
      <4>2. CASE todo[1][1] = "gold"
        <5>1. i # 1
          BY <3>3, <4>1, <4>2
        <5> QED
          BY <1>2, <4>1, <4>2, <5>1 DEF TableWritten, RestFacts
      <4>3. CASE todo[1][1] # "gold"
        BY <1>2, <4>1, <4>3 DEF TableWritten, SameTargets
      <4> QED
        BY <4>2, <4>3
    <3> QED
      BY <2>1, <3>1, <3>2, <3>3 DEF ToBuild
  <2>4. next.task = "spark" => ToBuild(run[r], GoldVersion)'
    BY <1>3, <2>3 DEF ToBuild
  <2> QED
    BY <1>3, <2>2, <2>3, <2>4 DEF OwnState
<1> QED
  BY <1>1, <1>2, <1>3, <1>4, OwnLocal

-----------------------------------------------------------------------------
(* publish_curated_batch changes nothing of this, and generate_run_report  *)
(* finds the run's own files and tables.                                   *)

(* A step of the publisher leaves what is the run's own in the lake.       *)
LEMMA PublishStepOwn ==
  ASSUME DagInv, OwnInv, NEW r \in Runs, run[r].task = "publish",
         NEW next, run' = [run EXCEPT ![r] = next], Kept(next, run[r]),
         next.task \in {"publish", "report"},
         overlapped' = overlapped, clock' = clock, files' = files, empty' = empty, lake' = lake,
         raw' = raw
  PROVE  OwnInv'
<1>1. Active(r) /\ run'[r] = next /\ next.own = run[r].own
  BY NextRun DEF Active, Kept
<1>2. ASSUME r \notin overlapped PROVE OwnState(run[r])'
  <2>1. /\ Written(run[r].own) /\ run[r].own \notin empty /\ Uploaded(run[r].own, raw)
        /\ run[r].staged = StagedBy(run[r].own) /\ run[r].wrote = GoldVersion
    BY <1>2 DEF OwnInv, OwnState
  <2>2. /\ Written(run[r].own)' /\ run'[r].own \notin empty' /\ Uploaded(run[r].own, raw)'
        /\ run'[r].staged = (StagedBy(run[r].own))' /\ run'[r].wrote = GoldVersion'
    BY <1>1, <2>1 DEF Written, Uploaded, InRaw, StagedBy, GoldVersion, Kept
  <2> QED
    BY <1>1, <2>2 DEF OwnState
<1>3. next.task \notin {"none", "extract"} /\ raw \subseteq raw'
  OBVIOUS
<1> QED
  BY <1>1, <1>2, <1>3, OwnLocal

(* So do the listings and the uploads.                                     *)
LEMMA PublishOwn ==
  ASSUME DagInv, OwnInv, NEW r \in Runs, ListFirst(r) \/ ListSecond(r) \/ UploadFiles(r)
  PROVE  OwnInv'
<1>1. /\ run[r].task = "publish" /\ Shaped(run[r]) /\ overlapped' = overlapped
      /\ clock' = clock /\ files' = files /\ empty' = empty /\ lake' = lake /\ raw' = raw
  BY RunState DEF ListFirst, ListSecond, UploadFiles, Works, disk
<1>2. CASE ListFirst(r)
  <2> DEFINE now == Versions(Piece(r)[2])
             state == [run[r] EXCEPT !.seen = [log |-> now, data |-> now]]
             next == Turned(state, "list on")
  <2>1. run' = [run EXCEPT ![r] = next]
    BY <1>2 DEF ListFirst
  <2> HIDE DEF now
  <2>2. Shaped(state) /\ state.task = "publish" /\ Kept(state, run[r])
    BY <1>1 DEF Shaped, Fields, Kept
  <2> HIDE DEF state
  <2>3. next.task = "publish" /\ Kept(next, run[r])
    BY ZenonT(30), <2>2, TurnedFacts, TurnedFields DEF Kept
  <2> HIDE DEF next
  <2> QED
    BY <1>1, <2>1, <2>3, PublishStepOwn
<1>3. CASE ListSecond(r)
  <2> DEFINE found(part) == [run[r].seen EXCEPT ![part] = Versions(Piece(r)[2])]
             work == LogsOf(Piece(r)[2]) \o Tail(run[r].todo)
             next(part) == [run[r] EXCEPT !.seen = found(part), !.todo = work]
  <2>1. PICK part \in {"log", "data"} : run' = [run EXCEPT ![r] = next(part)]
    BY <1>3 DEF ListSecond, LogsOf
  <2> HIDE DEF found, work
  <2>2. next(part).task = "publish" /\ Kept(next(part), run[r])
    BY <1>1 DEF Shaped, Fields, Kept
  <2> HIDE DEF next
  <2> QED
    BY <1>1, <2>1, <2>2, PublishStepOwn
<1>4. CASE UploadFiles(r)
  <2> DEFINE next == IF Piece(r)[1] = "log" THEN Turned(run[r], "data") ELSE Advanced(run[r])
  <2>1. run' = [run EXCEPT ![r] = next]
    BY <1>4 DEF UploadFiles
  <2>2. next.task \in {"publish", "report"} /\ Kept(next, run[r])
    BY <1>1, TurnedFacts, TurnedFields, AdvancedFields, FollowingTask
  <2> HIDE DEF next
  <2> QED
    BY <1>1, <2>1, <2>2, PublishStepOwn
<1> QED
  BY <1>2, <1>3, <1>4

(* The run reports on the extraction it made.                              *)
LEMMA ReportOwn ==
  ASSUME DagInv, OwnInv, NEW r \in Runs, Report(r)
  PROVE  OwnInv'
<1> DEFINE found == [accounts |-> Latest("accounts"), transactions |-> Latest("transactions"),
                     fact_transaction |-> GoldVersion]
           state == [run[r] EXCEPT !.report = found]
           next == Finished(state)
<1>1. /\ run' = [run EXCEPT ![r] = next] /\ run[r].task = "report" /\ Active(r)
      /\ overlapped' = overlapped /\ clock' = clock /\ files' = files /\ empty' = empty
      /\ lake' = lake /\ raw' = raw
  BY DEF Report, Begins, disk, Active, GoldVersion
<1> HIDE DEF found
<1>2. /\ Shaped(state) /\ state.task = "report" /\ state.report = found
      /\ state.own = run[r].own /\ state.wrote = run[r].wrote /\ state.staged = run[r].staged
  BY <1>1, RunState DEF Shaped, Fields
<1> HIDE DEF state
<1>3. /\ next.task = "done" /\ next.report = found
      /\ next.own = run[r].own /\ next.wrote = run[r].wrote /\ next.staged = run[r].staged
  BY <1>2, FinishedFields, FollowingTask DEF Kept
<1> HIDE DEF next
<1>4. run'[r] = next
  BY <1>1, NextRun
<1>5. ASSUME r \notin overlapped PROVE OwnState(run[r])'
  <2>1. /\ Written(run[r].own) /\ run[r].own \notin empty /\ Uploaded(run[r].own, raw)
        /\ run[r].staged = StagedBy(run[r].own) /\ run[r].wrote = GoldVersion /\ StampInv
    BY <1>1, <1>5 DEF OwnInv, OwnState
  <2>2. Latest("accounts") = run[r].own /\ Latest("transactions") = run[r].own
    BY <2>1, LatestOwn, DatasetsFacts
  <2>3. found = ReportOf(run[r])
    BY <2>1, <2>2 DEF found, ReportOf
  <2>4. /\ run'[r].own \notin empty' /\ Uploaded(run[r].own, raw)'
        /\ run'[r].staged = (StagedBy(run[r].own))' /\ run'[r].report = (ReportOf(run[r]))'
    BY <1>1, <1>3, <1>4, <2>1, <2>3 DEF Uploaded, InRaw, StagedBy, ReportOf
  <2> QED
    BY <1>3, <1>4, <2>4 DEF OwnState
<1> QED
  BY <1>1, <1>3, <1>4, <1>5, OwnLocal

-----------------------------------------------------------------------------
(* The invariant holds before the first run.                               *)
LEMMA InitOwnInv == Init => OwnInv
<1> SUFFICES ASSUME Init PROVE OwnInv
  OBVIOUS
<1>1. clock = 0 /\ files = {} /\ \A r \in Runs : run[r] = Idle
  BY DEF Init
<1>2. StampInv
  BY <1>1 DEF StampInv
<1>3. ASSUME NEW r \in Runs PROVE Stamped(r) /\ OwnState(run[r])
  BY <1>1 DEF Stamped, OwnState, Idle
<1> QED
  BY <1>2, <1>3 DEF OwnInv

(* Every step keeps it.                                                    *)
LEMMA OwnInvKept == DagInv /\ LakeInv /\ OwnInv /\ [Next]_vars => OwnInv'
<1> SUFFICES ASSUME DagInv, LakeInv, OwnInv, [Next]_vars PROVE OwnInv'
  OBVIOUS
<1>1. ASSUME NEW r \in Runs, StartRun(r) PROVE OwnInv'
  BY <1>1, StartOwn
<1>2. ASSUME NEW r \in Runs, Work(r) PROVE OwnInv'
  BY <1>2, ExtractOwn, WriteFileOwn, ValidationOwn, UploadOwn, StagingOwn, SparkOwn, PublishOwn,
     ReportOwn DEF Work
<1>3. ASSUME NEW r \in Runs, PutGivenUp(r) PROVE OwnInv'
  BY <1>3, UploadOwn
<1>4. ASSUME NEW r \in Runs, TaskKilled(r) PROVE OwnInv'
  BY <1>4, KilledOwn
<1>5. CASE UNCHANGED vars
  BY <1>5 DEF vars, disk, OwnInv, StampInv, Stamped, OwnState, Written, ToWrite, ToValidate,
     Uploaded, InRaw, ToUpload, ToStage, StagedBy, File, ToBuild, GoldVersion, ReportOf
<1> QED
  BY <1>1, <1>2, <1>3, <1>4, <1>5 DEF Next

(* A run that no other overlaps carries its own extraction through every   *)
(* task, however often a task was killed, refused or late: what it stages  *)
(* and reports is what the last try of its extract task wrote, whole.      *)
THEOREM OwnExtractionCorrect == Spec => []OwnExtractionThrough
<1>1. OwnInv => OwnExtractionThrough
  <2> SUFFICES ASSUME OwnInv, NEW r \in Runs \ overlapped,
                      run[r].task \in {"spark", "publish", "report", "done"}
               PROVE  LET own == {<<d, run[r].own>> : d \in Range(Datasets)} IN
                        /\ run[r].staged = own \cup {<<Balances, <<run[r].own, run[r].own>>>>}
                        /\ run[r].own \notin empty
                        /\ \A f \in own : \A kind \in {"data", "metadata"} :
                             <<kind, f[1], f[2]>> \in raw
                        /\ run[r].task = "done" =>
                             run[r].report = [accounts |-> run[r].own,
                                              transactions |-> run[r].own,
                                              fact_transaction |-> run[r].wrote]
    BY DEF OwnExtractionThrough
  <2>1. OwnState(run[r])
    BY DEF OwnInv
  <2> QED
    BY <2>1 DEF OwnState, StagedBy, Uploaded, InRaw, ReportOf, FileSet
<1>2. Init => DagInv /\ LakeInv /\ OwnInv
  BY InitDagInv, InitLakeInv, InitOwnInv
<1>3. DagInv /\ LakeInv /\ OwnInv /\ [Next]_vars => DagInv' /\ LakeInv' /\ OwnInv'
  BY DagInvKept, LakeInvKept, OwnInvKept
<1> QED
  BY <1>1, <1>2, <1>3, PTL DEF Spec

-----------------------------------------------------------------------------
(* What the facts rest on: wherever accounts, transactions and balances    *)
(* are staged or written one after the other, the accounts are first.      *)

NeedAccounts == {"transactions", Balances}

GoldOf(table) == lake["gold"][table].of

StagingOrder(state) ==
  state.task = "stage" =>
    \A j \in DOMAIN state.todo : state.todo[j][2] \in NeedAccounts =>
      \/ state.own \in FrameOf("accounts")
      \/ \E i \in DOMAIN state.todo : i < j /\ state.todo[i][2] = "accounts"

(* A table that is not the first layer's is built from the files listed    *)
(* for the first layer.                                                    *)
WritingOrder(state) ==
  state.task = "spark" =>
    /\ \A j \in DOMAIN state.todo : state.todo[j][2] \in NeedAccounts =>
         \/ GoldOf("accounts") = FrameOf("accounts")
         \/ \E i \in DOMAIN state.todo : i < j /\ state.todo[i][2] = "accounts"
    /\ \A i \in DOMAIN state.todo : state.todo[i][1] # Layers[1] =>
         i = 1 /\ state.frame = FrameOf(state.todo[i][2])

Explained(transactions, balances, accounts) ==
  transactions \subseteq accounts /\ \A pair \in balances : pair[1] \in accounts

FactsInv ==
  overlapped = {} =>
    /\ Explained(FrameOf("transactions"), FrameOf(Balances), FrameOf("accounts"))
    /\ GoldOf("accounts") \subseteq FrameOf("accounts")
    /\ Explained(GoldOf("transactions"), GoldOf(Balances), GoldOf("accounts"))
    /\ \A r \in Runs : StagingOrder(run[r]) /\ WritingOrder(run[r])

(* Neither staging nor writing, or about to begin.                         *)
Fresh(state) == state.task \in {"stage", "spark"} => state.todo = FixedWork(state.task)

(* A task that has not begun has nothing out of order.                     *)
LEMMA FreshOrder ==
  ASSUME NEW state, Fresh(state)
  PROVE  StagingOrder(state) /\ WritingOrder(state)
<1>1. StagingOrder(state)
  <2>1. state.task = "stage" => state.todo = <<>>
    BY DEF Fresh, FixedWork
  <2> QED
    BY <2>1 DEF StagingOrder
<1>2. WritingOrder(state)
  <2>1. state.task = "spark" => state.todo = FixedWork("spark")
    BY DEF Fresh
  <2> QED
    BY <2>1, SparkOrderFacts DEF WritingOrder, NeedAccounts
<1> QED
  BY <1>1, <1>2

(* Outside staging and Spark a run has nothing out of order.               *)
LEMMA MovedFresh ==
  ASSUME NEW state, Shaped(state), NEW phase
  PROVE  /\ Fresh(Retried(state))
         /\ state.task \notin {"stage", "spark"} =>
              Fresh(Advanced(state)) /\ Fresh(Turned(state, phase))
<1>1. Fresh(Retried(state))
  BY RetriedFields DEF Fresh
<1>2. ASSUME state.task \notin {"stage", "spark"}
      PROVE  Fresh(Advanced(state)) /\ Fresh(Turned(state, phase))
  BY <1>2, AdvancedFields, TurnedFacts DEF Fresh
<1> QED
  BY <1>1, <1>2

(* Steps that leave the files staged and the lake alone.                   *)
LEMMA FactsStand ==
  ASSUME DagInv, FactsInv, NEW r \in Runs, NEW next, run' = [run EXCEPT ![r] = next],
         bronze' = bronze, lake' = lake, overlapped' = {} => overlapped = {},
         StagingOrder(next) /\ WritingOrder(next)
  PROVE  FactsInv'
<1>1. run'[r] = next /\ \A q \in Runs \ {r} : run'[q] = run[q]
  BY NextRun
<1>2. \A table : (FrameOf(table))' = FrameOf(table)
  BY DEF FrameOf
<1> SUFFICES ASSUME overlapped = {}
             PROVE  /\ Explained(FrameOf("transactions"), FrameOf(Balances), FrameOf("accounts"))'
                    /\ (GoldOf("accounts") \subseteq FrameOf("accounts"))'
                    /\ Explained(GoldOf("transactions"), GoldOf(Balances), GoldOf("accounts"))'
                    /\ \A q \in Runs : StagingOrder(run[q])' /\ WritingOrder(run[q])'
  BY DEF FactsInv
<1>3. /\ Explained(FrameOf("transactions"), FrameOf(Balances), FrameOf("accounts"))'
      /\ (GoldOf("accounts") \subseteq FrameOf("accounts"))'
      /\ Explained(GoldOf("transactions"), GoldOf(Balances), GoldOf("accounts"))'
  BY DEF FactsInv, Explained, FrameOf, GoldOf
<1>4. ASSUME NEW q \in Runs PROVE StagingOrder(run[q])' /\ WritingOrder(run[q])'
  <2>1. PICK state : run'[q] = state /\ StagingOrder(state) /\ WritingOrder(state)
    BY <1>1 DEF FactsInv
  <2> QED
    BY <1>2, <2>1 DEF StagingOrder, WritingOrder, GoldOf
<1> QED
  BY <1>3, <1>4

(* Steps that leave bronze and the lake alone.                             *)
LEMMA FreshFacts ==
  ASSUME DagInv, FactsInv, NEW r \in Runs, NEW next, run' = [run EXCEPT ![r] = next],
         bronze' = bronze, lake' = lake, overlapped' = {} => overlapped = {}, Fresh(next)
  PROVE  FactsInv'
<1>1. StagingOrder(next) /\ WritingOrder(next)
  BY FreshOrder
<1> QED
  BY <1>1, FactsStand

(* Starts and kills,                                                       *)
LEMMA RunsFacts ==
  ASSUME DagInv, FactsInv, NEW r \in Runs, StartRun(r) \/ TaskKilled(r)
  PROVE  FactsInv'
<1>1. bronze' = bronze /\ lake' = lake /\ (overlapped' = {} => overlapped = {}) /\ Shaped(run[r])
  BY RunState DEF StartRun, TaskKilled, disk
<1>2. CASE StartRun(r)
  <2> DEFINE next == [run[r] EXCEPT !.task = "extract", !.attempt = 1]
  <2>1. run' = [run EXCEPT ![r] = next]
    BY <1>2 DEF StartRun
  <2>2. Fresh(next)
    BY <1>1 DEF Shaped, Fields, Fresh
  <2> HIDE DEF next
  <2> QED
    BY <1>1, <2>1, <2>2, FreshFacts
<1>3. CASE TaskKilled(r)
  BY <1>1, <1>3, MovedFresh, FreshFacts DEF TaskKilled
<1> QED
  BY <1>2, <1>3

(* the extraction,                                                         *)
LEMMA ExtractionFacts ==
  ASSUME DagInv, FactsInv, NEW r \in Runs, Extract(r) \/ WriteFile(r)
  PROVE  FactsInv'
<1>1. /\ run[r].task = "extract" /\ Shaped(run[r])
      /\ bronze' = bronze /\ lake' = lake /\ overlapped' = overlapped
  BY RunState DEF Extract, WriteFile, Begins, Works
<1>2. CASE Extract(r)
  <2> DEFINE work == [i \in DOMAIN Datasets |-> <<"write", Datasets[i], clock'>>]
             next == [run[r] EXCEPT !.own = clock', !.todo = work]
  <2>1. run' = [run EXCEPT ![r] = next]
    BY <1>2 DEF Extract
  <2> HIDE DEF work
  <2>2. next.task = "extract"
    BY <1>1 DEF Shaped, Fields
  <2> HIDE DEF next
  <2> QED
    BY <1>1, <2>1, <2>2, FreshFacts DEF Fresh
<1>3. CASE WriteFile(r)
  <2>1. Fresh(Advanced(run[r]))
    BY <1>1, MovedFresh
  <2> QED
    BY <1>1, <1>3, <2>1, FreshFacts DEF WriteFile
<1> QED
  BY <1>2, <1>3

(* validation,                                                             *)
LEMMA ValidationFacts ==
  ASSUME DagInv, FactsInv, NEW r \in Runs,
         PlanValidation(r) \/ ClearSuite(r) \/ AddSuiteAndRun(r)
  PROVE  FactsInv'
<1>1. /\ run[r].task = "validate" /\ Shaped(run[r])
      /\ bronze' = bronze /\ lake' = lake /\ overlapped' = overlapped
  BY RunState DEF PlanValidation, ClearSuite, AddSuiteAndRun, Planned, Begins, Works, disk
<1>2. /\ Fresh(Retried(run[r])) /\ Fresh(Advanced(run[r])) /\ Fresh(Turned(run[r], "add"))
      /\ Shaped(Retried(run[r]))
  BY <1>1, MovedFresh, RetriedFacts
<1>3. CASE PlanValidation(r)
  <2> DEFINE work == Discovered("clear")
             next == [run[r] EXCEPT !.todo = work]
  <2>1. run' = [run EXCEPT ![r] = next]
    BY <1>3 DEF PlanValidation, Planned
  <2> HIDE DEF work
  <2>2. next.task = "validate"
    BY <1>1 DEF Shaped, Fields
  <2> HIDE DEF next
  <2> QED
    BY <1>1, <2>1, <2>2, FreshFacts DEF Fresh
<1>4. CASE ClearSuite(r)
  BY <1>1, <1>2, <1>4, FreshFacts DEF ClearSuite
<1>5. CASE AddSuiteAndRun(r)
  <2> DEFINE again == Retried(run[r])
             clashed == [again EXCEPT !.clashed = TRUE]
  <2>1. \/ run' = [run EXCEPT ![r] = clashed]
        \/ run' = [run EXCEPT ![r] = again]
        \/ run' = [run EXCEPT ![r] = Advanced(run[r])]
    BY <1>5 DEF AddSuiteAndRun
  <2> HIDE DEF again
  <2>2. clashed.task = again.task /\ clashed.todo = again.todo
    BY <1>2 DEF Shaped, Fields, again
  <2> HIDE DEF clashed
  <2>3. Fresh(clashed) /\ Fresh(again)
    BY <1>2, <2>2 DEF Fresh, again
  <2> QED
    BY <1>1, <1>2, <2>1, <2>3, FreshFacts
<1> QED
  BY <1>3, <1>4, <1>5

(* the upload,                                                             *)
LEMMA UploadFacts ==
  ASSUME DagInv, FactsInv, NEW r \in Runs, PlanUpload(r) \/ Put(r) \/ PutGivenUp(r)
  PROVE  FactsInv'
<1>1. /\ run[r].task = "upload" /\ Shaped(run[r])
      /\ bronze' = bronze /\ lake' = lake /\ overlapped' = overlapped
  BY RunState DEF PlanUpload, Put, PutGivenUp, Planned, Begins, Works, disk
<1>2. /\ Fresh(Retried(run[r])) /\ Fresh(Advanced(run[r])) /\ Fresh(Turned(run[r], PutOrder[2]))
  BY <1>1, MovedFresh
<1>3. CASE PlanUpload(r)
  <2> DEFINE work == Discovered(PutOrder[1])
             next == [run[r] EXCEPT !.todo = work]
  <2>1. run' = [run EXCEPT ![r] = next]
    BY <1>3 DEF PlanUpload, Planned
  <2> HIDE DEF work
  <2>2. next.task = "upload"
    BY <1>1 DEF Shaped, Fields
  <2> HIDE DEF next
  <2> QED
    BY <1>1, <2>1, <2>2, FreshFacts DEF Fresh
<1>4. CASE Put(r) \/ PutGivenUp(r)
  <2>1. \/ run' = [run EXCEPT ![r] = Retried(run[r])]
        \/ run' = [run EXCEPT ![r] = Turned(run[r], PutOrder[2])]
        \/ run' = [run EXCEPT ![r] = Advanced(run[r])]
    BY <1>4 DEF Put, PutGivenUp
  <2> QED
    BY <1>1, <1>2, <2>1, FreshFacts
<1> QED
  BY <1>3, <1>4

(* publishing and the report are such steps,                               *)
LEMMA PublishFacts ==
  ASSUME DagInv, FactsInv, NEW r \in Runs,
         ListFirst(r) \/ ListSecond(r) \/ UploadFiles(r) \/ Report(r)
  PROVE  FactsInv'
<1>1. /\ run[r].task \in {"publish", "report"} /\ Shaped(run[r])
      /\ bronze' = bronze /\ lake' = lake /\ overlapped' = overlapped
  BY RunState DEF ListFirst, ListSecond, UploadFiles, Report, Begins, Works, disk
<1>2. CASE ListFirst(r)
  <2> DEFINE now == Versions(Piece(r)[2])
             state == [run[r] EXCEPT !.seen = [log |-> now, data |-> now]]
  <2>1. run' = [run EXCEPT ![r] = Turned(state, "list on")]
    BY <1>2 DEF ListFirst
  <2> HIDE DEF now
  <2>2. Shaped(state) /\ state.task = run[r].task
    BY <1>1 DEF Shaped, Fields
  <2> HIDE DEF state
  <2>3. Fresh(Turned(state, "list on"))
    BY <1>1, <2>2, MovedFresh
  <2> QED
    BY <1>1, <2>1, <2>3, FreshFacts
<1>3. CASE ListSecond(r)
  <2> DEFINE found(part) == [run[r].seen EXCEPT ![part] = Versions(Piece(r)[2])]
             work == LogsOf(Piece(r)[2]) \o Tail(run[r].todo)
             next(part) == [run[r] EXCEPT !.seen = found(part), !.todo = work]
  <2>1. PICK part \in {"log", "data"} : run' = [run EXCEPT ![r] = next(part)]
    BY <1>3 DEF ListSecond, LogsOf
  <2> HIDE DEF found, work
  <2>2. next(part).task = run[r].task
    BY <1>1 DEF Shaped, Fields
  <2> HIDE DEF next
  <2>3. Fresh(next(part))
    BY <1>1, <2>2 DEF Fresh
  <2> QED
    BY <1>1, <2>1, <2>3, FreshFacts
<1>4. CASE UploadFiles(r)
  <2>1. \/ run' = [run EXCEPT ![r] = Turned(run[r], "data")]
        \/ run' = [run EXCEPT ![r] = Advanced(run[r])]
    BY <1>4 DEF UploadFiles
  <2>2. Fresh(Turned(run[r], "data")) /\ Fresh(Advanced(run[r]))
    BY <1>1, MovedFresh
  <2> QED
    BY <1>1, <2>1, <2>2, FreshFacts
<1>5. CASE Report(r)
  <2> DEFINE found == [accounts |-> Latest("accounts"), transactions |-> Latest("transactions"),
                       fact_transaction |-> lake.gold["transactions"].version]
             state == [run[r] EXCEPT !.report = found]
  <2>1. run' = [run EXCEPT ![r] = Finished(state)]
    BY <1>5 DEF Report
  <2> HIDE DEF found
  <2>2. Shaped(state)
    BY <1>1 DEF Shaped, Fields
  <2> HIDE DEF state
  <2>3. Fresh(Finished(state))
    BY <2>2, FinishedFields DEF Fresh
  <2> QED
    BY <1>1, <2>1, <2>3, FreshFacts
<1> QED
  BY <1>2, <1>3, <1>4, <1>5

(* The accounts are staged before what needs them.                         *)
LEMMA AccountsFirst ==
  /\ \E i \in 1..Len(Datasets) :
       /\ Datasets[i] = "accounts"
       /\ \A j \in 1..Len(Datasets) : Datasets[j] = "transactions" => i < j
<1>1. CASE Datasets = <<"accounts", "transactions">>
  <2>1. /\ Len(Datasets) = 2 /\ Datasets[1] = "accounts" /\ Datasets[2] = "transactions"
        /\ 1 \in 1..2 /\ \A j \in 1..2 : j # 1 => 1 < j
    BY <1>1
  <2> QED
    BY <2>1
<1>2. CASE Datasets = <<"customers", "accounts", "transactions">>
  <2>1. /\ Len(Datasets) = 3 /\ Datasets[1] = "customers" /\ Datasets[2] = "accounts"
        /\ Datasets[3] = "transactions" /\ 2 \in 1..3
        /\ \A j \in 1..3 : j # 1 /\ j # 2 => 2 < j
    BY <1>2
  <2> QED
    BY <2>1
<1> QED
  BY <1>1, <1>2, DatasetsAssumption

(* The files to stage are found with the accounts before what needs them.  *)
LEMMA PlanStageFacts ==
  ASSUME DagInv, FactsInv, NEW r \in Runs, PlanStage(r)
  PROVE  FactsInv'
<1>1. /\ run[r].task = "stage" /\ Shaped(run[r])
      /\ bronze' = bronze /\ lake' = lake /\ overlapped' = overlapped
  BY RunState DEF PlanStage, Begins, disk
<1>2. CASE \E i \in DOMAIN Datasets : Latest(Datasets[i]) = 0
  <2>1. run' = [run EXCEPT ![r] = Retried(run[r])]
    BY <1>2 DEF PlanStage
  <2> QED
    BY <1>1, <2>1, MovedFresh, FreshFacts
<1>3. CASE ~\E i \in DOMAIN Datasets : Latest(Datasets[i]) = 0
  <2> DEFINE work == StagingWork
             next == [run[r] EXCEPT !.staged = {}, !.todo = work]
             n == Len(Datasets)
  <2>1. run' = [run EXCEPT ![r] = next]
    BY <1>3 DEF PlanStage, StagingWork
  <2> HIDE DEF work
  <2>2. next.task = "stage" /\ next.todo = work
    BY <1>1 DEF Shaped, Fields
  <2> HIDE DEF next
  <2>3. ASSUME NEW j \in DOMAIN work, work[j][2] \in NeedAccounts
        PROVE  \E i \in DOMAIN work : i < j /\ work[i][2] = "accounts"
    <3>1. /\ DOMAIN work = 1..(n + 1) /\ n \in Nat
          /\ \A i \in 1..n : i \in DOMAIN work /\ work[i][2] = Datasets[i]
      BY StagingWorkFacts, DatasetsFacts DEF work
    <3>2. PICK i \in 1..n :
            /\ Datasets[i] = "accounts"
            /\ \A k \in 1..n : Datasets[k] = "transactions" => i < k
      BY AccountsFirst
    <3>3. i < j
      <4>1. CASE j \in 1..n
        <5>1. Datasets[j] \in FileSet /\ Datasets[j] \in NeedAccounts
          BY <2>3, <3>1, <4>1, DatasetsFacts
        <5>2. Datasets[j] = "transactions"
          BY <5>1, DatasetsFacts DEF NeedAccounts
        <5> QED
          BY <3>2, <4>1, <5>2
      <4>2. CASE j \notin 1..n
        BY <2>3, <3>1, <3>2, <4>2
      <4> QED
        BY <4>1, <4>2
    <3> QED
      BY <3>1, <3>2, <3>3
  <2>4. StagingOrder(next) /\ WritingOrder(next)
    BY <2>2, <2>3 DEF StagingOrder, WritingOrder
  <2> QED
    BY <1>1, <2>1, <2>4, FactsStand
<1> QED
  BY <1>2, <1>3

(* A file staged adds its extraction to the frame of its table.            *)
LEMMA FrameGrows ==
  ASSUME NEW piece, bronze' = (bronze \ Overwritten(piece)) \cup {File(piece)}
  PROVE  /\ \A table : table # Balances =>
              (FrameOf(table))' = FrameOf(table) \cup (IF piece[2] = table THEN {piece[3]} ELSE {})
         /\ (FrameOf(Balances))' \subseteq
              FrameOf(Balances) \cup (IF piece[2] = Balances THEN {piece[3]} ELSE {})
<1>1. File(piece)[1] = piece[2] /\ File(piece)[2] = piece[3]
  BY DEF File
<1>2. \A f \in Overwritten(piece) : f[1] = Balances
  BY DEF Overwritten
<1>3. ASSUME NEW table, table # Balances
      PROVE  (FrameOf(table))' = FrameOf(table) \cup (IF piece[2] = table THEN {piece[3]} ELSE {})
  <2>1. {g \in bronze' : g[1] = table} =
          {g \in bronze : g[1] = table} \cup (IF piece[2] = table THEN {File(piece)} ELSE {})
    BY <1>1, <1>2, <1>3
  <2> QED
    BY <1>1, <2>1 DEF FrameOf
<1>4. (FrameOf(Balances))' \subseteq
        FrameOf(Balances) \cup (IF piece[2] = Balances THEN {piece[3]} ELSE {})
  BY <1>1 DEF FrameOf
<1> QED
  BY <1>3, <1>4

(* Staged one by one, the accounts are there before what needs them.       *)
LEMMA StageFileFacts ==
  ASSUME DagInv, OwnInv, FactsInv, NEW r \in Runs, StageFile(r)
  PROVE  FactsInv'
<1> SUFFICES ASSUME overlapped = {} PROVE FactsInv'
  BY DEF StageFile, FactsInv
<1> DEFINE todo == run[r].todo
           own == run[r].own
           piece == todo[1]
           staged == run[r].staged \cup {<<Piece(r)[2], Piece(r)[3]>>}
           state == [run[r] EXCEPT !.staged = staged]
           next == Advanced(state)
<1>1. /\ run' = [run EXCEPT ![r] = next] /\ run[r].task = "stage" /\ todo # <<>>
      /\ lake' = lake /\ overlapped' = overlapped /\ Active(r)
      /\ bronze' = (bronze \ Overwritten(Piece(r))) \cup {File(Piece(r))}
  BY DEF StageFile, Works, File, Active
<1>2. ToStage(run[r])
  BY <1>1 DEF OwnInv, OwnState
<1>3. Sequence(todo) /\ Piece(r) = piece /\ 1 \in DOMAIN todo
  BY <1>1, <1>2, FirstOf DEF ToStage, Piece
<1> HIDE DEF staged
<1>4. Shaped(state) /\ state.task = "stage" /\ state.own = own /\ state.todo = todo
  BY <1>1, RunState DEF Shaped, Fields
<1> HIDE DEF state
<1>5. Moved(next, state)
  BY <1>1, <1>3, <1>4, AdvancedMoves
<1> HIDE DEF next
<1>6. /\ next.own = own
      /\ \/ next.task = "stage" /\ RestOrder(todo, next.todo)
         \/ next.task = "spark" /\ next.todo = FixedWork("spark")
  BY <1>4, <1>5, FollowingTask DEF Moved, Kept
<1>7. /\ piece[2] \in {"accounts", "transactions"} => piece[3] = own
      /\ piece[2] = Balances => piece[3] = <<own, own>>
  <2>1. File(piece) \in StagedBy(own)
    BY <1>2, <1>3 DEF ToStage
  <2>2. CASE File(piece) = <<Balances, <<own, own>>>>
    BY <2>2 DEF File, Balances
  <2>3. CASE \E d \in FileSet : File(piece) = <<d, own>>
    BY <2>3, DatasetsFacts DEF File
  <2> QED
    BY <2>1, <2>2, <2>3 DEF StagedBy
<1>8. StagingOrder(run[r])
  BY DEF FactsInv
<1>9. piece[2] \in NeedAccounts => own \in FrameOf("accounts")
  <2> SUFFICES ASSUME piece[2] \in NeedAccounts, own \notin FrameOf("accounts") PROVE FALSE
    OBVIOUS
  <2>1. PICK i \in DOMAIN todo : i < 1
    BY <1>1, <1>3, <1>8 DEF StagingOrder
  <2>2. DOMAIN todo \subseteq Nat \ {0}
    <3>1. PICK S : todo \in Seq(S)
      BY <1>3 DEF Sequence
    <3> QED
      BY <3>1
  <2> QED
    BY <2>1, <2>2
<1> DEFINE accounts == FrameOf("accounts")
           transactions == FrameOf("transactions")
           balances == FrameOf(Balances)
<1>10. /\ accounts' = accounts \cup (IF piece[2] = "accounts" THEN {own} ELSE {})
       /\ transactions' = transactions \cup (IF piece[2] = "transactions" THEN {own} ELSE {})
       /\ balances' \subseteq balances \cup (IF piece[2] = Balances THEN {<<own, own>>} ELSE {})
  <2>1. bronze' = (bronze \ Overwritten(piece)) \cup {File(piece)}
    BY <1>1, <1>3
  <2>2. /\ accounts' = accounts \cup (IF piece[2] = "accounts" THEN {piece[3]} ELSE {})
        /\ transactions' = transactions \cup (IF piece[2] = "transactions" THEN {piece[3]} ELSE {})
        /\ balances' \subseteq balances \cup (IF piece[2] = Balances THEN {piece[3]} ELSE {})
    BY <2>1, FrameGrows DEF Balances
  <2> QED
    BY <1>7, <2>2
<1>11. Explained(transactions, balances, accounts)'
  <2>1. Explained(transactions, balances, accounts)
    BY DEF FactsInv
  <2>2. (piece[2] = "transactions" \/ piece[2] = Balances) => own \in accounts
    BY <1>9 DEF NeedAccounts
  <2> HIDE DEF accounts, transactions, balances
  <2> QED
    BY <1>10, <2>1, <2>2 DEF Explained
<1>12. (GoldOf("accounts") \subseteq FrameOf("accounts"))'
  BY <1>1, <1>10 DEF FactsInv, GoldOf
<1>13. Explained(GoldOf("transactions"), GoldOf(Balances), GoldOf("accounts"))'
  BY <1>1 DEF FactsInv, Explained, GoldOf
<1>14. run'[r] = next /\ \A q \in Runs \ {r} : run'[q] = run[q]
  BY <1>1, NextRun
<1>15. ASSUME NEW q \in Runs \ {r} PROVE StagingOrder(run[q])' /\ WritingOrder(run[q])'
  <2>1. ~Active(q) /\ run'[q] = run[q]
    BY <1>1, <1>14 DEF DagInv
  <2> QED
    BY <2>1 DEF Active, StagingOrder, WritingOrder
<1>16. StagingOrder(run[r])' /\ WritingOrder(run[r])'
  <2>1. CASE next.task = "stage" /\ RestOrder(todo, next.todo)
    <3>1. ASSUME NEW j \in DOMAIN next.todo, next.todo[j][2] \in NeedAccounts, own \notin accounts'
          PROVE  \E l \in DOMAIN next.todo : l < j /\ next.todo[l][2] = "accounts"
      <4>1. PICK k \in DOMAIN todo :
              /\ next.todo[j] = todo[k]
              /\ \A i \in DOMAIN todo : i # 1 /\ i < k =>
                   \E l \in DOMAIN next.todo : l < j /\ next.todo[l] = todo[i]
        BY <2>1 DEF RestOrder
      <4>2. PICK i \in DOMAIN todo : i < k /\ todo[i][2] = "accounts"
        BY <1>1, <1>8, <1>10, <3>1, <4>1 DEF StagingOrder
      <4>3. i # 1
        BY <1>10, <3>1, <4>2
      <4> QED
        BY <4>1, <4>2, <4>3
    <3> QED
      BY <1>6, <1>14, <2>1, <3>1 DEF StagingOrder, WritingOrder
  <2>2. CASE next.task = "spark" /\ next.todo = FixedWork("spark")
    BY <1>14, <2>2, SparkOrderFacts DEF StagingOrder, WritingOrder, NeedAccounts
  <2> QED
    BY <1>6, <2>1, <2>2
<1> QED
  BY <1>11, <1>12, <1>13, <1>14, <1>15, <1>16 DEF FactsInv

(* Written one by one, so are their tables, each from all that is staged.  *)
LEMMA WriteTableExplained ==
  ASSUME DagInv, LakeInv, FactsInv, NEW r \in Runs, WriteTable(r)
  PROVE  FactsInv'
<1> SUFFICES ASSUME overlapped = {} PROVE FactsInv'
  BY DEF WriteTable, FactsInv
<1> DEFINE todo == run[r].todo
           layer == todo[1][1]
           table == todo[1][2]
           accounts == FrameOf("accounts")
<1>1. /\ run[r].task = "spark" /\ Active(r) /\ todo # <<>>
      /\ bronze' = bronze /\ overlapped' = overlapped
  BY DEF WriteTable, Works, Active
<1>2. PICK next : run' = [run EXCEPT ![r] = next] /\ TableWritten(next, run[r])
  BY WriteTableFacts
<1>3. DOMAIN todo \subseteq Nat \ {0} /\ 1 \in DOMAIN todo /\ todo \in Seq(SparkPieces)
  <2>1. todo \in Seq(SparkPieces)
    BY <1>1 DEF LakeInv, SparkState
  <2> QED
    BY <1>1, <2>1
<1>4. \A t : (FrameOf(t))' = FrameOf(t)
  BY <1>1 DEF FrameOf
<1>5. WritingOrder(run[r]) /\ Explained(FrameOf("transactions"), FrameOf(Balances), accounts)
      /\ GoldOf("accounts") \subseteq accounts
      /\ Explained(GoldOf("transactions"), GoldOf(Balances), GoldOf("accounts"))
  BY DEF FactsInv
<1>6. layer # Layers[1] => run[r].frame = FrameOf(table)
  BY <1>1, <1>3, <1>5 DEF WritingOrder
<1>7. Frame(run[r], layer, table) = FrameOf(table)
  BY <1>6 DEF Frame
<1>8. /\ \A t \in TableSet : layer # "gold" \/ t # table => lake'["gold"][t].of = GoldOf(t)
      /\ layer = "gold" /\ table # "customers" => lake'["gold"][table].of = FrameOf(table)
  BY <1>2, <1>7 DEF TableWritten, GoldOf
<1>9. "accounts" \in TableSet /\ "transactions" \in TableSet /\ Balances \in TableSet
  BY TablesFacts
<1>10. table \in NeedAccounts => GoldOf("accounts") = accounts
  <2> SUFFICES ASSUME table \in NeedAccounts, GoldOf("accounts") # accounts PROVE FALSE
    OBVIOUS
  <2>1. PICK i \in DOMAIN todo : i < 1
    BY <1>1, <1>3, <1>5 DEF WritingOrder
  <2> QED
    BY <1>3, <2>1
<1>11. /\ GoldOf("accounts")' = IF layer = "gold" /\ table = "accounts" THEN accounts
                                ELSE GoldOf("accounts")
       /\ GoldOf("transactions")' = IF layer = "gold" /\ table = "transactions"
                                    THEN FrameOf("transactions") ELSE GoldOf("transactions")
       /\ GoldOf(Balances)' = IF layer = "gold" /\ table = Balances
                              THEN FrameOf(Balances) ELSE GoldOf(Balances)
  <2>1. ASSUME NEW t \in {"accounts", "transactions", Balances}
        PROVE  GoldOf(t)' = IF layer = "gold" /\ table = t THEN FrameOf(t) ELSE GoldOf(t)
    <3>1. t \in TableSet /\ t # "customers"
      BY <1>9, <2>1 DEF Balances
    <3>2. lake'["gold"][t].of = IF layer = "gold" /\ table = t THEN FrameOf(t) ELSE GoldOf(t)
      BY <1>8, <3>1
    <3> QED
      BY <3>2 DEF GoldOf
  <2> QED
    BY <2>1
<1>12. Explained(FrameOf("transactions"), FrameOf(Balances), accounts)'
  BY <1>1, <1>5 DEF Explained, FrameOf
<1>13. (GoldOf("accounts") \subseteq FrameOf("accounts"))'
  BY <1>4, <1>5, <1>11
<1>14. Explained(GoldOf("transactions"), GoldOf(Balances), GoldOf("accounts"))'
  <2>1. CASE layer = "gold" /\ table = "accounts"
    BY <1>5, <1>11, <2>1 DEF Explained, Balances
  <2>2. CASE layer = "gold" /\ table \in NeedAccounts
    BY <1>5, <1>10, <1>11, <2>2 DEF Explained, NeedAccounts, Balances
  <2>3. CASE layer # "gold" \/ table \notin NeedAccounts \cup {"accounts"}
    BY <1>5, <1>11, <2>3 DEF Explained, NeedAccounts
  <2> QED
    BY <2>1, <2>2, <2>3
<1>15. run'[r] = next /\ \A q \in Runs \ {r} : run'[q] = run[q]
  BY <1>2, NextRun
<1>16. ASSUME NEW q \in Runs \ {r} PROVE StagingOrder(run[q])' /\ WritingOrder(run[q])'
  <2>1. ~Active(q) /\ run'[q] = run[q]
    BY <1>1, <1>15 DEF DagInv
  <2> QED
    BY <2>1 DEF Active, StagingOrder, WritingOrder
<1>17. GoldOf("accounts") = accounts => GoldOf("accounts")' = accounts
  BY <1>11
<1>18. StagingOrder(run[r])' /\ WritingOrder(run[r])'
  <2>1. CASE next.task = "publish"
    BY <1>15, <2>1 DEF StagingOrder, WritingOrder
  <2>2. CASE layer = "gold" /\ next.task = "spark"
    <3>1. RestOrder(todo, next.todo)
      BY <1>2, <2>2 DEF TableWritten
    <3>2. ASSUME NEW j \in DOMAIN next.todo
          PROVE  /\ next.todo[j][1] = Layers[1]
                 /\ next.todo[j][2] \in NeedAccounts =>
                      \/ GoldOf("accounts")' = accounts
                      \/ \E l \in DOMAIN next.todo : l < j /\ next.todo[l][2] = "accounts"
      <4>1. PICK k \in DOMAIN todo :
              /\ k # 1 /\ next.todo[j] = todo[k]
              /\ \A i \in DOMAIN todo : i # 1 /\ i < k =>
                   \E l \in DOMAIN next.todo : l < j /\ next.todo[l] = todo[i]
        BY <3>1 DEF RestOrder
      <4>2. next.todo[j][1] = Layers[1]
        BY <1>1, <1>5, <4>1 DEF WritingOrder
      <4>3. ASSUME next.todo[j][2] \in NeedAccounts, GoldOf("accounts")' # accounts
            PROVE  \E l \in DOMAIN next.todo : l < j /\ next.todo[l][2] = "accounts"
        <5>1. PICK i \in DOMAIN todo : i < k /\ todo[i][2] = "accounts"
          BY <1>1, <1>5, <1>17, <4>1, <4>3 DEF WritingOrder
        <5>2. i # 1
          BY <1>11, <2>2, <4>3, <5>1
        <5> QED
          BY <4>1, <5>1, <5>2
      <4> QED
        BY <4>2, <4>3
    <3> QED
      BY <1>4, <1>15, <2>2, <3>2 DEF StagingOrder, WritingOrder
  <2>3. CASE layer # "gold"
    <3>1. /\ next.task = "spark" /\ SameTargets(next.todo, todo)
          /\ next.frame = FrameOf(table)
      BY <1>2, <1>7, <2>3 DEF TableWritten
    <3>2. ASSUME NEW j \in DOMAIN next.todo, next.todo[j][2] \in NeedAccounts
          PROVE  \/ GoldOf("accounts")' = accounts
                 \/ \E i \in DOMAIN next.todo : i < j /\ next.todo[i][2] = "accounts"
      <4>1. j \in DOMAIN todo /\ todo[j][2] \in NeedAccounts
        BY <3>1, <3>2 DEF SameTargets
      <4>2. \/ GoldOf("accounts") = accounts
            \/ \E i \in DOMAIN todo : i < j /\ todo[i][2] = "accounts"
        BY <1>1, <1>5, <4>1 DEF WritingOrder
      <4> QED
        BY <1>17, <3>1, <4>2 DEF SameTargets
    <3>3. ASSUME NEW i \in DOMAIN next.todo, next.todo[i][1] # Layers[1]
          PROVE  i = 1 /\ next.frame = FrameOf(next.todo[i][2])
      <4>1. i = 1
        <5> SUFFICES ASSUME i # 1 PROVE FALSE
          OBVIOUS
        <5>1. i \in DOMAIN todo /\ todo[i][1] # Layers[1]
          BY <3>1, <3>3 DEF SameTargets
        <5> QED
          BY <1>1, <1>5, <5>1 DEF WritingOrder
      <4>2. next.todo[1][2] = table
        BY <1>3, <3>1 DEF SameTargets
      <4> QED
        BY <3>1, <4>1, <4>2
    <3> QED
      BY <1>4, <1>15, <3>1, <3>2, <3>3 DEF StagingOrder, WritingOrder
  <2> QED
    BY <1>2, <2>1, <2>2, <2>3 DEF TableWritten
<1> QED
  BY <1>12, <1>13, <1>14, <1>15, <1>16, <1>18 DEF FactsInv

-----------------------------------------------------------------------------
(* The invariant holds before the first run.                               *)
LEMMA InitFactsInv == Init => FactsInv
<1> SUFFICES ASSUME Init PROVE FactsInv
  OBVIOUS
<1>1. /\ bronze = {} /\ \A r \in Runs : run[r].task = "none"
      /\ lake = [layer \in LayerSet |-> [t \in TableSet |-> [version |-> 0, of |-> {}]]]
  BY DEF Init, Idle, LayerSet, TableSet
<1>2. \A table : FrameOf(table) = {}
  BY <1>1 DEF FrameOf
<1>3. GoldOf("accounts") = {} /\ GoldOf("transactions") = {} /\ GoldOf(Balances) = {}
  <2>1. /\ "gold" \in LayerSet
        /\ "accounts" \in TableSet /\ "transactions" \in TableSet /\ Balances \in TableSet
    BY LayersFacts, TablesFacts
  <2> QED
    BY <1>1, <2>1 DEF GoldOf
<1> QED
  BY <1>1, <1>2, <1>3 DEF FactsInv, Explained, StagingOrder, WritingOrder

(* Every step keeps it.                                                    *)
LEMMA FactsInvKept == DagInv /\ LakeInv /\ OwnInv /\ FactsInv /\ [Next]_vars => FactsInv'
<1> SUFFICES ASSUME DagInv, LakeInv, OwnInv, FactsInv, [Next]_vars PROVE FactsInv'
  OBVIOUS
<1>1. ASSUME NEW r \in Runs, StartRun(r) \/ TaskKilled(r) PROVE FactsInv'
  BY <1>1, RunsFacts
<1>2. ASSUME NEW r \in Runs, Work(r) PROVE FactsInv'
  BY <1>2, ExtractionFacts, ValidationFacts, UploadFacts, PlanStageFacts, StageFileFacts,
     WriteTableExplained, PublishFacts DEF Work
<1>3. ASSUME NEW r \in Runs, PutGivenUp(r) PROVE FactsInv'
  BY <1>3, UploadFacts
<1>4. CASE UNCHANGED vars
  BY <1>4 DEF vars, disk, FactsInv, Explained, FrameOf, GoldOf, StagingOrder, WritingOrder
<1> QED
  BY <1>1, <1>2, <1>3, <1>4 DEF Next

(* While no two runs overlap, the facts in gold are of accounts that are   *)
(* in dim_account, at every moment and whatever failed: the accounts are   *)
(* extracted, staged and written first, and nothing staged ever goes.      *)
THEOREM FactsCorrect == Spec => []FactsHaveAccounts
<1>1. FactsInv => FactsHaveAccounts
  BY DEF FactsInv, FactsHaveAccounts, Explained, GoldOf
<1>2. Init => DagInv /\ LakeInv /\ OwnInv /\ FactsInv
  BY InitDagInv, InitLakeInv, InitOwnInv, InitFactsInv
<1>3. DagInv /\ LakeInv /\ OwnInv /\ FactsInv /\ [Next]_vars =>
        DagInv' /\ LakeInv' /\ OwnInv' /\ FactsInv'
  BY DagInvKept, LakeInvKept, OwnInvKept, FactsInvKept
<1> QED
  BY <1>1, <1>2, <1>3, PTL DEF Spec

-----------------------------------------------------------------------------
(* Type correctness: what the invariants above leave open.                 *)

TaskNames == Range(TaskOrder) \cup {"none", "failed"}
FileTasks == {"extract", "validate", "upload", "stage"}
WorkingTasks == {"extract", "validate", "upload", "stage", "spark", "publish", "report"}
Listings == [{"log", "data"} -> [TableSet -> Nat]]
Reports(known) ==
  [accounts : {0} \cup known, transactions : {0} \cup known, fact_transaction : Nat]

(* The fields of a run that its work does not matter to.                   *)
Outline(state, known) ==
  /\ state.task \in TaskNames /\ state.attempt \in 0..Attempts
  /\ state.staged \subseteq BronzeFiles(known)
  /\ state.seen \in {<<>>} \cup Listings /\ state.report \in {<<>>} \cup Reports(known)
  /\ state.clashed \in BOOLEAN

(* The work on files, and the one frame that is carried to another layer.  *)
Planning(state, known) ==
  /\ state.task \in FileTasks => state.todo \in Seq(WorkOf(state.task, known))
  /\ state.task \in {"report", "done", "failed"} => state.todo = <<>>
  /\ state.task = "spark" =>
       \A i \in DOMAIN state.todo : state.todo[i][1] # Layers[1] =>
         i = 1 /\ state.frame \subseteq Rows(state.todo[i][2], known)

Typed(state, known) == Outline(state, known) /\ Planning(state, known)

DiskTyped ==
  /\ empty \subseteq 1..clock /\ files \subseteq SourceFiles(1..clock)
  /\ suites \subseteq FileSet
  /\ raw \subseteq {"data", "metadata"} \X FileSet \X (1..clock)
  /\ bronze \subseteq BronzeFiles(1..clock)
  /\ \A layer \in LayerSet, table \in TableSet : lake[layer][table].of \subseteq Rows(table, 1..clock)

TypesInv ==
  /\ DiskTyped /\ \A r \in Runs : Typed(run[r], 1..clock)
  /\ failures \in 0..MaxFailures /\ overlapped \subseteq Runs

(* More extractions take nothing away.                                     *)
LEMMA KnownGrows ==
  ASSUME NEW known, NEW more, known \subseteq more
  PROVE  /\ SourceFiles(known) \subseteq SourceFiles(more)
         /\ BronzeFiles(known) \subseteq BronzeFiles(more)
         /\ \A table : Rows(table, known) \subseteq Rows(table, more)
         /\ \A task : WorkOf(task, known) \subseteq WorkOf(task, more)
         /\ Reports(known) \subseteq Reports(more)
<1>1. SourceFiles(known) \subseteq SourceFiles(more)
  BY DEF SourceFiles
<1>2. BronzeFiles(known) \subseteq BronzeFiles(more)
  BY <1>1 DEF BronzeFiles
<1>3. ASSUME NEW table PROVE Rows(table, known) \subseteq Rows(table, more)
  BY DEF Rows
<1>4. ASSUME NEW task PROVE WorkOf(task, known) \subseteq WorkOf(task, more)
  BY DEF WorkOf
<1>5. Reports(known) \subseteq Reports(more)
  BY DEF Reports
<1> QED
  BY <1>1, <1>2, <1>3, <1>4, <1>5

(* A run keeps its types while others extract.                             *)
LEMMA TypedGrows ==
  ASSUME NEW known, NEW more, known \subseteq more, NEW state, Typed(state, known)
  PROVE  Typed(state, more)
<1>1. Outline(state, more)
  BY KnownGrows DEF Typed, Outline
<1>2. Planning(state, more)
  <2>1. WorkOf(state.task, known) \subseteq WorkOf(state.task, more)
    BY KnownGrows
  <2>2. ASSUME state.task \in FileTasks
        PROVE  state.todo \in Seq(WorkOf(state.task, more))
    <3>1. state.todo \in Seq(WorkOf(state.task, known))
      BY <2>2 DEF Typed, Planning
    <3> QED
      BY <2>1, <3>1, SeqMonotonic
  <2>3. \A table : Rows(table, known) \subseteq Rows(table, more)
    BY KnownGrows
  <2> QED
    BY <2>2, <2>3 DEF Typed, Planning
<1> QED
  BY <1>1, <1>2 DEF Typed

(* What there is to do without looking is a task's own.                    *)
LEMMA FixedPlan ==
  ASSUME NEW known, NEW state, state.todo = FixedWork(state.task)
  PROVE  Planning(state, known)
<1>1. state.task \in FileTasks \cup {"report", "done", "failed"} => state.todo = <<>>
  BY DEF FixedWork, FileTasks
<1>2. state.task = "spark" => \A i \in DOMAIN state.todo : state.todo[i][1] = Layers[1]
  BY SparkOrderFacts
<1>3. \A S : <<>> \in Seq(S)
  OBVIOUS
<1> QED
  BY <1>1, <1>2, <1>3 DEF Planning, FileTasks

(* A task that starts anew has nothing of the try before.                  *)
LEMMA RestartedTyped ==
  ASSUME NEW known, NEW state, Shaped(state), Outline(state, known)
  PROVE  Typed(Restarted(state), known)
<1> DEFINE next == Restarted(state)
           work == FixedWork(state.task)
<1>1. next.task = state.task /\ next.todo = FixedWork(state.task) /\ Kept(next, state)
  BY RestartedFields
<1>2. next.attempt = state.attempt /\ next.seen = <<>> /\ next.clashed = state.clashed
  <2>1. next = [state EXCEPT !.todo = work, !.frame = {}, !.seen = <<>>]
    BY DEF Restarted
  <2> HIDE DEF work, next
  <2> QED
    BY <2>1 DEF Shaped, Fields
<1> HIDE DEF next, work
<1>3. Outline(next, known)
  BY <1>1, <1>2 DEF Outline, Kept
<1> QED
  BY <1>1, <1>3, FixedPlan DEF Typed, next

(* A finished task is followed by the next.                                *)
LEMMA FinishedTyped ==
  ASSUME NEW known, NEW state, Shaped(state), Outline(state, known), state.task \in WorkingTasks
  PROVE  Typed(Finished(state), known)
<1> DEFINE following == Following(state.task)
           next == [state EXCEPT !.task = following, !.attempt = 1]
<1>1. following \in TaskNames
  <2>1. following \in {"validate", "upload", "stage", "spark", "publish", "report", "done"}
    BY FollowingTask DEF WorkingTasks
  <2>2. DOMAIN TaskOrder = 1..8
    BY DEF TaskOrder
  <2>3. \A i \in 1..8 : TaskOrder[i] \in Range(TaskOrder)
    BY <2>2 DEF Range
  <2>4. {"validate", "upload", "stage", "spark", "publish", "report", "done"} \subseteq Range(TaskOrder)
    BY <2>3 DEF TaskOrder
  <2> QED
    BY <2>1, <2>4 DEF TaskNames
<1> HIDE DEF following
<1>2. Shaped(next) /\ Outline(next, known)
  <2>1. 1 \in 0..Attempts
    BY AttemptsAssumption
  <2> QED
    BY <1>1, <2>1 DEF Shaped, Fields, Outline
<1>3. Finished(state) = Restarted(next)
  BY DEF Finished, following
<1> HIDE DEF next
<1> QED
  BY <1>2, <1>3, RestartedTyped

(* A failed task is tried again, or the run has failed.                    *)
LEMMA RetriedTyped ==
  ASSUME NEW known, NEW state, Shaped(state), Outline(state, known)
  PROVE  Typed(Retried(state), known)
<1> DEFINE next == IF state.attempt >= Attempts THEN [state EXCEPT !.task = "failed"]
                   ELSE [state EXCEPT !.attempt = state.attempt + 1]
<1>1. Retried(state) = Restarted(next)
  BY DEF Retried
<1>2. Shaped(next) /\ Outline(next, known)
  <2>1. CASE state.attempt >= Attempts
    <3>1. "failed" \in TaskNames
      BY DEF TaskNames
    <3> QED
      BY <2>1, <3>1 DEF Shaped, Fields, Outline
  <2>2. CASE ~(state.attempt >= Attempts)
    <3>1. state.attempt + 1 \in 0..Attempts
      BY <2>2, AttemptsAssumption DEF Outline
    <3> QED
      BY <2>2, <3>1 DEF Shaped, Fields, Outline
  <2> QED
    BY <2>1, <2>2
<1> HIDE DEF next
<1> QED
  BY <1>1, <1>2, RestartedTyped

(* A piece that is done leaves the others, or was the last.                *)
LEMMA AdvancedTyped ==
  ASSUME NEW known, NEW state, Shaped(state), Outline(state, known),
         state.task \in WorkingTasks \ {"report"}, Sequence(state.todo),
         state.task \in FileTasks =>
           state.todo \in Seq(WorkOf(state.task, known)),
         state.task = "spark" =>
           \A i \in DOMAIN state.todo : state.todo[i][1] # Layers[1] => i = 1
  PROVE  Typed(Advanced(state), known)
<1>1. CASE Len(state.todo) > 1
  <2> DEFINE rest == Tail(state.todo)
             next == Advanced(state)
  <2>0. next = [state EXCEPT !.todo = rest]
    BY <1>1 DEF Advanced
  <2>1. next.task = state.task /\ next.todo = rest /\ next.seen = state.seen /\ Kept(next, state)
    BY <1>1, AdvancedFields
  <2> HIDE DEF next, rest
  <2>2. next.attempt = state.attempt /\ next.clashed = state.clashed
    BY <2>0 DEF Shaped, Fields
  <2>3. Outline(next, known)
    BY <2>1, <2>2 DEF Outline, Kept
  <2>4. ASSUME state.task \in FileTasks
        PROVE  rest \in Seq(WorkOf(state.task, known))
    <3> DEFINE W == WorkOf(state.task, known)
    <3>1. state.todo \in Seq(W)
      BY <2>4
    <3> HIDE DEF W
    <3>2. Tail(state.todo) \in Seq(W)
      BY <1>1, <3>1
    <3> QED
      BY <3>2 DEF rest, W
  <2>5. ASSUME state.task = "spark", NEW i \in DOMAIN rest PROVE rest[i][1] = Layers[1]
    <3>1. PICK S : state.todo \in Seq(S)
      BY DEF Sequence
    <3>2. i + 1 \in DOMAIN state.todo /\ rest[i] = state.todo[i + 1] /\ i + 1 # 1
      BY <1>1, <2>5, <3>1 DEF rest
    <3> QED
      BY <2>5, <3>2
  <2>6. Planning(next, known)
    BY <2>1, <2>4, <2>5 DEF Planning, WorkingTasks, FileTasks
  <2> QED
    BY <2>3, <2>6 DEF Typed, next
<1>2. CASE ~(Len(state.todo) > 1)
  <2>1. Advanced(state) = Finished(state)
    BY <1>2 DEF Advanced
  <2> QED
    BY <2>1, FinishedTyped
<1> QED
  BY <1>1, <1>2

(* A piece that is half done is still about the same file.                 *)
LEMMA TurnedTyped ==
  ASSUME NEW known, NEW state, Shaped(state), Outline(state, known), NEW phase,
         state.task \in {"validate", "upload"} =>
           /\ state.todo \in Seq(WorkOf(state.task, known))
           /\ <<phase, state.todo[1][2], state.todo[1][3]>> \in WorkOf(state.task, known),
         state.task \in {"validate", "upload", "publish"}, state.todo # <<>>
  PROVE  Typed(Turned(state, phase), known)
<1> DEFINE first == <<phase, state.todo[1][2], state.todo[1][3]>>
           rest == Tail(state.todo)
           next == Turned(state, phase)
           work == <<first>> \o rest
<1>1. next = [state EXCEPT !.todo = work]
  BY DEF Turned
<1>2. next.todo = work /\ next.task = state.task /\ next.seen = state.seen /\ Kept(next, state)
  BY TurnedFacts, TurnedFields
<1> HIDE DEF next
<1>3. ASSUME state.task \in {"validate", "upload"} PROVE work \in Seq(WorkOf(state.task, known))
  <2>1. first \in WorkOf(state.task, known) /\ state.todo \in Seq(WorkOf(state.task, known))
    BY <1>3
  <2> HIDE DEF first
  <2>2. <<first>> \in Seq(WorkOf(state.task, known))
    BY <2>1
  <2>3. rest \in Seq(WorkOf(state.task, known))
    <3> DEFINE W == WorkOf(state.task, known)
    <3>1. state.todo \in Seq(W) /\ state.todo # <<>>
      BY <2>1
    <3> HIDE DEF W
    <3>2. Tail(state.todo) \in Seq(W)
      BY <3>1
    <3> QED
      BY <3>2 DEF rest, W
  <2> HIDE DEF rest
  <2> QED
    BY <2>2, <2>3
<1> HIDE DEF work
<1>4. next.attempt = state.attempt /\ next.clashed = state.clashed
  BY <1>1 DEF Shaped, Fields
<1>5. Outline(next, known)
  BY <1>2, <1>4 DEF Outline, Kept
<1>6. Planning(next, known)
  BY <1>2, <1>3 DEF Planning, FileTasks
<1> QED
  BY <1>5, <1>6 DEF Typed, next

-----------------------------------------------------------------------------
(* The steps of a run.                                                     *)

(* What is known of the types of a run and of its first piece of work.     *)
LEMMA RunTyped ==
  ASSUME DagInv, OwnInv, TypesInv, NEW r \in Runs
  PROVE  /\ Shaped(run[r]) /\ Outline(run[r], 1..clock) /\ Planning(run[r], 1..clock)
         /\ clock \in Nat /\ DiskTyped /\ failures \in 0..MaxFailures /\ overlapped \subseteq Runs
BY RunState DEF TypesInv, Typed, OwnInv, StampInv

(* The piece of work on files a run is at.                                 *)
LEMMA FirstTyped ==
  ASSUME NEW known, NEW state, Planning(state, known), state.task \in FileTasks, state.todo # <<>>
  PROVE  /\ Head(state.todo) = state.todo[1] /\ state.todo[1] \in WorkOf(state.task, known)
         /\ Sequence(state.todo)
<1> DEFINE W == WorkOf(state.task, known)
<1>1. state.todo \in Seq(W)
  BY DEF Planning
<1> HIDE DEF W
<1>2. Head(state.todo) = state.todo[1] /\ state.todo[1] \in W
  BY <1>1
<1> QED
  BY <1>1, <1>2 DEF Sequence, W

(* A step of one run leaves the others what they are.                      *)
LEMMA TypedStep ==
  ASSUME DagInv, OwnInv, TypesInv, NEW r \in Runs, NEW next, run' = [run EXCEPT ![r] = next],
         clock' \in Nat, clock <= clock', Typed(next, 1..clock'), DiskTyped',
         failures' \in 0..MaxFailures, overlapped' \subseteq Runs
  PROVE  TypesInv'
<1>1. run'[r] = next /\ \A q \in Runs \ {r} : run'[q] = run[q]
  BY NextRun
<1>2. 1..clock \subseteq 1..clock'
  BY DEF OwnInv, StampInv
<1>3. ASSUME NEW q \in Runs \ {r} PROVE Typed(run'[q], 1..clock')
  <2>1. Typed(run[q], 1..clock) /\ run'[q] = run[q]
    BY <1>1 DEF TypesInv
  <2> DEFINE before == 1..clock
             now == 1..clock'
  <2>2. Typed(run[q], before) /\ before \subseteq now
    BY <1>2, <2>1
  <2> HIDE DEF before, now
  <2>3. Typed(run[q], now)
    BY <2>2, TypedGrows
  <2> QED
    BY <2>1, <2>3 DEF now
<1> QED
  BY <1>1, <1>3 DEF TypesInv

(* The same for steps that extract and overlap nothing.                    *)
LEMMA TypedLocal ==
  ASSUME DagInv, OwnInv, TypesInv, NEW r \in Runs, NEW next, run' = [run EXCEPT ![r] = next],
         clock' = clock, Typed(next, 1..clock), DiskTyped',
         failures' = failures \/ FailsOutside, overlapped' = overlapped
  PROVE  TypesInv'
<1>1. clock \in Nat /\ failures \in 0..MaxFailures /\ overlapped \subseteq Runs /\ clock <= clock'
  BY DEF OwnInv, StampInv, TypesInv
<1>2. failures' \in 0..MaxFailures
  BY <1>1, AttemptsAssumption DEF FailsOutside
<1>3. Typed(next, 1..clock')
  OBVIOUS
<1> QED
  BY <1>1, <1>2, <1>3, TypedStep

(* Steps that leave the directories and the rows of the lake alone.        *)
LEMMA DiskStands ==
  ASSUME DiskTyped, clock' = clock, empty' = empty, files' = files, suites' = suites,
         raw' = raw, bronze' = bronze, lake' = lake
  PROVE  DiskTyped'
<1>1. (1..clock)' = 1..clock
  OBVIOUS
<1> QED
  BY <1>1 DEF DiskTyped, SourceFiles, BronzeFiles, Rows

(* A run starts with nothing to do yet.                                    *)
LEMMA StartTyped ==
  ASSUME DagInv, OwnInv, TypesInv, NEW r \in Runs, StartRun(r)
  PROVE  TypesInv'
<1> DEFINE next == [run[r] EXCEPT !.task = "extract", !.attempt = 1]
           known == 1..clock
<1>1. /\ run' = [run EXCEPT ![r] = next] /\ run[r].task = "none" /\ clock' = clock
      /\ failures' = failures /\ DiskTyped'
  BY RunTyped, DiskStands DEF StartRun, disk
<1>2. overlapped' \subseteq Runs
  BY RunTyped DEF StartRun
<1>3. Shaped(run[r]) /\ Outline(run[r], known) /\ run[r].todo = <<>>
  BY <1>1, RunTyped DEF OwnInv, Stamped
<1>4. next.task = "extract" /\ next.todo = <<>> /\ Outline(next, known)
  <2>1. 1 \in 0..Attempts
    BY AttemptsAssumption
  <2>2. "extract" \in TaskNames
    <3>1. 1 \in DOMAIN TaskOrder /\ TaskOrder[1] = "extract"
      BY DEF TaskOrder
    <3> QED
      BY <3>1 DEF TaskNames, Range
  <2> HIDE DEF known
  <2> QED
    BY <1>3, <2>1, <2>2 DEF Shaped, Fields, Outline
<1> HIDE DEF next
<1>5. Planning(next, known)
  BY <1>4 DEF Planning
<1>6. Typed(next, 1..clock')
  BY <1>1, <1>4, <1>5 DEF Typed
<1>7. clock \in Nat /\ clock' \in Nat /\ clock <= clock' /\ failures' \in 0..MaxFailures
  BY <1>1, RunTyped
<1> QED
  BY <1>1, <1>2, <1>6, <1>7, TypedStep

(* A killed task.                                                          *)
LEMMA KilledTyped ==
  ASSUME DagInv, OwnInv, TypesInv, NEW r \in Runs, TaskKilled(r)
  PROVE  TypesInv'
<1> DEFINE known == 1..clock
<1>1. /\ run' = [run EXCEPT ![r] = Retried(run[r])] /\ clock' = clock
      /\ DiskTyped' /\ overlapped' = overlapped /\ FailsOutside
  BY RunTyped, DiskStands DEF TaskKilled, disk
<1>2. Shaped(run[r]) /\ Outline(run[r], known)
  BY RunTyped
<1> HIDE DEF known
<1>3. Typed(Retried(run[r]), known)
  BY <1>2, RetriedTyped
<1> QED
  BY <1>1, <1>3, TypedLocal DEF known

(* An extraction makes its stamp known.                                    *)
LEMMA ExtractTyped ==
  ASSUME DagInv, OwnInv, TypesInv, NEW r \in Runs, Extract(r)
  PROVE  TypesInv'
<1> DEFINE work == [i \in DOMAIN Datasets |-> <<"write", Datasets[i], clock'>>]
           next == [run[r] EXCEPT !.own = clock', !.todo = work]
           known == 1..clock
           more == 1..clock'
<1>1. /\ clock' = clock + 1 /\ run[r].task = "extract" /\ run' = [run EXCEPT ![r] = next]
      /\ UNCHANGED <<files, suites, bronze, lake, raw, s3, overlapped>>
      /\ empty' = empty \/ empty' = empty \cup {clock'}
      /\ failures' = failures \/ FailsOutside
  BY DEF Extract, Begins
<1>2. /\ Shaped(run[r]) /\ Outline(run[r], known) /\ clock \in Nat /\ DiskTyped
      /\ failures \in 0..MaxFailures /\ overlapped \subseteq Runs
  BY RunTyped
<1>3. /\ clock' \in Nat /\ clock <= clock' /\ known \subseteq more /\ clock' \in more
      /\ failures' \in 0..MaxFailures /\ overlapped' \subseteq Runs
  BY <1>1, <1>2, AttemptsAssumption DEF FailsOutside
<1>4. DiskTyped'
  <2> HIDE DEF work, next
  <2>1. /\ empty \subseteq known /\ files \subseteq SourceFiles(known) /\ suites \subseteq FileSet
        /\ raw \subseteq {"data", "metadata"} \X FileSet \X known
        /\ bronze \subseteq BronzeFiles(known)
        /\ \A layer \in LayerSet, table \in TableSet : lake[layer][table].of \subseteq Rows(table, known)
    BY <1>2 DEF DiskTyped
  <2>2. empty' \subseteq more
    BY <1>1, <1>3, <2>1
  <2> HIDE DEF known, more
  <2>3. /\ files \subseteq SourceFiles(more) /\ bronze \subseteq BronzeFiles(more)
        /\ \A layer \in LayerSet, table \in TableSet : lake[layer][table].of \subseteq Rows(table, more)
    BY <1>3, <2>1, KnownGrows
  <2>4. raw \subseteq {"data", "metadata"} \X FileSet \X more
    BY <1>3, <2>1
  <2>5. /\ SourceFiles(more) = (SourceFiles(1..clock))' /\ BronzeFiles(more) = (BronzeFiles(1..clock))'
        /\ \A table : Rows(table, more) = (Rows(table, 1..clock))'
    BY DEF more, SourceFiles, BronzeFiles, Rows
  <2>6. {"data", "metadata"} \X FileSet \X more = ({"data", "metadata"} \X FileSet \X (1..clock))'
    BY DEF more
  <2>7. more = (1..clock)'
    BY DEF more
  <2> QED
    BY <1>1, <2>1, <2>2, <2>3, <2>4, <2>5, <2>6, <2>7 DEF DiskTyped
<1>5. work \in Seq(WorkOf("extract", more))
  <2> DEFINE W == WorkOf("extract", more)
  <2>1. \A i \in 1..Len(Datasets) : <<"write", Datasets[i], clock'>> \in W
    BY <1>3, DatasetsFacts DEF WorkOf, FileSet
  <2> HIDE DEF W
  <2>2. work = [i \in 1..Len(Datasets) |-> <<"write", Datasets[i], clock'>>] /\ Len(Datasets) \in Nat
    BY DatasetsFacts
  <2> QED
    BY <2>1, <2>2 DEF W
<1> HIDE DEF work
<1>6. next.task = "extract" /\ next.todo = work
  BY <1>1, <1>2 DEF Shaped, Fields
<1>7. /\ next.attempt = run[r].attempt /\ next.staged = run[r].staged /\ next.seen = run[r].seen
      /\ next.report = run[r].report /\ next.clashed = run[r].clashed
  BY <1>2 DEF Shaped, Fields
<1> HIDE DEF next, known, more
<1>8. Outline(next, more)
  BY <1>1, <1>2, <1>3, <1>6, <1>7, KnownGrows DEF Outline
<1>9. Planning(next, more)
  BY <1>5, <1>6 DEF Planning
<1> QED
  BY <1>1, <1>3, <1>4, <1>8, <1>9, TypedStep DEF Typed, more

(* The files written are those of the extraction.                          *)
LEMMA WriteFileTyped ==
  ASSUME DagInv, OwnInv, TypesInv, NEW r \in Runs, WriteFile(r)
  PROVE  TypesInv'
<1> DEFINE known == 1..clock
           next == Advanced(run[r])
           piece == run[r].todo[1]
<1>1. /\ run' = [run EXCEPT ![r] = next] /\ run[r].task = "extract" /\ run[r].todo # <<>>
      /\ files' = files \cup {<<Piece(r)[2], Piece(r)[3]>>}
      /\ UNCHANGED <<clock, empty, suites, bronze, lake, raw, s3, failures, overlapped>>
  BY DEF WriteFile, Works
<1>2. /\ Shaped(run[r]) /\ Outline(run[r], known) /\ Planning(run[r], known) /\ DiskTyped
  BY RunTyped
<1> HIDE DEF known
<1>3. /\ Piece(r) = piece /\ piece \in WorkOf("extract", known) /\ Sequence(run[r].todo)
  BY <1>1, <1>2, FirstTyped DEF Piece, FileTasks
<1>4. <<piece[2], piece[3]>> \in SourceFiles(known)
  BY <1>3 DEF WorkOf, SourceFiles
<1>5. DiskTyped'
  <2>1. files' \subseteq SourceFiles(known)
    BY <1>1, <1>2, <1>3, <1>4 DEF DiskTyped, known
  <2>2. (1..clock)' = known
    BY <1>1 DEF known
  <2> QED
    BY <1>1, <1>2, <2>1, <2>2 DEF DiskTyped, SourceFiles, BronzeFiles, Rows, known
<1>6. Typed(next, known)
  BY <1>1, <1>2, <1>3, AdvancedTyped DEF Planning, WorkingTasks, FileTasks
<1> HIDE DEF next
<1> QED
  BY <1>1, <1>5, <1>6, TypedLocal DEF known

(* The newest of the files there are is one of them.                       *)
LEMMA NewestIsThere ==
  ASSUME NEW n \in Nat, NEW S, S \subseteq 1..n, S # {}
  PROVE  Max(S) \in S
<1> DEFINE back == {k \in Nat : n - k \in S}
<1>1. back # {} /\ back \subseteq Nat
  <2>1. PICK x \in S : x \in 1..n
    OBVIOUS
  <2>2. n - x \in Nat /\ n - (n - x) = x
    BY <2>1
  <2> QED
    BY <2>1, <2>2
<1> HIDE DEF back
<1>2. PICK k \in back : \A j \in back : ~(j < k)
  <2>1. IsWellFoundedOn(OpToRel(<, Nat), Nat)
    BY NatLessThanWellFounded
  <2>2. PICK k \in back : \A j \in back : <<j, k>> \notin OpToRel(<, Nat)
    BY <1>1, <2>1, WFMin
  <2> QED
    BY <1>1, <2>2 DEF OpToRel
<1>3. n - k \in S /\ k \in Nat
  BY <1>2 DEF back
<1>4. \A y \in S : n - k >= y
  <2> SUFFICES ASSUME NEW y \in S PROVE n - k >= y
    OBVIOUS
  <2>1. y \in Nat /\ n - y \in Nat /\ n - (n - y) = y
    OBVIOUS
  <2>2. n - y \in back
    BY <2>1 DEF back
  <2>3. ~(n - y < k)
    BY <1>2, <2>2
  <2> QED
    BY <1>3, <2>1, <2>3
<1> QED
  BY <1>3, <1>4 DEF Max

(* The newest file of a dataset is of an extraction that took place.       *)
LEMMA LatestTyped ==
  ASSUME DiskTyped, clock \in Nat, NEW d
  PROVE  /\ Latest(d) \in {0} \cup (1..clock)
         /\ Stamps(d) # {} => d \in FileSet /\ Latest(d) \in 1..clock
<1>1. \A f \in files : f[1] \in FileSet /\ f[2] \in 1..clock
  BY DEF DiskTyped, SourceFiles, FileSet
<1>2. Stamps(d) \subseteq 1..clock /\ (Stamps(d) # {} => d \in FileSet)
  BY <1>1 DEF Stamps
<1>3. Stamps(d) # {} => Latest(d) = Max(Stamps(d)) /\ Max(Stamps(d)) \in Stamps(d)
  BY <1>2, NewestIsThere DEF Latest
<1>4. Stamps(d) = {} => Latest(d) = 0
  BY DEF Latest
<1> QED
  BY <1>2, <1>3, <1>4

(* What is found on disk is work on files that are there.                  *)
LEMMA DiscoveredTyped ==
  ASSUME DiskTyped, clock \in Nat, NEW phase, NEW S, {phase} \X FileSet \X (1..clock) \subseteq S
  PROVE  Discovered(phase) \in Seq(S)
<1> DEFINE Of(d) == IF Stamps(d) = {} THEN <<>> ELSE << <<phase, d, Latest(d)>> >>
<1>1. ASSUME NEW d PROVE Of(d) \in Seq(S)
  <2>1. CASE Stamps(d) = {}
    BY <2>1
  <2>2. CASE Stamps(d) # {}
    <3>1. d \in FileSet /\ Latest(d) \in 1..clock
      BY <2>2, LatestTyped
    <3>2. <<phase, d, Latest(d)>> \in S
      BY <3>1
    <3> QED
      BY <2>2, <3>2
  <2> QED
    BY <2>1, <2>2
<1>2. Discovered(phase) = Of("accounts") \o Of("customers") \o Of("transactions")
  BY DEF Discovered
<1> HIDE DEF Of
<1>3. Of("accounts") \in Seq(S) /\ Of("customers") \in Seq(S) /\ Of("transactions") \in Seq(S)
  BY <1>1
<1> QED
  BY <1>2, <1>3

(* Work planned keeps the rest of the run.                                 *)
LEMMA PlannedTyped ==
  ASSUME NEW known, NEW state, Shaped(state), Outline(state, known), state.task \in FileTasks,
         NEW work \in Seq(WorkOf(state.task, known))
  PROVE  Typed([state EXCEPT !.todo = work], known)
<1> DEFINE next == [state EXCEPT !.todo = work]
<1>1. /\ next.task = state.task /\ next.todo = work
      /\ next.attempt = state.attempt /\ next.staged = state.staged /\ next.seen = state.seen
      /\ next.report = state.report /\ next.clashed = state.clashed
  BY DEF Shaped, Fields
<1> HIDE DEF next
<1>2. Outline(next, known)
  BY <1>1 DEF Outline
<1>3. Planning(next, known)
  BY <1>1 DEF Planning, FileTasks
<1> QED
  BY <1>2, <1>3 DEF Typed, next

(* The suites are of the datasets that are extracted.                      *)
LEMMA ValidationTyped ==
  ASSUME DagInv, OwnInv, TypesInv, NEW r \in Runs,
         PlanValidation(r) \/ ClearSuite(r) \/ AddSuiteAndRun(r)
  PROVE  TypesInv'
<1> DEFINE known == 1..clock
           piece == run[r].todo[1]
<1>1. /\ run[r].task = "validate"
      /\ UNCHANGED <<clock, empty, files, bronze, lake, raw, s3, failures, overlapped>>
  BY DEF PlanValidation, Planned, Begins, ClearSuite, AddSuiteAndRun, Works, disk
<1>2. /\ Shaped(run[r]) /\ Outline(run[r], known) /\ Planning(run[r], known) /\ DiskTyped
      /\ clock \in Nat
  BY RunTyped
<1> HIDE DEF known
<1>3. WorkOf("validate", known) = {"clear", "add"} \X FileSet \X known
  BY DEF WorkOf, FileSet
<1>4. ASSUME suites' \subseteq FileSet PROVE DiskTyped'
  <2>1. (1..clock)' = known
    BY <1>1 DEF known
  <2> QED
    BY <1>1, <1>2, <1>4, <2>1 DEF DiskTyped, SourceFiles, BronzeFiles, Rows, known
<1>5. CASE PlanValidation(r)
  <2> DEFINE work == Discovered("clear")
  <2>1. run' = [run EXCEPT ![r] = [run[r] EXCEPT !.todo = work]] /\ suites' = suites
    BY <1>5 DEF PlanValidation, Planned, disk
  <2>2. work \in Seq(WorkOf("validate", known))
    <3>1. {"clear"} \X FileSet \X (1..clock) \subseteq WorkOf("validate", known)
      BY <1>3 DEF known
    <3> QED
      BY <1>2, <3>1, DiscoveredTyped
  <2> HIDE DEF work
  <2>3. Typed([run[r] EXCEPT !.todo = work], known)
    BY <1>1, <1>2, <2>2, PlannedTyped DEF FileTasks
  <2>4. DiskTyped'
    BY <1>2, <1>4, <2>1 DEF DiskTyped
  <2> QED
    BY <1>1, <2>1, <2>3, <2>4, TypedLocal DEF known
<1>6. ASSUME run[r].todo # <<>>
      PROVE  /\ Piece(r) = piece /\ piece \in WorkOf("validate", known) /\ Sequence(run[r].todo)
             /\ piece[2] \in FileSet /\ piece[3] \in known
             /\ run[r].todo \in Seq(WorkOf("validate", known))
  <2>1. Piece(r) = piece /\ piece \in WorkOf("validate", known) /\ Sequence(run[r].todo)
    BY <1>1, <1>2, <1>6, FirstTyped DEF Piece, FileTasks
  <2> QED
    BY <1>1, <1>2, <1>3, <2>1 DEF Planning, FileTasks
<1>7. CASE ClearSuite(r)
  <2>1. /\ run[r].todo # <<>> /\ suites' = suites \ {Piece(r)[2]}
        /\ run' = [run EXCEPT ![r] = Turned(run[r], "add")]
    BY <1>7 DEF ClearSuite, Works, Cleared
  <2>2. DiskTyped'
    BY <1>2, <1>4, <2>1 DEF DiskTyped
  <2>3. <<"add", piece[2], piece[3]>> \in WorkOf("validate", known)
    BY <1>3, <1>6, <2>1
  <2>4. Typed(Turned(run[r], "add"), known)
    BY <1>1, <1>2, <1>6, <2>1, <2>3, TurnedTyped
  <2> QED
    BY <1>1, <2>1, <2>2, <2>4, TypedLocal DEF known
<1>8. CASE AddSuiteAndRun(r)
  <2> DEFINE retried == Retried(run[r])
             clashed == [retried EXCEPT !.clashed = TRUE]
             next == IF Piece(r)[2] \in suites THEN clashed
                     ELSE IF HoldsNothing(Piece(r)) THEN retried ELSE Advanced(run[r])
  <2>1. /\ run[r].todo # <<>> /\ suites' = suites \cup {Piece(r)[2]}
        /\ run' = [run EXCEPT ![r] = next]
    BY <1>8 DEF AddSuiteAndRun, Works
  <2>2. DiskTyped'
    BY <1>2, <1>4, <1>6, <2>1 DEF DiskTyped
  <2>3. Typed(retried, known) /\ Shaped(retried)
    BY <1>2, RetriedTyped, RetriedFacts
  <2>4. Typed(Advanced(run[r]), known)
    BY <1>1, <1>2, <1>6, <2>1, AdvancedTyped DEF WorkingTasks
  <2> HIDE DEF retried
  <2>5. Typed(clashed, known)
    <3>1. /\ clashed.task = retried.task /\ clashed.todo = retried.todo
          /\ clashed.attempt = retried.attempt /\ clashed.staged = retried.staged
          /\ clashed.seen = retried.seen /\ clashed.report = retried.report
          /\ clashed.frame = retried.frame /\ clashed.clashed = TRUE
      BY <2>3 DEF Shaped, Fields
    <3> HIDE DEF clashed
    <3> QED
      BY <2>3, <3>1 DEF Typed, Outline, Planning
  <2> HIDE DEF clashed
  <2>6. Typed(next, known)
    BY <2>3, <2>4, <2>5
  <2> HIDE DEF next
  <2> QED
    BY <1>1, <2>1, <2>2, <2>6, TypedLocal DEF known
<1> QED
  BY <1>5, <1>7, <1>8

(* What is put is a file on disk and what is said of it.                   *)
LEMMA UploadTyped ==
  ASSUME DagInv, OwnInv, TypesInv, NEW r \in Runs, PlanUpload(r) \/ Put(r) \/ PutGivenUp(r)
  PROVE  TypesInv'
<1> DEFINE known == 1..clock
           piece == run[r].todo[1]
           Objects == {"data", "metadata"} \X FileSet \X known
<1>1. /\ run[r].task = "upload"
      /\ UNCHANGED <<clock, empty, files, suites, bronze, lake, s3, overlapped>>
      /\ failures' = failures \/ FailsOutside
  BY DEF PlanUpload, Planned, Begins, Put, PutGivenUp, Works, disk
<1>2. /\ Shaped(run[r]) /\ Outline(run[r], known) /\ Planning(run[r], known) /\ DiskTyped
      /\ clock \in Nat
  BY RunTyped
<1>3. WorkOf("upload", known) = Objects /\ raw \subseteq Objects
  BY <1>2 DEF WorkOf, FileSet, DiskTyped
<1> HIDE DEF known
<1>4. ASSUME raw' \subseteq Objects PROVE DiskTyped'
  <2>1. (1..clock)' = known
    BY <1>1 DEF known
  <2> QED
    BY <1>1, <1>2, <1>4, <2>1 DEF DiskTyped, SourceFiles, BronzeFiles, Rows, known
<1>5. CASE PlanUpload(r)
  <2> DEFINE work == Discovered("data")
  <2>1. run' = [run EXCEPT ![r] = [run[r] EXCEPT !.todo = work]] /\ raw' = raw
    BY <1>5 DEF PlanUpload, Planned, PutOrder
  <2>2. work \in Seq(WorkOf("upload", known))
    <3>1. {"data"} \X FileSet \X (1..clock) \subseteq WorkOf("upload", known)
      BY <1>3 DEF known
    <3> QED
      BY <1>2, <3>1, DiscoveredTyped
  <2> HIDE DEF work
  <2>3. Typed([run[r] EXCEPT !.todo = work], known)
    BY <1>1, <1>2, <2>2, PlannedTyped DEF FileTasks
  <2>4. DiskTyped'
    BY <1>3, <1>4, <2>1
  <2> QED
    BY <1>1, <2>1, <2>3, <2>4, TypedLocal DEF known
<1>6. ASSUME run[r].todo # <<>>
      PROVE  /\ Piece(r) = piece /\ piece \in WorkOf("upload", known) /\ Sequence(run[r].todo)
             /\ piece \in Objects /\ piece[2] \in FileSet /\ piece[3] \in known
             /\ run[r].todo \in Seq(WorkOf("upload", known))
  <2>1. Piece(r) = piece /\ piece \in WorkOf("upload", known) /\ Sequence(run[r].todo)
    BY <1>1, <1>2, <1>6, FirstTyped DEF Piece, FileTasks
  <2> QED
    BY <1>1, <1>2, <1>3, <2>1 DEF Planning, FileTasks
<1>7. Typed(Retried(run[r]), known)
  BY <1>2, RetriedTyped
<1>8. CASE Put(r)
  <2> DEFINE turned == Turned(run[r], "metadata")
             next == IF HoldsNothing(Piece(r)) THEN Retried(run[r])
                     ELSE IF Piece(r)[1] = "data" THEN turned ELSE Advanced(run[r])
  <2>1. /\ run[r].todo # <<>> /\ raw' \subseteq raw \cup {Piece(r)}
        /\ run' = [run EXCEPT ![r] = next]
    BY <1>8 DEF Put, Works, PutOrder
  <2>2. DiskTyped'
    <3>1. raw' \subseteq Objects
      BY <1>3, <1>6, <2>1
    <3> QED
      BY <1>4, <3>1
  <2>3. <<"metadata", piece[2], piece[3]>> \in WorkOf("upload", known)
    BY <1>3, <1>6, <2>1
  <2>4. Typed(turned, known)
    BY <1>1, <1>2, <1>6, <2>1, <2>3, TurnedTyped
  <2>5. Typed(Advanced(run[r]), known)
    BY <1>1, <1>2, <1>6, <2>1, AdvancedTyped DEF WorkingTasks
  <2> HIDE DEF turned
  <2>6. Typed(next, known)
    BY <1>7, <2>4, <2>5
  <2> HIDE DEF next
  <2> QED
    BY <1>1, <2>1, <2>2, <2>6, TypedLocal DEF known
<1>9. CASE PutGivenUp(r)
  <2>1. /\ run[r].todo # <<>> /\ raw' = raw \cup {Piece(r)}
        /\ run' = [run EXCEPT ![r] = Retried(run[r])]
    BY <1>9 DEF PutGivenUp, Works
  <2>2. DiskTyped'
    <3>1. raw' \subseteq Objects
      BY <1>3, <1>6, <2>1
    <3> QED
      BY <1>4, <3>1
  <2> QED
    BY <1>1, <1>7, <2>1, <2>2, TypedLocal DEF known
<1> QED
  BY <1>5, <1>8, <1>9

(* What there is to stage is on disk; the balances are of two such files.  *)
LEMMA StagingWorkTyped ==
  ASSUME DiskTyped, clock \in Nat, \A i \in DOMAIN Datasets : Latest(Datasets[i]) # 0
  PROVE  StagingWork \in Seq(WorkOf("stage", 1..clock))
<1> DEFINE known == 1..clock
           W == WorkOf("stage", known)
           n == Len(Datasets)
           copy(i) == <<"copy", Datasets[i], Latest(Datasets[i])>>
           copies == [i \in 1..n |-> copy(i)]
           derive == <<"derive", Balances, <<Latest("accounts"), Latest("transactions")>>>>
<1>1. W = ({"copy"} \X FileSet \X known) \cup ({"derive"} \X {Balances} \X (known \X known))
  BY DEF WorkOf, FileSet
<1>2. ASSUME NEW d \in FileSet PROVE Latest(d) \in known
  <2>1. Latest(d) # 0
    BY DatasetsFacts
  <2> QED
    BY <2>1, LatestTyped
<1>3. \A i \in 1..n : copy(i) \in W
  BY <1>1, <1>2, DatasetsFacts
<1>4. derive \in W
  BY <1>1, <1>2, DatasetsFacts
<1>5. StagingWork = Append(copies, derive) /\ n \in Nat
  BY DatasetsFacts DEF StagingWork
<1> HIDE DEF W, copy, derive
<1>6. copies \in Seq(W)
  BY <1>3, <1>5
<1> HIDE DEF copies
<1> QED
  BY <1>4, <1>5, <1>6 DEF W, known

(* What is staged is on disk, of extractions that took place.              *)
LEMMA StageTyped ==
  ASSUME DagInv, OwnInv, TypesInv, NEW r \in Runs, PlanStage(r) \/ StageFile(r)
  PROVE  TypesInv'
<1> DEFINE known == 1..clock
           piece == run[r].todo[1]
<1>1. /\ run[r].task = "stage"
      /\ UNCHANGED <<clock, empty, files, suites, lake, raw, s3, failures, overlapped>>
  BY DEF PlanStage, Begins, StageFile, Works, disk
<1>2. /\ Shaped(run[r]) /\ Outline(run[r], known) /\ Planning(run[r], known) /\ DiskTyped
      /\ clock \in Nat
  BY RunTyped
<1>3. CASE PlanStage(r) /\ \E i \in DOMAIN Datasets : Latest(Datasets[i]) = 0
  <2>1. run' = [run EXCEPT ![r] = Retried(run[r])] /\ DiskTyped'
    BY <1>1, <1>2, <1>3, DiskStands DEF PlanStage, disk
  <2> HIDE DEF known
  <2>2. Typed(Retried(run[r]), known)
    BY <1>2, RetriedTyped
  <2> QED
    BY <1>1, <2>1, <2>2, TypedLocal DEF known
<1>4. CASE PlanStage(r) /\ ~\E i \in DOMAIN Datasets : Latest(Datasets[i]) = 0
  <2> DEFINE work == StagingWork
             planned == [run[r] EXCEPT !.staged = {}]
             next == [run[r] EXCEPT !.staged = {}, !.todo = work]
  <2>1. run' = [run EXCEPT ![r] = next] /\ DiskTyped'
    BY <1>1, <1>2, <1>4, DiskStands DEF PlanStage, StagingWork, disk
  <2>2. work \in Seq(WorkOf("stage", known))
    BY <1>2, <1>4, StagingWorkTyped
  <2> HIDE DEF work, known
  <2>3. /\ Shaped(planned) /\ Outline(planned, known) /\ planned.task = "stage"
        /\ next = [planned EXCEPT !.todo = work]
    BY <1>1, <1>2 DEF Shaped, Fields, Outline
  <2> HIDE DEF planned, next
  <2>4. Typed(next, known)
    BY <2>2, <2>3, PlannedTyped DEF FileTasks
  <2> QED
    BY <1>1, <2>1, <2>4, TypedLocal DEF known
<1>5. CASE StageFile(r)
  <2> DEFINE file == <<Piece(r)[2], Piece(r)[3]>>
             staged == run[r].staged \cup {file}
             state == [run[r] EXCEPT !.staged = staged]
             next == Advanced(state)
  <2>1. /\ run' = [run EXCEPT ![r] = next] /\ run[r].todo # <<>>
        /\ bronze' = (bronze \ Overwritten(Piece(r))) \cup {file}
    BY <1>5 DEF StageFile, Works
  <2> HIDE DEF known
  <2>2. Piece(r) = piece /\ piece \in WorkOf("stage", known) /\ Sequence(run[r].todo)
    BY <1>1, <1>2, <2>1, FirstTyped DEF Piece, FileTasks
  <2>3. WorkOf("stage", known) =
          ({"copy"} \X FileSet \X known) \cup ({"derive"} \X {Balances} \X (known \X known))
    BY DEF WorkOf, FileSet
  <2>4. file \in BronzeFiles(known)
    BY <2>2, <2>3 DEF BronzeFiles, SourceFiles, FileSet
  <2> HIDE DEF file
  <2>5. staged \subseteq BronzeFiles(known)
    BY <1>2, <2>4 DEF Outline
  <2>6. DiskTyped'
    <3>1. bronze' \subseteq BronzeFiles(known)
      BY <1>2, <2>1, <2>4 DEF DiskTyped, known
    <3>2. (1..clock)' = known
      BY <1>1 DEF known
    <3> QED
      BY <1>1, <1>2, <3>1, <3>2 DEF DiskTyped, SourceFiles, BronzeFiles, Rows, known
  <2> HIDE DEF staged
  <2>7. /\ Shaped(state) /\ Outline(state, known) /\ state.task = "stage"
        /\ state.todo = run[r].todo
    BY <1>1, <1>2, <2>5 DEF Shaped, Fields, Outline
  <2> HIDE DEF state
  <2>8. Typed(next, known)
    BY <1>1, <1>2, <2>2, <2>7, AdvancedTyped DEF Planning, WorkingTasks, FileTasks
  <2> HIDE DEF next
  <2> QED
    BY <1>1, <2>1, <2>6, <2>8, TypedLocal DEF known
<1> QED
  BY <1>3, <1>4, <1>5

(* A frame holds rows of its table.                                        *)
LEMMA FrameTyped ==
  ASSUME DiskTyped, NEW table
  PROVE  FrameOf(table) \subseteq Rows(table, 1..clock)
<1> DEFINE known == 1..clock
<1>1. ASSUME NEW f \in bronze, f[1] = table PROVE f[2] \in Rows(table, known)
  <2>1. \/ f \in FileSet \X known
        \/ f \in {Balances} \X (known \X known)
    BY DEF DiskTyped, BronzeFiles, SourceFiles, FileSet
  <2> HIDE DEF known
  <2>2. CASE f \in FileSet \X known
    BY <1>1, <2>2, DatasetsFacts DEF Rows
  <2>3. CASE f \in {Balances} \X (known \X known)
    BY <1>1, <2>3 DEF Rows
  <2> QED
    BY <2>1, <2>2, <2>3
<1> QED
  BY <1>1 DEF FrameOf

(* A table is written from rows of that table.                             *)
LEMMA WriteTableTyped ==
  ASSUME DagInv, LakeInv, OwnInv, TypesInv, NEW r \in Runs, WriteTable(r)
  PROVE  TypesInv'
<1> DEFINE known == 1..clock
           todo == run[r].todo
           layer == Piece(r)[1]
           table == Piece(r)[2]
           frame == IF layer = Layers[1] THEN FrameOf(table) ELSE run[r].frame
           wrote == IF <<layer, table>> = <<"gold", "transactions">>
                    THEN lake[layer][table].version + 1 ELSE run[r].wrote
           state == [run[r] EXCEPT !.frame = frame, !.wrote = wrote]
           next == IF layer = "gold" THEN Advanced(state) ELSE Turned(state, "gold")
<1>1. /\ run[r].task = "spark" /\ todo # <<>> /\ run' = [run EXCEPT ![r] = next]
      /\ UNCHANGED <<clock, empty, files, suites, bronze, raw, s3, failures, overlapped>>
  BY DEF WriteTable, Works
<1>2. PICK rows \in Deduplications(table, frame) : WriteDelta(layer, table, rows)
  BY DEF WriteTable
<1>3. /\ Shaped(run[r]) /\ Outline(run[r], known) /\ Planning(run[r], known) /\ DiskTyped
      /\ clock \in Nat /\ LakeTypes
  BY RunTyped DEF LakeInv
<1>4. /\ todo \in Seq(SparkPieces) /\ Piece(r) = todo[1] /\ todo[1] \in SparkPieces
      /\ 1 \in DOMAIN todo /\ Sequence(todo)
  <2>1. todo \in Seq(SparkPieces)
    BY <1>1 DEF LakeInv, SparkState
  <2>2. Head(todo) = todo[1] /\ todo[1] \in SparkPieces /\ 1 \in DOMAIN todo
    BY <1>1, <2>1
  <2> QED
    BY <2>1, <2>2 DEF Piece, Sequence
<1>5. layer = todo[1][1] /\ table = todo[1][2] /\ layer \in LayerSet /\ table \in TableSet
  BY <1>4 DEF SparkPieces
<1>6. \A i \in DOMAIN todo : todo[i][1] # Layers[1] => i = 1 /\ run[r].frame \subseteq Rows(todo[i][2], known)
  BY <1>1, <1>3 DEF Planning
<1>7. frame \subseteq Rows(table, known)
  <2>1. FrameOf(table) \subseteq Rows(table, known)
    BY <1>3, FrameTyped
  <2> QED
    BY <1>4, <1>5, <1>6, <2>1
<1>0. run[r].todo = todo
  OBVIOUS
<1> HIDE DEF known, todo, layer, table, frame, wrote
<1>8. rows \subseteq Rows(table, known)
  BY <1>2, <1>7 DEF Deduplications
<1>9. DiskTyped'
  <2>1. ASSUME NEW l \in LayerSet, NEW t \in TableSet PROVE lake'[l][t].of \subseteq Rows(t, known)
    <3>1. CASE l = layer /\ t = table
      BY <1>2, <1>3, <1>5, <1>8, <3>1, OneTableWritten
    <3>2. CASE ~(l = layer /\ t = table)
      <4>1. lake'[l][t] = lake[l][t]
        BY <1>2, <1>3, <1>5, <3>2, OneTableWritten
      <4> QED
        BY <1>3, <4>1 DEF DiskTyped, known
    <3> QED
      BY <3>1, <3>2
  <2>2. (1..clock)' = known
    BY <1>1 DEF known
  <2>3. \A t : Rows(t, known) = (Rows(t, 1..clock))'
    BY <2>2 DEF Rows
  <2> QED
    BY <1>1, <1>3, <2>1, <2>2, <2>3 DEF DiskTyped, SourceFiles, BronzeFiles, known
<1>10. /\ Shaped(state) /\ state.task = "spark" /\ state.todo = todo /\ state.frame = frame
       /\ Outline(state, known)
  BY <1>0, <1>1, <1>3 DEF Shaped, Fields, Outline
<1> HIDE DEF state
<1>11. CASE layer = "gold"
  <2>1. Typed(Advanced(state), known)
    BY <1>4, <1>6, <1>10, AdvancedTyped DEF WorkingTasks, FileTasks
  <2> HIDE DEF next
  <2>2. next = Advanced(state)
    BY <1>11 DEF next
  <2> QED
    BY <1>1, <1>9, <2>1, <2>2, TypedLocal DEF known
<1>12. CASE layer # "gold"
  <2> DEFINE first == <<"gold", todo[1][2], todo[1][3]>>
             turned == Turned(state, "gold")
             work == <<first>> \o Tail(todo)
  <2>1. /\ turned.task = "spark" /\ turned.todo = work /\ turned.frame = frame
        /\ turned.seen = state.seen /\ Kept(turned, state)
    BY <1>10, TurnedFacts, TurnedFields
  <2>2. turned.attempt = state.attempt /\ turned.clashed = state.clashed
    <3> DEFINE turning == << <<"gold", state.todo[1][2], state.todo[1][3]>> >> \o Tail(state.todo)
    <3>1. turned = [state EXCEPT !.todo = turning]
      BY DEF Turned
    <3> HIDE DEF turning, turned
    <3> QED
      BY <1>10, <3>1 DEF Shaped, Fields
  <2> HIDE DEF turned
  <2>3. Outline(turned, known)
    BY <1>10, <2>1, <2>2 DEF Outline, Kept
  <2>4. first \in SparkPieces /\ first[2] = table
    BY <1>4, <1>5, LayersFacts DEF SparkPieces
  <2> HIDE DEF first
  <2>5. /\ DOMAIN work = 1..Len(todo) /\ Len(todo) \in Nat /\ work[1] = first
        /\ \A i \in 2..Len(todo) : work[i] = todo[i]
    BY <1>1, <1>4, <2>4, TurnedSequence
  <2> HIDE DEF work
  <2>6. ASSUME NEW i \in DOMAIN work, work[i][1] # Layers[1]
        PROVE  i = 1 /\ frame \subseteq Rows(work[i][2], known)
    <3>1. CASE i = 1
      BY <1>7, <2>4, <2>5, <3>1
    <3>2. CASE i # 1
      <4>1. i \in 2..Len(todo) /\ i \in DOMAIN todo
        BY <1>4, <2>5, <3>2
      <4> QED
        BY <1>6, <2>5, <2>6, <3>2, <4>1
    <3> QED
      BY <3>1, <3>2
  <2>7. Planning(turned, known)
    BY <2>1, <2>6 DEF Planning, FileTasks
  <2>8. next = turned
    BY <1>12 DEF turned
  <2> HIDE DEF next
  <2> QED
    BY <1>1, <1>9, <2>3, <2>7, <2>8, TypedLocal DEF Typed, known
<1> QED
  BY <1>11, <1>12

(* What a listing saw is a version of each table.                          *)
LEMMA PublishTyped ==
  ASSUME DagInv, LakeInv, OwnInv, TypesInv, NEW r \in Runs,
         ListFirst(r) \/ ListSecond(r) \/ UploadFiles(r)
  PROVE  TypesInv'
<1> DEFINE known == 1..clock
           todo == run[r].todo
           layer == todo[1][2]
           now == Versions(layer)
           before == run[r].seen
<1>1. /\ run[r].task = "publish" /\ todo # <<>>
      /\ UNCHANGED <<clock, empty, files, suites, bronze, raw, lake, failures, overlapped>>
  BY DEF ListFirst, ListSecond, UploadFiles, Works, disk
<1>2. /\ Shaped(run[r]) /\ Outline(run[r], known) /\ DiskTyped /\ LakeTypes
  BY RunTyped DEF LakeInv
<1>3. DiskTyped'
  BY <1>1, <1>2, DiskStands
<1>4. /\ PublishWork(todo) /\ Sequence(todo) /\ Piece(r) = todo[1]
      /\ todo[1][1] # "list" => Listed(before, LayerOf(todo[1]))
  BY <1>1, FirstPiece DEF LakeInv, PublishState, PublishWork, Sequence, Piece
<1>5. ASSUME todo[1][1] \in {"list", "list on"} PROVE now \in [TableSet -> Nat]
  <2>1. layer \in LayerSet
    BY <1>4, <1>5, FirstPiece DEF ListPieces
  <2> QED
    BY <1>2, <2>1, LakeFields DEF Versions, TableSet
<1>0. run[r].todo = todo /\ run[r].seen = before
  OBVIOUS
<1> HIDE DEF known, todo, layer, before, now
<1>6. CASE ListFirst(r)
  <2> DEFINE found == [log |-> now, data |-> now]
             state == [run[r] EXCEPT !.seen = found]
             next == Turned(state, "list on")
  <2>1. run' = [run EXCEPT ![r] = next] /\ todo[1][1] = "list"
    BY <1>4, <1>6 DEF ListFirst, now, layer
  <2>2. found \in Listings
    <3> DEFINE V == [TableSet -> Nat]
    <3>1. now \in V
      BY <1>5, <2>1
    <3> HIDE DEF V
    <3>2. found \in [{"log", "data"} -> V]
      BY <3>1
    <3> QED
      BY <3>2 DEF Listings, V
  <2> HIDE DEF found
  <2>3. Shaped(state) /\ Outline(state, known) /\ state.task = "publish" /\ state.todo = todo
    BY <1>0, <1>1, <1>2, <2>2 DEF Shaped, Fields, Outline
  <2> HIDE DEF state
  <2>4. Typed(next, known)
    BY <1>1, <2>3, TurnedTyped
  <2> HIDE DEF next
  <2> QED
    BY <1>1, <1>3, <2>1, <2>4, TypedLocal DEF known
<1>7. CASE ListSecond(r)
  <2> DEFINE found(second) == [before EXCEPT ![second] = now]
             work == [i \in DOMAIN PublishOrder |-> <<"log", PublishOrder[i], layer>>] \o Tail(todo)
             listed(second) == [run[r] EXCEPT !.seen = found(second), !.todo = work]
  <2>1. todo[1][1] = "list on"
    BY <1>4, <1>7 DEF ListSecond
  <2>2. PICK second \in {"log", "data"} : run' = [run EXCEPT ![r] = listed(second)]
    BY <1>0, <1>4, <1>7 DEF ListSecond, now, layer
  <2>3. before \in Listings
    BY <1>4, <2>1 DEF Listed, Listings
  <2>4. found(second) \in Listings
    BY <1>5, <2>1, <2>3 DEF Listings
  <2> DEFINE seen == found(second)
             next == listed(second)
  <2>5. next = [run[r] EXCEPT !.seen = seen, !.todo = work] /\ seen \in Listings
        /\ run' = [run EXCEPT ![r] = next]
    BY <2>2, <2>4
  <2> HIDE DEF seen, work, next
  <2>6. Outline(next, known) /\ next.task = "publish"
    BY <1>1, <1>2, <2>5 DEF Shaped, Fields, Outline
  <2>7. Planning(next, known)
    BY <2>6 DEF Planning, FileTasks
  <2> QED
    BY <1>1, <1>3, <2>5, <2>6, <2>7, TypedLocal DEF Typed, known
<1>8. CASE UploadFiles(r)
  <2> DEFINE turned == Turned(run[r], "data")
             advanced == Advanced(run[r])
             next == IF Piece(r)[1] = "log" THEN turned ELSE advanced
  <2>1. run' = [run EXCEPT ![r] = next]
    BY <1>8 DEF UploadFiles
  <2>2. Typed(turned, known)
    BY <1>0, <1>1, <1>2, TurnedTyped
  <2>3. Typed(advanced, known)
    BY <1>0, <1>1, <1>2, <1>4, AdvancedTyped DEF WorkingTasks, FileTasks
  <2> HIDE DEF turned, advanced
  <2>4. Typed(next, known)
    BY <2>2, <2>3
  <2> HIDE DEF next
  <2> QED
    BY <1>1, <1>3, <2>1, <2>4, TypedLocal DEF known
<1> QED
  BY <1>6, <1>7, <1>8

(* A report is about extractions that took place and a version of the fact *)
(* table.                                                                  *)
LEMMA ReportTyped ==
  ASSUME DagInv, LakeInv, OwnInv, TypesInv, NEW r \in Runs, Report(r)
  PROVE  TypesInv'
<1> DEFINE known == 1..clock
           report == [accounts |-> Latest("accounts"), transactions |-> Latest("transactions"),
                      fact_transaction |-> lake.gold["transactions"].version]
           state == [run[r] EXCEPT !.report = report]
           next == Finished(state)
<1>1. /\ run[r].task = "report" /\ run' = [run EXCEPT ![r] = next]
      /\ UNCHANGED <<clock, empty, files, suites, bronze, raw, lake, failures, overlapped>>
  BY DEF Report, Begins, disk
<1>2. /\ Shaped(run[r]) /\ Outline(run[r], known) /\ DiskTyped /\ LakeTypes /\ clock \in Nat
  BY RunTyped DEF LakeInv
<1>3. DiskTyped'
  BY <1>1, <1>2, DiskStands
<1>4. report \in Reports(known)
  <2>1. Latest("accounts") \in {0} \cup known /\ Latest("transactions") \in {0} \cup known
    BY <1>2, LatestTyped
  <2>2. lake.gold["transactions"].version \in Nat
    BY <1>2, LayersFacts, TablesFacts DEF LakeTypes
  <2> QED
    BY <2>1, <2>2 DEF Reports
<1> HIDE DEF report, known
<1>5. Shaped(state) /\ Outline(state, known) /\ state.task = "report"
  BY <1>1, <1>2, <1>4 DEF Shaped, Fields, Outline
<1> HIDE DEF state
<1>6. Typed(next, known)
  BY <1>5, FinishedTyped DEF WorkingTasks
<1> HIDE DEF next
<1> QED
  BY <1>1, <1>3, <1>6, TypedLocal DEF known

-----------------------------------------------------------------------------
(* The types hold before the first run.                                    *)
LEMMA InitTypesInv == Init => TypesInv
<1> SUFFICES ASSUME Init PROVE TypesInv
  OBVIOUS
<1>1. DiskTyped
  BY DEF Init, DiskTyped, LayerSet, TableSet
<1>2. ASSUME NEW r \in Runs PROVE Typed(run[r], 1..clock)
  <2> DEFINE known == 1..clock
  <2>1. /\ run[r].task = "none" /\ run[r].attempt = 0 /\ run[r].staged = {} /\ run[r].seen = <<>>
        /\ run[r].report = <<>> /\ run[r].clashed = FALSE
    BY DEF Init, Idle
  <2>2. 0 \in 0..Attempts
    BY AttemptsAssumption
  <2> HIDE DEF known
  <2>3. Outline(run[r], known)
    BY <2>1, <2>2 DEF Outline, TaskNames
  <2>4. Planning(run[r], known)
    BY <2>1 DEF Planning, FileTasks
  <2> QED
    BY <2>3, <2>4 DEF Typed, known
<1>3. failures \in 0..MaxFailures /\ overlapped \subseteq Runs
  BY AttemptsAssumption DEF Init
<1> QED
  BY <1>1, <1>2, <1>3 DEF TypesInv

(* Every step keeps them.                                                  *)
LEMMA TypesInvKept == DagInv /\ LakeInv /\ OwnInv /\ TypesInv /\ [Next]_vars => TypesInv'
<1> SUFFICES ASSUME DagInv, LakeInv, OwnInv, TypesInv, [Next]_vars PROVE TypesInv'
  OBVIOUS
<1>1. ASSUME NEW r \in Runs, StartRun(r) PROVE TypesInv'
  BY <1>1, StartTyped
<1>2. ASSUME NEW r \in Runs, TaskKilled(r) PROVE TypesInv'
  BY <1>2, KilledTyped
<1>3. ASSUME NEW r \in Runs, Work(r) PROVE TypesInv'
  BY <1>3, ExtractTyped, WriteFileTyped, ValidationTyped, UploadTyped, StageTyped,
     WriteTableTyped, PublishTyped, ReportTyped DEF Work
<1>4. ASSUME NEW r \in Runs, PutGivenUp(r) PROVE TypesInv'
  BY <1>4, UploadTyped
<1>5. CASE UNCHANGED vars
  <2>1. DiskTyped'
    BY <1>5, DiskStands DEF TypesInv, vars, disk
  <2> QED
    BY <1>5, <2>1 DEF vars, disk, TypesInv
<1> QED
  BY <1>1, <1>2, <1>3, <1>4, <1>5 DEF Next

(* What the invariants say together of one run.                            *)
LEMMA StateTyped ==
  ASSUME DagInv, LakeInv, OwnInv, TypesInv, NEW r \in Runs
  PROVE  StateOK(run[r], 1..clock)
<1> DEFINE known == 1..clock
           todo == run[r].todo
           task == run[r].task
<1>1. /\ Outline(run[r], known) /\ Planning(run[r], known) /\ clock \in Nat
      /\ Stamped(r) /\ SparkState(r) /\ PublishState(r) /\ WroteState(r)
  BY RunTyped DEF OwnInv, LakeInv
<1>2. run[r].own \in {0} \cup known
  BY <1>1 DEF Stamped
<1>3. todo \in Seq(WorkOf(task, known))
  <2>1. CASE task \in FileTasks
    BY <1>1, <2>1 DEF Planning
  <2>2. CASE task = "spark"
    <3>1. todo \in Seq(SparkPieces)
      BY <1>1, <2>2 DEF SparkState
    <3>2. WorkOf("spark", known) = SparkPieces
      BY DEF WorkOf, SparkPieces, LayerSet, TableSet
    <3> QED
      BY <2>2, <3>1, <3>2
  <2>3. CASE task = "publish"
    <3>1. todo \in Seq(ListPieces \cup PutPieces)
      BY <1>1, <2>3 DEF PublishState, PublishWork
    <3>2. WorkOf("publish", known) = ListPieces \cup PutPieces
      BY DEF WorkOf, ListPieces, PutPieces, LayerSet, TableSet
    <3> QED
      BY <2>3, <3>1, <3>2
  <2>4. CASE task \in {"none", "report", "done", "failed"}
    <3>1. todo = <<>>
      BY <1>1, <2>4 DEF Stamped, Planning
    <3>2. \A S : <<>> \in Seq(S)
      OBVIOUS
    <3> QED
      BY <3>1, <3>2
  <2>5. task \in FileTasks \cup {"spark", "publish", "none", "report", "done", "failed"}
    <3>1. task \in Range(TaskOrder) \cup {"none", "failed"}
      BY <1>1 DEF Outline, TaskNames
    <3>2. DOMAIN TaskOrder = 1..8
      BY DEF TaskOrder
    <3>3. \A i \in 1..8 : TaskOrder[i] \in {"extract", "validate", "upload", "stage", "spark",
                                             "publish", "report", "done"}
      BY DEF TaskOrder
    <3> QED
      BY <3>1, <3>2, <3>3 DEF Range, FileTasks
  <2> QED
    BY <2>1, <2>2, <2>3, <2>4, <2>5
<1>4. ASSUME task = "spark", todo # <<>>, todo[1][1] # Layers[1]
      PROVE  run[r].frame \subseteq Rows(todo[1][2], known)
  <2>1. todo \in Seq(SparkPieces)
    BY <1>1, <1>4 DEF SparkState
  <2>2. 1 \in DOMAIN todo
    BY <1>4, <2>1
  <2> QED
    BY <1>1, <1>4, <2>2 DEF Planning
<1>5. run[r].wrote \in Nat
  BY <1>1 DEF WroteState
<1>6. /\ task \in Range(TaskOrder) \cup {"none", "failed"} /\ run[r].attempt \in 0..Attempts
      /\ run[r].staged \subseteq BronzeFiles(known)
      /\ run[r].seen \in {<<>>} \cup [{"log", "data"} -> [Range(Tables) -> Nat]]
      /\ run[r].report \in {<<>>} \cup [accounts : {0} \cup known, transactions : {0} \cup known,
                                       fact_transaction : Nat]
      /\ run[r].clashed \in BOOLEAN
  BY <1>1 DEF Outline, TaskNames, Listings, Reports, TableSet
<1> QED
  BY <1>2, <1>3, <1>4, <1>5, <1>6 DEF StateOK

(* And of the disk, the lake and S3.                                       *)
LEMMA DagTyped ==
  ASSUME DagInv, LakeInv, OwnInv, TypesInv
  PROVE  TypeOK
<1>1. /\ DiskTyped /\ LakeTypes /\ clock \in Nat
      /\ failures \in 0..MaxFailures /\ overlapped \subseteq Runs
  BY DEF LakeInv, OwnInv, StampInv, TypesInv
<1>2. ASSUME NEW layer \in LayerSet, NEW table \in TableSet
      PROVE  /\ lake[layer][table] \in [version : Nat, of : SUBSET Rows(table, 1..clock)]
             /\ s3[layer][table] \in [log : Nat, data : Nat]
  <2>1. lake[layer][table].of \in SUBSET Rows(table, 1..clock)
    BY <1>1 DEF DiskTyped
  <2> DEFINE S == SUBSET Rows(table, 1..clock)
  <2>2. lake[layer][table].of \in S
    BY <2>1
  <2> HIDE DEF S
  <2> DEFINE entry == lake[layer][table]
             object == s3[layer][table]
  <2>3. /\ entry = [version |-> entry.version, of |-> entry.of] /\ entry.version \in Nat
        /\ object = [log |-> object.log, data |-> object.data]
        /\ object.log \in Nat /\ object.data \in Nat
    BY <1>1, LakeFields
  <2>4. entry.of \in S
    BY <2>2
  <2> HIDE DEF entry, object
  <2>5. entry \in [version : Nat, of : S]
    BY <2>3, <2>4
  <2>6. object \in [log : Nat, data : Nat]
    BY <2>3
  <2> QED
    BY <2>5, <2>6 DEF S, entry, object
<1>3. DOMAIN run = Runs
  BY DEF DagInv
<1>4. \A r \in Runs : StateOK(run[r], 1..clock)
  BY StateTyped
<1> QED
  BY <1>1, <1>2, <1>3, <1>4 DEF TypeOK, DiskTyped, FileSet, LayerSet, TableSet

(* In every reachable state of the DAG the disk, the lake, S3 and every run*)
(* hold files, rows, work and reports of extractions that took place, and  *)
(* nothing else.                                                           *)
THEOREM TypeCorrect == Spec => []TypeOK
<1> DEFINE Inv == DagInv /\ LakeInv /\ OwnInv /\ TypesInv
<1>1. Init => Inv
  BY InitDagInv, InitLakeInv, InitOwnInv, InitTypesInv
<1>2. Inv /\ [Next]_vars => Inv'
  BY DagInvKept, LakeInvKept, OwnInvKept, TypesInvKept
<1>3. Inv => TypeOK
  BY DagTyped
<1> QED
  BY <1>1, <1>2, <1>3, PTL DEF Spec

=============================================================================
