------------------------- MODULE StreamingDag_proofs -------------------------
(***************************************************************************)
(* Proofs that the gate of the streaming DAG holds for the run itself, and *)
(* leaks only what failed, as long as its runs do not overlap; and that a  *)
(* record gets into as many bronze files at most as runs may be active at  *)
(* the same time, overlapping or not.                                      *)
(***************************************************************************)
EXTENDS StreamingDag, FiniteSetTheorems, WellFoundedInduction, TLAPS

-----------------------------------------------------------------------------
(* The inductive invariant, in parts.                                      *)

Tasks == {"waiting", "capture", "consume", "validate", "transform", "done", "failed"}
Steps == {"put", "open", "poll", "canonical", "bronze", "return", "check", "read"}
Records == [by : Runs \cup {NoRun}, good : BOOLEAN]

(* A consumer has named its files when it writes them.                     *)
Named(r) == task[r] = "consume" /\ step[r] \in {"canonical", "bronze"} => name[r] # 0

TypeInv ==
  /\ stream \in Seq(Records)
  /\ task \in [Runs -> Tasks] /\ attempt \in [Runs -> 1..Attempts] /\ step \in [Runs -> Steps]
  /\ iterator \in [Runs -> Nat \ {0}] /\ batch \in [Runs -> SUBSET Nat]
  /\ names \in Nat /\ name \in [Runs -> 0..names]
  /\ canonical \in [DOMAIN canonical -> SUBSET Nat] /\ bronze \in [DOMAIN bronze -> SUBSET Nat]
  /\ DOMAIN canonical \in SUBSET (1..names) /\ DOMAIN bronze \in SUBSET (1..names)
  /\ transformed \in [Runs -> SUBSET (1..names)]
  /\ overlapped \in BOOLEAN
  /\ \A r \in Runs : Named(r)

(* No more runs are active than may be, and one at a time if none overlap. *)
ActiveInv ==
  /\ IsFiniteSet(Active) /\ Cardinality(Active) <= MaxActiveRuns
  /\ ~overlapped => \A q, r \in Active : q = r

(* From its naming on a run's batch is the newest file, until it has been  *)
(* validated.                                                              *)
Own(r) ==
  /\ task[r] = "waiting" => name[r] = 0
  /\ task[r] = "consume" /\ step[r] \in {"canonical", "bronze", "return"} =>
       name[r] = names /\ names >= 1
  /\ task[r] = "consume" /\ step[r] \in {"bronze", "return"} => names \in DOMAIN canonical
  /\ task[r] = "validate" => name[r] = names /\ names \in DOMAIN canonical
  /\ Past(r) => name[r] \in validated

OwnInv == ~overlapped => \A r \in Runs : Own(r)

(* What is read has been put.                                              *)
PutInv ==
  /\ \A r \in Runs : iterator[r] <= Len(stream) + 1 /\ batch[r] \subseteq 1..Len(stream)
  /\ \A n \in DOMAIN bronze : bronze[n] \subseteq 1..Len(stream)

(* The bronze files that hold a record, and the runs whose consumer may    *)
(* still write it to one: it has collected the record or not come to it.   *)
Holding(k) == {n \in DOMAIN bronze : k \in bronze[n]}

MayHold(r, k) ==
  /\ task[r] = "consume"
  /\ \/ step[r] = "poll" /\ k >= iterator[r]
     \/ step[r] \in {"poll", "canonical", "bronze"} /\ k \in batch[r]

Holders(k) == {r \in Runs : MayHold(r, k)}

HoldInv ==
  \A k \in 1..Len(stream) :
    /\ IsFiniteSet(Holding(k)) /\ IsFiniteSet(Holders(k))
    /\ Cardinality(Holding(k)) + Cardinality(Holders(k)) <= MaxActiveRuns

DagInv == TypeInv /\ ActiveInv /\ OwnInv /\ BadOnlyFromFailures /\ PutInv /\ HoldInv

-----------------------------------------------------------------------------
(* The operators.                                                          *)

(* Where each task begins.                                                 *)
LEMMA FirstSteps ==
  /\ FirstStep["capture"] = "put" /\ FirstStep["consume"] = "open"
  /\ FirstStep["validate"] = "check" /\ FirstStep["transform"] = "read"
BY DEF FirstStep

(* A directory with one more file, or with one written again.              *)
LEMMA WithTyped ==
  ASSUME NEW dir, NEW S, dir \in [DOMAIN dir -> S], NEW n, NEW records \in S
  PROVE  With(dir, n, records) \in [DOMAIN With(dir, n, records) -> S]
BY DEF With

(* The newest file is the one to validate.                                 *)
LEMMA NewestIsInput ==
  ASSUME NEW r, TypeInv, names \in DOMAIN canonical
  PROVE  Input(r) = names
<1> DEFINE S == DOMAIN canonical
<1>1. S \subseteq 1..names /\ names \in S /\ names \in Nat
  BY DEF TypeInv
<1> HIDE DEF S
<1>2. \A x \in S : names >= x
  BY <1>1
<1>3. Max(S) \in S /\ \A x \in S : Max(S) >= x
  BY <1>1, <1>2 DEF Max
<1>4. \A x \in S : x \in Nat
  BY <1>1
<1>5. Max(S) = names
  <2>1. Max(S) \in Nat /\ Max(S) >= names /\ names >= Max(S)
    BY <1>1, <1>2, <1>3, <1>4
  <2> QED
    BY <1>1, <2>1
<1> QED
  BY <1>5 DEF Input, S

-----------------------------------------------------------------------------
(* Type correctness.                                                       *)

(* Every variable keeps its type.                                          *)
LEMMA TypeInvCorrect == Spec => []TypeInv
<1>1. Init => TypeInv
  <2> SUFFICES ASSUME Init PROVE TypeInv
    OBVIOUS
  <2>1. stream \in Seq(Records)
    BY DEF Init
  <2>2. canonical \in [DOMAIN canonical -> SUBSET Nat] /\ DOMAIN canonical = {}
    BY DEF Init
  <2>3. bronze \in [DOMAIN bronze -> SUBSET Nat] /\ DOMAIN bronze = {}
    BY DEF Init
  <2>4. /\ task \in [Runs -> Tasks] /\ attempt \in [Runs -> 1..Attempts] /\ step \in [Runs -> Steps]
        /\ iterator \in [Runs -> Nat \ {0}] /\ batch \in [Runs -> SUBSET Nat]
    BY DagAssumption DEF Init, Tasks, Steps
  <2>5. /\ names \in Nat /\ name \in [Runs -> 0..names] /\ overlapped \in BOOLEAN
        /\ transformed \in [Runs -> SUBSET (1..names)]
    <3>1. names = 0 /\ name = [r \in Runs |-> 0] /\ overlapped = FALSE /\ transformed = [r \in Runs |-> {}]
      BY DEF Init
    <3>2. 0 \in 0..names
      BY <3>1
    <3> QED
      BY <3>1, <3>2
  <2>6. \A r \in Runs : Named(r)
    BY DEF Init, Named
  <2> QED
    BY <2>1, <2>2, <2>3, <2>4, <2>5, <2>6 DEF TypeInv
<1>2. TypeInv /\ [Next]_vars => TypeInv'
  <2> SUFFICES ASSUME TypeInv, [Next]_vars PROVE TypeInv'
    OBVIOUS
  <2> USE DagAssumption, FirstSteps
  <2>1. ASSUME NEW by \in Runs \cup {NoRun}, NEW good \in BOOLEAN, Put(by, good)
        PROVE  stream' \in Seq(Records)
    BY <2>1 DEF Put, TypeInv, Records
  <2>2. ASSUME NEW r \in Active, Retry(r)
        PROVE  /\ task' \in [Runs -> Tasks] /\ attempt' \in [Runs -> 1..Attempts] /\ step' \in [Runs -> Steps]
               /\ name' = name => \A q \in Runs : Named(q)'
    <3>1. CASE Exhausted(r)
      BY <2>2, <3>1 DEF Retry, TypeInv, Tasks, Named
    <3>2. CASE ~Exhausted(r)
      <4>1. task' = task /\ attempt' = [attempt EXCEPT ![r] = IF @ < Attempts THEN @ + 1 ELSE @]
            /\ step' = [step EXCEPT ![r] = FirstStep[task[r]]]
        BY <2>2, <3>2 DEF Retry
      <4>2. attempt' \in [Runs -> 1..Attempts]
        <5>1. \A n \in 1..Attempts : (IF n < Attempts THEN n + 1 ELSE n) \in 1..Attempts
          OBVIOUS
        <5>2. attempt \in [Runs -> 1..Attempts] /\ r \in Runs
          BY DEF TypeInv, Active
        <5> HIDE DagAssumption
        <5> QED
          BY <4>1, <5>1, <5>2
      <4>3. task[r] \in {"capture", "consume", "validate", "transform"}
        BY <2>2 DEF Active, TypeInv, Tasks
      <4>4. FirstStep[task[r]] \in Steps
        BY <4>3 DEF Steps
      <4>5. name' = name => \A q \in Runs : Named(q)'
        BY <4>1, <4>3 DEF Named, TypeInv
      <4> QED
        BY <4>1, <4>2, <4>4, <4>5 DEF TypeInv
    <3> QED
      BY <3>1, <3>2
  <2>3. ASSUME NEW r \in Runs, NEW next \in {"capture", "consume", "validate", "transform"}, Begin(r, next)
        PROVE  /\ task' \in [Runs -> Tasks] /\ attempt' \in [Runs -> 1..Attempts] /\ step' \in [Runs -> Steps]
               /\ name' = name => \A q \in Runs : Named(q)'
    <3>1. task' \in [Runs -> Tasks] /\ attempt' \in [Runs -> 1..Attempts] /\ step' \in [Runs -> Steps]
      BY <2>3 DEF Begin, TypeInv, Tasks, Steps
    <3>2. step'[r] \notin {"canonical", "bronze"}
      BY <2>3 DEF Begin, TypeInv
    <3>3. \A q \in Runs : q # r => task'[q] = task[q] /\ step'[q] = step[q]
      BY <2>3 DEF Begin, TypeInv
    <3> QED
      BY <3>1, <3>2, <3>3 DEF Named, TypeInv
  <2>4. CASE ProducerPuts
    BY <2>1, <2>4 DEF ProducerPuts, TypeInv, Named, files
  <2>5. ASSUME NEW r \in Runs, RunStep(r) PROVE TypeInv'
    <3>1. CASE StartRun(r)
      BY <2>3, <3>1 DEF StartRun, TypeInv, Named, files
    <3>2. CASE CaptureEnds(r)
      BY <2>3, <3>2 DEF CaptureEnds, TypeInv, Named, files
    <3>3. CASE ConsumeOpens(r)
      <4>1. Opened \in Nat \ {0}
        BY DEF Opened, TypeInv
      <4> QED
        BY <3>3, <4>1 DEF ConsumeOpens, TypeInv, Named, files, Steps
    <3>4. CASE ConsumeStops(r)
      <4>1. /\ names' = names + 1 /\ name' = [name EXCEPT ![r] = names + 1]
            /\ step' = [step EXCEPT ![r] = "canonical"]
            /\ UNCHANGED <<stream, task, attempt, iterator, batch, canonical, bronze, transformed, overlapped>>
        BY <3>4 DEF ConsumeStops
      <4>2. names' \in Nat /\ 0..names \subseteq 0..names' /\ 1..names \subseteq 1..names' /\ names' \in 1..names'
        BY <4>1 DEF TypeInv
      <4>3. step' \in [Runs -> Steps] /\ name' \in [Runs -> 0..names']
        BY <4>1, <4>2 DEF TypeInv, Steps
      <4>4. \A q \in Runs : Named(q)'
        BY <4>1, <4>2 DEF TypeInv, Named
      <4>5. /\ DOMAIN canonical' \in SUBSET (1..names') /\ DOMAIN bronze' \in SUBSET (1..names')
            /\ transformed' \in [Runs -> SUBSET (1..names')]
        BY <4>1, <4>2 DEF TypeInv
      <4> QED
        BY <4>1, <4>2, <4>3, <4>4, <4>5 DEF TypeInv
    <3>5. CASE WriteCanonical(r)
      <4>1. step' \in [Runs -> Steps]
        BY <3>5 DEF WriteCanonical, TypeInv, Steps
      <4>2. /\ canonical' \in [DOMAIN canonical' -> SUBSET Nat]
            /\ DOMAIN canonical' \in SUBSET (1..names)
        <5>1. name[r] \in 1..names /\ batch[r] \in SUBSET Nat /\ canonical' = With(canonical, name[r], batch[r])
          BY <3>5 DEF WriteCanonical, TypeInv, Named
        <5>2. canonical \in [DOMAIN canonical -> SUBSET Nat] /\ DOMAIN canonical \subseteq 1..names
          BY DEF TypeInv
        <5>3. canonical' \in [DOMAIN canonical' -> SUBSET Nat]
          BY <5>1, <5>2, WithTyped
        <5>4. DOMAIN With(canonical, name[r], batch[r]) = DOMAIN canonical \cup {name[r]}
          BY DEF With
        <5> QED
          BY <5>1, <5>2, <5>3, <5>4
      <4> QED
        BY <3>5, <4>1, <4>2 DEF WriteCanonical, TypeInv, Named
    <3>6. CASE WriteBronze(r)
      <4>1. step' \in [Runs -> Steps]
        BY <3>6 DEF WriteBronze, TypeInv, Steps
      <4>2. /\ bronze' \in [DOMAIN bronze' -> SUBSET Nat]
            /\ DOMAIN bronze' \in SUBSET (1..names)
        <5>1. name[r] \in 1..names /\ batch[r] \in SUBSET Nat /\ bronze' = With(bronze, name[r], batch[r])
          BY <3>6 DEF WriteBronze, TypeInv, Named
        <5>2. bronze \in [DOMAIN bronze -> SUBSET Nat] /\ DOMAIN bronze \subseteq 1..names
          BY DEF TypeInv
        <5>3. bronze' \in [DOMAIN bronze' -> SUBSET Nat]
          BY <5>1, <5>2, WithTyped
        <5>4. DOMAIN With(bronze, name[r], batch[r]) = DOMAIN bronze \cup {name[r]}
          BY DEF With
        <5> QED
          BY <5>1, <5>2, <5>3, <5>4
      <4> QED
        BY <3>6, <4>1, <4>2 DEF WriteBronze, TypeInv, Named
    <3>7. CASE ConsumeReturns(r)
      BY <2>3, <3>7 DEF ConsumeReturns, TypeInv, Named, files
    <3>8. CASE ValidatePasses(r)
      BY <2>3, <3>8 DEF ValidatePasses, TypeInv, Named, files
    <3>9. CASE ValidateFails(r)
      BY <2>2, <3>9 DEF ValidateFails, Active, TypeInv, Named, files
    <3>10. CASE TransformReads(r)
      BY <3>10 DEF TransformReads, TypeInv, Named, files, Tasks
    <3> QED
      BY <2>5, <3>1, <3>2, <3>3, <3>4, <3>5, <3>6, <3>7, <3>8, <3>9, <3>10 DEF RunStep
  <2>6. ASSUME NEW r \in Runs, Others(r) PROVE TypeInv'
    <3>1. CASE TaskFails(r)
      BY <2>2, <3>1 DEF TaskFails, TypeInv, Named, files
    <3>2. ASSUME NEW good \in BOOLEAN, CapturePuts(r, good) PROVE TypeInv'
      BY SMTT(30), <2>1, <3>2 DEF CapturePuts, TypeInv, Named, files
    <3>3. ASSUME NEW count \in Positions, ConsumePolls(r, count) PROVE TypeInv'
      <4>1. /\ count \in Nat \ {0} /\ iterator[r] \in Nat \ {0} /\ batch[r] \in SUBSET Nat
            /\ iterator' = [iterator EXCEPT ![r] = iterator[r] + count]
            /\ batch' = [batch EXCEPT ![r] = batch[r] \cup (iterator[r]..(iterator[r] + count - 1))]
        BY <3>3 DEF ConsumePolls, TypeInv, Positions
      <4>2. iterator[r] + count \in Nat \ {0} /\ iterator[r]..(iterator[r] + count - 1) \subseteq Nat
        BY <4>1
      <4>3. iterator' \in [Runs -> Nat \ {0}] /\ batch' \in [Runs -> SUBSET Nat]
        BY <4>1, <4>2 DEF TypeInv
      <4> QED
        BY <3>3, <4>3 DEF ConsumePolls, TypeInv, Named, files
    <3> QED
      BY <2>6, <3>1, <3>2, <3>3 DEF Others
  <2>7. CASE UNCHANGED vars
    BY <2>7 DEF vars, files, TypeInv, Named
  <2> QED
    BY <2>4, <2>5, <2>6, <2>7 DEF Next, Over
<1> QED
  BY <1>1, <1>2, PTL DEF Spec

-----------------------------------------------------------------------------
(* What a step does to the runs.                                           *)

(* The run at work is an active one, or starts when another may; the other *)
(* runs stay as they are.                                                  *)
LEMMA Worker ==
  ASSUME TypeInv, NEW r \in Runs, RunStep(r) \/ Others(r)
  PROVE  /\ \A q \in Runs \ {r} : /\ task'[q] = task[q] /\ step'[q] = step[q] /\ name'[q] = name[q]
                                  /\ iterator'[q] = iterator[q] /\ batch'[q] = batch[q]
         /\ \/ r \in Active /\ overlapped' = overlapped
            \/ StartRun(r)
         /\ Active' \subseteq Active \cup {r}
         /\ task[r] # "failed" /\ task'[r] # "waiting"
<1> DEFINE Same == \A q \in Runs \ {r} :
             /\ task'[q] = task[q] /\ step'[q] = step[q] /\ name'[q] = name[q]
             /\ iterator'[q] = iterator[q] /\ batch'[q] = batch[q]
           Ends == task[r] \notin {"waiting", "done", "failed"} /\ task'[r] # "waiting" /\ overlapped' = overlapped
<1>1. ASSUME r \in Active, Retry(r), UNCHANGED <<iterator, batch, name, overlapped>> PROVE Same /\ Ends
  <2>1. CASE Exhausted(r)
    BY <1>1, <2>1 DEF Retry, Active, TypeInv
  <2>2. CASE ~Exhausted(r)
    BY <1>1, <2>2 DEF Retry, Active, TypeInv
  <2> QED
    BY <2>1, <2>2
<1>2. ASSUME NEW next \in {"consume", "validate", "transform"}, Begin(r, next), r \in Active,
             UNCHANGED <<iterator, batch, name, overlapped>>
      PROVE  Same /\ Ends
  BY <1>2 DEF Begin, TypeInv, Active
<1>3. CASE StartRun(r)
  <2>1. Same /\ task[r] = "waiting" /\ task'[r] = "capture"
    BY <1>3 DEF StartRun, Begin, TypeInv
  <2> HIDE DEF Ends
  <2> QED
    BY <1>3, <2>1 DEF Active
<1>4. CASE ~StartRun(r)
  <2>1. Same /\ Ends
    <3>1. CASE TaskFails(r) \/ ValidateFails(r)
      BY <1>1, <3>1 DEF TaskFails, ValidateFails, Active
    <3>2. CASE CaptureEnds(r) \/ ConsumeReturns(r) \/ ValidatePasses(r)
      BY <1>2, <3>2 DEF CaptureEnds, ConsumeReturns, ValidatePasses, Active
    <3>3. CASE ConsumeOpens(r)
      BY <3>3 DEF ConsumeOpens, TypeInv
    <3>4. CASE ConsumeStops(r)
      BY <3>4 DEF ConsumeStops, TypeInv
    <3>5. CASE WriteCanonical(r) \/ WriteBronze(r)
      BY <3>5 DEF WriteCanonical, WriteBronze, TypeInv
    <3>6. CASE TransformReads(r)
      BY <3>6 DEF TransformReads, TypeInv
    <3>7. CASE \E good \in BOOLEAN : CapturePuts(r, good)
      BY <3>7 DEF CapturePuts, TypeInv
    <3>8. CASE \E count \in Positions : ConsumePolls(r, count)
      BY <3>8 DEF ConsumePolls, TypeInv
    <3> HIDE DEF Same, Ends
    <3> QED
      BY <1>4, <3>1, <3>2, <3>3, <3>4, <3>5, <3>6, <3>7, <3>8 DEF RunStep, Others
  <2> HIDE DEF Same
  <2>2. Active' \subseteq Active \cup {r}
    BY <2>1 DEF Active, Same
  <2> QED
    BY <2>1, <2>2 DEF Active, Same
<1> QED
  BY <1>3, <1>4

(* Never more runs are active than MaxActiveRuns.                          *)
LEMMA ActiveInvCorrect == Spec => []ActiveInv
<1>1. Init => ActiveInv
  <2> SUFFICES ASSUME Init PROVE ActiveInv
    OBVIOUS
  <2>1. Active = {}
    BY DEF Init, Active
  <2> QED
    BY <2>1, FS_EmptySet, DagAssumption DEF ActiveInv
<1>2. TypeInv /\ ActiveInv /\ [Next]_vars => ActiveInv'
  <2> SUFFICES ASSUME TypeInv, ActiveInv, [Next]_vars PROVE ActiveInv'
    OBVIOUS
  <2>1. ASSUME NEW r \in Runs, RunStep(r) \/ Others(r) PROVE ActiveInv'
    <3>1. CASE r \in Active /\ overlapped' = overlapped
      <4>1. Active' \in SUBSET Active
        BY <2>1, <3>1, Worker
      <4>2. IsFiniteSet(Active') /\ Cardinality(Active') <= Cardinality(Active)
        BY <4>1, FS_Subset DEF ActiveInv
      <4>3. Cardinality(Active) \in Nat /\ Cardinality(Active') \in Nat
        BY <4>2, FS_CardinalityType DEF ActiveInv
      <4> QED
        BY <3>1, <4>1, <4>2, <4>3, DagAssumption DEF ActiveInv
    <3>2. CASE StartRun(r)
      <4>1. Active' \in SUBSET (Active \cup {r}) /\ r \notin Active
        BY <2>1, <3>2, Worker DEF StartRun, Active
      <4>2. IsFiniteSet(Active \cup {r}) /\ Cardinality(Active \cup {r}) = Cardinality(Active) + 1
        BY <4>1, FS_AddElement DEF ActiveInv
      <4>3. IsFiniteSet(Active') /\ Cardinality(Active') <= Cardinality(Active \cup {r})
        BY <4>1, <4>2, FS_Subset
      <4>4. Cardinality(Active) \in Nat /\ Cardinality(Active') \in Nat
        BY <4>3, FS_CardinalityType DEF ActiveInv
      <4>5. Cardinality(Active') <= MaxActiveRuns
        BY <3>2, <4>2, <4>3, <4>4, DagAssumption DEF StartRun
      <4>6. ~overlapped' => \A q, s \in Active' : q = s
        BY <3>2, <4>1 DEF StartRun
      <4> QED
        BY <4>3, <4>5, <4>6 DEF ActiveInv
    <3> QED
      BY <2>1, <3>1, <3>2, Worker
  <2>2. CASE ProducerPuts \/ UNCHANGED vars
    <3>1. Active' = Active /\ overlapped' = overlapped
      BY <2>2 DEF ProducerPuts, vars, Active
    <3> QED
      BY <3>1 DEF ActiveInv
  <2> QED
    BY <2>1, <2>2 DEF Next, Over
<1> QED
  BY <1>1, <1>2, TypeInvCorrect, PTL DEF Spec

-----------------------------------------------------------------------------
(* The gate.                                                               *)

(* No other run writes, names or validates files beside the one at work.   *)
LEMMA OwnInvCorrect == Spec => []OwnInv
<1>1. Init => OwnInv
  BY DEF Init, OwnInv, Own, Past
<1>2. TypeInv /\ ActiveInv /\ OwnInv /\ [Next]_vars => OwnInv'
  <2> SUFFICES ASSUME TypeInv, ActiveInv, OwnInv, [Next]_vars, ~overlapped' PROVE \A q \in Runs : Own(q)'
    BY DEF OwnInv
  <2>1. ASSUME NEW r \in Runs, RunStep(r) \/ Others(r) PROVE \A q \in Runs : Own(q)'
    <3>1. ~overlapped /\ \A q \in Runs : Own(q)
      BY <2>1, Worker DEF StartRun, OwnInv
    <3>2. validated \subseteq validated'
      BY <2>1
      DEF RunStep, Others, StartRun, CaptureEnds, ConsumeOpens, ConsumeStops, WriteCanonical, WriteBronze,
          ConsumeReturns, ValidatePasses, ValidateFails, TransformReads, TaskFails, CapturePuts, ConsumePolls
    <3>3. ASSUME NEW q \in Runs, q # r PROVE Own(q)'
      <4>1. q \notin Active
        BY <2>1, <3>1, <3>3, Worker DEF StartRun, ActiveInv
      <4>2. task[q] \in {"waiting", "done", "failed"}
        BY <4>1 DEF Active
      <4>3. task'[q] = task[q] /\ name'[q] = name[q]
        BY <2>1, <3>3, Worker
      <4> QED
        BY <3>1, <3>2, <4>2, <4>3 DEF Own, Past
    <3>4. Own(r)'
      <4>0. Own(r) /\ task'[r] # "waiting"
        BY <2>1, <3>1, Worker
      <4>1. ASSUME r \in Active, Retry(r), UNCHANGED <<name, files, validated>> PROVE Own(r)'
        <5>1. CASE Exhausted(r)
          BY <4>1, <5>1 DEF Retry, Own, Past, TypeInv
        <5>2. CASE ~Exhausted(r)
          <6>1. task'[r] = task[r] /\ step'[r] = FirstStep[task[r]]
            BY <4>1, <5>2 DEF Retry, TypeInv
          <6> QED
            BY <4>0, <4>1, <6>1, FirstSteps DEF Own, Past, files
        <5> QED
          BY <5>1, <5>2
      <4>2. CASE TaskFails(r) \/ ValidateFails(r)
        BY <4>1, <4>2 DEF TaskFails, ValidateFails, Active
      <4>3. CASE StartRun(r) \/ CaptureEnds(r)
        BY <4>3, FirstSteps DEF StartRun, CaptureEnds, Begin, TypeInv, Own, Past
      <4>4. CASE ConsumeOpens(r)
        BY <4>4 DEF ConsumeOpens, TypeInv, Own, Past
      <4>5. CASE ConsumeStops(r)
        BY <4>5 DEF ConsumeStops, TypeInv, Own, Past
      <4>6. CASE WriteCanonical(r)
        <5>1. name[r] \in DOMAIN canonical'
          BY <4>6 DEF WriteCanonical, With
        <5> QED
          BY <4>0, <4>6, <5>1 DEF WriteCanonical, TypeInv, Own, Past
      <4>7. CASE WriteBronze(r)
        BY <4>0, <4>7 DEF WriteBronze, TypeInv, Own, Past
      <4>8. CASE ConsumeReturns(r)
        BY <4>0, <4>8 DEF ConsumeReturns, Begin, TypeInv, Own, Past, files
      <4>9. CASE ValidatePasses(r)
        <5>1. name[r] = names /\ names \in DOMAIN canonical
          BY <4>0, <4>9 DEF ValidatePasses, Own
        <5>2. Input(r) = name[r]
          BY <5>1, NewestIsInput
        <5>3. task'[r] = "transform" /\ name'[r] = name[r] /\ name[r] \in validated'
          BY <4>9, <5>2 DEF ValidatePasses, Begin, TypeInv
        <5> QED
          BY <5>3 DEF Own, Past
      <4>10. CASE TransformReads(r)
        BY <4>0, <4>10 DEF TransformReads, TypeInv, Own, Past
      <4>11. CASE \E good \in BOOLEAN : CapturePuts(r, good)
        BY <4>11 DEF CapturePuts, TypeInv, Own, Past
      <4>12. CASE \E count \in Positions : ConsumePolls(r, count)
        BY <4>12 DEF ConsumePolls, TypeInv, Own, Past
      <4> QED
        BY <2>1, <4>2, <4>3, <4>4, <4>5, <4>6, <4>7, <4>8, <4>9, <4>10, <4>11, <4>12 DEF RunStep, Others
    <3> QED
      BY <3>3, <3>4
  <2>2. CASE ProducerPuts \/ UNCHANGED vars
    BY <2>2 DEF ProducerPuts, vars, files, OwnInv, Own, Past
  <2> QED
    BY <2>1, <2>2 DEF Next, Over
<1> QED
  BY <1>1, <1>2, TypeInvCorrect, ActiveInvCorrect, PTL DEF Spec

(* A run that gets to its transform has validated its own batch, when runs *)
(* do not overlap: validate_stream_microbatch takes the newest file, which *)
(* is the one consume_kinesis_microbatch of the same run has written.      *)
THEOREM OwnBatchCorrect == Spec => []OwnBatchValidated
<1>1. OwnInv => OwnBatchValidated
  BY DEF OwnInv, Own, OwnBatchValidated
<1> QED
  BY <1>1, OwnInvCorrect, PTL

(* What the gate did not let through and a transform reads nevertheless is *)
(* of a run that failed, or of a try that nobody names any more.           *)
THEOREM LeakCorrect == Spec => []BadOnlyFromFailures
<1>1. Init => BadOnlyFromFailures
  BY DEF Init, BadOnlyFromFailures
<1>2. TypeInv /\ ActiveInv /\ OwnInv /\ BadOnlyFromFailures /\ [Next]_vars => BadOnlyFromFailures'
  <2> SUFFICES ASSUME TypeInv, ActiveInv, OwnInv, BadOnlyFromFailures, [Next]_vars, ~overlapped',
                      NEW s \in Runs, NEW n \in transformed'[s], n \notin validated',
                      NEW q \in Runs, name'[q] = n
               PROVE  task'[q] = "failed"
    BY DEF BadOnlyFromFailures
  <2>1. ASSUME NEW r \in Runs, RunStep(r) \/ Others(r) PROVE task'[q] = "failed"
    <3>1. ~overlapped /\ \A p \in Runs : Own(p)
      BY <2>1, Worker DEF StartRun, OwnInv
    <3>2. n \notin validated
      BY <2>1
      DEF RunStep, Others, StartRun, CaptureEnds, ConsumeOpens, ConsumeStops, WriteCanonical, WriteBronze,
          ConsumeReturns, ValidatePasses, ValidateFails, TransformReads, TaskFails, CapturePuts, ConsumePolls
    <3>3. CASE TransformReads(r)
      <4>1. n \in 1..names /\ name'[q] = name[q] /\ task[r] = "transform" /\ r \in Active
        BY <3>3 DEF TransformReads, TypeInv, Active
      <4>2. q # r
        BY <3>1, <3>2, <4>1 DEF Own, Past
      <4>3. q \notin Active /\ task'[q] = task[q]
        BY <2>1, <3>1, <4>1, <4>2, Worker DEF ActiveInv
      <4>4. task[q] # "waiting" /\ task[q] # "done"
        BY <3>1, <3>2, <4>1 DEF Own, Past
      <4> QED
        BY <4>3, <4>4 DEF Active
    <3>4. CASE ~TransformReads(r)
      <4>1. transformed' = transformed
        BY <2>1, <3>4
        DEF RunStep, Others, StartRun, CaptureEnds, ConsumeOpens, ConsumeStops, WriteCanonical, WriteBronze,
            ConsumeReturns, ValidatePasses, ValidateFails, TaskFails, CapturePuts, ConsumePolls
      <4>2. n \in 1..names
        BY <4>1 DEF TypeInv
      <4>3. name[q] = n
        <5>1. CASE ConsumeStops(r)
          <6>1. names + 1 \notin 1..names
            BY DEF TypeInv
          <6> QED
            BY <4>2, <5>1, <6>1 DEF ConsumeStops, TypeInv
        <5>2. CASE ~ConsumeStops(r)
          BY <2>1, <3>4, <5>2
          DEF RunStep, Others, StartRun, CaptureEnds, ConsumeOpens, WriteCanonical, WriteBronze,
              ConsumeReturns, ValidatePasses, ValidateFails, TaskFails, CapturePuts, ConsumePolls
        <5> QED
          BY <5>1, <5>2
      <4>4. task[q] = "failed"
        BY <3>1, <3>2, <4>1, <4>3 DEF BadOnlyFromFailures
      <4> QED
        BY <2>1, <4>4, Worker
    <3> QED
      BY <3>3, <3>4
  <2>2. CASE ProducerPuts \/ UNCHANGED vars
    BY <2>2 DEF ProducerPuts, vars, BadOnlyFromFailures
  <2> QED
    BY <2>1, <2>2 DEF Next, Over
<1> QED
  BY <1>1, <1>2, TypeInvCorrect, ActiveInvCorrect, OwnInvCorrect, PTL DEF Spec

-----------------------------------------------------------------------------
(* The copies of a record.                                                 *)

(* What is read has been put.                                              *)
LEMMA PutInvCorrect == Spec => []PutInv
<1>1. Init => PutInv
  <2> SUFFICES ASSUME Init PROVE PutInv
    OBVIOUS
  <2>1. Len(stream) = 0 /\ DOMAIN bronze = {}
    BY DEF Init
  <2> QED
    BY <2>1 DEF Init, PutInv
<1>2. TypeInv /\ PutInv /\ [Next]_vars => PutInv'
  <2> SUFFICES ASSUME TypeInv, PutInv, [Next]_vars PROVE PutInv'
    OBVIOUS
  <2>0. Len(stream) \in Nat
    BY DEF TypeInv
  <2>1. ASSUME NEW by, NEW good \in BOOLEAN, by \in Runs \cup {NoRun}, Put(by, good),
               UNCHANGED <<iterator, batch, bronze>>
        PROVE  PutInv'
    <3>1. Len(stream') = Len(stream) + 1
      BY <2>1 DEF Put, TypeInv
    <3>2. 1..Len(stream) \subseteq 1..Len(stream')
      BY <2>0, <3>1
    <3>3. \A r \in Runs : iterator[r] <= Len(stream') + 1
      BY <2>0, <3>1 DEF PutInv, TypeInv
    <3> QED
      BY <2>1, <3>2, <3>3 DEF PutInv
  <2>2. CASE ProducerPuts
    BY <2>1, <2>2 DEF ProducerPuts, files
  <2>3. CASE UNCHANGED <<stream, iterator, batch, bronze>>
    BY <2>3 DEF PutInv
  <2>4. ASSUME NEW r \in Runs, ConsumeOpens(r) PROVE PutInv'
    BY <2>0, <2>4 DEF ConsumeOpens, Opened, PutInv, TypeInv, files
  <2>5. ASSUME NEW r \in Runs, NEW count \in Positions, ConsumePolls(r, count) PROVE PutInv'
    <3>1. /\ count \in Nat \ {0} /\ iterator[r] \in Nat \ {0}
          /\ iterator[r] + count - 1 <= Len(stream) /\ UNCHANGED <<stream, bronze>>
          /\ iterator' = [iterator EXCEPT ![r] = iterator[r] + count]
          /\ batch' = [batch EXCEPT ![r] = batch[r] \cup (iterator[r]..(iterator[r] + count - 1))]
      BY <2>5 DEF ConsumePolls, TypeInv, Positions, files
    <3>2. iterator[r] + count <= Len(stream) + 1
      BY <2>0, <3>1
    <3>3. iterator[r]..(iterator[r] + count - 1) \subseteq 1..Len(stream)
      BY <2>0, <3>1
    <3> QED
      BY <3>1, <3>2, <3>3 DEF PutInv, TypeInv
  <2>6. ASSUME NEW r \in Runs, WriteBronze(r) PROVE PutInv'
    <3>1. bronze' = With(bronze, name[r], batch[r]) /\ UNCHANGED <<stream, iterator, batch>>
      BY <2>6 DEF WriteBronze
    <3>2. \A n \in DOMAIN bronze' : bronze'[n] = batch[r] \/ (n \in DOMAIN bronze /\ bronze'[n] = bronze[n])
      BY <3>1 DEF With
    <3> QED
      BY <3>1, <3>2 DEF PutInv
  <2>7. ASSUME NEW r \in Runs, NEW good \in BOOLEAN, CapturePuts(r, good) PROVE PutInv'
    BY <2>1, <2>7 DEF CapturePuts, files
  <2> QED
    BY <2>2, <2>3, <2>4, <2>5, <2>6, <2>7
    DEF Next, Over, RunStep, Others, StartRun, CaptureEnds, ConsumeStops, WriteCanonical, ConsumeReturns,
        ValidatePasses, ValidateFails, TransformReads, TaskFails, vars, files
<1> QED
  BY <1>1, <1>2, TypeInvCorrect, PTL DEF Spec

(* What holds a record now is among what held it before, or one holder has *)
(* made a file of it.                                                      *)
Moves(k) ==
  \/ Holding(k)' \subseteq Holding(k) /\ Holders(k)' \subseteq Holders(k)
  \/ \E r \in Holders(k), n \in Nat :
       Holding(k)' \subseteq Holding(k) \cup {n} /\ Holders(k)' \subseteq Holders(k) \ {r}

(* A record that has been put is not held by more when a run gets on: who  *)
(* opens its iterator later, or again, does so after the record.           *)
LEMMA HoldersMove ==
  ASSUME TypeInv, PutInv, [Next]_vars, NEW k \in 1..Len(stream)
  PROVE  Moves(k)
<1>0. Len(stream) \in Nat /\ k \in Nat
  BY DEF TypeInv
<1>1. ASSUME NEW r \in Runs, RunStep(r) \/ Others(r) PROVE Moves(k)
  <2> DEFINE Fewer == MayHold(r, k)' => MayHold(r, k)
  <2>1. CASE WriteBronze(r)
    <3>1. /\ bronze' = With(bronze, name[r], batch[r]) /\ name[r] \in Nat /\ step'[r] = "return"
          /\ task[r] = "consume" /\ step[r] = "bronze"
      BY <2>1 DEF WriteBronze, TypeInv
    <3>2. \A n \in DOMAIN bronze' :
            (n = name[r] /\ bronze'[n] = batch[r]) \/ (n \in DOMAIN bronze /\ bronze'[n] = bronze[n])
      BY <3>1 DEF With
    <3>3. Holders(k)' \subseteq Holders(k) \ {r}
      <4>1. ~MayHold(r, k)'
        BY <3>1 DEF MayHold
      <4>2. \A q \in Runs \ {r} : MayHold(q, k)' => MayHold(q, k)
        BY <1>1, Worker DEF MayHold
      <4> QED
        BY <4>1, <4>2 DEF Holders
    <3>4. CASE k \in batch[r]
      <4>1. r \in Holders(k)
        BY <3>1, <3>4 DEF Holders, MayHold
      <4>2. Holding(k)' \subseteq Holding(k) \cup {name[r]}
        BY <3>2 DEF Holding
      <4> QED
        BY <3>1, <3>3, <4>1, <4>2 DEF Moves
    <3>5. CASE k \notin batch[r]
      <4>1. Holding(k)' \subseteq Holding(k)
        BY <3>2, <3>5 DEF Holding
      <4> QED
        BY <3>3, <4>1 DEF Moves
    <3> QED
      BY <3>4, <3>5
  <2>2. CASE ~WriteBronze(r)
    <3>1. bronze' = bronze
      BY <1>1, <2>2
      DEF RunStep, Others, StartRun, CaptureEnds, ConsumeOpens, ConsumeStops, WriteCanonical,
          ConsumeReturns, ValidatePasses, ValidateFails, TransformReads, TaskFails, CapturePuts, ConsumePolls, files
    <3>2. Fewer
      <4>1. ASSUME r \in Active, Retry(r), UNCHANGED <<batch, iterator>> PROVE Fewer
        <5>1. CASE Exhausted(r)
          BY <4>1, <5>1 DEF Retry, MayHold, TypeInv
        <5>2. CASE ~Exhausted(r)
          <6>1. task'[r] = task[r] /\ step'[r] = FirstStep[task[r]]
            BY <4>1, <5>2 DEF Retry, TypeInv
          <6> QED
            BY <4>1, <6>1, FirstSteps DEF MayHold
        <5> QED
          BY <5>1, <5>2
      <4>2. CASE TaskFails(r) \/ ValidateFails(r)
        <5> HIDE DEF Fewer
        <5> QED
          BY <4>1, <4>2 DEF TaskFails, ValidateFails, Active
      <4>3. CASE StartRun(r) \/ CaptureEnds(r) \/ ConsumeReturns(r) \/ ValidatePasses(r)
        BY <4>3, FirstSteps DEF StartRun, CaptureEnds, ConsumeReturns, ValidatePasses, Begin, TypeInv, MayHold
      <4>4. CASE ConsumeOpens(r)
        <5>1. iterator'[r] = Len(stream) + 1 /\ batch'[r] = {}
          BY <4>4 DEF ConsumeOpens, Opened, TypeInv
        <5>2. ~(k >= iterator'[r])
          BY <1>0, <5>1
        <5> QED
          BY <5>1, <5>2 DEF MayHold
      <4>5. CASE ConsumeStops(r)
        BY <4>5 DEF ConsumeStops, TypeInv, MayHold
      <4>6. CASE WriteCanonical(r)
        BY <4>6 DEF WriteCanonical, TypeInv, MayHold
      <4>7. CASE TransformReads(r)
        BY <4>7 DEF TransformReads, TypeInv, MayHold
      <4>8. CASE \E good \in BOOLEAN : CapturePuts(r, good)
        BY <4>8 DEF CapturePuts, TypeInv, MayHold
      <4>9. ASSUME NEW count \in Positions, ConsumePolls(r, count) PROVE Fewer
        <5>1. /\ count \in Nat \ {0} /\ iterator[r] \in Nat \ {0} /\ UNCHANGED <<task, step>>
              /\ task[r] = "consume" /\ step[r] = "poll"
              /\ iterator'[r] = iterator[r] + count
              /\ batch'[r] = batch[r] \cup (iterator[r]..(iterator[r] + count - 1))
          BY <4>9 DEF ConsumePolls, TypeInv, Positions
        <5>2. k >= iterator'[r] => k >= iterator[r]
          BY <1>0, <5>1
        <5>3. k \in batch'[r] => k \in batch[r] \/ k >= iterator[r]
          BY <1>0, <5>1
        <5> QED
          BY <5>1, <5>2, <5>3 DEF MayHold
      <4> HIDE DEF Fewer
      <4> QED
        BY <1>1, <2>2, <4>2, <4>3, <4>4, <4>5, <4>6, <4>7, <4>8, <4>9 DEF RunStep, Others
    <3>3. \A q \in Runs \ {r} : MayHold(q, k)' => MayHold(q, k)
      BY <1>1, Worker DEF MayHold
    <3>4. Holders(k)' \subseteq Holders(k) /\ Holding(k)' \subseteq Holding(k)
      BY <3>1, <3>2, <3>3 DEF Holders, Holding
    <3> QED
      BY <3>4 DEF Moves
  <2> QED
    BY <2>1, <2>2
<1>2. CASE ProducerPuts \/ UNCHANGED vars
  <2>1. UNCHANGED <<task, step, iterator, batch, bronze>>
    BY <1>2 DEF ProducerPuts, vars, files
  <2>2. Holders(k)' \subseteq Holders(k) /\ Holding(k)' \subseteq Holding(k)
    BY <2>1 DEF Holders, Holding, MayHold
  <2> QED
    BY <2>2 DEF Moves
<1> QED
  BY <1>1, <1>2 DEF Next, Over

(* Moving does not make the holders and the files more.                    *)
LEMMA MovedCount ==
  ASSUME NEW F, NEW P, NEW F1, NEW P1, IsFiniteSet(F), IsFiniteSet(P),
         \/ F1 \subseteq F /\ P1 \subseteq P
         \/ \E r \in P, n \in Nat : F1 \subseteq F \cup {n} /\ P1 \subseteq P \ {r}
  PROVE  /\ IsFiniteSet(F1) /\ IsFiniteSet(P1)
         /\ Cardinality(F1) + Cardinality(P1) <= Cardinality(F) + Cardinality(P)
<1>1. Cardinality(F) \in Nat /\ Cardinality(P) \in Nat
  BY FS_CardinalityType
<1>2. CASE F1 \subseteq F /\ P1 \subseteq P
  <2>1. /\ IsFiniteSet(F1) /\ IsFiniteSet(P1)
        /\ Cardinality(F1) <= Cardinality(F) /\ Cardinality(P1) <= Cardinality(P)
    BY <1>2, FS_Subset
  <2>2. Cardinality(F1) \in Nat /\ Cardinality(P1) \in Nat
    BY <2>1, FS_CardinalityType
  <2> QED
    BY <1>1, <2>1, <2>2
<1>3. ASSUME NEW r \in P, NEW n \in Nat, F1 \subseteq F \cup {n}, P1 \subseteq P \ {r}
      PROVE  /\ IsFiniteSet(F1) /\ IsFiniteSet(P1)
             /\ Cardinality(F1) + Cardinality(P1) <= Cardinality(F) + Cardinality(P)
  <2>1. /\ IsFiniteSet(F \cup {n}) /\ Cardinality(F \cup {n}) <= Cardinality(F) + 1
    BY <1>1, FS_AddElement
  <2>2. /\ IsFiniteSet(P \ {r}) /\ Cardinality(P \ {r}) = Cardinality(P) - 1
    BY FS_RemoveElement
  <2>3. /\ IsFiniteSet(F1) /\ IsFiniteSet(P1)
        /\ Cardinality(F1) <= Cardinality(F \cup {n}) /\ Cardinality(P1) <= Cardinality(P \ {r})
    BY <1>3, <2>1, <2>2, FS_Subset
  <2>4. Cardinality(F1) \in Nat /\ Cardinality(P1) \in Nat /\ Cardinality(F \cup {n}) \in Nat
    BY <2>1, <2>3, FS_CardinalityType
  <2> QED
    BY <1>1, <2>1, <2>2, <2>3, <2>4
<1> QED
  BY <1>2, <1>3

(* The bronze files with a record and the consumers that may still write   *)
(* it are no more than runs may be active.                                 *)
LEMMA HoldInvCorrect == Spec => []HoldInv
<1>1. Init => HoldInv
  <2> SUFFICES ASSUME Init PROVE HoldInv
    OBVIOUS
  <2>1. 1..Len(stream) = {}
    BY DEF Init
  <2> QED
    BY <2>1 DEF HoldInv
<1>2. TypeInv /\ ActiveInv' /\ PutInv /\ HoldInv /\ [Next]_vars => HoldInv'
  <2> SUFFICES ASSUME TypeInv, ActiveInv', PutInv, HoldInv, [Next]_vars, NEW k \in 1..Len(stream')
               PROVE  /\ IsFiniteSet(Holding(k)') /\ IsFiniteSet(Holders(k)')
                      /\ Cardinality(Holding(k)') + Cardinality(Holders(k)') <= MaxActiveRuns
    BY DEF HoldInv
  <2>0. Len(stream) \in Nat
    BY DEF TypeInv
  <2>1. CASE k \in 1..Len(stream)
    <3>1. Moves(k)
      BY <2>1, HoldersMove
    <3>2. /\ IsFiniteSet(Holding(k)) /\ IsFiniteSet(Holders(k))
          /\ Cardinality(Holding(k)) + Cardinality(Holders(k)) <= MaxActiveRuns
      BY <2>1 DEF HoldInv
    <3>3. /\ IsFiniteSet(Holding(k)') /\ IsFiniteSet(Holders(k)')
          /\ Cardinality(Holding(k)') + Cardinality(Holders(k)') <= Cardinality(Holding(k)) + Cardinality(Holders(k))
      BY <3>1, <3>2, MovedCount DEF Moves
    <3>4. /\ Cardinality(Holding(k)) \in Nat /\ Cardinality(Holders(k)) \in Nat
          /\ Cardinality(Holding(k)') \in Nat /\ Cardinality(Holders(k)') \in Nat
      BY <3>2, <3>3, FS_CardinalityType
    <3> QED
      BY <3>2, <3>3, <3>4, DagAssumption
  <2>2. CASE k \notin 1..Len(stream)
    <3>1. stream' # stream
      BY <2>2
    <3>2. bronze' = bronze
      BY <3>1
      DEF Next, Over, ProducerPuts, RunStep, Others, StartRun, CaptureEnds, ConsumeOpens, ConsumeStops, WriteCanonical,
          WriteBronze, ConsumeReturns, ValidatePasses, ValidateFails, TransformReads, TaskFails, CapturePuts, ConsumePolls,
          files, vars
    <3>3. Holding(k)' = {}
      BY <2>2, <3>2 DEF Holding, PutInv
    <3>4. Holders(k)' \in SUBSET Active'
      BY DEF Holders, MayHold, Active
    <3>5. /\ IsFiniteSet(Holders(k)') /\ Cardinality(Holders(k)') <= Cardinality(Active')
          /\ IsFiniteSet(Active') /\ Cardinality(Active') <= MaxActiveRuns
      BY <3>4, FS_Subset DEF ActiveInv
    <3>6. Cardinality(Holders(k)') \in Nat /\ Cardinality(Active') \in Nat
      BY <3>5, FS_CardinalityType
    <3>7. IsFiniteSet(Holding(k)') /\ Cardinality(Holding(k)') = 0
      BY <3>3, FS_EmptySet
    <3> QED
      BY <3>5, <3>6, <3>7, DagAssumption
  <2> QED
    BY <2>1, <2>2
<1> QED
  BY <1>1, <1>2, TypeInvCorrect, ActiveInvCorrect, PutInvCorrect, PTL DEF Spec

(* A record is in no more bronze files than runs may be active: when it was *)
(* put none held it but the consumers at work, and each of them writes it  *)
(* to one file at most, for a new try starts after it.                     *)
THEOREM ReadOnceCorrect == Spec => []ReadOnce
<1>1. TypeInv /\ HoldInv => ReadOnce
  <2> SUFFICES ASSUME TypeInv, HoldInv, NEW k \in DOMAIN stream PROVE Cardinality(Holding(k)) <= MaxActiveRuns
    BY DEF ReadOnce, Holding
  <2>1. k \in 1..Len(stream)
    BY DEF TypeInv
  <2>2. /\ IsFiniteSet(Holding(k)) /\ IsFiniteSet(Holders(k))
        /\ Cardinality(Holding(k)) + Cardinality(Holders(k)) <= MaxActiveRuns
    BY <2>1 DEF HoldInv
  <2>3. Cardinality(Holding(k)) \in Nat /\ Cardinality(Holders(k)) \in Nat
    BY <2>2, FS_CardinalityType
  <2> QED
    BY <2>2, <2>3, DagAssumption
<1> QED
  BY <1>1, TypeInvCorrect, HoldInvCorrect, PTL

-----------------------------------------------------------------------------
(* The bounds TypeOK gives and the invariants above do not need.           *)

(* The newest of some files is one of them.                                *)
LEMMA NewestIsThere ==
  ASSUME NEW n \in Nat, NEW S, S \subseteq 1..n, S # {}
  PROVE  Max(S) \in S
<1> DEFINE back == {k \in Nat : n - k \in S}
<1>1. back # {} /\ back \subseteq Nat
  <2>1. PICK x \in S : x \in 1..n
    OBVIOUS
  <2>2. n - x \in Nat /\ n - (n - x) = x
    BY <2>1
  <2> QED
    BY <2>1, <2>2
<1> HIDE DEF back
<1>2. PICK k \in back : \A j \in back : ~(j < k)
  <2>1. IsWellFoundedOn(OpToRel(<, Nat), Nat)
    BY NatLessThanWellFounded
  <2>2. PICK k \in back : \A j \in back : <<j, k>> \notin OpToRel(<, Nat)
    BY <1>1, <2>1, WFMin
  <2> QED
    BY <1>1, <2>2 DEF OpToRel
<1>3. n - k \in S /\ k \in Nat
  BY <1>2 DEF back
<1>4. \A y \in S : n - k >= y
  <2> SUFFICES ASSUME NEW y \in S PROVE n - k >= y
    OBVIOUS
  <2>1. y \in Nat /\ n - y \in Nat /\ n - (n - y) = y
    OBVIOUS
  <2>2. n - y \in back
    BY <2>1 DEF back
  <2>3. ~(n - y < k)
    BY <1>2, <2>2
  <2> QED
    BY <1>3, <2>1, <2>3
<1> QED
  BY <1>3, <1>4 DEF Max

(* No batch is larger than it may be or has come past its iterator, no     *)
(* file has more than the stream, and what was validated or transformed    *)
(* is there.                                                               *)
BatchBound(r) ==
  /\ batch[r] \subseteq 1..(iterator[r] - 1)
  /\ IsFiniteSet(batch[r]) /\ Cardinality(batch[r]) <= MaxRecords

BoundsInv ==
  /\ Len(stream) <= StreamCapacity
  /\ \A r \in Runs : BatchBound(r)
  /\ \A n \in DOMAIN canonical : canonical[n] \subseteq 1..Len(stream)
  /\ validated \subseteq DOMAIN canonical
  /\ \A r \in Runs : transformed[r] \subseteq DOMAIN bronze

(* The runs keep within these bounds.                                      *)
LEMMA BoundsInvCorrect == Spec => []BoundsInv
<1>1. Init => BoundsInv
  <2> SUFFICES ASSUME Init PROVE BoundsInv
    OBVIOUS
  <2>1. IsFiniteSet({}) /\ Cardinality({}) = 0
    BY FS_EmptySet
  <2>2. Len(stream) = 0 /\ DOMAIN canonical = {}
    BY DEF Init
  <2> QED
    BY <2>1, <2>2, DagAssumption DEF Init, BoundsInv, BatchBound
<1>2. TypeInv /\ PutInv /\ BoundsInv /\ [Next]_vars => BoundsInv'
  <2> SUFFICES ASSUME TypeInv, PutInv, BoundsInv, [Next]_vars PROVE BoundsInv'
    OBVIOUS
  <2>0. Len(stream) \in Nat
    BY DEF TypeInv
  <2>1. ASSUME NEW by, NEW good \in BOOLEAN, Put(by, good),
               UNCHANGED <<iterator, batch, canonical, bronze, validated, transformed>>
        PROVE  BoundsInv'
    <3>1. Len(stream') = Len(stream) + 1 /\ Len(stream) < StreamCapacity
      BY <2>1 DEF Put, TypeInv
    <3>2. Len(stream') <= StreamCapacity
      BY <2>0, <3>1, DagAssumption
    <3>3. 1..Len(stream) \subseteq 1..Len(stream')
      BY <2>0, <3>1
    <3> QED
      BY <2>1, <3>2, <3>3 DEF BoundsInv, BatchBound
  <2>2. CASE ProducerPuts
    BY <2>1, <2>2 DEF ProducerPuts, files
  <2>3. CASE UNCHANGED <<stream, iterator, batch, canonical, bronze, validated, transformed>>
    BY <2>3 DEF BoundsInv, BatchBound
  <2>4. ASSUME NEW r \in Runs, ConsumeOpens(r) PROVE BoundsInv'
    <3>1. /\ iterator' = [iterator EXCEPT ![r] = Opened] /\ batch' = [batch EXCEPT ![r] = {}]
          /\ UNCHANGED <<stream, canonical, bronze, validated, transformed>>
      BY <2>4 DEF ConsumeOpens, files
    <3>2. batch'[r] = {} /\ IsFiniteSet({}) /\ Cardinality({}) = 0
      BY <3>1, FS_EmptySet DEF TypeInv
    <3>3. \A q \in Runs : q # r => batch'[q] = batch[q] /\ iterator'[q] = iterator[q]
      BY <3>1 DEF TypeInv
    <3>4. 0 <= MaxRecords
      BY DagAssumption
    <3>5. BatchBound(r)'
      BY <3>2, <3>4 DEF BatchBound
    <3>6. \A q \in Runs : q # r => BatchBound(q)'
      BY <3>3 DEF BatchBound, BoundsInv
    <3> QED
      BY <3>1, <3>5, <3>6 DEF BoundsInv
  <2>5. ASSUME NEW r \in Runs, NEW count \in Positions, ConsumePolls(r, count) PROVE BoundsInv'
    <3> DEFINE new == iterator[r]..(iterator[r] + count - 1)
    <3>1. /\ count \in Nat \ {0} /\ iterator[r] \in Nat \ {0}
          /\ count <= MaxRecords - Cardinality(batch[r])
          /\ UNCHANGED <<stream, canonical, bronze, validated, transformed>>
          /\ iterator' = [iterator EXCEPT ![r] = iterator[r] + count]
          /\ batch' = [batch EXCEPT ![r] = batch[r] \cup new]
      BY <2>5 DEF ConsumePolls, TypeInv, Positions, files
    <3>2. /\ batch'[r] = batch[r] \cup new /\ iterator'[r] = iterator[r] + count
          /\ \A q \in Runs : q # r => batch'[q] = batch[q] /\ iterator'[q] = iterator[q]
      BY <3>1 DEF TypeInv
    <3>3. batch[r] \subseteq 1..(iterator[r] - 1) /\ IsFiniteSet(batch[r])
      BY DEF BoundsInv, BatchBound
    <3>4. batch[r] \cup new \subseteq 1..(iterator[r] + count - 1)
      BY <3>1, <3>3
    <3>5. IsFiniteSet(new) /\ Cardinality(new) = count
      <4> DEFINE a == iterator[r]
                 b == iterator[r] + count - 1
      <4>1. a \in Int /\ b \in Int /\ ~(a > b) /\ b - a + 1 = count
        BY <3>1
      <4> HIDE DEF a, b
      <4>2. IsFiniteSet(a..b) /\ Cardinality(a..b) = count
        BY <4>1, FS_Interval
      <4> QED
        BY <4>2 DEF a, b
    <3> HIDE DEF new
    <3>6. /\ IsFiniteSet(batch[r] \cup new)
          /\ Cardinality(batch[r] \cup new) =
               Cardinality(batch[r]) + Cardinality(new) - Cardinality(batch[r] \cap new)
      BY <3>3, <3>5, FS_Union
    <3>7. Cardinality(batch[r]) \in Nat /\ Cardinality(batch[r] \cap new) \in Nat
      <4>1. IsFiniteSet(batch[r] \cap new)
        BY <3>3, FS_Intersection
      <4> QED
        BY <3>3, <4>1, FS_CardinalityType
    <3>8. Cardinality(batch[r] \cup new) <= MaxRecords
      BY <3>1, <3>5, <3>6, <3>7, DagAssumption
    <3>9. BatchBound(r)'
      <4> DEFINE whole == batch[r] \cup new
                 last == iterator[r] + count - 1
      <4>1. batch'[r] = whole /\ iterator'[r] - 1 = last
        BY <3>1, <3>2
      <4>2. whole \subseteq 1..last /\ IsFiniteSet(whole) /\ Cardinality(whole) <= MaxRecords
        BY <3>4, <3>6, <3>8
      <4> HIDE DEF whole, last
      <4> QED
        BY <4>1, <4>2 DEF BatchBound
    <3>10. \A q \in Runs : BatchBound(q)'
      BY <3>2, <3>9 DEF BatchBound, BoundsInv
    <3> QED
      BY <3>1, <3>10 DEF BoundsInv
  <2>6. ASSUME NEW r \in Runs, WriteCanonical(r) PROVE BoundsInv'
    <3>1. /\ canonical' = With(canonical, name[r], batch[r])
          /\ UNCHANGED <<stream, iterator, batch, bronze, validated, transformed>>
      BY <2>6 DEF WriteCanonical
    <3>2. /\ DOMAIN canonical \subseteq DOMAIN canonical'
          /\ \A n \in DOMAIN canonical' :
               canonical'[n] = batch[r] \/ (n \in DOMAIN canonical /\ canonical'[n] = canonical[n])
      BY <3>1 DEF With
    <3> QED
      BY <3>1, <3>2 DEF PutInv, BoundsInv, BatchBound
  <2>7. ASSUME NEW r \in Runs, WriteBronze(r) PROVE BoundsInv'
    <3>1. /\ bronze' = With(bronze, name[r], batch[r])
          /\ UNCHANGED <<stream, iterator, batch, canonical, validated, transformed>>
      BY <2>7 DEF WriteBronze
    <3>2. DOMAIN bronze \subseteq DOMAIN bronze'
      BY <3>1 DEF With
    <3> QED
      BY <3>1, <3>2 DEF BoundsInv, BatchBound
  <2>8. ASSUME NEW r \in Runs, NEW good \in BOOLEAN, CapturePuts(r, good) PROVE BoundsInv'
    BY <2>1, <2>8 DEF CapturePuts, files
  <2>9. ASSUME NEW r \in Runs, ValidatePasses(r) PROVE BoundsInv'
    <3>1. /\ DOMAIN canonical # {} /\ validated' = validated \cup {Input(r)}
          /\ UNCHANGED <<stream, iterator, batch, canonical, bronze, transformed>>
      BY <2>9 DEF ValidatePasses, files
    <3>2. DOMAIN canonical \subseteq 1..names /\ names \in Nat
      BY DEF TypeInv
    <3>3. Input(r) \in DOMAIN canonical
      BY <3>1, <3>2, NewestIsThere DEF Input
    <3> QED
      BY <3>1, <3>3 DEF BoundsInv, BatchBound
  <2>10. ASSUME NEW r \in Runs, TransformReads(r) PROVE BoundsInv'
    <3>1. /\ transformed' = [transformed EXCEPT ![r] = DOMAIN bronze]
          /\ UNCHANGED <<stream, iterator, batch, canonical, bronze, validated>>
      BY <2>10 DEF TransformReads, files
    <3>2. \A q \in Runs : transformed'[q] = transformed[q] \/ transformed'[q] = DOMAIN bronze
      BY <3>1 DEF TypeInv
    <3> QED
      BY <3>1, <3>2 DEF BoundsInv, BatchBound
  <2> QED
    BY <2>2, <2>3, <2>4, <2>5, <2>6, <2>7, <2>8, <2>9, <2>10
    DEF Next, Over, RunStep, Others, StartRun, CaptureEnds, ConsumeStops, ConsumeReturns,
        ValidateFails, TaskFails, vars, files
<1> QED
  BY <1>1, <1>2, TypeInvCorrect, PutInvCorrect, PTL DEF Spec

(* Every variable keeps its type: a batch holds no more records than it    *)
(* may and none its iterator has not passed, the files hold records of the *)
(* stream, and only files that are there were validated or transformed.    *)
THEOREM TypeCorrect == Spec => []TypeOK
<1>1. TypeInv /\ PutInv /\ BoundsInv => TypeOK
  <2> SUFFICES ASSUME TypeInv, PutInv, BoundsInv PROVE TypeOK
    OBVIOUS
  <2>1. Len(stream) \in Nat /\ Len(stream) <= StreamCapacity /\ StreamCapacity \in Nat
    BY DagAssumption DEF TypeInv, BoundsInv
  <2>2. 1..Len(stream) \subseteq Positions
    BY <2>1 DEF Positions
  <2>3. iterator \in [Runs -> 1..(StreamCapacity + 1)]
    <3>1. ASSUME NEW r \in Runs PROVE iterator[r] \in 1..(StreamCapacity + 1)
      <4>1. iterator[r] \in Nat \ {0} /\ iterator[r] <= Len(stream) + 1
        BY DEF TypeInv, PutInv
      <4> QED
        BY <2>1, <4>1
    <3> QED
      BY <3>1 DEF TypeInv
  <2>4. canonical \in Files
    <3>1. DOMAIN canonical \in SUBSET (1..names) /\ canonical \in [DOMAIN canonical -> SUBSET Positions]
      BY <2>2 DEF TypeInv, BoundsInv
    <3> QED
      BY <3>1 DEF Files
  <2>5. bronze \in Files
    <3>1. DOMAIN bronze \in SUBSET (1..names) /\ bronze \in [DOMAIN bronze -> SUBSET Positions]
      BY <2>2 DEF TypeInv, PutInv
    <3> QED
      BY <3>1 DEF Files
  <2>6. /\ \A r \in Runs : batch[r] \subseteq 1..(iterator[r] - 1) /\ Cardinality(batch[r]) <= MaxRecords
        /\ validated \subseteq DOMAIN canonical
        /\ \A r \in Runs : transformed[r] \subseteq DOMAIN bronze
    BY DEF BoundsInv, BatchBound
  <2> QED
    BY <2>3, <2>4, <2>5, <2>6 DEF TypeInv, TypeOK, Tasks, Steps, Records
<1> QED
  BY <1>1, TypeInvCorrect, PutInvCorrect, BoundsInvCorrect, PTL

=============================================================================
