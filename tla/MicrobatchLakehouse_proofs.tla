---------------------- MODULE MicrobatchLakehouse_proofs ----------------------
(***************************************************************************)
(* Proofs that the lakehouse keeps its book of trades however its runs     *)
(* fail, repeat or overlap (it implements TradeBook), and that runs which  *)
(* do not overlap write tables that agree, publish nothing without its raw *)
(* events and have published what they read when they are done.            *)
(***************************************************************************)
EXTENDS MicrobatchLakehouse, FiniteSetTheorems, WellFoundedInduction, TLAPS

-----------------------------------------------------------------------------
(* The inductive invariant, in parts.                                      *)

Tasks == {"waiting", "transform", "publish", "done", "failed"}
LastStep == Max({Len(WriteOrder) + 1, Len(LayerOrder)})

TypeInv ==
  /\ bronze \in SUBSET Versions
  /\ task \in [Runs -> Tasks] /\ attempt \in [Runs -> 1..Attempts]
  /\ step \in [Runs -> 0..LastStep]
  /\ snapshot \in [Runs -> SUBSET bronze]
  /\ writing \in [Runs -> {"no", "open", "disturbed"}]
  /\ queue \in [Runs -> SUBSET (Tables \X Parts)]
  /\ local \in [Tables -> SUBSET Parts] /\ s3 \in [Tables -> SUBSET Parts]
  /\ s3raw \subseteq bronze
  /\ kills \in 0..MaxKills /\ overlapped \in BOOLEAN

(* What tables hold has landed; the silver table, accepted trades only.    *)
ContentInv ==
  \A t \in Tables : \A part \in PartsOf(t) :
    part.rows \subseteq bronze /\ (t = "silver_trades" => part.rows \subseteq Accepted)

(* One run at a time: none finds another in its directory.                 *)
SoloInv ==
  ~overlapped =>
    /\ \A q, r \in Active : q = r
    /\ \A r \in Runs : writing[r] # "disturbed"

(* No part is of a try that has not read its events yet.                   *)
GenerationInv ==
  \A t \in Tables : \A part \in PartsOf(t) : \A r \in Runs, a \in 1..Attempts :
    part.generation = <<r, a>> =>
      /\ task[r] # "waiting"
      /\ task[r] = "transform" => a < attempt[r] \/ (a = attempt[r] /\ step[r] >= 1)

(* Every part of a generation was made from the same events, those the try *)
(* at work has read.                                                       *)
MadeFrom(generation, events) ==
  \A t \in Tables : \A part \in PartsOf(t) :
    part.generation = generation => part.rows = RowsFor(t, LatestOf(events))

SameEventsInv ==
  ~overlapped /\ Untied =>
    /\ \A generation \in Runs \X (1..Attempts) :
         \E events \in SUBSET bronze : MadeFrom(generation, events)
    /\ \A r \in Runs :
         task[r] = "transform" /\ step[r] >= 1 => MadeFrom(<<r, attempt[r]>>, snapshot[r])

(* The trades a run has to show: the latest version of an id, when all the *)
(* latest ones are acceptable.                                             *)
Due(r) ==
  {v \in LatestOf(snapshot[r]) : \A w \in LatestOf(snapshot[r]) : w.id = v.id => w \in Accepted}

Shows(r, parts) ==
  \A v \in Due(r) : \E part \in parts : \E w \in part.rows : w.id = v.id /\ w.ptime >= v.ptime

(* From its second write on a run's trades are in the local table, and the *)
(* publisher takes them to S3 after their raw events.                      *)
Publishes(r) ==
  /\ task[r] = "transform" /\ step[r] >= 3 => Shows(r, local["silver_trades"])
  /\ task[r] = "publish" => Shows(r, local["silver_trades"])
  /\ task[r] = "done" => Shows(r, s3["silver_trades"])
  /\ queue[r] # {} => task[r] = "publish" /\ step[r] >= 2
  /\ task[r] = "publish" /\ step[r] >= 1 =>
       \A t \in Tables : \A part \in local[t] : part.rows \subseteq s3raw
  /\ task[r] = "publish" /\ step[r] >= 2 =>
       \A part \in local["silver_trades"] :
         part \in s3["silver_trades"] \/ <<"silver_trades", part>> \in queue[r]

Audited == \A t \in Tables : \A part \in s3[t] : part.rows \subseteq s3raw

PublishInv == ~overlapped => Audited /\ \A r \in Runs : Publishes(r)

LakehouseInv ==
  TypeInv /\ ContentInv /\ SoloInv /\ GenerationInv /\ SameEventsInv /\ PublishInv

-----------------------------------------------------------------------------
(* The tables and the layers.                                              *)

(* What is known of the order in which the tables are written.             *)
LEMMA WriteOrders ==
  /\ Len(WriteOrder) \in Nat /\ Len(WriteOrder) >= 2
  /\ \A k \in 1..Len(WriteOrder) : WriteOrder[k] \in Tables
  /\ WriteOrder[2] = "silver_trades"
  /\ \A k \in 1..Len(WriteOrder) : WriteOrder[k] = "silver_trades" => k = 2
  /\ "silver_trades" \in Tables /\ "raw" \notin Tables
<1> DEFINE head == <<"rejected_events", "silver_trades">>
           Names == GoldNames \cup {"rejected_events", "silver_trades"}
<1>1. GoldNames = {"customer_trade_exposure", "fact_trade", "trade_minute_metrics"}
  BY DEF GoldNames, GoldByName, ToSet
<1>2. GoldTables \in Seq(GoldNames) /\ Len(GoldTables) \in Nat
  BY LakehouseAssumption
<1>3. /\ Len(WriteOrder) = 2 + Len(GoldTables)
      /\ WriteOrder[1] = "rejected_events" /\ WriteOrder[2] = "silver_trades"
      /\ \A k \in 3..Len(WriteOrder) : WriteOrder[k] = GoldTables[k - 2]
      /\ DOMAIN WriteOrder = 1..Len(WriteOrder)
  BY <1>2 DEF WriteOrder
<1>4. \A k \in 3..Len(WriteOrder) : WriteOrder[k] \in GoldNames
  BY <1>2, <1>3
<1>5. Tables = {WriteOrder[k] : k \in 1..Len(WriteOrder)}
  BY <1>3 DEF Tables, ToSet
<1>6. \A k \in 1..Len(WriteOrder) : k = 1 \/ k = 2 \/ k \in 3..Len(WriteOrder)
  BY <1>2, <1>3
<1>7. \A k \in 1..Len(WriteOrder) : WriteOrder[k] # "raw" /\ (WriteOrder[k] = "silver_trades" => k = 2)
  BY <1>1, <1>3, <1>4, <1>6
<1>8. Len(WriteOrder) \in Nat /\ Len(WriteOrder) >= 2 /\ 2 \in 1..Len(WriteOrder)
  BY <1>2, <1>3
<1> QED
  BY <1>3, <1>5, <1>7, <1>8

(* The layers, of which the first has no table and the second one.         *)
LEMMA Layers ==
  /\ Len(LayerOrder) = 4
  /\ ToSet(LayerOrder[1]) = {"raw"} /\ ToSet(LayerOrder[2]) = {"silver_trades"}
  /\ "raw" \notin ToSet(LayerOrder[2]) /\ "raw" \notin ToSet(LayerOrder[3])
  /\ "raw" \notin ToSet(LayerOrder[4])
BY DEF LayerOrder, GoldByName, ToSet

(* A bound on the steps of a task.                                         *)
LEMMA LastSteps ==
  /\ LastStep \in Nat /\ Len(WriteOrder) + 1 <= LastStep /\ Len(LayerOrder) <= LastStep
<1> DEFINE a == Len(WriteOrder) + 1
           b == Len(LayerOrder)
<1>1. a \in Nat /\ b \in Nat
  BY WriteOrders, Layers
<1> HIDE DEF a, b
<1>2. \E x \in {a, b} : \A y \in {a, b} : x >= y
  BY <1>1
<1>3. Max({a, b}) \in {a, b} /\ \A y \in {a, b} : Max({a, b}) >= y
  BY <1>2 DEF Max
<1> QED
  BY <1>1, <1>3 DEF LastStep, a, b

-----------------------------------------------------------------------------
(* The types.                                                              *)

(* The versions a table is made from are among those that were read.       *)
LEMMA RowsRead ==
  ASSUME NEW events, NEW kept \in OneEach(LatestOf(events)), NEW t
  PROVE  /\ kept \subseteq LatestOf(events) /\ LatestOf(events) \subseteq events
         /\ RowsFor(t, kept) \subseteq kept
BY DEF OneEach, LatestOf, RowsFor

(* The part a commit adds, and from which rows.                            *)
LEMMA CommitFacts ==
  ASSUME TypeInv, NEW r \in Runs, NEW t \in Tables, CommitTable(r, t)
  PROVE  \E part \in Parts : \E kept \in Deduplicated(r) :
           /\ part.generation = <<r, attempt[r]>>
           /\ part.rows \subseteq RowsFor(t, kept)
           /\ writing[r] # "disturbed" => part.rows = RowsFor(t, kept)
           /\ local' = [local EXCEPT ![t] = @ \cup {part}]
<1>1. PICK kept \in Deduplicated(r) :
        \E moved \in IF writing[r] = "disturbed" THEN SUBSET RowsFor(t, kept) ELSE {RowsFor(t, kept)} :
          local' = [local EXCEPT ![t] =
                      @ \cup {[generation |-> <<r, attempt[r]>>, rows |-> moved]}]
  BY DEF CommitTable
<1>2. PICK moved \in IF writing[r] = "disturbed" THEN SUBSET RowsFor(t, kept) ELSE {RowsFor(t, kept)} :
        local' = [local EXCEPT ![t] = @ \cup {[generation |-> <<r, attempt[r]>>, rows |-> moved]}]
  BY <1>1
<1>3. moved \subseteq RowsFor(t, kept) /\ (writing[r] # "disturbed" => moved = RowsFor(t, kept))
  BY <1>2
<1>4. moved \subseteq Versions
  BY <1>3, RowsRead DEF Deduplicated, TypeInv
<1> DEFINE part == [generation |-> <<r, attempt[r]>>, rows |-> moved]
<1>5. part \in Parts /\ part.generation = <<r, attempt[r]>> /\ part.rows = moved
  BY <1>4 DEF Parts, TypeInv
<1> HIDE DEF part
<1>6. local' = [local EXCEPT ![t] = @ \cup {part}]
  BY <1>2 DEF part
<1> QED
  BY <1>3, <1>5, <1>6

(* Every variable keeps its type.                                          *)
LEMMA TypeInvCorrect == Spec => []TypeInv
<1>1. Init => TypeInv
  <2> SUFFICES ASSUME Init PROVE TypeInv
    OBVIOUS
  <2>1. 1 \in 1..Attempts /\ 0 \in 0..LastStep /\ 0 \in 0..MaxKills
    BY LakehouseAssumption, LastSteps
  <2>2. task \in [Runs -> Tasks] /\ attempt \in [Runs -> 1..Attempts] /\ step \in [Runs -> 0..LastStep]
    BY <2>1 DEF Init, Tasks
  <2>3. bronze \in SUBSET Versions /\ snapshot \in [Runs -> SUBSET bronze] /\ s3raw \subseteq bronze
    BY DEF Init
  <2>4. /\ writing \in [Runs -> {"no", "open", "disturbed"}]
        /\ queue \in [Runs -> SUBSET (Tables \X Parts)]
        /\ local \in [Tables -> SUBSET Parts] /\ s3 \in [Tables -> SUBSET Parts]
    BY DEF Init
  <2>5. kills \in 0..MaxKills /\ overlapped \in BOOLEAN
    BY <2>1 DEF Init
  <2> QED
    BY <2>2, <2>3, <2>4, <2>5 DEF TypeInv
<1>2. TypeInv /\ [Next]_vars => TypeInv'
  <2> SUFFICES ASSUME TypeInv, [Next]_vars PROVE TypeInv'
    OBVIOUS
  <2>1. ASSUME NEW v \in Versions, Land(v) PROVE TypeInv'
    <3>1. bronze \subseteq bronze' /\ bronze' \in SUBSET Versions
      BY <2>1 DEF Land, TypeInv
    <3>2. snapshot' \in [Runs -> SUBSET bronze'] /\ s3raw' \subseteq bronze'
      BY <2>1, <3>1 DEF Land, TypeInv
    <3> QED
      BY <2>1, <3>1, <3>2 DEF Land, TypeInv
  <2>2. ASSUME NEW r \in Runs, StartRun(r) \/ Hand(r) \/ FinishRun(r) PROVE TypeInv'
    <3>1. task' \in [Runs -> Tasks] /\ attempt' \in [Runs -> 1..Attempts] /\ step' \in [Runs -> 0..LastStep]
      <4>1. 1 \in 1..Attempts /\ 0 \in 0..LastStep
        BY LakehouseAssumption, LastSteps
      <4> QED
        BY ZenonT(30), <2>2, <4>1 DEF StartRun, Hand, FinishRun, Begin, TypeInv, Tasks
    <3>2. overlapped' \in BOOLEAN
      BY <2>2 DEF StartRun, Hand, FinishRun, TypeInv
    <3> QED
      BY <2>2, <3>1, <3>2 DEF StartRun, Hand, FinishRun, TypeInv
  <2>3. ASSUME NEW r \in Runs, ReadEvents(r) PROVE TypeInv'
    <3>1. step' \in [Runs -> 0..LastStep]
      BY <2>3, LastSteps, WriteOrders DEF ReadEvents, TypeInv
    <3> QED
      BY <2>3, <3>1 DEF ReadEvents, TypeInv
  <2>4. ASSUME NEW r \in Runs, NEW t \in Tables, OpenTable(r, t) PROVE TypeInv'
    <3>1. local' \in [Tables -> SUBSET Parts] /\ writing' \in [Runs -> {"no", "open", "disturbed"}]
      BY <2>4 DEF OpenTable, Disturb, TypeInv
    <3> QED
      BY <2>4, <3>1 DEF OpenTable, TypeInv
  <2>5. ASSUME NEW r \in Runs, NEW t \in Tables, CommitTable(r, t) PROVE TypeInv'
    <3>1. PICK part \in Parts : local' = [local EXCEPT ![t] = @ \cup {part}]
      BY <2>5, CommitFacts
    <3>2. local' \in [Tables -> SUBSET Parts]
      BY <3>1 DEF TypeInv
    <3>3. writing' \in [Runs -> {"no", "open", "disturbed"}]
      BY <2>5 DEF CommitTable, Disturb, TypeInv
    <3>4. step' \in [Runs -> 0..LastStep]
      <4>1. step[r] + 1 \in 0..LastStep
        BY <2>5, LastSteps, WriteOrders DEF CommitTable, Writes
      <4> QED
        BY <2>5, <4>1 DEF CommitTable, TypeInv
    <3> QED
      BY <2>5, <3>2, <3>3, <3>4 DEF CommitTable, TypeInv
  <2>6. ASSUME NEW r \in Runs, ListLayer(r) PROVE TypeInv'
    <3> DEFINE listed == UNION {{<<t, part>> : part \in local[t]} : t \in ToSet(LayerOrder[step[r] + 1]) \cap Tables}
    <3>1. queue' = [queue EXCEPT ![r] = listed] /\ listed \subseteq Tables \X Parts
      BY <2>6 DEF ListLayer, TypeInv
    <3> HIDE DEF listed
    <3>2. queue' \in [Runs -> SUBSET (Tables \X Parts)]
      BY <3>1 DEF TypeInv
    <3>3. s3raw' \subseteq bronze
      BY <2>6 DEF ListLayer, TypeInv
    <3>4. step' \in [Runs -> 0..LastStep]
      <4>1. step[r] + 1 \in 0..LastStep
        BY <2>6, LastSteps, Layers DEF ListLayer, TypeInv
      <4> QED
        BY <2>6, <4>1 DEF ListLayer, TypeInv
    <3> QED
      BY <2>6, <3>2, <3>3, <3>4 DEF ListLayer, TypeInv
  <2>7. ASSUME NEW r \in Runs, NEW t \in Tables, NEW part \in local[t], Upload(r, t, part) PROVE TypeInv'
    <3>1. s3' \in [Tables -> SUBSET Parts] /\ queue' \in [Runs -> SUBSET (Tables \X Parts)]
      BY <2>7 DEF Upload, Stored, TypeInv
    <3> QED
      BY <2>7, <3>1 DEF Upload, TypeInv
  <2>8. ASSUME NEW r \in Runs, TaskKilled(r) \/ TaskRaises(r) PROVE TypeInv'
    <3>1. Fail(r) /\ kills' \in 0..MaxKills
      BY <2>8, LakehouseAssumption DEF TaskKilled, TaskRaises, TypeInv
    <3>2. task' \in [Runs -> Tasks] /\ attempt' \in [Runs -> 1..Attempts]
      <4>1. CASE Exhausted(r)
        BY <3>1, <4>1 DEF Fail, TypeInv, Tasks
      <4>2. CASE ~Exhausted(r)
        <5>1. attempt[r] + 1 \in 1..Attempts
          BY <4>2, LakehouseAssumption DEF Exhausted, TypeInv
        <5> QED
          BY <3>1, <4>2, <5>1 DEF Fail, TypeInv
      <4> QED
        BY <4>1, <4>2
    <3>3. step' \in [Runs -> 0..LastStep] /\ writing' \in [Runs -> {"no", "open", "disturbed"}]
          /\ queue' \in [Runs -> SUBSET (Tables \X Parts)]
      BY <3>1, LastSteps DEF Fail, TypeInv
    <3> QED
      BY <3>1, <3>2, <3>3 DEF Fail, TypeInv
  <2>9. CASE UNCHANGED vars
    BY <2>9 DEF vars, TypeInv
  <2> QED
    BY <2>1, <2>2, <2>3, <2>4, <2>5, <2>6, <2>7, <2>8, <2>9 DEF Next, RunStep, Over
<1> QED
  BY <1>1, <1>2, PTL DEF Spec

-----------------------------------------------------------------------------
(* What the tables hold.                                                   *)

(* Nothing that landed goes, and runs that overlapped have done so.        *)
LEMMA OnlyMore ==
  ASSUME TypeInv, [Next]_vars
  PROVE  bronze \subseteq bronze' /\ (overlapped => overlapped')
<1>1. bronze \subseteq bronze'
  BY ZenonT(30) DEF Next, RunStep, Land, StartRun, ReadEvents, Hand, ListLayer, FinishRun, TaskKilled, TaskRaises,
         Fail, OpenTable, CommitTable, Upload, Over, vars
<1>2. ASSUME NEW r \in Runs, StartRun(r) PROVE overlapped => overlapped'
  <2>1. overlapped' = (overlapped \/ Active # {})
    BY <1>2 DEF StartRun
  <2> QED
    BY <2>1
<1>3. (\E r \in Runs : StartRun(r)) \/ overlapped' = overlapped
  BY ZenonT(30) DEF Next, RunStep, Land, ReadEvents, Hand, ListLayer, FinishRun, TaskKilled, TaskRaises,
         Fail, OpenTable, CommitTable, Upload, Over, vars
<1>4. overlapped' = overlapped => (overlapped => overlapped')
  BY Zenon
<1> QED
  BY <1>1, <1>2, <1>3, <1>4

(* Only the commit of a table brings a part that was nowhere before.       *)
LEMMA OneNewPart ==
  ASSUME TypeInv, NEW r \in Runs, NEW t \in Tables, CommitTable(r, t)
  PROVE  \E part \in Parts : \E kept \in Deduplicated(r) :
           /\ part.generation = <<r, attempt[r]>>
           /\ part.rows \subseteq RowsFor(t, kept)
           /\ writing[r] # "disturbed" => part.rows = RowsFor(t, kept)
           /\ local'[t] = local[t] \cup {part}
           /\ \A u \in Tables \ {t} : local'[u] = local[u] /\ PartsOf(u)' = PartsOf(u)
           /\ PartsOf(t)' = PartsOf(t) \cup {part}
<1>1. PICK part \in Parts : \E kept \in Deduplicated(r) :
        /\ part.generation = <<r, attempt[r]>>
        /\ part.rows \subseteq RowsFor(t, kept)
        /\ writing[r] # "disturbed" => part.rows = RowsFor(t, kept)
        /\ local' = [local EXCEPT ![t] = @ \cup {part}]
  BY CommitFacts
<1>2. s3' = s3
  BY DEF CommitTable
<1>3. local'[t] = local[t] \cup {part} /\ \A u \in Tables \ {t} : local'[u] = local[u]
  BY <1>1 DEF TypeInv
<1>4. \A u \in Tables \ {t} : PartsOf(u)' = PartsOf(u)
  BY <1>2, <1>3 DEF PartsOf
<1>5. PartsOf(t)' = PartsOf(t) \cup {part}
  BY <1>2, <1>3 DEF PartsOf
<1> QED
  BY <1>1, <1>3, <1>4, <1>5

(* Only a commit adds a part.                                              *)
LEMMA NoNewParts ==
  ASSUME TypeInv, [Next]_vars, ~ \E r \in Runs, t \in Tables : CommitTable(r, t)
  PROVE  \A t \in Tables : PartsOf(t)' \subseteq PartsOf(t)
<1>1. CASE local' = local /\ s3' = s3
  BY <1>1 DEF PartsOf
<1>2. ASSUME NEW r \in Runs, NEW t \in Tables, OpenTable(r, t)
      PROVE  \A u \in Tables : PartsOf(u)' \subseteq PartsOf(u)
  <2>1. s3' = s3 /\ \A u \in Tables : local'[u] \subseteq local[u]
    BY <1>2 DEF OpenTable, TypeInv
  <2> QED
    BY <2>1 DEF PartsOf
<1>3. ASSUME NEW r \in Runs, NEW t \in Tables, NEW part \in local[t], Upload(r, t, part)
      PROVE  \A u \in Tables : PartsOf(u)' \subseteq PartsOf(u)
  <2>1. local' = local /\ \A u \in Tables : s3'[u] \subseteq s3[u] \cup local[u]
    BY <1>3 DEF Upload, Stored, TypeInv
  <2> QED
    BY <2>1 DEF PartsOf
<1> QED
  BY <1>1, <1>2, <1>3
  DEF Next, RunStep, Land, StartRun, ReadEvents, Hand, ListLayer, FinishRun, TaskKilled, TaskRaises,
      Fail, Over, vars

(* Every part is made from events that are in bronze.                      *)
LEMMA ContentInvCorrect == Spec => []ContentInv
<1>1. Init => ContentInv
  <2>1. Init => \A t \in Tables : PartsOf(t) = {}
    BY DEF Init, PartsOf
  <2> QED
    BY <2>1 DEF ContentInv
<1>2. TypeInv /\ ContentInv /\ [Next]_vars => ContentInv'
  <2> SUFFICES ASSUME TypeInv, ContentInv, [Next]_vars PROVE ContentInv'
    OBVIOUS
  <2>1. bronze \subseteq bronze' /\ Accepted' = Accepted
    BY ZenonT(30) DEF Next, RunStep, Land, StartRun, ReadEvents, Hand, ListLayer, FinishRun, TaskKilled, TaskRaises,
           Fail, OpenTable, CommitTable, Upload, Over, vars, Accepted
  <2>2. CASE ~ \E r \in Runs, t \in Tables : CommitTable(r, t)
    <3>1. \A t \in Tables : PartsOf(t)' \subseteq PartsOf(t)
      BY <2>2, NoNewParts
    <3> QED
      BY <2>1, <3>1 DEF ContentInv
  <2>3. ASSUME NEW r \in Runs, NEW t \in Tables, CommitTable(r, t) PROVE ContentInv'
    <3>1. PICK part \in Parts, kept \in Deduplicated(r) :
            /\ part.rows \subseteq RowsFor(t, kept)
            /\ \A u \in Tables \ {t} : PartsOf(u)' = PartsOf(u)
            /\ PartsOf(t)' = PartsOf(t) \cup {part}
      BY <2>3, OneNewPart
    <3>2. RowsFor(t, kept) \subseteq bronze
      BY RowsRead DEF Deduplicated, TypeInv
    <3>3. t = "silver_trades" => RowsFor(t, kept) \subseteq Accepted
      <4>1. kept \subseteq Versions
        BY SMTT(30), RowsRead DEF Deduplicated, TypeInv
      <4> QED
        BY <4>1 DEF RowsFor, Accepted
    <3>4. part.rows \subseteq bronze' /\ (t = "silver_trades" => part.rows \subseteq Accepted)
      BY <2>1, <3>1, <3>2, <3>3
    <3>5. ASSUME NEW u \in Tables, NEW p \in PartsOf(u)'
          PROVE  p.rows \subseteq bronze' /\ (u = "silver_trades" => p.rows \subseteq Accepted)
      <4>1. CASE p \in PartsOf(u)
        BY <2>1, <4>1 DEF ContentInv
      <4>2. CASE p \notin PartsOf(u)
        <5>1. u = t /\ p = part
          BY <3>1, <3>5, <4>2
        <5> QED
          BY <3>4, <5>1
      <4> QED
        BY <4>1, <4>2
    <3> QED
      BY <2>1, <3>5 DEF ContentInv
  <2> QED
    BY <2>2, <2>3
<1> QED
  BY <1>1, <1>2, TypeInvCorrect, PTL DEF Spec

-----------------------------------------------------------------------------
(* One run at a time.                                                      *)

(* As long as runs do not overlap, one is active at most and nothing       *)
(* disturbs what it writes.                                                *)
LEMMA SoloInvCorrect == Spec => []SoloInv
<1>1. Init => SoloInv
  BY DEF Init, SoloInv, Active
<1>2. TypeInv /\ SoloInv /\ [Next]_vars => SoloInv'
  <2> SUFFICES ASSUME TypeInv, SoloInv, [Next]_vars PROVE SoloInv'
    OBVIOUS
  <2>1. CASE UNCHANGED <<task, writing, overlapped>>
    BY <2>1 DEF SoloInv, Active
  <2>2. ASSUME NEW r \in Runs, StartRun(r) PROVE SoloInv'
    <3>1. /\ task' = [task EXCEPT ![r] = "transform"] /\ writing' = writing
          /\ overlapped' = (overlapped \/ Active # {})
      BY <2>2 DEF StartRun, Begin
    <3>2. Active = {} => Active' \subseteq {r}
      BY <3>1 DEF Active, TypeInv
    <3> QED
      BY <3>1, <3>2 DEF SoloInv
  <2>3. ASSUME NEW r \in Runs, Hand(r) \/ FinishRun(r) \/ Fail(r) PROVE SoloInv'
    <3>1. /\ overlapped' = overlapped
          /\ writing' = writing \/ writing' = [writing EXCEPT ![r] = "no"]
          /\ \A q \in Runs : task'[q] \in {"transform", "publish"} => task[q] \in {"transform", "publish"}
      BY <2>3 DEF Hand, FinishRun, Fail, Begin, TypeInv
    <3>2. Active' \subseteq Active
      BY <3>1 DEF Active
    <3>3. \A q \in Runs : writing'[q] = writing[q] \/ writing'[q] = "no"
      BY <3>1 DEF TypeInv
    <3> QED
      BY <3>1, <3>2, <3>3 DEF SoloInv
  <2>4. ASSUME NEW r \in Runs, NEW t \in Tables, OpenTable(r, t) \/ CommitTable(r, t) PROVE SoloInv'
    <3>1. UNCHANGED <<task, overlapped>> /\ Writes(r, t) /\ (Disturb(r, t, "open") \/ Disturb(r, t, "no"))
      BY <2>4 DEF OpenTable, CommitTable
    <3>2. Active' = Active
      BY <3>1 DEF Active
    <3>3. ASSUME ~overlapped, NEW q \in Runs PROVE writing'[q] # "disturbed"
      <4>1. CASE q = r
        BY <3>1, <4>1 DEF Disturb
      <4>2. CASE q # r
        <5>1. ~Writes(q, t)
          BY <3>1, <3>3, <4>2 DEF SoloInv, Active, Writes
        <5> QED
          BY <3>1, <3>3, <4>2, <5>1 DEF Disturb, SoloInv
      <4> QED
        BY <4>1, <4>2
    <3> QED
      BY <3>1, <3>2, <3>3 DEF SoloInv
  <2> QED
    BY <2>1, <2>2, <2>3, <2>4
    DEF Next, RunStep, Land, ReadEvents, ListLayer, Upload, TaskKilled, TaskRaises, Over, vars
<1> QED
  BY <1>1, <1>2, TypeInvCorrect, PTL DEF Spec

-----------------------------------------------------------------------------
(* The tables of a generation.                                             *)

(* The try has read its events, or is over.                                *)
Begun(r, a) ==
  /\ task[r] # "waiting"
  /\ task[r] = "transform" => a < attempt[r] \/ (a = attempt[r] /\ step[r] >= 1)

(* A try that has begun stays begun.                                       *)
LEMMA BegunStays ==
  ASSUME TypeInv, [Next]_vars, NEW q \in Runs, NEW a \in 1..Attempts, Begun(q, a)
  PROVE  Begun(q, a)'
<1>0. /\ a \in Nat /\ attempt[q] \in Nat /\ step[q] \in Nat
      /\ \A r \in Runs : attempt[r] \in Nat /\ step[r] \in Nat
  BY LakehouseAssumption, LastSteps DEF TypeInv
<1>1. CASE UNCHANGED <<task, attempt, step>>
  BY <1>1 DEF Begun
<1>2. ASSUME NEW r \in Runs, StartRun(r) PROVE Begun(q, a)'
  <2>1. r # q /\ task'[q] = task[q] /\ attempt'[q] = attempt[q] /\ step'[q] = step[q]
    BY <1>2 DEF StartRun, Begin, Begun, TypeInv
  <2> QED
    BY <2>1 DEF Begun
<1>3. ASSUME NEW r \in Runs, Hand(r) \/ FinishRun(r) PROVE Begun(q, a)'
  <2>1. \/ task'[q] = task[q] /\ attempt'[q] = attempt[q] /\ step'[q] = step[q]
        \/ task'[q] \in {"publish", "done"}
    BY <1>3 DEF Hand, FinishRun, Begin, TypeInv
  <2> QED
    BY <2>1 DEF Begun
<1>4. ASSUME NEW r \in Runs, Fail(r) PROVE Begun(q, a)'
  <2>1. \/ task'[q] = task[q] /\ attempt'[q] = attempt[q] /\ step'[q] = step[q]
        \/ task'[q] = "failed"
        \/ task'[q] = task[q] /\ attempt'[q] = attempt[q] + 1
    BY <1>4 DEF Fail, TypeInv
  <2> QED
    BY <1>0, <2>1 DEF Begun
<1>5. ASSUME NEW r \in Runs, step' = [step EXCEPT ![r] = 1] \/ step' = [step EXCEPT ![r] = @ + 1],
             UNCHANGED <<task, attempt>>
      PROVE  Begun(q, a)'
  <2>1. step'[q] = step[q] \/ step'[q] >= 1
    BY <1>0, <1>5 DEF TypeInv
  <2> QED
    BY <1>5, <2>1 DEF Begun
<1> QED
  BY ZenonT(30), <1>1, <1>2, <1>3, <1>4, <1>5
  DEF Next, RunStep, Land, ReadEvents, OpenTable, CommitTable, ListLayer, Upload, TaskKilled, TaskRaises,
      Over, vars

(* No part is of a try that has not begun.                                 *)
LEMMA GenerationInvCorrect == Spec => []GenerationInv
<1>1. Init => GenerationInv
  <2>1. Init => \A t \in Tables : PartsOf(t) = {}
    BY DEF Init, PartsOf
  <2> QED
    BY <2>1 DEF GenerationInv
<1>2. TypeInv /\ GenerationInv /\ [Next]_vars => GenerationInv'
  <2> SUFFICES ASSUME TypeInv, GenerationInv, [Next]_vars PROVE GenerationInv'
    OBVIOUS
  <2>1. \A t \in Tables : \A part \in PartsOf(t) : \A r \in Runs, a \in 1..Attempts :
          part.generation = <<r, a>> => Begun(r, a)'
    BY BegunStays DEF GenerationInv, Begun
  <2>2. CASE ~ \E r \in Runs, t \in Tables : CommitTable(r, t)
    <3>1. \A t \in Tables : PartsOf(t)' \subseteq PartsOf(t)
      BY <2>2, NoNewParts
    <3> QED
      BY <2>1, <3>1 DEF GenerationInv, Begun
  <2>3. ASSUME NEW r \in Runs, NEW t \in Tables, CommitTable(r, t) PROVE GenerationInv'
    <3>1. PICK part \in Parts :
            /\ part.generation = <<r, attempt[r]>>
            /\ \A u \in Tables \ {t} : PartsOf(u)' = PartsOf(u)
            /\ PartsOf(t)' = PartsOf(t) \cup {part}
      BY <2>3, OneNewPart
    <3>2. task'[r] = "transform" /\ attempt'[r] = attempt[r] /\ step'[r] >= 1
      BY <2>3 DEF CommitTable, Writes, TypeInv
    <3>3. ASSUME NEW u \in Tables, NEW p \in PartsOf(u)', NEW q \in Runs, NEW a \in 1..Attempts,
                 p.generation = <<q, a>>
          PROVE  Begun(q, a)'
      <4>1. CASE p \in PartsOf(u)
        BY <2>1, <3>3, <4>1
      <4>2. CASE p \notin PartsOf(u)
        <5>1. q = r /\ a = attempt[r]
          BY <3>1, <3>3, <4>2
        <5> QED
          BY <3>2, <5>1 DEF Begun
      <4> QED
        BY <4>1, <4>2
    <3> QED
      BY <3>3 DEF GenerationInv, Begun
  <2> QED
    BY <2>2, <2>3
<1> QED
  BY <1>1, <1>2, TypeInvCorrect, PTL DEF Spec

(* Without ties there is one latest version of an id, and one way to keep  *)
(* one of each.                                                            *)
LEMMA UntiedLatest ==
  ASSUME TypeInv, Untied, NEW events \in SUBSET bronze
  PROVE  /\ \A v, w \in LatestOf(events) : v.id = w.id => v = w
         /\ \A kept \in OneEach(LatestOf(events)) : kept = LatestOf(events)
<1>1. ASSUME NEW v \in LatestOf(events), NEW w \in LatestOf(events), v.id = w.id PROVE v = w
  <2>1. v \in bronze /\ w \in bronze /\ v.ptime <= w.ptime /\ w.ptime <= v.ptime
    BY <1>1 DEF LatestOf
  <2>2. v.ptime \in Nat /\ w.ptime \in Nat
    BY <2>1, LakehouseAssumption DEF TypeInv, Versions
  <2>3. v.ptime = w.ptime
    BY <2>1, <2>2
  <2> QED
    BY <1>1, <2>1, <2>3 DEF Untied
<1>2. ASSUME NEW kept \in OneEach(LatestOf(events)) PROVE kept = LatestOf(events)
  BY <1>1 DEF OneEach
<1> QED
  BY <1>1, <1>2

(* A try that has read its events goes on with them.                       *)
LEMMA SameTry ==
  ASSUME TypeInv, [Next]_vars, NEW q \in Runs, ~ReadEvents(q),
         task'[q] = "transform", step'[q] >= 1
  PROVE  /\ task[q] = "transform" /\ attempt'[q] = attempt[q] /\ snapshot'[q] = snapshot[q]
         /\ step[q] >= 1
<1>0. \A r \in Runs : step[r] \in Nat
  BY LastSteps DEF TypeInv
<1>1. CASE UNCHANGED <<task, attempt, step, snapshot>>
  BY <1>1
<1>2. ASSUME NEW r \in Runs, StartRun(r) \/ Hand(r) \/ FinishRun(r) PROVE r # q /\ snapshot' = snapshot
  BY <1>2 DEF StartRun, Hand, FinishRun, Begin, TypeInv
<1>3. ASSUME NEW r \in Runs, Fail(r) PROVE r # q /\ snapshot' = snapshot
  BY <1>3 DEF Fail, TypeInv
<1>4. ASSUME NEW r \in Runs, ListLayer(r) PROVE r # q /\ snapshot' = snapshot
  BY <1>4 DEF ListLayer, TypeInv
<1>5. ASSUME NEW r \in Runs, r # q, StartRun(r) \/ Hand(r) \/ FinishRun(r) \/ Fail(r) \/ ListLayer(r) \/ ReadEvents(r)
      PROVE  task'[q] = task[q] /\ attempt'[q] = attempt[q] /\ step'[q] = step[q] /\ snapshot'[q] = snapshot[q]
  <2>1. CASE StartRun(r) \/ Hand(r) \/ FinishRun(r)
    BY <1>5, <2>1 DEF StartRun, Hand, FinishRun, Begin, TypeInv
  <2>2. CASE Fail(r)
    BY <1>5, <2>2 DEF Fail, TypeInv
  <2>3. CASE ListLayer(r) \/ ReadEvents(r)
    BY <1>5, <2>3 DEF ListLayer, ReadEvents, TypeInv
  <2> QED
    BY <1>5, <2>1, <2>2, <2>3
<1>6. ASSUME NEW r \in Runs, NEW t \in Tables, CommitTable(r, t)
      PROVE  /\ task' = task /\ attempt' = attempt /\ snapshot' = snapshot
             /\ step[q] = step'[q] \/ step[q] >= 1
  BY <1>6 DEF CommitTable, Writes, TypeInv
<1>7. CASE \E r \in Runs : \E t \in Tables : CommitTable(r, t)
  BY <1>6, <1>7
<1>8. CASE \E r \in Runs : StartRun(r) \/ Hand(r) \/ FinishRun(r) \/ Fail(r) \/ ListLayer(r) \/ ReadEvents(r)
  <2>1. PICK r \in Runs : StartRun(r) \/ Hand(r) \/ FinishRun(r) \/ Fail(r) \/ ListLayer(r) \/ ReadEvents(r)
    BY <1>8
  <2>2. r # q
    BY <1>2, <1>3, <1>4, <2>1
  <2> QED
    BY <1>5, <2>1, <2>2
<1> QED
  BY <1>1, <1>7, <1>8
  DEF Next, RunStep, Land, OpenTable, Upload, TaskKilled, TaskRaises, Over, vars

(* The parts of a generation are of the same events as its snapshot.       *)
LEMMA SameEventsInvCorrect == Spec => []SameEventsInv
<1>1. Init => SameEventsInv
  <2> SUFFICES ASSUME Init PROVE SameEventsInv
    OBVIOUS
  <2>1. \A t \in Tables : PartsOf(t) = {}
    BY DEF Init, PartsOf
  <2>2. \A generation, events : MadeFrom(generation, events)
    BY <2>1 DEF MadeFrom
  <2>3. {} \in SUBSET bronze
    OBVIOUS
  <2> QED
    BY <2>2, <2>3 DEF SameEventsInv
<1>2. TypeInv /\ SoloInv /\ GenerationInv /\ SameEventsInv /\ [Next]_vars => SameEventsInv'
  <2> SUFFICES ASSUME TypeInv, SoloInv, GenerationInv, SameEventsInv, [Next]_vars,
                      ~overlapped', Untied'
               PROVE  /\ \A generation \in Runs \X (1..Attempts) :
                           \E events \in SUBSET bronze' : MadeFrom(generation, events)'
                      /\ \A r \in Runs :
                           task'[r] = "transform" /\ step'[r] >= 1 => MadeFrom(<<r, attempt[r]>>, snapshot[r])'
    BY DEF SameEventsInv
  <2>1. bronze \subseteq bronze' /\ ~overlapped
    BY OnlyMore
  <2>2. Untied
    BY <2>1 DEF Untied
  <2>3. /\ \A generation \in Runs \X (1..Attempts) :
             \E events \in SUBSET bronze : MadeFrom(generation, events)
        /\ \A r \in Runs :
             task[r] = "transform" /\ step[r] >= 1 => MadeFrom(<<r, attempt[r]>>, snapshot[r])
    BY <2>1, <2>2 DEF SameEventsInv
  <2>4. CASE ~ \E r \in Runs, t \in Tables : CommitTable(r, t)
    <3>1. \A t \in Tables : PartsOf(t)' \subseteq PartsOf(t)
      BY <2>4, NoNewParts
    <3>2. \A generation, events : MadeFrom(generation, events) =>
            \A t \in Tables : \A part \in PartsOf(t)' :
              part.generation = generation => part.rows = RowsFor(t, LatestOf(events))
      BY <3>1 DEF MadeFrom
    <3>3. ASSUME NEW r \in Runs, task'[r] = "transform", step'[r] >= 1
          PROVE  MadeFrom(<<r, attempt[r]>>, snapshot[r])'
      <4>1. CASE ~ReadEvents(r)
        <5>1. task[r] = "transform" /\ attempt'[r] = attempt[r] /\ snapshot'[r] = snapshot[r] /\ step[r] >= 1
          BY <3>3, <4>1, SameTry
        <5> QED
          BY <2>3, <3>2, <5>1 DEF MadeFrom
      <4>2. CASE ReadEvents(r)
        <5>1. task[r] = "transform" /\ attempt' = attempt /\ step[r] = 0 /\ attempt[r] \in 1..Attempts
          BY <4>2 DEF ReadEvents, TypeInv
        <5>2. \A t \in Tables : \A part \in PartsOf(t)' : part.generation # <<r, attempt[r]>>
          BY <3>1, <5>1 DEF GenerationInv
        <5> QED
          BY <5>1, <5>2 DEF MadeFrom
      <4> QED
        BY <4>1, <4>2
    <3>4. ASSUME NEW generation \in Runs \X (1..Attempts)
          PROVE  \E events \in SUBSET bronze' : MadeFrom(generation, events)'
      <4>1. PICK events \in SUBSET bronze : MadeFrom(generation, events)
        BY <2>3
      <4>2. events \in SUBSET bronze'
        BY <2>1
      <4>3. MadeFrom(generation, events)'
        BY <3>2, <4>1 DEF MadeFrom
      <4> QED
        BY <4>2, <4>3
    <3> QED
      BY <3>3, <3>4
  <2>5. ASSUME NEW r \in Runs, NEW t \in Tables, CommitTable(r, t)
        PROVE  /\ \A generation \in Runs \X (1..Attempts) :
                    \E events \in SUBSET bronze' : MadeFrom(generation, events)'
               /\ \A q \in Runs :
                    task'[q] = "transform" /\ step'[q] >= 1 => MadeFrom(<<q, attempt[q]>>, snapshot[q])'
    <3>1. PICK part \in Parts, kept \in Deduplicated(r) :
            /\ part.generation = <<r, attempt[r]>>
            /\ writing[r] # "disturbed" => part.rows = RowsFor(t, kept)
            /\ \A u \in Tables \ {t} : PartsOf(u)' = PartsOf(u)
            /\ PartsOf(t)' = PartsOf(t) \cup {part}
      BY <2>5, OneNewPart
    <3>2. part.rows = RowsFor(t, LatestOf(snapshot[r]))
      <4>1. writing[r] # "disturbed"
        BY <2>1 DEF SoloInv
      <4>2. snapshot[r] \in SUBSET bronze /\ kept \in OneEach(LatestOf(snapshot[r]))
        BY DEF TypeInv, Deduplicated
      <4>3. kept = LatestOf(snapshot[r])
        BY <2>2, <4>2, UntiedLatest
      <4> QED
        BY <3>1, <4>1, <4>3
    <3>3. \A u \in Tables : \A p \in PartsOf(u)' : p \in PartsOf(u) \/ (u = t /\ p = part)
      BY <3>1
    <3>4. UNCHANGED <<bronze, task, attempt, snapshot>> /\ task[r] = "transform" /\ step[r] >= 1
          /\ \A q \in Runs : step'[q] >= 1 => step[q] >= 1
      BY <2>5 DEF CommitTable, Writes, TypeInv
    <3>5. MadeFrom(<<r, attempt[r]>>, snapshot[r])'
      BY <2>3, <3>2, <3>3, <3>4 DEF MadeFrom
    <3>6. \A generation, events : generation # <<r, attempt[r]>> /\ MadeFrom(generation, events) =>
            \A u \in Tables : \A p \in PartsOf(u)' :
              p.generation = generation => p.rows = RowsFor(u, LatestOf(events))
      BY <3>1, <3>3 DEF MadeFrom
    <3>7. ASSUME NEW q \in Runs, task'[q] = "transform", step'[q] >= 1
          PROVE  MadeFrom(<<q, attempt[q]>>, snapshot[q])'
      <4>1. CASE q = r
        BY <3>5, <4>1
      <4>2. CASE q # r
        BY <2>3, <3>4, <3>6, <3>7, <4>2 DEF MadeFrom
      <4> QED
        BY <4>1, <4>2
    <3>8. ASSUME NEW generation \in Runs \X (1..Attempts)
          PROVE  \E events \in SUBSET bronze' : MadeFrom(generation, events)'
      <4>1. CASE generation = <<r, attempt[r]>>
        <5>1. snapshot[r] \in SUBSET bronze'
          BY <3>4 DEF TypeInv
        <5>2. \A u \in Tables : \A p \in PartsOf(u)' :
                p.generation = generation => p.rows = RowsFor(u, LatestOf(snapshot[r]))
          BY <3>4, <3>5, <4>1 DEF MadeFrom
        <5> QED
          BY <5>1, <5>2 DEF MadeFrom
      <4>2. CASE generation # <<r, attempt[r]>>
        <5>1. PICK events \in SUBSET bronze : MadeFrom(generation, events)
          BY <2>3
        <5> QED
          BY <3>4, <3>6, <4>2, <5>1 DEF MadeFrom
      <4> QED
        BY <4>1, <4>2
    <3> QED
      BY <3>7, <3>8
  <2> QED
    BY <2>4, <2>5
<1> QED
  BY <1>1, <1>2, TypeInvCorrect, SoloInvCorrect, GenerationInvCorrect, PTL DEF Spec

(* A row that is rejected is no trade.                                     *)
LEMMA Disjoint ==
  ASSUME NEW row
  PROVE  ~(IsRejected(row) /\ ProjectedTo("trade", row))
<1> DEFINE condition == ValidCondition(row)
<1>1. condition = "true" => Negation(condition) = "false"
  BY DEF Negation
<1> HIDE DEF condition
<1> QED
  BY <1>1 DEF IsRejected, ProjectedTo, IsValid, Holds, condition

(* The five tables one run of the transform has written tell one story     *)
(* although each evaluates the events again, if versions do not tie and    *)
(* runs do not overlap (financial_streaming_microbatch_pipeline.py).       *)
THEOREM GenerationCorrect == Spec => []GenerationAgrees
<1>1. TypeInv /\ SameEventsInv => GenerationAgrees
  <2> SUFFICES ASSUME TypeInv, SameEventsInv, ~overlapped, Untied,
                      NEW t \in Tables, NEW u \in Tables, NEW p \in PartsOf(t), NEW q \in PartsOf(u),
                      p.generation = q.generation
               PROVE  IF {t, u} \subseteq TradeTables \/ t = u THEN p.rows = q.rows
                      ELSE \A v \in p.rows, w \in q.rows : v.id # w.id
    BY DEF GenerationAgrees
  <2>1. p.generation \in Runs \X (1..Attempts)
    BY DEF TypeInv, PartsOf, Parts
  <2>2. PICK events \in SUBSET bronze : MadeFrom(p.generation, events)
    BY <2>1 DEF SameEventsInv
  <2>3. p.rows = RowsFor(t, LatestOf(events)) /\ q.rows = RowsFor(u, LatestOf(events))
    BY <2>2 DEF MadeFrom
  <2>4. CASE {t, u} \subseteq TradeTables \/ t = u
    BY <2>3, <2>4 DEF TradeTables, RowsFor
  <2>5. CASE ~({t, u} \subseteq TradeTables \/ t = u)
    <3>1. ASSUME NEW v \in p.rows, NEW w \in q.rows, v.id = w.id PROVE FALSE
      <4>1. v = w
        BY <2>2, <2>3, <3>1, UntiedLatest DEF RowsFor
      <4>2. \/ t = "rejected_events" /\ u # "rejected_events"
            \/ u = "rejected_events" /\ t # "rejected_events"
        BY <2>5 DEF TradeTables
      <4>3. IsRejected(MicrobatchRow(v.row)) /\ ProjectedTo("trade", MicrobatchRow(v.row))
        BY <2>3, <4>1, <4>2 DEF RowsFor
      <4> QED
        BY <4>3, Disjoint
    <3> QED
      BY <2>5, <3>1
  <2> QED
    BY <2>4, <2>5
<1> QED
  BY <1>1, TypeInvCorrect, SameEventsInvCorrect, PTL

-----------------------------------------------------------------------------
(* What runs that do not overlap have published.                           *)

(* More parts show what fewer do.                                          *)
LEMMA ShowsMore ==
  ASSUME NEW r, NEW parts, NEW more, parts \subseteq more, Shows(r, parts)
  PROVE  Shows(r, more)
BY DEF Shows

(* What a run owes depends on its snapshot only.                           *)
LEMMA SameDue ==
  ASSUME NEW r, snapshot'[r] = snapshot[r]
  PROVE  /\ Due(r)' = Due(r) /\ \A parts : Shows(r, parts) =>
              \A v \in Due(r)' : \E part \in parts : \E w \in part.rows : w.id = v.id /\ w.ptime >= v.ptime
<1>1. Due(r)' = Due(r)
  BY DEF Due, LatestOf, Accepted
<1> QED
  BY <1>1 DEF Shows

(* A run that is not active has only to stay shown.                        *)
LEMMA RestingRun ==
  ASSUME NEW r \in Runs, Publishes(r), task[r] \notin {"transform", "publish"}, task'[r] = task[r],
         queue'[r] = queue[r], snapshot'[r] = snapshot[r], s3["silver_trades"] \subseteq s3'["silver_trades"]
  PROVE  Publishes(r)'
<1>1. task[r] = "done" => \A v \in Due(r)' : \E part \in s3'["silver_trades"] : \E w \in part.rows :
                            w.id = v.id /\ w.ptime >= v.ptime
  <2>1. task[r] = "done" => Shows(r, s3'["silver_trades"])
    BY ShowsMore DEF Publishes
  <2> QED
    BY <2>1, SameDue
<1>2. task[r] = "done" => Shows(r, s3["silver_trades"])'
  BY <1>1 DEF Shows
<1> QED
  BY <1>2 DEF Publishes

(* A step of the only active run, or of one that becomes it.               *)
LEMMA SoloStep ==
  ASSUME TypeInv, SoloInv, ~overlapped, \A p \in Runs : Publishes(p), NEW r \in Runs,
         r \in Active \/ Active = {},
         \A q \in Runs \ {r} : /\ task'[q] = task[q] /\ queue'[q] = queue[q]
                               /\ snapshot'[q] = snapshot[q],
         s3["silver_trades"] \subseteq s3'["silver_trades"],
         Publishes(r)', Audited'
  PROVE  PublishInv'
<1>1. ASSUME NEW q \in Runs \ {r} PROVE Publishes(q)'
  <2>1. task[q] \notin {"transform", "publish"}
    BY DEF SoloInv, Active
  <2> QED
    BY <2>1, RestingRun
<1> QED
  BY <1>1 DEF PublishInv

(* A run that transforms has trades of its own to show.                    *)
LEMMA ShowsOwn ==
  ASSUME TypeInv, NEW r \in Runs, NEW kept \in Deduplicated(r), NEW part,
         part.rows = RowsFor("silver_trades", kept), NEW parts, part \in parts
  PROVE  Shows(r, parts)
<1> SUFFICES ASSUME NEW v \in Due(r)
             PROVE  \E w \in part.rows : w.id = v.id /\ w.ptime >= v.ptime
  BY DEF Shows
<1>1. v \in LatestOf(snapshot[r]) /\ v \in snapshot[r] /\ v \in Versions
  BY DEF Due, LatestOf, TypeInv
<1>2. PICK w \in kept : w.id = v.id
  BY <1>1 DEF Deduplicated, OneEach
<1>3. w \in LatestOf(snapshot[r]) /\ w \in snapshot[r]
  BY <1>2, RowsRead DEF Deduplicated
<1>4. v.ptime <= w.ptime /\ v.ptime \in Nat /\ w.ptime \in Nat
  <2>1. v.ptime <= w.ptime
    BY <1>1, <1>2, <1>3 DEF LatestOf
  <2>2. v.ptime \in Times /\ w.ptime \in Times
    BY <1>1, <1>3 DEF TypeInv, Versions
  <2> QED
    BY <2>1, <2>2, LakehouseAssumption
<1>5. w \in Accepted
  BY <1>2, <1>3 DEF Due
<1>6. w \in part.rows
  BY <1>2, <1>5 DEF Accepted, RowsFor
<1> QED
  BY <1>2, <1>4, <1>6

(* The publisher has put, or has still to put, what its run owes.          *)
LEMMA PublishInvCorrect == Spec => []PublishInv
<1>1. Init => PublishInv
  BY WriteOrders DEF Init, PublishInv, Audited, Publishes
<1>2. TypeInv /\ ContentInv /\ SoloInv /\ PublishInv /\ [Next]_vars => PublishInv'
  <2> SUFFICES ASSUME TypeInv, ContentInv, SoloInv, PublishInv, [Next]_vars, ~overlapped' PROVE PublishInv'
    BY DEF PublishInv
  <2>1. ~overlapped /\ Audited /\ \A r \in Runs : Publishes(r)
    BY OnlyMore DEF PublishInv
  <2>2. /\ "silver_trades" \in Tables
        /\ \A r \in Runs : step[r] \in Nat
    BY WriteOrders, LastSteps DEF TypeInv
  <2>3. CASE UNCHANGED <<task, step, snapshot, queue, local, s3, s3raw>>
    <3>1. Audited'
      BY <2>1, <2>3 DEF Audited
    <3>2. ASSUME NEW r \in Runs PROVE Publishes(r)'
      <4>1. \A parts : Shows(r, parts) => Shows(r, parts)'
        BY <2>3, SameDue DEF Shows
      <4> QED
        BY <2>1, <2>3, <4>1 DEF Publishes
    <3> QED
      BY <3>1, <3>2 DEF PublishInv
  <2>4. ASSUME NEW r \in Runs, StartRun(r) PROVE PublishInv'
    <3>1. /\ task[r] = "waiting" /\ task'[r] = "transform" /\ step'[r] = 0
          /\ \A q \in Runs \ {r} : task'[q] = task[q]
          /\ UNCHANGED <<snapshot, queue, local, s3, s3raw>> /\ overlapped' = (overlapped \/ Active # {})
      BY <2>4 DEF StartRun, Begin, TypeInv
    <3>2. Active = {}
      BY <3>1
    <3>3. Publishes(r)' /\ Audited'
      BY <2>1, <3>1 DEF Publishes, Audited
    <3> QED
      BY <2>1, <3>1, <3>2, <3>3, SoloStep
  <2>5. ASSUME NEW r \in Runs, ReadEvents(r) PROVE PublishInv'
    <3>1. /\ task[r] = "transform" /\ step'[r] = 1
          /\ \A q \in Runs \ {r} : snapshot'[q] = snapshot[q]
          /\ UNCHANGED <<task, queue, local, s3, s3raw>>
      BY <2>5 DEF ReadEvents, TypeInv
    <3>2. r \in Active
      BY <3>1 DEF Active
    <3>3. Publishes(r)' /\ Audited'
      BY <2>1, <3>1 DEF Publishes, Audited
    <3> QED
      BY <2>1, <3>1, <3>2, <3>3, SoloStep
  <2>6. ASSUME NEW r \in Runs, NEW t \in Tables, OpenTable(r, t) PROVE PublishInv'
    <3>1. /\ task[r] = "transform" /\ (t = "silver_trades" => step[r] = 2)
          /\ \A u \in Tables \ {t} : local'[u] = local[u]
          /\ UNCHANGED <<task, step, snapshot, queue, s3, s3raw>>
      BY <2>6, WriteOrders DEF OpenTable, Writes, TypeInv
    <3>2. r \in Active
      BY <3>1 DEF Active
    <3>3. step[r] >= 3 => Shows(r, local["silver_trades"])'
      <4>1. SUFFICES ASSUME step[r] >= 3 PROVE Shows(r, local["silver_trades"])'
        OBVIOUS
      <4>2. local'["silver_trades"] = local["silver_trades"] /\ Shows(r, local["silver_trades"])
        BY <2>1, <2>2, <3>1, <4>1 DEF Publishes
      <4> QED
        BY <3>1, <4>2, SameDue DEF Shows
    <3>4. Publishes(r)' /\ Audited'
      BY <2>1, <3>1, <3>3 DEF Publishes, Audited
    <3> QED
      BY <2>1, <3>1, <3>2, <3>4, SoloStep
  <2>7. ASSUME NEW r \in Runs, NEW t \in Tables, CommitTable(r, t) PROVE PublishInv'
    <3>1. /\ task[r] = "transform" /\ (t = "silver_trades" <=> step[r] = 2) /\ step'[r] = step[r] + 1
          /\ UNCHANGED <<task, snapshot, queue, s3, s3raw>>
      BY <2>7, WriteOrders DEF CommitTable, Writes, TypeInv
    <3>2. r \in Active
      BY <3>1 DEF Active
    <3>3. PICK part \in Parts, kept \in Deduplicated(r) :
            /\ writing[r] # "disturbed" => part.rows = RowsFor(t, kept)
            /\ local'[t] = local[t] \cup {part}
            /\ \A u \in Tables \ {t} : local'[u] = local[u]
      BY <2>7, OneNewPart
    <3>4. step'[r] >= 3 => Shows(r, local["silver_trades"])'
      <4>1. SUFFICES ASSUME step'[r] >= 3 PROVE Shows(r, local'["silver_trades"])
        BY <3>1, SameDue DEF Shows
      <4>2. CASE t = "silver_trades"
        <5>1. writing[r] # "disturbed"
          BY <2>1 DEF SoloInv
        <5>2. part.rows = RowsFor("silver_trades", kept) /\ part \in local'["silver_trades"]
          BY <3>3, <4>2, <5>1
        <5> QED
          BY <5>2, ShowsOwn
      <4>3. CASE t # "silver_trades"
        <5>1. step[r] >= 3 /\ local'["silver_trades"] = local["silver_trades"]
          BY <2>2, <3>1, <3>3, <4>1, <4>3
        <5> QED
          BY <2>1, <3>1, <5>1 DEF Publishes
      <4> QED
        BY <4>2, <4>3
    <3>5. Publishes(r)' /\ Audited'
      BY <2>1, <3>1, <3>4 DEF Publishes, Audited
    <3> QED
      BY <2>1, <3>1, <3>2, <3>5, SoloStep
  <2>8. ASSUME NEW r \in Runs, Hand(r) PROVE PublishInv'
    <3>1. /\ task[r] = "transform" /\ step[r] > Len(WriteOrder) /\ task'[r] = "publish" /\ step'[r] = 0
          /\ \A q \in Runs \ {r} : task'[q] = task[q]
          /\ UNCHANGED <<snapshot, queue, local, s3, s3raw>>
      BY <2>8 DEF Hand, Begin, TypeInv
    <3>2. r \in Active /\ step[r] >= 3
      BY <2>2, <3>1, WriteOrders DEF Active
    <3>3. Shows(r, local["silver_trades"])'
      <4>1. Shows(r, local["silver_trades"])
        BY <2>1, <3>1, <3>2 DEF Publishes
      <4> QED
        BY <3>1, <4>1, SameDue DEF Shows
    <3>4. Publishes(r)' /\ Audited'
      BY <2>1, <3>1, <3>3 DEF Publishes, Audited
    <3> QED
      BY <2>1, <3>1, <3>2, <3>4, SoloStep
  <2>9. ASSUME NEW r \in Runs, ListLayer(r) PROVE PublishInv'
    <3> DEFINE listed == ToSet(LayerOrder[step[r] + 1])
               files == UNION {{<<t, part>> : part \in local[t]} : t \in listed \cap Tables}
    <3>1. /\ task[r] = "publish" /\ step[r] < 4 /\ queue[r] = {} /\ step'[r] = step[r] + 1
          /\ queue'[r] = files /\ \A q \in Runs \ {r} : queue'[q] = queue[q]
          /\ s3raw' = IF "raw" \in listed THEN s3raw \cup bronze ELSE s3raw
          /\ UNCHANGED <<task, snapshot, local, s3>>
      BY <2>9, Layers DEF ListLayer, TypeInv
    <3>2. r \in Active /\ s3raw \subseteq s3raw'
      BY <3>1 DEF Active
    <3>3. Shows(r, local["silver_trades"])'
      <4>1. Shows(r, local["silver_trades"])
        BY <2>1, <3>1 DEF Publishes
      <4> QED
        BY <3>1, <4>1, SameDue DEF Shows
    <3>4. \A t \in Tables : \A part \in local[t] : part.rows \subseteq s3raw'
      <4>1. CASE step[r] = 0
        <5>1. s3raw' = s3raw \cup bronze
          BY <3>1, <4>1, Layers
        <5> QED
          BY <5>1 DEF ContentInv, PartsOf
      <4>2. CASE step[r] # 0
        <5>1. \A t \in Tables : \A part \in local[t] : part.rows \subseteq s3raw
          BY <2>1, <2>2, <3>1, <4>2 DEF Publishes
        <5> QED
          BY <3>2, <5>1
      <4> QED
        BY <4>1, <4>2
    <3>5. files # {} => step'[r] >= 2
      <4>1. CASE step[r] = 0
        <5>1. listed \cap Tables = {}
          BY <4>1, Layers, WriteOrders
        <5> QED
          BY <5>1
      <4>2. CASE step[r] # 0
        BY <2>2, <3>1, <4>2
      <4> QED
        BY <4>1, <4>2
    <3>6. step'[r] >= 2 =>
            \A part \in local["silver_trades"] :
              part \in s3["silver_trades"] \/ <<"silver_trades", part>> \in files
      <4>1. CASE step[r] = 0
        BY <3>1, <4>1
      <4>2. CASE step[r] = 1
        <5>1. "silver_trades" \in listed \cap Tables
          BY <2>2, <4>2, Layers
        <5> QED
          BY <5>1
      <4>3. CASE step[r] >= 2
        BY <2>1, <3>1, <4>3 DEF Publishes
      <4> QED
        BY <2>2, <4>1, <4>2, <4>3
    <3> HIDE DEF files, listed
    <3>7. Publishes(r)'
      BY <3>1, <3>3, <3>4, <3>5, <3>6 DEF Publishes
    <3>8. Audited'
      BY <2>1, <3>1, <3>2 DEF Audited
    <3> QED
      BY <2>1, <3>1, <3>2, <3>7, <3>8, SoloStep
  <2>10. ASSUME NEW r \in Runs, NEW t \in Tables, NEW part \in local[t], Upload(r, t, part) PROVE PublishInv'
    <3>1. /\ task[r] = "publish" /\ <<t, part>> \in queue[r]
          /\ s3'[t] = s3[t] \cup {part} /\ \A u \in Tables \ {t} : s3'[u] = s3[u]
          /\ queue'[r] = queue[r] \ {<<t, part>>} /\ \A q \in Runs \ {r} : queue'[q] = queue[q]
          /\ UNCHANGED <<task, step, snapshot, local, s3raw>>
      BY <2>10 DEF Upload, Stored, TypeInv
    <3>2. r \in Active /\ step[r] >= 2 /\ step[r] >= 1
      BY <2>1, <2>2, <3>1 DEF Active, Publishes
    <3>3. Shows(r, local["silver_trades"])'
      <4>1. Shows(r, local["silver_trades"])
        BY <2>1, <3>1 DEF Publishes
      <4> QED
        BY <3>1, <4>1, SameDue DEF Shows
    <3>4. \A u \in Tables : \A p \in local[u] : p.rows \subseteq s3raw
      BY <2>1, <3>1, <3>2 DEF Publishes
    <3>5. Audited'
      BY <2>1, <3>1, <3>4 DEF Audited
    <3>6. \A p \in local["silver_trades"] : p \in s3'["silver_trades"] \/ <<"silver_trades", p>> \in queue'[r]
      <4>1. \A p \in local["silver_trades"] : p \in s3["silver_trades"] \/ <<"silver_trades", p>> \in queue[r]
        BY <2>1, <3>1, <3>2 DEF Publishes
      <4> QED
        BY <2>2, <3>1, <4>1
    <3>7. Publishes(r)'
      BY <3>1, <3>2, <3>3, <3>4, <3>6 DEF Publishes
    <3>8. s3["silver_trades"] \subseteq s3'["silver_trades"]
      BY <2>2, <3>1
    <3> QED
      BY <2>1, <3>1, <3>2, <3>5, <3>7, <3>8, SoloStep
  <2>11. ASSUME NEW r \in Runs, FinishRun(r) PROVE PublishInv'
    <3>1. /\ task[r] = "publish" /\ step[r] = 4 /\ queue[r] = {} /\ task'[r] = "done"
          /\ \A q \in Runs \ {r} : task'[q] = task[q]
          /\ UNCHANGED <<step, snapshot, queue, local, s3, s3raw>>
      BY <2>11, Layers DEF FinishRun, TypeInv
    <3>2. r \in Active
      BY <3>1 DEF Active
    <3>3. Shows(r, s3["silver_trades"])
      <4>1. Shows(r, local["silver_trades"])
        BY <2>1, <3>1 DEF Publishes
      <4>2. step[r] >= 2
        BY <3>1
      <4>3. \A part \in local["silver_trades"] :
              part \in s3["silver_trades"] \/ <<"silver_trades", part>> \in queue[r]
        BY <2>1, <3>1, <4>2 DEF Publishes
      <4>4. local["silver_trades"] \subseteq s3["silver_trades"]
        BY <3>1, <4>3
      <4> QED
        BY <4>1, <4>4, ShowsMore
    <3>4. Shows(r, s3["silver_trades"])'
      BY <3>1, <3>3, SameDue DEF Shows
    <3>5. Publishes(r)' /\ Audited'
      BY <2>1, <3>1, <3>4 DEF Publishes, Audited
    <3> QED
      BY <2>1, <3>1, <3>2, <3>5, SoloStep
  <2>12. ASSUME NEW r \in Runs, TaskKilled(r) \/ TaskRaises(r) PROVE PublishInv'
    <3>1. /\ task'[r] \in {task[r], "failed"} /\ step'[r] = 0 /\ queue'[r] = {}
          /\ \A q \in Runs \ {r} : task'[q] = task[q] /\ queue'[q] = queue[q]
          /\ UNCHANGED <<snapshot, local, s3, s3raw>>
      BY <2>12 DEF TaskKilled, TaskRaises, Fail, TypeInv
    <3>2. r \in Active
      <4>1. CASE TaskKilled(r)
        BY <4>1 DEF TaskKilled
      <4>2. CASE TaskRaises(r)
        <5>1. writing[r] # "disturbed"
          BY <2>1 DEF SoloInv
        <5>2. task[r] = "transform" \/ queue[r] # {}
          BY <4>2, <5>1 DEF TaskRaises
        <5> QED
          BY <2>1, <5>2 DEF Publishes, Active
      <4> QED
        BY <2>12, <4>1, <4>2
    <3>3. /\ task[r] = "publish" => Shows(r, local["silver_trades"])'
          /\ task[r] = "done" => Shows(r, s3["silver_trades"])'
      <4>1. /\ task[r] = "publish" => Shows(r, local["silver_trades"])
            /\ task[r] = "done" => Shows(r, s3["silver_trades"])
        BY <2>1 DEF Publishes
      <4> QED
        BY <3>1, <4>1, SameDue DEF Shows
    <3>4. Publishes(r)' /\ Audited'
      BY <2>1, <3>1, <3>3 DEF Publishes, Audited
    <3> QED
      BY <2>1, <3>1, <3>2, <3>4, SoloStep
  <2> QED
    BY <2>3, <2>4, <2>5, <2>6, <2>7, <2>8, <2>9, <2>10, <2>11, <2>12
    DEF Next, RunStep, Land, Over, vars
<1> QED
  BY <1>1, <1>2, TypeInvCorrect, ContentInvCorrect, SoloInvCorrect, PTL DEF Spec

(* Whatever a table on S3 was made from is on S3 as raw events too: the    *)
(* publisher takes the raw layer first (stream_publisher's LAYERS).        *)
THEOREM AuditCorrect == Spec => []AuditTrail
<1>1. PublishInv => AuditTrail
  BY DEF PublishInv, Audited, AuditTrail
<1> QED
  BY <1>1, PublishInvCorrect, PTL

-----------------------------------------------------------------------------
(* The book of the trades.                                                 *)

(* A set of naturals that is not empty has a least element.                *)
Less == {ss \in Nat \X Nat : ss[1] < ss[2]}

(* A set of naturals has a least member.                                   *)
LEMMA LeastOf ==
  ASSUME NEW S \in SUBSET Nat, S # {}
  PROVE  \E x \in S : \A y \in S : x <= y
<1>1. IsWellFoundedOn(Less, Nat)
  BY NatLessThanWellFounded DEF OpToRel, Less
<1>2. S \subseteq Nat
  OBVIOUS
<1>3. \E x \in S : \A y \in S : ~(<<y, x>> \in Less)
  BY <1>1, <1>2, WFMin, Zenon
<1>4. ASSUME NEW x \in Nat, NEW y \in Nat, ~(<<y, x>> \in Less)
      PROVE  x <= y
  BY <1>4 DEF Less
<1> QED
  BY <1>2, <1>3, <1>4

(* Finitely many numbers are below some number: of the places in a list of *)
(* them after which there were no bound any more, none would be first.     *)
LEMMA FiniteIsBounded ==
  ASSUME NEW S \in SUBSET Nat, IsFiniteSet(S)
  PROVE  \E bound \in Nat : \A x \in S : x <= bound
<1>1. PICK seq \in Seq(S) : \A x \in S : \E n \in 1..Len(seq) : seq[n] = x
  BY DEF IsFiniteSet
<1> DEFINE len == Len(seq)
           Bounded(n) == \E bound \in Nat : \A i \in 1..n : seq[i] <= bound
           beyond == {n \in 0..len : ~Bounded(n)}
<1>2. len \in Nat /\ \A i \in 1..len : seq[i] \in S
  BY <1>1
<1>3. \A i \in 1..len : seq[i] \in Nat
  BY <1>2
<1> HIDE DEF len
<1>4. beyond = {}
  <2> SUFFICES ASSUME beyond # {} PROVE FALSE
    OBVIOUS
  <2>1. beyond \in SUBSET Nat
    BY <1>2
  <2>2. PICK n \in beyond : \A m \in beyond : n <= m
    <3> HIDE DEF beyond
    <3> QED
      BY <2>1, LeastOf
  <2>3. n \in 0..len /\ ~Bounded(n)
    BY <2>2
  <2>4. Bounded(0)
    <3>1. 0 \in Nat /\ \A i \in 1..0 : seq[i] <= 0
      OBVIOUS
    <3> QED
      BY <3>1
  <2>5. n # 0 /\ n \in Nat
    BY <1>2, <2>3, <2>4
  <2>6. (n - 1) \in 0..len /\ ~(n <= n - 1) /\ n \in 1..len
    BY <1>2, <2>3, <2>5
  <2>7. Bounded(n - 1)
    <3> HIDE DEF Bounded
    <3> QED
      BY <2>2, <2>6
  <2>8. PICK bound \in Nat : \A i \in 1..(n - 1) : seq[i] <= bound
    BY <2>7
  <2> HIDE DEF Bounded, beyond
  <2>9. \A i \in 1..n : i \in 1..len /\ (i = n \/ i \in 1..(n - 1))
    <3>1. len \in Nat /\ n \in Nat /\ n \in 1..len
      BY <1>2, <2>5, <2>6
    <3> QED
      BY <3>1
  <2>10. PICK top \in Nat : bound <= top /\ seq[n] <= top
    <3>1. seq[n] \in Nat
      BY <1>3, <2>6
    <3>2. \A a, b \in Nat : a + b \in Nat /\ a <= a + b /\ b <= a + b
      OBVIOUS
    <3> QED
      BY <3>1, <3>2
  <2>11. \A i \in 1..n : seq[i] <= top
    <3> SUFFICES ASSUME NEW i \in 1..n PROVE seq[i] <= top
      OBVIOUS
    <3>1. seq[i] \in Nat
      BY <1>3, <2>9
    <3>2. CASE i = n
      BY <2>10, <3>2
    <3>3. CASE i \in 1..(n - 1)
      <4>1. seq[i] <= bound
        BY <2>8, <3>3
      <4>2. bound \in Nat /\ top \in Nat /\ bound <= top
        BY <2>8, <2>10
      <4> HIDE DEF len
      <4> QED
        BY <3>1, <4>1, <4>2
    <3> QED
      BY <2>9, <3>2, <3>3
  <2>12. Bounded(n)
    BY <2>11 DEF Bounded
  <2> QED
    BY <2>3, <2>12
<1>5. len \in 0..len
  BY <1>2
<1>6. Bounded(len)
  <2> HIDE DEF Bounded
  <2> QED
    BY <1>4, <1>5
<1>7. PICK bound \in Nat : \A i \in 1..len : seq[i] <= bound
  BY <1>6
<1> QED
  BY <1>1, <1>7 DEF len

(* So they have a greatest one.                                            *)
LEMMA GreatestOf ==
  ASSUME NEW S \in SUBSET Nat, S # {}, NEW bound \in Nat, \A x \in S : x <= bound
  PROVE  Max(S) \in S /\ \A x \in S : x <= Max(S)
<1> DEFINE below == {bound - x : x \in S}
<1>0. \A x \in S : x \in Nat
  OBVIOUS
<1>1. below \in SUBSET Nat /\ below # {}
  <2>1. \A x \in S : bound - x \in Nat
    BY <1>0
  <2> QED
    BY <2>1
<1>2. PICK d \in below : \A e \in below : d <= e
  <2> HIDE DEF below
  <2> QED
    BY <1>1, LeastOf
<1>3. PICK x \in S : d = bound - x
  OBVIOUS
<1>4. \A y \in S : x >= y
  <2> SUFFICES ASSUME NEW y \in S PROVE x >= y
    OBVIOUS
  <2>1. bound - x <= bound - y
    BY <1>2, <1>3
  <2>2. x \in Nat /\ y \in Nat
    BY <1>0
  <2> QED
    BY <2>1, <2>2
<1>5. Max(S) \in S /\ \A y \in S : Max(S) >= y
  BY <1>4 DEF Max
<1>6. Max(S) \in Nat
  BY <1>0, <1>5
<1> QED
  BY <1>0, <1>5, <1>6

(* The versions of an id that S3 shows, of which the book has the latest;  *)
(* what is shown has landed and is acceptable.                             *)
ShownTimes(id) == {0} \cup {v.ptime : v \in {w \in Shown : w.id = id}}

BookInv ==
  /\ Shown \subseteq bronze \cap Accepted
  /\ \A id \in Ids :
       /\ Book[id] \in ShownTimes(id) /\ Book[id] \in Nat
       /\ \A time \in ShownTimes(id) : time \in Nat /\ time <= Book[id]

(* What is shown of an event has landed and is acceptable.                 *)
LEMMA BookInvCorrect == Spec => []BookInv
<1>1. TypeInv /\ ContentInv => BookInv
  <2> SUFFICES ASSUME TypeInv, ContentInv PROVE BookInv
    OBVIOUS
  <2>1. \A part \in s3["silver_trades"] : part.rows \subseteq bronze /\ part.rows \subseteq Accepted
    BY WriteOrders DEF ContentInv, PartsOf
  <2>2. Shown \subseteq bronze \cap Accepted
    BY <2>1 DEF Shown
  <2>3. ASSUME NEW id \in Ids
        PROVE  /\ Book[id] \in ShownTimes(id) /\ Book[id] \in Nat
               /\ \A time \in ShownTimes(id) : time \in Nat /\ time <= Book[id]
    <3>1. Shown \subseteq Versions
      BY <2>2 DEF Accepted
    <3>2. ShownTimes(id) \subseteq {0} \cup Times
      BY <3>1 DEF ShownTimes, Versions
    <3>3. Times \in SUBSET Nat /\ IsFiniteSet(Times)
      BY LakehouseAssumption
    <3>4. PICK bound \in Nat : \A time \in Times : time <= bound
      BY <3>3, FiniteIsBounded
    <3>5. \A time \in {0} \cup Times : time \in Nat /\ time <= bound
      BY <3>3, <3>4
    <3>6. ShownTimes(id) # {}
      BY DEF ShownTimes
    <3>7. Book[id] = Max(ShownTimes(id))
      BY DEF Book, ShownTimes
    <3> HIDE DEF ShownTimes
    <3>8. ShownTimes(id) \in SUBSET Nat /\ \A time \in ShownTimes(id) : time <= bound
      BY <3>2, <3>5
    <3>9. Max(ShownTimes(id)) \in ShownTimes(id) /\ \A time \in ShownTimes(id) : time <= Max(ShownTimes(id))
      BY <3>6, <3>8, GreatestOf
    <3>10. \A time \in ShownTimes(id) : time \in Nat
      BY <3>8
    <3> QED
      BY <3>7, <3>9, <3>10
  <2> QED
    BY <2>2, <2>3 DEF BookInv
<1> QED
  BY <1>1, TypeInvCorrect, ContentInvCorrect, PTL

(* A run that succeeds has published every trade its transform read that   *)
(* is the latest of its id, or a later one (transform, then publish).      *)
THEOREM DoneCorrect == Spec => []DoneMeansPublished
<1>1. TypeInv /\ BookInv /\ PublishInv => DoneMeansPublished
  <2> SUFFICES ASSUME TypeInv, BookInv, PublishInv, NEW r \in Runs, ~overlapped, task[r] = "done", NEW v \in Due(r)
               PROVE  Book[v.id] >= v.ptime
    BY DEF DoneMeansPublished, Due
  <2>1. PICK part \in s3["silver_trades"] : \E w \in part.rows : w.id = v.id /\ w.ptime >= v.ptime
    BY DEF PublishInv, Publishes, Shows
  <2>2. PICK w \in part.rows : w.id = v.id /\ w.ptime >= v.ptime
    BY <2>1
  <2>3. v.id \in Ids /\ v.ptime \in Nat
    <3>1. v \in Versions
      BY DEF Due, LatestOf, TypeInv
    <3> QED
      BY <3>1, LakehouseAssumption DEF Versions
  <2>4. w.ptime \in ShownTimes(v.id)
    BY <2>1, <2>2 DEF ShownTimes, Shown
  <2>5. w.ptime \in Nat /\ w.ptime <= Book[v.id] /\ Book[v.id] \in Nat
    BY <2>3, <2>4 DEF BookInv
  <2> QED
    BY <2>2, <2>3, <2>5
<1> QED
  BY <1>1, TypeInvCorrect, BookInvCorrect, PublishInvCorrect, PTL

-----------------------------------------------------------------------------
(* The refinement.                                                         *)

(* The book is made from what S3 holds.                                    *)
LEMMA SameBook ==
  ASSUME s3' = s3
  PROVE  Book' = Book
<1>1. Shown' = Shown
  BY DEF Shown
<1> QED
  BY <1>1 DEF Book

(* fct_stream_trades keeps the promise of TradeBook, with overlapping runs,*)
(* retries and stale publishers: what it shows of an id has landed, is     *)
(* acceptable, and is only ever replaced by a later version.               *)
THEOREM BookCorrect == Spec => ImplementsTradeBook
<1>1. Init => AbstractBook!Init
  <2> SUFFICES ASSUME Init PROVE AbstractBook!Init
    OBVIOUS
  <2>1. Shown = {}
    BY WriteOrders DEF Init, Shown
  <2>2. ASSUME NEW id \in Ids PROVE Book[id] = 0
    <3>1. Book[id] = Max({0})
      BY <2>1 DEF Book
    <3>2. Max({0}) = 0
      BY DEF Max
    <3> QED
      BY <3>1, <3>2
  <2>3. Book = [id \in Ids |-> 0]
    BY <2>2 DEF Book
  <2> QED
    BY <2>3 DEF AbstractBook!Init
<1>2. TypeInv /\ BookInv /\ BookInv' /\ [Next]_vars => [AbstractBook!Next]_AbstractBook!trades
  <2> SUFFICES ASSUME TypeInv, BookInv, BookInv', [Next]_vars
               PROVE  AbstractBook!Next \/ UNCHANGED AbstractBook!trades
    OBVIOUS
  <2>0. Accepted' = Accepted
    BY DEF Accepted
  <2>1. ASSUME NEW v \in Versions, Land(v) PROVE AbstractBook!Land
    <3>1. Book' = Book /\ bronze' = bronze \cup {v}
      BY <2>1, SameBook DEF Land
    <3>2. (bronze \cap Accepted)' = (bronze \cap Accepted) \cup ({v} \cap Accepted)
      BY <2>0, <3>1
    <3> QED
      BY <3>1, <3>2 DEF AbstractBook!Land
  <2>2. ASSUME NEW r \in Runs, NEW t \in Tables, NEW part \in local[t], Upload(r, t, part)
        PROVE  AbstractBook!Advance
    <3>1. bronze' = bronze /\ \A u \in Tables : s3[u] \subseteq s3'[u]
      BY <2>2 DEF Upload, Stored, TypeInv
    <3>2. Shown \subseteq Shown'
      BY <3>1, WriteOrders DEF Shown
    <3>3. Shown' \subseteq bronze' \cap Accepted'
      BY DEF BookInv
    <3>4. (bronze \cap Accepted)' = bronze \cap Accepted /\ DOMAIN Book' = Ids
      BY <2>0, <3>1 DEF Book
    <3>5. ASSUME NEW id \in Ids, Book'[id] # Book[id]
          PROVE  Book'[id] > Book[id] /\ \E v \in bronze \cap Accepted : v.id = id /\ v.ptime = Book'[id]
      <4>1. Book[id] \in ShownTimes(id) /\ Book[id] \in Nat
        BY DEF BookInv
      <4>2. /\ Book'[id] \in ShownTimes(id)' /\ Book'[id] \in Nat
            /\ \A time \in ShownTimes(id)' : time \in Nat /\ time <= Book'[id]
        BY DEF BookInv
      <4>3. ShownTimes(id) \subseteq ShownTimes(id)'
        BY <3>2 DEF ShownTimes
      <4>4. Book'[id] > Book[id]
        BY <3>5, <4>1, <4>2, <4>3
      <4>5. PICK v \in Shown' : v.id = id /\ v.ptime = Book'[id]
        BY <4>1, <4>2, <4>4 DEF ShownTimes
      <4> QED
        BY <2>0, <3>1, <3>3, <4>4, <4>5
    <3> QED
      BY <3>4, <3>5 DEF AbstractBook!Advance
  <2>3. CASE UNCHANGED <<bronze, s3>>
    BY <2>0, <2>3, SameBook DEF AbstractBook!trades
  <2> QED
    BY <2>1, <2>2, <2>3
    DEF Next, RunStep, StartRun, ReadEvents, Hand, ListLayer, FinishRun, TaskKilled, TaskRaises,
        Fail, OpenTable, CommitTable, Over, vars, AbstractBook!Next
<1> QED
  BY <1>1, <1>2, TypeInvCorrect, BookInvCorrect, PTL DEF Spec, ImplementsTradeBook, AbstractBook!Spec

(* Every variable keeps its type, and what was read, written or published  *)
(* has landed: no table holds, and no raw file on S3 has, a version that   *)
(* is in no bronze file.                                                   *)
THEOREM TypeCorrect == Spec => []TypeOK
<1>1. TypeInv /\ ContentInv => TypeOK
  <2> SUFFICES ASSUME TypeInv, ContentInv PROVE TypeOK
    OBVIOUS
  <2>1. ASSUME NEW t \in Tables
        PROVE  local[t] \cup s3[t] \subseteq [generation : Runs \X (1..Attempts), rows : SUBSET bronze]
    <3> SUFFICES ASSUME NEW part \in local[t] \cup s3[t]
        PROVE  part \in [generation : Runs \X (1..Attempts), rows : SUBSET bronze]
      OBVIOUS
    <3>1. part \in Parts
      BY DEF TypeInv
    <3>2. part.rows \subseteq bronze
      BY DEF ContentInv, PartsOf
    <3> QED
      BY <3>1, <3>2 DEF Parts
  <2>2. \A r \in Runs : snapshot[r] \subseteq bronze /\ queue[r] \subseteq Tables \X Parts
    BY DEF TypeInv
  <2> QED
    BY <2>1, <2>2 DEF TypeInv, TypeOK, Tasks, LastStep
<1> QED
  BY <1>1, TypeInvCorrect, ContentInvCorrect, PTL

=============================================================================
