---------------------------- MODULE SplitFrames ----------------------------
(***************************************************************************)
(* Frames sent through the splits of the three pipelines: of the rows      *)
(* there can be, through StreamSplit (as foreach_batch_processor or as the *)
(* micro-batch pipeline, whose schema leaves columns out) or through       *)
(* BatchSplit, which has copies removed first; of what the Plaid and the   *)
(* Alpaca mapper make of their records; and of the synthetic data.         *)
(***************************************************************************)
EXTENDS SqlLogic, Integers, Sequences, FiniteSets

CONSTANTS
  Keys,             \* the ids records may have
  RecordIds,        \* those of synthetic records, in the order they are given
  Lengths,          \* how many rows a frame may have, but for synthetic ones
  Amounts,          \* the amounts Plaid may send
  Sizes, Prices,    \* what a trade of Alpaca's may be of
  DefaultScores     \* the risk scores a broker may be configured with

Stream == INSTANCE StreamSplit
Batch == INSTANCE BatchSplit
Plaid == INSTANCE PlaidMapping
Alpaca == INSTANCE AlpacaMapping
Synthetic == INSTANCE SyntheticRecords

ASSUME SplitAssumption ==
  /\ Null \notin Keys /\ Lengths \subseteq Nat
  /\ Amounts \subseteq Int /\ Sizes \subseteq Nat /\ Prices \subseteq Nat
  /\ DefaultScores \subseteq 0..100
  /\ RecordIds \in Seq(Keys)

VARIABLES
  source,     \* the pipeline or what made the frame
  frame,      \* its rows; copies of one key have the same processing time
  stage,      \* "read", "deduplicated" or "split"
  kept,       \* the places of the rows deduplicate_latest kept
  tables      \* by place, the tables the row was written to

frameVars == <<source, frame, stage, kept, tables>>

BatchSources == {"batch", "plaid", "synthetic"}
OfBatch == source \in BatchSources

PlaidRows ==
  {Plaid!MapTransaction(t, key) :
    t \in {u \in Plaid!Records(Amounts) : ~Plaid!Raises(u)}, key \in Keys}

AlpacaRows == {Alpaca!MapTrade(t) : t \in Alpaca!Trades(Sizes, Prices, DefaultScores)}

RowsOf(s) ==
  CASE s \in {"foreach_batch", "microbatch"} -> Stream!Row
    [] s = "batch" -> Batch!Row
    [] s = "plaid" -> PlaidRows
    [] s = "alpaca" -> AlpacaRows

FramesOf(s) ==
  IF s = "synthetic" THEN Synthetic!Frames ELSE UNION {[1..n -> RowsOf(s)] : n \in Lengths}

FrameInit ==
  /\ source \in BatchSources \cup {"foreach_batch", "microbatch", "alpaca"}
  /\ frame \in FramesOf(source)
  /\ stage = "read" /\ kept = {} /\ tables = [i \in DOMAIN frame |-> {}]

(* What split_stream_valid_and_rejected sees of a row.                     *)
Seen(row) == IF source = "microbatch" THEN Stream!MicrobatchRow(row) ELSE row

KeysOf(places) == {frame[i].id : i \in places}

(* row_number() over the key by processing time: of the rows that tie, any *)
(* one is first.  All rows without a key are one group.                    *)
OneOfEachKey(places) ==
  /\ KeysOf(places) = KeysOf(DOMAIN frame)
  /\ \A i, j \in places : frame[i].id = frame[j].id => i = j

Deduplicate ==
  /\ OfBatch /\ stage = "read" /\ stage' = "deduplicated"
  /\ \E places \in SUBSET DOMAIN frame : OneOfEachKey(places) /\ kept' = places
  /\ UNCHANGED <<source, frame, tables>>

BatchTables(row) ==
  (IF Batch!IsValid(row) THEN {"silver"} ELSE {})
  \cup (IF Batch!IsRejected(row) THEN {"rejected"} ELSE {})

SplitBatch ==
  /\ stage = "deduplicated" /\ stage' = "split"
  /\ tables' = [i \in DOMAIN frame |-> IF i \in kept THEN BatchTables(frame[i]) ELSE {}]
  /\ UNCHANGED <<source, frame, kept>>

(* Only foreach_batch_processor projects more than the trades.             *)
ProjectedTypes ==
  IF source = "foreach_batch" THEN {"transaction", "payment", "trade"} ELSE {"trade"}

StreamTables(row) ==
  {type \in ProjectedTypes : Stream!ProjectedTo(type, row)}
  \cup (IF Stream!IsRejected(row) THEN {"rejected"} ELSE {})

SplitStream ==
  /\ ~OfBatch /\ stage = "read" /\ stage' = "split" /\ kept' = DOMAIN frame
  /\ tables' = [i \in DOMAIN frame |-> StreamTables(Seen(frame[i]))]
  /\ UNCHANGED <<source, frame>>

FrameNext == Deduplicate \/ SplitBatch \/ SplitStream

FrameSpec == FrameInit /\ [][FrameNext]_frameVars

-----------------------------------------------------------------------------
(* The checks a row is judged by, one set for each way it can pass: those  *)
(* of its dataset, or of its event type.  A stream row without a type is   *)
(* judged by whichever type it fits, one of an unknown type by none.       *)
Judgements(row) ==
  IF OfBatch THEN {Batch!Checks(row)}
  ELSE LET of == [transaction |-> Stream!TransactionChecks(row),
                  payment |-> Stream!PaymentChecks(row), trade |-> Stream!TradeChecks(row)]
       IN {Stream!UniversalChecks(row) \cup of[type] :
             type \in {type \in DOMAIN of : row.event_type \in {type, Null}}}

(* A row of a split frame is written to no table exactly when no check it  *)
(* is judged by definitely fails and one of them is NULL: an amount that   *)
(* does not parse, a missing currency or risk score loses an otherwise     *)
(* good row without a trace, and nothing else does.  Every other row is in *)
(* exactly one table.                                                      *)
LostOnlyUndecided ==
  stage = "split" => \A i \in kept :
    IF \E checks \in Judgements(Seen(frame[i])) : "false" \notin checks /\ checks # {"true"}
      THEN tables[i] = {}
      ELSE Cardinality(tables[i]) = 1

StreamReasonApplies(row) ==
  LET reason == Stream!RejectionReason(row) IN
    /\ reason = "invalid_currency" => row.currency_code = "ZZZ"
    /\ reason = "invalid_risk_score" => row.risk_score = "outside"
    /\ reason = "negative_amount" => row.transaction_amount = "negative"
    /\ reason = "invalid_transaction_record" =>
         row.event_type = "transaction" /\ "false" \in Stream!TransactionChecks(row)
    /\ reason = "invalid_payment_record" =>
         row.event_type = "payment" /\ "false" \in Stream!PaymentChecks(row)
    /\ reason = "invalid_trade_record" =>
         (row.event_type = "trade" => "false" \in Stream!TradeChecks(row))

BatchReasonApplies(row) ==
  LET reason == Batch!RejectionReason(row) IN
    /\ reason = "id_null" => row.id = Null
    /\ reason = "invalid_currency" => row.currency_code = "ZZZ"
    /\ reason = "negative_amount" => row.transaction_amount = "negative"
    /\ reason = "invalid_status" => row.transaction_status \notin Batch!ValidStatuses(row)
    /\ reason = "validation_failed" =>
         row.risk_score = "outside" \/ (row.dataset # "payments" /\ row.kind = "invalid")

(* The reason a rejected row carries is true of it: the check it names     *)
(* definitely failed.  Stream rows of no known event type carry the reason *)
(* of the trades; validation_failed in the batch can only mean the risk    *)
(* score, the transaction type or the side.                                *)
ReasonApplies ==
  \A i \in kept : tables[i] = {"rejected"} =>
    IF OfBatch THEN BatchReasonApplies(frame[i]) ELSE StreamReasonApplies(Seen(frame[i]))

(* The columns the micro-batch schema leaves out decide no trade: the two  *)
(* streaming pipelines agree on it, and the micro-batch pipeline accepts   *)
(* nothing else.                                                           *)
MicrobatchKeepsTrades ==
  source = "microbatch" /\ stage = "split" => \A i \in DOMAIN frame :
    LET row == frame[i] IN
      /\ "trade" \in tables[i] <=> Stream!ProjectedTo("trade", row)
      /\ row.event_type = "trade" => ("rejected" \in tables[i] <=> Stream!IsRejected(row))
      /\ Stream!IsValid(Seen(row)) => tables[i] = {"trade"}

(* What the mappers of the two sources let through, the split accepts: the *)
(* records' validators, the default currency, the absolute amount and the  *)
(* capped risk score leave nothing to reject.                              *)
MappedAccepted ==
  stage = "split" => \A i \in kept :
    /\ source = "plaid" => tables[i] = {"silver"}
    /\ source = "alpaca" => tables[i] = {"trade"}

(* The synthetic data comes out as it was injected: of each key exactly    *)
(* one row reaches a table, so no copy is counted; a damaged row that      *)
(* stands for its key is rejected and a sound one accepted; and a record   *)
(* that was copied is only ever gone if its key was, since its copy was    *)
(* made before the damage.  All rows whose key was erased come out as one. *)
SyntheticVerdicts ==
  source = "synthetic" /\ stage = "split" =>
    /\ \A key \in KeysOf(DOMAIN frame) :
         Cardinality({i \in DOMAIN frame : frame[i].id = key /\ tables[i] # {}}) = 1
    /\ \A i \in kept :
         tables[i] = IF frame[i].id # Null /\ frame[i].currency_code # "ZZZ"
                        /\ frame[i].transaction_amount # "negative"
                        /\ frame[i].risk_score # "outside"
                     THEN {"silver"} ELSE {"rejected"}
    /\ \E copies \in DOMAIN RecordIds :
         /\ frame[Len(frame)].id = RecordIds[copies]
         /\ {RecordIds[i] : i \in 1..copies} \subseteq KeysOf(kept)

(* The verdict on a record is the one its maker meant: of a mapper, sound; *)
(* of the generator, what was injected.                                    *)
VerdictAsMade == MappedAccepted /\ SyntheticVerdicts

=============================================================================
