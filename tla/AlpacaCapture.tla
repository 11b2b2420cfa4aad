---------------------------- MODULE AlpacaCapture ----------------------------
(***************************************************************************)
(* capture_alpaca_to_kinesis: one task of the streaming DAG with its tries *)
(* (src/sources/alpaca_streaming).  A try subscribes to the trades of the  *)
(* market over a websocket, buffers messages up to a limit, writes a raw   *)
(* and a canonical file and puts the events into Kinesis one by one.  When *)
(* anything of the websocket raises, what was buffered is dropped and the  *)
(* latest trade is asked for over REST instead.                            *)
(*                                                                         *)
(* One symbol; trade k is the k-th of the market and its event id is made  *)
(* of the trade's own id, so it is the same however often it is captured.  *)
(***************************************************************************)
EXTENDS Integers, Sequences, FiniteSets, SequencesExt

CONSTANTS
  MaxMessages,    \* --max-messages
  Attempts,       \* tries of the task: the default retries plus one
  SdkResends,     \* resends of one put_record call by the SDK
  CryptoFeed,     \* whether latest_trades_url is configured for the feed
  MaxTrades       \* bound: trades made

ASSUME CaptureAssumption ==
  /\ MaxMessages \in Nat \ {0} /\ Attempts \in Nat \ {0} /\ SdkResends \in Nat
  /\ CryptoFeed \in BOOLEAN /\ MaxTrades \in Nat

VARIABLES
  trades,       \* trades made so far
  pc,           \* what the task does next
  attempt,      \* its try
  authorised,   \* the server took the credentials and the subscription
  heard,        \* the last trade the server has sent over this connection
  buffered,     \* the trades among the messages buffered or returned
  count,        \* the local `count`: how many messages are buffered
  events,       \* the trades mapped to events
  published,    \* how many of them have been put
  canonical,    \* per try, the events in its canonical file
  stream,       \* the trades in the partition of the symbol
  inTransit     \* SDK resends still on their way

vars == <<trades, pc, attempt, authorised, heard, buffered, count, events, published, canonical, stream, inTransit>>

Trades == 1..MaxTrades

Init ==
  /\ trades \in 0..MaxTrades /\ pc = "connect" /\ attempt = 1
  /\ authorised = FALSE /\ heard = 0
  /\ buffered = <<>> /\ count = 0 /\ events = <<>> /\ published = 0
  /\ canonical = [a \in 1..Attempts |-> <<>>]
  /\ stream = <<>> /\ inTransit = [k \in Trades |-> 0]

-----------------------------------------------------------------------------
(* The environment.                                                        *)

TradeMade ==
  /\ trades < MaxTrades
  /\ trades' = trades + 1
  /\ UNCHANGED <<pc, attempt, authorised, heard, buffered, count, events, published, canonical, stream, inTransit>>

LandLate(k) ==
  /\ inTransit[k] > 0
  /\ inTransit' = [inTransit EXCEPT ![k] = @ - 1]
  /\ \E lands \in BOOLEAN : stream' = IF lands THEN Append(stream, k) ELSE stream
  /\ UNCHANGED <<trades, pc, attempt, authorised, heard, buffered, count, events, published, canonical>>

-----------------------------------------------------------------------------
(* stream_messages.                                                        *)

(* Three answers are received and none is looked at: with credentials or   *)
(* symbols the server refuses, the client waits for trades all the same.   *)
Handshake ==
  /\ pc = "connect"
  /\ authorised' \in BOOLEAN
  /\ heard' = trades
  /\ buffered' = <<>> /\ count' = 0
  /\ pc' = "receive"
  /\ UNCHANGED <<trades, attempt, events, published, canonical, stream, inTransit>>

(* A frame of so many trades, those made since the last frame.             *)
Frame(size) == [k \in 1..size |-> heard + k]

(* The loop returns as soon as the limit is reached, inside a frame.       *)
Taken(size) == IF size < MaxMessages - count THEN size ELSE MaxMessages - count

Receive(taken) ==
  /\ pc = "receive"
  /\ count' = count + taken
  /\ pc' = IF count' >= MaxMessages THEN "map" ELSE "receive"

ReceiveTrades(last) ==
  /\ authorised /\ last \in (heard + 1)..trades
  /\ Receive(Taken(last - heard))
  /\ buffered' = buffered \o Frame(Taken(last - heard))
  /\ heard' = last
  /\ UNCHANGED <<trades, attempt, authorised, events, published, canonical, stream, inTransit>>

(* An error is no control message: it is kept and counted.  The filter in  *)
(* capture drops it.                                                       *)
ReceiveError ==
  /\ Receive(1)
  /\ UNCHANGED <<trades, attempt, authorised, heard, buffered, events, published, canonical, stream, inTransit>>

(* connect, recv, send or decode raises: run_stream_capture takes to REST. *)
WebsocketFails ==
  /\ pc \in {"connect", "receive"}
  /\ pc' = "fallback"
  /\ UNCHANGED <<trades, attempt, authorised, heard, buffered, count, events, published, canonical, stream, inTransit>>

(* Mutant of Fallback: the answer is added to what was buffered.           *)
FallbackAdds ==
  /\ pc = "fallback" /\ CryptoFeed
  /\ buffered' = IF trades = 0 THEN buffered ELSE Append(buffered, trades)
  /\ pc' = "map"
  /\ UNCHANGED <<trades, attempt, authorised, heard, count, events, published, canonical, stream, inTransit>>

(* fetch_latest_trade_messages: the latest trade, if there is one.         *)
Fallback ==
  /\ pc = "fallback" /\ CryptoFeed
  /\ buffered' = IF trades = 0 THEN <<>> ELSE <<trades>>
  /\ pc' = "map"
  /\ UNCHANGED <<trades, attempt, authorised, heard, count, events, published, canonical, stream, inTransit>>

-----------------------------------------------------------------------------
(* capture, write_capture, publish_to_kinesis.                             *)

(* trade_messages, mapped one by one.                                      *)
MapEvents ==
  /\ pc = "map"
  /\ events' = buffered /\ published' = 0
  /\ pc' = "write"
  /\ UNCHANGED <<trades, attempt, authorised, heard, buffered, count, canonical, stream, inTransit>>

(* Mutant of WriteCanonical: the file is left for after the puts.          *)
WriteLater ==
  /\ pc = "write"
  /\ pc' = "publish"
  /\ UNCHANGED <<trades, attempt, authorised, heard, buffered, count, events, published, canonical, stream, inTransit>>

(* The raw file goes before it, the second of the first event names both:  *)
(* retry_delay keeps the tries apart.                                      *)
WriteCanonical ==
  /\ pc = "write"
  /\ canonical' = [canonical EXCEPT ![attempt] = events]
  /\ pc' = "publish"
  /\ UNCHANGED <<trades, attempt, authorised, heard, buffered, count, events, published, stream, inTransit>>

PutReturns ==
  /\ pc = "publish" /\ published < Len(events)
  /\ LET k == events[published + 1] IN
       /\ stream' = Append(stream, k)
       /\ \E resent \in 0..SdkResends : inTransit' = [inTransit EXCEPT ![k] = @ + resent]
  /\ published' = published + 1
  /\ UNCHANGED <<trades, pc, attempt, authorised, heard, buffered, count, events, canonical>>

Return ==
  /\ pc = "publish" /\ published = Len(events)
  /\ pc' = "done"
  /\ UNCHANGED <<trades, attempt, authorised, heard, buffered, count, events, published, canonical, stream, inTransit>>

-----------------------------------------------------------------------------
(* Airflow tries the task again from its start.                            *)

(* Mutant of Exhausted: the tries are not counted.                         *)
NeverExhausted == FALSE

Exhausted == attempt = Attempts

Fail ==
  /\ pc' = IF Exhausted THEN "failed" ELSE "delay"
  /\ UNCHANGED <<trades, attempt, authorised, heard, buffered, count, events, published, canonical, stream>>

(* Mutant of PutRaises: the event is skipped, as the producer would.       *)
PutRaisesSkips ==
  /\ pc = "publish" /\ published < Len(events)
  /\ \E late \in 0..(SdkResends + 1) :
       inTransit' = [inTransit EXCEPT ![events[published + 1]] = @ + late]
  /\ published' = published + 1
  /\ UNCHANGED <<trades, pc, attempt, authorised, heard, buffered, count, events, canonical, stream>>

(* put_record raises; the request may be on its way all the same.          *)
PutRaises ==
  /\ pc = "publish" /\ published < Len(events)
  /\ \E late \in 0..(SdkResends + 1) :
       inTransit' = [inTransit EXCEPT ![events[published + 1]] = @ + late]
  /\ Fail

(* The process is killed, at the latest by execution_timeout: recv() has   *)
(* none.  Without a URL, or an answer, the fallback raises.                *)
TaskDies ==
  /\ pc \notin {"delay", "done", "failed"}
  /\ Fail /\ UNCHANGED inTransit

(* Five minutes: no request is on its way any longer.                      *)
RetryDelay ==
  /\ pc = "delay" /\ \A k \in Trades : inTransit[k] = 0
  /\ pc' = "connect" /\ attempt' = IF attempt < Attempts THEN attempt + 1 ELSE attempt
  /\ UNCHANGED <<trades, authorised, heard, buffered, count, events, published, canonical, stream, inTransit>>

Progress ==
  \/ Handshake \/ Fallback \/ MapEvents \/ WriteCanonical \/ PutReturns \/ Return
  \/ RetryDelay \/ ReceiveError \/ \E last \in Trades : ReceiveTrades(last)

Failures == WebsocketFails \/ PutRaises \/ TaskDies

Over == pc \in {"done", "failed"} /\ UNCHANGED vars

Next == Progress \/ Failures \/ TradeMade \/ (\E k \in Trades : LandLate(k)) \/ Over

Spec == Init /\ [][Next]_vars

(* execution_timeout ends a try that does not end by itself, the scheduler *)
(* starts the next, requests land or are lost.  No trade has to be made.   *)
FairSpec ==
  /\ Spec /\ WF_vars(TaskDies \/ RetryDelay)
  /\ \A k \in Trades : WF_vars(LandLate(k))

-----------------------------------------------------------------------------
TypeOK ==
  /\ trades \in 0..MaxTrades
  /\ pc \in {"connect", "receive", "fallback", "map", "write", "publish", "delay", "done", "failed"}
  /\ attempt \in 1..Attempts /\ authorised \in BOOLEAN /\ heard \in 0..trades
  /\ buffered \in Seq(1..trades) /\ Len(buffered) <= MaxMessages /\ count \in 0..MaxMessages
  /\ events \in Seq(1..trades) /\ published \in 0..Len(events)
  /\ canonical \in [1..Attempts -> Seq(1..trades)]
  /\ stream \in Seq(1..trades) /\ inTransit \in [Trades -> Nat]

(* What a try captures is an interval of the market, without a gap or a    *)
(* repeat, whether it comes in frames, is cut by the limit, interleaved    *)
(* with errors, or taken over REST after the websocket has failed.         *)
CaptureIsGapless ==
  \A n \in 1..(Len(events) - 1) : events[n + 1] = events[n] + 1

(* The tries of a task together put the trades in the order of the market: *)
(* whatever a try lost, repeated or left half put, a trade is first in the *)
(* stream after every earlier trade that is there.                         *)
FirstCopy(k) == CHOOSE n \in DOMAIN stream :
                  stream[n] = k /\ \A m \in 1..(n - 1) : stream[m] # k

StreamInMarketOrder ==
  \A j, k \in ToSet(stream) : j < k => FirstCopy(j) < FirstCopy(k)

(* Every trade in the stream can be found in a canonical file, also those  *)
(* of tries that failed half way through their puts.                       *)
PublishedOnDisk ==
  ToSet(stream) \subseteq UNION {ToSet(canonical[a]) : a \in 1..Attempts}

(* The task ends although recv() waits without a timeout and the market    *)
(* may be silent: execution_timeout and the count of the tries see to it.  *)
TaskEnds == <>(pc \in {"done", "failed"})

=============================================================================
