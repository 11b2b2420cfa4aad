-------------------------- MODULE AlpacaCapture_proofs --------------------------
(***************************************************************************)
(* Proofs that what a try captures is an interval of the market, that what *)
(* is put is on disk, and that the tries together put the trades in the    *)
(* order of the market (CaptureIsGapless, PublishedOnDisk and              *)
(* StreamInMarketOrder of AlpacaCapture), for any number of trades,        *)
(* messages, tries and resends.                                            *)
(***************************************************************************)
EXTENDS AlpacaCapture, WellFoundedInduction, TLAPS

-----------------------------------------------------------------------------
(* The inductive invariants.                                               *)

(* A try that still receives is below its limit; what is on its way has    *)
(* been traded.                                                            *)
TypeInv ==
  /\ TypeOK
  /\ pc = "receive" => Len(buffered) <= count /\ count < MaxMessages
  /\ \A k \in Trades : inTransit[k] > 0 => k <= trades

(* An interval of the naturals, in order.                                  *)
Interval(seq) == \A n \in 1..Len(seq) : seq[n] = seq[1] + (n - 1)

(* What is buffered reaches up to the last trade the server has sent.      *)
CaptureInv ==
  /\ Interval(buffered) /\ Interval(events)
  /\ pc = "receive" /\ buffered # <<>> => buffered[Len(buffered)] = heard

Capturing == {"connect", "receive", "fallback", "map", "write"}

InStream(k) == \E n \in 1..Len(stream) : stream[n] = k
OnDisk(k) == \E a \in 1..Attempts : k \in ToSet(canonical[a])

(* A try writes a file of its own, and before its first put.               *)
DiskInv ==
  /\ \A a \in 1..Attempts : a > attempt => canonical[a] = <<>>
  /\ pc \in Capturing => canonical[attempt] = <<>>
  /\ pc = "publish" => canonical[attempt] = events
  /\ pc = "delay" => attempt < Attempts
  /\ \A k \in Trades : InStream(k) \/ inTransit[k] > 0 => OnDisk(k)

(* No trade in the stream is later than k.                                 *)
Newest(k) == \A n \in 1..Len(stream) : stream[n] <= k

(* Before a trade in the stream is every earlier one that is there.        *)
EarlierFirst ==
  \A m, n \in 1..Len(stream) :
    stream[m] < stream[n] => \E l \in 1..(n - 1) : stream[l] = stream[m]

(* While a try captures nothing is on its way, so what it hears is not     *)
(* older than the stream; only the put a try gives up on may still land as *)
(* something new.                                                          *)
OrderInv ==
  /\ EarlierFirst
  /\ pc \in Capturing => \A k \in Trades : inTransit[k] = 0
  /\ pc = "receive" => Newest(heard)
  /\ pc \in {"receive", "map"} => \A i \in 1..Len(buffered) : Newest(buffered[i])
  /\ pc = "write" => \A i \in 1..Len(events) : Newest(events[i])
  /\ pc = "publish" =>
       \A i \in (published + 1)..Len(events) : InStream(events[i]) \/ Newest(events[i])
  /\ pc \notin {"delay", "failed"} => \A k \in Trades : inTransit[k] > 0 => InStream(k)
  /\ \A k \in Trades : inTransit[k] > 0 => InStream(k) \/ Newest(k)
  /\ \A j, k \in Trades :
       inTransit[j] > 0 /\ inTransit[k] > 0 /\ ~InStream(j) /\ ~InStream(k) => j = k

AllInv == TypeInv /\ CaptureInv /\ DiskInv /\ OrderInv

-----------------------------------------------------------------------------
(* Type correctness.                                                       *)

(* The empty sequence and those of one member.                             *)
LEMMA ShortSequences ==
  ASSUME NEW S
  PROVE  /\ <<>> \in Seq(S) /\ Len(<<>>) = 0
         /\ \A x \in S : <<x>> \in Seq(S) /\ Len(<<x>>) = 1 /\ <<x>>[1] = x
OBVIOUS

(* What a sequence is with one more member.                                *)
LEMMA Appended ==
  ASSUME NEW S, NEW seq \in Seq(S), NEW x \in S
  PROVE  /\ Append(seq, x) \in Seq(S) /\ Len(Append(seq, x)) = Len(seq) + 1
         /\ \A i \in 1..Len(seq) : Append(seq, x)[i] = seq[i]
         /\ Append(seq, x)[Len(seq) + 1] = x
OBVIOUS

(* What a sequence is with a tail of n more members.                       *)
LEMMA Extended ==
  ASSUME NEW S, NEW seq \in Seq(S), NEW n \in Nat, NEW tail \in [1..n -> S]
  PROVE  /\ seq \o tail \in Seq(S) /\ Len(seq \o tail) = Len(seq) + n
         /\ \A i \in 1..Len(seq) : (seq \o tail)[i] = seq[i]
         /\ \A i \in 1..n : (seq \o tail)[Len(seq) + i] = tail[i]
<1>1. tail \in Seq(S) /\ Len(tail) = n
  OBVIOUS
<1> QED
  BY <1>1

(* Whatever was a sequence of trades is one when more trades are made.     *)
LEMMA MoreTrades ==
  ASSUME NEW m \in Nat, NEW n \in Nat, m <= n, NEW seq \in Seq(1..m)
  PROVE  seq \in Seq(1..n)
OBVIOUS

(* Trades are numbers.                                                     *)
LEMMA Numbers ==
  ASSUME NEW S \in SUBSET Nat, NEW seq \in Seq(S)
  PROVE  seq \in Seq(Nat)
<1>1. Len(seq) \in Nat /\ seq \in [1..Len(seq) -> S] /\ S \subseteq Nat
  OBVIOUS
<1>2. seq \in [1..Len(seq) -> Nat]
  BY <1>1
<1>3. \A n \in Nat : \A f \in [1..n -> Nat] : f \in Seq(Nat)
  OBVIOUS
<1> QED
  BY <1>1, <1>2, <1>3

(* The trades of a frame.                                                  *)
LEMMA FrameFacts ==
  ASSUME NEW n \in Nat, NEW m \in Nat, NEW frame, frame = [k \in 1..n |-> m + k]
  PROVE  frame \in [1..n -> Nat] /\ \A k \in 1..n : frame[k] = m + k
OBVIOUS

(* A frame cut at the limit.                                               *)
LEMMA TakenFacts ==
  ASSUME TypeOK, NEW size \in Nat \ {0}
  PROVE  /\ Taken(size) \in 0..size /\ count + Taken(size) \in 0..MaxMessages
         /\ count + Taken(size) < MaxMessages => Taken(size) = size
         /\ Frame(Taken(size)) \in [1..Taken(size) -> (heard + 1)..(heard + size)]
<1>1. Taken(size) \in 0..size /\ Taken(size) \in Nat /\ size \in Int /\ heard \in Int
  BY CaptureAssumption DEF TypeOK, Taken
<1>2. Frame(Taken(size)) \in [1..Taken(size) -> (heard + 1)..(heard + size)]
  BY <1>1 DEF Frame
<1> QED
  BY <1>1, <1>2, CaptureAssumption DEF TypeOK, Taken

(* Every variable keeps its type: what was heard, buffered, mapped, written *)
(* and put are trades that have been made, and no try buffers more messages *)
(* than its limit.                                                          *)
LEMMA TypeInvCorrect == Spec => []TypeInv
<1>0. \A S : <<>> \in Seq(S) /\ Len(<<>>) = 0
  OBVIOUS
<1>1. Init => TypeInv
  <2> SUFFICES ASSUME Init PROVE TypeInv
    OBVIOUS
  <2>1. /\ canonical \in [1..Attempts -> Seq(1..trades)]
        /\ buffered \in Seq(1..trades) /\ events \in Seq(1..trades) /\ stream \in Seq(1..trades)
    BY <1>0 DEF Init
  <2>2. /\ trades \in 0..MaxTrades /\ attempt \in 1..Attempts /\ heard \in 0..trades
        /\ Len(buffered) <= MaxMessages /\ count \in 0..MaxMessages
        /\ published \in 0..Len(events)
        /\ inTransit \in [Trades -> Nat] /\ \A k \in Trades : inTransit[k] = 0
    BY CaptureAssumption, <1>0 DEF Init
  <2>3. authorised \in BOOLEAN /\ pc = "connect"
    BY DEF Init
  <2> QED
    BY <2>1, <2>2, <2>3 DEF TypeOK, TypeInv
<1>2. TypeInv /\ [Next]_vars => TypeInv'
  <2> SUFFICES ASSUME TypeInv, [Next]_vars PROVE TypeInv'
    OBVIOUS
  <2> USE CaptureAssumption
  <2>1. CASE Handshake
    BY <1>0, <2>1 DEF Handshake, TypeOK, TypeInv
  <2>2. CASE Fallback
    <3>1. /\ buffered' \in Seq(1..trades)
          /\ Len(buffered') <= 1
      <4>1. CASE trades = 0
        BY <2>2, <4>1, ShortSequences DEF Fallback
      <4>2. CASE trades # 0
        <5>1. trades \in 1..trades /\ buffered' = <<trades>>
          BY <2>2, <4>2 DEF Fallback, TypeOK, TypeInv
        <5> QED
          BY <5>1, ShortSequences
      <4> QED
        BY <4>1, <4>2
    <3> QED
      BY <2>2, <3>1 DEF Fallback, TypeOK, TypeInv
  <2>3. CASE MapEvents
    BY <2>3 DEF MapEvents, TypeOK, TypeInv
  <2>4. CASE WriteCanonical
    BY <2>4 DEF WriteCanonical, TypeOK, TypeInv
  <2>5. CASE PutReturns
    <3> DEFINE k == events[published + 1]
    <3>1. k \in 1..trades /\ k \in Trades /\ published + 1 \in 0..Len(events)
      <4>1. published + 1 \in 1..Len(events) /\ events \in Seq(1..trades) /\ trades \in 0..MaxTrades
        BY <2>5 DEF PutReturns, TypeOK, TypeInv
      <4> QED
        BY <4>1 DEF Trades
    <3>2. PICK resent \in 0..SdkResends : inTransit' = [inTransit EXCEPT ![k] = @ + resent]
      BY <2>5 DEF PutReturns
    <3>3. stream' = Append(stream, k) /\ published' = published + 1
          /\ UNCHANGED <<trades, pc, attempt, authorised, heard, buffered, count, events, canonical>>
      BY <2>5 DEF PutReturns
    <3> HIDE DEF k
    <3>4. /\ stream' \in Seq(1..trades) /\ inTransit' \in [Trades -> Nat]
          /\ \A j \in Trades : inTransit'[j] > 0 => j <= trades
      <4>1. stream \in Seq(1..trades) /\ inTransit \in [Trades -> Nat]
        BY DEF TypeOK, TypeInv
      <4>2. Append(stream, k) \in Seq(1..trades)
        BY <3>1, <4>1, Appended
      <4> QED
        BY <3>1, <3>2, <3>3, <4>1, <4>2 DEF TypeInv
    <3> QED
      BY <3>1, <3>3, <3>4 DEF TypeOK, TypeInv
  <2>6. CASE Return
    BY <2>6 DEF Return, TypeOK, TypeInv
  <2>7. CASE RetryDelay
    BY <2>7 DEF RetryDelay, TypeOK, TypeInv
  <2>8. CASE ReceiveError
    <3>1. count' \in 0..MaxMessages
      BY <2>8 DEF ReceiveError, Receive, TypeOK, TypeInv
    <3> QED
      BY <2>8, <3>1 DEF ReceiveError, Receive, TypeOK, TypeInv
  <2>9. ASSUME NEW last \in Trades, ReceiveTrades(last) PROVE TypeInv'
    <3>1. last \in (heard + 1)..trades /\ heard \in Nat /\ trades \in Nat
      BY <2>9 DEF ReceiveTrades, TypeOK, TypeInv
    <3> DEFINE size == last - heard
    <3>2. size \in Nat \ {0} /\ heard + size = last
      BY <3>1
    <3> HIDE DEF size
    <3>3. /\ Taken(size) \in 0..size /\ Taken(size) \in Nat /\ count + Taken(size) \in 0..MaxMessages
          /\ Frame(Taken(size)) \in [1..Taken(size) -> (heard + 1)..last]
      BY <3>2, TakenFacts DEF TypeInv
    <3>4. buffered \o Frame(Taken(size)) \in Seq(1..trades)
      <4>1. Frame(Taken(size)) \in [1..Taken(size) -> 1..trades]
        BY <3>1, <3>3
      <4> QED
        BY <3>3, <4>1, Extended DEF TypeOK, TypeInv
    <3>5. /\ buffered' = buffered \o Frame(Taken(size)) /\ count' = count + Taken(size)
          /\ heard' = last /\ pc' \in {"map", "receive"}
          /\ UNCHANGED <<trades, attempt, authorised, events, published, canonical, stream, inTransit>>
      BY <2>9 DEF ReceiveTrades, Receive, size
    <3>6. pc' = "receive" => count' < MaxMessages
      BY <2>9, <3>3, <3>5 DEF ReceiveTrades, Receive
    <3>7. heard' \in 0..trades' /\ Len(buffered') <= count' /\ Len(buffered') <= MaxMessages
      <4>1. Len(buffered') = Len(buffered) + Taken(size) /\ Len(buffered) <= count
        <5>1. Frame(Taken(size)) \in [1..Taken(size) -> 1..trades]
          BY <3>1, <3>3
        <5>2. buffered \in Seq(1..trades) /\ Len(buffered) <= count
          BY <2>9 DEF TypeOK, TypeInv, ReceiveTrades, Receive
        <5> DEFINE S == 1..trades
                   frame == Frame(Taken(size))
        <5>3. buffered \in Seq(S) /\ frame \in [1..Taken(size) -> S] /\ Taken(size) \in Nat
          BY <3>3, <5>1, <5>2
        <5>4. buffered' = buffered \o frame
          BY <3>5
        <5> HIDE DEF S, frame
        <5>5. Len(buffered \o frame) = Len(buffered) + Taken(size)
          BY <5>3, Extended
        <5> QED
          BY <5>2, <5>4, <5>5
      <4> QED
        BY SMTT(30), <3>1, <3>3, <3>5, <4>1 DEF TypeOK, TypeInv
    <3> QED
      BY <3>1, <3>3, <3>4, <3>5, <3>6, <3>7 DEF TypeOK, TypeInv
  <2>10. CASE WebsocketFails
    BY <2>10 DEF WebsocketFails, TypeOK, TypeInv
  <2>11. CASE PutRaises
    <3> DEFINE k == events[published + 1]
    <3>1. k \in Trades /\ k <= trades
      <4>1. published + 1 \in 1..Len(events) /\ events \in Seq(1..trades) /\ trades \in 0..MaxTrades
        BY <2>11 DEF PutRaises, TypeOK, TypeInv
      <4> QED
        BY <4>1 DEF Trades
    <3>2. PICK late \in 0..(SdkResends + 1) : inTransit' = [inTransit EXCEPT ![k] = @ + late]
      BY <2>11 DEF PutRaises
    <3> HIDE DEF k
    <3>3. inTransit' \in [Trades -> Nat] /\ \A j \in Trades : inTransit'[j] > 0 => j <= trades
      BY <3>1, <3>2 DEF TypeOK, TypeInv
    <3> QED
      BY <2>11, <3>3 DEF PutRaises, Fail, Exhausted, TypeOK, TypeInv
  <2>12. CASE TaskDies
    BY <2>12 DEF TaskDies, Fail, Exhausted, TypeOK, TypeInv
  <2>13. CASE TradeMade
    <3>1. trades \in Nat /\ trades' \in Nat /\ trades <= trades' /\ trades' \in 0..MaxTrades
      BY <2>13 DEF TradeMade, TypeOK, TypeInv
    <3>2. \A seq \in Seq(1..trades) : seq \in Seq(1..trades')
      BY <3>1, MoreTrades
    <3>3. canonical \in [1..Attempts -> Seq(1..trades')]
      BY <3>2 DEF TypeOK, TypeInv
    <3>4. UNCHANGED <<pc, attempt, authorised, heard, buffered, count, events, published, canonical, stream, inTransit>>
      BY <2>13 DEF TradeMade
    <3>5. \A k \in Trades : inTransit'[k] > 0 => k <= trades'
      BY <3>1, <3>4 DEF TypeInv, TypeOK, Trades
    <3> QED
      BY <3>1, <3>2, <3>3, <3>4, <3>5 DEF TypeOK, TypeInv
  <2>14. ASSUME NEW k \in Trades, LandLate(k) PROVE TypeInv'
    <3>1. inTransit' \in [Trades -> Nat] /\ \A j \in Trades : inTransit'[j] > 0 => j <= trades
      BY SMTT(30), <2>14 DEF LandLate, TypeOK, TypeInv
    <3>2. stream' \in Seq(1..trades)
      <4>1. k \in 1..trades
        BY <2>14 DEF LandLate, TypeOK, TypeInv, Trades
      <4>2. stream' = Append(stream, k) \/ stream' = stream
        BY <2>14 DEF LandLate
      <4>3. stream \in Seq(1..trades)
        BY DEF TypeOK, TypeInv
      <4>4. Append(stream, k) \in Seq(1..trades)
        BY <4>1, <4>3, Appended
      <4> QED
        BY <4>2, <4>3, <4>4
    <3> QED
      BY <2>14, <3>1, <3>2 DEF LandLate, TypeOK, TypeInv
  <2>15. CASE UNCHANGED vars
    BY <2>15 DEF vars, TypeOK, TypeInv
  <2> QED
    BY <2>1, <2>2, <2>3, <2>4, <2>5, <2>6, <2>7, <2>8, <2>9, <2>10, <2>11, <2>12, <2>13,
       <2>14, <2>15 DEF Next, Progress, Failures, Over
<1> QED
  BY <1>1, <1>2, PTL DEF Spec

(* Every variable keeps its type: no try buffers more messages than its    *)
(* limit, and what is buffered, written or put has been traded.            *)
THEOREM TypeCorrect == Spec => []TypeOK
<1>1. TypeInv => TypeOK
  BY DEF TypeInv
<1> QED
  BY <1>1, TypeInvCorrect, PTL

-----------------------------------------------------------------------------
(* What a try captures.                                                    *)

(* An interval stays one when a frame that begins after its end is added.  *)
LEMMA IntervalExtended ==
  ASSUME NEW seq \in Seq(Nat), NEW n \in Nat, NEW last \in Nat, Interval(seq),
         seq # <<>> => seq[Len(seq)] = last
  PROVE  LET all == seq \o [k \in 1..n |-> last + k] IN
           /\ Interval(all)
           /\ n > 0 => all # <<>> /\ all[Len(all)] = last + n
<1> DEFINE frame == [k \in 1..n |-> last + k]
           all == seq \o frame
<1>1. frame \in [1..n -> Nat] /\ \A k \in 1..n : frame[k] = last + k
  OBVIOUS
<1> HIDE DEF frame
<1>2. /\ all \in Seq(Nat) /\ Len(all) = Len(seq) + n /\ Len(seq) \in Nat
      /\ \A i \in 1..Len(seq) : all[i] = seq[i]
      /\ \A i \in 1..n : all[Len(seq) + i] = last + i
  <2>1. /\ all \in Seq(Nat) /\ Len(all) = Len(seq) + n
        /\ \A i \in 1..Len(seq) : all[i] = seq[i]
        /\ \A i \in 1..n : all[Len(seq) + i] = frame[i]
    BY <1>1, Extended
  <2>2. Len(seq) \in Nat
    OBVIOUS
  <2> HIDE DEF all
  <2> QED
    BY <1>1, <2>1, <2>2
<1> HIDE DEF all
<1>3. CASE seq = <<>>
  <2>1. Len(seq) = 0
    BY <1>3
  <2>2. \A i \in 1..n : all[i] = last + i
    BY <1>2, <2>1
  <2>3. Interval(all) /\ (n > 0 => all # <<>> /\ all[Len(all)] = last + n)
    BY <1>2, <2>1, <2>2 DEF Interval
  <2> QED
    BY <2>3 DEF all, frame
<1>4. CASE seq # <<>>
  <2>1. Len(seq) \in Nat \ {0} /\ last = seq[1] + (Len(seq) - 1) /\ seq[1] \in Nat
    BY <1>4 DEF Interval
  <2>2. \A i \in 1..Len(all) : all[i] = all[1] + (i - 1)
    <3> SUFFICES ASSUME NEW i \in 1..Len(all) PROVE all[i] = all[1] + (i - 1)
      OBVIOUS
    <3>1. all[1] = seq[1]
      BY <1>2, <2>1
    <3>2. CASE i <= Len(seq)
      BY <1>2, <2>1, <3>1, <3>2 DEF Interval
    <3>3. CASE ~(i <= Len(seq))
      <4>1. (i - Len(seq)) \in 1..n /\ Len(seq) + (i - Len(seq)) = i
        BY <1>2, <3>3
      <4>2. all[i] = last + (i - Len(seq))
        BY <1>2, <4>1
      <4> QED
        <5> DEFINE first == seq[1]
                   length == Len(seq)
        <5>1. /\ last = first + (length - 1) /\ all[1] = first /\ all[i] = last + (i - length)
              /\ first \in Nat /\ length \in Nat /\ i \in Int
          BY <1>2, <2>1, <3>1, <4>2
        <5> HIDE DEF first, length
        <5> QED
          BY <5>1
    <3> QED
      BY <3>2, <3>3
  <2>3. n > 0 => all # <<>> /\ all[Len(all)] = last + n
    BY <1>2, <2>1
  <2>4. Interval(all)
    BY <2>2 DEF Interval
  <2> QED
    BY <2>3, <2>4 DEF all, frame
<1> QED
  BY <1>3, <1>4

(* What a try maps and puts is an interval of the market: the frames join, *)
(* the limit cuts at the end, errors leave no gap, and the REST answer     *)
(* replaces what was buffered.                                             *)
LEMMA CaptureInvCorrect == Spec => []CaptureInv
<1>1. Init => CaptureInv
  BY DEF Init, CaptureInv, Interval
<1>2. TypeInv /\ CaptureInv /\ [Next]_vars => CaptureInv'
  <2> SUFFICES ASSUME TypeInv, CaptureInv, [Next]_vars PROVE CaptureInv'
    OBVIOUS
  <2>1. CASE Handshake
    <3>1. Interval(<<>>)
      BY DEF Interval
    <3> QED
      BY <2>1, <3>1 DEF Handshake, CaptureInv
  <2>2. CASE Fallback
    <3>1. Interval(<<>>)
      BY DEF Interval
    <3>2. Interval(<<trades>>)
      <4>1. trades \in Nat
        BY DEF TypeInv, TypeOK
      <4>2. Len(<<trades>>) = 1 /\ <<trades>>[1] = trades
        BY <4>1, ShortSequences
      <4> QED
        BY <4>1, <4>2 DEF Interval
    <3> QED
      BY <2>2, <3>1, <3>2 DEF Fallback, CaptureInv
  <2>3. CASE MapEvents
    BY <2>3 DEF MapEvents, CaptureInv
  <2>8. CASE ReceiveError
    BY <2>8 DEF ReceiveError, Receive, CaptureInv
  <2>9. ASSUME NEW last \in Trades, ReceiveTrades(last) PROVE CaptureInv'
    <3> DEFINE size == last - heard
               frame == [k \in 1..Taken(size) |-> heard + k]
    <3>1. /\ last \in (heard + 1)..trades /\ heard \in Nat /\ trades \in Nat
          /\ buffered \in Seq(Nat) /\ pc = "receive"
      BY <2>9 DEF ReceiveTrades, Receive, TypeInv, TypeOK
    <3>2. size \in Nat \ {0} /\ heard + size = last
      BY <3>1
    <3> HIDE DEF size
    <3>3. /\ Taken(size) \in 0..size /\ Taken(size) \in Nat
          /\ count + Taken(size) < MaxMessages => Taken(size) = size
      BY <3>2, TakenFacts DEF TypeInv
    <3>4. /\ buffered' = buffered \o frame /\ count' = count + Taken(size)
          /\ pc' = IF count + Taken(size) >= MaxMessages THEN "map" ELSE "receive"
          /\ heard' = last /\ events' = events
      BY <2>9 DEF ReceiveTrades, Receive, Frame, size
    <3>5. /\ Interval(buffered \o frame)
          /\ Taken(size) > 0 => (buffered \o frame)[Len(buffered \o frame)] = heard + Taken(size)
      BY <3>1, <3>3, IntervalExtended DEF CaptureInv
    <3> HIDE DEF frame
    <3>6. pc' = "receive" => Taken(size) = size
      BY <3>3, <3>4, CaptureAssumption DEF TypeInv, TypeOK
    <3> QED
      BY <3>2, <3>4, <3>5, <3>6 DEF CaptureInv
  <2>10. CASE WebsocketFails
    BY <2>10 DEF WebsocketFails, CaptureInv
  <2>16. CASE WriteCanonical \/ PutReturns \/ Return \/ RetryDelay \/ PutRaises \/ TaskDies
              \/ TradeMade \/ (\E k \in Trades : LandLate(k)) \/ UNCHANGED vars
    <3>1. UNCHANGED <<buffered, events, heard>> /\ (pc' = "receive" => pc = "receive")
      BY <2>16 DEF WriteCanonical, PutReturns, Return, RetryDelay, PutRaises, TaskDies, Fail,
                   TradeMade, LandLate, vars
    <3> QED
      BY <3>1 DEF CaptureInv
  <2> QED
    BY <2>1, <2>2, <2>3, <2>8, <2>9, <2>10, <2>16 DEF Next, Progress, Failures, Over
<1> QED
  BY <1>1, <1>2, TypeInvCorrect, PTL DEF Spec

(* What a try captures has no gap and no repeat (AlpacaCapture).           *)
THEOREM GaplessCorrect == Spec => []CaptureIsGapless
<1>1. TypeInv /\ CaptureInv => CaptureIsGapless
  <2> SUFFICES ASSUME TypeInv, CaptureInv, NEW n \in 1..(Len(events) - 1)
               PROVE  events[n + 1] = events[n] + 1
    BY DEF CaptureIsGapless
  <2>1. events \in Seq(Nat) /\ Interval(events)
    BY DEF TypeInv, TypeOK, CaptureInv
  <2>2. n \in 1..Len(events) /\ n + 1 \in 1..Len(events) /\ events[1] \in Nat
    BY <2>1
  <2> QED
    BY <2>1, <2>2 DEF Interval
<1> QED
  BY <1>1, TypeInvCorrect, CaptureInvCorrect, PTL

-----------------------------------------------------------------------------
(* What is put is on disk.                                                 *)

(* put_record is called with a trade the try has captured.                 *)
LEMMA NextPut ==
  ASSUME TypeInv, published < Len(events)
  PROVE  /\ published + 1 \in 1..Len(events) /\ events[published + 1] \in Trades
         /\ events[published + 1] \in ToSet(events)
<1>1. published + 1 \in 1..Len(events) /\ events \in Seq(1..trades) /\ trades \in 0..MaxTrades
  BY DEF TypeInv, TypeOK
<1>2. events[published + 1] \in 1..trades /\ events[published + 1] \in ToSet(events)
  BY <1>1 DEF ToSet
<1> QED
  BY <1>1, <1>2, CaptureAssumption DEF Trades

(* One put or one late landing adds at most that trade to the stream.      *)
LEMMA StreamGrows ==
  ASSUME NEW seq \in Seq(Nat), NEW k \in Nat
  PROVE  /\ Append(seq, k) \in Seq(Nat) /\ Len(Append(seq, k)) = Len(seq) + 1
         /\ Len(seq) \in Nat
         /\ \A i \in 1..Len(seq) : Append(seq, k)[i] = seq[i]
         /\ Append(seq, k)[Len(seq) + 1] = k
         /\ \A j : (\E n \in 1..Len(Append(seq, k)) : Append(seq, k)[n] = j)
                  <=> (\E n \in 1..Len(seq) : seq[n] = j) \/ j = k
<1>1. /\ Append(seq, k) \in Seq(Nat) /\ Len(Append(seq, k)) = Len(seq) + 1
      /\ Len(seq) \in Nat
      /\ \A i \in 1..Len(seq) : Append(seq, k)[i] = seq[i]
      /\ Append(seq, k)[Len(seq) + 1] = k
  OBVIOUS
<1> DEFINE all == Append(seq, k)
<1> HIDE DEF all
<1>2. ASSUME NEW j
      PROVE  (\E n \in 1..Len(all) : all[n] = j) <=> (\E n \in 1..Len(seq) : seq[n] = j) \/ j = k
  <2>1. \A n \in 1..Len(all) : n \in 1..Len(seq) \/ n = Len(seq) + 1
    BY <1>1 DEF all
  <2>2. Len(seq) + 1 \in 1..Len(all) /\ \A n \in 1..Len(seq) : n \in 1..Len(all)
    BY <1>1 DEF all
  <2>3. (\A i \in 1..Len(seq) : all[i] = seq[i]) /\ all[Len(seq) + 1] = k
    BY <1>1 DEF all
  <2> QED
    BY <2>1, <2>2, <2>3
<1> QED
  BY <1>1, <1>2 DEF all

(* A trade in the stream or on its way is in the canonical file of a try:  *)
(* the file is written before the first put, under a name of its own, and  *)
(* nothing rewrites it.                                                    *)
LEMMA DiskInvCorrect == Spec => []DiskInv
<1>1. Init => DiskInv
  BY CaptureAssumption DEF Init, DiskInv, InStream, Trades
<1>2. TypeInv /\ DiskInv /\ [Next]_vars => DiskInv'
  <2> SUFFICES ASSUME TypeInv, DiskInv, [Next]_vars PROVE DiskInv'
    OBVIOUS
  <2>0. /\ attempt \in 1..Attempts /\ Attempts \in Nat \ {0}
        /\ canonical \in [1..Attempts -> Seq(1..trades)]
        /\ inTransit \in [Trades -> Nat] /\ stream \in Seq(Nat)
        /\ Trades \subseteq Nat
    BY SMTT(30), CaptureAssumption DEF TypeInv, TypeOK, Trades
  <2>1. CASE Handshake \/ Fallback \/ MapEvents \/ ReceiveError \/ WebsocketFails \/ TradeMade
             \/ (\E last \in Trades : ReceiveTrades(last)) \/ UNCHANGED vars
    <3>1. /\ UNCHANGED <<attempt, canonical, stream, inTransit>>
          /\ \/ pc' = pc /\ events' = events
             \/ pc \in Capturing /\ pc' \in Capturing
      BY <2>1 DEF Handshake, Fallback, MapEvents, ReceiveError, WebsocketFails, TradeMade,
                  ReceiveTrades, Receive, Capturing, vars
    <3> QED
      BY <3>1 DEF DiskInv, InStream, OnDisk, Capturing
  <2>2. CASE WriteCanonical
    <3>1. /\ canonical' = [canonical EXCEPT ![attempt] = events] /\ pc' = "publish" /\ pc = "write"
          /\ UNCHANGED <<attempt, events, stream, inTransit>>
      BY <2>2 DEF WriteCanonical
    <3>2. canonical[attempt] = <<>>
      BY <3>1 DEF DiskInv, Capturing
    <3>3. \A k : OnDisk(k) => OnDisk(k)'
      <4> SUFFICES ASSUME NEW k, NEW a \in 1..Attempts, k \in ToSet(canonical[a])
                   PROVE  OnDisk(k)'
        BY DEF OnDisk
      <4>1. a # attempt
        BY <3>2 DEF ToSet
      <4>2. canonical'[a] = canonical[a]
        BY <2>0, <3>1, <4>1
      <4> QED
        BY <4>2 DEF OnDisk
    <3>4. canonical'[attempt] = events /\ \A a \in 1..Attempts : a > attempt => canonical'[a] = <<>>
      BY <2>0, <3>1 DEF DiskInv
    <3>5. \A k : InStream(k)' <=> InStream(k)
      BY <3>1 DEF InStream
    <3> QED
      BY <3>1, <3>3, <3>4, <3>5 DEF DiskInv, Capturing
  <2>3. CASE PutReturns
    <3> DEFINE k == events[published + 1]
    <3>1. /\ pc = "publish" /\ k \in Trades /\ OnDisk(k)
      BY <2>0, <2>3, NextPut DEF PutReturns, DiskInv, OnDisk
    <3>2. /\ stream' = Append(stream, k) /\ UNCHANGED <<pc, attempt, events, canonical>>
          /\ \E resent \in 0..SdkResends : inTransit' = [inTransit EXCEPT ![k] = @ + resent]
      BY <2>3 DEF PutReturns
    <3> HIDE DEF k
    <3>3. \A j \in Trades : InStream(j)' \/ inTransit'[j] > 0 => InStream(j) \/ inTransit[j] > 0 \/ j = k
      BY SMTT(30), <2>0, <3>1, <3>2, StreamGrows DEF InStream
    <3>4. \A j : OnDisk(j)' <=> OnDisk(j)
      BY <3>2 DEF OnDisk
    <3> QED
      BY <3>1, <3>2, <3>3, <3>4 DEF DiskInv, Capturing
  <2>4. CASE PutRaises
    <3> DEFINE k == events[published + 1]
    <3>1. /\ pc = "publish" /\ k \in Trades /\ OnDisk(k)
      BY <2>0, <2>4, NextPut DEF PutRaises, DiskInv, OnDisk
    <3>2. /\ UNCHANGED <<attempt, events, canonical, stream>>
          /\ pc' \in {"failed", "delay"} /\ (pc' = "delay" => attempt # Attempts)
          /\ \E late \in 0..(SdkResends + 1) : inTransit' = [inTransit EXCEPT ![k] = @ + late]
      BY <2>4 DEF PutRaises, Fail, Exhausted
    <3> HIDE DEF k
    <3>3. \A j \in Trades : InStream(j)' \/ inTransit'[j] > 0 => InStream(j) \/ inTransit[j] > 0 \/ j = k
      BY <2>0, <3>1, <3>2 DEF InStream
    <3>4. \A j : OnDisk(j)' <=> OnDisk(j)
      BY <3>2 DEF OnDisk
    <3> QED
      BY <2>0, <3>1, <3>2, <3>3, <3>4 DEF DiskInv, Capturing
  <2>5. CASE Return \/ TaskDies
    <3>1. /\ UNCHANGED <<attempt, events, canonical, stream, inTransit>>
          /\ pc' \in {"done", "failed", "delay"} /\ (pc' = "delay" => attempt # Attempts)
      BY <2>5 DEF Return, TaskDies, Fail, Exhausted
    <3> QED
      BY <2>0, <3>1 DEF DiskInv, InStream, OnDisk, Capturing
  <2>6. CASE RetryDelay
    <3>1. /\ UNCHANGED <<events, canonical, stream, inTransit>>
          /\ pc = "delay" /\ pc' = "connect" /\ attempt' = attempt + 1 /\ attempt < Attempts
      BY <2>6 DEF RetryDelay, DiskInv
    <3>2. canonical[attempt'] = <<>>
      BY <2>0, <3>1 DEF DiskInv
    <3> QED
      BY <2>0, <3>1, <3>2 DEF DiskInv, InStream, OnDisk, Capturing
  <2>7. ASSUME NEW k \in Trades, LandLate(k) PROVE DiskInv'
    <3>1. /\ UNCHANGED <<pc, attempt, events, canonical>> /\ inTransit[k] > 0
          /\ stream' = Append(stream, k) \/ stream' = stream
          /\ inTransit' = [inTransit EXCEPT ![k] = @ - 1]
      BY <2>7 DEF LandLate
    <3>2. \A j \in Trades : InStream(j)' \/ inTransit'[j] > 0 => InStream(j) \/ inTransit[j] > 0
      <4>1. \A j \in Trades : inTransit'[j] > 0 => inTransit[j] > 0
        BY <2>0, <3>1
      <4>2. CASE stream' = stream
        BY <4>1, <4>2 DEF InStream
      <4>3. CASE stream' = Append(stream, k)
        BY <2>0, <3>1, <4>1, <4>3, StreamGrows DEF InStream
      <4> QED
        BY <3>1, <4>2, <4>3
    <3>3. \A j : OnDisk(j)' <=> OnDisk(j)
      BY <3>1 DEF OnDisk
    <3> QED
      BY <3>1, <3>2, <3>3 DEF DiskInv, Capturing
  <2> QED
    BY <2>1, <2>2, <2>3, <2>4, <2>5, <2>6, <2>7 DEF Next, Progress, Failures, Over
<1> QED
  BY <1>1, <1>2, TypeInvCorrect, PTL DEF Spec

(* Every trade in the stream can be found in a canonical file, those of    *)
(* failed tries included (publish_to_kinesis after write_capture).         *)
THEOREM DiskCorrect == Spec => []PublishedOnDisk
<1>1. TypeInv /\ DiskInv => PublishedOnDisk
  <2> SUFFICES ASSUME TypeInv, DiskInv, NEW k \in ToSet(stream)
               PROVE  \E a \in 1..Attempts : k \in ToSet(canonical[a])
    BY DEF PublishedOnDisk
  <2>1. InStream(k) /\ k \in Trades
    BY SMTT(30), CaptureAssumption DEF ToSet, InStream, TypeInv, TypeOK, Trades
  <2> QED
    BY <2>1 DEF DiskInv, OnDisk
<1> QED
  BY <1>1, TypeInvCorrect, DiskInvCorrect, PTL

-----------------------------------------------------------------------------
(* The order of the stream.                                                *)

(* A trade that is there already, or is none older than, may land.         *)
LEMMA LandingKeepsOrder ==
  ASSUME NEW k \in Nat, stream \in Seq(Nat), EarlierFirst, InStream(k) \/ Newest(k),
         stream' = Append(stream, k)
  PROVE  /\ EarlierFirst'
         /\ \A j : InStream(j)' <=> InStream(j) \/ j = k
         /\ \A j \in Nat : Newest(j) /\ k <= j => Newest(j)'
<1>1. /\ Len(stream') = Len(stream) + 1 /\ Len(stream) \in Nat
      /\ \A i \in 1..Len(stream) : stream'[i] = stream[i] /\ stream[i] \in Nat
      /\ stream'[Len(stream) + 1] = k
      /\ \A j : (\E n \in 1..Len(stream') : stream'[n] = j) <=> (\E n \in 1..Len(stream) : stream[n] = j) \/ j = k
  BY StreamGrows
<1>2. \A j : InStream(j)' <=> InStream(j) \/ j = k
  BY <1>1 DEF InStream
<1>3. ASSUME NEW m \in 1..Len(stream'), NEW n \in 1..Len(stream'), stream'[m] < stream'[n]
      PROVE  \E l \in 1..(n - 1) : stream'[l] = stream'[m]
  <2>1. CASE m \in 1..Len(stream) /\ n \in 1..Len(stream)
    <3>1. PICK l \in 1..(n - 1) : stream[l] = stream[m]
      BY <1>1, <1>3, <2>1 DEF EarlierFirst
    <3>2. l \in 1..Len(stream)
      BY <1>1, <2>1
    <3> QED
      BY <1>1, <2>1, <3>1, <3>2
  <2>2. CASE m \in 1..Len(stream) /\ n = Len(stream) + 1
    BY <1>1, <2>2
  <2>3. CASE m = Len(stream) + 1 /\ n \in 1..Len(stream)
    <3>1. k < stream[n]
      BY <1>1, <1>3, <2>3
    <3>2. InStream(k)
      BY <1>1, <2>3, <3>1 DEF Newest
    <3>3. PICK i \in 1..Len(stream) : stream[i] = k
      BY <3>2 DEF InStream
    <3>4. PICK l \in 1..(n - 1) : stream[l] = k
      BY <2>3, <3>1, <3>3 DEF EarlierFirst
    <3>5. l \in 1..Len(stream)
      BY <1>1, <2>3
    <3> QED
      BY <1>1, <2>3, <3>4, <3>5
  <2>4. m = Len(stream) + 1 /\ n = Len(stream) + 1 => FALSE
    BY <1>1, <1>3
  <2>5. \A i \in 1..Len(stream') : i \in 1..Len(stream) \/ i = Len(stream) + 1
    BY <1>1
  <2> QED
    BY <2>1, <2>2, <2>3, <2>4, <2>5
<1>4. ASSUME NEW j \in Nat, Newest(j), k <= j PROVE Newest(j)'
  <2>1. \A n \in 1..Len(stream') : stream'[n] <= j
    BY <1>1, <1>4 DEF Newest
  <2> QED
    BY <2>1 DEF Newest
<1>5. EarlierFirst'
  BY <1>3 DEF EarlierFirst
<1> QED
  BY <1>2, <1>4, <1>5

(* The order of the stream when it does not change.                        *)
LEMMA SameStream ==
  ASSUME stream' = stream
  PROVE  /\ EarlierFirst' <=> EarlierFirst
         /\ \A j : (InStream(j)' <=> InStream(j)) /\ (Newest(j)' <=> Newest(j))
BY DEF EarlierFirst, InStream, Newest

(* Whatever has been captured is later than all that was put before.       *)
LEMMA NowNewest ==
  ASSUME TypeInv
  PROVE  Newest(trades)
BY DEF TypeInv, TypeOK, Newest

(* No put and no late landing brings a trade in front of an earlier one.   *)
LEMMA OrderInvCorrect == Spec => []OrderInv
<1>1. Init => OrderInv
  BY DEF Init, OrderInv, EarlierFirst, Newest, InStream, Trades
<1>2. TypeInv /\ CaptureInv /\ OrderInv /\ [Next]_vars => OrderInv'
  <2> SUFFICES ASSUME TypeInv, CaptureInv, OrderInv, [Next]_vars PROVE OrderInv'
    OBVIOUS
  <2>0. /\ inTransit \in [Trades -> Nat] /\ stream \in Seq(Nat) /\ Trades \subseteq Nat
        /\ events \in Seq(Nat) /\ buffered \in Seq(Nat) /\ published \in Nat
        /\ heard \in Nat /\ trades \in Nat
    <3> DEFINE S == 1..trades
    <3>1. inTransit \in [Trades -> Nat] /\ Trades \subseteq Nat
      BY DEF TypeInv, TypeOK, Trades
    <3>2. trades \in Nat /\ S \subseteq Nat
      BY CaptureAssumption DEF TypeInv, TypeOK
    <3>3. stream \in Seq(S) /\ events \in Seq(S) /\ buffered \in Seq(S)
      BY DEF TypeInv, TypeOK
    <3>4. heard \in Nat
      BY <3>2 DEF TypeInv, TypeOK
    <3> HIDE DEF S
    <3>5. stream \in Seq(Nat) /\ events \in Seq(Nat) /\ buffered \in Seq(Nat)
      BY <3>2, <3>3, Numbers
    <3>6. published \in Nat
      BY <3>5 DEF TypeInv, TypeOK
    <3> QED
      BY <3>1, <3>2, <3>4, <3>5, <3>6
  <2>1. CASE Handshake
    <3>1. /\ pc = "connect" /\ pc' = "receive" /\ heard' = trades /\ Len(buffered') = 0
          /\ UNCHANGED <<stream, inTransit>>
      BY <2>1 DEF Handshake
    <3>2. Newest(heard)'
      BY <3>1, NowNewest DEF Newest
    <3> QED
      BY <3>1, <3>2, SameStream DEF OrderInv, Capturing
  <2>2. CASE Fallback
    <3>1. /\ pc = "fallback" /\ pc' = "map" /\ UNCHANGED <<stream, inTransit>>
          /\ \A i \in 1..Len(buffered') : buffered'[i] = trades
      BY <2>2, ShortSequences DEF Fallback
    <3>2. \A i \in 1..Len(buffered') : Newest(buffered[i])'
      BY <3>1, NowNewest DEF Newest
    <3> QED
      BY <3>1, <3>2, SameStream DEF OrderInv, Capturing
  <2>3. CASE MapEvents
    <3>1. pc = "map" /\ pc' = "write" /\ UNCHANGED <<stream, inTransit>> /\ events' = buffered
      BY <2>3 DEF MapEvents
    <3>2. \A i \in 1..Len(events') : Newest(events[i])'
      BY <3>1, SameStream DEF OrderInv, Newest
    <3> QED
      BY <3>1, <3>2, SameStream DEF OrderInv, Capturing
  <2>4. CASE WriteCanonical
    <3>1. pc = "write" /\ pc' = "publish" /\ UNCHANGED <<events, published, stream, inTransit>>
      BY <2>4 DEF WriteCanonical
    <3>2. \A i \in (published + 1)..Len(events) : Newest(events[i])
      BY <2>0, <3>1 DEF OrderInv
    <3>3. \A i \in (published' + 1)..Len(events') : InStream(events[i])' \/ Newest(events[i])'
      BY <3>1, <3>2 DEF Newest
    <3> QED
      BY <2>0, <3>1, <3>3, SameStream DEF OrderInv, Capturing
  <2>5. ASSUME NEW last \in Trades, ReceiveTrades(last) PROVE OrderInv'
    <3> DEFINE size == last - heard
               frame == [k \in 1..Taken(size) |-> heard + k]
    <3>1. /\ last \in (heard + 1)..trades /\ pc = "receive" /\ pc' \in {"receive", "map"}
          /\ buffered' = buffered \o frame /\ heard' = last
          /\ UNCHANGED <<stream, inTransit>>
      BY <2>5 DEF ReceiveTrades, Receive, Frame
    <3>2. Taken(size) \in Nat
      <4>1. size \in Nat \ {0}
        BY <2>0, <3>1
      <4> HIDE DEF size
      <4> QED
        BY <4>1, TakenFacts DEF TypeInv
    <3> HIDE DEF size
    <3> DEFINE len == Taken(size)
    <3> HIDE DEF len
    <3>3. frame \in [1..len -> Nat] /\ \A k \in 1..len : frame[k] = heard + k
      <4>1. frame = [k \in 1..len |-> heard + k] /\ len \in Nat
        BY <3>2 DEF len
      <4> HIDE DEF frame
      <4> QED
        BY <2>0, <4>1, FrameFacts
    <3> HIDE DEF frame
    <3>4. /\ Len(buffered') = Len(buffered) + len
          /\ \A i \in 1..Len(buffered) : buffered'[i] = buffered[i]
          /\ \A i \in 1..len : buffered'[Len(buffered) + i] = heard + i
      <4>0. len \in Nat
        BY <3>2 DEF len
      <4>1. /\ Len(buffered \o frame) = Len(buffered) + len
            /\ \A i \in 1..Len(buffered) : (buffered \o frame)[i] = buffered[i]
            /\ \A i \in 1..len : (buffered \o frame)[Len(buffered) + i] = frame[i]
        BY SMTT(30), <2>0, <3>3, <4>0, Extended
      <4> QED
        BY <3>1, <3>3, <4>1
    <3>5. Newest(heard) /\ \A i \in 1..Len(buffered) : Newest(buffered[i])
      BY <3>1 DEF OrderInv
    <3>6. ASSUME NEW i \in 1..Len(buffered') PROVE Newest(buffered'[i])
      <4>1. CASE i \in 1..Len(buffered)
        BY <3>4, <3>5, <4>1
      <4>2. CASE i \notin 1..Len(buffered)
        <5>1. Len(buffered) \in Nat
          BY <2>0
        <5>2. (i - Len(buffered)) \in 1..len /\ Len(buffered) + (i - Len(buffered)) = i
          BY <3>2, <3>4, <4>2, <5>1 DEF len
        <5>3. buffered'[i] = heard + (i - Len(buffered))
          BY <3>4, <5>2
        <5> QED
          BY SMTT(30), <2>0, <3>5, <5>2, <5>3 DEF Newest
      <4> QED
        BY <4>1, <4>2
    <3>7. Newest(last)
      BY <2>0, <3>1, <3>5 DEF Newest
    <3>8. Newest(heard)' /\ \A i \in 1..Len(buffered') : Newest(buffered[i])'
      BY <3>1, <3>6, <3>7 DEF Newest
    <3> QED
      BY <3>1, <3>8, SameStream DEF OrderInv, Capturing
  <2>6. CASE ReceiveError \/ WebsocketFails \/ Return \/ TaskDies \/ TradeMade \/ UNCHANGED vars
    <3>1. /\ UNCHANGED <<stream, inTransit, heard, buffered, events, published>>
          /\ \/ pc' = pc
             \/ pc \in {"connect", "receive"} /\ pc' = "fallback"
             \/ pc = "receive" /\ pc' = "map"
             \/ pc = "publish" /\ pc' = "done"
             \/ pc \notin {"delay", "failed"} /\ pc' \in {"delay", "failed"}
      BY <2>6 DEF ReceiveError, Receive, WebsocketFails, Return, TaskDies, Fail, TradeMade, vars
    <3>2. /\ EarlierFirst' <=> EarlierFirst
          /\ \A j : (InStream(j)' <=> InStream(j)) /\ (Newest(j)' <=> Newest(j))
      BY <3>1, SameStream
    <3>3. /\ Newest(heard)' <=> Newest(heard)
          /\ \A i : /\ Newest(buffered[i])' <=> Newest(buffered[i])
                    /\ Newest(events[i])' <=> Newest(events[i])
                    /\ InStream(events[i])' <=> InStream(events[i])
      BY <3>1, <3>2 DEF Newest, InStream
    <3> QED
      BY <2>0, <3>1, <3>2, <3>3 DEF OrderInv, Capturing
  <2>7. CASE RetryDelay
    <3>1. /\ pc' = "connect" /\ UNCHANGED <<stream, inTransit>>
          /\ \A k \in Trades : inTransit[k] = 0
      BY <2>7 DEF RetryDelay
    <3> QED
      BY <3>1, SameStream DEF OrderInv, Capturing
  <2>8. CASE PutRaises
    <3> DEFINE e == events[published + 1]
    <3>1. /\ pc = "publish" /\ pc' \in {"delay", "failed"} /\ UNCHANGED stream
          /\ \E late \in 0..(SdkResends + 1) : inTransit' = [inTransit EXCEPT ![e] = @ + late]
      BY <2>8 DEF PutRaises, Fail
    <3>2. e \in Trades /\ (InStream(e) \/ Newest(e))
      BY <2>0, <2>8, NextPut DEF PutRaises, OrderInv
    <3> HIDE DEF e
    <3>3. \A j \in Trades : inTransit'[j] > 0 => InStream(j) \/ j = e
      BY <2>0, <3>1, <3>2 DEF OrderInv
    <3> QED
      BY <3>1, <3>2, <3>3, SameStream DEF OrderInv, Capturing
  <2>9. CASE PutReturns
    <3> DEFINE e == events[published + 1]
    <3>1. /\ pc = "publish" /\ UNCHANGED <<pc, events>> /\ stream' = Append(stream, e)
          /\ \E resent \in 0..SdkResends : inTransit' = [inTransit EXCEPT ![e] = @ + resent]
          /\ published' = published + 1
      BY <2>9 DEF PutReturns
    <3>2. e \in Trades /\ e \in Nat /\ (InStream(e) \/ Newest(e))
      <4>1. e \in Trades /\ published + 1 \in (published + 1)..Len(events)
        BY <2>0, <2>9, NextPut DEF PutReturns
      <4>2. InStream(e) \/ Newest(e)
        BY <3>1, <4>1 DEF OrderInv
      <4> HIDE DEF e
      <4> QED
        BY <2>0, <4>1, <4>2
    <3>3. \A i \in (published + 2)..Len(events) : e <= events[i]
      <4> SUFFICES ASSUME NEW i \in (published + 2)..Len(events) PROVE e <= events[i]
        OBVIOUS
      <4>1. i \in 1..Len(events) /\ published + 1 \in 1..Len(events) /\ events[1] \in Nat
        BY <2>0
      <4>2. events[i] = events[1] + (i - 1) /\ e = events[1] + published
        BY <2>0, <4>1 DEF CaptureInv, Interval
      <4> HIDE DEF e
      <4> QED
        BY <2>0, <4>1, <4>2
    <3> HIDE DEF e
    <3>4. /\ EarlierFirst'
          /\ \A j : InStream(j)' <=> InStream(j) \/ j = e
          /\ \A j \in Nat : Newest(j) /\ e <= j => Newest(j)'
      BY <2>0, <3>1, <3>2, LandingKeepsOrder DEF OrderInv
    <3>5. \A j \in Trades : inTransit'[j] > 0 => InStream(j)'
      BY <2>0, <3>1, <3>2, <3>4 DEF OrderInv
    <3>6. ASSUME NEW i \in (published' + 1)..Len(events') PROVE InStream(events[i])' \/ Newest(events[i])'
      <4>1. i \in (published + 2)..Len(events) /\ events'[i] = events[i] /\ events[i] \in Nat
            /\ i \in (published + 1)..Len(events)
        BY <2>0, <3>1
      <4>2. InStream(events[i]) \/ Newest(events[i])
        BY <3>1, <4>1 DEF OrderInv
      <4>3. e <= events[i]
        BY <3>3, <4>1
      <4> DEFINE x == events[i]
      <4>4. x \in Nat /\ (InStream(x) \/ Newest(x)) /\ e <= x
        BY <4>1, <4>2, <4>3
      <4> HIDE DEF x
      <4>5. (\E n \in 1..Len(stream') : stream'[n] = x) \/ (\A n \in 1..Len(stream') : stream'[n] <= x)
        BY <3>4, <4>4 DEF InStream, Newest
      <4>6. x = events'[i]
        BY <4>1 DEF x
      <4> QED
        BY <4>5, <4>6 DEF InStream, Newest
    <3> QED
      BY <3>1, <3>4, <3>5, <3>6 DEF OrderInv, Capturing
  <2>10. ASSUME NEW k \in Trades, LandLate(k) PROVE OrderInv'
    <3>1. /\ inTransit[k] > 0 /\ inTransit' = [inTransit EXCEPT ![k] = @ - 1]
          /\ stream' = Append(stream, k) \/ stream' = stream
          /\ UNCHANGED <<pc, heard, buffered, events, published>>
      BY <2>10 DEF LandLate
    <3>2. /\ pc \notin Capturing
          /\ \A j \in Trades : inTransit'[j] > 0 => inTransit[j] > 0
      BY <2>0, <3>1 DEF OrderInv
    <3>3. CASE stream' = stream
      <4>1. /\ EarlierFirst' <=> EarlierFirst
            /\ \A j : (InStream(j)' <=> InStream(j)) /\ (Newest(j)' <=> Newest(j))
        BY <3>3, SameStream
      <4>2. \A i : /\ Newest(events[i])' <=> Newest(events[i])
                  /\ InStream(events[i])' <=> InStream(events[i])
        BY <3>1, <3>3 DEF InStream, Newest
      <4> QED
        BY <3>1, <3>2, <4>1, <4>2 DEF OrderInv, Capturing
    <3>4. CASE stream' = Append(stream, k)
      <4>1. k \in Nat /\ (InStream(k) \/ Newest(k)) /\ (pc = "publish" => InStream(k))
        BY <2>0, <3>1 DEF OrderInv
      <4>2. /\ EarlierFirst'
            /\ \A j : InStream(j)' <=> InStream(j) \/ j = k
            /\ \A j \in Nat : Newest(j) /\ k <= j => Newest(j)'
        BY <2>0, <3>4, <4>1, LandingKeepsOrder DEF OrderInv
      <4>3. \A j \in Nat : InStream(k) /\ Newest(j) => Newest(j)'
        BY <4>2 DEF InStream, Newest
      <4>4. \A j \in Trades : inTransit'[j] > 0 => InStream(j)' \/ Newest(j)'
        BY <2>0, <3>1, <3>2, <4>2, <4>3 DEF OrderInv
      <4>5. ASSUME pc = "publish", NEW i \in (published' + 1)..Len(events')
            PROVE  InStream(events[i])' \/ Newest(events[i])'
        <5> DEFINE x == events[i]
        <5>1. x \in Nat /\ (InStream(x) \/ Newest(x)) /\ x = events'[i]
          BY <2>0, <3>1, <4>5 DEF OrderInv
        <5> HIDE DEF x
        <5>2. (\E n \in 1..Len(stream') : stream'[n] = x) \/ (\A n \in 1..Len(stream') : stream'[n] <= x)
          BY <4>1, <4>2, <4>3, <4>5, <5>1 DEF InStream, Newest
        <5> QED
          BY <5>1, <5>2 DEF InStream, Newest
      <4> QED
        BY <3>1, <3>2, <4>1, <4>2, <4>4, <4>5 DEF OrderInv, Capturing
    <3> QED
      BY <3>1, <3>3, <3>4
  <2> QED
    BY <2>1, <2>2, <2>3, <2>4, <2>5, <2>6, <2>7, <2>8, <2>9, <2>10 DEF Next, Progress, Failures, Over
<1> QED
  BY <1>1, <1>2, TypeInvCorrect, CaptureInvCorrect, PTL DEF Spec

(* A set of naturals that is not empty has a least element.                *)
Less == {ss \in Nat \X Nat : ss[1] < ss[2]}

(* A set of naturals has a least member.                                   *)
LEMMA LeastOf ==
  ASSUME NEW S \in SUBSET Nat, S # {}
  PROVE  \E x \in S : \A y \in S : x <= y
<1>1. IsWellFoundedOn(Less, Nat)
  BY NatLessThanWellFounded DEF OpToRel, Less
<1>2. S \subseteq Nat
  OBVIOUS
<1>3. \E x \in S : \A y \in S : ~(<<y, x>> \in Less)
  BY <1>1, <1>2, WFMin, Zenon
<1>4. ASSUME NEW x \in Nat, NEW y \in Nat, ~(<<y, x>> \in Less)
      PROVE  x <= y
  BY <1>4 DEF Less
<1> QED
  BY <1>2, <1>3, <1>4

(* Of the places where a trade is in the stream there is a first.          *)
LEMMA FirstPlace ==
  ASSUME TypeInv, NEW k, InStream(k)
  PROVE  /\ FirstCopy(k) \in 1..Len(stream) /\ stream[FirstCopy(k)] = k
         /\ \A m \in 1..(FirstCopy(k) - 1) : stream[m] # k
<1> DEFINE places == {n \in 1..Len(stream) : stream[n] = k}
<1>1. Len(stream) \in Nat /\ DOMAIN stream = 1..Len(stream)
  BY DEF TypeInv, TypeOK
<1>2. places \in SUBSET Nat /\ places # {}
  BY <1>1 DEF InStream
<1> HIDE DEF places
<1>3. PICK n \in places : \A m \in places : n <= m
  BY <1>2, LeastOf
<1>4. n \in DOMAIN stream /\ stream[n] = k
  BY <1>1 DEF places
<1>5. ASSUME NEW m \in 1..(n - 1) PROVE stream[m] # k
  <2>1. m \in 1..Len(stream) /\ ~(n <= m)
    BY <1>1, <1>4
  <2> QED
    BY <1>3, <2>1 DEF places
<1> QED
  BY <1>1, <1>4, <1>5 DEF FirstCopy

(* The tries of a task together put the trades in the order of the market: *)
(* a trade is first in the stream after every earlier trade that is there, *)
(* whatever was lost, repeated, given up or landed late.                   *)
THEOREM MarketOrderCorrect == Spec => []StreamInMarketOrder
<1>1. TypeInv /\ OrderInv => StreamInMarketOrder
  <2> SUFFICES ASSUME TypeInv, OrderInv, NEW j \in ToSet(stream), NEW k \in ToSet(stream), j < k
               PROVE  FirstCopy(j) < FirstCopy(k)
    BY DEF StreamInMarketOrder
  <2> DEFINE m == FirstCopy(j)
             n == FirstCopy(k)
  <2>1. InStream(j) /\ InStream(k) /\ Len(stream) \in Nat
    BY DEF ToSet, InStream, TypeInv, TypeOK
  <2>2. /\ m \in 1..Len(stream) /\ stream[m] = j /\ \A i \in 1..(m - 1) : stream[i] # j
        /\ n \in 1..Len(stream) /\ stream[n] = k
    BY <2>1, FirstPlace
  <2> HIDE DEF m, n
  <2>3. PICK l \in 1..(n - 1) : stream[l] = j
    BY <2>2 DEF OrderInv, EarlierFirst
  <2>4. ~(l < m)
    BY <2>1, <2>2, <2>3
  <2>5. m < n
    BY <2>1, <2>2, <2>3, <2>4
  <2> QED
    BY <2>5 DEF m, n
<1> QED
  BY <1>1, TypeInvCorrect, OrderInvCorrect, PTL

=============================================================================
