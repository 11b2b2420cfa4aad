--------------------------- MODULE DeliveryLedger ---------------------------
(***************************************************************************)
(* What a sender to the event stream promises, whatever the network does:  *)
(* each event of its input gets at most one verdict, and an event reported *)
(* as acknowledged is in the stream.  An event reported as failed may be   *)
(* in the stream or arrive there later: delivery is at least once for the  *)
(* acknowledged events and at most a guess for the others.                 *)
(***************************************************************************)
EXTENDS Naturals

CONSTANT Lines          \* the events of the sender's input

VARIABLES delivered,    \* the events the stream holds at least once
          verdict       \* what the sender has concluded about each event

ledger == <<delivered, verdict>>

Verdicts == {"none", "acked", "failed"}

Init == delivered = {} /\ verdict = [i \in Lines |-> "none"]

Deliver(i) == delivered' = delivered \cup {i} /\ UNCHANGED verdict

(* The acknowledgement of an event may be what puts it in the stream.      *)
Acknowledge(i) ==
  /\ verdict[i] = "none"
  /\ verdict' = [verdict EXCEPT ![i] = "acked"]
  /\ delivered' = delivered \cup {i}

GiveUp(i) ==
  /\ verdict[i] = "none"
  /\ verdict' = [verdict EXCEPT ![i] = "failed"]
  /\ UNCHANGED delivered

Next == \E i \in Lines : Deliver(i) \/ Acknowledge(i) \/ GiveUp(i)

Spec == Init /\ [][Next]_ledger

=============================================================================
