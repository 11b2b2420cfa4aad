----------------------------- MODULE TradeBook -----------------------------
(***************************************************************************)
(* What the streaming lakehouse promises the readers of fct_stream_trades, *)
(* however its runs fail, repeat or overlap: the trade shown for an event  *)
(* id is one that landed and was acceptable, it is never replaced by an    *)
(* older version, and it never disappears.                                 *)
(***************************************************************************)
EXTENDS Naturals

CONSTANTS
  Ids,
  Accepted      \* the versions of events whose row passes the checks

VARIABLES
  landed,       \* the versions in the bronze files
  book          \* per id, the processing time of the version shown, or 0

trades == <<landed, book>>

Init == landed \in SUBSET Accepted /\ book = [id \in Ids |-> 0]

Land == \E more \in SUBSET Accepted : landed' = landed \cup more /\ UNCHANGED book

(* New versions of some ids are shown.                                     *)
Advance ==
  /\ UNCHANGED landed
  /\ DOMAIN book' = Ids
  /\ \A id \in Ids :
       \/ book'[id] = book[id]
       \/ book'[id] > book[id] /\ \E v \in landed : v.id = id /\ v.ptime = book'[id]

Next == Land \/ Advance

Spec == Init /\ [][Next]_trades

=============================================================================
