--------------------------- MODULE DailyBalances ---------------------------
(***************************************************************************)
(* derive_daily_account_balances (src/batch_preparation/                   *)
(* plaid_bronze_stage.py): the balances of the days on which an account    *)
(* moved, reckoned back from its current balance.                          *)
(***************************************************************************)
EXTENDS Integers, Sequences, FiniteSetsExt

(* Mutant of SignedAmount: credits are taken off as everything else.       *)
SignedBackwards(t) == -t.amount

(* The type alone gives the sign: a wire is taken off whichever way it     *)
(* went, and a pending transaction counts.                                 *)
SignedAmount(t) == IF t.type \in {"CREDIT", "REFUND"} THEN t.amount ELSE -t.amount

SignedTotal(transactions, places) ==
  MapThenSumSet(LAMBDA i : SignedAmount(transactions[i]), places)

(* An account without transactions gets one row, on the day it was opened  *)
(* as the mapper sees it: the day of the extraction.                       *)
BalancesOf(account, transactions, today) ==
  LET own == {i \in DOMAIN transactions : transactions[i].account = account.id}
      before == account.current - SignedTotal(transactions, own)
      Until(days) ==
        before + SignedTotal(transactions, {i \in own : transactions[i].day \in days})
  IN IF own = {}
     THEN {[account |-> account.id, day |-> today,
            opening |-> account.current, closing |-> account.current]}
     ELSE {[account |-> account.id, day |-> day,
            opening |-> Until(0..day - 1), closing |-> Until(0..day)] :
           day \in {transactions[i].day : i \in own}}

(* Transactions of accounts that are not in the bundle are passed over.    *)
Derive(accounts, transactions, today) ==
  UNION {BalancesOf(account, transactions, today) : account \in accounts}

=============================================================================
