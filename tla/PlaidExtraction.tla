-------------------------- MODULE PlaidExtraction --------------------------
(***************************************************************************)
(* One extraction from Plaid (src/sources/plaid_batch: client.py,          *)
(* service.py, mapper.py and the sandbox path of cli.py) and the balances  *)
(* derived from it, while the bank keeps posting.  Plaid is external: an   *)
(* item has accounts with balances and a log of transactions; a pending    *)
(* transaction that settles is replaced by a posted one of another id.     *)
(***************************************************************************)
EXTENDS Integers, Sequences, FiniteSets, DailyBalances

CONSTANTS
  Profiles,     \* how many customers the extraction goes through
  Accounts,     \* the accounts an item may have
  AccountType,  \* per account, the type Plaid gives it
  Kinds,        \* the transactions the bank may post, as PlaidMapping has them
  Today,        \* the last of the days 1..Today
  PageSize,     \* transactions in one answer of /transactions/sync
  MaxUpdates    \* how often the bank changes what is being read

Mapping == INSTANCE PlaidMapping

ASSUME ExtractionAssumption ==
  /\ Profiles \in Nat \ {0} /\ PageSize \in Nat \ {0} /\ MaxUpdates \in Nat /\ Today \in Nat
  /\ Kinds \subseteq Mapping!Records(Int)
  /\ AccountType \in [Accounts -> Mapping!PlaidAccountTypes]

VARIABLES
  step,       \* what the extraction does next
  items,      \* the items created so far, in the order of the profiles
  updates,    \* how often the bank has changed an item
  drawn,      \* what was read of each item
  cursor,     \* the cursor of the next page
  bundle,     \* the combined bundle that was written
  balances    \* the daily balances staged with it

vars == <<step, items, updates, drawn, cursor, bundle, balances>>

Requests == {"item", "accounts", "sync"}

Init ==
  /\ step = "item" /\ items = <<>> /\ updates = 0 /\ drawn = <<>> /\ cursor = 0
  /\ bundle = [accounts |-> {}, transactions |-> <<>>] /\ balances = {}

Current == Len(items)
Item == items[Current]

-----------------------------------------------------------------------------
(* The bank and Plaid.                                                     *)
Entry(a, day, kind, settles) ==
  [account |-> a, day |-> day, record |-> kind, settles |-> settles]

Replaced(log, i) == \E j \in DOMAIN log : log[j].settles = i

Updatable ==
  /\ step \in {"accounts", "sync"} /\ updates < MaxUpdates /\ updates' = updates + 1
  /\ UNCHANGED <<step, drawn, cursor, bundle, balances>>

(* Plaid's amounts are positive when money leaves the account.  Its        *)
(* `current` balance is then lower, but that of a credit or a loan account *)
(* is what is owed on it, and higher.                                      *)
Owed(a) == AccountType[a] \in {"credit", "loan"}

Change(entry) == IF Owed(entry.account) THEN entry.record.amount ELSE -entry.record.amount

(* A pending transaction is not in the current balance.                    *)
Booked(entry) == IF entry.record.pending THEN 0 ELSE Change(entry)

AddToLog(entry) ==
  items' = [items EXCEPT ![Current].log = Append(@, entry),
                         ![Current].balance[entry.account] = @ + Booked(entry)]

BankPosts ==
  /\ Updatable
  /\ \E a \in Item.linked : \E day \in 1..Today : \E kind \in Kinds :
       AddToLog(Entry(a, day, kind, 0))

BankSettles ==
  /\ Updatable
  /\ \E i \in DOMAIN Item.log :
       LET held == Item.log[i] IN
         /\ held.record.pending /\ ~Replaced(Item.log, i)
         /\ AddToLog(Entry(held.account, held.day, [held.record EXCEPT !.pending = FALSE], i))

BankLinks ==
  /\ Updatable
  /\ \E a \in Accounts \ Item.linked :
       items' = [items EXCEPT ![Current].linked = @ \cup {a}]

(* The answer to /transactions/sync: what was added from the cursor on and *)
(* not removed since, by its places in the log, and where the next page    *)
(* starts.                                                                 *)
NextCursor(log, from) == IF from + PageSize < Len(log) THEN from + PageSize ELSE Len(log)

Added(log, from) == {i \in from + 1..NextCursor(log, from) : ~Replaced(log, i)}

-----------------------------------------------------------------------------
(* The extraction.                                                         *)

(* A public token, its exchange and the request to create transactions,    *)
(* which arrive when they do: a new item for every profile and every try.  *)
CreateItem ==
  /\ step = "item" /\ step' = "accounts" /\ cursor' = 0
  /\ \E linked \in SUBSET Accounts \ {{}} :
       items' = Append(items, [linked |-> linked, log |-> <<>>,
                               balance |-> [a \in Accounts |-> 0]])
  /\ UNCHANGED <<updates, drawn, bundle, balances>>

(* get_institution and get_accounts; `seen` and the log's places stand for *)
(* the moment and the transaction ids.                                     *)
ReadAccounts ==
  /\ step = "accounts" /\ step' = "sync"
  /\ drawn' = Append(drawn, [accounts |-> Item.linked, balance |-> Item.balance,
                             seen |-> Len(Item.log), pages |-> <<>>])
  /\ UNCHANGED <<items, updates, cursor, bundle, balances>>

(* Mutant of Advance: has_more is not asked for.                           *)
FirstPageOnly(from) == cursor' = from /\ step' = "map"

Advance(from) ==
  cursor' = from /\ step' = IF from = Len(Item.log) THEN "map" ELSE "sync"

(* fetch_full_transactions_sync keeps every answer, but only what it adds  *)
(* is used, what it removes or modifies is not.                            *)
ReadPage ==
  /\ step = "sync" /\ Advance(NextCursor(Item.log, cursor))
  /\ drawn' = [drawn EXCEPT ![Current].pages = Append(@, Added(Item.log, cursor))]
  /\ UNCHANGED <<items, updates, bundle, balances>>

RecordOf(p, i) == items[p].log[i].record

MoreProfiles == Current < Profiles

MapperRefuses ==
  \E n \in DOMAIN drawn[Current].pages :
    \E i \in drawn[Current].pages[n] : Mapping!Raises(RecordOf(Current, i))

(* Mutant of Normalize: the mapping is tried again for as long as it fails.*)
NormalizeAgain ==
  /\ step = "map"
  /\ step' = IF MapperRefuses THEN "map" ELSE IF MoreProfiles THEN "item" ELSE "write"
  /\ UNCHANGED <<items, updates, drawn, cursor, bundle, balances>>

(* map_plaid_bundle: one record the mapper refuses ends the extraction.    *)
Normalize ==
  /\ step = "map"
  /\ step' = IF MapperRefuses THEN "failed" ELSE IF MoreProfiles THEN "item" ELSE "write"
  /\ UNCHANGED <<items, updates, drawn, cursor, bundle, balances>>

(* The balance is taken as it is, whatever it means for the type.          *)
MappedAccount(p, a) ==
  [id |-> <<p, a>>, type |-> Mapping!MapAccountType(AccountType[a]),
   current |-> drawn[p].balance[a]]

Mapped(p, i) ==
  LET entry == items[p].log[i] IN
    [id |-> <<p, i>>, account |-> <<p, entry.account>>, day |-> entry.day,
     type |-> Mapping!TransactionType(entry.record),
     amount |-> Mapping!MappedAmount(entry.record)]

(* combine_normalized_bundles: a transaction for every place of every      *)
(* answer to every item; no property asks for their order.                 *)
AccountsOf ==
  UNION {{MappedAccount(p, a) : a \in drawn[p].accounts} : p \in 1..Profiles}
Rows(p) ==
  UNION {{<<p, n, i>> : i \in drawn[p].pages[n]} : n \in DOMAIN drawn[p].pages}
TransactionsOf == [row \in UNION {Rows(p) : p \in 1..Profiles} |-> Mapped(row[1], row[3])]

WriteBundle ==
  /\ step = "write" /\ step' = "stage"
  /\ bundle' = [accounts |-> AccountsOf, transactions |-> TransactionsOf]
  /\ UNCHANGED <<items, updates, drawn, cursor, balances>>

StageBalances ==
  /\ step = "stage" /\ step' = "done"
  /\ balances' = Derive(bundle.accounts, bundle.transactions, Today)
  /\ UNCHANGED <<items, updates, drawn, cursor, bundle>>

(* _post: a timeout, a connection error or an answer that is not a success *)
(* leaves the command, with nothing written.                               *)
Refused ==
  /\ step \in Requests /\ step' = "failed"
  /\ UNCHANGED <<items, updates, drawn, cursor, bundle, balances>>

Extract ==
  CreateItem \/ ReadAccounts \/ ReadPage \/ Normalize \/ WriteBundle \/ StageBalances

Next == Extract \/ Refused \/ BankPosts \/ BankSettles \/ BankLinks

Spec == Init /\ [][Next]_vars

(* A request that is not refused, at the latest by its timeout, is         *)
(* answered.                                                               *)
FairSpec == Spec /\ WF_vars(Extract)

-----------------------------------------------------------------------------
Entries ==
  [account : Accounts, day : 1..Today, record : Mapping!Records(Int), settles : Nat]

TypeOK ==
  /\ step \in Requests \cup {"map", "write", "stage", "done", "failed"}
  /\ updates \in 0..MaxUpdates /\ cursor \in Nat
  /\ items \in Seq([linked : SUBSET Accounts, log : Seq(Entries), balance : [Accounts -> Int]])
  /\ drawn \in Seq([accounts : SUBSET Accounts, balance : [Accounts -> Int],
                    seen : Nat, pages : Seq(SUBSET Nat)])

Ids == {bundle.transactions[k].id : k \in DOMAIN bundle.transactions}

Written == step \in {"stage", "done"}

(* The bundle misses nothing: what was in an item's log when its accounts  *)
(* were read is in the bundle, unless it settled before its page was read, *)
(* and then what it settled as is.                                         *)
NothingMissed ==
  Written => \A p \in 1..Profiles : \A i \in 1..drawn[p].seen :
    \/ <<p, i>> \in Ids
    \/ \E j \in DOMAIN items[p].log : items[p].log[j].settles = i /\ <<p, j>> \in Ids

(* Nothing is in the bundle twice, except that a transaction which settles *)
(* between two pages is there as pending and as posted: the removal in the *)
(* later page is not read.                                                 *)
NothingTwice ==
  Written =>
    /\ \A k, l \in DOMAIN bundle.transactions :
         bundle.transactions[k].id = bundle.transactions[l].id => k = l
    /\ \A p \in 1..Profiles : \A j \in DOMAIN items[p].log :
         {<<p, j>>, <<p, items[p].log[j].settles>>} \subseteq Ids => j > drawn[p].seen

(* Every transaction has its account in the bundle unless the account was  *)
(* linked after the accounts were read; then it is of no daily balance.    *)
TransactionsHaveAccounts ==
  Written => \A k \in DOMAIN bundle.transactions :
    LET t == bundle.transactions[k] IN
      \/ \E account \in bundle.accounts : account.id = t.account
      \/ t.id[2] > drawn[t.id[1]].seen /\ t.account[2] \notin drawn[t.id[1]].accounts

(* The bundle is the bank's log at the time it was read, to the entry,     *)
(* whatever is posted, settled and linked between the requests.            *)
BundleIsExact == NothingMissed /\ NothingTwice /\ TransactionsHaveAccounts

BookedIn(log, places) == MapThenSumSet(LAMBDA i : Booked(log[i]), places)

Own(p, a) == {i \in DOMAIN items[p].log : items[p].log[i].account = a}

(* What an account had at the start of a day, by the bank's books.         *)
HeldBefore(p, a, day) ==
  items[p].balance[a]
    - BookedIn(items[p].log, {i \in Own(p, a) : items[p].log[i].day >= day})

(* The type a transaction is mapped to takes the balance the way it went.  *)
SignKept(entry) == Mapping!TransactionType(entry.record) = "CREDIT" <=> Change(entry) > 0

(* What the derivation takes a transaction for.                            *)
Counted(p, i) == IF <<p, i>> \in Ids THEN SignedAmount(Mapped(p, i)) ELSE 0

(* How far a transaction puts the opening of a day off: one that came      *)
(* after the balance was read is not in it, one that is pending counts all *)
(* the same, and one whose sign is misjudged counts twice: a wire coming   *)
(* in, a refund keyword on money going out, and anything plain on an       *)
(* account that is owed.                                                   *)
Shift(p, i, day) ==
  LET entry == items[p].log[i]
      after == entry.day >= day
  IN CASE i > drawn[p].seen /\ ~after -> -Booked(entry)
       [] i > drawn[p].seen /\ after -> -Counted(p, i)
       [] i <= drawn[p].seen /\ ~after -> 0
       [] i <= drawn[p].seen /\ after ->
            IF entry.record.pending THEN -Counted(p, i)
            ELSE IF SignKept(entry) THEN 0 ELSE 2 * Booked(entry)

(* The opening balance of a day is what the bank's books say but for what  *)
(* these transactions put it off, of every account, whatever is posted and *)
(* settled between the requests: nothing is lost or counted in any other   *)
(* way.                                                                    *)
BalancesExplained ==
  \A row \in balances :
    LET p == row.account[1]
        a == row.account[2]
    IN row.opening = HeldBefore(p, a, row.day)
                       + MapThenSumSet(LAMBDA i : Shift(p, i, row.day), Own(p, a))

(* However the bank's postings fall between the pages, the extraction ends *)
(* once they pause, with a bundle or without.                              *)
ExtractionEnds == <>(step \in {"done", "failed"})

=============================================================================
