---------------------------- MODULE EconomyOps ----------------------------
(***************************************************************************)
(* Vocabulary of the coin economy of the Go server: the operations that    *)
(* move coins, what each of them costs or pays, and the rows they append   *)
(* to the ledger (table transactions).  Wallet gives them their atomic     *)
(* meaning, Economy the statements and row locks that implement it.        *)
(***************************************************************************)
EXTENDS Integers, Sequences

CONSTANTS
  Users,        \* rows of table users
  Requests,     \* Anthropic requestIds reported by the extensions
  Products,     \* rows of furniture_products that are available
  CoinsOf,      \* CoinsOf[r]: coins the usage reported under r is worth
  Price,        \* Price[p]: price_coins, never updated by the server
  Reasons,      \* reasons of plain credits and debits: admin, an item's id
  Adjustments,  \* sizes of plain credits and debits
  Quantities,   \* quantities a client asks for (after qty <= 0 became 1)
  MaxQty,       \* maxPurchaseQty
  CoinMax       \* largest value of an INTEGER column

(* TokensToCoins gives 0 for a small report and the handler then answers   *)
(* 204 without touching the database, so only positive reports are listed. *)
ASSUME OpsAssumption ==
  /\ CoinsOf \in [Requests -> Nat \ {0}]
  /\ Price \in [Products -> Nat]
  /\ Adjustments \subseteq Nat \ {0}
  /\ Quantities \subseteq Nat \ {0}
  /\ MaxQty \in Nat
  /\ CoinMax \in Nat

-----------------------------------------------------------------------------

(* An operation as its handler receives it.  "what" is the requestId, the  *)
(* product or the reason; "qty" the units bought or the coins moved.       *)
ReportOps == [kind: {"report"}, user: Users, what: Requests, qty: {1}]
BuyOps    == [kind: {"buy"}, user: Users, what: Products,
              qty: {q \in Quantities : q <= MaxQty}]
PlainOps  == [kind: {"earn", "spend"}, user: Users, what: Reasons,
              qty: Adjustments]
Ops       == ReportOps \union BuyOps \union PlainOps

Debits(o) == o.kind \in {"spend", "buy"}

Amount(o) == CASE o.kind = "report" -> CoinsOf[o.what]
               [] o.kind = "buy"    -> Price[o.what] * o.qty
               [] OTHER             -> o.qty

(* The balance column after o is applied to a balance of b.                *)
After(o, b) == IF Debits(o) THEN b - Amount(o) ELSE b + Amount(o)

(* A row of the ledger: type and amount follow from the operation, which   *)
(* the code stores as reason and metadata; balance_after is a snapshot.    *)
Entry(o, b) == [op |-> o, balanceAfter |-> After(o, b)]
Entries     == [op: Ops, balanceAfter: Int]

(* Both integer columns of the user row accept the update.                 *)
Fits(o, b, e) == /\ After(o, b) <= CoinMax
                 /\ ~Debits(o) => e + Amount(o) <= CoinMax
===========================================================================
