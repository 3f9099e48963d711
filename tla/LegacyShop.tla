---------------------------- MODULE LegacyShop ----------------------------
(***************************************************************************)
(* The first shop of the server (economy/shop.go) and its administration.  *)
(*                                                                         *)
(* A purchase is three separate accesses to the database: it reads the     *)
(* item, reads what the user owns of it, and debits the user; then a       *)
(* fourth one, outside any transaction, adds the item to the inventory.    *)
(* The debit is SpendCoins, which Economy shows to be the atomic step of   *)
(* Wallet, so it is that step here.  Between the accesses run other        *)
(* purchases and the administrator's changes of the catalog.               *)
(***************************************************************************)
EXTENDS Integers, Sequences, FiniteSets

CONSTANTS
  Users, Items, Sessions,
  Prices,      \* prices an administrator sets: the table takes any integer
  MaxPerUser,  \* shop_items.max_per_user, which no endpoint writes
  Unlimited,   \* a NULL limit
  ReadsMayFail, \* whether the database may fail a single SELECT
  CoinMax,     \* largest value of an INTEGER column
  None

ASSUME ShopAssumption ==
  /\ IsFiniteSet(Sessions)
  /\ Prices \subseteq Int
  /\ ReadsMayFail \in BOOLEAN
  /\ CoinMax \in Nat
  /\ Unlimited \notin Int
  /\ MaxPerUser \in [Items -> Int \union {Unlimited}]
  /\ None \notin Users \union Items

VARIABLES
  coins, earned, ledger, processed,  \* the wallet
  price,      \* shop_items.price, or None before the item is created
  available,  \* shop_items.is_available
  inventory,  \* inventory.quantity (0: no row)
  pc,         \* next access to the database of the session
  buyer, item, quoted  \* its request, and the price it read

catalog == <<price, available>>
wallet  == <<coins, earned, ledger, processed>>
session == <<pc, buyer, item, quoted>>
vars    == <<wallet, catalog, inventory, session>>

W == INSTANCE Wallet WITH
       Requests <- {}, Products <- {}, CoinsOf <- <<>>, Price <- <<>>,
       Reasons <- Items, Adjustments <- {p \in Prices : p > 0},
       Quantities <- {}, MaxQty <- 0

Init ==
  /\ W!WalletInit
  /\ price = [i \in Items |-> None]
  /\ available = [i \in Items |-> FALSE]
  /\ inventory = [u \in Users |-> [i \in Items |-> 0]]
  /\ pc = [s \in Sessions |-> "idle"]
  /\ buyer = [s \in Sessions |-> None]
  /\ item = [s \in Sessions |-> None]
  /\ quoted = [s \in Sessions |-> 0]

-----------------------------------------------------------------------------

(* The administrator.                                                      *)
CreateItem(i, p) ==
  /\ price[i] = None
  /\ price' = [price EXCEPT ![i] = p]
  /\ available' = [available EXCEPT ![i] = TRUE]
  /\ UNCHANGED <<wallet, inventory, session>>

SetPrice(i, p) ==
  /\ price[i] # None
  /\ price' = [price EXCEPT ![i] = p]
  /\ UNCHANGED <<wallet, available, inventory, session>>

SetAvailable(i, a) ==
  /\ price[i] # None
  /\ available' = [available EXCEPT ![i] = a]
  /\ UNCHANGED <<wallet, price, inventory, session>>

(* UpdateItem sets either column, with a statement each; DeleteItem only   *)
(* takes the item off the catalog.                                         *)
UpdateItem(i) == \/ \E p \in Prices : SetPrice(i, p)
                 \/ \E a \in BOOLEAN : SetAvailable(i, a)
DeleteItem(i) == SetAvailable(i, FALSE)

(* Coins come from outside the shop: reports and admin credits.            *)
Earn(u) ==
  /\ \E n \in {p \in Prices : p > 0}, i \in Items :
       W!Apply([kind |-> "earn", user |-> u, what |-> i, qty |-> n])
  /\ UNCHANGED <<catalog, inventory, session>>

-----------------------------------------------------------------------------

GoTo(s, label) == pc' = [pc EXCEPT ![s] = label]
Stop(s) ==
  /\ GoTo(s, "idle")
  /\ buyer' = [buyer EXCEPT ![s] = None]
  /\ item' = [item EXCEPT ![s] = None]
  /\ quoted' = [quoted EXCEPT ![s] = 0]

(* The item is there and on sale: keep its price.                          *)
ReadItem(s, u, i) ==
  /\ pc[s] = "idle"
  /\ price[i] # None /\ available[i]
  /\ buyer' = [buyer EXCEPT ![s] = u]
  /\ item' = [item EXCEPT ![s] = i]
  /\ quoted' = [quoted EXCEPT ![s] = price[i]]
  /\ GoTo(s, IF MaxPerUser[i] = Unlimited THEN "spend" ELSE "limit")
  /\ UNCHANGED <<wallet, catalog, inventory>>

(* The quantity read: the error of the query is discarded, and a failed    *)
(* one leaves the variable at 0.                                           *)
OwnedRead(s) == {inventory[buyer[s]][item[s]]} \union IF ReadsMayFail THEN {0} ELSE {}

(* Fault: the limit lets one more through.                                 *)
LimitOffByOne(s) ==
  /\ pc[s] = "limit"
  /\ \E owned \in OwnedRead(s) :
       \/ owned > MaxPerUser[item[s]] /\ Stop(s)
       \/ /\ owned <= MaxPerUser[item[s]]
          /\ GoTo(s, "spend")
          /\ UNCHANGED <<buyer, item, quoted>>
  /\ UNCHANGED <<wallet, catalog, inventory>>

(* Check max_per_user, in a statement of its own.                          *)
CheckLimit(s) ==
  /\ pc[s] = "limit"
  /\ \E owned \in OwnedRead(s) :
       \/ owned >= MaxPerUser[item[s]] /\ Stop(s)
       \/ /\ owned < MaxPerUser[item[s]]
          /\ GoTo(s, "spend")
          /\ UNCHANGED <<buyer, item, quoted>>
  /\ UNCHANGED <<wallet, catalog, inventory>>

Debit(s) == [kind |-> "spend", user |-> buyer[s], what |-> item[s], qty |-> quoted[s]]

(* Faults: a failed debit still delivers; the balance is not compared.     *)
SpendIgnoringError(s) ==
  /\ pc[s] = "spend"
  /\ GoTo(s, "deliver")
  /\ \/ quoted[s] > 0 /\ W!Apply(Debit(s))
     \/ coins[buyer[s]] < quoted[s] /\ UNCHANGED wallet
  /\ UNCHANGED <<catalog, inventory, buyer, item, quoted>>
SpendOnCredit(s) ==
  /\ pc[s] = "spend"
  /\ quoted[s] > 0
  /\ W!Post(Debit(s))
  /\ GoTo(s, "deliver")
  /\ UNCHANGED <<catalog, inventory, buyer, item, quoted>>

(* SpendCoins debits the price that was read; it refuses a price of 0.     *)
Spend(s) ==
  /\ pc[s] = "spend"
  /\ quoted[s] > 0
  /\ W!Apply(Debit(s))
  /\ GoTo(s, "deliver")
  /\ UNCHANGED <<catalog, inventory, buyer, item, quoted>>

(* Add to inventory: an upsert, relative to the row.                       *)
Deliver(s) ==
  /\ pc[s] = "deliver"
  /\ inventory' = [inventory EXCEPT ![buyer[s]][item[s]] = @ + 1]
  /\ Stop(s)
  /\ UNCHANGED <<wallet, catalog>>

(* Any access may fail (a refused debit is one case), the five seconds of  *)
(* the handler's context may run out, the server may die.                  *)
Abort(s) ==
  /\ pc[s] # "idle"
  /\ Stop(s)
  /\ UNCHANGED <<wallet, catalog, inventory>>

Purchase(s) ==
  \/ \E u \in Users, i \in Items : ReadItem(s, u, i)
  \/ CheckLimit(s) \/ Spend(s) \/ Deliver(s) \/ Abort(s)

Admin(i) == (\E p \in Prices : CreateItem(i, p)) \/ UpdateItem(i) \/ DeleteItem(i)

Next == \/ \E s \in Sessions : Purchase(s)
        \/ \E i \in Items : Admin(i)
        \/ \E u \in Users : Earn(u)

Spec == Init /\ [][Next]_vars

-----------------------------------------------------------------------------

(* Type invariant: no purchase overdraws a balance or overflows a column.  *)
TypeOK ==
  /\ coins \in [Users -> 0..CoinMax]
  /\ earned \in [Users -> 0..CoinMax]
  /\ price \in [Items -> Prices \union {None}]
  /\ available \in [Items -> BOOLEAN]
  /\ inventory \in [Users -> [Items -> Nat]]
  /\ pc \in [Sessions -> {"idle", "limit", "spend", "deliver"}]
  /\ buyer \in [Sessions -> Users \union {None}]
  /\ item \in [Sessions -> Items \union {None}]
  /\ quoted \in [Sessions -> Prices \union {0}]

(* The debits for item i in a user's ledger.                               *)
Paid(u, i) == Cardinality({n \in DOMAIN ledger[u] :
                ledger[u][n].op.kind = "spend" /\ ledger[u][n].op.what = i})

(* Sessions at a statement of a purchase of i by u.                        *)
At(labels, u, i) == {s \in Sessions : pc[s] \in labels /\ buyer[s] = u /\ item[s] = i}

(* Nothing is delivered without having been paid, once per unit, whatever  *)
(* the administrator changes while purchases are under way.                *)
EveryItemPaid ==
  \A u \in Users, i \in Items :
    inventory[u][i] + Cardinality(At({"deliver"}, u, i)) <= Paid(u, i)

(* Simultaneous purchases do overshoot max_per_user, but by no more than   *)
(* one unit per other request in flight: the check never lets a user past  *)
(* the limit by repeating it.  That takes a database that answers the      *)
(* check: a quantity that cannot be read counts as none (ReadsMayFail).    *)
OvershootBounded ==
  \A u \in Users, i \in Items :
    MaxPerUser[i] # Unlimited /\ inventory[u][i] > 0 =>
      inventory[u][i] <= MaxPerUser[i] + Cardinality(Sessions) - 1

(* What shop.go says of its check: nobody owns more than max_per_user.     *)
LimitRespected ==
  \A u \in Users, i \in Items :
    MaxPerUser[i] # Unlimited => inventory[u][i] <= MaxPerUser[i]

(* What the design documents ask of a purchase: it is all or nothing, so a *)
(* user with no purchase under way owns everything that was paid.          *)
PaidIsOwned ==
  \A u \in Users, i \in Items :
    At({"deliver"}, u, i) = {} => inventory[u][i] = Paid(u, i)
===========================================================================
