-------------------------- MODULE LegacyShopProofs --------------------------
(***************************************************************************)
(* Proofs about LegacyShop, for any users, items, prices, limits and any   *)
(* finite number of simultaneous requests.  Both properties compare what a *)
(* user owns with what happened before, so both count the requests between *)
(* two statements as well: whoever owns a unit was at "deliver" before,    *)
(* and whoever is at "deliver" was at "spend".                             *)
(***************************************************************************)
EXTENDS LegacyShop, FiniteSetTheorems, SequenceTheorems, TLAPS

(* Rows of the ledger of this shop.                                        *)
Plain == [kind: {"earn", "spend"}, user: Users, what: Items, qty: Nat]
Rows  == [op: Plain, balanceAfter: Int]
LedgerOK == ledger \in [Users -> Seq(Rows)]

(* A session between two statements knows its user and item, and only one  *)
(* of a limited item asks for the quantity.                                *)
RequestKept ==
  \A s \in Sessions :
    /\ pc[s] # "idle" => buyer[s] \in Users /\ item[s] \in Items
    /\ pc[s] = "limit" => MaxPerUser[item[s]] # Unlimited

IInv == TypeOK /\ LedgerOK /\ RequestKept /\ EveryItemPaid

LEMMA InitIInv == Init => IInv
<1> SUFFICES ASSUME Init PROVE IInv
  OBVIOUS
<1>1. TypeOK
  BY ShopAssumption DEF Init, TypeOK, W!WalletInit
<1>2. LedgerOK /\ RequestKept
  BY DEF Init, LedgerOK, RequestKept, W!WalletInit
<1>3. ASSUME NEW u \in Users, NEW i \in Items
      PROVE  inventory[u][i] + Cardinality(At({"deliver"}, u, i)) <= Paid(u, i)
  <2>1. inventory[u][i] = 0 /\ At({"deliver"}, u, i) = {}
    BY DEF Init, At
  <2>2. {n \in DOMAIN ledger[u] :
           ledger[u][n].op.kind = "spend" /\ ledger[u][n].op.what = i} = {}
    BY DEF Init, W!WalletInit
  <2>3. Paid(u, i) = 0
    BY <2>2, FS_EmptySet DEF Paid
  <2>4. Cardinality(At({"deliver"}, u, i)) = 0
    BY <2>1, FS_EmptySet
  <2> QED
    BY <2>1, <2>3, <2>4
<1> QED
  BY <1>1, <1>2, <1>3 DEF IInv, EveryItemPaid

-----------------------------------------------------------------------------

(* Counting.  Only session s changes: its place is counted or not.         *)
Others(s) == \A t \in Sessions \ {s} :
               pc'[t] = pc[t] /\ buyer'[t] = buyer[t] /\ item'[t] = item[t]

LEMMA Count ==
  ASSUME NEW labels, NEW u, NEW i
  PROVE  IsFiniteSet(At(labels, u, i)) /\ Cardinality(At(labels, u, i)) \in Nat
BY FS_Subset, FS_CardinalityType, ShopAssumption DEF At

LEMMA CountChange ==
  ASSUME NEW s \in Sessions, Others(s), NEW labels, NEW u, NEW i
  PROVE  LET was  == At(labels, u, i)
             is   == At(labels, u, i)'
         IN  /\ Cardinality(was) \in Nat /\ Cardinality(is) \in Nat
             /\ (s \in was <=> s \in is) => is = was
             /\ s \notin was /\ s \in is => Cardinality(is) = Cardinality(was) + 1
             /\ s \in was /\ s \notin is => Cardinality(is) = Cardinality(was) - 1
<1> DEFINE was == At(labels, u, i)
           is  == At(labels, u, i)'
<1>1. was \ {s} = is \ {s} /\ was \subseteq Sessions /\ is \subseteq Sessions
  BY DEF Others, At
<1>2. IsFiniteSet(was) /\ IsFiniteSet(is)
  BY <1>1, FS_Subset, ShopAssumption
<1>3. Cardinality(was) \in Nat /\ Cardinality(is) \in Nat
  BY <1>2, FS_CardinalityType
<1>4. (s \in was <=> s \in is) => is = was
  BY <1>1
<1>5. s \notin was /\ s \in is => is = was \cup {s}
  BY <1>1
<1>6. s \in was /\ s \notin is => is = was \ {s}
  BY <1>1
<1> HIDE DEF was, is
<1>7. Cardinality(was \cup {s}) = IF s \in was THEN Cardinality(was) ELSE Cardinality(was) + 1
  BY <1>2, FS_AddElement
<1>8. Cardinality(was \ {s}) = IF s \in was THEN Cardinality(was) - 1 ELSE Cardinality(was)
  BY <1>2, FS_RemoveElement
<1> QED
  BY <1>3, <1>4, <1>5, <1>6, <1>7, <1>8 DEF was, is

LEMMA PaidIsCount ==
  ASSUME LedgerOK, NEW u \in Users, NEW i
  PROVE  Paid(u, i) \in Nat
<1>1. DOMAIN ledger[u] = 1..Len(ledger[u]) /\ Len(ledger[u]) \in Nat
  BY LenProperties DEF LedgerOK
<1>2. IsFiniteSet(DOMAIN ledger[u])
  BY <1>1, FS_Interval
<1> QED
  BY <1>2, FS_Subset, FS_CardinalityType DEF Paid

(* A posted operation is one more row.                                     *)
LEMMA PaidGrows ==
  ASSUME LedgerOK, NEW u \in Users, NEW i, NEW row \in Rows,
         ledger'[u] = Append(ledger[u], row)
  PROVE  /\ Paid(u, i) \in Nat
         /\ Paid(u, i)' = IF row.op.kind = "spend" /\ row.op.what = i
                          THEN Paid(u, i) + 1 ELSE Paid(u, i)
<1> DEFINE seq == ledger[u]
           spent == {n \in DOMAIN seq : seq[n].op.kind = "spend" /\ seq[n].op.what = i}
           new == {n \in DOMAIN (ledger'[u]) :
                     ledger'[u][n].op.kind = "spend" /\ ledger'[u][n].op.what = i}
<1>1. seq \in Seq(Rows)
  BY DEF LedgerOK
<1>2. DOMAIN seq = 1..Len(seq) /\ Len(seq) \in Nat
  BY <1>1, LenProperties
<1>3. /\ Append(seq, row) \in Seq(Rows)
      /\ Len(Append(seq, row)) = Len(seq) + 1
      /\ \A n \in 1..Len(seq) : Append(seq, row)[n] = seq[n]
      /\ Append(seq, row)[Len(seq) + 1] = row
  BY <1>1, AppendProperties
<1>4. DOMAIN Append(seq, row) = 1..(Len(seq) + 1)
  BY <1>3, LenProperties
<1>5. IsFiniteSet(spent)
  <2>1. IsFiniteSet(1..Len(seq))
    BY <1>2, FS_Interval
  <2> QED
    BY <1>2, <2>1, FS_Subset
<1>6. new = IF row.op.kind = "spend" /\ row.op.what = i
            THEN spent \cup {Len(seq) + 1} ELSE spent
  BY <1>2, <1>3, <1>4
<1>7. Len(seq) + 1 \notin spent
  BY <1>2
<1> HIDE DEF spent, new
<1>8. Cardinality(spent) \in Nat
  BY <1>5, FS_CardinalityType
<1>9. Cardinality(spent \cup {Len(seq) + 1}) = Cardinality(spent) + 1
  BY <1>5, <1>7, FS_AddElement
<1>10. Paid(u, i) = Cardinality(spent) /\ Paid(u, i)' = Cardinality(new)
  BY DEF Paid, spent, new
<1> QED
  BY <1>6, <1>8, <1>9, <1>10

(* What the wallet does with an operation of this shop.                    *)
LEMMA PostFacts ==
  ASSUME TypeOK, LedgerOK, NEW o \in Plain, W!Apply(o)
  PROVE  /\ coins' \in [Users -> 0..CoinMax] /\ earned' \in [Users -> 0..CoinMax]
         /\ LedgerOK'
         /\ \E row \in Rows :
              /\ row.op = o
              /\ ledger' = [ledger EXCEPT ![o.user] = Append(@, row)]
<1> DEFINE u == o.user
<1>1. /\ o.kind \in {"earn", "spend"} /\ u \in Users /\ o.qty \in Nat
      /\ coins[u] \in 0..CoinMax /\ earned[u] \in 0..CoinMax
  BY DEF TypeOK, Plain
<1>2. W!Debits(o) <=> o.kind = "spend"
  BY <1>1 DEF W!Debits
<1>3. W!Amount(o) = o.qty
  BY <1>1 DEF W!Amount
<1>4. W!After(o, coins[u]) \in 0..CoinMax
  BY <1>1, <1>2, <1>3, ShopAssumption DEF W!Apply, W!Fits, W!After
<1>5. (IF W!Debits(o) THEN earned[u] ELSE earned[u] + W!Amount(o)) \in 0..CoinMax
  BY <1>1, <1>2, <1>3, ShopAssumption DEF W!Apply, W!Fits
<1>6. coins' \in [Users -> 0..CoinMax] /\ earned' \in [Users -> 0..CoinMax]
  BY <1>1, <1>4, <1>5 DEF TypeOK, W!Apply, W!Post
<1> DEFINE row == W!Entry(o, coins[u])
<1>7. row \in Rows /\ row.op = o
  BY <1>4, ShopAssumption DEF Rows, W!Entry
<1>8. ledger' = [ledger EXCEPT ![u] = Append(@, row)]
  BY DEF W!Apply, W!Post
<1>9. LedgerOK'
  <2>1. Append(ledger[u], row) \in Seq(Rows)
    BY <1>1, <1>7, AppendProperties DEF LedgerOK
  <2> QED
    BY <1>8, <2>1 DEF LedgerOK
<1> QED
  BY <1>6, <1>7, <1>8, <1>9

-----------------------------------------------------------------------------

(* The administrator's changes and earnings leave requests and inventory   *)
(* alone, and nothing that was paid disappears from the ledger.            *)
LEMMA AtUnchanged ==
  ASSUME UNCHANGED session, NEW labels, NEW u, NEW i
  PROVE  At(labels, u, i)' = At(labels, u, i)
BY DEF At, session

LEMMA AdminStep ==
  ASSUME IInv, NEW i \in Items, Admin(i)
  PROVE  IInv'
<1>1. UNCHANGED <<wallet, inventory, session>>
  BY DEF Admin, CreateItem, UpdateItem, DeleteItem, SetPrice, SetAvailable
<1>2. /\ price' \in [Items -> Prices \union {None}]
      /\ available' \in [Items -> BOOLEAN]
  BY DEF IInv, TypeOK, Admin, CreateItem, UpdateItem, DeleteItem, SetPrice, SetAvailable
<1>3. TypeOK' /\ LedgerOK' /\ RequestKept'
  BY <1>1, <1>2 DEF IInv, TypeOK, LedgerOK, RequestKept, wallet, session
<1>4. EveryItemPaid'
  BY <1>1, AtUnchanged DEF IInv, EveryItemPaid, Paid, wallet
<1> QED
  BY <1>3, <1>4 DEF IInv

LEMMA EarnStep ==
  ASSUME IInv, NEW u \in Users, Earn(u)
  PROVE  IInv'
<1>1. PICK n \in {p \in Prices : p > 0}, i \in Items :
        W!Apply([kind |-> "earn", user |-> u, what |-> i, qty |-> n])
  BY DEF Earn
<1> DEFINE o == [kind |-> "earn", user |-> u, what |-> i, qty |-> n]
<1>2. o \in Plain /\ o.user = u /\ o.kind = "earn"
  BY ShopAssumption DEF Plain
<1> HIDE DEF o
<1>3. W!Apply(o)
  BY <1>1 DEF o
<1>4. PICK row \in Rows : row.op = o /\ ledger' = [ledger EXCEPT ![o.user] = Append(@, row)]
  BY <1>2, <1>3, PostFacts DEF IInv
<1>5. UNCHANGED <<catalog, inventory, session>>
  BY DEF Earn
<1>6. TypeOK' /\ LedgerOK' /\ RequestKept'
  <2>1. /\ coins' \in [Users -> 0..CoinMax] /\ earned' \in [Users -> 0..CoinMax]
        /\ LedgerOK'
    BY <1>2, <1>3, PostFacts DEF IInv
  <2> QED
    BY <2>1, <1>5 DEF IInv, TypeOK, RequestKept, catalog, session
<1>7. ASSUME NEW v \in Users, NEW j \in Items
      PROVE  Paid(v, j)' = Paid(v, j)
  <2>1. CASE v = u
    <3>1. ledger'[v] = Append(ledger[v], row)
      BY <2>1, <1>2, <1>4 DEF IInv, LedgerOK
    <3> QED
      BY <3>1, <1>2, <1>4, PaidGrows DEF IInv
  <2>2. CASE v # u
    <3>1. ledger'[v] = ledger[v]
      BY <2>2, <1>2, <1>4 DEF IInv, LedgerOK
    <3> QED
      BY <3>1 DEF Paid
  <2> QED
    BY <2>1, <2>2
<1>8. EveryItemPaid'
  BY <1>5, <1>7, AtUnchanged DEF IInv, EveryItemPaid
<1> QED
  BY <1>6, <1>8 DEF IInv

-----------------------------------------------------------------------------

(* The statements of a purchase.  Those before the debit and the failures  *)
(* only move one session, and never to "deliver".                          *)
LEMMA StopFacts ==
  ASSUME IInv, NEW s \in Sessions, Stop(s)
  PROVE  /\ pc' = [pc EXCEPT ![s] = "idle"] /\ Others(s)
         /\ buyer' \in [Sessions -> Users \union {None}]
         /\ item' \in [Sessions -> Items \union {None}]
         /\ quoted' \in [Sessions -> Prices \union {0}]
BY DEF IInv, TypeOK, Stop, GoTo, Others

LEMMA QuietStep ==
  ASSUME IInv, NEW s \in Sessions, Others(s), UNCHANGED <<wallet, catalog, inventory>>,
         pc' \in [Sessions -> {"idle", "limit", "spend", "deliver"}],
         buyer' \in [Sessions -> Users \union {None}],
         item' \in [Sessions -> Items \union {None}],
         quoted' \in [Sessions -> Prices \union {0}],
         pc'[s] # "deliver",
         pc'[s] # "idle" => buyer'[s] \in Users /\ item'[s] \in Items,
         pc'[s] = "limit" => MaxPerUser[item'[s]] # Unlimited
  PROVE  IInv'
<1>1. TypeOK' /\ LedgerOK'
  BY DEF IInv, TypeOK, LedgerOK, wallet, catalog
<1>2. RequestKept'
  BY DEF IInv, RequestKept, Others
<1>3. ASSUME NEW u \in Users, NEW i \in Items
      PROVE  Cardinality(At({"deliver"}, u, i)') <= Cardinality(At({"deliver"}, u, i))
  <2>1. s \notin At({"deliver"}, u, i)'
    BY DEF At
  <2> QED
    BY <2>1, CountChange
<1>4. EveryItemPaid'
  <2> SUFFICES ASSUME NEW u \in Users, NEW i \in Items
               PROVE  (inventory[u][i] + Cardinality(At({"deliver"}, u, i)) <= Paid(u, i))'
    BY DEF EveryItemPaid
  <2>1. Paid(u, i)' = Paid(u, i) /\ inventory' = inventory
    BY DEF Paid, wallet
  <2>2. inventory[u][i] \in Nat
    BY DEF IInv, TypeOK
  <2>3. /\ Cardinality(At({"deliver"}, u, i)) \in Nat
        /\ Cardinality(At({"deliver"}, u, i)') \in Nat
    BY CountChange
  <2>4. Paid(u, i) \in Nat
    BY PaidIsCount DEF IInv
  <2> QED
    BY <1>3, <2>1, <2>2, <2>3, <2>4 DEF IInv, EveryItemPaid
<1> QED
  BY <1>1, <1>2, <1>4 DEF IInv

LEMMA ReadItemStep ==
  ASSUME IInv, NEW s \in Sessions, NEW u \in Users, NEW i \in Items, ReadItem(s, u, i)
  PROVE  IInv'
<1>1. Others(s) /\ UNCHANGED <<wallet, catalog, inventory>>
  BY DEF ReadItem, GoTo, Others, IInv, TypeOK
<1>2. price[i] \in Prices
  BY DEF ReadItem, IInv, TypeOK
<1>3. /\ pc' \in [Sessions -> {"idle", "limit", "spend", "deliver"}]
      /\ buyer' \in [Sessions -> Users \union {None}] /\ buyer'[s] = u
      /\ item' \in [Sessions -> Items \union {None}] /\ item'[s] = i
      /\ quoted' \in [Sessions -> Prices \union {0}]
      /\ pc'[s] = IF MaxPerUser[i] = Unlimited THEN "spend" ELSE "limit"
  BY <1>2 DEF ReadItem, GoTo, IInv, TypeOK
<1> QED
  BY <1>1, <1>3, QuietStep

LEMMA StopStep ==
  ASSUME IInv, NEW s \in Sessions, Stop(s), UNCHANGED <<wallet, catalog, inventory>>
  PROVE  IInv'
<1>1. /\ pc' \in [Sessions -> {"idle", "limit", "spend", "deliver"}]
      /\ pc'[s] = "idle" /\ Others(s)
  BY StopFacts DEF IInv, TypeOK
<1> QED
  BY <1>1, StopFacts, QuietStep

LEMMA CheckLimitStep ==
  ASSUME IInv, NEW s \in Sessions, CheckLimit(s)
  PROVE  IInv'
<1>1. CASE Stop(s)
  BY <1>1, StopStep DEF CheckLimit
<1>2. CASE GoTo(s, "spend") /\ UNCHANGED <<buyer, item, quoted>>
  <2>1. /\ pc' \in [Sessions -> {"idle", "limit", "spend", "deliver"}]
        /\ pc'[s] = "spend" /\ Others(s)
    BY <1>2 DEF GoTo, Others, IInv, TypeOK
  <2>2. buyer'[s] \in Users /\ item'[s] \in Items
    BY <1>2 DEF CheckLimit, IInv, RequestKept
  <2>3. /\ buyer' \in [Sessions -> Users \union {None}]
        /\ item' \in [Sessions -> Items \union {None}]
        /\ quoted' \in [Sessions -> Prices \union {0}]
    BY <1>2 DEF IInv, TypeOK
  <2> QED
    BY <2>1, <2>2, <2>3, QuietStep DEF CheckLimit
<1> QED
  BY <1>1, <1>2 DEF CheckLimit

(* A debit is one more row and one more session about to deliver.          *)
LEMMA SpendStep ==
  ASSUME IInv, NEW s \in Sessions, Spend(s)
  PROVE  IInv'
<1> DEFINE o == Debit(s)
<1>1. buyer[s] \in Users /\ item[s] \in Items /\ quoted[s] \in Nat
  <2>1. pc[s] = "spend" /\ quoted[s] > 0
    BY DEF Spend
  <2>2. quoted[s] \in Prices \union {0}
    BY DEF IInv, TypeOK
  <2>3. quoted[s] \in Int
    <3>1. Prices \subseteq Int
      BY ShopAssumption
    <3>2. CASE quoted[s] \in Prices
      BY <3>1, <3>2, Zenon
    <3>3. CASE quoted[s] = 0
      BY <3>3
    <3> QED
      BY <2>2, <3>2, <3>3, Zenon
  <2>4. quoted[s] \in Nat
    BY <2>1, <2>3
  <2> QED
    BY <2>1, <2>4 DEF IInv, RequestKept
<1>2. o \in Plain /\ o.user = buyer[s] /\ o.what = item[s] /\ o.kind = "spend"
  BY <1>1 DEF Plain, Debit
<1> HIDE DEF o
<1>3. W!Apply(o)
  BY DEF Spend, o
<1>4. PICK row \in Rows : row.op = o /\ ledger' = [ledger EXCEPT ![o.user] = Append(@, row)]
  BY <1>2, <1>3, PostFacts DEF IInv
<1>5. /\ UNCHANGED <<catalog, inventory, buyer, item, quoted>> /\ pc[s] = "spend"
      /\ pc' = [pc EXCEPT ![s] = "deliver"]
  BY DEF Spend, GoTo
<1>6. TypeOK' /\ LedgerOK'
  <2>1. /\ coins' \in [Users -> 0..CoinMax] /\ earned' \in [Users -> 0..CoinMax]
        /\ LedgerOK'
    BY <1>2, <1>3, PostFacts DEF IInv
  <2> QED
    BY <2>1, <1>5 DEF IInv, TypeOK, catalog
<1>7. RequestKept' /\ Others(s) /\ pc'[s] = "deliver"
  BY <1>1, <1>5 DEF IInv, RequestKept, TypeOK, Others
<1>8. ASSUME NEW v \in Users, NEW j \in Items
      PROVE  (inventory[v][j] + Cardinality(At({"deliver"}, v, j)) <= Paid(v, j))'
  <2>1. s \notin At({"deliver"}, v, j)
    BY <1>5 DEF At
  <2>2. s \in At({"deliver"}, v, j)' <=> v = buyer[s] /\ j = item[s]
    BY <1>5, <1>7 DEF At
  <2>3. inventory[v][j] \in Nat /\ inventory' = inventory
    BY <1>5 DEF IInv, TypeOK
  <2>4. inventory[v][j] + Cardinality(At({"deliver"}, v, j)) <= Paid(v, j)
    BY DEF IInv, EveryItemPaid
  <2>5. CASE v = buyer[s]
    <3>1. ledger'[v] = Append(ledger[v], row)
      BY <2>5, <1>2, <1>4 DEF IInv, LedgerOK
    <3>2. /\ Paid(v, j) \in Nat
          /\ Paid(v, j)' = IF j = item[s] THEN Paid(v, j) + 1 ELSE Paid(v, j)
      BY <3>1, <1>2, <1>4, PaidGrows DEF IInv
    <3> QED
      BY <2>1, <2>2, <2>3, <2>4, <2>5, <3>2, <1>7, CountChange
  <2>6. CASE v # buyer[s]
    <3>1. ledger'[v] = ledger[v]
      BY <2>6, <1>2, <1>4 DEF IInv, LedgerOK
    <3>2. Paid(v, j)' = Paid(v, j)
      BY <3>1 DEF Paid
    <3> QED
      BY <2>1, <2>2, <2>3, <2>4, <2>6, <3>2, <1>7, CountChange
  <2> QED
    BY <2>5, <2>6
<1> QED
  BY <1>6, <1>7, <1>8 DEF IInv, EveryItemPaid

(* A delivery turns the session that was counted into a unit.              *)
LEMMA DeliverStep ==
  ASSUME IInv, NEW s \in Sessions, Deliver(s)
  PROVE  IInv'
<1> DEFINE u == buyer[s]
           i == item[s]
<1>1. /\ pc[s] = "deliver" /\ u \in Users /\ i \in Items /\ Stop(s)
      /\ UNCHANGED <<wallet, catalog>>
      /\ inventory' = [inventory EXCEPT ![u][i] = @ + 1]
  BY DEF Deliver, IInv, RequestKept
<1>2. /\ pc' = [pc EXCEPT ![s] = "idle"] /\ Others(s)
      /\ buyer' \in [Sessions -> Users \union {None}]
      /\ item' \in [Sessions -> Items \union {None}]
      /\ quoted' \in [Sessions -> Prices \union {0}]
  BY <1>1, StopFacts
<1>3. \A v \in Users, j \in Items :
        /\ inventory[v][j] \in Nat
        /\ inventory'[v][j] = IF v = u /\ j = i THEN inventory[v][j] + 1 ELSE inventory[v][j]
  BY <1>1 DEF IInv, TypeOK
<1>4. inventory' \in [Users -> [Items -> Nat]]
  BY <1>1 DEF IInv, TypeOK
<1>5. TypeOK' /\ LedgerOK' /\ RequestKept'
  BY <1>1, <1>2, <1>4 DEF IInv, TypeOK, LedgerOK, RequestKept, Others, wallet, catalog
<1>6. ASSUME NEW v \in Users, NEW j \in Items
      PROVE  (inventory[v][j] + Cardinality(At({"deliver"}, v, j)) <= Paid(v, j))'
  <2>1. s \in At({"deliver"}, v, j) <=> v = u /\ j = i
    BY <1>1 DEF At
  <2>2. s \notin At({"deliver"}, v, j)'
    BY <1>2 DEF At, IInv, TypeOK
  <2>3. Paid(v, j)' = Paid(v, j)
    BY <1>1 DEF Paid, wallet
  <2>4. inventory[v][j] + Cardinality(At({"deliver"}, v, j)) <= Paid(v, j)
    BY DEF IInv, EveryItemPaid
  <2>5. /\ Cardinality(At({"deliver"}, v, j)) \in Nat
        /\ Cardinality(At({"deliver"}, v, j)') =
             IF v = u /\ j = i THEN Cardinality(At({"deliver"}, v, j)) - 1
                               ELSE Cardinality(At({"deliver"}, v, j))
    BY <1>2, <2>1, <2>2, CountChange
  <2> QED
    BY <1>3, <2>3, <2>4, <2>5
<1> QED
  BY <1>5, <1>6 DEF IInv, EveryItemPaid

LEMMA NextStep == IInv /\ [Next]_vars => IInv'
<1> SUFFICES ASSUME IInv, [Next]_vars PROVE IInv'
  OBVIOUS
<1>1. ASSUME NEW s \in Sessions, Purchase(s) PROVE IInv'
  <2>1. ASSUME Abort(s) PROVE IInv'
    BY <2>1, StopStep DEF Abort
  <2> QED
    BY <1>1, <2>1, ReadItemStep, CheckLimitStep, SpendStep, DeliverStep DEF Purchase
<1>2. CASE UNCHANGED vars
  <2>1. TypeOK' /\ LedgerOK' /\ RequestKept'
    BY <1>2 DEF IInv, TypeOK, LedgerOK, RequestKept, vars, wallet, catalog, session
  <2>2. EveryItemPaid'
    BY <1>2, AtUnchanged DEF IInv, EveryItemPaid, Paid, vars, wallet
  <2> QED
    BY <2>1, <2>2 DEF IInv
<1> QED
  BY <1>1, <1>2, AdminStep, EarnStep DEF Next

(* The inductive invariant holds in every reachable state.               *)
THEOREM ShopInvariant == Spec => []IInv
BY InitIInv, NextStep, PTL DEF Spec

(* Balances stay between zero and the width of the column, whatever is     *)
(* bought at the same time.                                                *)
THEOREM ShopTypes == Spec => []TypeOK
<1>1. IInv => TypeOK
  BY DEF IInv
<1> QED
  BY ShopInvariant, <1>1, PTL

(* No unit is in an inventory that was not paid: the insertion comes after *)
(* a debit of its own, whatever price or item the administrator changes.   *)
THEOREM NothingIsFree == Spec => []EveryItemPaid
<1>1. IInv => EveryItemPaid
  BY DEF IInv
<1> QED
  BY ShopInvariant, <1>1, PTL

-----------------------------------------------------------------------------

(* The limit.  A request that passed the check will add a unit and nothing *)
(* stops it: it counts as committed.  The last one to pass read less than  *)
(* the limit in the inventory, and there were at most all other sessions   *)
(* committed with it; later deliveries only turn one into the other.       *)
Bound == {"spend", "deliver"}
Committed(u, i) == inventory[u][i] + Cardinality(At(Bound, u, i))
Overshoot ==
  \A u \in Users, i \in Items :
    MaxPerUser[i] # Unlimited /\ Committed(u, i) > 0 =>
      Committed(u, i) <= MaxPerUser[i] + Cardinality(Sessions) - 1

LEMMA LimitIsInt ==
  ASSUME NEW i \in Items, MaxPerUser[i] # Unlimited
  PROVE  MaxPerUser[i] \in Int /\ Cardinality(Sessions) \in Nat
<1>1. MaxPerUser[i] \in Int
  BY ShopAssumption, Zenon
<1>2. IsFiniteSet(Sessions)
  BY ShopAssumption
<1> QED
  BY <1>1, <1>2, FS_CardinalityType

LEMMA CommittedType ==
  ASSUME IInv, NEW u \in Users, NEW i \in Items
  PROVE  Committed(u, i) \in Nat /\ inventory[u][i] \in Nat
<1>1. inventory[u][i] \in Nat
  BY DEF IInv, TypeOK
<1>2. Cardinality(At(Bound, u, i)) \in Nat
  BY Count
<1> QED
  BY <1>1, <1>2 DEF Committed

LEMMA NoMoreCommitted ==
  ASSUME IInv, IInv', Overshoot,
         \A u \in Users, i \in Items : MaxPerUser[i] # Unlimited =>
           Committed(u, i)' <= Committed(u, i)
  PROVE  Overshoot'
<1> SUFFICES ASSUME NEW u \in Users, NEW i \in Items,
                    MaxPerUser[i] # Unlimited, Committed(u, i)' > 0
             PROVE  Committed(u, i)' <= MaxPerUser[i] + Cardinality(Sessions) - 1
  BY DEF Overshoot
<1>1. Committed(u, i)' <= Committed(u, i)
  OBVIOUS
<1>2. Committed(u, i) \in Nat /\ Committed(u, i)' \in Nat
  <2>1. inventory'[u][i] \in Nat
    BY DEF IInv, TypeOK
  <2>2. IsFiniteSet(Sessions) /\ At(Bound, u, i)' \subseteq Sessions
    BY ShopAssumption DEF At
  <2>3. Cardinality(At(Bound, u, i)') \in Nat
    BY <2>2, FS_Subset, FS_CardinalityType
  <2> QED
    BY <2>1, <2>3, CommittedType DEF Committed
<1>3. MaxPerUser[i] \in Int /\ Cardinality(Sessions) \in Nat
  BY LimitIsInt
<1>4. Committed(u, i) <= MaxPerUser[i] + Cardinality(Sessions) - 1
  BY <1>1, <1>2 DEF Overshoot
<1> QED
  BY <1>1, <1>2, <1>3, <1>4

(* A session that stops commits to nothing any more.                       *)
LEMMA StopOvershoot ==
  ASSUME IInv, IInv', Overshoot, NEW s \in Sessions, Stop(s), UNCHANGED inventory
  PROVE  Overshoot'
<1>1. pc' = [pc EXCEPT ![s] = "idle"] /\ Others(s)
  BY StopFacts
<1>2. ASSUME NEW u \in Users, NEW i \in Items
      PROVE  Committed(u, i)' <= Committed(u, i)
  <2>1. s \notin At(Bound, u, i)'
    BY <1>1 DEF At, Bound, IInv, TypeOK
  <2>2. /\ Cardinality(At(Bound, u, i)) \in Nat
        /\ Cardinality(At(Bound, u, i)') \in Nat
        /\ Cardinality(At(Bound, u, i)') <= Cardinality(At(Bound, u, i))
    BY <1>1, <2>1, CountChange
  <2>3. inventory[u][i] \in Nat
    BY CommittedType
  <2> QED
    BY <2>2, <2>3 DEF Committed
<1> QED
  BY <1>2, NoMoreCommitted

(* The only step that commits: it read less than the limit, and its own    *)
(* session was not committed yet.                                          *)
LEMMA PassedCheck ==
  ASSUME ~ReadsMayFail, IInv, IInv', Overshoot, NEW s \in Sessions, CheckLimit(s)
  PROVE  Overshoot'
<1>1. ASSUME Stop(s) PROVE Overshoot'
  BY <1>1, StopOvershoot DEF CheckLimit
<1>2. ASSUME NEW owned \in OwnedRead(s), owned < MaxPerUser[item[s]], GoTo(s, "spend"),
             UNCHANGED <<buyer, item, quoted>>
      PROVE  Overshoot'
  <2>1. /\ pc[s] = "limit" /\ buyer[s] \in Users /\ item[s] \in Items
        /\ UNCHANGED inventory
    BY DEF CheckLimit, IInv, RequestKept
  <2>2. inventory[buyer[s]][item[s]] < MaxPerUser[item[s]]
    BY <1>2 DEF OwnedRead
  <2>3. pc'[s] = "spend" /\ Others(s)
    BY <1>2 DEF GoTo, Others, IInv, TypeOK
  <2> SUFFICES ASSUME NEW u \in Users, NEW i \in Items,
                      MaxPerUser[i] # Unlimited, Committed(u, i)' > 0
               PROVE  Committed(u, i)' <= MaxPerUser[i] + Cardinality(Sessions) - 1
    BY DEF Overshoot
  <2>4. MaxPerUser[i] \in Int /\ Cardinality(Sessions) \in Nat
    BY LimitIsInt
  <2>5. /\ inventory[u][i] \in Nat /\ Committed(u, i) \in Nat
        /\ Committed(u, i)' = inventory[u][i] + Cardinality(At(Bound, u, i)')
    BY <2>1, CommittedType DEF Committed
  <2>6. s \notin At(Bound, u, i)
    BY <2>1 DEF At, Bound
  <2>7. s \in At(Bound, u, i)' <=> u = buyer[s] /\ i = item[s]
    BY <1>2, <2>3 DEF At, Bound
  <2>8. CASE u = buyer[s] /\ i = item[s]
    <3>1. IsFiniteSet(Sessions)
      BY ShopAssumption
    <3>2. /\ Cardinality(At(Bound, u, i)') <= Cardinality(Sessions)
          /\ Cardinality(At(Bound, u, i)') \in Nat
      BY <3>1, FS_Subset, FS_CardinalityType DEF At
    <3>3. inventory[u][i] < MaxPerUser[i]
      BY <2>2, <2>8
    <3> QED
      BY <3>2, <3>3, <2>4, <2>5
  <2>9. CASE ~(u = buyer[s] /\ i = item[s])
    <3>1. Cardinality(At(Bound, u, i)') = Cardinality(At(Bound, u, i))
      BY <2>3, <2>6, <2>7, <2>9, CountChange
    <3>2. Committed(u, i)' = Committed(u, i)
      BY <3>1, <2>1 DEF Committed
    <3> QED
      BY <3>2, <2>4, <2>5 DEF Overshoot
  <2> QED
    BY <2>8, <2>9
<1> QED
  BY <1>1, <1>2 DEF CheckLimit

(* Every other step commits to nothing new.                                *)
LEMMA OtherOvershoot ==
  ASSUME IInv, IInv', Overshoot, NEW s \in Sessions,
         \/ \E u \in Users, i \in Items : ReadItem(s, u, i)
         \/ Spend(s) \/ Deliver(s)
  PROVE  Overshoot'
<1>1. ASSUME NEW v \in Users, NEW j \in Items, ReadItem(s, v, j),
             NEW u \in Users, NEW i \in Items, MaxPerUser[i] # Unlimited
      PROVE  Committed(u, i)' = Committed(u, i)
  <2>1. pc[s] = "idle" /\ Others(s) /\ UNCHANGED inventory
    BY <1>1 DEF ReadItem, GoTo, Others, IInv, TypeOK
  <2>2. /\ pc'[s] = IF MaxPerUser[j] = Unlimited THEN "spend" ELSE "limit"
        /\ item'[s] = j
    BY <1>1 DEF ReadItem, GoTo, IInv, TypeOK
  <2>3. s \notin At(Bound, u, i) /\ s \notin At(Bound, u, i)'
    BY <2>1, <2>2, <1>1 DEF At, Bound
  <2> QED
    BY <2>1, <2>3, CountChange DEF Committed
<1>2. ASSUME Spend(s), NEW u \in Users, NEW i \in Items
      PROVE  Committed(u, i)' = Committed(u, i)
  <2>1. /\ pc[s] = "spend" /\ pc'[s] = "deliver" /\ Others(s)
        /\ UNCHANGED <<inventory, buyer, item>>
    BY <1>2 DEF Spend, GoTo, Others, IInv, TypeOK
  <2>2. s \in At(Bound, u, i) <=> s \in At(Bound, u, i)'
    BY <2>1 DEF At, Bound
  <2> QED
    BY <2>1, <2>2, CountChange DEF Committed
<1>3. ASSUME Deliver(s), NEW u \in Users, NEW i \in Items
      PROVE  Committed(u, i)' = Committed(u, i)
  <2>1. /\ pc[s] = "deliver" /\ Stop(s) /\ buyer[s] \in Users /\ item[s] \in Items
        /\ inventory' = [inventory EXCEPT ![buyer[s]][item[s]] = @ + 1]
    BY <1>3 DEF Deliver, IInv, RequestKept
  <2>2. pc' = [pc EXCEPT ![s] = "idle"] /\ Others(s)
    BY <2>1, StopFacts
  <2>3. s \in At(Bound, u, i) <=> u = buyer[s] /\ i = item[s]
    BY <2>1 DEF At, Bound
  <2>4. s \notin At(Bound, u, i)'
    BY <2>2 DEF At, Bound, IInv, TypeOK
  <2>5. /\ inventory[u][i] \in Nat
        /\ inventory'[u][i] = IF u = buyer[s] /\ i = item[s]
                              THEN inventory[u][i] + 1 ELSE inventory[u][i]
    BY <2>1 DEF IInv, TypeOK
  <2>6. /\ Cardinality(At(Bound, u, i)) \in Nat
        /\ Cardinality(At(Bound, u, i)') =
             IF u = buyer[s] /\ i = item[s] THEN Cardinality(At(Bound, u, i)) - 1
                                            ELSE Cardinality(At(Bound, u, i))
    BY <2>2, <2>3, <2>4, CountChange
  <2> QED
    BY <2>5, <2>6 DEF Committed
<1>4. ASSUME NEW u \in Users, NEW i \in Items, MaxPerUser[i] # Unlimited
      PROVE  Committed(u, i)' = Committed(u, i)
  BY <1>1, <1>2, <1>3, <1>4
<1>5. ASSUME NEW u \in Users, NEW i \in Items, MaxPerUser[i] # Unlimited
      PROVE  Committed(u, i)' <= Committed(u, i)
  BY <1>4, <1>5, CommittedType
<1> QED
  BY <1>5, NoMoreCommitted

LEMMA OvershootStep ==
  ASSUME ~ReadsMayFail, IInv, IInv', Overshoot, [Next]_vars
  PROVE  Overshoot'
<1>1. ASSUME NEW s \in Sessions, Purchase(s) PROVE Overshoot'
  <2>1. ASSUME Abort(s) PROVE Overshoot'
    BY <2>1, StopOvershoot DEF Abort
  <2> QED
    BY <1>1, <2>1, PassedCheck, OtherOvershoot DEF Purchase
<1>2. ASSUME UNCHANGED <<inventory, session>> PROVE Overshoot'
  <2>1. ASSUME NEW u \in Users, NEW i \in Items
        PROVE  Committed(u, i)' = Committed(u, i)
    BY <1>2, AtUnchanged DEF Committed
  <2>2. ASSUME NEW u \in Users, NEW i \in Items
        PROVE  Committed(u, i)' <= Committed(u, i)
    BY <2>1, CommittedType
  <2> QED
    BY <2>2, NoMoreCommitted
<1>3. ASSUME NEW i \in Items, Admin(i) PROVE UNCHANGED <<inventory, session>>
  BY <1>3 DEF Admin, CreateItem, UpdateItem, DeleteItem, SetPrice, SetAvailable
<1>4. ASSUME NEW u \in Users, Earn(u) PROVE UNCHANGED <<inventory, session>>
  BY <1>4 DEF Earn
<1> QED
  BY <1>1, <1>2, <1>3, <1>4 DEF Next, vars

LEMMA InitOvershoot == Init => Overshoot
<1> SUFFICES ASSUME Init, NEW u \in Users, NEW i \in Items PROVE Committed(u, i) = 0
  BY DEF Overshoot
<1>1. inventory[u][i] = 0 /\ At(Bound, u, i) = {}
  BY DEF Init, At, Bound
<1>2. Cardinality(At(Bound, u, i)) = 0
  BY <1>1, FS_EmptySet
<1> QED
  BY <1>1, <1>2 DEF Committed

LEMMA OvershootIsBounded == IInv /\ Overshoot => OvershootBounded
<1> SUFFICES ASSUME IInv, Overshoot, NEW u \in Users, NEW i \in Items,
                    MaxPerUser[i] # Unlimited, inventory[u][i] > 0
             PROVE  inventory[u][i] <= MaxPerUser[i] + Cardinality(Sessions) - 1
  BY DEF OvershootBounded
<1>1. Cardinality(At(Bound, u, i)) \in Nat /\ inventory[u][i] \in Nat
  BY Count, CommittedType
<1>2. MaxPerUser[i] \in Int /\ Cardinality(Sessions) \in Nat
  BY LimitIsInt
<1>3. Committed(u, i) > 0 /\ Committed(u, i) >= inventory[u][i] /\ Committed(u, i) \in Nat
  BY <1>1 DEF Committed
<1>4. Committed(u, i) <= MaxPerUser[i] + Cardinality(Sessions) - 1
  BY <1>3 DEF Overshoot
<1> QED
  BY <1>1, <1>2, <1>3, <1>4

(* As long as the database answers the check, simultaneous purchases pass  *)
(* max_per_user by at most one unit per other request: the check does hold *)
(* up whoever comes after a delivery.                                      *)
THEOREM OvershootStaysBounded ==
  ASSUME ~ReadsMayFail
  PROVE  Spec => []OvershootBounded
<1>1. IInv /\ IInv' /\ Overshoot /\ [Next]_vars => Overshoot'
  BY OvershootStep
<1>2. IInv /\ Overshoot => OvershootBounded
  BY OvershootIsBounded
<1> QED
  BY ShopInvariant, InitOvershoot, <1>1, <1>2, PTL DEF Spec
=============================================================================
