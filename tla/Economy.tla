----------------------------- MODULE Economy -----------------------------
(***************************************************************************)
(* The coin transactions of the Go server, statement by statement.         *)
(*                                                                         *)
(* Each session is a goroutine serving one request: economy/wallet.go      *)
(* (token reports, admin credits and debits) or shop/purchase.go           *)
(* (furniture).  A request is one PostgreSQL transaction at READ COMMITTED: *)
(* a SELECT ... FOR UPDATE waits for the row lock and reads the newest     *)
(* committed row, and what the transaction writes becomes visible when it  *)
(* commits.  Any statement may fail, the client may go away (the request's *)
(* context is cancelled) and the server may crash: the deferred Rollback,  *)
(* or PostgreSQL itself, then undoes the transaction.                      *)
(***************************************************************************)
EXTENDS EconomyOps, FiniteSets

CONSTANTS
  Sessions,     \* goroutines serving requests
  Stock0,       \* Stock0[p]: initial stock_quantity, or Unlimited
  MaxPerUser,   \* MaxPerUser[p]: max_per_user, or Unlimited
  Unlimited,    \* a NULL limit
  None          \* no session, no operation

ASSUME EconomyAssumption ==
  /\ Unlimited \notin Int
  /\ Stock0 \in [Products -> Nat \union {Unlimited}]
  /\ MaxPerUser \in [Products -> (Nat \ {0}) \union {Unlimited}]
  /\ None \notin Sessions

VARIABLES
  coins, earned, ledger, processed,   \* as in Wallet
  stock,        \* furniture_products.stock_quantity
  owned,        \* user_furniture_inventory.quantity (0: no row)
  userLock,     \* holder of the row lock of a user
  productLock,  \* holder of the row lock of a product
  pc,           \* next statement of the session
  op,           \* the request it serves
  bal           \* currentBalance, read under the user's lock

tables == <<coins, earned, ledger, processed, stock, owned>>
vars   == <<tables, userLock, productLock, pc, op, bal>>

Within(n, limit) == limit = Unlimited \/ n <= limit

Init ==
  /\ coins = [u \in Users |-> 0]
  /\ earned = [u \in Users |-> 0]
  /\ ledger = [u \in Users |-> <<>>]
  /\ processed = {}
  /\ stock = Stock0
  /\ owned = [u \in Users |-> [p \in Products |-> 0]]
  /\ userLock = [u \in Users |-> None]
  /\ productLock = [p \in Products |-> None]
  /\ pc = [s \in Sessions |-> "idle"]
  /\ op = [s \in Sessions |-> None]
  /\ bal = [s \in Sessions |-> 0]

-----------------------------------------------------------------------------

(* Fault: the end of a transaction forgets the product's row lock.         *)
FinishKeepingProduct(s) ==
  /\ userLock' = [u \in Users |-> IF userLock[u] = s THEN None ELSE userLock[u]]
  /\ pc' = [pc EXCEPT ![s] = "idle"]
  /\ op' = [op EXCEPT ![s] = None]
  /\ bal' = [bal EXCEPT ![s] = 0]
  /\ UNCHANGED productLock

(* The transaction ends, committed or not: its row locks go.               *)
Finish(s) ==
  /\ userLock' = [u \in Users |-> IF userLock[u] = s THEN None ELSE userLock[u]]
  /\ productLock' =
       [p \in Products |-> IF productLock[p] = s THEN None ELSE productLock[p]]
  /\ pc' = [pc EXCEPT ![s] = "idle"]
  /\ op' = [op EXCEPT ![s] = None]
  /\ bal' = [bal EXCEPT ![s] = 0]

Rollback(s) == Finish(s) /\ UNCHANGED tables

GoTo(s, label) == pc' = [pc EXCEPT ![s] = label]

(* A handler validates its input and begins its transaction.               *)
Begin(s, o) ==
  /\ pc[s] = "idle"
  /\ op' = [op EXCEPT ![s] = o]
  /\ GoTo(s, CASE o.kind = "report" -> "dedup"
               [] o.kind = "buy"    -> "lockProduct"
               [] OTHER             -> "lockUser")
  /\ UNCHANGED <<tables, userLock, productLock, bal>>

(* EXISTS (... processed_requests ...): a snapshot read, before any lock.  *)
CheckDuplicate(s) ==
  /\ pc[s] = "dedup"
  /\ \/ op[s].what \in processed /\ Rollback(s)
     \/ /\ op[s].what \notin processed
        /\ GoTo(s, "lockUser")
        /\ UNCHANGED <<tables, userLock, productLock, op, bal>>

(* Fault: the product is read without FOR UPDATE.                          *)
ReadProductUnlocked(s) ==
  /\ pc[s] = "lockProduct"
  /\ \/ ~Within(op[s].qty, stock[op[s].what]) /\ Rollback(s)
     \/ /\ Within(op[s].qty, stock[op[s].what])
        /\ GoTo(s, "lockUser")
        /\ UNCHANGED <<tables, userLock, productLock, op, bal>>

(* SELECT ... FROM furniture_products ... FOR UPDATE, and the stock check. *)
LockProduct(s) ==
  LET p == op[s].what IN
  /\ pc[s] = "lockProduct"
  /\ productLock[p] = None
  /\ \/ /\ stock[p] # Unlimited /\ stock[p] < op[s].qty
        /\ Rollback(s)
     \/ /\ Within(op[s].qty, stock[p])
        /\ productLock' = [productLock EXCEPT ![p] = s]
        /\ GoTo(s, "lockUser")
        /\ UNCHANGED <<tables, userLock, op, bal>>

(* Faults: no balance check, a limit that ignores the units asked for, and *)
(* a column wider than INTEGER.                                            *)
RefusedUnlessRich(o) ==
  \/ o.kind = "buy" /\ ~Within(owned[o.user][o.what] + o.qty, MaxPerUser[o.what])
  \/ ~Fits(o, coins[o.user], earned[o.user])
RefusedOffByQty(o) ==
  \/ Debits(o) /\ coins[o.user] < Amount(o)
  \/ o.kind = "buy" /\ ~Within(owned[o.user][o.what] + 1, MaxPerUser[o.what])
  \/ ~Fits(o, coins[o.user], earned[o.user])
RefusedNoOverflow(o) ==
  \/ Debits(o) /\ coins[o.user] < Amount(o)
  \/ o.kind = "buy" /\ ~Within(owned[o.user][o.what] + o.qty, MaxPerUser[o.what])

(* Why the code, or an INTEGER column, refuses o once its user is locked.  *)
Refused(o) ==
  \/ Debits(o) /\ coins[o.user] < Amount(o)
  \/ o.kind = "buy" /\ ~Within(owned[o.user][o.what] + o.qty, MaxPerUser[o.what])
  \/ ~Fits(o, coins[o.user], earned[o.user])

(* Fault: the balance is read without FOR UPDATE.                          *)
ReadUserUnlocked(s) ==
  LET o == op[s] IN
  /\ pc[s] = "lockUser"
  /\ \/ Refused(o) /\ Rollback(s)
     \/ /\ ~Refused(o)
        /\ bal' = [bal EXCEPT ![s] = coins[o.user]]
        /\ GoTo(s, IF o.kind = "report" THEN "record" ELSE "commit")
        /\ UNCHANGED <<tables, userLock, productLock, op>>

(* SELECT coins ... FOR UPDATE, the checks under the lock, and the inserts *)
(* and updates, which nobody sees before the commit.                       *)
LockUser(s) ==
  LET o == op[s] IN
  /\ pc[s] = "lockUser"
  /\ userLock[o.user] = None
  /\ \/ Refused(o) /\ Rollback(s)
     \/ /\ ~Refused(o)
        /\ userLock' = [userLock EXCEPT ![o.user] = s]
        /\ bal' = [bal EXCEPT ![s] = coins[o.user]]
        /\ GoTo(s, IF o.kind = "report" THEN "record" ELSE "commit")
        /\ UNCHANGED <<tables, productLock, op>>

(* INSERT INTO processed_requests: the primary key makes it wait for an    *)
(* uncommitted row of the same requestId and fail on a committed one.      *)
HoldsKey(t, r) == pc[t] = "commit" /\ op[t].kind = "report" /\ op[t].what = r

(* Fault: processed_requests has no primary key.                           *)
RecordWithoutKey(s) ==
  /\ pc[s] = "record"
  /\ GoTo(s, "commit")
  /\ UNCHANGED <<tables, userLock, productLock, op, bal>>

Record(s) ==
  /\ pc[s] = "record"
  /\ \A t \in Sessions \ {s} : ~HoldsKey(t, op[s].what)
  /\ \/ op[s].what \in processed /\ Rollback(s)
     \/ /\ op[s].what \notin processed
        /\ GoTo(s, "commit")
        /\ UNCHANGED <<tables, userLock, productLock, op, bal>>

(* COMMIT.  The new balance was computed from the one read under the lock; *)
(* total_coins_earned, the inventory row and the stock are relative.       *)
Commit(s) ==
  LET o == op[s]
      u == o.user IN
  /\ pc[s] = "commit"
  /\ coins' = [coins EXCEPT ![u] = After(o, bal[s])]
  /\ earned' = [earned EXCEPT ![u] = IF Debits(o) THEN @ ELSE @ + Amount(o)]
  /\ ledger' = [ledger EXCEPT ![u] = Append(@, Entry(o, bal[s]))]
  /\ processed' = IF o.kind = "report" THEN processed \union {o.what}
                                       ELSE processed
  /\ owned' = IF o.kind = "buy" THEN [owned EXCEPT ![u][o.what] = @ + o.qty]
                                ELSE owned
  /\ stock' = IF o.kind = "buy" /\ stock[o.what] # Unlimited
              THEN [stock EXCEPT ![o.what] = @ - o.qty] ELSE stock
  /\ Finish(s)

(* A statement fails, the client leaves or the server dies.                *)
Fail(s) == pc[s] # "idle" /\ Rollback(s)

Step(s) == CheckDuplicate(s) \/ LockProduct(s) \/ LockUser(s) \/ Record(s) \/ Commit(s)

Next == \E s \in Sessions : (\E o \in Ops : Begin(s, o)) \/ Step(s) \/ Fail(s)

Spec == Init /\ [][Next]_vars

(* A goroutine runs on until its request is answered, and PostgreSQL grants *)
(* a row lock to its waiters in turn, so a waiter is not passed over forever. *)
Fairness ==
  \A s \in Sessions :
    /\ WF_vars(CheckDuplicate(s)) /\ WF_vars(Commit(s))
    /\ SF_vars(LockProduct(s)) /\ SF_vars(LockUser(s)) /\ SF_vars(Record(s))

FairSpec == Spec /\ Fairness

-----------------------------------------------------------------------------

Labels == {"idle", "dedup", "lockProduct", "lockUser", "record", "commit"}

(* Type invariant.  Balances stay within the INTEGER columns of table      *)
(* users: an addition that would overflow fails and rolls back.            *)
TypeOK ==
  /\ coins \in [Users -> Int] /\ \A u \in Users : coins[u] <= CoinMax
  /\ earned \in [Users -> Nat] /\ \A u \in Users : earned[u] <= CoinMax
  /\ ledger \in [Users -> Seq(Entries)]
  /\ processed \subseteq Requests
  /\ stock \in [Products -> Int \union {Unlimited}]
  /\ owned \in [Users -> [Products -> Nat]]
  /\ userLock \in [Users -> Sessions \union {None}]
  /\ productLock \in [Products -> Sessions \union {None}]
  /\ pc \in [Sessions -> Labels]
  /\ op \in [Sessions -> Ops \union {None}]
  /\ bal \in [Sessions -> Int]

(* Whatever transactions interleave, no user ever owes coins: no two       *)
(* debits (admin, furniture) pass on the same balance.                     *)
NoOverdraft == \A u \in Users : coins[u] >= 0

(* users.coins as row i of a user's ledger found it.                       *)
BalanceBefore(rows, i) == IF i = 1 THEN 0 ELSE rows[i-1].balanceAfter

(* The ledger audits the balance: each row's balance_after is the previous *)
(* row's changed by its amount, and the last one is users.coins.  A lost   *)
(* update of the balance breaks the chain.                                 *)
LedgerExplainsBalance ==
  \A u \in Users :
    /\ \A i \in 1..Len(ledger[u]) :
         ledger[u][i].balanceAfter
           = After(ledger[u][i].op, BalanceBefore(ledger[u], i))
    /\ coins[u] = BalanceBefore(ledger[u], Len(ledger[u]) + 1)

IsCredit(row, r) == row.op.kind = "report" /\ row.op.what = r

(* A requestId is credited at most once, to one user, however many windows *)
(* report or retry it at the same time; and it is in processed_requests    *)
(* exactly when its coins were paid.                                       *)
CreditedOnce ==
  /\ \A u, v \in Users : \A i \in DOMAIN ledger[u], j \in DOMAIN ledger[v] :
       \A r \in Requests :
         IsCredit(ledger[u][i], r) /\ IsCredit(ledger[v][j], r) => u = v /\ i = j
  /\ \A r \in Requests :
       r \in processed <=> \E u \in Users : \E i \in DOMAIN ledger[u] :
                             IsCredit(ledger[u][i], r)

(* Concurrent buyers never sell more than the stock: the CHECK on          *)
(* stock_quantity is a second line of defence that never fires.            *)
NeverOversold == \A p \in Products : stock[p] # Unlimited => stock[p] >= 0

(* Nobody owns more of a product than max_per_user, also when the same     *)
(* user buys from two windows at once.                                     *)
WithinLimit == \A u \in Users, p \in Products : Within(owned[u][p], MaxPerUser[p])

(* Both limits of a product survive any interleaving of purchases.         *)
LimitsKept == NeverOversold /\ WithinLimit

(* Row locks are taken product first, user second, and released by every   *)
(* outcome: no set of concurrent requests waits for itself, each ends.     *)
HandlersFinish == \A s \in Sessions : pc[s] # "idle" ~> pc[s] = "idle"

(* The concurrent transactions implement the atomic wallet.                *)
AtomicWallet == INSTANCE Wallet
ImplementsWallet == AtomicWallet!WalletSpec
===========================================================================
