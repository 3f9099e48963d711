--------------------------- MODULE EconomyProofs ---------------------------
(***************************************************************************)
(* Proofs about Economy, for any set of users, products, requests and      *)
(* sessions.  The inductive invariant IInv adds to the properties what     *)
(* makes them true: which row locks a session holds at each statement, and *)
(* that what it checked under a lock still holds while it keeps the lock.  *)
(***************************************************************************)
EXTENDS Economy, TLAPS

HasUser(s)    == pc[s] \in {"record", "commit"}
HasProduct(s) == pc[s] \in {"lockUser", "commit"} /\ op[s].kind = "buy"
HasKey(s)     == pc[s] = "commit" /\ op[s].kind = "report"

(* A busy session serves a proper request at a statement of its handler,   *)
(* holds the locks of the rows it has read FOR UPDATE, and what it checked *)
(* under each lock is still so.                                            *)
SessionOK(s) ==
  /\ pc[s] # "idle" => op[s] \in Ops
  /\ pc[s] \in {"dedup", "record"} => op[s].kind = "report"
  /\ pc[s] = "lockProduct" => op[s].kind = "buy"
  /\ HasUser(s) => /\ userLock[op[s].user] = s
                   /\ bal[s] = coins[op[s].user]
                   /\ ~Refused(op[s])
  /\ HasProduct(s) => /\ productLock[op[s].what] = s
                      /\ Within(op[s].qty, stock[op[s].what])
  /\ HasKey(s) => op[s].what \notin processed

(* An inserted and uncommitted requestId is nobody else's.                 *)
KeysDistinct ==
  \A s, t \in Sessions :
    HasKey(s) /\ HasKey(t) /\ op[s].what = op[t].what => s = t

IInv ==
  /\ TypeOK /\ (\A s \in Sessions : SessionOK(s)) /\ KeysDistinct
  /\ NoOverdraft /\ LedgerExplainsBalance /\ CreditedOnce
  /\ NeverOversold /\ WithinLimit

-----------------------------------------------------------------------------

(* What every operation of a handler looks like.                           *)
LEMMA OpFacts ==
  ASSUME NEW o \in Ops
  PROVE  /\ o.user \in Users
         /\ o.kind \in {"report", "buy", "earn", "spend"}
         /\ o.kind = "report" => o.what \in Requests
         /\ o.kind = "buy" => o.what \in Products /\ o.qty \in Nat \ {0}
         /\ Amount(o) \in Nat
         /\ \A b \in Int : After(o, b) \in Int
<1>1. /\ o.user \in Users
      /\ o.kind \in {"report", "buy", "earn", "spend"}
      /\ o.kind = "report" => o.what \in Requests
      /\ o.kind = "buy" => o.what \in Products
      /\ o.qty \in Nat \ {0}
  <2>1. CASE o \in ReportOps
    BY <2>1 DEF ReportOps
  <2>2. CASE o \in BuyOps
    BY <2>2, OpsAssumption DEF BuyOps
  <2>3. CASE o \in PlainOps
    BY <2>3, OpsAssumption DEF PlainOps
  <2> QED
    BY <2>1, <2>2, <2>3 DEF Ops
<1>2. Amount(o) \in Nat
  <2>1. CASE o.kind = "report"
    BY <1>1, <2>1, OpsAssumption DEF Amount
  <2>2. CASE o.kind = "buy"
    <3>1. Price[o.what] \in Nat /\ o.qty \in Nat
      BY <1>1, <2>2, OpsAssumption
    <3>2. \A m, n \in Nat : m * n \in Nat
      OBVIOUS
    <3>3. Amount(o) = Price[o.what] * o.qty
      BY <2>2 DEF Amount
    <3> QED
      BY <3>1, <3>2, <3>3
  <2>3. CASE o.kind \notin {"report", "buy"}
    BY <1>1, <2>3 DEF Amount
  <2> QED
    BY <2>1, <2>2, <2>3
<1> QED
  BY <1>1, <1>2 DEF After

LEMMA InitIInv == Init => IInv
<1> SUFFICES ASSUME Init PROVE IInv
  OBVIOUS
<1>1. TypeOK
  BY OpsAssumption, EconomyAssumption DEF Init, TypeOK, Labels, Entries
<1>2. (\A s \in Sessions : SessionOK(s)) /\ KeysDistinct
  BY DEF Init, SessionOK, KeysDistinct, HasUser, HasProduct, HasKey
<1>3. NoOverdraft /\ LedgerExplainsBalance /\ CreditedOnce
  BY DEF Init, NoOverdraft, LedgerExplainsBalance, BalanceBefore, CreditedOnce
<1>4. NeverOversold /\ WithinLimit
  BY EconomyAssumption DEF Init, NeverOversold, WithinLimit, Within
<1> QED
  BY <1>1, <1>2, <1>3, <1>4 DEF IInv

-----------------------------------------------------------------------------

(* The part of IInv that speaks of the tables alone.                       *)
TablesSafe == NoOverdraft /\ LedgerExplainsBalance /\ CreditedOnce
              /\ NeverOversold /\ WithinLimit

LEMMA UnchangedTables ==
  ASSUME TablesSafe, UNCHANGED tables
  PROVE  TablesSafe'
BY DEF TablesSafe, tables, NoOverdraft, LedgerExplainsBalance, CreditedOnce,
       NeverOversold, WithinLimit

(* Ending a transaction touches no other session and none of its locks.    *)
LEMMA FinishFacts ==
  ASSUME TypeOK, NEW s \in Sessions, Finish(s)
  PROVE  /\ userLock' \in [Users -> Sessions \union {None}]
         /\ productLock' \in [Products -> Sessions \union {None}]
         /\ pc' \in [Sessions -> Labels]
         /\ op' \in [Sessions -> Ops \union {None}]
         /\ bal' \in [Sessions -> Int]
         /\ pc'[s] = "idle"
         /\ \A t \in Sessions \ {s} :
              /\ pc'[t] = pc[t] /\ op'[t] = op[t] /\ bal'[t] = bal[t]
              /\ \A u \in Users : userLock[u] = t => userLock'[u] = t
              /\ \A p \in Products : productLock[p] = t => productLock'[p] = t
BY DEF TypeOK, Finish, Labels

(* A step that leaves the tables and the other sessions alone preserves    *)
(* IInv when it does so for the session that moves.                        *)
LEMMA LocalStep ==
  ASSUME IInv, NEW s \in Sessions, UNCHANGED tables, TypeOK', SessionOK(s)',
         \A t \in Sessions \ {s} :
           /\ pc'[t] = pc[t] /\ op'[t] = op[t] /\ bal'[t] = bal[t]
           /\ \A u \in Users : userLock[u] = t => userLock'[u] = t
           /\ \A p \in Products : productLock[p] = t => productLock'[p] = t,
         HasKey(s)' => \A t \in Sessions \ {s} :
                         ~(HasKey(t) /\ op[t].what = op'[s].what)
  PROVE  IInv'
<1>1. \A t \in Sessions \ {s} :
        /\ HasUser(t)' <=> HasUser(t)
        /\ HasProduct(t)' <=> HasProduct(t)
        /\ HasKey(t)' <=> HasKey(t)
  BY DEF HasUser, HasProduct, HasKey
<1>2. \A t \in Sessions : SessionOK(t)'
  <2> SUFFICES ASSUME NEW t \in Sessions, t # s PROVE SessionOK(t)'
    OBVIOUS
  <2>1. SessionOK(t)
    BY DEF IInv
  <2>2. HasUser(t) \/ HasProduct(t) => op[t] \in Ops
    BY <2>1 DEF SessionOK, HasUser, HasProduct
  <2>3. HasUser(t) => op[t].user \in Users
    BY <2>2, OpFacts
  <2>4. HasProduct(t) => op[t].what \in Products
    BY <2>2, OpFacts DEF HasProduct
  <2>5. HasUser(t) => /\ userLock'[op'[t].user] = t
                      /\ bal'[t] = coins'[op'[t].user]
    BY <2>1, <2>3 DEF SessionOK, tables
  <2>6. HasUser(t) => ~Refused(op[t])'
    BY <2>1 DEF SessionOK, Refused, tables
  <2>7. HasProduct(t) => /\ productLock'[op'[t].what] = t
                         /\ Within(op[t].qty, stock[op[t].what])'
    BY <2>1, <2>4 DEF SessionOK, Within, tables
  <2> QED
    BY <1>1, <2>1, <2>5, <2>6, <2>7 DEF SessionOK, tables
<1>3. KeysDistinct'
  BY <1>1 DEF IInv, KeysDistinct
<1>4. TablesSafe'
  BY UnchangedTables DEF IInv, TablesSafe
<1> QED
  BY <1>2, <1>3, <1>4 DEF IInv, TablesSafe

LEMMA RollbackStep ==
  ASSUME IInv, NEW s \in Sessions, Rollback(s)
  PROVE  IInv'
<1>1. TypeOK /\ Finish(s) /\ UNCHANGED tables
  BY DEF IInv, Rollback
<1>2. TypeOK'
  BY <1>1, FinishFacts DEF TypeOK, tables
<1>3. pc'[s] = "idle"
  BY <1>1, FinishFacts
<1>4. SessionOK(s)' /\ ~HasKey(s)'
  BY <1>3 DEF SessionOK, HasUser, HasProduct, HasKey
<1> QED
  BY <1>1, <1>2, <1>4, FinishFacts, LocalStep

LEMMA BeginStep ==
  ASSUME IInv, NEW s \in Sessions, NEW o \in Ops, Begin(s, o)
  PROVE  IInv'
<1>1. o.kind \in {"report", "buy", "earn", "spend"}
  BY OpFacts
<1>2. /\ pc'[s] = CASE o.kind = "report" -> "dedup"
                   [] o.kind = "buy"    -> "lockProduct"
                   [] OTHER             -> "lockUser"
      /\ op'[s] = o
      /\ UNCHANGED <<tables, userLock, productLock, bal>>
      /\ \A t \in Sessions \ {s} : pc'[t] = pc[t] /\ op'[t] = op[t]
  BY DEF IInv, TypeOK, Begin, GoTo
<1>3. TypeOK'
  BY DEF IInv, TypeOK, Labels, Begin, GoTo, tables
<1>4. SessionOK(s)' /\ ~HasKey(s)'
  BY <1>1, <1>2 DEF SessionOK, HasUser, HasProduct, HasKey
<1> QED
  BY <1>2, <1>3, <1>4, LocalStep

LEMMA CheckDuplicateStep ==
  ASSUME IInv, NEW s \in Sessions, CheckDuplicate(s)
  PROVE  IInv'
<1>1. CASE Rollback(s)
  BY <1>1, RollbackStep
<1>2. CASE /\ GoTo(s, "lockUser")
           /\ UNCHANGED <<tables, userLock, productLock, op, bal>>
  <2>1. TypeOK'
    BY <1>2 DEF IInv, TypeOK, Labels, GoTo, tables
  <2>2. /\ pc'[s] = "lockUser" /\ op[s] \in Ops /\ op[s].kind = "report"
        /\ \A t \in Sessions \ {s} : pc'[t] = pc[t]
    BY <1>2 DEF IInv, TypeOK, SessionOK, CheckDuplicate, GoTo
  <2>3. SessionOK(s)' /\ ~HasKey(s)'
    BY <1>2, <2>2 DEF SessionOK, HasUser, HasProduct, HasKey
  <2> QED
    BY <1>2, <2>1, <2>2, <2>3, LocalStep
<1> QED
  BY <1>1, <1>2 DEF CheckDuplicate

LEMMA LockProductStep ==
  ASSUME IInv, NEW s \in Sessions, LockProduct(s)
  PROVE  IInv'
<1>1. CASE Rollback(s)
  BY <1>1, RollbackStep
<1>2. CASE /\ Within(op[s].qty, stock[op[s].what])
           /\ productLock' = [productLock EXCEPT ![op[s].what] = s]
           /\ GoTo(s, "lockUser")
           /\ UNCHANGED <<tables, userLock, op, bal>>
  <2>1. /\ op[s] \in Ops /\ op[s].kind = "buy" /\ op[s].what \in Products
        /\ productLock[op[s].what] = None
    BY OpFacts DEF IInv, SessionOK, LockProduct
  <2>2. TypeOK'
    BY <1>2, <2>1 DEF IInv, TypeOK, Labels, GoTo, tables
  <2>3. /\ pc'[s] = "lockUser" /\ productLock'[op[s].what] = s
        /\ \A t \in Sessions \ {s} : pc'[t] = pc[t]
    BY <1>2, <2>1 DEF IInv, TypeOK, GoTo
  <2>4. SessionOK(s)' /\ ~HasKey(s)'
    BY <1>2, <2>1, <2>3 DEF SessionOK, HasUser, HasProduct, HasKey, Within, tables
  <2>5. \A t \in Sessions \ {s} : \A p \in Products :
          productLock[p] = t => productLock'[p] = t
    BY <1>2, <2>1, EconomyAssumption DEF IInv, TypeOK
  <2> QED
    BY <1>2, <2>2, <2>3, <2>4, <2>5, LocalStep
<1> QED
  BY <1>1, <1>2 DEF LockProduct

LEMMA LockUserStep ==
  ASSUME IInv, NEW s \in Sessions, LockUser(s)
  PROVE  IInv'
<1>1. CASE Rollback(s)
  BY <1>1, RollbackStep
<1>2. CASE /\ ~Refused(op[s])
           /\ userLock' = [userLock EXCEPT ![op[s].user] = s]
           /\ bal' = [bal EXCEPT ![s] = coins[op[s].user]]
           /\ GoTo(s, IF op[s].kind = "report" THEN "record" ELSE "commit")
           /\ UNCHANGED <<tables, productLock, op>>
  <2>1. /\ op[s] \in Ops /\ op[s].user \in Users
        /\ pc[s] = "lockUser" /\ userLock[op[s].user] = None
    BY OpFacts DEF IInv, SessionOK, LockUser
  <2>2. TypeOK'
    BY <1>2, <2>1 DEF IInv, TypeOK, Labels, GoTo, tables
  <2>3. /\ pc'[s] = IF op[s].kind = "report" THEN "record" ELSE "commit"
        /\ userLock'[op[s].user] = s /\ bal'[s] = coins[op[s].user]
        /\ \A t \in Sessions \ {s} : pc'[t] = pc[t] /\ bal'[t] = bal[t]
    BY <1>2, <2>1 DEF IInv, TypeOK, GoTo
  <2>4. ~Refused(op[s])'
    BY <1>2 DEF Refused, tables
  <2>5. HasProduct(s)' => /\ productLock'[op'[s].what] = s
                          /\ Within(op[s].qty, stock[op[s].what])'
    BY <1>2, <2>1 DEF IInv, SessionOK, HasProduct, Within, tables
  <2>6. SessionOK(s)' /\ ~HasKey(s)'
    BY <1>2, <2>1, <2>3, <2>4, <2>5 DEF SessionOK, HasUser, HasKey, tables
  <2>7. \A t \in Sessions \ {s} : \A u \in Users :
          userLock[u] = t => userLock'[u] = t
    BY <1>2, <2>1, EconomyAssumption DEF IInv, TypeOK
  <2> QED
    BY <1>2, <2>2, <2>3, <2>6, <2>7, LocalStep
<1> QED
  BY <1>1, <1>2 DEF LockUser

LEMMA RecordStep ==
  ASSUME IInv, NEW s \in Sessions, Record(s)
  PROVE  IInv'
<1>1. CASE Rollback(s)
  BY <1>1, RollbackStep
<1>2. CASE /\ op[s].what \notin processed
           /\ GoTo(s, "commit")
           /\ UNCHANGED <<tables, userLock, productLock, op, bal>>
  <2>1. /\ op[s] \in Ops /\ op[s].kind = "report" /\ HasUser(s)
        /\ \A t \in Sessions \ {s} : ~(HasKey(t) /\ op[t].what = op[s].what)
    BY DEF IInv, SessionOK, Record, HoldsKey, HasKey, HasUser
  <2>2. TypeOK'
    BY <1>2 DEF IInv, TypeOK, Labels, GoTo, tables
  <2>3. pc'[s] = "commit" /\ \A t \in Sessions \ {s} : pc'[t] = pc[t]
    BY <1>2 DEF IInv, TypeOK, GoTo
  <2>4. /\ userLock[op[s].user] = s /\ bal[s] = coins[op[s].user]
        /\ ~Refused(op[s])
    BY <2>1 DEF IInv, SessionOK
  <2>5. ~Refused(op[s])'
    BY <1>2, <2>4 DEF Refused, tables
  <2>6. SessionOK(s)'
    BY <1>2, <2>1, <2>3, <2>4, <2>5
       DEF SessionOK, HasUser, HasProduct, HasKey, tables
  <2> QED
    BY <1>2, <2>1, <2>2, <2>3, <2>6, LocalStep
<1> QED
  BY <1>1, <1>2 DEF Record

(* What holds when a session commits, and what the commit writes.          *)
LEMMA CommitFacts ==
  ASSUME IInv, NEW s \in Sessions, Commit(s)
  PROVE  LET o == op[s]
             u == op[s].user IN
         /\ o \in Ops /\ u \in Users /\ Amount(o) \in Nat
         /\ HasUser(s) /\ userLock[u] = s /\ bal[s] = coins[u] /\ ~Refused(o)
         /\ o.kind = "buy" => /\ HasProduct(s) /\ o.what \in Products
                              /\ o.qty \in Nat \ {0}
                              /\ productLock[o.what] = s
                              /\ Within(o.qty, stock[o.what])
         /\ o.kind = "report" => HasKey(s) /\ o.what \in Requests
                                 /\ o.what \notin processed
         /\ coins[u] \in Int /\ After(o, coins[u]) \in Int
         /\ coins' = [coins EXCEPT ![u] = After(o, coins[u])]
         /\ ledger' = [ledger EXCEPT ![u] = Append(@, Entry(o, coins[u]))]
<1>1. /\ pc[s] = "commit" /\ op[s] \in Ops
      /\ HasUser(s) /\ userLock[op[s].user] = s
      /\ bal[s] = coins[op[s].user] /\ ~Refused(op[s])
  BY DEF IInv, SessionOK, Commit, HasUser
<1>2. /\ op[s].user \in Users /\ Amount(op[s]) \in Nat
      /\ op[s].kind = "report" => op[s].what \in Requests
      /\ op[s].kind = "buy" => op[s].what \in Products /\ op[s].qty \in Nat \ {0}
      /\ coins[op[s].user] \in Int
  BY <1>1, OpFacts DEF IInv, TypeOK
<1>3. After(op[s], coins[op[s].user]) \in Int
  BY <1>2 DEF After
<1>4. op[s].kind = "buy" => /\ HasProduct(s) /\ productLock[op[s].what] = s
                            /\ Within(op[s].qty, stock[op[s].what])
  BY <1>1 DEF IInv, SessionOK, HasProduct
<1>5. op[s].kind = "report" => HasKey(s) /\ op[s].what \notin processed
  BY <1>1 DEF IInv, SessionOK, HasKey
<1> QED
  BY <1>1, <1>2, <1>3, <1>4, <1>5 DEF Commit

LEMMA CommitType ==
  ASSUME IInv, NEW s \in Sessions, Commit(s)
  PROVE  TypeOK' /\ NoOverdraft' /\ NeverOversold' /\ WithinLimit'
<1> DEFINE o == op[s]
           u == op[s].user
<1>1. /\ o \in Ops /\ u \in Users /\ Amount(o) \in Nat
      /\ ~Refused(o) /\ coins[u] \in Int /\ After(o, coins[u]) \in Int
      /\ o.kind = "buy" => /\ o.what \in Products /\ o.qty \in Nat \ {0}
                           /\ Within(o.qty, stock[o.what])
      /\ o.kind = "report" => o.what \in Requests
      /\ coins' = [coins EXCEPT ![u] = After(o, coins[u])]
      /\ ledger' = [ledger EXCEPT ![u] = Append(@, Entry(o, coins[u]))]
  BY CommitFacts
<1>2. /\ After(o, coins[u]) <= CoinMax /\ After(o, coins[u]) >= 0
      /\ ~Debits(o) => earned[u] + Amount(o) <= CoinMax
  <2>1. coins[u] >= 0
    BY <1>1 DEF IInv, NoOverdraft
  <2>2. Fits(o, coins[u], earned[u]) /\ (Debits(o) => ~(coins[u] < Amount(o)))
    BY <1>1 DEF Refused
  <2> QED
    BY <1>1, <2>1, <2>2 DEF Fits, After
<1>3. /\ coins' \in [Users -> Int] /\ \A v \in Users : coins'[v] <= CoinMax
      /\ NoOverdraft'
  BY <1>1, <1>2 DEF IInv, TypeOK, NoOverdraft
<1>4. earned' \in [Users -> Nat] /\ \A v \in Users : earned'[v] <= CoinMax
  BY <1>1, <1>2 DEF IInv, TypeOK, Commit
<1>5. ledger' \in [Users -> Seq(Entries)]
  <2>1. Entry(o, coins[u]) \in Entries
    BY <1>1 DEF Entry, Entries
  <2>2. \A q \in Seq(Entries) : Append(q, Entry(o, coins[u])) \in Seq(Entries)
    BY <2>1
  <2> QED
    BY <1>1, <2>2 DEF IInv, TypeOK
<1>6. processed' \subseteq Requests
  BY <1>1 DEF IInv, TypeOK, Commit
<1>7. /\ stock' \in [Products -> Int \union {Unlimited}]
      /\ NeverOversold'
  BY <1>1, EconomyAssumption DEF IInv, TypeOK, NeverOversold, Within, Commit
<1>8. owned' \in [Users -> [Products -> Nat]] /\ WithinLimit'
  <2>1. CASE o.kind # "buy"
    BY <2>1 DEF IInv, TypeOK, WithinLimit, Commit
  <2>2. CASE o.kind = "buy"
    <3>1. Within(owned[u][o.what] + o.qty, MaxPerUser[o.what])
      BY <1>1, <2>2 DEF Refused
    <3>2. owned' = [owned EXCEPT ![u][o.what] = @ + o.qty]
      BY <2>2 DEF Commit
    <3> QED
      BY <1>1, <2>2, <3>1, <3>2 DEF IInv, TypeOK, WithinLimit
  <2> QED
    BY <2>1, <2>2
<1>9. TypeOK /\ Finish(s)
  BY DEF IInv, Commit
<1> QED
  BY <1>3, <1>4, <1>5, <1>6, <1>7, <1>8, <1>9, FinishFacts DEF TypeOK

(* The ledger still explains the balance after a commit.                   *)
LEMMA CommitLedger ==
  ASSUME IInv, NEW s \in Sessions, Commit(s)
  PROVE  LedgerExplainsBalance' /\ CreditedOnce'
<1> DEFINE o == op[s]
           u == op[s].user
<1>1. /\ o \in Ops /\ u \in Users
      /\ o.kind = "report" => o.what \notin processed
      /\ coins' = [coins EXCEPT ![u] = After(o, coins[u])]
      /\ ledger' = [ledger EXCEPT ![u] = Append(@, Entry(o, coins[u]))]
  BY CommitFacts
<1>2. /\ coins \in [Users -> Int] /\ ledger \in [Users -> Seq(Entries)]
      /\ Entry(o, coins[u]).op = o
      /\ Entry(o, coins[u]).balanceAfter = After(o, coins[u])
  BY DEF IInv, TypeOK, Entry
<1>3. \A v \in Users \ {u} : coins'[v] = coins[v] /\ ledger'[v] = ledger[v]
  BY <1>1, <1>2
<1>4. /\ coins'[u] = After(o, coins[u])
      /\ ledger[u] \in Seq(Entries)
      /\ ledger'[u] = Append(ledger[u], Entry(o, coins[u]))
  BY <1>1, <1>2
<1>5. /\ Len(ledger'[u]) = Len(ledger[u]) + 1 /\ Len(ledger[u]) \in Nat
      /\ \A i \in 1..Len(ledger[u]) : ledger'[u][i] = ledger[u][i]
      /\ ledger'[u][Len(ledger[u]) + 1] = Entry(o, coins[u])
  BY <1>4
<1>6. LedgerExplainsBalance'
  <2> SUFFICES ASSUME NEW v \in Users
               PROVE  /\ \A i \in 1..Len(ledger'[v]) :
                           ledger'[v][i].balanceAfter
                             = After(ledger'[v][i].op, BalanceBefore(ledger'[v], i))
                      /\ coins'[v] = BalanceBefore(ledger'[v], Len(ledger'[v]) + 1)
    BY DEF LedgerExplainsBalance, After, Amount, Debits, BalanceBefore
  <2>1. CASE v # u
    BY <1>3, <2>1 DEF IInv, LedgerExplainsBalance
  <2>2. CASE v = u
    <3>1. /\ \A i \in 1..Len(ledger[u]) : ledger[u][i].balanceAfter
               = After(ledger[u][i].op, BalanceBefore(ledger[u], i))
          /\ coins[u] = BalanceBefore(ledger[u], Len(ledger[u]) + 1)
      BY <1>1 DEF IInv, LedgerExplainsBalance
    <3>2. \A i \in 1..Len(ledger[u])+1 :
            BalanceBefore(ledger'[u], i) = BalanceBefore(ledger[u], i)
      BY <1>5 DEF BalanceBefore
    <3>3. ASSUME NEW i \in 1..Len(ledger[u])
          PROVE  ledger'[u][i].balanceAfter
                   = After(ledger'[u][i].op, BalanceBefore(ledger'[u], i))
      <4>1. /\ ledger'[u][i] = ledger[u][i]
            /\ BalanceBefore(ledger'[u], i) = BalanceBefore(ledger[u], i)
        BY <1>5, <3>2
      <4> QED
        BY <3>1, <4>1
    <3>4. ASSUME NEW i, i = Len(ledger[u]) + 1
          PROVE  ledger'[u][i].balanceAfter
                   = After(ledger'[u][i].op, BalanceBefore(ledger'[u], i))
      <4>1. /\ ledger'[u][i].op = o
            /\ ledger'[u][i].balanceAfter = After(o, coins[u])
        BY <1>2, <1>5, <3>4
      <4>2. BalanceBefore(ledger'[u], i) = coins[u]
        BY <1>5, <3>1, <3>2, <3>4
      <4> QED
        BY <4>1, <4>2
    <3>5. coins'[u] = BalanceBefore(ledger'[u], Len(ledger[u]) + 2)
      BY <1>2, <1>4, <1>5 DEF BalanceBefore
    <3>6. \A i \in 1..Len(ledger'[u]) :
            i \in 1..Len(ledger[u]) \/ i = Len(ledger[u]) + 1
      BY <1>5
    <3>7. Len(ledger'[u]) + 1 = Len(ledger[u]) + 2
      BY <1>5
    <3> QED
      BY <2>2, <3>3, <3>4, <3>5, <3>6, <3>7
  <2> QED
    BY <2>1, <2>2
<1>7. CreditedOnce'
  <2>1. /\ processed' = IF o.kind = "report" THEN processed \union {o.what}
                                             ELSE processed
        /\ o.kind = "report" => o.what \in Requests
    BY <1>1, OpFacts DEF Commit
  <2>2. \A v \in Users : /\ DOMAIN ledger[v] = 1..Len(ledger[v])
                         /\ DOMAIN ledger'[v] = 1..Len(ledger'[v])
    BY <1>2, <1>3, <1>4
  <2>3. \A v \in Users : \A i \in DOMAIN ledger'[v] :
          \/ i \in DOMAIN ledger[v] /\ ledger'[v][i] = ledger[v][i]
          \/ v = u /\ i = Len(ledger[u]) + 1 /\ ledger'[v][i].op = o
    <3> SUFFICES ASSUME NEW v \in Users, NEW i \in DOMAIN ledger'[v]
                 PROVE  \/ i \in DOMAIN ledger[v] /\ ledger'[v][i] = ledger[v][i]
                        \/ v = u /\ i = Len(ledger[u]) + 1 /\ ledger'[v][i].op = o
      OBVIOUS
    <3>1. CASE v # u
      BY <1>3, <3>1
    <3>2. CASE v = u
      <4>1. i \in 1..Len(ledger[u]) \/ i = Len(ledger[u]) + 1
        BY <1>5, <2>2, <3>2
      <4>2. i = Len(ledger[u]) + 1 => ledger'[u][i].op = o
        BY <1>2, <1>5
      <4> QED
        BY <1>5, <2>2, <3>2, <4>1, <4>2
    <3> QED
      BY <3>1, <3>2
  <2>4. \A v \in Users : \A i \in DOMAIN ledger[v] :
          i \in DOMAIN ledger'[v] /\ ledger'[v][i] = ledger[v][i]
    <3> SUFFICES ASSUME NEW v \in Users, NEW i \in DOMAIN ledger[v]
                 PROVE  i \in DOMAIN ledger'[v] /\ ledger'[v][i] = ledger[v][i]
      OBVIOUS
    <3>1. CASE v # u
      BY <1>3, <3>1
    <3>2. CASE v = u
      BY <1>5, <2>2, <3>2
    <3> QED
      BY <3>1, <3>2
  <2>5. \A v, w \in Users : \A i \in DOMAIN ledger'[v], j \in DOMAIN ledger'[w] :
          \A r \in Requests :
            IsCredit(ledger'[v][i], r) /\ IsCredit(ledger'[w][j], r) => v = w /\ i = j
    BY <1>1, <2>3 DEF IInv, CreditedOnce, IsCredit
  <2>6. ASSUME NEW r \in Requests
        PROVE  r \in processed' <=> \E v \in Users : \E i \in DOMAIN ledger'[v] :
                                     IsCredit(ledger'[v][i], r)
    <3>1. ASSUME NEW v \in Users, NEW i \in DOMAIN ledger'[v],
                 IsCredit(ledger'[v][i], r)
          PROVE  r \in processed'
      BY <2>1, <2>3, <3>1 DEF IInv, CreditedOnce, IsCredit
    <3>2. ASSUME r \in processed
          PROVE  \E v \in Users : \E i \in DOMAIN ledger'[v] :
                   IsCredit(ledger'[v][i], r)
      <4>1. PICK v \in Users : \E i \in DOMAIN ledger[v] : IsCredit(ledger[v][i], r)
        BY <3>2 DEF IInv, CreditedOnce
      <4> QED
        BY <2>4, <4>1
    <3>3. ASSUME o.kind = "report", r = o.what
          PROVE  \E v \in Users : \E i \in DOMAIN ledger'[v] :
                   IsCredit(ledger'[v][i], r)
      <4>1. /\ Len(ledger[u]) + 1 \in DOMAIN ledger'[u]
            /\ IsCredit(ledger'[u][Len(ledger[u]) + 1], r)
        BY <1>1, <1>2, <1>5, <2>2, <3>3 DEF IsCredit
      <4> QED
        BY <1>1, <4>1
    <3>4. r \in processed' => r \in processed \/ (o.kind = "report" /\ r = o.what)
      BY <2>1
    <3> QED
      BY <3>1, <3>2, <3>3, <3>4
  <2> QED
    BY <2>5, <2>6 DEF CreditedOnce, IsCredit
<1> QED
  BY <1>6, <1>7

-----------------------------------------------------------------------------

(* A commit keeps what the other sessions checked under their own locks:   *)
(* they hold the locks of other users and, when they buy, other products.  *)
LEMMA CommitOthers ==
  ASSUME IInv, NEW s \in Sessions, Commit(s), NEW t \in Sessions, t # s
  PROVE  SessionOK(t)'
<1> DEFINE o == op[s]
           u == op[s].user
<1>1. /\ u \in Users /\ userLock[u] = s
      /\ o.kind = "buy" => o.what \in Products /\ productLock[o.what] = s
      /\ o.kind = "report" => HasKey(s)
      /\ coins' = [coins EXCEPT ![u] = After(o, coins[u])]
  BY CommitFacts
<1>2. SessionOK(t) /\ TypeOK /\ Finish(s)
  BY DEF IInv, Commit
<1>3. /\ pc'[t] = pc[t] /\ op'[t] = op[t] /\ bal'[t] = bal[t]
      /\ \A v \in Users : userLock[v] = t => userLock'[v] = t
      /\ \A p \in Products : productLock[p] = t => productLock'[p] = t
  BY <1>2, FinishFacts
<1>4. HasUser(t) => /\ userLock'[op[t].user] = t
                    /\ bal[t] = coins'[op[t].user]
                    /\ ~Refused(op[t])'
  <2> SUFFICES ASSUME HasUser(t)
               PROVE  /\ userLock'[op[t].user] = t
                      /\ bal[t] = coins'[op[t].user]
                      /\ ~Refused(op[t])'
    OBVIOUS
  <2>1. op[t] \in Ops /\ userLock[op[t].user] = t /\ ~Refused(op[t])
        /\ bal[t] = coins[op[t].user]
    BY <1>2 DEF SessionOK, HasUser
  <2>2. op[t].user \in Users /\ op[t].user # u
    BY <1>1, <2>1, OpFacts
  <2>3. /\ coins'[op[t].user] = coins[op[t].user]
        /\ earned'[op[t].user] = earned[op[t].user]
        /\ owned'[op[t].user] = owned[op[t].user]
    BY <1>1, <1>2, <2>2 DEF TypeOK, Commit
  <2> QED
    BY <1>3, <2>1, <2>2, <2>3 DEF Refused
<1>5. HasProduct(t) => /\ productLock'[op[t].what] = t
                       /\ Within(op[t].qty, stock[op[t].what])'
  <2> SUFFICES ASSUME HasProduct(t)
               PROVE  /\ productLock'[op[t].what] = t
                      /\ Within(op[t].qty, stock[op[t].what])'
    OBVIOUS
  <2>1. /\ op[t] \in Ops /\ op[t].kind = "buy" /\ productLock[op[t].what] = t
        /\ Within(op[t].qty, stock[op[t].what])
    BY <1>2 DEF SessionOK, HasProduct
  <2>2. op[t].what \in Products
    BY <2>1, OpFacts
  <2>3. stock'[op[t].what] = stock[op[t].what]
    BY <1>1, <1>2, <2>1, <2>2 DEF TypeOK, Commit
  <2> QED
    BY <1>3, <2>1, <2>2, <2>3 DEF Within
<1>6. HasKey(t) => op[t].what \notin processed'
  BY <1>1, <1>2 DEF IInv, SessionOK, KeysDistinct, HasKey, Commit
<1> QED
  BY <1>2, <1>3, <1>4, <1>5, <1>6 DEF SessionOK, HasUser, HasProduct, HasKey

LEMMA CommitStep ==
  ASSUME IInv, NEW s \in Sessions, Commit(s)
  PROVE  IInv'
<1>1. TypeOK /\ Finish(s)
  BY DEF IInv, Commit
<1>2. pc'[s] = "idle"
  BY <1>1, FinishFacts
<1>3. SessionOK(s)' /\ ~HasKey(s)'
  BY <1>2 DEF SessionOK, HasUser, HasProduct, HasKey
<1>4. \A t \in Sessions : SessionOK(t)'
  BY <1>3, CommitOthers
<1>5. KeysDistinct'
  <2>1. \A t \in Sessions \ {s} : pc'[t] = pc[t] /\ op'[t] = op[t]
    BY <1>1, FinishFacts
  <2> QED
    BY <1>3, <2>1 DEF IInv, KeysDistinct, HasKey
<1> QED
  BY <1>4, <1>5, CommitType, CommitLedger DEF IInv

LEMMA NextStep ==
  ASSUME IInv, [Next]_vars
  PROVE  IInv'
<1>1. ASSUME NEW s \in Sessions, NEW o \in Ops, Begin(s, o)
      PROVE  IInv'
  BY <1>1, BeginStep
<1>2. ASSUME NEW s \in Sessions, Step(s)
      PROVE  IInv'
  BY <1>2, CheckDuplicateStep, LockProductStep, LockUserStep, RecordStep,
     CommitStep DEF Step
<1>3. ASSUME NEW s \in Sessions, Fail(s)
      PROVE  IInv'
  BY <1>3, RollbackStep DEF Fail
<1>4. CASE UNCHANGED vars
  <2>1. \A s \in Sessions : SessionOK(s)'
    BY <1>4 DEF IInv, SessionOK, HasUser, HasProduct, HasKey, Refused, Within,
                vars, tables
  <2>2. TypeOK' /\ KeysDistinct' /\ TablesSafe'
    BY <1>4, UnchangedTables
       DEF IInv, TypeOK, KeysDistinct, HasKey, TablesSafe, vars, tables
  <2> QED
    BY <2>1, <2>2 DEF IInv, TablesSafe
<1> QED
  BY <1>1, <1>2, <1>3, <1>4 DEF Next

(* The inductive invariant holds in every reachable state.               *)
THEOREM Inductive == Spec => []IInv
  BY InitIInv, NextStep, PTL DEF Spec

-----------------------------------------------------------------------------

(* The columns keep their types: in particular no balance, and no total of *)
(* earned coins, leaves the range of an INTEGER.                           *)
THEOREM TypeCorrect == Spec => []TypeOK
<1>1. IInv => TypeOK
  BY DEF IInv
<1> QED
  BY <1>1, Inductive, PTL

(* No interleaving of debits overdraws a user.                             *)
THEOREM NeverOverdrawn == Spec => []NoOverdraft
<1>1. IInv => NoOverdraft
  BY DEF IInv
<1> QED
  BY <1>1, Inductive, PTL

(* No update of a balance is lost: the ledger accounts for all of them.    *)
THEOREM LedgerAudits == Spec => []LedgerExplainsBalance
<1>1. IInv => LedgerExplainsBalance
  BY DEF IInv
<1> QED
  BY <1>1, Inductive, PTL

(* Retried and simultaneous reports of one requestId pay once.             *)
THEOREM ReportsPayOnce == Spec => []CreditedOnce
<1>1. IInv => CreditedOnce
  BY DEF IInv
<1> QED
  BY <1>1, Inductive, PTL

(* Concurrent purchases respect the stock and the limit per user.          *)
THEOREM PurchaseLimits == Spec => []LimitsKept
<1>1. IInv => LimitsKept
  BY DEF IInv, LimitsKept
<1> QED
  BY <1>1, Inductive, PTL

-----------------------------------------------------------------------------

(* The wallet means the same operations.                                   *)
LEMMA SameOps ==
  /\ AtomicWallet!Ops = Ops
  /\ \A o : AtomicWallet!Debits(o) = Debits(o)
  /\ \A o : AtomicWallet!Amount(o) = Amount(o)
  /\ \A o, b : AtomicWallet!After(o, b) = After(o, b)
  /\ \A o, b : AtomicWallet!Entry(o, b) = Entry(o, b)
  /\ \A o, b, e : AtomicWallet!Fits(o, b, e) = Fits(o, b, e)
BY DEF AtomicWallet!Ops, AtomicWallet!ReportOps, AtomicWallet!BuyOps,
       AtomicWallet!PlainOps, AtomicWallet!Debits, AtomicWallet!Amount,
       AtomicWallet!After, AtomicWallet!Entry, AtomicWallet!Fits,
       Ops, ReportOps, BuyOps, PlainOps, Debits, Amount, After, Entry, Fits

(* Only a commit moves the four tables of the wallet, and it applies its   *)
(* operation as one atomic step would.                                     *)
LEMMA CommitApplies ==
  ASSUME IInv, NEW s \in Sessions, Commit(s)
  PROVE  AtomicWallet!Apply(op[s])
<1>1. /\ ~Refused(op[s]) /\ bal[s] = coins[op[s].user]
      /\ op[s].kind = "report" => op[s].what \notin processed
      /\ coins[op[s].user] \in Int /\ Amount(op[s]) \in Nat
  BY CommitFacts
<1>2. /\ Debits(op[s]) => Amount(op[s]) <= coins[op[s].user]
      /\ Fits(op[s], coins[op[s].user], earned[op[s].user])
  BY <1>1 DEF Refused
<1>3. AtomicWallet!Post(op[s])
  BY <1>1, SameOps DEF Commit, AtomicWallet!Post
<1> QED
  BY <1>1, <1>2, <1>3, SameOps DEF AtomicWallet!Apply

LEMMA StepRefines ==
  ASSUME IInv, [Next]_vars
  PROVE  [AtomicWallet!WalletNext]_AtomicWallet!walletVars
<1>1. ASSUME NEW s \in Sessions, Commit(s)
      PROVE  AtomicWallet!WalletNext
  BY <1>1, CommitApplies, CommitFacts, SameOps DEF AtomicWallet!WalletNext
<1>2. ASSUME UNCHANGED tables
      PROVE  UNCHANGED AtomicWallet!walletVars
  BY <1>2 DEF tables, AtomicWallet!walletVars
<1>3. ASSUME NEW s \in Sessions, Step(s), ~Commit(s)
      PROVE  UNCHANGED tables
  BY <1>3 DEF Step, CheckDuplicate, LockProduct, LockUser, Record, Rollback
<1>4. ASSUME NEW s \in Sessions, Fail(s) \/ \E o \in Ops : Begin(s, o)
      PROVE  UNCHANGED tables
  BY <1>4 DEF Fail, Rollback, Begin
<1>5. CASE UNCHANGED vars
  BY <1>2, <1>5 DEF vars
<1> QED
  BY <1>1, <1>2, <1>3, <1>4, <1>5 DEF Next

(* Seen from outside, concurrent requests on shared rows are a sequence of *)
(* atomic wallet operations, whatever fails in between.                    *)
THEOREM Refinement == Spec => ImplementsWallet
<1>1. Init => AtomicWallet!WalletInit
  BY DEF Init, AtomicWallet!WalletInit
<1>2. IInv /\ [Next]_vars => [AtomicWallet!WalletNext]_AtomicWallet!walletVars
  BY StepRefines
<1> QED
  BY <1>1, <1>2, Inductive, PTL DEF Spec, ImplementsWallet, AtomicWallet!WalletSpec
===========================================================================
