------------------------------ MODULE Wallet ------------------------------
(***************************************************************************)
(* What the economy promises its callers: every operation that moves coins *)
(* happens at one instant or not at all.  A debit never exceeds the        *)
(* balance, a requestId is credited once, and each change of a balance     *)
(* appends the ledger row that explains it.                                *)
(***************************************************************************)
EXTENDS EconomyOps

VARIABLES
  coins,      \* users.coins
  earned,     \* users.total_coins_earned
  ledger,     \* ledger[u]: the rows of table transactions of user u, in order
  processed   \* table processed_requests

walletVars == <<coins, earned, ledger, processed>>

WalletInit ==
  /\ coins = [u \in Users |-> 0]
  /\ earned = [u \in Users |-> 0]
  /\ ledger = [u \in Users |-> <<>>]
  /\ processed = {}

(* The effect of o on the four tables.                                     *)
Post(o) ==
  /\ coins' = [coins EXCEPT ![o.user] = After(o, @)]
  /\ earned' = [earned EXCEPT ![o.user] = IF Debits(o) THEN @ ELSE @ + Amount(o)]
  /\ ledger' = [ledger EXCEPT ![o.user] = Append(@, Entry(o, coins[o.user]))]
  /\ processed' = IF o.kind = "report" THEN processed \union {o.what}
                                       ELSE processed

Apply(o) ==
  /\ Debits(o) => Amount(o) <= coins[o.user]
  /\ o.kind = "report" => o.what \notin processed
  /\ Fits(o, coins[o.user], earned[o.user])
  /\ Post(o)

WalletNext == \E o \in Ops : Apply(o)

WalletSpec == WalletInit /\ [][WalletNext]_walletVars
===========================================================================
