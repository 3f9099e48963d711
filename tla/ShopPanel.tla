------------------------------- MODULE ShopPanel -------------------------------
(* The furniture shop as a window shows it: the panel's state (useShopState.ts) *)
(* and its dialogs (ShopModal.tsx, PurchaseConfirmation.tsx), the relay and the *)
(* connection that carry its requests and answers in order (shopRelay.ts,       *)
(* wsClient.ts), and the server's handlers, which answer the requests of one    *)
(* connection one after the other and tell a new balance to the room through    *)
(* the hub. The windows are those of one user, in the user's own room. Coins    *)
(* earned meanwhile are left out: the server tells them as economy:coinsUpdate, *)
(* the extension waits for coins_update, and no panel hears of them.            *)
EXTENDS Naturals, Sequences, SequencesExt, FiniteSetsExt

CONSTANTS Windows,      \* the editor windows in which the user has the shop
          Products,     \* the products of the catalog
          Price,        \* what each of them costs
          MaxQuantity,  \* bound: units of one product in a cart
          Funds,        \* the user's coins at the start
          MaxOpens,     \* bound: times the shop is opened
          MaxConfirms,  \* bound: confirmed purchases
          SendBuffer,   \* messages a client's channel holds (256)
          MaxFaults,    \* bound: connections lost, failed reads, panels hidden
          Nothing       \* null

ASSUME ShopAssumption ==
  /\ Price \in [Products -> Nat] /\ IsFiniteSet(Products) /\ Funds \in Nat
  /\ Nothing \notin Nat
  /\ Nothing \notin [stage : {"sold", "answered", "told"}, left : Nat, cost : Nat, gone : BOOLEAN]

VARIABLES panel, visible, connected, up, down, handling, broadcasts, balance, owned,
          opens, confirms, faults,
          \* history, for the properties: a request or an answer of the window was
          \* lost; its panel is new and was never opened; it missed a balance or
          \* forgot it; sales overlapped; the balance of the last sale; what each
          \* window bought; the last balance told to the room
          lost, bare, missed, raced, left, bought, told

user == <<panel, visible, bare, connected, opens, confirms>>
server == <<handling, broadcasts, balance, owned, raced, left, bought, told>>
shopVars == <<user, up, down, server, faults, lost, missed>>

NoItems == [p \in Products |-> 0]

(* What useState and the modal start with. The panel's coins start at zero:     *)
(* App's own counter is only their initial value.                               *)
Closed == [isOpen |-> FALSE, isLoading |-> FALSE, error |-> FALSE, cart |-> NoItems,
           inventory |-> NoItems, coins |-> 0, processing |-> FALSE, result |-> Nothing,
           showPurchaseConfirm |-> FALSE]

(* An earlier sale may have told every window the balance.                      *)
ShopInit ==
  /\ told \in {Nothing, Funds}
  /\ panel = [w \in Windows |-> IF told = Nothing THEN Closed ELSE [Closed EXCEPT !.coins = Funds]]
  /\ visible = [w \in Windows |-> TRUE]
  /\ connected = [w \in Windows |-> TRUE]
  /\ up = [w \in Windows |-> <<>>] /\ down = [w \in Windows |-> <<>>]
  /\ handling = [w \in Windows |-> Nothing]
  /\ broadcasts = <<>> /\ balance = Funds /\ owned = NoItems
  /\ opens = 0 /\ confirms = 0 /\ faults = 0
  /\ lost = [w \in Windows |-> FALSE] /\ bare = [w \in Windows |-> TRUE]
  /\ missed = [w \in Windows |-> FALSE] /\ raced = FALSE /\ left = told
  /\ bought = [w \in Windows |-> NoItems]

-------------------------------------------------------------------------------
(* The panel. *)

InCart(w) == {p \in Products : panel[w].cart[p] > 0}
cartTotal(w) == MapThenSumSet(LAMBDA p : Price[p] * panel[w].cart[p], Products)
canAffordCart(w) == cartTotal(w) <= panel[w].coins

(* send drops the request of a window that is not connected.                    *)
Send(w, requests) ==
  /\ up' = IF connected[w] THEN [up EXCEPT ![w] = @ \o requests] ELSE up
  /\ lost' = IF connected[w] THEN lost ELSE [lost EXCEPT ![w] = TRUE]

Catalog == [kind |-> "getCatalog"]
Inventory == [kind |-> "getInventory"]
Purchase(p, n) == [kind |-> "purchase", product |-> p, quantity |-> n]

Opened(s) == [s EXCEPT !.isOpen = TRUE, !.isLoading = TRUE]

OpenShop(w) ==
  /\ visible[w] /\ ~panel[w].isOpen /\ opens < MaxOpens
  /\ opens' = opens + 1 /\ bare' = [bare EXCEPT ![w] = FALSE]
  /\ panel' = [panel EXCEPT ![w] = Opened(@)]
  /\ Send(w, <<Catalog, Inventory>>)
  /\ UNCHANGED <<visible, connected, down, confirms, faults, missed, server>>

(* A step of the panel that sends nothing.                                      *)
Show(w, s) == /\ panel' = [panel EXCEPT ![w] = s]
              /\ UNCHANGED <<visible, bare, connected, up, down, opens, confirms,
                             faults, lost, missed, server>>

(* Closing leaves the cart, a purchase in progress and the dialog as they are.  *)
CloseShop(s) == [s EXCEPT !.isOpen = FALSE, !.result = Nothing]

(* The cross, a click beside the panel, or a click in the dialog but on none of *)
(* its buttons: the dialog lies inside the overlay that closes the shop.        *)
ClickAway(w) == panel[w].isOpen /\ Show(w, CloseShop(panel[w]))

Escape(w) ==
  /\ panel[w].isOpen
  /\ Show(w, IF panel[w].showPurchaseConfirm
               THEN [panel[w] EXCEPT !.showPurchaseConfirm = FALSE]
               ELSE CloseShop(panel[w]))

(* The grid and the cart can be clicked.                                        *)
Browsing(w) == LET s == panel[w] IN
  s.isOpen /\ ~s.isLoading /\ ~s.error /\ ~s.showPurchaseConfirm

(* The grid offers what the user can pay; the cart's '+' does not look.         *)
AddToCart(w, p) ==
  /\ Browsing(w) /\ (Price[p] <= panel[w].coins \/ panel[w].cart[p] > 0)
  /\ panel[w].cart[p] < MaxQuantity
  /\ Show(w, [panel[w] EXCEPT !.cart[p] = @ + 1])

(* One unit less, but not the last, or the whole item.                          *)
TakeFromCart(w, p) ==
  /\ Browsing(w)
  /\ \E n \in {0} \cup 1 .. panel[w].cart[p] - 1 :
       /\ n \in {0, panel[w].cart[p] - 1} /\ panel[w].cart[p] > 0
       /\ Show(w, [panel[w] EXCEPT !.cart[p] = n])

ClearCart(w) == /\ Browsing(w) /\ InCart(w) # {}
                /\ Show(w, [panel[w] EXCEPT !.cart = NoItems])

Checkout(w) == /\ Browsing(w) /\ InCart(w) # {} /\ canAffordCart(w) /\ ~panel[w].processing
               /\ Show(w, [panel[w] EXCEPT !.showPurchaseConfirm = TRUE])

InDialog(w) == /\ panel[w].isOpen /\ panel[w].showPurchaseConfirm
               /\ ~panel[w].processing

LeftDialog(s) == CloseShop([s EXCEPT !.showPurchaseConfirm = FALSE])

(* Confirm asks for every item of the cart; the click then closes the shop too, *)
(* which forgets an "Insufficient coins" as soon as it is said.                 *)
Confirm(w) ==
  /\ InDialog(w) /\ panel[w].result = Nothing /\ confirms < MaxConfirms
  /\ InCart(w) # {} /\ canAffordCart(w)
  /\ confirms' = confirms + 1
  /\ \E items \in SetToSeqs(InCart(w)) :
       Send(w, [i \in DOMAIN items |-> Purchase(items[i], panel[w].cart[items[i]])])
  /\ panel' = [panel EXCEPT ![w] = [LeftDialog(@) EXCEPT !.processing = TRUE]]
  /\ UNCHANGED <<visible, bare, connected, down, opens, faults, missed, server>>

(* Cancel, Continue, Close, and a Confirm that is refused at once.              *)
LeaveDialog(w) == InDialog(w) /\ Show(w, LeftDialog(panel[w]))

(* The view is registered without retainContextWhenHidden: a hidden panel is    *)
(* destroyed, and built anew, in its first state, when it is shown again.       *)
HidePanel(w) ==
  /\ visible[w] /\ faults < MaxFaults
  /\ faults' = faults + 1 /\ visible' = [visible EXCEPT ![w] = FALSE]
  /\ panel' = [panel EXCEPT ![w] = Closed]
  /\ bare' = [bare EXCEPT ![w] = TRUE] /\ missed' = [missed EXCEPT ![w] = TRUE]
  /\ UNCHANGED <<connected, up, down, opens, confirms, lost, server>>

ShowPanel(w) ==
  /\ ~visible[w] /\ visible' = [visible EXCEPT ![w] = TRUE]
  /\ UNCHANGED <<panel, bare, connected, up, down, opens, confirms, faults, lost, missed,
                 server>>

-------------------------------------------------------------------------------
(* The server: one reader per connection takes its requests one after another.  *)

(* SendToClient drops a message for which the client's channel has no room. A   *)
(* handler of a connection that is gone answers nobody.                         *)
Reaches(w) == /\ connected[w] /\ Len(down[w]) < SendBuffer
              /\ handling[w] # Nothing => ~handling[w].gone
Answer(w, answer) == IF Reaches(w)
  THEN down' = [down EXCEPT ![w] = Append(@, answer)] /\ UNCHANGED lost
  ELSE lost' = [lost EXCEPT ![w] = TRUE] /\ UNCHANGED down

Failed == [kind |-> "error"]
Listed == [kind |-> "inventory", items |-> owned]
Sold(ok, coins) == [kind |-> "purchaseResult", success |-> ok, remainingBalance |-> coins]
NewBalance(coins, delta) == [kind |-> "balanceUpdate", balance |-> coins, delta |-> delta]

Requested(w, kind) == up[w] # <<>> /\ handling[w] = Nothing /\ up[w][1].kind = kind
Taken(w) == up' = [up EXCEPT ![w] = Tail(@)]

(* Reading the database fails.                                                  *)
ReadFails == faults < MaxFaults /\ faults' = faults + 1

(* The answer that needs the database, or the one given when reading it fails.  *)
Read(w, answer) ==
  \/ Answer(w, answer) /\ UNCHANGED faults
  \/ ReadFails /\ Answer(w, Failed)

HandleGetCatalog(w) ==
  /\ Requested(w, "getCatalog") /\ Taken(w)
  /\ Read(w, [kind |-> "catalog"])
  /\ UNCHANGED <<user, missed, server>>

HandleGetInventory(w) ==
  /\ Requested(w, "getInventory") /\ Taken(w)
  /\ Read(w, Listed)
  /\ UNCHANGED <<user, missed, server>>

(* The purchase is refused, or is committed and remains to be told. raced notes *)
(* that another window's sale is committed and not yet on its way to the room.  *)
HandlePurchase(w) ==
  /\ Requested(w, "purchase") /\ Taken(w)
  /\ LET p == up[w][1].product
         n == up[w][1].quantity
         cost == Price[p] * n
     IN \/ /\ Answer(w, Sold(FALSE, 0)) /\ UNCHANGED server
        \/ /\ cost <= balance
           /\ balance' = balance - cost /\ owned' = [owned EXCEPT ![p] = @ + n]
           /\ handling' = [handling EXCEPT ![w] = [stage |-> "sold", left |-> balance - cost,
                                                   cost |-> cost, gone |-> FALSE]]
           /\ left' = balance - cost /\ bought' = [bought EXCEPT ![w][p] = @ + n]
           /\ raced' = (raced \/ \E o \in Windows : handling[o] # Nothing)
           /\ UNCHANGED <<down, lost, broadcasts, told>>
  /\ UNCHANGED <<user, faults, missed>>

TellBuyer(w) ==
  /\ handling[w] # Nothing /\ handling[w].stage = "sold"
  /\ Answer(w, Sold(TRUE, handling[w].left))
  /\ handling' = [handling EXCEPT ![w].stage = "answered"]
  /\ UNCHANGED <<user, up, faults, missed, broadcasts, balance, owned, raced, left, bought, told>>

(* The inventory follows, unless reading it fails: then nothing does.           *)
SendInventory(w) ==
  /\ handling[w] # Nothing /\ handling[w].stage = "answered"
  /\ \/ Answer(w, Listed) /\ UNCHANGED faults
     \/ ReadFails /\ UNCHANGED <<down, lost>>
  /\ handling' = [handling EXCEPT ![w].stage = "told"]
  /\ UNCHANGED <<user, up, missed, broadcasts, balance, owned, raced, left, bought, told>>

(* BroadcastToRoom, into the hub's channel.                                     *)
TellRoom(w) ==
  /\ handling[w] # Nothing /\ handling[w].stage = "told"
  /\ broadcasts' = Append(broadcasts, NewBalance(handling[w].left, handling[w].cost))
  /\ handling' = [handling EXCEPT ![w] = Nothing]
  /\ UNCHANGED <<user, faults, up, down, balance, owned, lost, missed, raced, left, bought, told>>

(* A connection at its end. Requests that nobody read are lost, and a handler   *)
(* at work has nobody to answer. The model lets the requests of the window's    *)
(* next connection wait for that handler; the code does not.                    *)
Ended(ws) ==
  /\ connected' = [w \in Windows |-> connected[w] /\ w \notin ws]
  /\ up' = [w \in Windows |-> IF w \in ws THEN <<>> ELSE up[w]]
  /\ handling' = [w \in Windows |-> IF w \in ws /\ handling[w] # Nothing
                                    THEN [handling[w] EXCEPT !.gone = TRUE] ELSE handling[w]]

(* The hub hands the next message of its channel to every client of the room.   *)
(* One whose channel is full is cut off: it still gets what the channel holds.  *)
HubSends ==
  /\ broadcasts # <<>>
  /\ broadcasts' = Tail(broadcasts) /\ told' = broadcasts[1].balance
  /\ LET hear == {w \in Windows : connected[w] /\ Len(down[w]) < SendBuffer}
     IN /\ down' = [w \in Windows |-> IF w \in hear THEN Append(down[w], broadcasts[1])
                                                       ELSE down[w]]
        /\ lost' = [w \in Windows |-> lost[w] \/ w \notin hear]
        /\ missed' = [w \in Windows |-> w \notin hear \/ ~visible[w]]
        /\ Ended({w \in Windows : connected[w] /\ w \notin hear})
  /\ UNCHANGED <<panel, visible, bare, opens, confirms, faults, balance, owned, raced,
                 left, bought>>

-------------------------------------------------------------------------------
(* What the panel makes of an answer.                                           *)

\* Slip: the new balance is taken for the change.
PricedByDelta(s, a) == [s EXCEPT !.coins = IF @ >= a.delta THEN @ - a.delta ELSE 0]

Priced(s, a) == [s EXCEPT !.coins = a.balance]

\* Slip: a purchase that fails leaves the panel processing it.
ResultedStillProcessing(s, a) ==
  IF a.success
    THEN [s EXCEPT !.result = "success", !.processing = FALSE, !.cart = NoItems,
                   !.coins = a.remainingBalance]
    ELSE [s EXCEPT !.result = "failure"]

Resulted(s, a) ==
  IF a.success
    THEN [s EXCEPT !.result = "success", !.processing = FALSE, !.cart = NoItems,
                   !.coins = a.remainingBalance]
    ELSE [s EXCEPT !.result = "failure", !.processing = FALSE]

Refused(s) == [s EXCEPT !.error = TRUE, !.isLoading = FALSE, !.processing = FALSE]

Shown(s, a) ==
  CASE a.kind = "catalog"        -> [s EXCEPT !.isLoading = FALSE]
    [] a.kind = "inventory"      -> [s EXCEPT !.inventory = a.items]
    [] a.kind = "purchaseResult" -> Resulted(s, a)
    [] a.kind = "balanceUpdate"  -> Priced(s, a)
    [] a.kind = "error"          -> Refused(s)

\* Slip: the inventory is not asked for again.
AsksNothing(a) == <<>>

(* A sale makes the panel ask for the inventory again.                          *)
Asks(a) == IF a.kind = "purchaseResult" /\ a.success THEN <<Inventory>> ELSE <<>>

(* The relay listens to each of these events and posts it to the panel. A       *)
(* hidden panel gets nothing.                                                   *)
Receive(w) ==
  /\ down[w] # <<>>
  /\ down' = [down EXCEPT ![w] = Tail(@)]
  /\ IF visible[w]
       THEN panel' = [panel EXCEPT ![w] = Shown(@, down[w][1])] /\ Send(w, Asks(down[w][1]))
       ELSE UNCHANGED <<panel, up, lost>>
  /\ UNCHANGED <<visible, bare, connected, opens, confirms, faults, missed, server>>

(* The connection goes, with what was on its way.                               *)
Drop(w) ==
  /\ connected[w] /\ faults < MaxFaults
  /\ faults' = faults + 1
  /\ lost' = [lost EXCEPT ![w] = @ \/ up[w] # <<>> \/ down[w] # <<>>]
  /\ missed' = [missed EXCEPT ![w] = @ \/ down[w] # <<>>]
  /\ down' = [down EXCEPT ![w] = <<>>] /\ Ended({w})
  /\ UNCHANGED <<panel, visible, bare, opens, confirms, broadcasts, balance, owned,
                 raced, left, bought, told>>

(* The client connects again by itself, once it has heard the end of the old    *)
(* connection, and asks for nothing.                                            *)
ConnectAgain(w) ==
  /\ ~connected[w] /\ down[w] = <<>> /\ connected' = [connected EXCEPT ![w] = TRUE]
  /\ UNCHANGED <<panel, visible, bare, up, down, opens, confirms, faults, lost, missed,
                 server>>

-------------------------------------------------------------------------------
ShopNext ==
  \/ \E w \in Windows :
       \/ OpenShop(w) \/ ClickAway(w) \/ Escape(w) \/ ClearCart(w) \/ Checkout(w)
       \/ Confirm(w) \/ LeaveDialog(w)
       \/ \E p \in Products : AddToCart(w, p) \/ TakeFromCart(w, p)
       \/ HandleGetCatalog(w) \/ HandleGetInventory(w) \/ HandlePurchase(w)
       \/ TellBuyer(w) \/ SendInventory(w) \/ TellRoom(w) \/ Receive(w) \/ Drop(w)
       \/ ConnectAgain(w) \/ HidePanel(w) \/ ShowPanel(w)
  \/ HubSends

(* The reader of a connection, the hub and the extension's event loop go on     *)
(* working; nobody has to click, and no connection has to be lost or restored.  *)
ShopFairness ==
  /\ \A w \in Windows :
       /\ WF_shopVars(HandleGetCatalog(w) \/ HandleGetInventory(w) \/ HandlePurchase(w))
       /\ WF_shopVars(TellBuyer(w) \/ SendInventory(w) \/ TellRoom(w))
       /\ WF_shopVars(Receive(w))
  /\ WF_shopVars(HubSends)

ShopSpec == ShopInit /\ [][ShopNext]_shopVars /\ ShopFairness

-------------------------------------------------------------------------------
(* The properties. *)

(* Nothing is on its way to the window or being sold.                           *)
AtRest(w) == /\ up[w] = <<>> /\ down[w] = <<>> /\ broadcasts = <<>>
             /\ \A o \in Windows : handling[o] = Nothing

(* A panel that says "Loading" or "Processing" stops saying so, unless a request *)
(* or an answer of its window is lost, with the connection or at a full channel: *)
(* openShop, purchaseItems and the handler (useShopState.ts:59-257).            *)
WaitsEnd == \A w \in Windows :
  /\ panel[w].isLoading ~> (lost[w] \/ ~panel[w].isLoading)
  /\ panel[w].processing ~> (lost[w] \/ ~panel[w].processing)

(* Once the messages have arrived, every window shows the balance last told to  *)
(* the room, whichever window bought and however sales, answers and broadcasts  *)
(* overlapped (client.go:304), so that the windows agree; and when no two sales *)
(* overlapped, it is what the last sale left. Excepted are the windows that did *)
(* not hear of that balance, or forgot it when they were hidden.                *)
CoinsShown == \A w \in Windows :
  AtRest(w) /\ ~missed[w] /\ told # Nothing =>
    panel[w].coins = told /\ (~raced => told = left)

(* A panel that was opened ends up showing all its window bought, even when the *)
(* inventory that follows a sale could not be read (client.go:284), or shows    *)
(* that something failed. One that is built anew shows nothing until then.      *)
OwnPurchasesShown == \A w \in Windows :
  AtRest(w) /\ ~lost[w] /\ ~bare[w] /\ ~panel[w].error =>
    \A p \in Products : panel[w].inventory[p] >= bought[w][p]

(* Never checked: a panel that can be seen shows the coins the user has. When   *)
(* sales overlap, the older balance may be told last; a panel that was hidden   *)
(* starts at zero, and nothing asks for the balance (useShopState.ts:48).       *)
NewestShown == \A w \in Windows :
  AtRest(w) /\ ~lost[w] /\ visible[w] /\ left # Nothing => panel[w].coins = left

(* Never checked: no product is asked for a second time while its purchase is   *)
(* under way. A dialog left open by a click beside it lets Confirm ask again.    *)
NeverAskedTwice == \A w \in Windows : \A p \in Products :
  Cardinality({i \in DOMAIN up[w] : up[w][i].kind = "purchase" /\ up[w][i].product = p}) <= 1
===============================================================================
