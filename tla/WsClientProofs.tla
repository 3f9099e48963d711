--------------------------- MODULE WsClientProofs ---------------------------
(***************************************************************************)
(* Proofs about WsClient, for any set of sockets and any maximal delay.    *)
(* Until connect() is over the client has nothing that could call back;    *)
(* afterwards it owns one token, which a socket or the timer holds.        *)
(* And proofs about ShopPanel, the shop whose requests and answers these   *)
(* connections carry, for any windows, products and prices.                *)
(***************************************************************************)
EXTENDS WsClient, ShopPanel, FiniteSetTheorems, TLAPS

(* connect() is not over: there is neither a socket nor a timer.           *)
NothingYet ==
  connecting # "done" => ~timer /\ ws = None /\ \A i \in Sockets : ~Live(i)

(* A socket that may still open is this.ws; what is not this.ws is closing *)
(* because the client asked for it.                                        *)
Referenced ==
  \A i \in Sockets :
    /\ socket[i] \in {"opening", "open"} => ws = i
    /\ socket[i] = "closing" => ws = None

(* Only a disposal makes a close intentional.                              *)
ByDisposal == intentional => disposed

CInv ==
  /\ TypeOK /\ NothingYet /\ Referenced /\ ByDisposal
  /\ OneConnection /\ StateIsTrue /\ NeverStranded

LEMMA InitCInv == Init => CInv
<1> SUFFICES ASSUME Init PROVE CInv
  OBVIOUS
<1>1. TypeOK
  <2>1. /\ backoff \in 0..MaxBackoff /\ registering \in Nat /\ storing \in Nat
        /\ registering + storing <= MaxAwaiting
    BY ClientAssumption DEF Init
  <2> QED
    BY <2>1 DEF Init, TypeOK
<1>2. NothingYet /\ Referenced /\ ByDisposal
  BY DEF Init, NothingYet, Referenced, ByDisposal, Live
<1>3. OneConnection /\ StateIsTrue /\ NeverStranded
  BY DEF Init, OneConnection, StateIsTrue, NeverStranded, Live
<1> QED
  BY <1>1, <1>2, <1>3 DEF CInv

-----------------------------------------------------------------------------

(* doConnect, from a client that has neither socket nor timer pending.     *)
LEMMA DoConnectStep ==
  ASSUME CInv, NEW authenticated \in BOOLEAN, DoConnect(authenticated),
         \A i \in Sockets : ~Live(i),
         connecting' = "done", disposed' = disposed, urlValid' = urlValid,
         intentional' \in BOOLEAN, intentional' => intentional,
         backoff' \in 0..MaxBackoff, token' \in BOOLEAN,
         secret' = secret, registering' = registering, storing' = storing
  PROVE  CInv'
<1>1. ws = None
  BY DEF CInv, StateIsTrue, TypeOK
<1>2. CASE ~urlValid /\ timer' = TRUE /\ UNCHANGED <<ws, socket, known>>
  <2>1. TypeOK'
    BY <1>2 DEF CInv, TypeOK, DoConnect
  <2>2. NothingYet' /\ Referenced' /\ ByDisposal'
    BY <1>2 DEF CInv, NothingYet, Referenced, ByDisposal, Live
  <2>3. OneConnection' /\ NeverStranded'
    BY <1>2 DEF OneConnection, NeverStranded, Live
  <2>4. StateIsTrue'
    BY <1>1, <1>2 DEF StateIsTrue, Live, DoConnect
  <2> QED
    BY <2>1, <2>2, <2>3, <2>4 DEF CInv
<1>3. CASE urlValid /\ timer' = FALSE /\ NewSocket(authenticated)
  <2>1. PICK n \in Sockets :
          /\ ws' = n /\ socket' = [socket EXCEPT ![n] = "opening"]
          /\ known' = IF authenticated THEN known \union {n} ELSE known \ {n}
    BY <1>3 DEF NewSocket
  <2>2. \A i \in Sockets : socket'[i] = IF i = n THEN "opening" ELSE "closed"
    BY <2>1 DEF CInv, TypeOK, Live
  <2>3. TypeOK'
    BY <1>3, <2>1 DEF CInv, TypeOK, DoConnect
  <2>4. NothingYet' /\ Referenced' /\ ByDisposal'
    BY <2>1, <2>2 DEF CInv, NothingYet, Referenced, ByDisposal, Live
  <2>5. OneConnection' /\ NeverStranded'
    BY <1>3, <2>2 DEF OneConnection, NeverStranded, Live
  <2>6. StateIsTrue'
    BY <2>1, <2>2, ClientAssumption DEF StateIsTrue, Live, DoConnect
  <2> QED
    BY <2>3, <2>4, <2>5, <2>6 DEF CInv
<1> QED
  BY <1>2, <1>3 DEF DoConnect

LEMMA SecretReadStep == CInv /\ SecretRead => CInv'
<1> SUFFICES ASSUME CInv, SecretRead PROVE CInv'
  OBVIOUS
<1>1. \A i \in Sockets : ~Live(i)
  BY DEF CInv, NothingYet, SecretRead
<1>2. /\ secret \in BOOLEAN /\ token' \in BOOLEAN /\ intentional' = FALSE
      /\ backoff' \in 0..MaxBackoff
  BY DEF CInv, TypeOK, SecretRead
<1> QED
  BY <1>1, <1>2, DoConnectStep DEF SecretRead

LEMMA ReconnectStep == CInv /\ Reconnect => CInv'
<1> SUFFICES ASSUME CInv, Reconnect PROVE CInv'
  OBVIOUS
<1>1. \A i \in Sockets : ~Live(i)
  BY DEF CInv, OneConnection, Reconnect
<1>2. connecting = "done"
  BY DEF CInv, NothingYet, Reconnect
<1>3. backoff' \in 0..MaxBackoff
  BY ClientAssumption DEF CInv, TypeOK, Reconnect, Longer
<1>4. token \in BOOLEAN /\ intentional \in BOOLEAN
  BY DEF CInv, TypeOK
<1> QED
  BY <1>1, <1>2, <1>3, <1>4, DoConnectStep DEF Reconnect, api, auth

-----------------------------------------------------------------------------

(* The socket's events.                                                    *)
LEMMA OpenStep ==
  ASSUME CInv, NEW i \in Sockets, Open(i)
  PROVE  CInv'
<1>1. ws = i /\ \A j \in Sockets : j # i => socket[j] = "closed"
  BY DEF CInv, TypeOK, Referenced, OneConnection, Live, Open
<1>2. /\ \A j \in Sockets : socket'[j] = IF j = i THEN "open" ELSE "closed"
      /\ ws' = i /\ state' = "connected" /\ timer' = timer
  BY <1>1 DEF CInv, TypeOK, Open
<1>3. TypeOK'
  BY ClientAssumption DEF CInv, TypeOK, Open, api
<1>4. connecting = "done"
  BY DEF CInv, NothingYet, Live, Open
<1>5. NothingYet' /\ Referenced' /\ ByDisposal'
  BY <1>2, <1>4 DEF CInv, NothingYet, Referenced, ByDisposal, Open, api
<1>6. OneConnection' /\ NeverStranded'
  BY <1>2 DEF CInv, OneConnection, NeverStranded, Live, Open, api
<1>7. StateIsTrue'
  BY <1>2, ClientAssumption DEF StateIsTrue, Live
<1> QED
  BY <1>3, <1>5, <1>6, <1>7 DEF CInv

LEMMA CloseStep ==
  ASSUME CInv, NEW i \in Sockets, Close(i)
  PROVE  CInv'
<1>1. \A j \in Sockets : socket'[j] = "closed"
  BY DEF CInv, TypeOK, OneConnection, Live, Close
<1>2. ws' = None /\ state' = "disconnected" /\ timer' = (timer \/ ~intentional)
  BY DEF Close
<1>3. TypeOK'
  BY DEF CInv, TypeOK, Close, api, auth
<1>4. connecting = "done"
  BY DEF CInv, NothingYet, Close
<1>5. NothingYet' /\ Referenced' /\ ByDisposal'
  BY <1>1, <1>4 DEF CInv, NothingYet, Referenced, ByDisposal, Close, api
<1>6. OneConnection' /\ StateIsTrue'
  BY <1>1, <1>2 DEF OneConnection, StateIsTrue, Live
<1>7. NeverStranded'
  BY <1>2 DEF CInv, ByDisposal, NeverStranded, Close, api
<1> QED
  BY <1>3, <1>5, <1>6, <1>7 DEF CInv

(* disconnect(): the socket is closing and no longer referenced.           *)
LEMMA DisposeStep == CInv /\ Dispose => CInv'
<1> SUFFICES ASSUME CInv, Dispose PROVE CInv'
  OBVIOUS
<1>1. \A i \in Sockets : socket'[i] \in {"closing", "closed"}
  BY DEF CInv, TypeOK, Referenced, Dispose
<1>2. \A i \in Sockets : socket'[i] # "closed" => Live(i)
  BY ClientAssumption DEF CInv, StateIsTrue, Dispose, Live
<1>3. ws' = None /\ state' = "disconnected" /\ timer' = FALSE /\ disposed' = TRUE
  BY DEF Dispose
<1>4. TypeOK'
  BY DEF CInv, TypeOK, Dispose, auth
<1>5. NothingYet' /\ Referenced' /\ ByDisposal'
  BY <1>1, <1>2, <1>3 DEF CInv, NothingYet, Referenced, ByDisposal, Dispose, Live
<1>6. OneConnection' /\ StateIsTrue' /\ NeverStranded'
  BY <1>1, <1>2, <1>3 DEF CInv, OneConnection, StateIsTrue, NeverStranded, Live
<1> QED
  BY <1>4, <1>5, <1>6 DEF CInv

-----------------------------------------------------------------------------

(* What touches neither a socket nor the timer.                            *)
LEMMA OtherStep ==
  ASSUME CInv, Configure \/ Connect \/ Registered \/ Stored \/ UNCHANGED vars
  PROVE  CInv'
<1>1. /\ UNCHANGED <<disposed, state, ws, socket, timer, intentional>>
      /\ connecting' = connecting \/ (connecting # "done" /\ connecting' # "done")
  BY DEF Configure, Connect, Registered, Stored, vars, api, auth
<1>2. TypeOK'
  <2>1. CASE Configure \/ Connect
    BY <2>1 DEF CInv, TypeOK, Configure, Connect, auth
  <2>2. CASE Registered
    BY <2>2, ClientAssumption DEF CInv, TypeOK, Registered, api
  <2>3. CASE Stored
    BY <2>3, ClientAssumption DEF CInv, TypeOK, Stored, api
  <2>4. CASE UNCHANGED vars
    BY <2>4 DEF CInv, TypeOK, vars, api, auth
  <2> QED
    BY <2>1, <2>2, <2>3, <2>4
<1>3. NothingYet' /\ Referenced' /\ ByDisposal'
  BY <1>1 DEF CInv, NothingYet, Referenced, ByDisposal, Live
<1>4. OneConnection' /\ StateIsTrue' /\ NeverStranded'
  BY <1>1 DEF CInv, OneConnection, StateIsTrue, NeverStranded, Live
<1> QED
  BY <1>2, <1>3, <1>4 DEF CInv

(* CInv is inductive.                                                      *)
THEOREM ClientInvariant == Spec => []CInv
<1>1. CInv /\ [Next]_vars => CInv'
  BY SecretReadStep, ReconnectStep, OpenStep, CloseStep, DisposeStep, OtherStep
     DEF Next, SocketEvent
<1> QED
  BY InitCInv, <1>1, PTL DEF Spec

(* The delay between attempts never exceeds its maximum.                   *)
THEOREM ClientTypes == Spec => []TypeOK
<1>1. CInv => TypeOK
  BY DEF CInv
<1> QED
  BY ClientInvariant, <1>1, PTL

(* The window never has two connections, nor one and a timer that would    *)
(* open another.                                                           *)
THEOREM ClientConnectsOnce == Spec => []OneConnection
<1>1. CInv => OneConnection
  BY DEF CInv
<1> QED
  BY ClientInvariant, <1>1, PTL

(* What send() believes of the connection is true.                         *)
THEOREM ClientTellsTruth == Spec => []StateIsTrue
<1>1. CInv => StateIsTrue
  BY DEF CInv
<1> QED
  BY ClientInvariant, <1>1, PTL

(* A client that nobody closed always has a socket or a timer, also after  *)
(* an attempt that made no socket (wsClient.ts:137-141, :178-188).         *)
THEOREM ClientNeverStranded == Spec => []NeverStranded
<1>1. CInv => NeverStranded
  BY DEF CInv
<1> QED
  BY ClientInvariant, <1>1, PTL

-----------------------------------------------------------------------------

(* The shop that the windows show over such connections, for any windows,  *)
(* products, prices and bounds.  A sale at work is:                        *)
Sale == [stage : {"sold", "answered", "told"}, left : Nat, cost : Nat, gone : BOOLEAN]
Request == [kind : {"getCatalog", "getInventory"}]
             \union [kind : {"purchase"}, product : Products, quantity : Nat]
Stock == [kind : {"inventory"}, items : [Products -> Nat]]
Result == [kind : {"purchaseResult"}, success : BOOLEAN, remainingBalance : Nat]
Update == [kind : {"balanceUpdate"}, balance : Nat, delta : Nat]
Failure == [kind : {"error"}]
Reply == [kind : {"catalog"}] \union Stock \union Result \union Update \union Failure
Panel == [isOpen : BOOLEAN, isLoading : BOOLEAN, error : BOOLEAN, cart : [Products -> Nat],
          inventory : [Products -> Nat], coins : Nat, processing : BOOLEAN,
          result : {Nothing, "success", "failure"}, showPurchaseConfirm : BOOLEAN]

ShopTypes ==
  /\ panel \in [Windows -> Panel]
  /\ connected \in [Windows -> BOOLEAN] /\ visible \in [Windows -> BOOLEAN]
  /\ up \in [Windows -> Seq(Request)] /\ down \in [Windows -> Seq(Reply)]
  /\ handling \in [Windows -> {Nothing} \union Sale] /\ broadcasts \in Seq(Update)
  /\ balance \in Nat /\ owned \in [Products -> Nat]
  /\ lost \in [Windows -> BOOLEAN] /\ bare \in [Windows -> BOOLEAN]
  /\ missed \in [Windows -> BOOLEAN] /\ raced \in BOOLEAN
  /\ left \in {Nothing} \union Nat /\ told \in {Nothing} \union Nat
  /\ bought \in [Windows -> [Products -> Nat]]

(* A message of a kind is under way; the last message of a kind is one of  *)
(* the good ones.                                                          *)
Has(s, K) == \E i \in DOMAIN s : s[i] \in K
EndsIn(s, K, G) == \E i \in DOMAIN s : s[i] \in G /\ \A j \in DOMAIN s : j > i => s[j] \notin K

Asked == [kind : {"getInventory"}]
SaleReply == {r \in Result : r.success}
AtLeast(items, wanted) == \A p \in Products : items[p] >= wanted[p]
Enough(wanted) == {s \in Stock : AtLeast(s.items, wanted)}

(* A hidden panel is new, and hears of no balance.                         *)
HiddenInv == \A w \in Windows : ~visible[w] => bare[w] /\ missed[w]

(* What a window bought the user owns, and its panel, once it was opened,  *)
(* shows it or will: it asks for the inventory, will ask because of a      *)
(* sale, or the last one on its way, or the one it shows, was read after   *)
(* its last sale.                                                          *)
WillShow(w) ==
  \/ bare[w] \/ Has(up[w], Asked) \/ Has(down[w], SaleReply) \/ Has(down[w], Failure) \/ panel[w].error
  \/ handling[w] # Nothing /\ handling[w].stage = "sold"
  \/ EndsIn(down[w], Stock, Enough(bought[w]))
  \/ ~Has(down[w], Stock) /\ AtLeast(panel[w].inventory, bought[w])

PurchasesInv == \A w \in Windows : AtLeast(owned, bought[w]) /\ (~lost[w] => WillShow(w))

(* While sales have not overlapped, only one handler is at work, on the    *)
(* last sale.                                                              *)
OneSale ==
  ~raced => \A v, w \in Windows :
              handling[v] # Nothing /\ handling[w] # Nothing => v = w /\ handling[v].left = left

(* The last coins on their way to a window, or the ones it shows, are those *)
(* last told to the room, unless others are still to be told.               *)
PriceReply == Update \union SaleReply
Telling(coins) == [kind : {"balanceUpdate"}, balance : {coins}, delta : Nat]
                    \union [kind : {"purchaseResult"}, success : {TRUE}, remainingBalance : {coins}]
AtWork == \E v \in Windows : handling[v] # Nothing
WillCount(w) ==
  \/ AtWork \/ broadcasts # <<>>
  \/ EndsIn(down[w], PriceReply, Telling(told))
  \/ ~Has(down[w], PriceReply) /\ panel[w].coins = told
CoinsInv == told # Nothing => \A w \in Windows : ~missed[w] => WillCount(w)

(* While sales have not overlapped, the balance told last is, or will be,   *)
(* that of the last sale.                                                   *)
ToldInv == ~raced =>
  \/ AtWork
  \/ broadcasts # <<>> /\ broadcasts[Len(broadcasts)].balance = left
  \/ broadcasts = <<>> /\ told = left

ShopInv == ShopTypes /\ HiddenInv /\ PurchasesInv /\ OneSale /\ CoinsInv /\ ToldInv

-----------------------------------------------------------------------------

(* What can be told of a channel when messages are added and taken.        *)
LEMMA ChannelGrows ==
  ASSUME NEW A, NEW s \in Seq(A), NEW t \in Seq(A), NEW K, NEW G
  PROVE  /\ Has(s, K) \/ Has(t, K) <=> Has(s \o t, K)
         /\ EndsIn(t, K, G) => EndsIn(s \o t, K, G)
         /\ EndsIn(s, K, G) /\ ~Has(t, K) => EndsIn(s \o t, K, G)
<1> DEFINE u == s \o t
<1>1. /\ DOMAIN s = 1 .. Len(s) /\ DOMAIN t = 1 .. Len(t) /\ Len(s) \in Nat /\ Len(t) \in Nat
      /\ DOMAIN u = 1 .. Len(s) + Len(t)
      /\ \A i \in DOMAIN u : u[i] = IF i <= Len(s) THEN s[i] ELSE t[i - Len(s)]
  OBVIOUS
<1> HIDE DEF u
<1>2. /\ \A i \in DOMAIN s : i \in DOMAIN u /\ u[i] = s[i]
      /\ \A i \in DOMAIN t : i + Len(s) \in DOMAIN u /\ u[i + Len(s)] = t[i]
      /\ \A i \in DOMAIN u : \/ i \in DOMAIN s /\ u[i] = s[i]
                             \/ i - Len(s) \in DOMAIN t /\ i > Len(s) /\ u[i] = t[i - Len(s)]
  <2>1. \A i \in DOMAIN s : i \in DOMAIN u /\ u[i] = s[i]
    BY <1>1
  <2>2. \A i \in DOMAIN t : i + Len(s) \in DOMAIN u /\ u[i + Len(s)] = t[i]
    <3> TAKE i \in DOMAIN t
    <3>1. /\ i \in Nat /\ i >= 1 /\ i <= Len(t) /\ i + Len(s) \in 1 .. Len(s) + Len(t)
          /\ ~(i + Len(s) <= Len(s)) /\ i + Len(s) - Len(s) = i
      BY <1>1
    <3> QED
      BY <1>1, <3>1
  <2>3. \A i \in DOMAIN u : \/ i \in DOMAIN s /\ u[i] = s[i]
                            \/ i - Len(s) \in DOMAIN t /\ i > Len(s) /\ u[i] = t[i - Len(s)]
    BY <1>1
  <2> QED
    BY <2>1, <2>2, <2>3
<1>3. Has(s, K) \/ Has(t, K) <=> Has(u, K)
  BY <1>2 DEF Has
<1>4. EndsIn(t, K, G) => EndsIn(u, K, G)
  <2> SUFFICES ASSUME NEW i \in DOMAIN t, t[i] \in G, \A j \in DOMAIN t : j > i => t[j] \notin K
               PROVE  EndsIn(u, K, G)
    BY DEF EndsIn
  <2>1. \A j \in DOMAIN u : j > i + Len(s) => u[j] \notin K
    BY <1>1, <1>2
  <2> QED
    BY <1>2, <2>1 DEF EndsIn
<1>5. EndsIn(s, K, G) /\ ~Has(t, K) => EndsIn(u, K, G)
  BY <1>2 DEF EndsIn, Has
<1> QED
  BY <1>3, <1>4, <1>5 DEF u

LEMMA ChannelTaken ==
  ASSUME NEW A, NEW s \in Seq(A), s # <<>>, NEW K, NEW G
  PROVE  /\ Has(s, K) => s[1] \in K \/ Has(Tail(s), K)
         /\ Has(Tail(s), K) => Has(s, K)
         /\ EndsIn(s, K, G) => EndsIn(Tail(s), K, G) \/ (s[1] \in G /\ ~Has(Tail(s), K))
<1> DEFINE u == Tail(s)
<1>1. /\ DOMAIN s = 1 .. Len(s) /\ Len(s) \in Nat \ {0} /\ DOMAIN u = 1 .. Len(s) - 1
      /\ \A i \in DOMAIN u : u[i] = s[i + 1]
  OBVIOUS
<1> HIDE DEF u
<1>2. /\ \A i \in DOMAIN u : i + 1 \in DOMAIN s /\ s[i + 1] = u[i] /\ i + 1 > 1
      /\ \A i \in DOMAIN s : i = 1 \/ (i - 1 \in DOMAIN u /\ s[i] = u[i - 1] /\ i > 1)
  <2>1. \A i \in DOMAIN u : i + 1 \in DOMAIN s /\ s[i + 1] = u[i] /\ i + 1 > 1
    BY <1>1
  <2>2. \A i \in DOMAIN s : i = 1 \/ (i - 1 \in DOMAIN u /\ s[i] = u[i - 1] /\ i > 1)
    <3> TAKE i \in DOMAIN s
    <3>1. CASE i # 1
      <4>1. i - 1 \in DOMAIN u /\ i > 1 /\ i - 1 + 1 = i
        BY <1>1, <3>1
      <4> QED
        BY <1>1, <4>1
    <3> QED
      BY <3>1
  <2> QED
    BY <2>1, <2>2
<1>3. (Has(s, K) => s[1] \in K \/ Has(u, K)) /\ (Has(u, K) => Has(s, K))
  BY <1>2 DEF Has
<1>4. EndsIn(s, K, G) => EndsIn(u, K, G) \/ (s[1] \in G /\ ~Has(u, K))
  <2> SUFFICES ASSUME NEW i \in DOMAIN s, s[i] \in G, \A j \in DOMAIN s : j > i => s[j] \notin K
               PROVE  EndsIn(u, K, G) \/ (s[1] \in G /\ ~Has(u, K))
    BY DEF EndsIn
  <2>1. CASE i = 1
    BY <1>2, <2>1 DEF Has
  <2>2. CASE i # 1
    <3>1. i - 1 \in DOMAIN u /\ u[i - 1] \in G
      BY <1>2, <2>2
    <3>2. \A j \in DOMAIN u : j > i - 1 => u[j] \notin K
      BY <1>1, <1>2
    <3> QED
      BY <3>1, <3>2 DEF EndsIn
  <2> QED
    BY <2>1, <2>2
<1> QED
  BY <1>3, <1>4 DEF u

LEMMA LastKept ==
  ASSUME NEW A, NEW s \in Seq(A), s # <<>>
  PROVE  /\ Tail(s) \in Seq(A)
         /\ Tail(s) # <<>> => Tail(s)[Len(Tail(s))] = s[Len(s)]
         /\ Tail(s) = <<>> => s[Len(s)] = s[1]
<1> DEFINE t == Tail(s)
<1>1. /\ Len(s) \in Nat \ {0} /\ t \in Seq(A) /\ Len(t) = Len(s) - 1
      /\ \A i \in 1 .. Len(s) - 1 : t[i] = s[i + 1]
  OBVIOUS
<1> HIDE DEF t
<1>2. t = <<>> <=> Len(t) = 0
  BY <1>1
<1>3. t # <<>> => t[Len(t)] = s[Len(s)]
  <2>1. t # <<>> => Len(s) - 1 \in 1 .. Len(s) - 1 /\ Len(s) - 1 + 1 = Len(s)
    BY <1>1, <1>2
  <2> QED
    BY <1>1, <2>1
<1>4. t = <<>> => s[Len(s)] = s[1]
  <2>1. Len(t) = 0 => Len(s) = 1
    BY <1>1
  <2> QED
    BY <1>2, <2>1
<1> QED
  BY <1>1, <1>3, <1>4 DEF t

(* A channel of one or two messages.                                       *)
LEMMA ShortChannels ==
  ASSUME NEW a, NEW b, NEW K, NEW G
  PROVE  /\ ~Has(<<>>, K) /\ ~EndsIn(<<>>, K, G)
         /\ Has(<<a>>, K) <=> a \in K
         /\ a \in G => EndsIn(<<a>>, K, G)
         /\ Has(<<a, b>>, K) <=> a \in K \/ b \in K
         /\ b \in G => EndsIn(<<a, b>>, K, G)
<1>1. DOMAIN <<>> = {} /\ DOMAIN <<a>> = {1} /\ DOMAIN <<a, b>> = {1, 2}
  OBVIOUS
<1>2. ~Has(<<>>, K) /\ ~EndsIn(<<>>, K, G)
  BY DEF Has, EndsIn
<1>3. (Has(<<a>>, K) <=> a \in K) /\ (a \in G => EndsIn(<<a>>, K, G))
  BY <1>1 DEF Has, EndsIn
<1>4. (Has(<<a, b>>, K) <=> a \in K \/ b \in K) /\ (b \in G => EndsIn(<<a, b>>, K, G))
  BY <1>1 DEF Has, EndsIn
<1> QED
  BY <1>2, <1>3, <1>4

(* A message is of the kind its tag says.                                  *)
LEMMA Kinds ==
  /\ \A r \in Reply : /\ r.kind = "catalog" => r \notin Stock /\ r \notin SaleReply /\ r \notin Failure
                                               /\ r \notin Update
                      /\ r.kind = "inventory" => r \in Stock /\ r \notin SaleReply /\ r \notin Failure
                                                 /\ r \notin Update
                      /\ r.kind = "purchaseResult" =>
                           /\ r \in Result /\ (r.success <=> r \in SaleReply) /\ r \notin Stock
                           /\ r \notin Failure /\ r \notin Update
                      /\ r.kind = "balanceUpdate" => r \in Update /\ r \notin Stock /\ r \notin SaleReply
                                                     /\ r \notin Failure
                      /\ r.kind = "error" => r \in Failure /\ r \notin Stock /\ r \notin SaleReply
                                             /\ r \notin Update
                      /\ r.kind \in {"catalog", "inventory", "purchaseResult", "balanceUpdate", "error"}
  /\ \A r \in Request : r.kind = "getInventory" <=> r \in Asked
<1>1. \A r \in Request : r.kind = "getInventory" <=> r \in Asked
  BY DEF Request, Asked
<1>2. ASSUME NEW r \in Reply
      PROVE  /\ r.kind \in {"catalog", "inventory", "purchaseResult", "balanceUpdate", "error"}
             /\ r \in Stock <=> r.kind = "inventory"
             /\ r \in Result <=> r.kind = "purchaseResult"
             /\ r \in Update <=> r.kind = "balanceUpdate"
             /\ r \in Failure <=> r.kind = "error"
  BY <1>2 DEF Reply, Stock, Result, Update, Failure
<1> QED
  BY <1>1, <1>2 DEF SaleReply

-----------------------------------------------------------------------------

(* What the ends of the channels do to a window's channels.                *)
LEMMA Sending ==
  ASSUME ShopTypes, NEW w \in Windows, NEW requests \in Seq(Request), Send(w, requests)
  PROVE  /\ up' \in [Windows -> Seq(Request)] /\ lost' \in [Windows -> BOOLEAN]
         /\ \A v \in Windows : /\ lost[v] => lost'[v]
                               /\ Has(up[v], Asked) => Has(up'[v], Asked)
         /\ ~lost'[w] => up'[w] = up[w] \o requests
<1>1. /\ up \in [Windows -> Seq(Request)] /\ lost \in [Windows -> BOOLEAN]
      /\ connected \in [Windows -> BOOLEAN]
  BY DEF ShopTypes
<1>2. CASE connected[w]
  <2>1. /\ up' = [up EXCEPT ![w] = up[w] \o requests] /\ lost' = lost
        /\ up[w] \o requests \in Seq(Request)
    BY <1>1, <1>2 DEF Send
  <2>2. Has(up[w], Asked) => Has(up[w] \o requests, Asked)
    BY <1>1, ChannelGrows
  <2> QED
    BY <1>1, <2>1, <2>2
<1>3. CASE ~connected[w]
  <2>1. up' = up /\ lost' = [lost EXCEPT ![w] = TRUE]
    BY <1>3 DEF Send
  <2> QED
    BY <1>1, <2>1
<1> QED
  BY <1>2, <1>3

LEMMA Answering ==
  ASSUME ShopTypes, NEW w \in Windows, NEW a \in Reply, Answer(w, a)
  PROVE  /\ down' \in [Windows -> Seq(Reply)] /\ lost' \in [Windows -> BOOLEAN]
         /\ \A v \in Windows \ {w} : down'[v] = down[v] /\ lost'[v] = lost[v]
         /\ ~lost'[w] => ~lost[w] /\ down'[w] = down[w] \o <<a>>
         /\ down'[w] = down[w] \/ down'[w] = down[w] \o <<a>>
<1>1. /\ down \in [Windows -> Seq(Reply)] /\ lost \in [Windows -> BOOLEAN]
      /\ down[w] \in Seq(Reply)
  BY DEF ShopTypes
<1>2. CASE Reaches(w)
  <2>1. down' = [down EXCEPT ![w] = Append(down[w], a)] /\ lost' = lost
    BY <1>2 DEF Answer
  <2>2. Append(down[w], a) = down[w] \o <<a>> /\ down[w] \o <<a>> \in Seq(Reply)
    BY <1>1
  <2> QED
    BY <1>1, <2>1, <2>2
<1>3. CASE ~Reaches(w)
  <2>1. down' = down /\ lost' = [lost EXCEPT ![w] = TRUE]
    BY <1>3 DEF Answer
  <2> QED
    BY <1>1, <2>1
<1> QED
  BY <1>2, <1>3

LEMMA Taking ==
  ASSUME ShopTypes, NEW w \in Windows, NEW kind, Requested(w, kind), Taken(w)
  PROVE  /\ up' \in [Windows -> Seq(Request)] /\ handling[w] = Nothing
         /\ up[w][1] \in Request /\ up[w][1].kind = kind
         /\ \A v \in Windows \ {w} : up'[v] = up[v]
         /\ kind # "getInventory" /\ Has(up[w], Asked) => Has(up'[w], Asked)
<1>1. up \in [Windows -> Seq(Request)] /\ up[w] # <<>> /\ up[w] \in Seq(Request)
  BY DEF ShopTypes, Requested
<1>2. up' = [up EXCEPT ![w] = Tail(up[w])] /\ Tail(up[w]) \in Seq(Request)
  BY <1>1 DEF Taken
<1>3. up[w][1] \in Request /\ up[w][1].kind = kind /\ handling[w] = Nothing
  BY <1>1 DEF Requested
<1>4. kind # "getInventory" => up[w][1] \notin Asked
  BY <1>3 DEF Asked
<1>5. Has(up[w], Asked) => up[w][1] \in Asked \/ Has(Tail(up[w]), Asked)
  BY <1>1, ChannelTaken
<1> QED
  BY <1>1, <1>2, <1>3, <1>4, <1>5

(* Coins are on their way as before.                                       *)
LEMMA CoinsStill ==
  ASSUME ShopInv, UNCHANGED <<raced, left, broadcasts, told>>,
         \A v \in Windows : handling'[v] # Nothing <=> handling[v] # Nothing,
         \A v \in Windows : ~missed'[v] =>
           /\ ~missed[v] /\ panel'[v].coins = panel[v].coins
           /\ EndsIn(down[v], PriceReply, Telling(told)) => EndsIn(down'[v], PriceReply, Telling(told))
           /\ Has(down'[v], PriceReply) => Has(down[v], PriceReply)
  PROVE  CoinsInv' /\ ToldInv'
<1>1. AtWork' <=> AtWork
  BY DEF AtWork
<1>2. CoinsInv'
  <2> SUFFICES ASSUME told # Nothing, NEW w \in Windows, ~missed'[w] PROVE WillCount(w)'
    BY DEF CoinsInv
  <2>1. WillCount(w)
    BY DEF ShopInv, CoinsInv
  <2>2. /\ panel'[w].coins = panel[w].coins
        /\ EndsIn(down[w], PriceReply, Telling(told)) => EndsIn(down'[w], PriceReply, Telling(told))
        /\ Has(down'[w], PriceReply) => Has(down[w], PriceReply)
    OBVIOUS
  <2> QED
    BY <1>1, <2>1, <2>2 DEF WillCount
<1>3. ToldInv'
  BY <1>1 DEF ShopInv, ToldInv
<1> QED
  BY <1>2, <1>3

(* The panel s shows the same inventory, coins and failure as the panel o. *)
Kept(o, s) == s \in Panel /\ s.error = o.error /\ s.inventory = o.inventory /\ s.coins = o.coins

(* A click: the panel keeps what it shows, and may ask for something; a    *)
(* panel that is opened asks for the inventory.                            *)
LEMMA Clicked ==
  ASSUME ShopInv, NEW w \in Windows, NEW s, panel' = [panel EXCEPT ![w] = s],
         Kept(panel[w], s), up' \in [Windows -> Seq(Request)], lost' \in [Windows -> BOOLEAN],
         \A v \in Windows : lost[v] => lost'[v],
         \A v \in Windows : Has(up[v], Asked) => Has(up'[v], Asked),
         bare' \in [Windows -> BOOLEAN],
         \A v \in Windows : bare'[v] # bare[v] => visible[v] /\ (lost'[v] \/ Has(up'[v], Asked)),
         UNCHANGED <<visible, connected, down, handling, broadcasts, balance, owned, raced, left,
                     bought, missed, told>>
  PROVE  ShopInv'
<1>1. ShopTypes'
  BY DEF ShopInv, ShopTypes, Kept
<1>2. \A v \in Windows : /\ panel'[v].error = panel[v].error
                         /\ panel'[v].inventory = panel[v].inventory
                         /\ panel'[v].coins = panel[v].coins
  BY DEF ShopInv, ShopTypes, Kept
<1>3. PurchasesInv'
  <2> SUFFICES ASSUME NEW v \in Windows PROVE AtLeast(owned, bought[v])' /\ (~lost'[v] => WillShow(v)')
    BY DEF PurchasesInv
  <2>1. AtLeast(owned, bought[v]) /\ (~lost[v] => WillShow(v))
    BY DEF ShopInv, PurchasesInv
  <2>2. /\ Has(up[v], Asked) => Has(up'[v], Asked)
        /\ bare'[v] # bare[v] => lost'[v] \/ Has(up'[v], Asked)
    OBVIOUS
  <2> QED
    BY <1>2, <2>1, <2>2 DEF WillShow
<1>4. OneSale' /\ HiddenInv'
  BY DEF ShopInv, OneSale, HiddenInv
<1>5. CoinsInv' /\ ToldInv'
  BY <1>2, CoinsStill
<1> QED
  BY <1>1, <1>3, <1>4, <1>5 DEF ShopInv

LEMMA ShownOnly ==
  ASSUME ShopInv, NEW w \in Windows, NEW s, Show(w, s), Kept(panel[w], s)
  PROVE  ShopInv'
<1>1. /\ up' = up /\ lost' = lost /\ bare' = bare
      /\ up \in [Windows -> Seq(Request)] /\ lost \in [Windows -> BOOLEAN]
      /\ bare \in [Windows -> BOOLEAN]
  BY DEF ShopInv, ShopTypes, Show
<1> QED
  BY <1>1, Clicked DEF Show, server

(* The user's clicks.                                                      *)
LEMMA PanelsKept ==
  ASSUME NEW o \in Panel
  PROVE  /\ Kept(o, Opened(o)) /\ Kept(o, CloseShop(o)) /\ Kept(o, LeftDialog(o))
         /\ Kept(o, [LeftDialog(o) EXCEPT !.processing = TRUE])
         /\ \A open \in BOOLEAN : Kept(o, [o EXCEPT !.showPurchaseConfirm = open])
         /\ Kept(o, [o EXCEPT !.cart = NoItems])
         /\ \A p \in Products, n \in Nat : Kept(o, [o EXCEPT !.cart[p] = n])
<1>1. Kept(o, Opened(o)) /\ Kept(o, CloseShop(o))
  BY DEF Panel, Kept, Opened, CloseShop
<1>2. Kept(o, LeftDialog(o))
  BY DEF Panel, Kept, LeftDialog, CloseShop
<1>3. Kept(o, [LeftDialog(o) EXCEPT !.processing = TRUE])
  BY <1>2 DEF Panel, Kept
<1>4. \A open \in BOOLEAN : Kept(o, [o EXCEPT !.showPurchaseConfirm = open])
  BY DEF Panel, Kept
<1>5. Kept(o, [o EXCEPT !.cart = NoItems])
  BY DEF Panel, Kept, NoItems
<1>6. \A p \in Products, n \in Nat : Kept(o, [o EXCEPT !.cart[p] = n])
  BY DEF Panel, Kept
<1> QED
  BY <1>1, <1>2, <1>3, <1>4, <1>5, <1>6

LEMMA OpenShopStep ==
  ASSUME ShopInv, NEW w \in Windows, OpenShop(w)
  PROVE  ShopInv'
<1> DEFINE requests == <<Catalog, Inventory>>
<1>1. ShopTypes /\ panel[w] \in Panel /\ up[w] \in Seq(Request)
  BY DEF ShopInv, ShopTypes
<1>2. Kept(panel[w], Opened(panel[w]))
  BY <1>1, PanelsKept
<1>3. panel' = [panel EXCEPT ![w] = Opened(panel[w])] /\ Send(w, requests)
  BY DEF OpenShop
<1>4. requests \in Seq(Request) /\ Has(requests, Asked)
  <2>1. Catalog \in Request /\ Inventory \in Request /\ Inventory \in Asked
    BY DEF Catalog, Inventory, Request, Asked
  <2>2. requests \in Seq(Request)
    BY <2>1
  <2>3. Has(requests, Asked)
    BY <2>1, ShortChannels
  <2> QED
    BY <2>2, <2>3
<1>5. /\ bare' = [bare EXCEPT ![w] = FALSE] /\ visible[w]
      /\ UNCHANGED <<visible, connected, down, handling, broadcasts, balance, owned, raced, left,
                     bought, missed, told>>
  BY DEF OpenShop, server
<1> HIDE DEF requests
<1>6. /\ up' \in [Windows -> Seq(Request)] /\ lost' \in [Windows -> BOOLEAN]
      /\ \A v \in Windows : lost[v] => lost'[v]
      /\ \A v \in Windows : Has(up[v], Asked) => Has(up'[v], Asked)
      /\ ~lost'[w] => up'[w] = up[w] \o requests
  BY <1>1, <1>3, <1>4, Sending
<1>7. Has(up[w] \o requests, Asked)
  BY <1>1, <1>4, ChannelGrows
<1>8. /\ bare' \in [Windows -> BOOLEAN]
      /\ \A v \in Windows : bare'[v] # bare[v] => visible[v] /\ (lost'[v] \/ Has(up'[v], Asked))
  BY <1>1, <1>5, <1>6, <1>7 DEF ShopTypes
<1> QED
  BY <1>2, <1>3, <1>5, <1>6, <1>8, Clicked

LEMMA ClickStep ==
  ASSUME ShopInv, NEW w \in Windows,
         \/ ClickAway(w) \/ Escape(w) \/ ClearCart(w) \/ Checkout(w)
         \/ LeaveDialog(w)
         \/ \E p \in Products : AddToCart(w, p) \/ TakeFromCart(w, p)
  PROVE  ShopInv'
<1>1. panel[w] \in Panel
  BY DEF ShopInv, ShopTypes
<1>2. CASE ClickAway(w)
  BY <1>1, <1>2, PanelsKept, ShownOnly DEF ClickAway
<1>3. CASE Escape(w)
  BY <1>1, <1>3, PanelsKept, ShownOnly DEF Escape
<1>4. CASE ClearCart(w)
  BY <1>1, <1>4, PanelsKept, ShownOnly DEF ClearCart
<1>5. CASE Checkout(w)
  BY <1>1, <1>5, PanelsKept, ShownOnly DEF Checkout
<1>6. CASE LeaveDialog(w)
  BY <1>1, <1>6, PanelsKept, ShownOnly DEF LeaveDialog
<1>7. ASSUME NEW p \in Products, AddToCart(w, p) \/ TakeFromCart(w, p)
      PROVE  ShopInv'
  <2>1. panel[w].cart[p] \in Nat
    BY <1>1 DEF Panel
  <2>2. PICK n \in Nat : Show(w, [panel[w] EXCEPT !.cart[p] = n])
    <3>1. CASE AddToCart(w, p)
      <4>1. Show(w, [panel[w] EXCEPT !.cart[p] = panel[w].cart[p] + 1])
        BY <3>1 DEF AddToCart
      <4>2. panel[w].cart[p] + 1 \in Nat
        BY <2>1
      <4> QED
        BY <4>1, <4>2, Zenon
    <3>2. CASE TakeFromCart(w, p)
      BY <2>1, <3>2 DEF TakeFromCart
    <3> QED
      BY <1>7, <3>1, <3>2
  <2> QED
    BY <1>1, <2>2, PanelsKept, ShownOnly
<1> QED
  BY <1>2, <1>3, <1>4, <1>5, <1>6, <1>7

LEMMA ConfirmStep ==
  ASSUME ShopInv, NEW w \in Windows, Confirm(w)
  PROVE  ShopInv'
<1>1. ShopTypes /\ panel[w] \in Panel
  BY DEF ShopInv, ShopTypes
<1>2. PICK items \in SetToSeqs(InCart(w)) :
        Send(w, [i \in DOMAIN items |->
                        Purchase(items[i], panel[w].cart[items[i]])])
  BY DEF Confirm
<1> DEFINE requests == [i \in DOMAIN items |-> Purchase(items[i], panel[w].cart[items[i]])]
           s == [LeftDialog(panel[w]) EXCEPT !.processing = TRUE]
           n == Cardinality(InCart(w))
<1>3. requests \in Seq(Request)
  <2>1. InCart(w) \subseteq Products /\ IsFiniteSet(InCart(w))
    BY ShopAssumption, FS_Subset DEF InCart
  <2>2. DOMAIN items = 1 .. n /\ \A i \in DOMAIN items : items[i] \in InCart(w)
    <3> HIDE DEF n
    <3> QED
      BY DEF SetToSeqs, n
  <2>3. n \in Nat
    BY <2>1, FS_CardinalityType DEF Cardinality, Cardinality
  <2>4. \A i \in DOMAIN items : requests[i] \in Request
    BY <1>1, <2>1, <2>2 DEF Panel, Purchase, Request
  <2> QED
    BY <2>2, <2>3, <2>4
<1>4. Kept(panel[w], s)
  BY <1>1, PanelsKept
<1>5. panel' = [panel EXCEPT ![w] = s]
  BY DEF Confirm
<1>6. UNCHANGED <<visible, bare, connected, down, handling, broadcasts, balance, owned, raced, left,
                  bought, missed, told>>
  BY DEF Confirm, server
<1>7. Send(w, requests)
  BY <1>2
<1> HIDE DEF requests, s
<1>8. /\ up' \in [Windows -> Seq(Request)] /\ lost' \in [Windows -> BOOLEAN]
      /\ \A v \in Windows : lost[v] => lost'[v]
      /\ \A v \in Windows : Has(up[v], Asked) => Has(up'[v], Asked)
  BY <1>1, <1>3, <1>7, Sending
<1>9. bare' \in [Windows -> BOOLEAN] /\ \A v \in Windows : bare'[v] = bare[v]
  BY <1>1, <1>6 DEF ShopTypes
<1> QED
  BY <1>4, <1>5, <1>6, <1>8, <1>9, Clicked

(* The panel is hidden, and shown again.                                   *)
LEMMA HideStep ==
  ASSUME ShopInv, NEW w \in Windows, HidePanel(w) \/ ShowPanel(w)
  PROVE  ShopInv'
<1>1. ShopTypes /\ Closed \in Panel
  BY DEF ShopInv, Closed, Panel, NoItems
<1>2. UNCHANGED <<connected, up, down, handling, broadcasts, balance, owned, lost, raced, left,
                  bought, told>>
  BY DEF HidePanel, ShowPanel, server
<1>3. CASE HidePanel(w)
  <2>1. /\ panel' = [panel EXCEPT ![w] = Closed] /\ visible' = [visible EXCEPT ![w] = FALSE]
        /\ bare' = [bare EXCEPT ![w] = TRUE] /\ missed' = [missed EXCEPT ![w] = TRUE]
    BY <1>3 DEF HidePanel
  <2>2. ShopTypes'
    BY <1>1, <1>2, <2>1 DEF ShopTypes
  <2>3. /\ bare'[w] /\ missed'[w]
        /\ \A v \in Windows \ {w} : /\ panel'[v] = panel[v] /\ visible'[v] = visible[v]
                                    /\ bare'[v] = bare[v] /\ missed'[v] = missed[v]
    BY <1>1, <2>1 DEF ShopTypes
  <2>4. PurchasesInv'
    BY <1>2, <2>3 DEF ShopInv, PurchasesInv, WillShow
  <2>5. HiddenInv' /\ OneSale'
    BY <1>2, <2>3 DEF ShopInv, HiddenInv, OneSale
  <2>6. CoinsInv' /\ ToldInv'
    BY <1>2, <2>3, CoinsStill
  <2> QED
    BY <2>2, <2>4, <2>5, <2>6 DEF ShopInv
<1>4. CASE ShowPanel(w)
  <2>1. visible' = [visible EXCEPT ![w] = TRUE] /\ UNCHANGED <<panel, bare, missed>>
    BY <1>4 DEF ShowPanel
  <2>2. ShopTypes'
    BY <1>1, <1>2, <2>1 DEF ShopTypes
  <2>3. \A v \in Windows : ~visible'[v] => ~visible[v]
    BY <1>1, <2>1 DEF ShopTypes
  <2>4. PurchasesInv' /\ HiddenInv' /\ OneSale'
    BY <1>2, <2>1, <2>3 DEF ShopInv, PurchasesInv, WillShow, HiddenInv, OneSale
  <2>5. CoinsInv' /\ ToldInv'
    BY <1>2, <2>1, CoinsStill
  <2> QED
    BY <2>2, <2>4, <2>5 DEF ShopInv
<1> QED
  BY <1>3, <1>4

-----------------------------------------------------------------------------

(* The server's handlers.                                                  *)

(* What it answers, and which answers carry coins or an inventory.         *)
LEMMA Answers ==
  ASSUME ShopTypes
  PROVE  /\ \A a \in {[kind |-> "catalog"], Failed, Listed, Sold(FALSE, 0)} :
              a \in Reply /\ a \notin PriceReply /\ a \notin SaleReply
         /\ [kind |-> "catalog"] \notin Stock /\ Failed \notin Stock /\ Failed \in Failure
         /\ Sold(FALSE, 0) \notin Stock /\ Listed \in Stock /\ Listed.items = owned
         /\ \A coins \in Nat : /\ Sold(TRUE, coins) \in Reply \intersect SaleReply \intersect Telling(coins)
                               /\ Sold(TRUE, coins) \notin Stock
<1>1. /\ [kind |-> "catalog"] \in Reply /\ Failed \in Failure /\ Failed \in Reply
      /\ Listed \in Stock /\ Listed \in Reply
      /\ \A ok \in BOOLEAN, coins \in Nat : Sold(ok, coins) \in Result
      /\ \A ok \in BOOLEAN, coins \in Nat : Sold(ok, coins) \in Reply
  BY DEF ShopTypes, Reply, Failure, Stock, Result, Failed, Listed, Sold
<1>2. /\ [kind |-> "catalog"].kind = "catalog" /\ Failed.kind = "error"
      /\ Listed.kind = "inventory" /\ Listed.items = owned
      /\ \A ok \in BOOLEAN, coins \in Nat :
           Sold(ok, coins).kind = "purchaseResult" /\ Sold(ok, coins).success = ok
  BY DEF Failed, Listed, Sold
<1>3. \A coins \in Nat : Sold(TRUE, coins) \in Telling(coins)
  BY DEF Telling, Sold
<1> QED
  BY <1>1, <1>2, <1>3, Kinds DEF PriceReply

(* An answer that carries no coins, to a handler's own window.             *)
LEMMA QuietAnswer ==
  ASSUME ShopInv, NEW w \in Windows, NEW a \in Reply, a \notin PriceReply, Answer(w, a),
         UNCHANGED <<panel, broadcasts, raced, left, told, missed>>,
         \A v \in Windows : handling'[v] # Nothing <=> handling[v] # Nothing
  PROVE  /\ CoinsInv' /\ ToldInv'
         /\ ~lost'[w] => down'[w] = down[w] \o <<a>>
         /\ \A v \in Windows : ~lost'[v] =>
              /\ ~lost[v]
              /\ Has(down[v], SaleReply) => Has(down'[v], SaleReply)
              /\ Has(down[v], Failure) => Has(down'[v], Failure)
<1>1. ShopTypes /\ <<a>> \in Seq(Reply) /\ down \in [Windows -> Seq(Reply)]
  BY DEF ShopInv, ShopTypes
<1>2. /\ \A v \in Windows \ {w} : down'[v] = down[v] /\ lost'[v] = lost[v]
      /\ ~lost'[w] => ~lost[w] /\ down'[w] = down[w] \o <<a>>
      /\ down'[w] = down[w] \/ down'[w] = down[w] \o <<a>>
  BY <1>1, Answering
<1>3. ~Has(<<a>>, PriceReply)
  BY ShortChannels
<1>4. /\ EndsIn(down[w], PriceReply, Telling(told)) => EndsIn(down[w] \o <<a>>, PriceReply, Telling(told))
      /\ Has(down[w] \o <<a>>, PriceReply) => Has(down[w], PriceReply)
      /\ Has(down[w], SaleReply) => Has(down[w] \o <<a>>, SaleReply)
      /\ Has(down[w], Failure) => Has(down[w] \o <<a>>, Failure)
  BY <1>1, <1>3, ChannelGrows
<1>5. CoinsInv' /\ ToldInv'
  BY <1>2, <1>4, CoinsStill
<1> QED
  BY <1>2, <1>4, <1>5

(* An answer that carries neither coins nor an inventory.                  *)
LEMMA PlainAnswerStep ==
  ASSUME ShopInv, NEW w \in Windows, NEW kind, kind # "getInventory",
         Requested(w, kind), Taken(w),
         NEW a \in Reply, a \notin PriceReply, a \notin SaleReply, a \notin Stock, Answer(w, a),
         UNCHANGED <<panel, visible, bare, connected, handling, broadcasts, balance, owned, raced,
                     left, bought, missed, told>>
  PROVE  ShopInv'
<1>1. ShopTypes
  BY DEF ShopInv
<1>2. a \in Reply /\ a \notin PriceReply /\ a \notin SaleReply /\ a \notin Stock
  OBVIOUS
<1>3. /\ up' \in [Windows -> Seq(Request)] /\ \A v \in Windows \ {w} : up'[v] = up[v]
      /\ Has(up[w], Asked) => Has(up'[w], Asked)
  BY <1>1, Taking
<1>4. /\ down' \in [Windows -> Seq(Reply)] /\ lost' \in [Windows -> BOOLEAN]
      /\ \A v \in Windows \ {w} : down'[v] = down[v] /\ lost'[v] = lost[v]
  BY <1>1, <1>2, Answering
<1>5. /\ CoinsInv' /\ ToldInv'
      /\ ~lost'[w] => down'[w] = down[w] \o <<a>>
      /\ \A v \in Windows : ~lost'[v] =>
           /\ ~lost[v]
           /\ Has(down[v], SaleReply) => Has(down'[v], SaleReply)
           /\ Has(down[v], Failure) => Has(down'[v], Failure)
  BY <1>2, QuietAnswer
<1>6. ShopTypes'
  BY <1>1, <1>3, <1>4 DEF ShopTypes
<1>7. PurchasesInv'
  <2> SUFFICES ASSUME NEW v \in Windows
               PROVE  AtLeast(owned, bought[v])' /\ (~lost'[v] => WillShow(v)')
    BY DEF PurchasesInv
  <2>1. AtLeast(owned, bought[v]) /\ (~lost[v] => WillShow(v))
    BY DEF ShopInv, PurchasesInv
  <2>2. CASE v # w
    BY <1>3, <1>4, <2>1, <2>2 DEF WillShow
  <2>3. CASE v = w
    <3>1. /\ EndsIn(down[w], Stock, Enough(bought[w]))
               => EndsIn(down[w] \o <<a>>, Stock, Enough(bought[w]))
          /\ Has(down[w] \o <<a>>, Stock) => Has(down[w], Stock)
      <4>1. ~Has(<<a>>, Stock)
        BY <1>2, ShortChannels
      <4>2. <<a>> \in Seq(Reply) /\ down[w] \in Seq(Reply)
        BY <1>1, <1>2 DEF ShopTypes
      <4> QED
        BY <4>1, <4>2, ChannelGrows
    <3> QED
      BY <1>3, <1>5, <2>1, <2>3, <3>1 DEF WillShow
  <2> QED
    BY <2>2, <2>3
<1>8. OneSale' /\ HiddenInv'
  BY DEF ShopInv, OneSale, HiddenInv
<1> QED
  BY <1>5, <1>6, <1>7, <1>8 DEF ShopInv

LEMMA CatalogStep ==
  ASSUME ShopInv, NEW w \in Windows, HandleGetCatalog(w)
  PROVE  ShopInv'
<1>1. PICK a : a \in {[kind |-> "catalog"], Failed} /\ Answer(w, a)
  BY DEF HandleGetCatalog, Read
<1>2. a \in Reply /\ a \notin PriceReply /\ a \notin SaleReply /\ a \notin Stock
  BY <1>1, Answers DEF ShopInv
<1> QED
  BY <1>1, <1>2, PlainAnswerStep DEF HandleGetCatalog, user, server

LEMMA InventoryStep ==
  ASSUME ShopInv, NEW w \in Windows, HandleGetInventory(w)
  PROVE  ShopInv'
<1>1. ShopTypes
  BY DEF ShopInv
<1>2. PICK a : a \in {Listed, Failed} /\ Answer(w, a)
  BY DEF HandleGetInventory, Read
<1>3. a \in Reply /\ a \notin PriceReply /\ a \notin SaleReply
  BY <1>1, <1>2, Answers
<1>4. up' \in [Windows -> Seq(Request)] /\ \A v \in Windows \ {w} : up'[v] = up[v]
  BY <1>1, Taking DEF HandleGetInventory
<1>5. UNCHANGED <<panel, visible, bare, connected, handling, broadcasts, balance, owned, raced, left,
                  bought, missed, told>>
  BY DEF HandleGetInventory, user, server
<1>6. /\ down' \in [Windows -> Seq(Reply)] /\ lost' \in [Windows -> BOOLEAN]
      /\ \A v \in Windows \ {w} : down'[v] = down[v] /\ lost'[v] = lost[v]
  BY <1>1, <1>2, <1>3, Answering
<1>7. CoinsInv' /\ ToldInv' /\ (~lost'[w] => down'[w] = down[w] \o <<a>>)
  BY <1>2, <1>3, <1>5, QuietAnswer
<1>8. ShopTypes'
  BY <1>1, <1>4, <1>5, <1>6 DEF ShopTypes
<1>9. PurchasesInv'
  <2> SUFFICES ASSUME NEW v \in Windows
               PROVE  AtLeast(owned, bought[v])' /\ (~lost'[v] => WillShow(v)')
    BY DEF PurchasesInv
  <2>1. AtLeast(owned, bought[v]) /\ (~lost[v] => WillShow(v))
    BY DEF ShopInv, PurchasesInv
  <2>2. CASE v # w
    BY <1>4, <1>5, <1>6, <2>1, <2>2 DEF WillShow
  <2>3. CASE v = w
    <3>1. a \in Enough(bought[w]) \/ a \in Failure
      BY <1>1, <1>2, <2>1, <2>3, Answers DEF Enough
    <3>2. \/ EndsIn(<<a>>, Stock, Enough(bought[w]))
          \/ Has(<<a>>, Failure)
      BY <3>1, ShortChannels
    <3>3. \/ EndsIn(down[w] \o <<a>>, Stock, Enough(bought[w]))
          \/ Has(down[w] \o <<a>>, Failure)
      <4>1. <<a>> \in Seq(Reply) /\ down[w] \in Seq(Reply)
        BY <1>1, <1>3 DEF ShopTypes
      <4> QED
        BY <3>2, <4>1, ChannelGrows
    <3> QED
      BY <1>5, <1>7, <2>1, <2>3, <3>3 DEF WillShow
  <2> QED
    BY <2>2, <2>3
<1>10. OneSale' /\ HiddenInv'
  BY <1>5 DEF ShopInv, OneSale, HiddenInv
<1> QED
  BY <1>7, <1>8, <1>9, <1>10 DEF ShopInv

LEMMA SaleStep ==
  ASSUME ShopInv, NEW w \in Windows, Requested(w, "purchase"), Taken(w),
         NEW p, NEW n, p = up[w][1].product, n = up[w][1].quantity,
         NEW cost, cost = Price[p] * n, cost <= balance,
         balance' = balance - cost, owned' = [owned EXCEPT ![p] = @ + n],
         handling' = [handling EXCEPT ![w] = [stage |-> "sold", left |-> balance - cost,
                                              cost |-> cost, gone |-> FALSE]],
         left' = balance - cost, bought' = [bought EXCEPT ![w][p] = @ + n],
         raced' = (raced \/ \E o \in Windows : handling[o] # Nothing),
         UNCHANGED <<panel, visible, bare, connected, broadcasts, down, lost, missed, told>>
  PROVE  ShopInv'
<1>1. ShopTypes
  BY DEF ShopInv
<1>2. /\ up' \in [Windows -> Seq(Request)] /\ up[w][1] \in Request
      /\ up[w][1].kind = "purchase" /\ \A v \in Windows \ {w} : up'[v] = up[v]
  BY <1>1, Taking
<1>3. p \in Products /\ n \in Nat
  BY <1>2 DEF Request
<1>4. cost \in Nat /\ balance - cost \in Nat
  <2>1. Price[p] \in Nat
    BY <1>3, ShopAssumption
  <2>2. cost \in Nat
    BY <1>3, <2>1
  <2> QED
    BY <1>1, <2>2 DEF ShopTypes
<1>5. handling'[w] \in Sale /\ handling' \in [Windows -> {Nothing} \union Sale]
  BY <1>1, <1>4 DEF ShopTypes, Sale
<1>6. handling'[w].left = left' /\ handling'[w].stage = "sold" /\ handling'[w] # Nothing
  BY <1>1, <1>5, ShopAssumption DEF ShopTypes, Sale
<1>7. /\ owned' \in [Products -> Nat] /\ bought' \in [Windows -> [Products -> Nat]]
      /\ \A q \in Products : owned'[q] >= owned[q]
      /\ \A v \in Windows \ {w} : bought'[v] = bought[v]
      /\ \A q \in Products : owned[q] >= bought[w][q] => owned'[q] >= bought'[w][q]
  <2> DEFINE b == [bought[w] EXCEPT ![p] = @ + n]
  <2>1. owned \in [Products -> Nat] /\ bought \in [Windows -> [Products -> Nat]]
    BY <1>1 DEF ShopTypes
  <2>2. b \in [Products -> Nat] /\ \A q \in Products : b[q] = bought[w][q] + IF q = p THEN n ELSE 0
    BY <1>3, <2>1
  <2>3. /\ owned' \in [Products -> Nat]
        /\ \A q \in Products : owned'[q] = owned[q] + IF q = p THEN n ELSE 0
    BY <1>3, <2>1
  <2>4. bought' = [bought EXCEPT ![w] = b]
    BY <2>1
  <2> HIDE DEF b
  <2>5. /\ bought' \in [Windows -> [Products -> Nat]] /\ bought'[w] = b
        /\ \A v \in Windows \ {w} : bought'[v] = bought[v]
    BY <2>1, <2>2, <2>4
  <2>6. \A q \in Products : owned'[q] >= owned[q]
    BY <1>3, <2>1, <2>3
  <2>7. \A q \in Products : owned[q] >= bought[w][q] => owned'[q] >= b[q]
    <3> TAKE q \in Products
    <3>1. owned[q] \in Nat /\ bought[w][q] \in Nat
      BY <2>1
    <3> QED
      BY <1>3, <2>2, <2>3, <3>1
  <2> QED
    BY <2>3, <2>5, <2>6, <2>7
<1>8. ShopTypes'
  BY <1>1, <1>2, <1>4, <1>5, <1>7 DEF ShopTypes
<1>9. PurchasesInv'
  <2> SUFFICES ASSUME NEW v \in Windows
               PROVE  AtLeast(owned, bought[v])' /\ (~lost'[v] => WillShow(v)')
    BY DEF PurchasesInv
  <2>1. AtLeast(owned, bought[v]) /\ (~lost[v] => WillShow(v))
    BY DEF ShopInv, PurchasesInv
  <2>2. CASE v # w
    <3>1. handling'[v] = handling[v] /\ up'[v] = up[v] /\ bought'[v] = bought[v]
      BY <1>1, <1>2, <1>7, <2>2 DEF ShopTypes
    <3>2. \A q \in Products : owned'[q] >= bought'[v][q]
      BY <1>1, <1>7, <2>1, <3>1 DEF AtLeast, ShopTypes
    <3> QED
      BY <2>1, <3>1, <3>2 DEF WillShow, AtLeast
  <2>3. CASE v = w
    BY <1>6, <1>7, <2>1, <2>3 DEF WillShow, AtLeast
  <2> QED
    BY <2>2, <2>3
<1>10. OneSale' /\ HiddenInv'
  BY <1>1, <1>6 DEF ShopInv, OneSale, HiddenInv, ShopTypes
<1>11. CoinsInv' /\ ToldInv'
  BY <1>6 DEF CoinsInv, WillCount, ToldInv, AtWork
<1> QED
  BY <1>8, <1>9, <1>10, <1>11 DEF ShopInv

LEMMA PurchaseStep ==
  ASSUME ShopInv, NEW w \in Windows, HandlePurchase(w)
  PROVE  ShopInv'
<1> DEFINE p == up[w][1].product
           n == up[w][1].quantity
           cost == Price[p] * n
           a == Sold(FALSE, 0)
<1>1. CASE Answer(w, a) /\ UNCHANGED server
  <2>1. a \in Reply /\ a \notin PriceReply /\ a \notin SaleReply /\ a \notin Stock
    BY Answers DEF ShopInv
  <2>2. UNCHANGED <<panel, visible, bare, connected, handling, broadcasts, balance, owned, raced,
                    left, bought, missed, told>>
    BY <1>1 DEF HandlePurchase, user, server
  <2> HIDE DEF a
  <2> QED
    BY <1>1, <2>1, <2>2, PlainAnswerStep DEF HandlePurchase
<1>2. CASE /\ cost <= balance
           /\ balance' = balance - cost /\ owned' = [owned EXCEPT ![p] = @ + n]
           /\ handling' = [handling EXCEPT ![w] = [stage |-> "sold", left |-> balance - cost,
                                                   cost |-> cost, gone |-> FALSE]]
           /\ left' = balance - cost /\ bought' = [bought EXCEPT ![w][p] = @ + n]
           /\ raced' = (raced \/ \E o \in Windows : handling[o] # Nothing)
           /\ UNCHANGED <<down, lost, broadcasts, told>>
  <2>1. UNCHANGED <<panel, visible, bare, connected, missed>> /\ Requested(w, "purchase") /\ Taken(w)
    BY DEF HandlePurchase, user
  <2>2. p = up[w][1].product /\ n = up[w][1].quantity /\ cost = Price[p] * n
    OBVIOUS
  <2> HIDE DEF p, n, cost
  <2> QED
    BY <1>2, <2>1, <2>2, SaleStep
<1> QED
  BY <1>1, <1>2 DEF HandlePurchase

LEMMA TellBuyerStep ==
  ASSUME ShopInv, NEW w \in Windows, TellBuyer(w)
  PROVE  ShopInv'
<1> DEFINE result == Sold(TRUE, handling[w].left)
<1>1. ShopTypes
  BY DEF ShopInv
<1>2. handling[w] \in Sale /\ handling[w].left \in Nat /\ handling[w] # Nothing
  BY <1>1 DEF TellBuyer, ShopTypes, Sale
<1>3. result \in Reply /\ result \in SaleReply /\ Answer(w, result)
  BY <1>1, <1>2, Answers DEF TellBuyer
<1>4. UNCHANGED <<panel, visible, bare, connected, up, broadcasts, balance, owned, raced, left, bought,
                  missed, told>>
  BY DEF TellBuyer, user
<1>5. /\ handling' = [handling EXCEPT ![w].stage = "answered"] /\ handling'[w] \in Sale
      /\ \A v \in Windows \ {w} : handling'[v] = handling[v]
      /\ handling' \in [Windows -> {Nothing} \union Sale] /\ handling'[w].left = handling[w].left
  BY <1>1, <1>2 DEF TellBuyer, ShopTypes, Sale
<1>6. handling'[w] # Nothing
  BY <1>5, ShopAssumption DEF Sale
<1> HIDE DEF result
<1>7. /\ down' \in [Windows -> Seq(Reply)] /\ lost' \in [Windows -> BOOLEAN]
      /\ \A v \in Windows \ {w} : down'[v] = down[v] /\ lost'[v] = lost[v]
      /\ ~lost'[w] => ~lost[w] /\ down'[w] = down[w] \o <<result>>
  BY <1>1, <1>3, Answering
<1>8. ShopTypes'
  BY <1>1, <1>4, <1>5, <1>7 DEF ShopTypes
<1>9. PurchasesInv'
  <2> SUFFICES ASSUME NEW v \in Windows
               PROVE  AtLeast(owned, bought[v])' /\ (~lost'[v] => WillShow(v)')
    BY DEF PurchasesInv
  <2>1. AtLeast(owned, bought[v]) /\ (~lost[v] => WillShow(v))
    BY DEF ShopInv, PurchasesInv
  <2>2. CASE v # w
    BY <1>4, <1>5, <1>7, <2>1, <2>2 DEF WillShow
  <2>3. CASE v = w
    <3>1. <<result>> \in Seq(Reply) /\ down[w] \in Seq(Reply)
      BY <1>1, <1>3 DEF ShopTypes
    <3>2. Has(<<result>>, SaleReply)
      BY <1>3, ShortChannels
    <3>3. Has(down[w] \o <<result>>, SaleReply)
      BY <3>1, <3>2, ChannelGrows
    <3> QED
      BY <1>4, <1>7, <2>1, <2>3, <3>3 DEF WillShow
  <2> QED
    BY <2>2, <2>3
<1>10. OneSale' /\ HiddenInv'
  BY <1>2, <1>4, <1>5 DEF ShopInv, OneSale, HiddenInv
<1>11. CoinsInv' /\ ToldInv'
  BY <1>6 DEF CoinsInv, WillCount, ToldInv, AtWork
<1> QED
  BY <1>8, <1>9, <1>10, <1>11 DEF ShopInv

LEMMA SendInventoryStep ==
  ASSUME ShopInv, NEW w \in Windows, SendInventory(w)
  PROVE  ShopInv'
<1>1. ShopTypes /\ down[w] \in Seq(Reply)
  BY DEF ShopInv, ShopTypes
<1>2. /\ handling[w] \in Sale /\ handling[w] # Nothing /\ handling[w].stage = "answered"
      /\ UNCHANGED <<panel, visible, bare, connected, up, broadcasts, balance, owned, raced, left,
                     bought, missed, told>>
      /\ Answer(w, Listed) \/ UNCHANGED <<down, lost>>
  BY <1>1 DEF SendInventory, user, ShopTypes
<1>3. /\ handling' = [handling EXCEPT ![w].stage = "told"] /\ handling'[w] \in Sale
      /\ \A v \in Windows \ {w} : handling'[v] = handling[v]
      /\ handling' \in [Windows -> {Nothing} \union Sale] /\ handling'[w].left = handling[w].left
  BY <1>1, <1>2 DEF SendInventory, ShopTypes, Sale
<1>4. handling'[w] # Nothing
  BY <1>3, ShopAssumption DEF Sale
<1>5. Listed \in Reply /\ Listed \in Stock /\ Listed.items = owned
  BY <1>1, Answers
<1>6. /\ down' \in [Windows -> Seq(Reply)] /\ lost' \in [Windows -> BOOLEAN]
      /\ \A v \in Windows \ {w} : down'[v] = down[v] /\ lost'[v] = lost[v]
      /\ ~lost'[w] => ~lost[w] /\ (down'[w] = down[w] \/ down'[w] = down[w] \o <<Listed>>)
  <2>1. CASE Answer(w, Listed)
    BY <1>1, <1>5, <2>1, Answering
  <2>2. CASE UNCHANGED <<down, lost>>
    BY <1>1, <2>2 DEF ShopTypes
  <2> QED
    BY <1>2, <2>1, <2>2
<1>7. ShopTypes'
  BY <1>1, <1>2, <1>3, <1>6 DEF ShopTypes
<1>8. PurchasesInv'
  <2> SUFFICES ASSUME NEW v \in Windows
               PROVE  AtLeast(owned, bought[v])' /\ (~lost'[v] => WillShow(v)')
    BY DEF PurchasesInv
  <2>1. AtLeast(owned, bought[v]) /\ (~lost[v] => WillShow(v))
    BY DEF ShopInv, PurchasesInv
  <2>2. CASE v # w
    BY <1>2, <1>3, <1>6, <2>1, <2>2 DEF WillShow
  <2>3. CASE v = w
    <3>1. Listed \in Enough(bought[w])
      BY <1>5, <2>1, <2>3 DEF Enough
    <3> DEFINE a == Listed
    <3> HIDE DEF a
    <3>2. a \in Enough(bought[w]) /\ a \in Reply /\ <<a>> \in Seq(Reply)
      BY <1>5, <3>1 DEF a
    <3>3. EndsIn(<<a>>, Stock, Enough(bought[w]))
      BY <3>2, ShortChannels
    <3>4. EndsIn(down[w] \o <<a>>, Stock, Enough(bought[w]))
      BY <1>1, <3>2, <3>3, ChannelGrows
    <3>5. ~lost'[w] => ~lost[w] /\ (down'[w] = down[w] \/ down'[w] = down[w] \o <<a>>)
      BY <1>6 DEF a
    <3>6. ~(handling[w] # Nothing /\ handling[w].stage = "sold")
      BY <1>2
    <3> QED
      BY <1>2, <2>1, <2>3, <3>4, <3>5, <3>6 DEF WillShow
  <2> QED
    BY <2>2, <2>3
<1>9. OneSale' /\ HiddenInv'
  BY <1>2, <1>3 DEF ShopInv, OneSale, HiddenInv
<1>10. CoinsInv' /\ ToldInv'
  BY <1>4 DEF CoinsInv, WillCount, ToldInv, AtWork
<1> QED
  BY <1>7, <1>8, <1>9, <1>10 DEF ShopInv

LEMMA TellRoomStep ==
  ASSUME ShopInv, NEW w \in Windows, TellRoom(w)
  PROVE  ShopInv'
<1> DEFINE update == NewBalance(handling[w].left, handling[w].cost)
<1>1. ShopTypes /\ handling[w] \in Sale /\ handling[w] # Nothing /\ handling[w].stage = "told"
  BY DEF ShopInv, TellRoom, ShopTypes
<1>2. update \in Update /\ update.balance = handling[w].left
  BY <1>1 DEF Update, Sale, NewBalance
<1>3. /\ broadcasts' = Append(broadcasts, update) /\ handling' = [handling EXCEPT ![w] = Nothing]
      /\ UNCHANGED <<panel, visible, bare, connected, up, down, balance, owned, lost, raced, left,
                     bought, missed, told>>
  BY DEF TellRoom, user
<1> HIDE DEF update
<1>4. /\ broadcasts' \in Seq(Update) /\ broadcasts' # <<>>
      /\ broadcasts'[Len(broadcasts')] = update
  <2>1. broadcasts \in Seq(Update)
    BY <1>1 DEF ShopTypes
  <2> QED
    BY <1>2, <1>3, <2>1
<1>5. /\ handling' \in [Windows -> {Nothing} \union Sale]
      /\ \A v \in Windows : handling'[v] = IF v = w THEN Nothing ELSE handling[v]
  BY <1>1, <1>3 DEF ShopTypes
<1>6. ShopTypes'
  BY <1>1, <1>3, <1>4, <1>5 DEF ShopTypes
<1>7. PurchasesInv'
  <2> SUFFICES ASSUME NEW v \in Windows
               PROVE  AtLeast(owned, bought[v])' /\ (~lost'[v] => WillShow(v)')
    BY DEF PurchasesInv
  <2>1. AtLeast(owned, bought[v]) /\ (~lost[v] => WillShow(v))
    BY DEF ShopInv, PurchasesInv
  <2>2. handling[v] # Nothing /\ handling[v].stage = "sold" => handling'[v] = handling[v]
    <3>1. "told" # "sold"
      OBVIOUS
    <3> QED
      BY <1>1, <1>5, <3>1
  <2> QED
    BY <1>3, <2>1, <2>2 DEF WillShow
<1>8. OneSale' /\ HiddenInv'
  BY <1>3, <1>5 DEF ShopInv, OneSale, HiddenInv
<1>9. CoinsInv' /\ ToldInv'
  <2>1. ~raced => handling[w].left = left
    BY <1>1 DEF ShopInv, OneSale
  <2> QED
    BY <1>2, <1>3, <1>4, <2>1 DEF CoinsInv, WillCount, ToldInv
<1> QED
  BY <1>6, <1>7, <1>8, <1>9 DEF ShopInv

(* What the end of a connection leaves.                                    *)
LEMMA EndedWork ==
  ASSUME ShopInv, NEW ends, Ended(ends), UNCHANGED <<raced, left>>
  PROVE  /\ connected' \in [Windows -> BOOLEAN] /\ up' \in [Windows -> Seq(Request)]
         /\ handling' \in [Windows -> {Nothing} \union Sale]
         /\ \A v \in Windows : /\ handling'[v] # Nothing <=> handling[v] # Nothing
                               /\ handling[v] # Nothing => handling'[v].stage = handling[v].stage
                               /\ v \notin ends => up'[v] = up[v]
         /\ OneSale'
<1>1. /\ connected \in [Windows -> BOOLEAN] /\ up \in [Windows -> Seq(Request)]
      /\ handling \in [Windows -> {Nothing} \union Sale]
  BY DEF ShopInv, ShopTypes
<1>2. /\ connected' = [w \in Windows |-> connected[w] /\ w \notin ends]
      /\ up' = [w \in Windows |-> IF w \in ends THEN <<>> ELSE up[w]]
      /\ \A v \in Windows : handling'[v] = IF v \in ends /\ handling[v] # Nothing
                                             THEN [handling[v] EXCEPT !.gone = TRUE] ELSE handling[v]
      /\ handling' = [v \in Windows |-> handling'[v]]
  BY DEF Ended
<1>3. \A v \in Windows : handling[v] # Nothing =>
        LET h == [handling[v] EXCEPT !.gone = TRUE]
        IN h \in Sale /\ h.stage = handling[v].stage /\ h.left = handling[v].left
  BY <1>1 DEF Sale
<1>4. \A h \in Sale : h # Nothing
  BY ShopAssumption DEF Sale
<1>5. \A v \in Windows : /\ handling'[v] \in {Nothing} \union Sale
                         /\ handling'[v] # Nothing <=> handling[v] # Nothing
                         /\ handling[v] # Nothing => /\ handling'[v].stage = handling[v].stage
                                                     /\ handling'[v].left = handling[v].left
  BY <1>1, <1>2, <1>3, <1>4
<1>6. handling' \in [Windows -> {Nothing} \union Sale]
  BY <1>2, <1>5
<1>7. connected' \in [Windows -> BOOLEAN] /\ up' \in [Windows -> Seq(Request)]
  <2>1. <<>> \in Seq(Request)
    OBVIOUS
  <2> QED
    BY <1>1, <1>2, <2>1
<1>8. OneSale'
  BY <1>5 DEF ShopInv, OneSale
<1> QED
  BY <1>2, <1>5, <1>6, <1>7, <1>8

LEMMA HubStep == ShopInv /\ HubSends => ShopInv'
<1> SUFFICES ASSUME ShopInv, HubSends PROVE ShopInv'
  OBVIOUS
<1> DEFINE update == broadcasts[1]
           hear == {w \in Windows : connected[w] /\ Len(down[w]) < SendBuffer}
           cut == {w \in Windows : connected[w] /\ w \notin hear}
<1>1. ShopTypes /\ broadcasts \in Seq(Update) /\ broadcasts # <<>> /\ update \in Update
  BY DEF ShopInv, HubSends, ShopTypes
<1>2. /\ broadcasts' = Tail(broadcasts) /\ broadcasts' \in Seq(Update) /\ told' = update.balance
      /\ broadcasts' # <<>> => broadcasts'[Len(broadcasts')] = broadcasts[Len(broadcasts)]
      /\ broadcasts' = <<>> => broadcasts[Len(broadcasts)] = update
  BY <1>1, LastKept DEF HubSends
<1>3. /\ UNCHANGED <<panel, visible, bare, balance, owned, raced, left, bought>>
      /\ down' = [v \in Windows |-> IF v \in hear THEN Append(down[v], update) ELSE down[v]]
      /\ lost' = [v \in Windows |-> lost[v] \/ v \notin hear]
      /\ missed' = [v \in Windows |-> v \notin hear \/ ~visible[v]] /\ Ended(cut)
  BY DEF HubSends
<1>4. update \in Reply /\ update \notin Stock /\ update \in Telling(update.balance)
  <2>1. update \in Reply /\ update.kind = "balanceUpdate" /\ update \in Telling(update.balance)
    BY <1>1 DEF Reply, Update, Telling
  <2> QED
    BY <2>1, Kinds
<1> HIDE DEF update, hear, cut
<1>5. \A v \in Windows : down[v] \in Seq(Reply) /\ Append(down[v], update) = down[v] \o <<update>>
                         /\ Append(down[v], update) \in Seq(Reply)
  <2>1. \A v \in Windows : down[v] \in Seq(Reply)
    BY <1>1 DEF ShopTypes
  <2> QED
    BY <1>4, <2>1
<1>6. /\ lost' \in [Windows -> BOOLEAN] /\ down' \in [Windows -> Seq(Reply)]
      /\ missed' \in [Windows -> BOOLEAN]
      /\ \A v \in Windows : /\ ~lost'[v] => v \in hear /\ ~lost[v] /\ down'[v] = down[v] \o <<update>>
                            /\ ~missed'[v] => v \in hear /\ down'[v] = down[v] \o <<update>>
                            /\ ~visible[v] => missed'[v]
  <2>1. lost \in [Windows -> BOOLEAN]
    BY <1>1 DEF ShopTypes
  <2> QED
    BY <1>3, <1>5, <2>1
<1>7. /\ connected' \in [Windows -> BOOLEAN] /\ up' \in [Windows -> Seq(Request)]
      /\ handling' \in [Windows -> {Nothing} \union Sale]
      /\ \A v \in Windows : /\ handling'[v] # Nothing <=> handling[v] # Nothing
                            /\ handling[v] # Nothing => handling'[v].stage = handling[v].stage
                            /\ v \in hear => up'[v] = up[v]
      /\ OneSale'
  BY <1>3, EndedWork DEF cut
<1>8. ShopTypes'
  <2>1. told' \in Nat
    BY <1>1, <1>2 DEF Update
  <2> QED
    BY <1>1, <1>2, <1>3, <1>6, <1>7, <2>1 DEF ShopTypes
<1>9. <<update>> \in Seq(Reply) /\ ~Has(<<update>>, Stock) /\ EndsIn(<<update>>, PriceReply, Telling(told'))
  <2>1. <<update>> \in Seq(Reply)
    BY <1>4
  <2>2. ~Has(<<update>>, Stock)
    BY <1>4, ShortChannels
  <2>3. EndsIn(<<update>>, PriceReply, Telling(told'))
    BY <1>2, <1>4, ShortChannels
  <2> QED
    BY <2>1, <2>2, <2>3
<1>10. PurchasesInv'
  <2> SUFFICES ASSUME NEW v \in Windows
               PROVE  AtLeast(owned, bought[v])' /\ (~lost'[v] => WillShow(v)')
    BY DEF PurchasesInv
  <2>1. AtLeast(owned, bought[v]) /\ (~lost[v] => WillShow(v))
    BY DEF ShopInv, PurchasesInv
  <2> DEFINE d == down[v] \o <<update>>
  <2>2. /\ Has(down[v], SaleReply) => Has(d, SaleReply)
        /\ Has(down[v], Failure) => Has(d, Failure)
        /\ EndsIn(down[v], Stock, Enough(bought[v])) => EndsIn(d, Stock, Enough(bought[v]))
        /\ Has(d, Stock) => Has(down[v], Stock)
    BY <1>5, <1>9, ChannelGrows
  <2> HIDE DEF d
  <2>3. ~lost'[v] => ~lost[v] /\ down'[v] = d /\ up'[v] = up[v]
    BY <1>6, <1>7 DEF d
  <2> QED
    BY <1>3, <1>7, <2>1, <2>2, <2>3 DEF WillShow
<1>11. HiddenInv'
  BY <1>3, <1>6 DEF ShopInv, HiddenInv
<1>12. CoinsInv'
  <2> SUFFICES ASSUME NEW v \in Windows, ~missed'[v] PROVE WillCount(v)'
    BY DEF CoinsInv
  <2>1. EndsIn(down[v] \o <<update>>, PriceReply, Telling(told'))
    BY <1>5, <1>9, ChannelGrows
  <2> QED
    BY <1>6, <2>1 DEF WillCount
<1>13. ToldInv'
  <2>1. AtWork' <=> AtWork
    BY <1>7 DEF AtWork
  <2>2. broadcasts[Len(broadcasts)].balance = left =>
          \/ broadcasts' # <<>> /\ broadcasts'[Len(broadcasts')].balance = left
          \/ broadcasts' = <<>> /\ told' = left
    BY <1>2
  <2> QED
    BY <1>1, <1>3, <2>1, <2>2 DEF ShopInv, ToldInv
<1> QED
  BY <1>7, <1>8, <1>10, <1>11, <1>12, <1>13 DEF ShopInv

(* The panel takes what arrived.                                           *)
LEMMA ReceiveSeenStep ==
  ASSUME ShopInv, NEW w \in Windows, Receive(w), visible[w]
  PROVE  ShopInv'
<1> DEFINE m == down[w][1]
           o == panel[w]
           s == Shown(o, m)
<1>1. ShopTypes /\ o \in Panel /\ down[w] \in Seq(Reply) /\ down[w] # <<>> /\ m \in Reply
  BY DEF ShopInv, Receive, ShopTypes
<1>2. /\ down' = [down EXCEPT ![w] = Tail(down[w])] /\ panel' = [panel EXCEPT ![w] = s]
      /\ Send(w, Asks(m))
      /\ UNCHANGED <<visible, bare, connected, handling, broadcasts, balance, owned, raced, left,
                     bought, missed, told>>
  BY DEF Receive, server
<1>3. /\ s \in Panel /\ (o.error => s.error) /\ (m \in Failure => s.error)
      /\ s.inventory = IF m \in Stock THEN m.items ELSE o.inventory
      /\ m \in PriceReply => m \in Telling(s.coins)
      /\ m \notin PriceReply => s.coins = o.coins
  <2>1. CASE m.kind = "catalog"
    <3>1. s = [o EXCEPT !.isLoading = FALSE]
      BY <2>1 DEF Shown
    <3>2. m \notin Failure /\ m \notin Stock /\ m \notin PriceReply
      BY <1>1, <2>1, Kinds DEF PriceReply
    <3> QED
      BY <1>1, <3>1, <3>2 DEF Panel
  <2>2. CASE m.kind = "inventory"
    <3>1. s = [o EXCEPT !.inventory = m.items]
      BY <2>2 DEF Shown
    <3>2. m \notin Failure /\ m \in Stock /\ m \notin PriceReply
      BY <1>1, <2>2, Kinds DEF PriceReply
    <3>3. m.items \in [Products -> Nat]
      BY <3>2 DEF Stock
    <3> QED
      BY <1>1, <3>1, <3>2, <3>3 DEF Panel
  <2>3. CASE m.kind = "purchaseResult"
    <3>1. s = Resulted(o, m)
      BY <2>3 DEF Shown
    <3>2. m \notin Failure /\ m \notin Stock /\ m \in Result /\ (m \in PriceReply <=> m.success)
      BY <1>1, <2>3, Kinds DEF PriceReply
    <3>3. CASE m.success
      <4>1. m \in Telling(m.remainingBalance) /\ m.remainingBalance \in Nat
        BY <3>2, <3>3 DEF Result, Telling
      <4>2. s = [o EXCEPT !.result = "success", !.processing = FALSE, !.cart = NoItems,
                          !.coins = m.remainingBalance]
        BY <3>1, <3>3 DEF Resulted
      <4>3. /\ s \in Panel /\ s.error = o.error /\ s.inventory = o.inventory
            /\ s.coins = m.remainingBalance
        <5>1. NoItems \in [Products -> Nat]
          BY DEF NoItems
        <5> QED
          BY <1>1, <4>1, <4>2, <5>1 DEF Panel
      <4> QED
        BY <3>2, <3>3, <4>1, <4>3
    <3>4. CASE ~m.success
      <4>1. s = [o EXCEPT !.result = "failure", !.processing = FALSE]
        BY <3>1, <3>4 DEF Resulted
      <4> QED
        BY <1>1, <3>2, <3>4, <4>1 DEF Panel
    <3> QED
      BY <3>3, <3>4
  <2>4. CASE m.kind = "balanceUpdate"
    <3>1. s = [o EXCEPT !.coins = m.balance]
      BY <2>4 DEF Shown, Priced
    <3>2. m \notin Failure /\ m \notin Stock /\ m \in Update /\ m \in PriceReply
      BY <1>1, <2>4, Kinds DEF PriceReply
    <3>3. m.balance \in Nat /\ m \in Telling(m.balance)
      BY <3>2 DEF Update, Telling
    <3> QED
      BY <1>1, <3>1, <3>2, <3>3 DEF Panel
  <2>5. CASE m.kind = "error"
    <3>1. s = [o EXCEPT !.error = TRUE, !.isLoading = FALSE, !.processing = FALSE]
      BY <2>5 DEF Shown, Refused
    <3>2. m \in Failure /\ m \notin Stock /\ m \notin PriceReply
      BY <1>1, <2>5, Kinds DEF PriceReply
    <3> QED
      BY <1>1, <3>1, <3>2 DEF Panel
  <2> QED
    BY <1>1, <2>1, <2>2, <2>3, <2>4, <2>5, Kinds
<1>4. Asks(m) \in Seq(Request) /\ (m \in SaleReply => Has(Asks(m), Asked))
  <2>1. Inventory \in Request /\ Inventory \in Asked
    BY DEF Inventory, Request, Asked
  <2>2. m \in SaleReply => m.kind = "purchaseResult" /\ m.success
    BY DEF SaleReply, Result
  <2>3. <<Inventory>> \in Seq(Request) /\ <<>> \in Seq(Request)
    BY <2>1
  <2>4. Has(<<Inventory>>, Asked)
    BY <2>1, ShortChannels
  <2> QED
    BY <2>2, <2>3, <2>4 DEF Asks
<1>5. /\ up' \in [Windows -> Seq(Request)] /\ lost' \in [Windows -> BOOLEAN]
      /\ \A v \in Windows : lost[v] => lost'[v]
      /\ \A v \in Windows : Has(up[v], Asked) => Has(up'[v], Asked)
      /\ ~lost'[w] => up'[w] = up[w] \o Asks(m)
  BY <1>1, <1>2, <1>4, Sending
<1>6. ~lost'[w] /\ m \in SaleReply => Has(up'[w], Asked)
  <2>1. up[w] \in Seq(Request)
    BY <1>1 DEF ShopTypes
  <2>2. Has(Asks(m), Asked) => Has(up[w] \o Asks(m), Asked)
    <3> DEFINE t == Asks(m)
    <3>1. t \in Seq(Request)
      BY <1>4
    <3> HIDE DEF m, t
    <3>2. Has(t, Asked) => Has(up[w] \o t, Asked)
      BY <2>1, <3>1, ChannelGrows
    <3> QED
      BY <3>2 DEF t
  <2> HIDE DEF m
  <2> QED
    BY <1>4, <1>5, <2>2
<1> HIDE DEF m, s, o
<1>7. /\ down'[w] = Tail(down[w]) /\ panel'[w] = s /\ Tail(down[w]) \in Seq(Reply)
      /\ \A v \in Windows \ {w} : down'[v] = down[v] /\ panel'[v] = panel[v]
      /\ down' \in [Windows -> Seq(Reply)] /\ panel' \in [Windows -> Panel]
  BY <1>1, <1>2, <1>3 DEF ShopTypes
<1>8. ShopTypes'
  BY <1>1, <1>2, <1>5, <1>7 DEF ShopTypes
<1>9. \A K, G : /\ Has(down[w], K) => m \in K \/ Has(Tail(down[w]), K)
                /\ Has(Tail(down[w]), K) => Has(down[w], K)
                /\ EndsIn(down[w], K, G) =>
                     EndsIn(Tail(down[w]), K, G) \/ (m \in G /\ ~Has(Tail(down[w]), K))
  BY <1>1, ChannelTaken DEF m
<1>10. \A K : m \in K => Has(down[w], K)
  BY <1>1 DEF m, Has
<1>11. PurchasesInv'
  <2> SUFFICES ASSUME NEW v \in Windows
               PROVE  AtLeast(owned, bought[v])' /\ (~lost'[v] => WillShow(v)')
    BY DEF PurchasesInv
  <2>1. AtLeast(owned, bought[v]) /\ (~lost[v] => WillShow(v))
    BY DEF ShopInv, PurchasesInv
  <2>2. CASE v # w
    BY <1>2, <1>5, <1>7, <2>1, <2>2 DEF WillShow
  <2>3. CASE v = w
    <3> SUFFICES ASSUME ~lost'[w] PROVE WillShow(w)'
      BY <1>2, <2>1, <2>3
    <3>1. WillShow(w)
      BY <1>5, <2>1, <2>3
    <3>2. CASE Has(up[w], Asked) \/ Has(down[w], SaleReply)
      BY <1>5, <1>6, <1>7, <1>9, <3>2 DEF WillShow
    <3>3. CASE Has(down[w], Failure) \/ panel[w].error
      BY <1>3, <1>7, <1>9, <3>3 DEF WillShow, o
    <3>4. CASE bare[w] \/ (handling[w] # Nothing /\ handling[w].stage = "sold")
      BY <1>2, <3>4 DEF WillShow
    <3>5. CASE EndsIn(down[w], Stock, Enough(bought[w]))
      <4>1. CASE EndsIn(Tail(down[w]), Stock, Enough(bought[w]))
        BY <1>2, <1>7, <4>1 DEF WillShow
      <4>2. CASE m \in Enough(bought[w]) /\ ~Has(Tail(down[w]), Stock)
        BY <1>2, <1>3, <1>7, <4>2 DEF WillShow, Enough
      <4> QED
        BY <1>9, <3>5, <4>1, <4>2
    <3>6. CASE ~Has(down[w], Stock) /\ AtLeast(panel[w].inventory, bought[w])
      BY <1>2, <1>3, <1>7, <1>9, <1>10, <3>6 DEF WillShow, o
    <3> QED
      BY <3>1, <3>2, <3>3, <3>4, <3>5, <3>6 DEF WillShow
  <2> QED
    BY <2>2, <2>3
<1>12. OneSale' /\ HiddenInv'
  BY <1>2 DEF ShopInv, OneSale, HiddenInv
<1>13. AtWork' <=> AtWork
  BY <1>2 DEF AtWork
<1>14. CoinsInv'
  <2> SUFFICES ASSUME told # Nothing, NEW v \in Windows, ~missed[v] PROVE WillCount(v)'
    BY <1>2 DEF CoinsInv
  <2>1. WillCount(v)
    BY DEF ShopInv, CoinsInv
  <2>2. CASE v # w
    BY <1>2, <1>7, <1>13, <2>1, <2>2 DEF WillCount
  <2>3. CASE v = w
    <3>1. CASE EndsIn(down[w], PriceReply, Telling(told))
      <4>1. CASE EndsIn(Tail(down[w]), PriceReply, Telling(told))
        BY <1>2, <1>7, <2>3, <4>1 DEF WillCount
      <4>2. CASE m \in Telling(told) /\ ~Has(Tail(down[w]), PriceReply)
        <5>1. m \in PriceReply /\ m \in Telling(s.coins)
          BY <1>1, <1>3, <4>2, Kinds DEF PriceReply, Telling
        <5>2. s.coins = told
          BY <4>2, <5>1 DEF Telling
        <5> QED
          BY <1>2, <1>7, <2>3, <4>2, <5>2 DEF WillCount
      <4> QED
        BY <1>9, <3>1, <4>1, <4>2
    <3>2. CASE ~Has(down[w], PriceReply) /\ panel[w].coins = told
      BY <1>2, <1>3, <1>7, <1>9, <1>10, <2>3, <3>2 DEF WillCount, o
    <3> QED
      BY <1>2, <1>13, <2>1, <2>3, <3>1, <3>2 DEF WillCount
  <2> QED
    BY <2>2, <2>3
<1>15. ToldInv'
  BY <1>2, <1>13 DEF ShopInv, ToldInv
<1> QED
  BY <1>8, <1>11, <1>12, <1>14, <1>15 DEF ShopInv

(* A hidden panel gets nothing.                                            *)
LEMMA ReceiveStep ==
  ASSUME ShopInv, NEW w \in Windows, Receive(w)
  PROVE  ShopInv'
<1> SUFFICES ASSUME ~visible[w] PROVE ShopInv'
  BY ReceiveSeenStep
<1>1. ShopTypes /\ down[w] \in Seq(Reply) /\ down[w] # <<>> /\ bare[w] /\ missed[w]
  BY DEF ShopInv, ShopTypes, HiddenInv, Receive
<1>2. /\ down' = [down EXCEPT ![w] = Tail(down[w])]
      /\ UNCHANGED <<panel, up, lost, visible, bare, connected, handling, broadcasts, balance, owned,
                     raced, left, bought, missed, told>>
  BY DEF Receive, server
<1>3. /\ down' \in [Windows -> Seq(Reply)] /\ \A v \in Windows \ {w} : down'[v] = down[v]
  BY <1>1, <1>2 DEF ShopTypes
<1>4. ShopTypes'
  BY <1>1, <1>2, <1>3 DEF ShopTypes
<1>5. PurchasesInv'
  BY <1>1, <1>2, <1>3 DEF ShopInv, PurchasesInv, WillShow
<1>6. OneSale' /\ HiddenInv'
  BY <1>2 DEF ShopInv, OneSale, HiddenInv
<1>7. CoinsInv' /\ ToldInv'
  BY <1>1, <1>2, <1>3, CoinsStill
<1> QED
  BY <1>4, <1>5, <1>6, <1>7 DEF ShopInv

(* The connection goes and comes.                                          *)
LEMMA DropStep ==
  ASSUME ShopInv, NEW w \in Windows, Drop(w)
  PROVE  ShopInv'
<1>1. /\ ShopTypes /\ lost[w] \in BOOLEAN /\ missed[w] \in BOOLEAN
      /\ lost \in [Windows -> BOOLEAN] /\ missed \in [Windows -> BOOLEAN]
      /\ down \in [Windows -> Seq(Reply)]
  BY DEF ShopInv, ShopTypes
<1>2. /\ lost' = [lost EXCEPT ![w] = lost[w] \/ up[w] # <<>> \/ down[w] # <<>>]
      /\ missed' = [missed EXCEPT ![w] = missed[w] \/ down[w] # <<>>]
      /\ down' = [down EXCEPT ![w] = <<>>] /\ Ended({w})
      /\ UNCHANGED <<panel, visible, bare, broadcasts, balance, owned, raced, left, bought, told>>
  BY DEF Drop
<1>3. /\ connected' \in [Windows -> BOOLEAN] /\ up' \in [Windows -> Seq(Request)]
      /\ handling' \in [Windows -> {Nothing} \union Sale]
      /\ \A v \in Windows : /\ handling'[v] # Nothing <=> handling[v] # Nothing
                            /\ handling[v] # Nothing => handling'[v].stage = handling[v].stage
                            /\ v \notin {w} => up'[v] = up[v]
      /\ OneSale'
  BY <1>2, EndedWork
<1>4. /\ lost' \in [Windows -> BOOLEAN] /\ missed' \in [Windows -> BOOLEAN]
      /\ down' \in [Windows -> Seq(Reply)]
      /\ \A v \in Windows : lost[v] => lost'[v]
      /\ \A v \in Windows : ~missed'[v] => ~missed[v] /\ down'[v] = down[v]
  <2>1. <<>> \in Seq(Reply)
    OBVIOUS
  <2> QED
    BY <1>1, <1>2, <2>1
<1>5. ShopTypes'
  BY <1>1, <1>2, <1>3, <1>4 DEF ShopTypes
<1>6. PurchasesInv'
  <2> SUFFICES ASSUME NEW v \in Windows
               PROVE  AtLeast(owned, bought[v])' /\ (~lost'[v] => WillShow(v)')
    BY DEF PurchasesInv
  <2>1. AtLeast(owned, bought[v]) /\ (~lost[v] => WillShow(v))
    BY DEF ShopInv, PurchasesInv
  <2>2. CASE v # w
    <3>1. up'[v] = up[v] /\ down'[v] = down[v] /\ lost'[v] = lost[v]
      BY <1>1, <1>2, <1>3, <2>2
    <3> QED
      BY <1>2, <1>3, <2>1, <3>1 DEF WillShow
  <2>3. CASE v = w /\ ~lost'[w]
    <3>1. up[w] = <<>> /\ down[w] = <<>> /\ down'[w] = <<>> /\ ~lost[w]
      BY <1>1, <1>2, <2>3
    <3>2. ~Has(up[w], Asked)
      BY <3>1, ShortChannels
    <3> QED
      BY <1>2, <1>3, <2>1, <2>3, <3>1, <3>2 DEF WillShow
  <2> QED
    BY <1>2, <2>1, <2>2, <2>3
<1>7. HiddenInv'
  BY <1>2, <1>4 DEF ShopInv, HiddenInv
<1>8. CoinsInv' /\ ToldInv'
  BY <1>2, <1>3, <1>4, CoinsStill
<1> QED
  BY <1>3, <1>5, <1>6, <1>7, <1>8 DEF ShopInv

LEMMA BackStep ==
  ASSUME ShopInv, NEW w \in Windows, ConnectAgain(w)
  PROVE  ShopInv'
<1>1. /\ connected' = [connected EXCEPT ![w] = TRUE]
      /\ UNCHANGED <<panel, visible, bare, up, down, lost, missed>>
      /\ UNCHANGED <<handling, broadcasts, balance, owned, raced, left, bought, told>>
  BY DEF ConnectAgain, server
<1>2. ShopTypes'
  BY <1>1 DEF ShopInv, ShopTypes
<1>3. PurchasesInv' /\ OneSale' /\ HiddenInv'
  BY <1>1 DEF ShopInv, PurchasesInv, WillShow, OneSale, HiddenInv
<1>4. CoinsInv' /\ ToldInv'
  BY <1>1 DEF ShopInv, CoinsInv, WillCount, ToldInv, AtWork
<1> QED
  BY <1>2, <1>3, <1>4 DEF ShopInv

-----------------------------------------------------------------------------

LEMMA InitShopInv == ShopInit => ShopInv
<1> SUFFICES ASSUME ShopInit PROVE ShopInv
  OBVIOUS
<1>1. NoItems \in [Products -> Nat] /\ Closed \in Panel /\ [Closed EXCEPT !.coins = Funds] \in Panel
  BY ShopAssumption DEF NoItems, Closed, Panel
<1>2. ShopTypes
  <2>1. /\ <<>> \in Seq(Request) /\ <<>> \in Seq(Reply) /\ <<>> \in Seq(Update)
    OBVIOUS
  <2>2. panel \in [Windows -> Panel] /\ told \in {Nothing} \union Nat
    BY <1>1, ShopAssumption DEF ShopInit
  <2> QED
    BY <1>1, <2>1, <2>2, ShopAssumption DEF ShopInit, ShopTypes
<1>3. PurchasesInv /\ HiddenInv
  BY DEF ShopInit, PurchasesInv, HiddenInv, WillShow, AtLeast, NoItems
<1>4. OneSale /\ ToldInv
  BY DEF ShopInit, OneSale, ToldInv
<1>5. CoinsInv
  <2> SUFFICES ASSUME told # Nothing, NEW w \in Windows PROVE WillCount(w)
    BY DEF CoinsInv
  <2>1. panel[w].coins = told
    BY DEF ShopInit, Closed
  <2>2. ~Has(down[w], PriceReply)
    BY ShortChannels DEF ShopInit
  <2> QED
    BY <2>1, <2>2 DEF WillCount
<1> QED
  BY <1>2, <1>3, <1>4, <1>5 DEF ShopInv

LEMMA ShopNextInv == ShopInv /\ [ShopNext]_shopVars => ShopInv'
<1> SUFFICES ASSUME ShopInv, [ShopNext]_shopVars PROVE ShopInv'
  OBVIOUS
<1>1. CASE UNCHANGED shopVars
  <2>1. UNCHANGED <<panel, visible, bare, connected, up, down, handling, broadcasts, balance, owned,
                    lost, missed, raced, left, bought, told>>
    BY <1>1 DEF shopVars, user, server
  <2>2. ShopTypes' /\ HiddenInv' /\ PurchasesInv' /\ OneSale'
    BY <2>1 DEF ShopInv, ShopTypes, HiddenInv, PurchasesInv, WillShow, OneSale
  <2>3. CoinsInv' /\ ToldInv'
    BY <2>1 DEF ShopInv, CoinsInv, WillCount, ToldInv, AtWork
  <2> QED
    BY <2>2, <2>3 DEF ShopInv
<1>2. CASE HubSends
  BY <1>2, HubStep
<1>3. ASSUME NEW w \in Windows,
             \/ OpenShop(w) \/ ClickAway(w) \/ Escape(w) \/ ClearCart(w)
             \/ Checkout(w) \/ Confirm(w) \/ LeaveDialog(w)
             \/ \E p \in Products : AddToCart(w, p) \/ TakeFromCart(w, p)
             \/ HandleGetCatalog(w) \/ HandleGetInventory(w) \/ HandlePurchase(w)
             \/ TellBuyer(w) \/ SendInventory(w) \/ TellRoom(w) \/ Receive(w)
             \/ Drop(w) \/ ConnectAgain(w) \/ HidePanel(w) \/ ShowPanel(w)
      PROVE  ShopInv'
  BY <1>3, OpenShopStep, ClickStep, ConfirmStep, CatalogStep, InventoryStep, PurchaseStep,
     TellBuyerStep, SendInventoryStep, TellRoomStep, ReceiveStep, DropStep, BackStep, HideStep
<1> QED
  BY <1>1, <1>2, <1>3 DEF ShopNext

LEMMA ShopInvariant == ShopSpec => []ShopInv
<1>1. ShopInit => ShopInv
  BY InitShopInv
<1>2. ShopInv /\ [ShopNext]_shopVars => ShopInv'
  BY ShopNextInv
<1> QED
  BY <1>1, <1>2, PTL DEF ShopSpec

(* Once the messages have arrived, every window that heard of the last      *)
(* balance told to the room, and was not hidden since, shows it, in any     *)
(* number of windows, however sales overlap and whatever is lost; and when  *)
(* no two sales overlapped, it is what the last sale left (client.go:304).  *)
THEOREM CoinsShownHolds == ShopSpec => []CoinsShown
<1>1. ShopInv => CoinsShown
  <2> SUFFICES ASSUME ShopInv, NEW w \in Windows, AtRest(w), ~missed[w], told # Nothing
               PROVE  panel[w].coins = told /\ (~raced => told = left)
    BY DEF CoinsShown
  <2>1. WillCount(w) /\ ToldInv
    BY DEF ShopInv, CoinsInv
  <2>2. ~EndsIn(<<>>, PriceReply, Telling(told))
    BY ShortChannels
  <2>3. ~AtWork /\ broadcasts = <<>> /\ down[w] = <<>>
    BY DEF AtRest, AtWork
  <2> QED
    BY <2>1, <2>2, <2>3 DEF WillCount, ToldInv
<1>2. ShopSpec => []ShopInv
  BY ShopInvariant
<1> QED
  BY <1>1, <1>2, PTL

(* And a panel that was opened shows all its window bought, unless it shows *)
(* that something failed (client.go:284): the inventory that follows the    *)
(* sale, or the one the panel asks for when it hears of it, is not older    *)
(* than the sale.                                                           *)
THEOREM OwnPurchasesShownHolds == ShopSpec => []OwnPurchasesShown
<1>1. ShopInv => OwnPurchasesShown
  <2> SUFFICES ASSUME ShopInv, NEW w \in Windows, AtRest(w), ~lost[w], ~bare[w],
                      ~panel[w].error, NEW p \in Products
               PROVE  panel[w].inventory[p] >= bought[w][p]
    BY DEF OwnPurchasesShown
  <2>1. WillShow(w)
    BY DEF ShopInv, PurchasesInv
  <2>2. /\ \A K : ~Has(<<>>, K)
        /\ ~EndsIn(<<>>, Stock, Enough(bought[w]))
    BY ShortChannels
  <2> QED
    BY <2>1, <2>2 DEF WillShow, AtRest, AtLeast
<1>2. ShopSpec => []ShopInv
  BY ShopInvariant
<1> QED
  BY <1>1, <1>2, PTL
===========================================================================
