------------------------------ MODULE WsClient ------------------------------
(***************************************************************************)
(* The WebSocket client of the extension (wsClient.ts), as extension.ts    *)
(* uses it: connect() once when it is activated, dispose() once when it is *)
(* deactivated, and a registration (economyClient.ts) at each connection,  *)
(* whose answer sets the token of the following connections.               *)
(*                                                                         *)
(* connect() awaits the secret storage, and sockets and the reconnection   *)
(* timer call back later: an action is what runs in one callback.  Of the  *)
(* ws library it is assumed that a socket opens at most once and closes    *)
(* once, that a failed or aborted one closes too, and that a socket the    *)
(* client closes does not open any more.                                   *)
(***************************************************************************)
EXTENDS Integers, FiniteSets

CONSTANTS
  Sockets,          \* names of sockets, used again once they are closed
  None,             \* null
  MaxBackoff,       \* doublings from the base delay to the maximal one
  SendsToken,       \* the answer to register has the field the client reads:
                    \* FALSE with this repository's server, which answers token
                    \* where economyClient.ts:33 reads sessionToken
  MaxAwaiting       \* bound: registrations awaiting their answer

ASSUME ClientAssumption ==
  /\ None \notin Sockets /\ MaxBackoff \in Nat
  /\ SendsToken \in BOOLEAN /\ MaxAwaiting \in Nat \ {0}

VARIABLES
  urlValid,     \* the configured URL: the WebSocket constructor throws on others
  connecting,   \* connect(): "no" (not called), "awaiting" or "done"
  disposed,     \* dispose() was called
  state,        \* this.state
  ws,           \* this.ws
  socket,       \* what each socket is doing
  timer,        \* reconnectTimer is set
  backoff,      \* reconnectDelay is the base delay doubled that many times
  intentional,  \* intentionalClose
  token,        \* this.sessionToken is set
  secret,       \* a session token is in the secret storage
  known,        \* sockets opened with a token: the server knows the user
  registering, storing  \* registrations awaiting the server, the secrets

api  == <<urlValid, connecting, disposed>>
auth == <<token, secret, registering, storing>>
vars == <<api, state, ws, socket, timer, backoff, intentional, known, auth>>

Live(i) == socket[i] # "closed"

Init ==
  /\ urlValid \in BOOLEAN /\ connecting = "no" /\ disposed = FALSE
  /\ state = "disconnected" /\ ws = None
  /\ socket = [i \in Sockets |-> "closed"]
  /\ timer = FALSE /\ backoff = 0 /\ intentional = FALSE
  /\ token = FALSE /\ secret \in BOOLEAN /\ known = {}
  /\ registering = 0 /\ storing = 0

-----------------------------------------------------------------------------

(* The user edits the setting serverUrl, which each attempt reads again.   *)
Configure ==
  /\ urlValid' = ~urlValid
  /\ UNCHANGED <<connecting, disposed, state, ws, socket, timer, backoff, intentional,
                 known, auth>>

(* connect(), up to the await.                                             *)
Connect ==
  /\ connecting = "no" /\ ~disposed /\ state = "disconnected"
  /\ connecting' = "awaiting"
  /\ UNCHANGED <<urlValid, disposed, state, ws, socket, timer, backoff, intentional,
                 known, auth>>

NewSocket(authenticated) ==
  \E i \in Sockets :
    /\ ~Live(i)
    /\ ws' = i /\ socket' = [socket EXCEPT ![i] = "opening"]
    /\ known' = IF authenticated THEN known \union {i} ELSE known \ {i}

(* Fault: an attempt whose constructor throws is not followed by another.  *)
DoConnectOnce(authenticated) ==
  /\ state' = "connecting"
  /\ timer' = FALSE
  /\ \/ ~urlValid /\ UNCHANGED <<ws, socket, known>>
     \/ urlValid /\ NewSocket(authenticated)

(* doConnect: the constructor throws, and a reconnection is scheduled; or  *)
(* there is a new socket, which carries the token if there is one.         *)
DoConnect(authenticated) ==
  /\ state' = "connecting"
  /\ \/ ~urlValid /\ timer' = TRUE /\ UNCHANGED <<ws, socket, known>>
     \/ urlValid /\ timer' = FALSE /\ NewSocket(authenticated)

(* The secret is there: the rest of connect().                             *)
SecretRead ==
  /\ connecting = "awaiting" /\ connecting' = "done"
  /\ token' = secret
  /\ intentional' = FALSE
  /\ DoConnect(secret)
  /\ UNCHANGED <<urlValid, disposed, backoff, secret, registering, storing>>

(* 'open'.  The handler of _connected, unless it was removed by dispose(), *)
(* posts a registration.                                                   *)
Open(i) ==
  /\ socket[i] = "opening" /\ socket' = [socket EXCEPT ![i] = "open"]
  /\ registering + storing < MaxAwaiting
  /\ backoff' = 0
  /\ state' = "connected"
  /\ registering' = IF disposed THEN registering ELSE registering + 1
  /\ UNCHANGED <<api, ws, timer, intentional, known, token, secret, storing>>

(* register returns: setSessionToken sets the token and stores it; or one  *)
(* of the two fails.                                                       *)
Registered ==
  /\ registering > 0 /\ registering' = registering - 1
  /\ \/ token' = SendsToken /\ storing' = storing + 1
     \/ UNCHANGED <<token, storing>>
  /\ UNCHANGED <<api, state, ws, socket, timer, backoff, intentional, known, secret>>
Stored ==
  /\ storing > 0 /\ storing' = storing - 1
  /\ secret' \in {secret, SendsToken}
  /\ UNCHANGED <<api, state, ws, socket, timer, backoff, intentional, known,
                 token, registering>>

(* Faults: a socket that never opened is not retried; this.ws keeps the    *)
(* closed socket.                                                          *)
CloseRetryingOnlyOpen(i) ==
  /\ Live(i) /\ socket' = [socket EXCEPT ![i] = "closed"]
  /\ ws' = None /\ state' = "disconnected"
  /\ timer' = (timer \/ (~intentional /\ state = "connected"))
  /\ UNCHANGED <<api, backoff, intentional, known, auth>>
CloseKeepingSocket(i) ==
  /\ Live(i) /\ socket' = [socket EXCEPT ![i] = "closed"]
  /\ state' = "disconnected"
  /\ timer' = (timer \/ ~intentional)
  /\ UNCHANGED <<api, ws, backoff, intentional, known, auth>>

(* 'close', whatever the reason: the server, the network, a failed         *)
(* handshake, the client's own close().                                    *)
Close(i) ==
  /\ Live(i) /\ socket' = [socket EXCEPT ![i] = "closed"]
  /\ ws' = None /\ state' = "disconnected"
  /\ timer' = (timer \/ ~intentional)
  /\ UNCHANGED <<api, backoff, intentional, known, auth>>

(* Fault: the delay is compared before it is doubled.                      *)
LongerUnbounded == IF backoff <= MaxBackoff THEN backoff + 1 ELSE backoff

Longer == IF backoff < MaxBackoff THEN backoff + 1 ELSE backoff

(* Faults: the timer repeats; the client gives up at the longest delay.    *)
ReconnectRepeating ==
  /\ timer /\ urlValid
  /\ backoff' = Longer
  /\ state' = "connecting"
  /\ NewSocket(token)
  /\ UNCHANGED <<api, timer, intentional, auth>>

ReconnectGivingUp ==
  /\ timer /\ backoff < MaxBackoff
  /\ backoff' = Longer
  /\ DoConnect(token)
  /\ UNCHANGED <<api, intentional, auth>>

(* The reconnection timer fires.                                           *)
Reconnect ==
  /\ timer
  /\ backoff' = Longer
  /\ DoConnect(token)
  /\ UNCHANGED <<api, intentional, auth>>

(* dispose(), that is disconnect() and the removal of the handlers.        *)
Dispose ==
  /\ ~disposed /\ disposed' = TRUE
  /\ intentional' = TRUE /\ timer' = FALSE
  /\ socket' = [i \in Sockets |-> IF i = ws THEN "closing" ELSE socket[i]]
  /\ ws' = None /\ state' = "disconnected"
  /\ UNCHANGED <<urlValid, connecting, backoff, known, auth>>

SocketEvent(i) == Open(i) \/ Close(i)
Next == \/ Configure \/ Connect \/ SecretRead \/ Reconnect \/ Dispose
        \/ Registered \/ Stored
        \/ \E i \in Sockets : SocketEvent(i)

Spec == Init /\ [][Next]_vars

(* Awaited secrets come, timers fire, a handshake ends, and the server is  *)
(* not down for ever: a handshake that is tried again and again succeeds.  *)
Fairness ==
  /\ WF_vars(SecretRead) /\ WF_vars(Reconnect) /\ WF_vars(Registered) /\ WF_vars(Stored)
  /\ \A i \in Sockets : WF_vars(socket[i] \in {"opening", "closing"} /\ SocketEvent(i))
                       /\ SF_vars(Open(i))

FairSpec == Spec /\ Fairness

-----------------------------------------------------------------------------

(* Type invariant.  The delay between attempts never exceeds its maximum.  *)
TypeOK ==
  /\ urlValid \in BOOLEAN
  /\ connecting \in {"no", "awaiting", "done"} /\ disposed \in BOOLEAN
  /\ state \in {"disconnected", "connecting", "connected"}
  /\ ws \in Sockets \union {None}
  /\ socket \in [Sockets -> {"opening", "open", "closing", "closed"}]
  /\ timer \in BOOLEAN /\ backoff \in 0..MaxBackoff /\ intentional \in BOOLEAN
  /\ token \in BOOLEAN /\ secret \in BOOLEAN /\ known \subseteq Sockets
  /\ registering \in Nat /\ storing \in Nat /\ registering + storing <= MaxAwaiting

(* However closes, timers and the activation interleave, the window never  *)
(* has two connections, nor one and a timer that would open another.       *)
OneConnection ==
  /\ \A i, j \in Sockets : Live(i) /\ Live(j) => i = j
  /\ timer => \A i \in Sockets : ~Live(i)

(* What send() believes is true: connected means that this.ws is an open   *)
(* socket, and an open socket of a client that is not disposed is usable.  *)
StateIsTrue ==
  /\ state = "connected" => ws # None /\ socket[ws] = "open"
  /\ ws # None => Live(ws)
  /\ \A i \in Sockets : socket[i] = "open" => ws = i /\ state = "connected"

(* The client is never stranded: once connect() has run, as long as nobody *)
(* closes it, there is a socket that will call back or a timer, also after *)
(* an attempt that made no socket and so gets no 'close' (wsClient.ts:137).*)
NeverStranded ==
  connecting = "done" /\ ~disposed => timer \/ \E i \in Sockets : Live(i)

(* A lost connection comes back, unless the client is disposed or the      *)
(* configured URL is wrong.                                                *)
Reconnects ==
  connecting = "done" /\ state # "connected"
    ~> state = "connected" \/ disposed \/ ~urlValid

(* Once the user was known to the server, each later connection is: kept   *)
(* only if SendsToken, for each registration sets the token to the field   *)
(* it read (extension.ts:90), so a client known from its stored secret     *)
(* reconnects unknown.                                                     *)
StaysKnown ==
  [][\A i \in Sockets :
       ~Live(i) /\ socket'[i] = "opening" /\ (token \/ known # {}) => i \in known']_vars

(* disconnect() stops reconnection attempts (its comment): after dispose() *)
(* the client neither connects nor waits to.                               *)
StaysDisconnected ==
  disposed => ws = None /\ ~timer

(* The documented flow: a window without a token obtains one, then         *)
(* connects with it.  So a registered window is known to the server.       *)
ConnectedAsUser ==
  state = "connected" /\ token /\ registering = 0 /\ storing = 0 => ws \in known
===========================================================================
