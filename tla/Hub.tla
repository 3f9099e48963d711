-------------------------------- MODULE Hub --------------------------------
(***************************************************************************)
(* The WebSocket hub of the Go server: ws/hub.go, the two pumps of         *)
(* ws/client.go and the occupants of rooms/manager.go.                     *)
(*                                                                         *)
(* Goroutines: the hub's event loop, and for each connection a ReadPump    *)
(* (which runs the handlers of what it reads), a WritePump, and one that   *)
(* sends the first snapshot.  They share Go channels, of bounded size:     *)
(* register, unregister and broadcast of the hub, and send of a client.    *)
(* A room is named after its user, so its clients are that user's windows. *)
(***************************************************************************)
EXTENDS Integers, Sequences, FiniteSets

CONSTANTS
  Clients,       \* WebSocket connections, each opened once
  Users,
  UserOf,        \* UserOf[c]: the user, and so the room, of a connection
  None,          \* nobody to exclude from a broadcast; the hub waits in select
  SendCap,       \* capacity of Client.send (256)
  BroadcastCap,  \* of Hub.broadcast (1024)
  RegisterCap,   \* of Hub.register and Hub.unregister (256)
  MaxEvents      \* bound: MaxEvents[c] is the number of events c publishes

ASSUME HubAssumption ==
  /\ UserOf \in [Clients -> Users]
  /\ None \notin Clients
  /\ SendCap \in Nat \ {0} /\ BroadcastCap \in Nat \ {0}
  /\ RegisterCap \in Nat \ {0} /\ MaxEvents \in [Clients -> Nat]

VARIABLES
  rooms,       \* rooms[u]: the clients registered in the room of u
  occupants,   \* users that rooms.Manager counts as present in their room
  register, unregister, broadcast,  \* channels of the hub
  hub,         \* presence message the hub still has to broadcast, or None
  conn,        \* TCP connection: "new", "open" or "closed"
  send,        \* messages buffered in Client.send
  closed,      \* clients whose send channel is closed
  reader,      \* ReadPump: "none", "running" or "done"
  work,        \* what the handler it runs still sends
  writer,      \* WritePump: "none", "running" or "done"
  greeting,    \* clients whose first snapshot is being built
  published,   \* published[c]: number of events c has published
  seen,        \* seen[d][c]: number of the last event of c that d received
  crashed,     \* a goroutine panicked: the process is gone
  since        \* history: since[d][c] is published[c] when d entered its room

channels == <<register, unregister, broadcast>>
pumps    == <<conn, reader, work, writer, published, seen>>
vars     == <<rooms, since, occupants, channels, hub, send, closed, greeting, pumps, crashed>>

(* What handlers do with the room and the requester: agent events and      *)
(* saved layouts are shared with the other windows, queries are answered,  *)
(* an update of placements is answered and shared, a token report is       *)
(* announced to every window, and a purchase answered (with the inventory, *)
(* for furniture) and announced.  A refused request is answered.           *)
Handlers == {<<"share">>, <<"reply">>, <<"reply", "share">>, <<"announce">>,
             <<"reply", "announce">>, <<"reply", "reply", "announce">>}
Tasks    == {"share", "announce", "reply"}

Event(what, c, n) == [kind |-> "event", from |-> c, n |-> n,
                      exclude |-> IF what = "share" THEN c ELSE None]
Presence(kind, c) == [kind |-> kind, from |-> c, n |-> 0,
                      exclude |-> IF kind = "joined" THEN c ELSE None]
Reply(c)          == [kind |-> "reply", from |-> c, n |-> 0, exclude |-> None]
Messages          == [kind: {"event", "joined", "left", "reply"}, from: Clients,
                      n: Nat, exclude: Clients \union {None}]

Init ==
  /\ rooms = [u \in Users |-> {}] /\ occupants = {}
  /\ register = <<>> /\ unregister = <<>> /\ broadcast = <<>>
  /\ hub = None
  /\ conn = [c \in Clients |-> "new"]
  /\ send = [c \in Clients |-> <<>>]
  /\ closed = {} /\ greeting = {}
  /\ reader = [c \in Clients |-> "none"]
  /\ work = [c \in Clients |-> <<>>]
  /\ writer = [c \in Clients |-> "none"]
  /\ published = [c \in Clients |-> 0]
  /\ seen = [d \in Clients |-> [c \in Clients |-> 0]]
  /\ since = [d \in Clients |-> [c \in Clients |-> 0]]
  /\ crashed = FALSE

-----------------------------------------------------------------------------
(* The hub's event loop: one case of the select at a time.                 *)

(* A client registers: it and its user are in the room; the presence       *)
(* message is sent next, the snapshot by a goroutine of its own.           *)
Register ==
  /\ hub = None /\ register # <<>>
  /\ LET c == Head(register) IN
       /\ rooms' = [rooms EXCEPT ![UserOf[c]] = @ \union {c}]
       /\ occupants' = occupants \union {UserOf[c]}
       /\ since' = [since EXCEPT ![c] = published]
       /\ hub' = Presence("joined", c)
  /\ register' = Tail(register)
  /\ UNCHANGED <<unregister, broadcast, send, closed, greeting, pumps, crashed>>

(* A client unregisters: its channel is closed if it is still in the room. *)
Unregister ==
  /\ hub = None /\ unregister # <<>>
  /\ LET c == Head(unregister)
         u == UserOf[c] IN
       /\ rooms' = [rooms EXCEPT ![u] = @ \ {c}]
       /\ closed' = IF c \in rooms[u] THEN closed \union {c} ELSE closed
       /\ occupants' = occupants \ {u}
       /\ hub' = Presence("left", c)
  /\ unregister' = Tail(unregister)
  /\ UNCHANGED <<since, register, broadcast, send, greeting, pumps, crashed>>

(* BroadcastToRoom called by the hub itself: it blocks when its own        *)
(* channel is full.                                                        *)
Announce ==
  /\ hub # None /\ Len(broadcast) < BroadcastCap
  /\ broadcast' = Append(broadcast, hub)
  /\ greeting' = IF hub.kind = "joined" THEN greeting \union {hub.from} ELSE greeting
  /\ hub' = None
  /\ UNCHANGED <<rooms, since, occupants, register, unregister, send, closed, pumps, crashed>>

Targets(m) == rooms[UserOf[m.from]] \ {m.exclude}
Slow(m)    == {d \in Targets(m) : Len(send[d]) >= SendCap}
Deliver(m) == [d \in Clients |-> IF d \in Targets(m) \ Slow(m)
                                 THEN Append(send[d], m) ELSE send[d]]

(* Faults: a slow client keeps its place in the room; a slow client only   *)
(* misses the message; a buffer that grows.                                *)
FanOutKeepingSlow ==
  /\ hub = None /\ broadcast # <<>>
  /\ LET m == Head(broadcast) IN
       /\ send' = Deliver(m)
       /\ closed' = closed \union Slow(m)
  /\ broadcast' = Tail(broadcast)
  /\ UNCHANGED <<rooms, since, occupants, register, unregister, hub, greeting, pumps, crashed>>
FanOutSkippingSlow ==
  /\ hub = None /\ broadcast # <<>>
  /\ send' = Deliver(Head(broadcast))
  /\ broadcast' = Tail(broadcast)
  /\ UNCHANGED <<rooms, since, occupants, register, unregister, hub, closed, greeting,
                 pumps, crashed>>
FanOutUnbounded ==
  /\ hub = None /\ broadcast # <<>>
  /\ LET m == Head(broadcast) IN
       send' = [d \in Clients |-> IF d \in Targets(m) THEN Append(send[d], m)
                                                      ELSE send[d]]
  /\ broadcast' = Tail(broadcast)
  /\ UNCHANGED <<rooms, since, occupants, register, unregister, hub, closed, greeting,
                 pumps, crashed>>

(* A broadcast is copied to every client of the room; the ones whose       *)
(* buffer is full are disconnected: channel closed, out of the room.       *)
FanOut ==
  /\ hub = None /\ broadcast # <<>>
  /\ LET m == Head(broadcast) IN
       /\ send' = Deliver(m)
       /\ closed' = closed \union Slow(m)
       /\ rooms' = [rooms EXCEPT ![UserOf[m.from]] = @ \ Slow(m)]
  /\ broadcast' = Tail(broadcast)
  /\ UNCHANGED <<since, occupants, register, unregister, hub, greeting, pumps, crashed>>

-----------------------------------------------------------------------------
(* A connection.                                                           *)

(* ServeWS: upgrade, queue the registration, start the pumps.              *)
Connect(c) ==
  /\ conn[c] = "new" /\ Len(register) < RegisterCap
  /\ conn' = [conn EXCEPT ![c] = "open"]
  /\ register' = Append(register, c)
  /\ reader' = [reader EXCEPT ![c] = "running"]
  /\ writer' = [writer EXCEPT ![c] = "running"]
  /\ UNCHANGED <<rooms, since, occupants, unregister, broadcast, hub, send, closed,
                 greeting, work, published, seen, crashed>>

(* The peer closes, the network fails, or no pong came for 60 s.           *)
Disconnect(c) ==
  /\ conn[c] = "open"
  /\ conn' = [conn EXCEPT ![c] = "closed"]
  /\ UNCHANGED <<rooms, since, occupants, channels, hub, send, closed, greeting,
                 reader, work, writer, published, seen, crashed>>

(* ReadPump reads an event and enters its handler.                         *)
Receive(c) ==
  /\ reader[c] = "running" /\ conn[c] = "open" /\ work[c] = <<>>
  /\ published[c] < MaxEvents[c]
  /\ \E h \in Handlers : work' = [work EXCEPT ![c] = h]
  /\ UNCHANGED <<rooms, since, occupants, channels, hub, send, closed, greeting,
                 conn, reader, writer, published, seen, crashed>>

Handling(c, what) == work[c] # <<>> /\ Head(work[c]) = what
NextOf(c)         == work' = [work EXCEPT ![c] = Tail(@)]

(* Fault: a handler drops its broadcast when the hub's channel is full.    *)
PublishUnlessFull(c) ==
  /\ \E what \in {"share", "announce"} :
       /\ Handling(c, what)
       /\ broadcast' = IF Len(broadcast) < BroadcastCap
                       THEN Append(broadcast, Event(what, c, published[c] + 1))
                       ELSE broadcast
  /\ published' = [published EXCEPT ![c] = @ + 1]
  /\ NextOf(c)
  /\ UNCHANGED <<rooms, since, occupants, register, unregister, hub, send, closed,
                 greeting, conn, reader, writer, seen, crashed>>

(* BroadcastToRoom called by a handler: it waits for room in the channel.  *)
Publish(c) ==
  /\ \E what \in {"share", "announce"} :
       /\ Handling(c, what) /\ Len(broadcast) < BroadcastCap
       /\ broadcast' = Append(broadcast, Event(what, c, published[c] + 1))
  /\ published' = [published EXCEPT ![c] = @ + 1]
  /\ NextOf(c)
  /\ UNCHANGED <<rooms, since, occupants, register, unregister, hub, send, closed,
                 greeting, conn, reader, writer, seen, crashed>>

(* SendToClient and sendRoomSnapshot: drop the message when the buffer is  *)
(* full; a closed channel makes the send panic, even in a select.          *)
SendTo(c) ==
  IF c \in closed
  THEN crashed' = TRUE /\ UNCHANGED send
  ELSE /\ send' = IF Len(send[c]) < SendCap
                  THEN [send EXCEPT ![c] = Append(@, Reply(c))] ELSE send
       /\ UNCHANGED crashed

Answer(c) ==
  /\ Handling(c, "reply")
  /\ SendTo(c)
  /\ NextOf(c)
  /\ UNCHANGED <<rooms, since, occupants, channels, hub, closed, greeting, conn,
                 reader, writer, published, seen>>

(* The goroutine of the first snapshot is done with its queries.           *)
Greet(c) ==
  /\ c \in greeting
  /\ SendTo(c)
  /\ greeting' = greeting \ {c}
  /\ UNCHANGED <<rooms, since, occupants, channels, hub, closed, pumps>>

(* ReadMessage fails: the deferred call unregisters and closes.            *)
StopReading(c) ==
  /\ reader[c] = "running" /\ conn[c] = "closed" /\ work[c] = <<>>
  /\ Len(unregister) < RegisterCap
  /\ unregister' = Append(unregister, c)
  /\ reader' = [reader EXCEPT ![c] = "done"]
  /\ UNCHANGED <<rooms, since, occupants, register, broadcast, hub, send, closed,
                 greeting, conn, work, writer, published, seen, crashed>>

(* WritePump sends a buffered message, and the peer receives it.           *)
Write(c) ==
  /\ writer[c] = "running" /\ conn[c] = "open" /\ send[c] # <<>>
  /\ send' = [send EXCEPT ![c] = Tail(@)]
  /\ LET m == Head(send[c]) IN
       seen' = IF m.kind = "event" THEN [seen EXCEPT ![c][m.from] = m.n] ELSE seen
  /\ UNCHANGED <<rooms, since, occupants, channels, hub, closed, greeting, conn,
                 reader, work, writer, published, crashed>>

(* Fault: errors of writes and pings are ignored.                          *)
StopWritingOnClose(c) ==
  /\ writer[c] = "running"
  /\ \/ /\ c \in closed /\ send[c] = <<>>
        /\ writer' = [writer EXCEPT ![c] = "done"]
        /\ conn' = [conn EXCEPT ![c] = "closed"]
        /\ UNCHANGED send
     \/ /\ conn[c] = "closed" /\ send[c] # <<>>
        /\ send' = [send EXCEPT ![c] = Tail(@)]
        /\ UNCHANGED <<writer, conn>>
  /\ UNCHANGED <<rooms, since, occupants, channels, hub, closed, greeting,
                 reader, work, published, seen, crashed>>

(* It ends, closing the connection: the channel is closed and drained, the *)
(* connection is closed (a write or the next ping fails), or a write takes *)
(* more than 10 s.                                                         *)
StopWriting(c) ==
  /\ writer[c] = "running"
  /\ \/ c \in closed /\ send[c] = <<>>
     \/ conn[c] = "closed"
     \/ send[c] # <<>>
  /\ writer' = [writer EXCEPT ![c] = "done"]
  /\ conn' = [conn EXCEPT ![c] = "closed"]
  /\ UNCHANGED <<rooms, since, occupants, channels, hub, send, closed, greeting,
                 reader, work, published, seen, crashed>>

HubStep       == Register \/ Unregister \/ Announce \/ FanOut
Handle(c)     == Publish(c) \/ Answer(c) \/ StopReading(c)
ReadPump(c)   == Receive(c) \/ Handle(c)
WritePump(c)  == Write(c) \/ StopWriting(c)
ClientStep(c) == Connect(c) \/ Disconnect(c) \/ ReadPump(c) \/ WritePump(c) \/ Greet(c)

Next == ~crashed /\ (HubStep \/ \E c \in Clients : ClientStep(c))

Spec == Init /\ [][Next]_vars

(* A goroutine that can go on does: writes have a deadline of 10 s and     *)
(* handlers a context of 5 s.  Nobody has to connect, send or leave.       *)
Fairness ==
  /\ WF_vars(~crashed /\ HubStep)
  /\ \A c \in Clients : WF_vars(~crashed /\ Handle(c))
                       /\ WF_vars(~crashed /\ WritePump(c))

FairSpec == Spec /\ Fairness

-----------------------------------------------------------------------------

(* Type invariant: no channel holds more than its capacity.                *)
TypeOK ==
  /\ rooms \in [Users -> SUBSET Clients]
  /\ occupants \subseteq Users
  /\ register \in Seq(Clients) /\ Len(register) <= RegisterCap
  /\ unregister \in Seq(Clients) /\ Len(unregister) <= RegisterCap
  /\ broadcast \in Seq(Messages) /\ Len(broadcast) <= BroadcastCap
  /\ hub \in Messages \union {None}
  /\ conn \in [Clients -> {"new", "open", "closed"}]
  /\ send \in [Clients -> Seq(Messages)] /\ \A c \in Clients : Len(send[c]) <= SendCap
  /\ closed \subseteq Clients /\ greeting \subseteq Clients
  /\ reader \in [Clients -> {"none", "running", "done"}]
  /\ work \in [Clients -> Seq(Tasks)]
  /\ writer \in [Clients -> {"none", "running", "done"}]
  /\ published \in [Clients -> Nat]
  /\ seen \in [Clients -> [Clients -> Nat]] /\ since \in [Clients -> [Clients -> Nat]]
  /\ crashed \in BOOLEAN

(* The hub closes and sends on the channels of the rooms without asking:   *)
(* each of them is open, although eviction and unregistration race to      *)
(* close it.                                                               *)
RoomsAreOpen == \A u \in Users : rooms[u] \intersect closed = {}

(* A window follows another window of its user without a gap: once it has  *)
(* received an event, the next one it receives is the successor, however   *)
(* slow it is (a client too slow is cut off, never skipped).               *)
NoGaps ==
  [][\A c, d \in Clients :
       \/ c = d   \* what c shares is not sent back to it
       \/ seen[d][c] = 0
       \/ seen'[d][c] \in {seen[d][c], seen[d][c] + 1}]_seen

(* A member of the room misses nothing: every event that another window of *)
(* the room published since the member entered it has been received, waits *)
(* in the member's buffer or is still in the hub's channel, however many   *)
(* buffers are full on the way and whoever is evicted (hub.go:128-158).    *)
Waits(q, c, k) == \E i \in DOMAIN q : q[i].kind = "event" /\ q[i].from = c /\ q[i].n = k
NothingSkipped ==
  \A c, d \in Clients : c # d /\ d \in rooms[UserOf[c]] =>
    \A k \in 1..published[c] : since[d][c] < k =>
      k <= seen[d][c] \/ Waits(send[d], c, k) \/ Waits(broadcast, c, k)

(* The hub waits for room in the channel that only itself empties: for ever. *)
HubStuck == hub # None /\ Len(broadcast) = BroadcastCap

(* No goroutine is left behind: when a connection is closed, or the hub    *)
(* cuts it off, both of its pumps end and it stays closed, unless the      *)
(* server panics or its hub is stuck (hub.go:96, :157).                    *)
PumpsEnd ==
  \A c \in Clients :
    conn[c] = "closed" \/ c \in closed
      ~> \/ conn[c] = "closed" /\ reader[c] = "done" /\ writer[c] = "done"
         \/ crashed \/ HubStuck

(* A slow client is disconnected, and the server goes on.                  *)
NoPanic == ~crashed

(* Nothing is under way: what the hub believes can be compared with what   *)
(* is.                                                                     *)
Quiet == /\ hub = None /\ register = <<>> /\ unregister = <<>> /\ broadcast = <<>>
         /\ \A c \in Clients : reader[c] = "running" => conn[c] = "open"

Connected(u) == {c \in Clients : UserOf[c] = u /\ reader[c] = "running"}

(* The occupants of a snapshot are all the users that are present: closing *)
(* one of two windows does not make a user absent.                         *)
EveryoneIsListed == Quiet => {u \in Users : Connected(u) # {}} \subseteq occupants

(* The hub maintains the active connections, and only them.                *)
RoomsAreActive == Quiet => \A u \in Users : rooms[u] \subseteq Connected(u)

(* Presence is announced at once: the hub never waits for itself.          *)
HubNeverStuck == ~HubStuck
===========================================================================
