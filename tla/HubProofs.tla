----------------------------- MODULE HubProofs -----------------------------
(***************************************************************************)
(* Proofs about Hub, for any number of connections and users and any       *)
(* capacity of the channels.  A connection registers once: it is either    *)
(* new, or waiting in the register channel, or past it; only a client of a *)
(* room has its channel closed, and it leaves the room in the same step.   *)
(* NoGaps, NothingSkipped: what a client has read, what waits in its       *)
(* channel and what the broadcast loop is about to put there is one        *)
(* stretch of the room's events, without a hole since it entered the room. *)
(***************************************************************************)
EXTENDS Hub, TLAPS

(* The hub has not heard of c yet.                                         *)
Unheard(c) == c \notin closed /\ \A u \in Users : c \notin rooms[u]

RegisteredOnce ==
  /\ \A i, j \in DOMAIN register : register[i] = register[j] => i = j
  /\ \A i \in DOMAIN register : conn[register[i]] # "new" /\ Unheard(register[i])
  /\ \A c \in Clients : conn[c] = "new" => Unheard(c)

OwnRoom == \A u \in Users : \A c \in rooms[u] : UserOf[c] = u

RoomsOK == RegisteredOnce /\ RoomsAreOpen /\ OwnRoom

HInv == TypeOK /\ RoomsOK

LEMMA InitHInv == Init => HInv
<1> SUFFICES ASSUME Init PROVE HInv
  OBVIOUS
<1>1. TypeOK
  <2>1. /\ \A S : <<>> \in Seq(S) /\ Len(<<>>) = 0
        /\ 0 <= SendCap /\ 0 <= BroadcastCap /\ 0 <= RegisterCap
    BY HubAssumption
  <2>2. /\ register \in Seq(Clients) /\ Len(register) <= RegisterCap
        /\ unregister \in Seq(Clients) /\ Len(unregister) <= RegisterCap
        /\ broadcast \in Seq(Messages) /\ Len(broadcast) <= BroadcastCap
    BY <2>1 DEF Init
  <2>3. /\ send \in [Clients -> Seq(Messages)]
        /\ \A c \in Clients : Len(send[c]) <= SendCap
        /\ work \in [Clients -> Seq(Tasks)]
    BY <2>1 DEF Init
  <2> QED
    BY <2>2, <2>3 DEF Init, TypeOK
<1>2. RoomsOK
  BY DEF Init, RoomsOK, RegisteredOnce, RoomsAreOpen, Unheard, OwnRoom
<1> QED
  BY <1>1, <1>2 DEF HInv

-----------------------------------------------------------------------------

(* What goes through the channels are messages.                            *)
LEMMA MessageFacts ==
  ASSUME NEW c \in Clients
  PROVE  /\ Reply(c) \in Messages
         /\ Presence("joined", c) \in Messages /\ Presence("left", c) \in Messages
         /\ \A n \in Nat, what \in Tasks : Event(what, c, n) \in Messages
BY DEF Reply, Presence, Event, Messages

LEMMA SendToType ==
  ASSUME TypeOK, NEW c \in Clients, SendTo(c)
  PROVE  /\ send' \in [Clients -> Seq(Messages)]
         /\ \A d \in Clients : Len(send'[d]) <= SendCap
         /\ crashed' \in BOOLEAN
<1>1. Reply(c) \in Messages
  BY MessageFacts
<1>2. CASE c \in closed
  BY <1>2 DEF TypeOK, SendTo
<1>3. CASE c \notin closed
  <2>1. CASE Len(send[c]) < SendCap
    <3>1. send' = [send EXCEPT ![c] = Append(@, Reply(c))] /\ UNCHANGED crashed
      BY <1>3, <2>1 DEF SendTo
    <3>2. /\ send \in [Clients -> Seq(Messages)] /\ crashed \in BOOLEAN
          /\ \A d \in Clients : Len(send[d]) <= SendCap
      BY DEF TypeOK
    <3>3. /\ Append(send[c], Reply(c)) \in Seq(Messages)
          /\ Len(Append(send[c], Reply(c))) = Len(send[c]) + 1
          /\ Len(send[c]) \in Nat
      BY <1>1, <3>2
    <3> QED
      BY <2>1, <3>1, <3>2, <3>3, HubAssumption
  <2>2. CASE ~(Len(send[c]) < SendCap)
    BY <1>3, <2>2 DEF TypeOK, SendTo
  <2> QED
    BY <2>1, <2>2
<1> QED
  BY <1>2, <1>3

LEMMA RegisterType == TypeOK /\ Register => TypeOK'
<1> SUFFICES ASSUME TypeOK, Register PROVE TypeOK'
  OBVIOUS
<1>1. /\ Head(register) \in Clients /\ Tail(register) \in Seq(Clients)
      /\ Len(Tail(register)) <= RegisterCap
  <2>1. register \in Seq(Clients) /\ register # <<>> /\ Len(register) <= RegisterCap
    BY DEF TypeOK, Register
  <2> QED
    BY <2>1, HubAssumption
<1>2. hub' \in Messages
  BY <1>1, MessageFacts DEF Register
<1> QED
  BY <1>1, <1>2, HubAssumption DEF TypeOK, Register, pumps

LEMMA UnregisterType == TypeOK /\ Unregister => TypeOK'
<1> SUFFICES ASSUME TypeOK, Unregister PROVE TypeOK'
  OBVIOUS
<1>1. /\ Head(unregister) \in Clients /\ Tail(unregister) \in Seq(Clients)
      /\ Len(Tail(unregister)) <= RegisterCap
  <2>1. unregister \in Seq(Clients) /\ unregister # <<>> /\ Len(unregister) <= RegisterCap
    BY DEF TypeOK, Unregister
  <2> QED
    BY <2>1, HubAssumption
<1>2. hub' \in Messages
  BY <1>1, MessageFacts DEF Unregister
<1> QED
  BY <1>1, <1>2, HubAssumption DEF TypeOK, Unregister, pumps

LEMMA AnnounceType == TypeOK /\ Announce => TypeOK'
<1> SUFFICES ASSUME TypeOK, Announce PROVE TypeOK'
  OBVIOUS
<1>1. hub \in Messages /\ hub.from \in Clients
  BY DEF TypeOK, Announce, Messages
<1>2. broadcast' \in Seq(Messages) /\ Len(broadcast') <= BroadcastCap
  BY <1>1, HubAssumption DEF TypeOK, Announce
<1> QED
  BY <1>1, <1>2 DEF TypeOK, Announce, pumps

LEMMA FanOutType == TypeOK /\ FanOut => TypeOK'
<1> SUFFICES ASSUME TypeOK, FanOut PROVE TypeOK'
  OBVIOUS
<1> DEFINE m == Head(broadcast)
<1>1. /\ m \in Messages /\ Tail(broadcast) \in Seq(Messages)
      /\ Len(Tail(broadcast)) <= BroadcastCap
  BY HubAssumption DEF TypeOK, FanOut
<1>2. ASSUME NEW d \in Clients
      PROVE  send'[d] \in Seq(Messages) /\ Len(send'[d]) <= SendCap
  <2>1. send'[d] = IF d \in Targets(m) \ Slow(m) THEN Append(send[d], m) ELSE send[d]
    BY DEF FanOut, Deliver
  <2>2. d \in Targets(m) \ Slow(m) => Len(send[d]) < SendCap
    BY HubAssumption DEF TypeOK, Slow
  <2> QED
    BY <1>1, <2>1, <2>2, HubAssumption DEF TypeOK
<1>3. send' \in [Clients -> Seq(Messages)]
  BY <1>2 DEF FanOut, Deliver
<1>4. m.from \in Clients /\ Slow(m) \subseteq Clients
  BY <1>1, HubAssumption DEF Messages, Slow, Targets, TypeOK
<1> QED
  BY <1>1, <1>2, <1>3, <1>4, HubAssumption DEF TypeOK, FanOut, pumps

LEMMA ClientType ==
  ASSUME TypeOK, NEW c \in Clients, ClientStep(c)
  PROVE  TypeOK'
<1>1. CASE Connect(c)
  <2>1. register' \in Seq(Clients) /\ Len(register') <= RegisterCap
    BY <1>1, HubAssumption DEF TypeOK, Connect
  <2> QED
    BY <1>1, <2>1 DEF TypeOK, Connect
<1>2. CASE Disconnect(c)
  BY <1>2 DEF TypeOK, Disconnect, channels
<1>3. CASE Receive(c)
  <2>1. Handlers \subseteq Seq(Tasks)
    BY DEF Handlers, Tasks
  <2> QED
    BY <1>3, <2>1 DEF TypeOK, Receive, channels
<1>4. CASE Publish(c)
  <2>1. work' \in [Clients -> Seq(Tasks)]
    BY <1>4 DEF TypeOK, Publish, Handling, NextOf
  <2>2. /\ published' \in [Clients -> Nat]
        /\ \A what \in Tasks : Event(what, c, published[c] + 1) \in Messages
    BY <1>4, MessageFacts DEF TypeOK, Publish
  <2>3. broadcast' \in Seq(Messages) /\ Len(broadcast') <= BroadcastCap
    BY <1>4, <2>2, HubAssumption DEF TypeOK, Publish, Tasks
  <2> QED
    BY <1>4, <2>1, <2>2, <2>3 DEF TypeOK, Publish
<1>5. CASE Answer(c)
  <2>1. work' \in [Clients -> Seq(Tasks)]
    BY <1>5 DEF TypeOK, Answer, Handling, NextOf
  <2> QED
    BY <1>5, <2>1, SendToType DEF TypeOK, Answer, channels
<1>6. CASE StopReading(c)
  <2>1. unregister' \in Seq(Clients) /\ Len(unregister') <= RegisterCap
    BY <1>6, HubAssumption DEF TypeOK, StopReading
  <2> QED
    BY <1>6, <2>1 DEF TypeOK, StopReading
<1>7. CASE Write(c)
  <2>1. /\ Head(send[c]) \in Messages /\ Tail(send[c]) \in Seq(Messages)
        /\ Len(Tail(send[c])) <= SendCap
    <3>1. send[c] \in Seq(Messages) /\ send[c] # <<>> /\ Len(send[c]) <= SendCap
      BY <1>7 DEF TypeOK, Write
    <3> QED
      BY <3>1, HubAssumption
  <2>2. seen' \in [Clients -> [Clients -> Nat]]
    <3>1. Head(send[c]).from \in Clients /\ Head(send[c]).n \in Nat
      BY <2>1 DEF Messages
    <3> QED
      BY <1>7, <3>1 DEF TypeOK, Write
  <2> QED
    BY <1>7, <2>1, <2>2 DEF TypeOK, Write, channels
<1>8. CASE StopWriting(c)
  BY <1>8 DEF TypeOK, StopWriting, channels
<1>9. CASE Greet(c)
  BY <1>9, SendToType DEF TypeOK, Greet, channels, pumps
<1> QED
  BY <1>1, <1>2, <1>3, <1>4, <1>5, <1>6, <1>7, <1>8, <1>9
     DEF ClientStep, ReadPump, Handle, WritePump

LEMMA TypeStep == TypeOK /\ [Next]_vars => TypeOK'
<1> SUFFICES ASSUME TypeOK, [Next]_vars PROVE TypeOK'
  OBVIOUS
<1>1. CASE HubStep
  BY <1>1, RegisterType, UnregisterType, AnnounceType, FanOutType DEF HubStep
<1>2. CASE \E c \in Clients : ClientStep(c)
  BY <1>2, ClientType
<1>3. CASE UNCHANGED vars
  BY <1>3 DEF TypeOK, vars, channels, pumps
<1> QED
  BY <1>1, <1>2, <1>3 DEF Next

-----------------------------------------------------------------------------

(* The steps that only touch buffers, handlers and pumps.                  *)
LEMMA UntouchedRooms ==
  ASSUME HInv, UNCHANGED <<rooms, closed, register>>,
         \A c \in Clients : conn'[c] = "new" => conn[c] = "new"
  PROVE  RoomsOK'
<1>1. \A i \in DOMAIN register : register[i] \in Clients
  BY DEF HInv, TypeOK
<1> QED
  BY <1>1 DEF HInv, RoomsOK, RegisteredOnce, RoomsAreOpen, OwnRoom, Unheard

LEMMA RegisterOpen == HInv /\ Register => RoomsOK'
<1> SUFFICES ASSUME HInv, Register PROVE RoomsOK'
  OBVIOUS
<1> DEFINE c == Head(register)
<1>1. /\ register \in Seq(Clients) /\ register # <<>> /\ register' = Tail(register)
      /\ c = register[1] /\ c \in Clients /\ 1 \in DOMAIN register
      /\ UNCHANGED <<closed, conn>>
  BY DEF HInv, TypeOK, Register, pumps
<1>2. \A i \in DOMAIN register' : /\ i + 1 \in DOMAIN register /\ i \in Nat \ {0}
                                  /\ register'[i] = register[i + 1]
  BY <1>1
<1>3. \A u \in Users : rooms'[u] \subseteq rooms[u] \union {c}
  BY DEF HInv, TypeOK, Register
<1>4. /\ c \notin closed /\ conn[c] # "new"
      /\ \A i \in DOMAIN register' : register'[i] # c
  <2>1. \A i \in DOMAIN register' : i + 1 # 1
    BY <1>2
  <2> QED
    BY <1>1, <1>2, <2>1 DEF HInv, RoomsOK, RegisteredOnce, Unheard
<1>5. RoomsAreOpen'
  BY <1>1, <1>3, <1>4 DEF HInv, RoomsOK, RoomsAreOpen
<1>6. \A i, j \in DOMAIN register' : register'[i] = register'[j] => i = j
  <2> SUFFICES ASSUME NEW i \in DOMAIN register', NEW j \in DOMAIN register',
                      register'[i] = register'[j]
               PROVE  i = j
    OBVIOUS
  <2>1. i + 1 = j + 1
    BY <1>2 DEF HInv, RoomsOK, RegisteredOnce
  <2> QED
    BY <1>2, <2>1
<1>7. (\A i \in DOMAIN register : conn[register[i]] # "new" /\ Unheard(register[i]))'
  <2> SUFFICES ASSUME NEW i \in DOMAIN register'
               PROVE  (conn[register[i]] # "new" /\ Unheard(register[i]))'
    OBVIOUS
  <2> DEFINE d == register[i + 1]
  <2>1. register'[i] = d /\ i + 1 \in DOMAIN register /\ d # c
    BY <1>2, <1>4
  <2>2. conn[d] # "new" /\ Unheard(d)
    BY <2>1 DEF HInv, RoomsOK, RegisteredOnce
  <2>3. conn'[d] # "new" /\ d \notin closed' /\ \A u \in Users : d \notin rooms'[u]
    BY <1>1, <1>3, <2>1, <2>2 DEF Unheard
  <2> QED
    BY <2>1, <2>3 DEF Unheard
<1>8. \A d \in Clients : conn'[d] = "new" => Unheard(d)'
  BY <1>1, <1>3, <1>4 DEF HInv, RoomsOK, RegisteredOnce, Unheard
<1>9. OwnRoom'
  BY HubAssumption DEF HInv, TypeOK, RoomsOK, OwnRoom, Register
<1> QED
  BY <1>5, <1>6, <1>7, <1>8, <1>9 DEF RoomsOK, RegisteredOnce

(* Closing the channel of a client and taking it out of its room is one    *)
(* step, for an unregistration and for an eviction.                        *)
LEMMA ClosingOpen ==
  ASSUME HInv, UNCHANGED <<register, conn>>,
         NEW u \in Users, NEW gone \in SUBSET Clients, gone \subseteq rooms[u],
         closed' = closed \union gone,
         \A v \in Users : rooms'[v] \subseteq rooms[v],
         rooms'[u] \intersect gone = {}
  PROVE  RoomsOK'
<1>1. \A i \in DOMAIN register : register[i] \in Clients
  BY DEF HInv, TypeOK
<1>2. \A d \in Clients : Unheard(d) => Unheard(d)'
  BY DEF Unheard
<1>3. RoomsAreOpen' /\ OwnRoom'
  BY DEF HInv, RoomsOK, RoomsAreOpen, OwnRoom
<1>4. RegisteredOnce'
  BY <1>1, <1>2 DEF HInv, RoomsOK, RegisteredOnce
<1> QED
  BY <1>3, <1>4 DEF RoomsOK

LEMMA UnregisterOpen == HInv /\ Unregister => RoomsOK'
<1> SUFFICES ASSUME HInv, Unregister PROVE RoomsOK'
  OBVIOUS
<1> DEFINE c == Head(unregister)
           u == UserOf[c]
           gone == rooms[u] \intersect {c}
<1>1. c \in Clients /\ u \in Users /\ rooms[u] \subseteq Clients
  <2>1. unregister \in Seq(Clients) /\ unregister # <<>> /\ rooms \in [Users -> SUBSET Clients]
    BY DEF HInv, TypeOK, Unregister
  <2>2. c \in Clients
    BY <2>1
  <2> QED
    BY <2>1, <2>2, HubAssumption
<1>2. /\ closed' = closed \union gone
      /\ rooms' = [rooms EXCEPT ![u] = @ \ {c}]
      /\ UNCHANGED <<register, conn>>
  BY DEF Unregister, pumps
<1>3. /\ \A v \in Users : rooms'[v] \subseteq rooms[v]
      /\ rooms'[u] \intersect gone = {}
  BY <1>1, <1>2 DEF HInv, TypeOK
<1>4. gone \in SUBSET Clients /\ gone \subseteq rooms[u]
  BY <1>1
<1> HIDE DEF c, u, gone
<1> QED
  BY <1>1, <1>2, <1>3, <1>4, ClosingOpen

LEMMA FanOutOpen == HInv /\ FanOut => RoomsOK'
<1> SUFFICES ASSUME HInv, FanOut PROVE RoomsOK'
  OBVIOUS
<1> DEFINE m == Head(broadcast)
           u == UserOf[m.from]
           gone == Slow(m)
<1>1. m.from \in Clients /\ u \in Users
  <2>1. broadcast \in Seq(Messages) /\ broadcast # <<>>
    BY DEF HInv, TypeOK, FanOut
  <2>2. m \in Messages
    BY <2>1
  <2> QED
    BY <2>2, HubAssumption DEF Messages
<1>2. gone \subseteq rooms[u] /\ rooms[u] \subseteq Clients
  BY <1>1 DEF HInv, TypeOK, Slow, Targets
<1>3. /\ closed' = closed \union gone
      /\ rooms' = [rooms EXCEPT ![u] = @ \ gone]
      /\ UNCHANGED <<register, conn>>
  BY DEF FanOut, pumps
<1>4. /\ \A v \in Users : rooms'[v] \subseteq rooms[v]
      /\ rooms'[u] \intersect gone = {}
  BY <1>1, <1>3 DEF HInv, TypeOK
<1>5. gone \in SUBSET Clients
  BY <1>2
<1> HIDE DEF m, u, gone
<1> QED
  BY <1>1, <1>2, <1>3, <1>4, <1>5, ClosingOpen

LEMMA ConnectOpen ==
  ASSUME HInv, NEW c \in Clients, Connect(c)
  PROVE  RoomsOK'
<1>1. /\ register' = Append(register, c) /\ register \in Seq(Clients)
      /\ conn[c] = "new" /\ conn' = [conn EXCEPT ![c] = "open"]
      /\ conn \in [Clients -> {"new", "open", "closed"}]
      /\ UNCHANGED <<rooms, closed>> /\ Unheard(c)
  BY DEF HInv, TypeOK, RoomsOK, RegisteredOnce, Connect
<1>2. \A i \in DOMAIN register' :
        \/ i \in DOMAIN register /\ register'[i] = register[i] /\ register[i] # c
           /\ register[i] \in Clients
        \/ i = Len(register) + 1 /\ register'[i] = c
  BY <1>1 DEF HInv, RoomsOK, RegisteredOnce
<1>3. \A i, j \in DOMAIN register' : register'[i] = register'[j] => i = j
  BY <1>2 DEF HInv, RoomsOK, RegisteredOnce
<1>4. \A d : Unheard(d) => Unheard(d)'
  BY <1>1 DEF Unheard
<1>5. (\A i \in DOMAIN register : conn[register[i]] # "new" /\ Unheard(register[i]))'
  <2> SUFFICES ASSUME NEW i \in DOMAIN register'
               PROVE  (conn[register[i]] # "new" /\ Unheard(register[i]))'
    OBVIOUS
  <2>1. CASE i \in DOMAIN register /\ register'[i] = register[i]
             /\ register[i] # c /\ register[i] \in Clients
    <3>1. conn[register[i]] # "new" /\ Unheard(register[i])
      BY <2>1 DEF HInv, RoomsOK, RegisteredOnce
    <3> QED
      BY <1>1, <2>1, <3>1 DEF Unheard
  <2>2. CASE register'[i] = c
    BY <1>1, <2>2 DEF Unheard
  <2> QED
    BY <1>2, <2>1, <2>2
<1>6. \A d \in Clients : conn'[d] = "new" => Unheard(d)'
  BY <1>1, <1>4 DEF HInv, RoomsOK, RegisteredOnce
<1> QED
  BY <1>1, <1>3, <1>5, <1>6
     DEF HInv, RoomsOK, RegisteredOnce, RoomsAreOpen, OwnRoom

LEMMA RoomsStep == HInv /\ [Next]_vars => RoomsOK'
<1> SUFFICES ASSUME HInv, [Next]_vars PROVE RoomsOK'
  OBVIOUS
<1>1. CASE Announce
  BY <1>1, UntouchedRooms DEF Announce, pumps
<1>2. ASSUME NEW c \in Clients, ClientStep(c), ~Connect(c)
      PROVE  RoomsOK'
  <2>1. UNCHANGED <<rooms, closed, register>>
    BY <1>2 DEF ClientStep, ReadPump, Handle, WritePump, Disconnect, Receive, Publish,
                Answer, StopReading, Write, StopWriting, Greet, channels
  <2>2. conn' = conn \/ conn' = [conn EXCEPT ![c] = "closed"]
    BY <1>2 DEF ClientStep, ReadPump, Handle, WritePump, Disconnect, Receive, Publish,
                Answer, StopReading, Write, StopWriting, Greet, pumps
  <2>3. \A d \in Clients : conn'[d] = "new" => conn[d] = "new"
    BY <2>2 DEF HInv, TypeOK
  <2> QED
    BY <2>1, <2>3, UntouchedRooms
<1>3. CASE UNCHANGED vars
  BY <1>3, UntouchedRooms DEF vars, channels, pumps
<1> QED
  BY <1>1, <1>2, <1>3, RegisterOpen, UnregisterOpen, FanOutOpen, ConnectOpen
     DEF Next, HubStep

-----------------------------------------------------------------------------

(* The channels never hold more than their capacity.                       *)
THEOREM HubTypes == Spec => []TypeOK
<1>1. Init => TypeOK
  BY InitHInv DEF HInv
<1> QED
  BY <1>1, TypeStep, PTL DEF Spec

(* The hub never sends on a closed channel, nor closes one twice.          *)
THEOREM HubSendsSafely == Spec => []RoomsAreOpen
<1>1. HInv /\ [Next]_vars => HInv'
  BY TypeStep, RoomsStep DEF HInv
<1>2. HInv => RoomsAreOpen
  BY DEF HInv, RoomsOK
<1> QED
  BY InitHInv, <1>1, <1>2, PTL DEF Spec

-----------------------------------------------------------------------------
(* NoGaps.  The events of c are numbered as they are published, and wait   *)
(* first in the broadcast channel and then in the buffer of d.             *)
IsEvent(m, c) == m.kind = "event" /\ m.from = c
Nums(q, c) == {q[i].n : i \in {i \in DOMAIN q : IsEvent(q[i], c)}}
Sorted(q, c) == \A i, j \in DOMAIN q :
                  i < j /\ IsEvent(q[i], c) /\ IsEvent(q[j], c) => q[i].n < q[j].n

(* B waits in the broadcast channel: the last of the p published so far.   *)
Newest(B, p) == B \subseteq 1..p /\ \A a \in B : a..p \subseteq B
(* S waits in a buffer and s has arrived (0: none has): no gap in between. *)
Got(S, s) == S \union ({s} \ {0})
Whole(S, s, p) ==
  /\ S \subseteq 1..p /\ s \in 0..p /\ \A b \in S : s < b
  /\ \A a \in Got(S, s), b \in S : \A k \in 1..p : a < k /\ k < b => k \in S
(* A member of the room has, or is still owed, all that follows.           *)
Owed(S, s, B, p) ==
  /\ \A a \in Got(S, s), b \in B : a < b
  /\ \A a \in Got(S, s) : \A k \in 1..p : a < k => k \in S \union B
(* Of the events since its entry none is missing.                          *)
Due(S, s, B, p, j) == \A k \in 1..p : j < k => k <= s \/ k \in S \/ k \in B

Follows(d, c) ==
  /\ Sorted(send[d], c) /\ Whole(Nums(send[d], c), seen[d][c], published[c])
  /\ d \in rooms[UserOf[c]] =>
       /\ Owed(Nums(send[d], c), seen[d][c], Nums(broadcast, c), published[c])
       /\ Due(Nums(send[d], c), seen[d][c], Nums(broadcast, c), published[c], since[d][c])
  /\ Unheard(d) => Got(Nums(send[d], c), seen[d][c]) = {}

EventsInOrder == \A c \in Clients : /\ Sorted(broadcast, c)
                                    /\ Newest(Nums(broadcast, c), published[c])
OnlyOwnExcluded == \A i \in DOMAIN broadcast : IsEvent(broadcast[i], broadcast[i].from) =>
                     broadcast[i].exclude \in {broadcast[i].from, None}
FollowInv == /\ hub # None => hub.kind # "event"
             /\ EventsInOrder /\ OnlyOwnExcluded
             /\ \A c, d \in Clients : c # d => Follows(d, c)

(* Sets of numbers: an event is published, copied to a buffer, received.   *)
LEMMA NumberPublished ==
  ASSUME NEW p \in Nat, NEW B, NEW S, NEW s
  PROVE  /\ Newest(B, p) => Newest(B \union {p + 1}, p + 1)
         /\ Whole(S, s, p) => Whole(S, s, p + 1)
         /\ Whole(S, s, p) /\ Owed(S, s, B, p) => Owed(S, s, B \union {p + 1}, p + 1)
         /\ \A j : Due(S, s, B, p, j) => Due(S, s, B \union {p + 1}, p + 1, j)
<1>1. \A k : k \in 1..(p + 1) <=> k \in 1..p \/ k = p + 1
  OBVIOUS
<1>2. ASSUME Newest(B, p) PROVE Newest(B \union {p + 1}, p + 1)
  <2>1. ASSUME NEW a \in B, NEW k \in a..(p + 1) PROVE k \in B \union {p + 1}
    <3>1. a \in Nat /\ (k \in a..p \/ k = p + 1)
      BY <1>2, <2>1 DEF Newest
    <3> QED
      BY <1>2, <3>1 DEF Newest
  <2>2. ASSUME NEW k \in (p + 1)..(p + 1) PROVE k = p + 1
    OBVIOUS
  <2> QED
    BY <1>1, <1>2, <2>1, <2>2 DEF Newest
<1>3. ASSUME Whole(S, s, p) PROVE Whole(S, s, p + 1)
  <2>1. S \subseteq 1..(p + 1) /\ s \in 0..(p + 1)
    BY <1>3 DEF Whole
  <2>2. ASSUME NEW b \in S PROVE ~(p + 1 < b)
    BY <1>3 DEF Whole
  <2> QED
    BY <1>1, <1>3, <2>1, <2>2 DEF Whole
<1>4. ASSUME Whole(S, s, p), Owed(S, s, B, p) PROVE Owed(S, s, B \union {p + 1}, p + 1)
  <2>1. \A a \in Got(S, s) : a < p + 1
    BY <1>4 DEF Whole, Got
  <2> QED
    BY <1>1, <1>4, <2>1 DEF Owed
<1>5. \A j : Due(S, s, B, p, j) => Due(S, s, B \union {p + 1}, p + 1, j)
  BY <1>1 DEF Due
<1> QED
  BY <1>2, <1>3, <1>4, <1>5

LEMMA NumberCopied ==
  ASSUME NEW p \in Nat, NEW B, NEW S, NEW s, NEW n \in B, \A b \in B : n <= b,
         Newest(B, p), Whole(S, s, p), Owed(S, s, B, p)
  PROVE  /\ Whole(S \union {n}, s, p) /\ Owed(S \union {n}, s, B \ {n}, p)
         /\ \A j : Due(S, s, B, p, j) => Due(S \union {n}, s, B \ {n}, p, j)
         /\ \A a \in S : a < n
<1>1. n \in 1..p /\ S \subseteq 1..p /\ s \in 0..p /\ B \subseteq 1..p
  BY DEF Newest, Whole
<1>2. \A a \in Got(S, s) : a < n
  BY DEF Owed
<1>3. Got(S \union {n}, s) = Got(S, s) \union {n}
  BY DEF Got
<1>4. \A b \in S \union {n} : s < b
  <2>1. s = 0 \/ s \in Got(S, s)
    BY DEF Got
  <2> QED
    BY <1>1, <1>2, <2>1 DEF Whole
<1>5. ASSUME NEW a \in Got(S, s) \union {n}, NEW b \in S \union {n}, NEW k \in 1..p, a < k, k < b
      PROVE  k \in S \union {n}
  <2>1. a \in Nat /\ b \in Nat /\ k \in Nat /\ b <= n
    BY <1>1, <1>2 DEF Got
  <2>2. a # n
    BY <1>5, <2>1
  <2>3. k \in S \union B
    BY <1>5, <2>2 DEF Owed
  <2>4. k \notin B
    BY <1>1, <1>5, <2>1
  <2> QED
    BY <2>3, <2>4
<1>6. ASSUME NEW a \in Got(S, s) \union {n}
      PROVE  /\ \A b \in B \ {n} : a < b
             /\ \A k \in 1..p : a < k => k \in (S \union {n}) \union (B \ {n})
  <2>1. CASE a \in Got(S, s)
    BY <2>1 DEF Owed
  <2>2. CASE a = n
    <3>1. \A b \in B \ {n} : n < b
      BY <1>1
    <3>2. \A k \in 1..p : n < k => k \in B
      BY <1>1 DEF Newest
    <3> QED
      BY <2>2, <3>1, <3>2
  <2> QED
    BY <2>1, <2>2
<1>7. Whole(S \union {n}, s, p)
  BY <1>1, <1>3, <1>4, <1>5 DEF Whole
<1>8. Owed(S \union {n}, s, B \ {n}, p)
  BY <1>3, <1>6 DEF Owed
<1>9. \A j : Due(S, s, B, p, j) => Due(S \union {n}, s, B \ {n}, p, j)
  BY DEF Due
<1> QED
  BY <1>2, <1>7, <1>8, <1>9 DEF Got

LEMMA NumberTaken ==
  ASSUME NEW p \in Nat, NEW B, NEW n \in B, \A b \in B : n <= b, Newest(B, p)
  PROVE  Newest(B \ {n}, p)
<1>1. n \in 1..p /\ B \subseteq 1..p
  BY DEF Newest
<1>2. ASSUME NEW a \in B \ {n}, NEW k \in a..p PROVE k \in B \ {n}
  BY <1>1 DEF Newest
<1> QED
  BY <1>1, <1>2 DEF Newest

LEMMA NumberReceived ==
  ASSUME NEW p \in Nat, NEW S, NEW s, NEW n \in S, \A b \in S : n <= b, Whole(S, s, p)
  PROVE  /\ Whole(S \ {n}, n, p)
         /\ \A B : Owed(S, s, B, p) => Owed(S \ {n}, n, B, p)
         /\ s # 0 => n = s + 1
<1>1. n \in 1..p /\ S \subseteq 1..p /\ s \in 0..p /\ s < n
  BY DEF Whole
<1>2. Got(S \ {n}, n) = S
  BY <1>1 DEF Got
<1>3. ASSUME NEW a \in S, NEW b \in S \ {n}, NEW k \in 1..p, a < k, k < b PROVE k \in S \ {n}
  <2>1. k \in S
    BY <1>3 DEF Whole, Got
  <2> QED
    BY <1>1, <1>3, <2>1
<1>4. Whole(S \ {n}, n, p)
  <2>1. \A b \in S \ {n} : n < b
    BY <1>1
  <2> QED
    BY <1>1, <1>2, <1>3, <2>1, n \in 0..p, S \ {n} \subseteq 1..p DEF Whole
<1>5. ASSUME NEW B, Owed(S, s, B, p) PROVE Owed(S \ {n}, n, B, p)
  <2>1. ASSUME NEW a \in S, NEW k \in 1..p, a < k PROVE k \in (S \ {n}) \union B
    <3>1. k \in S \union B
      BY <1>5, <2>1 DEF Owed, Got
    <3> QED
      BY <1>1, <2>1, <3>1
  <2> QED
    BY <1>2, <1>5, <2>1 DEF Owed, Got
<1>6. ASSUME s # 0 PROVE n = s + 1
  <2> SUFFICES ASSUME n # s + 1 PROVE FALSE
    OBVIOUS
  <2>1. s + 1 \in 1..p /\ s < s + 1 /\ s + 1 < n
    BY <1>1
  <2>2. s + 1 \in S
    BY <1>6, <2>1 DEF Whole, Got
  <2> QED
    BY <1>1, <2>1, <2>2
<1> QED
  BY <1>4, <1>5, <1>6

LEMMA DueReceived ==
  ASSUME NEW p \in Nat, NEW S, NEW s, NEW n \in S, Whole(S, s, p), NEW B, NEW j, Due(S, s, B, p, j)
  PROVE  Due(S \ {n}, n, B, p, j)
<1> SUFFICES ASSUME NEW k \in 1..p, j < k PROVE k <= n \/ k \in S \ {n} \/ k \in B
  BY DEF Due
<1>1. k <= s \/ k \in S \/ k \in B
  BY DEF Due
<1>2. n \in 1..p /\ s \in 0..p /\ s < n
  BY DEF Whole
<1> QED
  BY <1>1, <1>2

(* Queues of messages.                                                     *)
LEMMA Appended ==
  ASSUME NEW q \in Seq(Messages), NEW m \in Messages, NEW c
  PROVE  /\ Nums(Append(q, m), c) = Nums(q, c) \union (IF IsEvent(m, c) THEN {m.n} ELSE {})
         /\ Sorted(q, c) /\ (IsEvent(m, c) => \A n \in Nums(q, c) : n < m.n)
              => Sorted(Append(q, m), c)
<1> DEFINE t == Append(q, m)
<1>1. /\ DOMAIN t = DOMAIN q \union {Len(q) + 1} /\ t[Len(q) + 1] = m
      /\ \A i \in DOMAIN q : t[i] = q[i] /\ i < Len(q) + 1 /\ i \in Nat
      /\ Len(q) \in Nat
  OBVIOUS
<1> HIDE DEF t
<1>2. \A i \in DOMAIN q : IsEvent(q[i], c) => q[i].n \in Nums(q, c)
  BY DEF Nums
<1>3. Nums(t, c) = Nums(q, c) \union (IF IsEvent(m, c) THEN {m.n} ELSE {})
  BY <1>1 DEF Nums
<1>4. ASSUME Sorted(q, c), IsEvent(m, c) => \A n \in Nums(q, c) : n < m.n PROVE Sorted(t, c)
  BY <1>1, <1>2, <1>4 DEF Sorted
<1> QED
  BY <1>3, <1>4 DEF t

(* A message that is not an event of c changes nothing for c.              *)
LEMMA AppendedOther ==
  ASSUME NEW q \in Seq(Messages), NEW m \in Messages, NEW c, ~IsEvent(m, c), Sorted(q, c)
  PROVE  Nums(Append(q, m), c) = Nums(q, c) /\ Sorted(Append(q, m), c)
<1>1. /\ Nums(Append(q, m), c) = Nums(q, c) \union (IF IsEvent(m, c) THEN {m.n} ELSE {})
      /\ Sorted(q, c) /\ (IsEvent(m, c) => \A n \in Nums(q, c) : n < m.n)
           => Sorted(Append(q, m), c)
  BY Appended, Zenon
<1> QED
  BY <1>1

LEMMA Removed ==
  ASSUME NEW q \in Seq(Messages), q # <<>>, NEW c, Sorted(q, c)
  PROVE  /\ Sorted(Tail(q), c) /\ Nums(q, c) \subseteq Nat
         /\ ~IsEvent(Head(q), c) => Nums(Tail(q), c) = Nums(q, c)
         /\ IsEvent(Head(q), c) => /\ Head(q).n \in Nums(q, c)
                                  /\ \A b \in Nums(q, c) : Head(q).n <= b
                                  /\ Nums(Tail(q), c) = Nums(q, c) \ {Head(q).n}
<1> DEFINE t == Tail(q)
           m == Head(q)
<1>1. /\ 1 \in DOMAIN q /\ m = q[1] /\ DOMAIN q = 1..Len(q) /\ Len(q) \in Nat
      /\ DOMAIN t = 1..(Len(q) - 1) /\ \A i \in DOMAIN t : t[i] = q[i + 1]
      /\ \A i \in DOMAIN q : q[i] \in Messages
  OBVIOUS
<1> HIDE DEF t, m
<1>2. \A i \in DOMAIN q : q[i].n \in Nat
  BY <1>1 DEF Messages
<1>3. \A i \in DOMAIN t : i + 1 \in DOMAIN q /\ 1 < i + 1 /\ t[i] = q[i + 1] /\ i \in Nat
  BY <1>1
<1>4. \A i \in DOMAIN q : i = 1 \/ \E j \in DOMAIN t : i = j + 1 /\ q[i] = t[j]
  <2>1. ASSUME NEW i \in DOMAIN q, i # 1 PROVE i - 1 \in DOMAIN t /\ i = (i - 1) + 1
    BY <1>1, <2>1
  <2> QED
    BY <1>1, <2>1
<1>5. Sorted(t, c)
  <2>1. ASSUME NEW i \in DOMAIN t, NEW j \in DOMAIN t, i < j PROVE i + 1 < j + 1
    BY <1>3, <2>1
  <2> QED
    BY <1>3, <2>1 DEF Sorted
<1>6. Nums(q, c) = Nums(t, c) \union (IF IsEvent(m, c) THEN {m.n} ELSE {})
  <2>1. Nums(t, c) \subseteq Nums(q, c)
    BY <1>3 DEF Nums
  <2>2. IsEvent(m, c) => m.n \in Nums(q, c)
    BY <1>1 DEF Nums
  <2>3. ASSUME NEW i \in DOMAIN q, IsEvent(q[i], c), i # 1 PROVE q[i].n \in Nums(t, c)
    BY <1>4, <2>3 DEF Nums
  <2> QED
    BY <1>1, <2>1, <2>2, <2>3 DEF Nums
<1>7. ASSUME IsEvent(m, c) PROVE \A b \in Nums(t, c) : m.n < b
  BY <1>1, <1>3, <1>7 DEF Nums, Sorted
<1>8. Nums(q, c) \subseteq Nat
  BY <1>2 DEF Nums
<1>9. m.n \in Nat
  BY <1>1, <1>2
<1>10. ASSUME IsEvent(m, c)
       PROVE  /\ m.n \in Nums(q, c) /\ m.n \notin Nums(t, c)
              /\ \A b \in Nums(q, c) : m.n <= b
  <2>1. m.n \notin Nums(t, c) /\ \A b \in Nums(t, c) : b \in Nat /\ m.n < b
    BY <1>6, <1>7, <1>8, <1>9, <1>10
  <2> QED
    BY <1>6, <1>9, <1>10, <2>1
<1> QED
  BY <1>5, <1>6, <1>8, <1>10 DEF t, m

(* A client does not become unheard of: whoever leaves the room is closed. *)
LEMMA StaysHeard ==
  ASSUME HInv, Next, NEW d \in Clients, Unheard(d)' PROVE Unheard(d)
<1>1. CASE Register
  BY <1>1, HubAssumption DEF HInv, TypeOK, Register, Unheard
<1>2. CASE Unregister
  <2>1. Head(unregister) \in Clients /\ UserOf[Head(unregister)] \in Users
    <3>1. unregister \in Seq(Clients) /\ unregister # <<>>
      BY <1>2 DEF HInv, TypeOK, Unregister
    <3>2. Head(unregister) \in Clients
      BY <3>1
    <3> QED
      BY <3>2, HubAssumption
  <2> QED
    BY <1>2, <2>1 DEF HInv, TypeOK, Unregister, Unheard
<1>3. CASE FanOut
  <2> DEFINE m == Head(broadcast)
  <2>1. m.from \in Clients /\ UserOf[m.from] \in Users
    <3>1. broadcast \in Seq(Messages) /\ broadcast # <<>>
      BY <1>3 DEF HInv, TypeOK, FanOut
    <3>2. m \in Messages
      BY <3>1
    <3> QED
      BY <3>2, HubAssumption DEF Messages
  <2>2. closed' = closed \union Slow(m) /\ rooms' = [rooms EXCEPT ![UserOf[m.from]] = @ \ Slow(m)]
    BY <1>3 DEF FanOut
  <2> QED
    BY <2>1, <2>2 DEF HInv, TypeOK, Unheard
<1>4. CASE Announce
  BY <1>4 DEF Announce, Unheard
<1>5. ASSUME NEW c \in Clients, ClientStep(c) PROVE UNCHANGED <<rooms, closed>>
  BY <1>5 DEF ClientStep, Connect, ReadPump, Handle, WritePump, Disconnect, Receive, Publish,
              Answer, StopReading, Write, StopWriting, Greet
<1> QED
  BY <1>1, <1>2, <1>3, <1>4, <1>5 DEF Next, HubStep, Unheard

(* What does not concern the events of c nor the buffer of d.              *)
LEMMA FollowsOn ==
  ASSUME NEW c \in Clients, NEW d \in Clients, Follows(d, c),
         Nums(send'[d], c) = Nums(send[d], c), Sorted(send'[d], c),
         seen'[d][c] = seen[d][c], published'[c] = published[c],
         Nums(broadcast', c) = Nums(broadcast, c),
         d \in rooms'[UserOf[c]] => \/ d \in rooms[UserOf[c]] /\ since'[d][c] = since[d][c]
                                    \/ Unheard(d) /\ since'[d][c] = published[c],
         published[c] \in Nat,
         Unheard(d)' => Unheard(d)
  PROVE  Follows(d, c)'
<1>1. Got(Nums(send[d], c), seen[d][c]) = {} =>
        Owed(Nums(send[d], c), seen[d][c], Nums(broadcast, c), published[c])
  BY DEF Owed
<1>2. Due(Nums(send[d], c), seen[d][c], Nums(broadcast, c), published[c], published[c])
  BY DEF Due
<1> QED
  BY <1>1, <1>2 DEF Follows

LEMMA RegisterFollow == HInv /\ FollowInv /\ Next /\ Register => FollowInv'
<1> SUFFICES ASSUME HInv, FollowInv, Next, Register PROVE FollowInv'
  OBVIOUS
<1>1. UNCHANGED <<broadcast, send, seen, published>> /\ hub'.kind = "joined"
  BY DEF Register, pumps, Presence
<1>2. EventsInOrder' /\ OnlyOwnExcluded'
  BY <1>1 DEF FollowInv, EventsInOrder, OnlyOwnExcluded
<1>3. ASSUME NEW d \in Clients, NEW u \in Users, d \in rooms'[u]
      PROVE  \/ d \in rooms[u] /\ since'[d] = since[d]
             \/ Unheard(d) /\ since'[d] = published
  <2>1. /\ register # <<>> /\ register \in Seq(Clients)
        /\ rooms' = [rooms EXCEPT ![UserOf[Head(register)]] = @ \union {Head(register)}]
        /\ since' = [since EXCEPT ![Head(register)] = published]
    BY DEF HInv, TypeOK, Register
  <2>2. 1 \in DOMAIN register /\ Head(register) = register[1]
    BY <2>1
  <2>3. Unheard(Head(register))
    BY <2>2 DEF HInv, RoomsOK, RegisteredOnce
  <2> QED
    BY <1>3, <2>1, <2>3 DEF HInv, TypeOK
<1>4. ASSUME NEW c \in Clients, NEW d \in Clients, c # d PROVE Follows(d, c)'
  BY <1>1, <1>3, <1>4, StaysHeard, FollowsOn, HubAssumption DEF FollowInv, Follows, HInv, TypeOK
<1> QED
  BY <1>1, <1>2, <1>4 DEF FollowInv

LEMMA UnregisterFollow == HInv /\ FollowInv /\ Next /\ Unregister => FollowInv'
<1> SUFFICES ASSUME HInv, FollowInv, Next, Unregister PROVE FollowInv'
  OBVIOUS
<1>1. UNCHANGED <<since, broadcast, send, seen, published>> /\ hub'.kind = "left"
  BY DEF Unregister, pumps, Presence
<1>2. EventsInOrder' /\ OnlyOwnExcluded'
  BY <1>1 DEF FollowInv, EventsInOrder, OnlyOwnExcluded
<1>3. \A u \in Users : rooms'[u] \subseteq rooms[u]
  BY DEF HInv, TypeOK, Unregister
<1>4. ASSUME NEW c \in Clients, NEW d \in Clients, c # d PROVE Follows(d, c)'
  BY <1>1, <1>3, <1>4, StaysHeard, FollowsOn, HubAssumption DEF FollowInv, Follows, HInv, TypeOK
<1> QED
  BY <1>1, <1>2, <1>4 DEF FollowInv

LEMMA AnnounceFollow == HInv /\ FollowInv /\ Next /\ Announce => FollowInv'
<1> SUFFICES ASSUME HInv, FollowInv, Next, Announce PROVE FollowInv'
  OBVIOUS
<1>1. /\ UNCHANGED <<rooms, since, send, seen, published>> /\ hub' = None
      /\ broadcast' = Append(broadcast, hub) /\ hub \in Messages /\ hub.kind # "event"
      /\ broadcast \in Seq(Messages)
  BY DEF Announce, pumps, FollowInv, HInv, TypeOK
<1>2. \A c : ~IsEvent(hub, c)
  BY <1>1 DEF IsEvent
<1>3. ASSUME NEW c \in Clients
      PROVE  Nums(broadcast', c) = Nums(broadcast, c) /\ Sorted(broadcast', c)
  <2>1. Sorted(broadcast, c) /\ ~IsEvent(hub, c)
    BY <1>2 DEF FollowInv, EventsInOrder
  <2> QED
    BY <1>1, <2>1, Appended
<1>4. EventsInOrder'
  BY <1>1, <1>3 DEF FollowInv, EventsInOrder
<1>5. OnlyOwnExcluded'
  <2> SUFFICES ASSUME NEW i \in DOMAIN broadcast', IsEvent(broadcast'[i], broadcast'[i].from)
               PROVE  broadcast'[i].exclude \in {broadcast'[i].from, None}
    BY DEF OnlyOwnExcluded
  <2>1. i \in DOMAIN broadcast /\ broadcast'[i] = broadcast[i]
    BY <1>1, <1>2
  <2> QED
    BY <2>1 DEF FollowInv, OnlyOwnExcluded
<1>6. ASSUME NEW c \in Clients, NEW d \in Clients, c # d PROVE Follows(d, c)'
  BY <1>1, <1>3, <1>6, StaysHeard, FollowsOn DEF FollowInv, Follows, HInv, TypeOK
<1> QED
  BY <1>1, <1>4, <1>5, <1>6 DEF FollowInv

LEMMA FanOutFollow == HInv /\ FollowInv /\ Next /\ FanOut => FollowInv'
<1> SUFFICES ASSUME HInv, FollowInv, Next, FanOut PROVE FollowInv'
  OBVIOUS
<1> DEFINE m == Head(broadcast)
           u == UserOf[m.from]
<1>1. /\ broadcast \in Seq(Messages) /\ broadcast # <<>> /\ broadcast' = Tail(broadcast)
      /\ UNCHANGED <<since, hub, seen, published>>
      /\ send' = Deliver(m) /\ rooms' = [rooms EXCEPT ![u] = @ \ Slow(m)]
  BY DEF FanOut, pumps, HInv, TypeOK
<1>2. m \in Messages /\ m = broadcast[1] /\ 1 \in DOMAIN broadcast
  BY <1>1
<1>3. m.from \in Clients /\ u \in Users
  BY <1>2, HubAssumption DEF Messages
<1>4. ASSUME NEW c \in Clients
      PROVE  /\ Sorted(broadcast', c) /\ Nums(broadcast, c) \subseteq Nat
             /\ ~IsEvent(m, c) => Nums(broadcast', c) = Nums(broadcast, c)
             /\ IsEvent(m, c) => /\ m.n \in Nums(broadcast, c)
                                /\ \A b \in Nums(broadcast, c) : m.n <= b
                                /\ Nums(broadcast', c) = Nums(broadcast, c) \ {m.n}
  BY <1>1, Removed DEF FollowInv, EventsInOrder
<1>5. ASSUME NEW c \in Clients
      PROVE  Newest(Nums(broadcast', c), published[c])
  <2>1. Newest(Nums(broadcast, c), published[c]) /\ published[c] \in Nat
    BY DEF FollowInv, EventsInOrder, HInv, TypeOK
  <2>2. CASE IsEvent(m, c)
    <3> DEFINE B == Nums(broadcast, c)
    <3>1. m.n \in B /\ \A b \in B : m.n <= b
      BY <1>4, <2>2
    <3> HIDE DEF B
    <3>2. Newest(B, published[c])
      BY <2>1 DEF B
    <3>3. Newest(B \ {m.n}, published[c])
      BY <2>1, <3>1, <3>2, NumberTaken
    <3> QED
      BY <1>4, <2>2, <3>3 DEF B
  <2>3. CASE ~IsEvent(m, c)
    BY <1>4, <2>1, <2>3
  <2> QED
    BY <2>2, <2>3
<1>6. EventsInOrder'
  BY <1>1, <1>4, <1>5 DEF EventsInOrder
<1>7. OnlyOwnExcluded'
  <2> SUFFICES ASSUME NEW i \in DOMAIN broadcast', IsEvent(broadcast'[i], broadcast'[i].from)
               PROVE  broadcast'[i].exclude \in {broadcast'[i].from, None}
    BY DEF OnlyOwnExcluded
  <2>1. i + 1 \in DOMAIN broadcast /\ broadcast'[i] = broadcast[i + 1]
    BY <1>1
  <2> QED
    BY <2>1 DEF FollowInv, OnlyOwnExcluded
<1>8. \A v \in Users : rooms'[v] \subseteq rooms[v]
  BY <1>1 DEF HInv, TypeOK
<1>9. ASSUME NEW c \in Clients, NEW d \in Clients, c # d PROVE Follows(d, c)'
  <2>1. /\ Follows(d, c) /\ Sorted(send[d], c) /\ send[d] \in Seq(Messages)
        /\ (Unheard(d)' => Unheard(d)) /\ UserOf[c] \in Users /\ published[c] \in Nat
    BY <1>9, StaysHeard, HubAssumption DEF FollowInv, Follows, HInv, TypeOK
  <2>2. send'[d] = IF d \in Targets(m) \ Slow(m) THEN Append(send[d], m) ELSE send[d]
    BY <1>1 DEF Deliver
  <2>3. CASE ~IsEvent(m, c)
    <3>1. Nums(send'[d], c) = Nums(send[d], c) /\ Sorted(send'[d], c)
      <4> HIDE DEF m
      <4>1. Nums(Append(send[d], m), c) = Nums(send[d], c) /\ Sorted(Append(send[d], m), c)
        <5>1. send[d] \in Seq(Messages) /\ Sorted(send[d], c) /\ m \in Messages
          BY <1>2, <2>1
        <5> QED
          BY <2>3, <5>1, AppendedOther, Zenon
      <4> QED
        BY <2>1, <2>2, <4>1
    <3>2. Nums(broadcast', c) = Nums(broadcast, c)
      BY <1>4, <2>3
    <3>3. seen' = seen /\ published' = published /\ since' = since
      BY <1>1
    <3>4. rooms'[UserOf[c]] \subseteq rooms[UserOf[c]]
      BY <1>8, <2>1
    <3> QED
      BY <2>1, <3>1, <3>2, <3>3, <3>4, FollowsOn
  <2>4. CASE IsEvent(m, c) /\ d \in Targets(m) \ Slow(m)
    <3> DEFINE B == Nums(broadcast, c)
               S == Nums(send[d], c)
               r == seen[d][c]
               q == published[c]
               n == m.n
    <3>1. /\ d \in rooms[UserOf[c]] /\ q \in Nat /\ Whole(S, r, q) /\ Owed(S, r, B, q)
          /\ Due(S, r, B, q, since[d][c]) /\ Newest(B, q) /\ ~Unheard(d)
      BY <2>1, <2>4 DEF IsEvent, Targets, Follows, FollowInv, EventsInOrder, HInv, TypeOK, Unheard
    <3>2. n \in B /\ \A b \in B : n <= b
      BY <1>4, <2>4
    <3>3. Nums(broadcast', c) = B \ {n}
      BY <1>4, <2>4
    <3>4. Nums(send'[d], c) = S \union {n}
      BY <1>2, <2>1, <2>2, <2>4, Appended
    <3> HIDE DEF B, S, r, q, n
    <3>5. /\ Whole(S \union {n}, r, q) /\ Owed(S \union {n}, r, B \ {n}, q)
          /\ Due(S \union {n}, r, B \ {n}, q, since[d][c]) /\ \A a \in S : a < n
      BY <3>1, <3>2, NumberCopied
    <3>6. Sorted(send'[d], c)
      BY <1>2, <2>1, <2>2, <2>4, <3>5, Appended DEF S, n
    <3> QED
      BY <1>1, <2>1, <3>1, <3>3, <3>4, <3>5, <3>6 DEF Follows, r, q
  <2>5. CASE IsEvent(m, c) /\ d \notin Targets(m) \ Slow(m)
    <3>1. u = UserOf[c] /\ m.exclude # d
      <4>1. m.exclude \in {c, None}
        BY <1>2, <2>5 DEF IsEvent, FollowInv, OnlyOwnExcluded
      <4> QED
        BY <1>9, <2>5, <4>1, HubAssumption DEF IsEvent
    <3>2. d \notin rooms'[UserOf[c]]
      BY <1>1, <1>3, <2>5, <3>1 DEF Targets, HInv, TypeOK
    <3>3. send'[d] = send[d]
      BY <2>2, <2>5
    <3> QED
      BY <1>1, <2>1, <3>2, <3>3 DEF Follows
  <2> QED
    BY <2>3, <2>4, <2>5
<1> QED
  BY <1>1, <1>6, <1>7, <1>9 DEF FollowInv

LEMMA PublishFollow ==
  ASSUME HInv, FollowInv, Next, NEW b \in Clients, Publish(b) PROVE FollowInv'
<1> DEFINE n == published[b] + 1
<1>1. PICK what \in {"share", "announce"} : broadcast' = Append(broadcast, Event(what, b, n))
  BY DEF Publish
<1> DEFINE m == Event(what, b, n)
<1>2. /\ UNCHANGED <<rooms, since, hub, closed, send, seen>> /\ published \in [Clients -> Nat]
      /\ published' = [published EXCEPT ![b] = n] /\ broadcast \in Seq(Messages)
  BY DEF Publish, HInv, TypeOK
<1>3. m \in Messages
  BY <1>1, <1>2, MessageFacts DEF Tasks
<1>4. m.kind = "event" /\ m.from = b /\ m.n = n /\ m.exclude \in {b, None}
  BY DEF Event
<1> HIDE DEF m
<1>5. ASSUME NEW c \in Clients, c # b
      PROVE  /\ Nums(broadcast', c) = Nums(broadcast, c) /\ Sorted(broadcast', c)
             /\ published'[c] = published[c]
  <2>1. ~IsEvent(m, c) /\ Sorted(broadcast, c)
    BY <1>4, <1>5 DEF IsEvent, FollowInv, EventsInOrder
  <2> QED
    BY <1>1, <1>2, <1>3, <1>5, <2>1, Appended DEF m
<1>6. /\ Nums(broadcast', b) = Nums(broadcast, b) \union {n} /\ Sorted(broadcast', b)
      /\ published'[b] = n
  <2>1. IsEvent(m, b) /\ Sorted(broadcast, b) /\ Newest(Nums(broadcast, b), published[b])
    BY <1>4 DEF IsEvent, FollowInv, EventsInOrder
  <2>2. \A k \in Nums(broadcast, b) : k < m.n
    BY <1>2, <1>4, <2>1 DEF Newest
  <2> QED
    BY <1>1, <1>2, <1>3, <1>4, <2>1, <2>2, Appended DEF m
<1>7. EventsInOrder'
  <2>1. Newest(Nums(broadcast, b) \union {n}, n)
    BY <1>2, NumberPublished DEF FollowInv, EventsInOrder
  <2> QED
    BY <1>5, <1>6, <2>1 DEF FollowInv, EventsInOrder
<1>8. OnlyOwnExcluded'
  <2> SUFFICES ASSUME NEW i \in DOMAIN broadcast', IsEvent(broadcast'[i], broadcast'[i].from)
               PROVE  broadcast'[i].exclude \in {broadcast'[i].from, None}
    BY DEF OnlyOwnExcluded
  <2>1. (i \in DOMAIN broadcast /\ broadcast'[i] = broadcast[i]) \/ broadcast'[i] = m
    BY <1>1, <1>2 DEF m
  <2> QED
    BY <1>4, <2>1 DEF FollowInv, OnlyOwnExcluded
<1>9. ASSUME NEW c \in Clients, NEW d \in Clients, c # d PROVE Follows(d, c)'
  <2>1. Follows(d, c) /\ (Unheard(d)' => Unheard(d)) /\ published[c] \in Nat
    BY <1>2, <1>9, StaysHeard DEF FollowInv
  <2>2. CASE c # b
    BY <1>2, <1>5, <2>1, <2>2, FollowsOn DEF Follows
  <2>3. CASE c = b
    <3> DEFINE B == Nums(broadcast, c)
               S == Nums(send[d], c)
               r == seen[d][c]
               q == published[c]
    <3>1. q \in Nat /\ n = q + 1
      BY <1>2, <2>3
    <3>2. /\ Whole(S, r, q) => Whole(S, r, q + 1)
          /\ Whole(S, r, q) /\ Owed(S, r, B, q) => Owed(S, r, B \union {q + 1}, q + 1)
          /\ \A j : Due(S, r, B, q, j) => Due(S, r, B \union {q + 1}, q + 1, j)
      <4> HIDE DEF S, r, B, q
      <4> QED
        BY <3>1, NumberPublished
    <3> QED
      BY <1>2, <1>6, <2>1, <2>3, <3>2 DEF Follows
  <2> QED
    BY <2>2, <2>3
<1> QED
  BY <1>2, <1>7, <1>8, <1>9 DEF FollowInv

LEMMA SendFollow ==
  ASSUME HInv, FollowInv, Next, NEW b \in Clients, SendTo(b),
         UNCHANGED <<rooms, since, closed, hub, broadcast, seen, published>>
  PROVE  FollowInv'
<1>1. EventsInOrder' /\ OnlyOwnExcluded'
  BY DEF FollowInv, EventsInOrder, OnlyOwnExcluded
<1>2. ASSUME NEW c \in Clients, NEW d \in Clients, c # d PROVE Follows(d, c)'
  <2>1. Follows(d, c) /\ (Unheard(d)' => Unheard(d)) /\ send[d] \in Seq(Messages)
        /\ published[c] \in Nat
    BY <1>2, StaysHeard DEF FollowInv, HInv, TypeOK
  <2>2. send'[d] = send[d] \/ send'[d] = Append(send[d], Reply(b))
    BY DEF SendTo, HInv, TypeOK
  <2>3. Reply(b) \in Messages /\ ~IsEvent(Reply(b), c) /\ Sorted(send[d], c)
    BY <2>1, MessageFacts DEF Reply, IsEvent, Follows
  <2>4. Nums(send'[d], c) = Nums(send[d], c) /\ Sorted(send'[d], c)
    <3>1. Nums(Append(send[d], Reply(b)), c) = Nums(send[d], c)
          /\ Sorted(Append(send[d], Reply(b)), c)
      BY <2>1, <2>3, AppendedOther, Zenon
    <3> QED
      BY <2>2, <2>3, <3>1
  <2> QED
    BY <2>1, <2>4, FollowsOn
<1> QED
  BY <1>1, <1>2 DEF FollowInv

(* The next event in the buffer is the successor of the last one received. *)
LEMMA WriteFollow ==
  ASSUME HInv, FollowInv, Next, NEW d \in Clients, Write(d)
  PROVE  /\ FollowInv'
         /\ \A c \in Clients : c # d /\ seen[d][c] # 0 => seen'[d][c] \in {seen[d][c], seen[d][c] + 1}
         /\ \A c, e \in Clients : e # d => seen'[e][c] = seen[e][c]
<1> DEFINE m == Head(send[d])
<1>1. /\ send[d] \in Seq(Messages) /\ send[d] # <<>> /\ send' = [send EXCEPT ![d] = Tail(send[d])]
      /\ UNCHANGED <<rooms, since, closed, hub, broadcast, published>>
      /\ seen' = IF m.kind = "event" THEN [seen EXCEPT ![d] = [seen[d] EXCEPT ![m.from] = m.n]] ELSE seen
      /\ seen \in [Clients -> [Clients -> Nat]]
  BY DEF Write, HInv, TypeOK, channels
<1>2. m \in Messages
  BY <1>1
<1>3. m.from \in Clients /\ send'[d] = Tail(send[d])
      /\ \A c \in Clients : seen'[d][c] = IF IsEvent(m, c) THEN m.n ELSE seen[d][c]
  BY <1>1, <1>2 DEF Messages, IsEvent, HInv, TypeOK
<1>4. \A e \in Clients : e # d => send'[e] = send[e] /\ seen'[e] = seen[e]
  BY <1>1 DEF HInv, TypeOK
<1>5. EventsInOrder' /\ OnlyOwnExcluded'
  BY <1>1 DEF FollowInv, EventsInOrder, OnlyOwnExcluded
<1>6. ASSUME NEW c \in Clients, c # d
      PROVE  Follows(d, c)' /\ (seen[d][c] # 0 => seen'[d][c] \in {seen[d][c], seen[d][c] + 1})
  <2> DEFINE S == Nums(send[d], c)
             r == seen[d][c]
             q == published[c]
             n == m.n
             B == Nums(broadcast, c)
  <2>1. /\ Follows(d, c) /\ Sorted(send[d], c) /\ (Unheard(d)' => Unheard(d)) /\ q \in Nat
        /\ Whole(S, r, q)
    BY <1>6, StaysHeard DEF FollowInv, Follows, HInv, TypeOK
  <2>2. /\ Sorted(send'[d], c)
        /\ ~IsEvent(m, c) => Nums(send'[d], c) = S
        /\ IsEvent(m, c) => n \in S /\ (\A b \in S : n <= b) /\ Nums(send'[d], c) = S \ {n}
    BY <1>1, <1>3, <2>1, Removed
  <2>3. CASE ~IsEvent(m, c)
    BY <1>1, <1>3, <2>1, <2>2, <2>3, FollowsOn
  <2>4. CASE IsEvent(m, c)
    <3>1. Nums(send'[d], c) = S \ {n} /\ seen'[d][c] = n
      BY <1>3, <2>2, <2>4
    <3>2. n \in S /\ \A b \in S : n <= b
      BY <2>2, <2>4
    <3>3. ~Unheard(d)
      BY <2>1, <3>2 DEF Follows, Got
    <3> HIDE DEF S, r, q, n, B
    <3>4. /\ Whole(S \ {n}, n, q) /\ (Owed(S, r, B, q) => Owed(S \ {n}, n, B, q))
          /\ \A j : Due(S, r, B, q, j) => Due(S \ {n}, n, B, q, j)
          /\ (r # 0 => n = r + 1)
      <4>1. q \in Nat /\ Whole(S, r, q) /\ n \in S /\ \A b \in S : n <= b
        BY <2>1, <3>2 DEF S, r, q
      <4>2. /\ Whole(S \ {n}, n, q) /\ (Owed(S, r, B, q) => Owed(S \ {n}, n, B, q))
            /\ (r # 0 => n = r + 1)
        BY <4>1, NumberReceived
      <4>3. \A j : Due(S, r, B, q, j) => Due(S \ {n}, n, B, q, j)
        BY <4>1, DueReceived
      <4> QED
        BY <4>2, <4>3
    <3> QED
      BY <1>1, <2>1, <2>2, <3>1, <3>3, <3>4 DEF Follows, S, r, q, B
  <2> QED
    BY <2>3, <2>4
<1>7. ASSUME NEW c \in Clients, NEW e \in Clients, c # e, e # d PROVE Follows(e, c)'
  BY <1>1, <1>4, <1>7, StaysHeard, FollowsOn DEF FollowInv, Follows, HInv, TypeOK
<1> QED
  BY <1>1, <1>4, <1>5, <1>6, <1>7 DEF FollowInv

LEMMA OtherFollow ==
  ASSUME FollowInv, UNCHANGED <<rooms, since, closed, hub, broadcast, send, seen, published>>
  PROVE  FollowInv'
BY DEF FollowInv, EventsInOrder, OnlyOwnExcluded, Follows, Unheard

LEMMA FollowStep ==
  HInv /\ FollowInv /\ [Next]_vars => FollowInv' /\
     \A c, d \in Clients : c # d /\ seen[d][c] # 0 => seen'[d][c] \in {seen[d][c], seen[d][c] + 1}
<1> SUFFICES ASSUME HInv, FollowInv, [Next]_vars
             PROVE  FollowInv' /\ \A c, d \in Clients : c # d /\ seen[d][c] # 0 =>
                                       seen'[d][c] \in {seen[d][c], seen[d][c] + 1}
  OBVIOUS
<1>1. CASE UNCHANGED vars
  BY <1>1, OtherFollow DEF vars, channels, pumps
<1>2. CASE Next /\ HubStep
  <2>1. UNCHANGED seen
    BY <1>2 DEF HubStep, Register, Unregister, Announce, FanOut, pumps
  <2> QED
    BY <1>2, <2>1, RegisterFollow, UnregisterFollow, AnnounceFollow, FanOutFollow DEF HubStep
<1>3. ASSUME Next, NEW b \in Clients, ClientStep(b)
      PROVE  FollowInv' /\ \A c, d \in Clients : c # d /\ seen[d][c] # 0 =>
                                seen'[d][c] \in {seen[d][c], seen[d][c] + 1}
  <2>1. CASE Publish(b)
    BY <1>3, <2>1, PublishFollow DEF Publish
  <2>2. CASE Answer(b) \/ Greet(b)
    <3>1. SendTo(b) /\ UNCHANGED <<rooms, since, closed, hub, broadcast, seen, published>>
      BY <2>2 DEF Answer, Greet, channels, pumps
    <3> QED
      BY <1>3, <3>1, SendFollow
  <2>3. CASE Write(b)
    BY <1>3, <2>3, WriteFollow
  <2>4. CASE Connect(b) \/ Disconnect(b) \/ Receive(b) \/ StopReading(b) \/ StopWriting(b)
    <3>1. UNCHANGED <<rooms, since, closed, hub, broadcast, send, seen, published>>
      BY <2>4 DEF Connect, Disconnect, Receive, StopReading, StopWriting, channels
    <3> QED
      BY <3>1, OtherFollow
  <2> QED
    BY <1>3, <2>1, <2>2, <2>3, <2>4 DEF ClientStep, ReadPump, Handle, WritePump
<1> QED
  BY <1>1, <1>2, <1>3 DEF Next

LEMMA InitFollow == Init => FollowInv
<1> SUFFICES ASSUME Init PROVE FollowInv
  OBVIOUS
<1>1. \A c : Nums(<<>>, c) = {} /\ Sorted(<<>>, c)
  BY DEF Nums, Sorted
<1>2. EventsInOrder /\ OnlyOwnExcluded
  BY <1>1 DEF Init, EventsInOrder, OnlyOwnExcluded, Newest
<1>3. ASSUME NEW c \in Clients, NEW d \in Clients PROVE Follows(d, c)
  <2>1. send[d] = <<>> /\ seen[d][c] = 0 /\ published[c] = 0 /\ since[d][c] = 0
    BY DEF Init
  <2> QED
    BY <1>1, <2>1 DEF Follows, Whole, Owed, Due, Got
<1> QED
  BY <1>2, <1>3 DEF Init, FollowInv

LEMMA HubFollows == Spec => [](HInv /\ FollowInv)
<1>1. HInv /\ FollowInv /\ [Next]_vars => HInv' /\ FollowInv'
  BY TypeStep, RoomsStep, FollowStep DEF HInv
<1> QED
  BY InitHInv, InitFollow, <1>1, PTL DEF Spec

(* A window follows another window of its user without a gap, whatever the *)
(* capacity of the channels and whoever is evicted (hub.go:128-158).       *)
THEOREM HubLeavesNoGaps == Spec => NoGaps
<1>1. HInv /\ FollowInv /\ [Next]_vars =>
        [\A c, d \in Clients :
           \/ c = d
           \/ seen[d][c] = 0
           \/ seen'[d][c] \in {seen[d][c], seen[d][c] + 1}]_seen
  BY FollowStep
<1> QED
  BY HubFollows, <1>1, PTL DEF Spec, NoGaps

(* Every event published since a window entered its room has reached it,   *)
(* or waits in its buffer or in the hub's channel, as long as the window   *)
(* is in the room (hub.go:128-158).                                        *)
THEOREM HubLosesNothing == Spec => []NothingSkipped
<1>1. HInv /\ FollowInv => NothingSkipped
  <2> SUFFICES ASSUME HInv, FollowInv,
                      NEW c \in Clients, NEW d \in Clients, c # d, d \in rooms[UserOf[c]],
                      NEW k \in 1..published[c], since[d][c] < k
               PROVE  k <= seen[d][c] \/ Waits(send[d], c, k) \/ Waits(broadcast, c, k)
    BY DEF NothingSkipped
  <2>1. \A q : k \in Nums(q, c) => Waits(q, c, k)
    BY DEF Nums, Waits, IsEvent
  <2>2. Due(Nums(send[d], c), seen[d][c], Nums(broadcast, c), published[c], since[d][c])
    BY DEF FollowInv, Follows
  <2> QED
    BY <2>1, <2>2 DEF Due
<1> QED
  BY HubFollows, <1>1, PTL
===========================================================================
