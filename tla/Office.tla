-------------------------------- MODULE Office --------------------------------
(***************************************************************************)
(* The office of the panel (webview-ui/src/office/engine/officeState.ts    *)
(* and characters.ts): its characters, their seats, their walks and their  *)
(* games of rock-paper-scissors, under the messages of the extension, the  *)
(* clicks of the user, new layouts and the frames of the animation loop.   *)
(*                                                                         *)
(* A frame advances every character at once, as update(dt) does.  Times    *)
(* are counted in frames (MatrixFrames, PhaseFrames); the random pauses of *)
(* a wandering character end in any frame.  A step from a tile to the next *)
(* takes two frames.  Appearance (palette, facing, animation) is left out, *)
(* and so are bubbles and tools, which module AgentActivity has.           *)
(***************************************************************************)
EXTENDS OfficeGrid, Lists

CONSTANTS
  Agents,        \* ids of agents: positive numbers
  Tools,         \* the tools of an agent that run a sub-agent
  Layouts,       \* name of a layout -> the layout
  Initial,       \* the layout shown before the first layoutLoaded
  Edits,         \* the changes of layout that happen: [from, to, shift]
  SavedSeat,     \* the seat stored for an agent of an earlier session
  MatrixFrames,  \* length of the spawn and despawn effects
  PhaseFrames,   \* phase of a game -> its length
  MaxSubagents, MaxEdits, MaxClicks,   \* bounds of the model
  Waiters,       \* the agents whose turns end in the model
  Hands,         \* what the players draw: "rock", "paper", "scissors"
  MayPlay,       \* whether the rock-paper-scissors timer runs in the model
  None

\* What a player keeps of its game.
RpsData == [opponent : Int, phase : {"walk", "countdown", "reveal", "result"}, timer : Nat,
            hand : Hands, result : {"win", "lose", "draw", None}]

Beats(c) == CASE c = "rock" -> "scissors" [] c = "scissors" -> "paper" [] c = "paper" -> "rock"

ASSUME AgentIds == Agents \subseteq Nat \ {0} /\ IsFiniteSet(Agents)
ASSUME SeatsSaved == DOMAIN SavedSeat = Agents
ASSUME LayoutsNamed == /\ Initial \in DOMAIN Layouts
                       /\ \A e \in Edits : e.to \in DOMAIN Layouts /\ e.shift \in Int \X Int
ASSUME FramesCounted == MatrixFrames \in Nat
ASSUME HandsAssumption == Hands \subseteq {"rock", "paper", "scissors"}

\* Derived once per layout; rebuildFromLayout recomputes them.
SeatsIn    == [l \in DOMAIN Layouts |-> layoutToSeats(Layouts[l].furniture)]
BlockedIn  == [l \in DOMAIN Layouts |-> getBlockedTiles(Layouts[l].furniture)]
WalkableIn == [l \in DOMAIN Layouts |-> getWalkableTiles(Layouts[l], BlockedIn[l])]

\* The code keeps the seats of a layout in a Map from their ids.
ASSUME SeatsAreAMap ==
  \A l \in DOMAIN Layouts :
    /\ SeatsIn[l] \in Seq(Range(SeatsIn[l]))
    /\ \A m, n \in DOMAIN SeatsIn[l] : SeatsIn[l][m].uid = SeatsIn[l][n].uid => m = n
\* Tiles have whole numbers.
ASSUME LayoutsAreGrids ==
  \A l \in DOMAIN Layouts :
    /\ Layouts[l].cols \in Nat /\ Layouts[l].rows \in Nat
    /\ \A s \in Range(SeatsIn[l]) : s.at \in Int \X Int
ASSUME NoneIsNoSeat == \A l \in DOMAIN Layouts : \A s \in Range(SeatsIn[l]) : s.uid # None
ASSUME NoneIsNoGame == None \notin RpsData /\ None \notin {"win", "lose", "draw"}

VARIABLES
  layout,        \* the current layout (its name)
  blocked,       \* blockedTiles
  assigned,      \* the seats whose flag "assigned" is set
  order,         \* the ids in the order of the map "characters"
  ch,            \* the characters
  subagentIdMap, \* <<parent, tool>> -> id of a sub-agent
  subagentMeta,  \* id of a sub-agent -> <<parent, tool>>
  nextSubagentId,
  selected,      \* selectedAgentId (cameraFollowId is cleared with it)
  listed,        \* the agents the panel lists (React state "agents")
  pending,       \* agents buffered until the layout is loaded
  ready,         \* a layout has been loaded
  unborn,        \* agents the extension has not announced yet
  edits, clicks  \* how often the layout was changed and the user clicked

\* History: which paths were found in an older layout, which seats the last
\* change of layout gave to a vanishing character, and which agents were
\* added from the buffer although they had been closed.
VARIABLES stale, haunted, ghosts
VARIABLE tick    \* flips with every frame

maps     == <<subagentIdMap, subagentMeta, nextSubagentId>>
panel    == <<listed, pending, ready, unborn>>
bounds   == <<edits, clicks>>
history  == <<stale, haunted, ghosts>>
vars == <<layout, blocked, assigned, order, ch, maps, selected, panel, bounds, history, tick>>

-------------------------------------------------------------------------------
IsSub(i)  == i < 0
Live(i)   == i \in DOMAIN ch /\ ch[i].fx # "despawn"
LiveIds   == {i \in DOMAIN ch : ch[i].fx # "despawn"}

HasSeat(l, uid) == \E s \in Range(SeatsIn[l]) : s.uid = uid
SeatTile(l, uid) == (CHOOSE s \in Range(SeatsIn[l]) : s.uid = uid).at

\* The tile of a character's own seat, as a set; unblocked while it looks for
\* a path and blocked again afterwards, whether it was before or not.
OwnSeat(c) == IF c.seat # None /\ HasSeat(layout, c.seat) THEN {SeatTile(layout, c.seat)} ELSE {}
\* Slip: the path ignores the furniture.
PathThroughFurniture(c, end, blk) == findPath(c.tile, end, Layouts[layout], {})

PathFor(c, end, blk) == findPath(c.tile, end, Layouts[layout], blk \ OwnSeat(c))

FreeSeats(l, taken) == Among(SeatsIn[l], {s \in Range(SeatsIn[l]) : s.uid \notin taken})

createCharacter(uid, tile, effect) ==
  [tile |-> tile, path |-> <<>>, moving |-> FALSE, state |-> "type", active |-> TRUE,
   seat |-> uid, seatTimer |-> 0, fx |-> effect, fxTimer |-> 0, rps |-> None]

Walking(c, path) == [c EXCEPT !.path = path, !.moving = FALSE, !.state = "walk"]
Without(f, S) == [x \in DOMAIN f \ S |-> f[x]]
With(f, x, y) == [z \in DOMAIN f \cup {x} |-> IF z = x THEN y ELSE f[z]]

\* A path stays stale until it is walked to its end or replaced.
StaleAfter(new) ==
  {i \in stale \cap DOMAIN new : /\ new[i].path # <<>>
                                 /\ new[i].path \in {ch[i].path, Tail(ch[i].path)}}
Move(new) == ch' = new /\ stale' = StaleAfter(new)

Init ==
  /\ layout = Initial
  /\ blocked = BlockedIn[Initial]
  /\ assigned = {} /\ order = <<>> /\ ch = <<>>
  /\ subagentIdMap = <<>> /\ subagentMeta = <<>> /\ nextSubagentId = -1
  /\ selected = None
  /\ listed = {} /\ pending = <<>> /\ ready = FALSE /\ unborn = Agents
  /\ edits = 0 /\ clicks = 0
  /\ stale = {} /\ haunted = {} /\ ghosts = {} /\ tick = FALSE

-------------------------------------------------------------------------------
(***************************************************************************)
(* Agents come, go and sit.                                                *)
(***************************************************************************)
\* addAgent for a list of [id, seat, effect], one after the other.  An agent
\* takes the seat it prefers when that is free, else the first free one, else
\* a random walkable tile.
AddOne(a, s, l) ==            \* the set of possible results in layout l
  LET free == FreeSeats(l, s.assigned)
      wanted == Among(free, {t \in Range(free) : t.uid = a.seat})
      taken == IF wanted # <<>> THEN wanted ELSE free
      spots == IF taken # <<>> THEN {taken[1].at}
               ELSE IF WalkableIn[l] # <<>> THEN Range(WalkableIn[l]) ELSE {<<1, 1>>}
      uid == IF taken # <<>> THEN taken[1].uid ELSE None
  IN  IF a.id \in DOMAIN s.ch THEN {s}
      ELSE {[order |-> Append(s.order, a.id),
             ch |-> With(s.ch, a.id, createCharacter(uid, spot, a.fx)),
             assigned |-> s.assigned \cup ({uid} \ {None})] : spot \in spots}

Added(news, s, l) ==
  LET Upto[n \in 0 .. Len(news)] ==
        IF n = 0 THEN {s} ELSE UNION {AddOne(news[n], t, l) : t \in Upto[n - 1]}
  IN  Upto[Len(news)]

\* agentCreated: a new agent appears with its spawn effect.
AgentCreated(a) ==
  /\ a \in unborn
  /\ unborn' = unborn \ {a}
  /\ listed' = listed \cup {a}
  /\ \E s \in AddOne([id |-> a, seat |-> None, fx |-> "spawn"],
                    [order |-> order, ch |-> ch, assigned |-> assigned], layout) :
       order' = s.order /\ Move(s.ch) /\ assigned' = s.assigned
  /\ UNCHANGED <<layout, blocked, maps, selected, pending, ready, bounds, haunted, ghosts>>

\* existingAgents: listed at once, buffered until the seats are known.  The
\* extension announces the agents it restored together with those it has
\* already created, once for each webviewReady: twice in a row, where addAgent
\* skips the repetition.  A webview that is made anew begins at Init.
ExistingAgents(restored) ==
  /\ ~ready /\ restored \subseteq unborn /\ pending = <<>>
  /\ unborn' = unborn \ restored
  /\ listed' = listed \cup restored
  /\ \E ids \in SetToSeqs(listed \cup restored) :
       /\ \A m, n \in DOMAIN ids : m < n => ids[m] < ids[n]
       /\ pending' = ids
  /\ UNCHANGED <<layout, blocked, assigned, order, ch, maps, selected, ready, bounds, history>>

\* Slip: an agent closed during its spawn effect does not vanish.
VanishUnlessSpawning(S) ==
  [i \in DOMAIN ch |->
     IF i \in S /\ ch[i].fx = "none" THEN [ch[i] EXCEPT !.fx = "despawn"] ELSE ch[i]]

\* The despawn effect starts; the seat is free and the selection is gone at
\* once, the character when the effect ends.  One already vanishing is left.
Vanish(S) == [i \in DOMAIN ch |->
                IF i \in S /\ Live(i) THEN [ch[i] EXCEPT !.fx = "despawn", !.fxTimer = 0] ELSE ch[i]]
SeatsOf(S) == {ch[i].seat : i \in {j \in S : Live(j)}} \ {None}

HelpersOf(a) == {i \in DOMAIN subagentMeta : subagentMeta[i][1] = a}

Removed(S, keys) ==
  /\ Move(Vanish(S))
  /\ assigned' = assigned \ SeatsOf(S)
  /\ selected' = IF selected \in S THEN None ELSE selected
  /\ subagentIdMap' = Without(subagentIdMap, keys)
  /\ subagentMeta' = Without(subagentMeta, {i \in DOMAIN subagentMeta : subagentMeta[i] \in keys})

\* Slip: the sub-agents of a parent are looked up by the wrong half of the key.
KeysOfTool(a) == {k \in DOMAIN subagentIdMap : k[2] = a}

KeysOf(a) == {k \in DOMAIN subagentIdMap : k[1] = a}

\* agentClosed: removeAllSubagents, then removeAgent.  An agent that is still
\* buffered stays so.
AgentClosed(a) ==
  /\ a \in listed
  /\ listed' = listed \ {a}
  /\ Removed(HelpersOf(a) \cup {a}, KeysOf(a))
  /\ UNCHANGED <<layout, blocked, order, nextSubagentId, pending, ready, unborn, bounds, haunted, ghosts>>

\* agentToolsClear: the turn ended, every sub-agent goes.
ToolsClear(a) ==
  /\ KeysOf(a) # {}
  /\ Removed(HelpersOf(a), KeysOf(a))
  /\ UNCHANGED <<layout, blocked, order, nextSubagentId, panel, bounds, haunted, ghosts>>

\* subagentClear: one sub-agent goes.
SubagentClear(a, tool) ==
  /\ <<a, tool>> \in DOMAIN subagentIdMap
  /\ Removed({subagentIdMap[<<a, tool>>]}, {<<a, tool>>})
  /\ UNCHANGED <<layout, blocked, order, nextSubagentId, panel, bounds, haunted, ghosts>>

\* A sub-agent takes the free seat closest to its parent, else the closest
\* walkable tile; the first in the code's order among equals.
Nearest(tiles, from) ==       \* its position among the tiles
  LET Best[n \in 1 .. Len(tiles)] ==
        IF n = 1 THEN 1
        ELSE LET b == Best[n - 1] IN
             IF Distance(tiles[n], from) < Distance(tiles[b], from) THEN n ELSE b
  IN  Best[Len(tiles)]

Closest(tiles, from) == tiles[Nearest(tiles, from)]

addSubagent(a, tool, m) ==      \* m: the characters so far
  LET from == IF a \in DOMAIN m THEN m[a].tile ELSE <<0, 0>>
      free == FreeSeats(layout, assigned)
      seat == free[Nearest([n \in DOMAIN free |-> free[n].at], from)]
      at == IF free # <<>> THEN seat.at
            ELSE IF WalkableIn[layout] # <<>> THEN Closest(WalkableIn[layout], from)
            ELSE <<1, 1>>
      uid == IF free # <<>> THEN seat.uid ELSE None
  IN  /\ Move(With(m, nextSubagentId, createCharacter(uid, at, "spawn")))
      /\ order' = Append(order, nextSubagentId)
      /\ assigned' = assigned \cup ({uid} \ {None})
      /\ subagentIdMap' = With(subagentIdMap, <<a, tool>>, nextSubagentId)
      /\ subagentMeta' = With(subagentMeta, nextSubagentId, <<a, tool>>)
      /\ nextSubagentId' = nextSubagentId - 1

\* Slip: the opponent of an agent that goes to work plays on.
setAgentActiveAlone(i, active) ==
  IF i \notin DOMAIN ch THEN ch
  ELSE IF active THEN [ch EXCEPT ![i].active = TRUE, ![i].rps = None]
  ELSE [ch EXCEPT ![i].active = FALSE, ![i].seatTimer = -1, ![i].path = <<>>, ![i].moving = FALSE]

\* setAgentActive: an active agent leaves its game, and so does its opponent;
\* an inactive one stops where it is, its seat timer marked as "turn ended".
setAgentActive(i, active) ==
  IF i \notin DOMAIN ch THEN ch
  ELSE LET foe == IF active /\ ch[i].rps # None THEN {i, ch[i].rps.opponent} ELSE {}
           quit == [j \in DOMAIN ch |-> IF j \in foe THEN [ch[j] EXCEPT !.rps = None] ELSE ch[j]]
       IN  IF active THEN [quit EXCEPT ![i].active = TRUE]
           ELSE [quit EXCEPT ![i].active = FALSE, ![i].seatTimer = -1,
                             ![i].path = <<>>, ![i].moving = FALSE]

\* agentStatus, and agentToolStart of any other tool.  A sub-agent is only ever
\* made active, which it is.
SetActive(a, active) ==
  /\ a \in listed
  /\ ~active => a \in Waiters
  /\ Move(setAgentActive(a, active))
  /\ UNCHANGED <<layout, blocked, assigned, order, maps, selected, panel, bounds, haunted, ghosts>>

\* agentToolStart of a Task: the agent is active and gets a sub-agent, unless
\* that tool has one.
SubtaskStart(a, tool) ==
  /\ a \in listed
  /\ <<a, tool>> \notin DOMAIN subagentIdMap
  /\ -nextSubagentId <= MaxSubagents
  /\ addSubagent(a, tool, setAgentActive(a, TRUE))
  /\ UNCHANGED <<layout, blocked, selected, panel, bounds, haunted, ghosts>>

-------------------------------------------------------------------------------
(***************************************************************************)
(* The user's clicks outside edit mode (OfficeCanvas.tsx).  Characters and *)
(* tiles are hit as the mouse happens to be.                               *)
(***************************************************************************)
SelectCharacter(i) ==
  /\ Live(i)
  /\ clicks < MaxClicks /\ clicks' = clicks + 1
  /\ selected' = IF selected = i THEN None ELSE i
  /\ UNCHANGED <<layout, blocked, assigned, order, ch, maps, panel, edits, history>>

\* Towards the seat of c, or down on the spot when there is no way or none is
\* needed; a waiting agent rests there.
HeadForSeat(c, blk) ==
  LET path == PathFor(c, SeatTile(layout, c.seat), blk) IN
  IF path # <<>> THEN Walking(c, path)
  ELSE [c EXCEPT !.state = "type", !.seatTimer = IF c.active THEN c.seatTimer ELSE 1]

Blocking(c) == blocked' = blocked \cup OwnSeat(c)

\* With an agent selected, a click on its own seat sends it there, on a free
\* seat gives it that one; any other click only ends the selection.
ClickTile(t) ==
  LET here == Among(SeatsIn[layout], {s \in Range(SeatsIn[layout]) : s.at = t})
      uid == here[1].uid
      c == ch[selected]
      own == here # <<>> /\ ~IsSub(selected) /\ c.seat = uid
      free == here # <<>> /\ ~IsSub(selected) /\ c.seat # uid /\ uid \notin assigned
      seated == [c EXCEPT !.seat = uid]
  IN  /\ selected # None
      /\ clicks < MaxClicks /\ clicks' = clicks + 1
      /\ selected' = None
      /\ \/ /\ own
            /\ Move([ch EXCEPT ![selected] = HeadForSeat(c, blocked)])
            /\ Blocking(c) /\ UNCHANGED assigned
         \/ /\ free
            /\ Move([ch EXCEPT ![selected] = HeadForSeat(seated, blocked)])
            /\ Blocking(seated)
            /\ assigned' = (assigned \ {c.seat}) \cup {uid}
         \/ /\ ~own /\ ~free
            /\ UNCHANGED <<ch, stale, blocked, assigned>>
      /\ UNCHANGED <<layout, order, maps, panel, edits, haunted, ghosts>>

\* A right click sends the selected agent to a tile.
WalkToTile(t) ==
  /\ selected # None /\ ~IsSub(selected)
  /\ clicks < MaxClicks /\ clicks' = clicks + 1
  /\ isWalkable(t, Layouts[layout], blocked) \/ t \in OwnSeat(ch[selected])
  /\ LET path == PathFor(ch[selected], t, blocked) IN
       /\ path # <<>>
       /\ Move([ch EXCEPT ![selected] = Walking(@, path)])
  /\ Blocking(ch[selected])
  /\ UNCHANGED <<layout, assigned, order, maps, selected, panel, edits, haunted, ghosts>>

-------------------------------------------------------------------------------
(***************************************************************************)
(* A new layout.  rebuildFromLayout keeps every character on its seat when *)
(* that still exists, the first in the map if two claim it; seats the rest *)
(* in order; and puts whoever stays without a seat out of bounds on a      *)
(* walkable tile.  It does not ask whether a character is vanishing, and   *)
(* leaves walks under way unless the grid was shifted.                     *)
(***************************************************************************)
\* Slip: two characters may claim the same seat.
KeepsAlways(k, to) == HasSeat(to, ch[order[k]].seat)

Keeps(k, to) ==
  /\ HasSeat(to, ch[order[k]].seat)
  /\ \A j \in 1 .. k - 1 : ch[order[j]].seat # ch[order[k]].seat

NewSeats(to) ==
  LET kept == {order[k] : k \in {n \in DOMAIN order : Keeps(n, to)}}
      rest == Among(order, DOMAIN ch \ kept)
      free == FreeSeats(to, {ch[i].seat : i \in kept})
      turn(i) == CHOOSE n \in DOMAIN rest : rest[n] = i
  IN  [i \in DOMAIN ch |-> IF i \in kept THEN ch[i].seat
                           ELSE IF turn(i) <= Len(free) THEN free[turn(i)].uid ELSE None]

Plus(t, shift) == <<t[1] + shift[1], t[2] + shift[2]>>

\* The set of possible characters after the change.
rebuildFromLayout(to, shift) ==
  LET seat == NewSeats(to)
      Shifted(c) == IF shift = <<0, 0>> THEN c
                    ELSE [c EXCEPT !.tile = Plus(@, shift), !.path = <<>>, !.moving = FALSE]
      Seated(i) == IF seat[i] = None THEN [Shifted(ch[i]) EXCEPT !.seat = None]
                   ELSE [Shifted(ch[i]) EXCEPT !.seat = seat[i], !.tile = SeatTile(to, seat[i])]
      lost == IF WalkableIn[to] = <<>> THEN {}
              ELSE {i \in DOMAIN ch : seat[i] = None /\ Seated(i).tile \notin Grid(Layouts[to])}
  IN  {[i \in DOMAIN ch |->
          IF i \in lost THEN [Seated(i) EXCEPT !.tile = spot[i], !.path = <<>>, !.moving = FALSE]
          ELSE Seated(i)] : spot \in [lost -> Range(WalkableIn[to])]}

Rebuilt(to, new) ==
  /\ layout' = to
  /\ blocked' = BlockedIn[to]
  /\ haunted' = {new[i].seat : i \in DOMAIN ch \ LiveIds} \ {None}
  /\ stale' = {i \in DOMAIN ch : new[i].path # <<>>}

SeatsTaken(m) == {m[i].seat : i \in DOMAIN m} \ {None}

\* layoutLoaded: the layout, if there is one, then the buffered agents without
\* an effect.
FirstLayout(to) ==
  LET l == IF to = None THEN layout ELSE to
      back == [n \in DOMAIN pending |-> [id |-> pending[n], seat |-> SavedSeat[pending[n]], fx |-> "none"]]
  IN  /\ ~ready /\ ready' = TRUE
      /\ \E new \in IF to = None THEN {ch} ELSE rebuildFromLayout(to, <<0, 0>>) :
         \E s \in Added(back, [order |-> order, ch |-> new,
                               assigned |-> IF to = None THEN assigned ELSE SeatsTaken(new)], l) :
           /\ order' = s.order /\ ch' = s.ch /\ assigned' = s.assigned
           /\ IF to = None THEN UNCHANGED <<layout, blocked, haunted, stale>> ELSE Rebuilt(to, new)
      /\ pending' = <<>>
      /\ ghosts' = Range(pending) \ (listed \cup DOMAIN ch)
      /\ UNCHANGED <<maps, selected, listed, unborn, bounds>>

\* Another window saved its layout, or the user edits this one; growing the
\* grid to the left or upwards shifts everybody.
EditLayout(e) ==
  /\ ready /\ layout = e.from
  /\ edits < MaxEdits /\ edits' = edits + 1
  /\ \E new \in rebuildFromLayout(e.to, e.shift) :
       /\ ch' = new
       /\ assigned' = SeatsTaken(new)
       /\ Rebuilt(e.to, new)
  /\ UNCHANGED <<order, maps, selected, panel, clicks, ghosts>>

-------------------------------------------------------------------------------
(***************************************************************************)
(* One frame: update(dt).  First the games advance, perhaps a new one      *)
(* starts, then every character takes its step.                            *)
(***************************************************************************)
Outcome(mine, other) ==
  IF mine = other THEN "draw" ELSE IF Beats(mine) = other THEN "win" ELSE "lose"

NextPhase(p) == CASE p = "walk" -> "countdown" [] p = "countdown" -> "reveal" [] p = "reveal" -> "result"

\* The game of one character.  Both players count the same frames, so what
\* one reads of the other is the same before and after the other's step.
PlayOn(i) ==
  LET c == ch[i]
      foe == c.rps.opponent
      over == c.rps.timer + 1 >= PhaseFrames[c.rps.phase]
      next == [c.rps EXCEPT !.phase = NextPhase(@), !.timer = 0]
  IN  CASE c.rps = None \/ c.fx # "none" -> c
        [] c.rps # None /\ c.fx = "none" /\ foe \notin DOMAIN ch -> [c EXCEPT !.rps = None]
        [] OTHER ->
           IF ~over THEN [c EXCEPT !.rps.timer = @ + 1]
           ELSE CASE c.rps.phase = "walk" ->
                       [c EXCEPT !.rps = next, !.path = <<>>, !.moving = FALSE, !.state = "idle"]
                  [] c.rps.phase = "countdown" ->
                       [c EXCEPT !.rps = [next EXCEPT !.result =
                          IF ch[foe].rps = None THEN None ELSE Outcome(c.rps.hand, ch[foe].rps.hand)]]
                  [] c.rps.phase = "reveal" -> [c EXCEPT !.rps = next]
                  [] c.rps.phase = "result" -> [c EXCEPT !.rps = None, !.state = "idle"]

\* The timer of the office starts a game between two idle or sitting agents.
\* Its period (50 s) is far longer than a game and than loading a layout, so
\* no other game is on.  They walk towards the point half-way between them, to
\* different tiles.
Half(a, b) == (a + b + 1) \div 2
Eligible(m) == {i \in DOMAIN m : /\ ~m[i].active /\ m[i].rps = None /\ m[i].fx = "none"
                                 /\ m[i].state \in {"idle", "type"}}

startRps(m, i, j, hand) ==
  LET mid == <<Half(m[i].tile[1], m[j].tile[1]), Half(m[i].tile[2], m[j].tile[2])>>
      floor == WalkableIn[layout]
      first == Closest(floor, Left(mid))
      others == Among(floor, Range(floor) \ {first})
      second == IF Closest(floor, Right(mid)) # first THEN <<Closest(floor, Right(mid))>>
                ELSE IF others # <<>> THEN <<Closest(others, Right(mid))>> ELSE <<>>
      Join(k, foe, to, blk) ==
        LET c == [m[k] EXCEPT !.seatTimer = 0, !.state = "idle",
                     !.rps = [opponent |-> foe, phase |-> "walk", timer |-> 0,
                              hand |-> hand[k], result |-> None]]
            path == IF to = <<>> THEN <<>> ELSE PathFor(c, to[1], blk)
        IN  IF path = <<>> THEN c ELSE Walking(c, path)
  IN  IF floor = <<>> THEN [m EXCEPT ![i] = Join(i, j, <<>>, {}), ![j] = Join(j, i, <<>>, {})]
      ELSE [m EXCEPT ![i] = Join(i, j, <<first>>, blocked),
                     ![j] = Join(j, i, second, blocked \cup OwnSeat(m[i]))]

Games(m) ==      \* the set of possible characters after the timer
  {m} \cup IF MayPlay /\ ready /\ \A i \in DOMAIN ch : ch[i].rps = None
           THEN UNION {{startRps(m, p[1], p[2], hand) : hand \in [{p[1], p[2]} -> Hands]} :
                         p \in {q \in Eligible(m) \X Eligible(m) : q[1] # q[2]}}
           ELSE {}

(***************************************************************************)
(* updateCharacter, as the set of possible results of a step.              *)
(***************************************************************************)
AtSeat(c) == c.tile \in OwnSeat(c)

\* Sitting.  A waiting character gets up when its rest is over.
SitOn(c) ==
  IF c.active THEN {c}
  ELSE IF c.seatTimer > 0 THEN {c, [c EXCEPT !.seatTimer = -1]}
  ELSE {[c EXCEPT !.seatTimer = 0, !.state = "idle"]}

\* Slip: an active character that cannot reach a seat stands about.
StandUnseated(c, blk) ==
  LET home == IF OwnSeat(c) = {} THEN <<>> ELSE PathFor(c, SeatTile(layout, c.seat), blk) IN
  IF c.active /\ home # <<>> THEN {Walking(c, home)} ELSE {c}

\* Standing.  An active one goes to its seat, or sits down where it is when
\* there is no way; another wanders, or returns to its seat, when it pleases.
Stand(c, blk) ==
  LET up == [c EXCEPT !.seatTimer = IF @ < 0 THEN 0 ELSE @]
      home == IF OwnSeat(c) = {} THEN <<>> ELSE PathFor(c, SeatTile(layout, c.seat), blk)
      strolls == {PathFor(c, t, blk) : t \in Range(WalkableIn[layout])} \ {<<>>}
  IN  IF c.rps # None THEN {c}
      ELSE IF c.active
      THEN {IF home # <<>> THEN Walking(up, home) ELSE [up EXCEPT !.state = "type"]}
      ELSE {up} \cup {Walking(up, p) : p \in strolls \cup ({home} \ {<<>>})}

\* Arrived: sit down at one's seat (after the end of a turn without a rest),
\* or in place without a seat; stand anywhere else.
Arrive(c) ==
  IF c.active THEN [c EXCEPT !.state = IF c.seat = None \/ AtSeat(c) THEN "type" ELSE "idle"]
  ELSE IF AtSeat(c) THEN [c EXCEPT !.state = "type", !.seatTimer = IF @ < 0 THEN 0 ELSE 1]
  ELSE [c EXCEPT !.state = "idle"]

\* Walking: half a tile per frame.  An active character on its way to
\* somewhere else turns towards its seat.
Walk(c, blk) ==
  LET on == IF ~c.moving THEN [c EXCEPT !.moving = TRUE]
            ELSE [c EXCEPT !.tile = Head(c.path), !.path = Tail(c.path), !.moving = FALSE]
      away == /\ c.active /\ OwnSeat(c) # {}
              /\ on.path = <<>> \/ on.path[Len(on.path)] \notin OwnSeat(c)
      home == IF away THEN PathFor(on, SeatTile(layout, c.seat), blk) ELSE <<>>
  IN  IF c.path = <<>> THEN Arrive(c)
      ELSE IF home # <<>> THEN [on EXCEPT !.path = home, !.moving = FALSE] ELSE on

updateCharacter(c, blk) ==
  CASE c.state = "type" -> SitOn(c)
    [] c.state = "idle" -> Stand(c, blk)
    [] c.state = "walk" -> {Walk(c, blk)}

\* The effects first: a character that appears or vanishes does nothing else.
Step(c, blk) ==
  IF c.fx = "none" THEN updateCharacter(c, blk)
  ELSE IF c.fxTimer + 1 < MatrixFrames THEN {[c EXCEPT !.fxTimer = @ + 1]}
  ELSE IF c.fx = "spawn" THEN {[c EXCEPT !.fx = "none", !.fxTimer = 0]}
  ELSE {[c EXCEPT !.fx = "gone"]}

\* The characters step in the order of the map, each blocking its own seat
\* again after its turn.
BlockedFor(k, m) ==
  blocked \cup UNION {OwnSeat(m[order[n]]) : n \in {x \in 1 .. k - 1 : m[order[x]].fx = "none"}}

Steps(m) ==      \* the sequences of what the characters may become
  LET Upto[k \in 0 .. Len(order)] ==
        IF k = 0 THEN {<<>>}
        ELSE {Append(done, c) : done \in Upto[k - 1], c \in Step(m[order[k]], BlockedFor(k, m))}
  IN  Upto[Len(order)]

\* Those whose despawn effect does not end in this frame.
Staying == Among(order, {i \in DOMAIN ch : ~(ch[i].fx = "despawn" /\ ch[i].fxTimer + 1 >= MatrixFrames)})

Frame ==
  \E m \in Games([i \in DOMAIN ch |-> PlayOn(i)]) : \E s \in Steps(m) :
    /\ Move([i \in Range(Staying) |-> s[CHOOSE k \in DOMAIN order : order[k] = i]])
    /\ order' = Staying
    /\ blocked' = BlockedFor(Len(order) + 1, m)
    /\ UNCHANGED <<layout, assigned, maps, selected, panel, bounds, haunted, ghosts>>

-------------------------------------------------------------------------------
Event ==
  \/ \E a \in Agents : AgentCreated(a) \/ AgentClosed(a) \/ ToolsClear(a)
  \/ \E a \in Agents, t \in Tools : SubtaskStart(a, t) \/ SubagentClear(a, t)
  \/ \E restored \in SUBSET Agents : ExistingAgents(restored)
  \/ \E a \in Agents, b \in BOOLEAN : SetActive(a, b)
  \/ \E i \in DOMAIN ch : SelectCharacter(i)
  \/ \E t \in Grid(Layouts[layout]) : ClickTile(t) \/ WalkToTile(t)
  \/ \E to \in DOMAIN Layouts \cup {None} : FirstLayout(to)
  \/ \E e \in Edits : EditLayout(e)

Next == \/ Event /\ UNCHANGED tick
        \/ Frame /\ tick' = ~tick

Spec == Init /\ [][Next]_vars

\* The animation loop never stops while the panel is open.  A frame is always
\* possible and only frames flip tick: this is weak fairness of Frame.
FairSpec == Spec /\ WF_tick(tick' = ~tick)

-------------------------------------------------------------------------------
(***************************************************************************)
(* Properties.                                                             *)
(***************************************************************************)
\* The flags "assigned" of the seats are exactly the seats of the characters
\* that are not vanishing, no two of which share one or sit on a chair that is
\* gone.  The exception is a seat that a change of layout gives to a vanishing
\* character (officeState.ts:103-136): nobody frees it until the next change.
SeatsAgree ==
  /\ assigned = ({ch[i].seat : i \in LiveIds} \ {None}) \cup haunted
  /\ \A i \in LiveIds : ch[i].seat # None =>
       /\ HasSeat(layout, ch[i].seat)
       /\ ch[i].seat \notin haunted
       /\ \A j \in LiveIds \ {i} : ch[j].seat # ch[i].seat

\* Every sub-agent on the floor can be found by the call that ends it and by
\* its parent's end, under one key, and its parent is still listed; nothing
\* that vanished can be found or is selected (officeState.ts:392-520).
HelpersTracked ==
  /\ DOMAIN subagentMeta = {i \in LiveIds : IsSub(i)}
  /\ \A i \in DOMAIN subagentMeta : /\ subagentMeta[i] \in DOMAIN subagentIdMap
                                    /\ subagentIdMap[subagentMeta[i]] = i
                                    /\ subagentMeta[i][1] \in listed
  /\ \A k \in DOMAIN subagentIdMap : subagentMeta[subagentIdMap[k]] = k
  /\ selected # None => Live(selected)

\* Once a layout is shown, the agents on the floor are those the panel lists,
\* plus the ones that were closed while they were buffered: agentClosed does not
\* look into pendingAgents (useExtensionMessages.ts:126-170).
AgentsShown ==
  ready => {i \in LiveIds : ~IsSub(i)} = listed \cup ghosts

\* A game has two sides until one of them vanishes: they are each other's
\* opponent, in the same phase, both waiting for work, and what one shows as a
\* win the other shows as a defeat (officeState.ts:554-616, 740-796).
GamesHaveTwoSides ==
  \A i \in LiveIds : ch[i].rps # None =>
    LET foe == ch[i].rps.opponent IN
    /\ ~ch[i].active
    /\ Live(foe) =>
         /\ foe # i /\ ch[foe].rps # None
         /\ ch[foe].rps = [ch[i].rps EXCEPT !.opponent = i, !.hand = ch[foe].rps.hand,
              !.result = CASE @ = "win" -> "lose" [] @ = "lose" -> "win" [] OTHER -> @]

\* Nobody walks through walls or furniture or jumps: while the layout stays, a
\* character moves to a neighbouring tile that is free or its own seat.  The
\* exception is a walk that was under way when the layout changed: the change
\* moves the character but leaves its path (officeState.ts:103-120).
NobodyWalksThroughWalls ==
  [][\A i \in DOMAIN ch \cap DOMAIN ch' :
       (edits' = edits /\ ready' = ready /\ ch'[i].tile # ch[i].tile) =>
          \/ i \in stale
          \/ /\ Distance(ch[i].tile, ch'[i].tile) = 1
             /\ \/ isWalkable(ch'[i].tile, Layouts[layout], BlockedIn[layout])
                \/ ch'[i].tile \in OwnSeat(ch[i])]_vars

\* An agent that works is shown working: whatever it was doing - wandering,
\* playing, on its way somewhere - it ends up typing, unless it stops or goes.
WorkersType ==
  \A i \in Agents :
    (i \in DOMAIN ch /\ ch[i].active) ~>
      (i \notin DOMAIN ch \/ ~ch[i].active \/ ch[i].state = "type" \/ ~Live(i))
===============================================================================
