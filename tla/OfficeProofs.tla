---------------------------- MODULE OfficeProofs ----------------------------
(***************************************************************************)
(* Proofs about Office, for any number of agents, tools, layouts and       *)
(* frames: SeatsAgree, HelpersTracked, AgentsShown, GamesHaveTwoSides and  *)
(* NobodyWalksThroughWalls.                                                *)
(*                                                                         *)
(* What the functions of the office promise comes first (FreeSeats,        *)
(* AddOne, rebuildFromLayout, Steps, ...); the invariant IInv of the       *)
(* characters, the panel and the sub-agents next; then the seats, the      *)
(* games and the walks, each inductive once IInv is known.                 *)
(***************************************************************************)
EXTENDS Office, ListProofs, FiniteSetTheorems, TLAPS

-----------------------------------------------------------------------------
(* A character has these fields; its effect ends, but it is never shown    *)
(* once it is gone.                                                        *)
Fields == {"tile", "path", "moving", "state", "active", "seat", "seatTimer", "fx", "fxTimer", "rps"}

IsGame(r) ==
  /\ DOMAIN r = {"opponent", "phase", "timer", "hand", "result"}
  /\ r.phase \in {"walk", "countdown", "reveal", "result"}

IsCharacter(c) ==
  /\ DOMAIN c = Fields
  /\ c.state \in {"type", "idle", "walk"}
  /\ c.fx \in {"spawn", "none", "despawn"}
  /\ c.fxTimer \in Nat
  /\ c.rps # None => IsGame(c.rps)

(* A character d that is c after a walk, a rest or a move of its game; and *)
(* after a walk or a rest only.                                            *)
Similar(c, d) ==
  /\ IsCharacter(d)
  /\ d.seat = c.seat /\ d.fx = c.fx /\ d.fxTimer = c.fxTimer /\ d.active = c.active

Alike(c, d) == Similar(c, d) /\ d.rps = c.rps

LEMMA AlikeItself == ASSUME NEW c, IsCharacter(c) PROVE Alike(c, c)
BY DEF Alike, Similar

LEMMA WalkingAlike ==
  ASSUME NEW c, IsCharacter(c), NEW p
  PROVE  Alike(c, Walking(c, p))
BY DEF IsCharacter, Fields, Alike, Similar, Walking

LEMMA HeadForSeatAlike ==
  ASSUME NEW c, IsCharacter(c), NEW blk
  PROVE  Alike(c, HeadForSeat(c, blk))
<1> DEFINE path == PathFor(c, SeatTile(layout, c.seat), blk)
<1> HIDE DEF path
<1>1. HeadForSeat(c, blk) =
        IF path # <<>> THEN Walking(c, path)
        ELSE [c EXCEPT !.state = "type", !.seatTimer = IF c.active THEN c.seatTimer ELSE 1]
  BY DEF HeadForSeat, path
<1>2. Alike(c, [c EXCEPT !.state = "type", !.seatTimer = IF c.active THEN c.seatTimer ELSE 1])
  BY DEF IsCharacter, Fields, Alike, Similar
<1> QED
  BY <1>1, <1>2, WalkingAlike

LEMMA SitOnAlike ==
  ASSUME NEW c, IsCharacter(c), NEW d \in SitOn(c)
  PROVE  Alike(c, d)
<1>1. d \in {c, [c EXCEPT !.seatTimer = -1], [c EXCEPT !.seatTimer = 0, !.state = "idle"]}
  BY DEF SitOn
<1> QED
  BY <1>1 DEF IsCharacter, Fields, Alike, Similar

LEMMA StandAlike ==
  ASSUME NEW c, IsCharacter(c), NEW blk, NEW d \in Stand(c, blk)
  PROVE  Alike(c, d)
<1> DEFINE up == [c EXCEPT !.seatTimer = IF @ < 0 THEN 0 ELSE @]
           down == [up EXCEPT !.state = "type"]
<1>1. d = c \/ d = up \/ d = down \/ \E p : d = Walking(up, p)
  BY DEF Stand
<1>2. IsCharacter(up) /\ Alike(c, up)
  BY DEF IsCharacter, Fields, Alike, Similar
<1>3. Alike(c, down)
  BY DEF IsCharacter, Fields, Alike, Similar
<1>4. \A p : Alike(c, Walking(up, p))
  <2> HIDE DEF up
  <2> QED
    BY <1>2, WalkingAlike DEF Alike, Similar
<1> QED
  BY <1>1, <1>2, <1>3, <1>4, AlikeItself

LEMMA WalkAlike ==
  ASSUME NEW c, IsCharacter(c), NEW blk
  PROVE  Alike(c, Walk(c, blk))
<1> DEFINE step == [c EXCEPT !.moving = TRUE]
           there == [c EXCEPT !.tile = Head(c.path), !.path = Tail(c.path), !.moving = FALSE]
           on == IF ~c.moving THEN step ELSE there
<1>1. \/ Walk(c, blk) = Arrive(c)
      \/ Walk(c, blk) = on
      \/ \E p : Walk(c, blk) = [on EXCEPT !.path = p, !.moving = FALSE]
  BY DEF Walk
<1>2. Alike(c, step) /\ Alike(c, there)
  BY DEF IsCharacter, Fields, Alike, Similar
<1>3. Alike(c, on)
  BY <1>2
<1>4. \A p : Alike(c, [on EXCEPT !.path = p, !.moving = FALSE])
  <2> HIDE DEF on
  <2> QED
    BY <1>3 DEF IsCharacter, Fields, Alike, Similar
<1>5. Alike(c, Arrive(c))
  <2>1. \A x : Alike(c, [c EXCEPT !.state = IF x THEN "type" ELSE "idle"])
    BY DEF IsCharacter, Fields, Alike, Similar
  <2>2. \A t : Alike(c, [c EXCEPT !.state = "type", !.seatTimer = t])
    BY DEF IsCharacter, Fields, Alike, Similar
  <2>3. Alike(c, [c EXCEPT !.state = "idle"])
    BY DEF IsCharacter, Fields, Alike, Similar
  <2> QED
    BY <2>1, <2>2, <2>3 DEF Arrive
<1> QED
  BY <1>1, <1>3, <1>4, <1>5

LEMMA UpdateAlike ==
  ASSUME NEW c, IsCharacter(c), NEW blk, NEW d \in updateCharacter(c, blk)
  PROVE  Alike(c, d)
BY SitOnAlike, StandAlike, WalkAlike DEF updateCharacter, IsCharacter

(* A step of the animation changes the effect only as the effect goes on.  *)
LEMMA StepEffect ==
  ASSUME NEW c, IsCharacter(c), NEW blk, NEW d \in Step(c, blk)
  PROVE  /\ d.seat = c.seat /\ d.active = c.active /\ d.rps = c.rps
         /\ c.fx = "none" => Alike(c, d)
         /\ c.fx = "spawn" => IsCharacter(d) /\ d.fx # "despawn"
         /\ c.fx = "despawn" /\ ~(c.fxTimer + 1 >= MatrixFrames) => IsCharacter(d) /\ d.fx = "despawn"
<1>1. CASE c.fx = "none"
  BY <1>1, UpdateAlike DEF Step, Alike, Similar
<1>2. CASE c.fx # "none" /\ c.fxTimer + 1 < MatrixFrames
  <2>1. d = [c EXCEPT !.fxTimer = @ + 1]
    BY <1>2 DEF Step
  <2> QED
    BY <1>2, <2>1 DEF IsCharacter, Fields
<1>3. CASE c.fx = "spawn" /\ ~(c.fxTimer + 1 < MatrixFrames)
  <2>1. d = [c EXCEPT !.fx = "none", !.fxTimer = 0]
    BY <1>3 DEF Step
  <2> QED
    BY <1>3, <2>1 DEF IsCharacter, Fields
<1>4. CASE c.fx = "despawn" /\ ~(c.fxTimer + 1 < MatrixFrames)
  <2>1. d = [c EXCEPT !.fx = "gone"]
    BY <1>4 DEF Step
  <2> QED
    BY <1>4, <2>1, FramesCounted DEF IsCharacter, Fields
<1> QED
  BY <1>1, <1>2, <1>3, <1>4 DEF IsCharacter

LEMMA SimilarTwice ==
  ASSUME NEW c, NEW d, NEW e, Similar(c, d), Similar(d, e)
  PROVE  Similar(c, e)
BY DEF Similar

(* Games and new layouts, too, leave effects as they are.                  *)
LEMMA PlayOnSimilar ==
  ASSUME NEW i \in DOMAIN ch, IsCharacter(ch[i])
  PROVE  /\ Similar(ch[i], PlayOn(i))
         /\ ch[i].rps = None => PlayOn(i) = ch[i]
<1> DEFINE c == ch[i]
           next == [c.rps EXCEPT !.phase = NextPhase(@), !.timer = 0]
<1>1. CASE c.rps = None \/ c.fx # "none"
  <2>1. PlayOn(i) = c
    BY <1>1 DEF PlayOn
  <2> QED
    BY <2>1 DEF Similar
<1>2. CASE c.rps # None /\ c.fx = "none"
  <2>1. IsGame(c.rps)
    BY <1>2 DEF IsCharacter
  <2>2. Similar(c, [c EXCEPT !.rps = None])
    BY DEF IsCharacter, Fields, Similar
  <2>3. Similar(c, [c EXCEPT !.rps = None, !.state = "idle"])
    BY DEF IsCharacter, Fields, Similar
  <2>4. Similar(c, [c EXCEPT !.rps.timer = @ + 1])
    <3>1. IsGame([c.rps EXCEPT !.timer = @ + 1])
      BY <2>1 DEF IsGame
    <3> QED
      BY <3>1 DEF IsCharacter, Fields, Similar
  <2>5. c.rps.phase # "result" => IsGame(next)
    BY <2>1 DEF IsGame, NextPhase
  <2>6. ASSUME NEW r, IsGame(r) PROVE Similar(c, [c EXCEPT !.rps = r])
    BY <2>6 DEF IsCharacter, Fields, Similar
  <2>7. ASSUME NEW r, IsGame(r)
        PROVE  Similar(c, [c EXCEPT !.rps = r, !.path = <<>>, !.moving = FALSE, !.state = "idle"])
    BY <2>7 DEF IsCharacter, Fields, Similar
  <2>8. c.rps.phase # "result" => \A x : IsGame([next EXCEPT !.result = x])
    <3> HIDE DEF next
    <3> QED
      BY <2>5 DEF IsGame
  <2>9. CASE ch[i].rps.opponent \notin DOMAIN ch
    BY <1>2, <2>2, <2>9 DEF PlayOn
  <2>10. CASE ch[i].rps.opponent \in DOMAIN ch /\ ~(c.rps.timer + 1 >= PhaseFrames[c.rps.phase])
    BY <1>2, <2>4, <2>10 DEF PlayOn
  <2>11. CASE ch[i].rps.opponent \in DOMAIN ch /\ c.rps.timer + 1 >= PhaseFrames[c.rps.phase]
    <3> HIDE DEF next
    <3>1. CASE c.rps.phase = "walk"
      <4>1. PlayOn(i) = [c EXCEPT !.rps = next, !.path = <<>>, !.moving = FALSE, !.state = "idle"]
        BY <1>2, <2>11, <3>1 DEF PlayOn, next
      <4> QED
        BY <4>1, <3>1, <2>5, <2>7, <1>2
    <3>2. CASE c.rps.phase = "countdown"
      <4>1. \E x : PlayOn(i) = [c EXCEPT !.rps = [next EXCEPT !.result = x]]
        BY <1>2, <2>11, <3>2 DEF PlayOn, next
      <4> QED
        BY <4>1, <3>2, <2>8, <2>6, <1>2
    <3>3. CASE c.rps.phase = "reveal"
      <4>1. PlayOn(i) = [c EXCEPT !.rps = next]
        BY <1>2, <2>11, <3>3 DEF PlayOn, next
      <4> QED
        BY <4>1, <3>3, <2>5, <2>6, <1>2
    <3>4. CASE c.rps.phase = "result"
      BY <1>2, <2>11, <3>4, <2>3 DEF PlayOn
    <3> QED
      BY <2>1, <3>1, <3>2, <3>3, <3>4 DEF IsGame
  <2> QED
    BY <2>9, <2>10, <2>11, <1>2
<1> QED
  BY <1>1, <1>2

(* The timer starts a game of two, or none.                                *)
LEMMA GamesForms ==
  ASSUME NEW n, NEW m \in Games(n)
  PROVE  m = n \/ \E i, j \in Eligible(n) : \E hand : i # j /\ m = startRps(n, i, j, hand)
<1> DEFINE P == {q \in Eligible(n) \X Eligible(n) : q[1] # q[2]}
           R(p) == {startRps(n, p[1], p[2], hand) : hand \in [{p[1], p[2]} -> Hands]}
<1>2. m = n \/ m \in UNION {R(p) : p \in P}
  BY DEF Games
<1>3. ASSUME m # n PROVE \E p \in P : m \in R(p)
  <2> HIDE DEF P, R
  <2> QED
    BY <1>2, <1>3
<1>4. m = n \/ \E p \in Eligible(n) \X Eligible(n) :
                 p[1] # p[2] /\ \E hand : m = startRps(n, p[1], p[2], hand)
  BY <1>3
<1> QED
  BY <1>4

LEMMA GamesSimilar ==
  ASSUME \A i \in DOMAIN ch : IsCharacter(ch[i]),
         NEW m \in Games([i \in DOMAIN ch |-> PlayOn(i)])
  PROVE  DOMAIN m = DOMAIN ch /\ \A i \in DOMAIN ch : Similar(ch[i], m[i])
<1> DEFINE n == [i \in DOMAIN ch |-> PlayOn(i)]
<1>1. DOMAIN n = DOMAIN ch /\ \A i \in DOMAIN ch : Similar(ch[i], n[i])
  BY PlayOnSimilar
<1> HIDE DEF n
<1>2. m = n \/ \E i, j \in Eligible(n) : \E hand : i # j /\ m = startRps(n, i, j, hand)
  BY GamesForms DEF n
<1>3. ASSUME NEW i \in Eligible(n), NEW j \in Eligible(n), NEW hand, m = startRps(n, i, j, hand)
      PROVE  DOMAIN m = DOMAIN ch /\ \A k \in DOMAIN ch : Similar(n[k], m[k])
  <2>1. i \in DOMAIN ch /\ j \in DOMAIN ch /\ \A k \in DOMAIN ch : IsCharacter(n[k])
    BY <1>1 DEF Eligible, Similar
  <2> DEFINE C(k, foe) == [n[k] EXCEPT !.seatTimer = 0, !.state = "idle",
                             !.rps = [opponent |-> foe, phase |-> "walk", timer |-> 0,
                                      hand |-> hand[k], result |-> None]]
             Joins(k, foe, d) == d = C(k, foe) \/ \E p : d = Walking(C(k, foe), p)
  <2>2. \A k, foe, d : k \in DOMAIN ch /\ Joins(k, foe, d) => Similar(n[k], d)
    <3> SUFFICES ASSUME NEW k \in DOMAIN ch, NEW foe, NEW d, Joins(k, foe, d)
                 PROVE  Similar(n[k], d)
      OBVIOUS
    <3>1. Similar(n[k], C(k, foe))
      BY <2>1 DEF IsCharacter, IsGame, Fields, Similar
    <3> HIDE DEF C
    <3>2. \A p : Similar(C(k, foe), Walking(C(k, foe), p))
      BY <3>1, WalkingAlike DEF Alike, Similar
    <3> QED
      BY <3>1, <3>2, SimilarTwice
  <2>3. \E d, e : Joins(i, j, d) /\ Joins(j, i, e) /\ m = [n EXCEPT ![i] = d, ![j] = e]
    BY <1>3 DEF startRps
  <2> HIDE DEF Joins
  <2>4. PICK d, e : Joins(i, j, d) /\ Joins(j, i, e) /\ m = [n EXCEPT ![i] = d, ![j] = e]
    BY <2>3
  <2>5. \A k \in DOMAIN ch : Similar(n[k], n[k])
    BY <2>1 DEF Similar
  <2>6. \A k \in DOMAIN ch : m[k] = IF k = j THEN e ELSE IF k = i THEN d ELSE n[k]
    BY <1>1, <2>1, <2>4
  <2>7. Similar(n[i], d) /\ Similar(n[j], e)
    BY <2>1, <2>2, <2>4
  <2> QED
    BY <1>1, <2>4, <2>5, <2>6, <2>7
<1> QED
  BY <1>1, <1>2, <1>3, SimilarTwice

LEMMA RebuiltSimilar ==
  ASSUME \A i \in DOMAIN ch : IsCharacter(ch[i]),
         NEW to, NEW shift, NEW new \in rebuildFromLayout(to, shift)
  PROVE  /\ DOMAIN new = DOMAIN ch
         /\ \A i \in DOMAIN ch :
              /\ IsCharacter(new[i]) /\ new[i].fx = ch[i].fx /\ new[i].rps = ch[i].rps
              /\ new[i].active = ch[i].active
              /\ new[i].seat = NewSeats(to)[i]
<1> DEFINE seat == NewSeats(to)
           Shifted(c) == IF shift = <<0, 0>> THEN c
                         ELSE [c EXCEPT !.tile = Plus(@, shift), !.path = <<>>, !.moving = FALSE]
           Seated(i) == IF seat[i] = None THEN [Shifted(ch[i]) EXCEPT !.seat = None]
                        ELSE [Shifted(ch[i]) EXCEPT !.seat = seat[i], !.tile = SeatTile(to, seat[i])]
           Fits(i, d) == /\ IsCharacter(d) /\ d.fx = ch[i].fx /\ d.rps = ch[i].rps
                         /\ d.active = ch[i].active /\ d.seat = seat[i]
<1>1. DOMAIN new = DOMAIN ch
      /\ \A i \in DOMAIN ch : \/ new[i] = Seated(i)
                              \/ \E t : new[i] = [Seated(i) EXCEPT !.tile = t, !.path = <<>>, !.moving = FALSE]
  <2> DEFINE lost == IF WalkableIn[to] = <<>> THEN {}
                     ELSE {i \in DOMAIN ch : seat[i] = None /\ Seated(i).tile \notin Grid(Layouts[to])}
             Put(i, t) == [Seated(i) EXCEPT !.tile = t, !.path = <<>>, !.moving = FALSE]
  <2>1. PICK spot \in [lost -> Range(WalkableIn[to])] :
          new = [i \in DOMAIN ch |-> IF i \in lost THEN Put(i, spot[i]) ELSE Seated(i)]
    BY DEF rebuildFromLayout
  <2>2. DOMAIN new = DOMAIN ch
    BY <2>1
  <2>3. ASSUME NEW i \in DOMAIN ch
        PROVE  new[i] = Seated(i) \/ new[i] = Put(i, spot[i])
    <3> HIDE DEF lost, Put, Seated
    <3> QED
      BY <2>1
  <2> HIDE DEF lost, Seated
  <2> QED
    BY <2>2, <2>3
<1> HIDE DEF seat
<1>2. ASSUME NEW i \in DOMAIN ch
      PROVE  Fits(i, new[i])
  <2>1. Alike(ch[i], Shifted(ch[i]))
    BY DEF IsCharacter, Fields, Alike, Similar
  <2> HIDE DEF Shifted
  <2>2. Fits(i, Seated(i))
    BY <2>1 DEF IsCharacter, Fields, Alike, Similar
  <2> HIDE DEF Seated
  <2>3. \A t : Fits(i, [Seated(i) EXCEPT !.tile = t, !.path = <<>>, !.moving = FALSE])
    BY <2>2 DEF IsCharacter, Fields
  <2> HIDE DEF Fits
  <2> QED
    BY <1>1, <2>2, <2>3
<1> QED
  BY <1>1, <1>2 DEF seat
(* In a frame every character takes a step of its own.                     *)
LEMMA StepsFacts ==
  ASSUME NEW m, order \in Seq(DOMAIN ch), NEW s \in Steps(m)
  PROVE  \A k \in DOMAIN order : s[k] \in Step(m[order[k]], BlockedFor(k, m))
<1> DEFINE N == Len(order)
           Of(k) == Step(m[order[k]], BlockedFor(k, m))
           U == UNION {Of(k) : k \in 1 .. N}
           V == SUBSET Seq(U)
           E(k, X) == {Append(done, c) : done \in X, c \in Of(k)}
           G == [k \in 1 .. N |-> [X \in V |-> E(k, X)]]
           base == {<<>>}
           Rec(f) == f = [k \in 0 .. N |-> IF k = 0 THEN base ELSE E(k, f[k - 1])]
<1>1. N \in Nat /\ DOMAIN order = 1 .. N
  OBVIOUS
<1>2. Steps(m) = (CHOOSE f : Rec(f))[N]
  BY DEF Steps
<1>3. \A k \in 1 .. N : \A c \in Of(k) : c \in U
  <2> HIDE DEF Of
  <2> QED
    OBVIOUS
<1> HIDE DEF Of, N, U
<1>4. base \in V
  <2>1. <<>> \in Seq(U)
    OBVIOUS
  <2> QED
    BY <2>1
<1>5. ASSUME NEW k \in 1 .. N, NEW X \in V
      PROVE  E(k, X) \in V
  <2>1. \A done \in X, c \in Of(k) : Append(done, c) \in Seq(U)
    BY <1>3
  <2> QED
    BY <2>1
<1>6. G \in [1 .. N -> [V -> V]] /\ \A k \in 1 .. N, X \in V : G[k][X] = E(k, X)
  <2> HIDE DEF V, E
  <2> QED
    BY <1>5
<1>7. PICK f \in [0 .. N -> V] : f[0] = base /\ \A k \in 1 .. N : f[k] = G[k][f[k - 1]]
  <2> HIDE DEF G, V, base, E
  <2>1. N \in Nat /\ base \in V /\ G \in [1 .. N -> [V -> V]]
    BY <1>1, <1>4, <1>6
  <2>2. \E f : Recurs(N, V, base, G, f)
    BY <2>1, Recursion
  <2> QED
    BY <2>2 DEF Recurs
<1>8. Rec(f)
  <2> HIDE DEF G, V, base, E
  <2>1. \A k \in 0 .. N : f[k] = IF k = 0 THEN base ELSE E(k, f[k - 1])
    BY <1>1, <1>6, <1>7
  <2> QED
    BY <1>7, <2>1
<1> DEFINE h == CHOOSE g : Rec(g)
<1>9. Rec(h)
  <2> HIDE DEF Rec
  <2> QED
    BY <1>8
<1> HIDE DEF h
<1>10. h[0] = base /\ \A k \in 1 .. N : h[k] = E(k, h[k - 1])
  <2> HIDE DEF base, E
  <2> QED
    BY <1>9, <1>1
<1> DEFINE Good(d, k) == d \in Seq(U) /\ Len(d) = k /\ \A n \in 1 .. k : d[n] \in Of(n)
           T == {k \in Nat : k <= N => \A d \in h[k] : Good(d, k)}
<1>11. 0 \in T
  <2>1. Good(<<>>, 0)
    <3>1. <<>> \in Seq(U) /\ Len(<<>>) = 0
      OBVIOUS
    <3> QED
      BY <3>1
  <2> HIDE DEF Good
  <2> QED
    BY <2>1, <1>10
<1>12. ASSUME NEW k \in Nat, k \in T PROVE k + 1 \in T
  <2> SUFFICES ASSUME k + 1 <= N, NEW d \in h[k + 1] PROVE Good(d, k + 1)
    OBVIOUS
  <2>1. k + 1 \in 1 .. N /\ (k + 1) - 1 = k
    BY <1>1
  <2>2. d \in E(k + 1, h[k])
    BY <1>10, <2>1
  <2>3. PICK done \in h[k], c \in Of(k + 1) : d = Append(done, c)
    BY <2>2
  <2>4. Good(done, k)
    <3> HIDE DEF Good
    <3> QED
      BY <1>12, <1>1
  <2>5. done \in Seq(U) /\ c \in U
    BY <2>4, <2>1, <1>3
  <2>6. /\ d \in Seq(U) /\ Len(d) = k + 1 /\ d[k + 1] = c
        /\ \A n \in 1 .. k : d[n] = done[n]
    BY <2>3, <2>4, <2>5
  <2>7. \A n \in 1 .. k + 1 : n = k + 1 \/ n \in 1 .. k
    OBVIOUS
  <2> QED
    BY <2>4, <2>6, <2>7
<1>13. Nat \subseteq T
  <2> HIDE DEF T
  <2> QED
    BY <1>11, <1>12, NatSetInduction
<1>14. Good(s, N)
  <2> HIDE DEF Good
  <2> QED
    BY <1>13, <1>1, <1>2 DEF h
<1> QED
  BY <1>14, <1>1 DEF Of
-----------------------------------------------------------------------------
(* Seats.  Those that are free, and the free one closest to somebody.      *)
LEMMA FreeSeatsFacts ==
  ASSUME NEW l \in DOMAIN Layouts, NEW taken
  PROVE  /\ FreeSeats(l, taken) \in Seq(Range(SeatsIn[l]))
         /\ \A n \in DOMAIN FreeSeats(l, taken) :
              /\ FreeSeats(l, taken)[n].uid \notin taken
              /\ HasSeat(l, FreeSeats(l, taken)[n].uid)
         /\ \A m, n \in DOMAIN FreeSeats(l, taken) :
              FreeSeats(l, taken)[m].uid = FreeSeats(l, taken)[n].uid => m = n
<1> DEFINE q == SeatsIn[l]
           U == Range(q)
           S == {s \in U : s.uid \notin taken}
<1>1. /\ q \in Seq(U)
      /\ \A m, n \in DOMAIN q : q[m].uid = q[n].uid => m = n
  BY SeatsAreAMap
<1>2. FreeSeats(l, taken) = Among(q, S)
  BY DEF FreeSeats
<1>3. \A x \in S : x.uid \notin taken /\ HasSeat(l, x.uid)
  BY DEF HasSeat
<1>4. \A m \in DOMAIN q : q[m] \in U
  BY DEF Range
<1> HIDE DEF q, U, S
<1>5. \A m, n \in DOMAIN q : q[m] = q[n] => m = n
  BY <1>1
<1> DEFINE r == Among(q, S)
<1>6. /\ r \in Seq(U)
      /\ \A n \in DOMAIN r : r[n] \in S /\ \E m \in DOMAIN q : q[m] = r[n]
      /\ \A m, n \in DOMAIN r : r[m] = r[n] => m = n
  BY <1>1, <1>5, AmongFacts
<1> HIDE DEF r
<1>7. \A m, n \in DOMAIN r : r[m].uid = r[n].uid => m = n
  <2> SUFFICES ASSUME NEW m \in DOMAIN r, NEW n \in DOMAIN r, r[m].uid = r[n].uid PROVE m = n
    OBVIOUS
  <2>1. PICK a \in DOMAIN q, b \in DOMAIN q : q[a] = r[m] /\ q[b] = r[n]
    BY <1>6
  <2>2. a = b
    BY <1>1, <2>1
  <2> QED
    BY <1>6, <2>1, <2>2
<1> QED
  BY <1>2, <1>3, <1>6, <1>7 DEF r, U, q

LEMMA NearestIsOne ==
  ASSUME NEW N \in Nat \ {0}, NEW tiles, DOMAIN tiles = 1 .. N, Len(tiles) = N, NEW from
  PROVE  Nearest(tiles, from) \in 1 .. N
<1> DEFINE E(n, b) == IF Distance(tiles[n], from) < Distance(tiles[b], from) THEN n ELSE b
           V == 1 .. N
           G == [n \in 1 .. N - 1 |-> [b \in V |-> E(n + 1, b)]]
           Rec(f) == f = [n \in 1 .. N |-> IF n = 1 THEN 1 ELSE E(n, f[n - 1])]
<1>1. Nearest(tiles, from) = (CHOOSE f : Rec(f))[N]
  BY DEF Nearest
<1>2. \A n \in V, b \in V : E(n, b) \in V
  OBVIOUS
<1> HIDE DEF E
<1>3. G \in [1 .. N - 1 -> [V -> V]] /\ 1 \in V /\ N - 1 \in Nat
  <2>1. 1 \in V /\ N - 1 \in Nat /\ \A n \in 1 .. N - 1 : n + 1 \in V
    OBVIOUS
  <2>2. \A n \in 1 .. N - 1 : [b \in V |-> E(n + 1, b)] \in [V -> V]
    <3> HIDE DEF V
    <3> QED
      BY <1>2, <2>1
  <2>3. G \in [1 .. N - 1 -> [V -> V]]
    <3> HIDE DEF V
    <3> QED
      BY <2>2
  <2> QED
    BY <2>1, <2>3
<1>4. PICK g : Recurs(N - 1, V, 1, G, g)
  <2> DEFINE M == N - 1
             one == 1
  <2>1. M \in Nat /\ one \in V /\ G \in [1 .. M -> [V -> V]]
    BY <1>3
  <2>2. \E g : Recurs(M, V, one, G, g)
    <3> HIDE DEF M, V, G, one
    <3> QED
      BY <2>1, Recursion
  <2> QED
    BY <2>2
<1> DEFINE f == [n \in 1 .. N |-> g[n - 1]]
<1>5. Rec(f)
  <2>1. \A n \in 1 .. N : f[n] = IF n = 1 THEN 1 ELSE E(n, f[n - 1])
    <3> SUFFICES ASSUME NEW n \in 1 .. N PROVE f[n] = IF n = 1 THEN 1 ELSE E(n, f[n - 1])
      OBVIOUS
    <3>1. CASE n = 1
      BY <3>1, <1>4 DEF Recurs
    <3>2. CASE n # 1
      <4>1. n - 1 \in 1 .. N - 1 /\ n - 1 \in 1 .. N /\ n - 2 \in 0 .. N - 1 /\ (n - 1) - 1 = n - 2
        BY <3>2
      <4>2. g[n - 1] = G[n - 1][g[n - 2]] /\ g[n - 2] \in V
        BY <4>1, <1>4 DEF Recurs
      <4>3. g[n - 1] = E(n, g[n - 2])
        BY <4>1, <4>2
      <4> QED
        BY <4>1, <4>3, <3>2
    <3> QED
      BY <3>1, <3>2
  <2> HIDE DEF E
  <2> QED
    BY <2>1
<1> DEFINE h == CHOOSE x : Rec(x)
<1>6. Rec(h)
  <2> HIDE DEF Rec
  <2> QED
    BY <1>5
<1> HIDE DEF h
<1>7. h[1] = 1 /\ \A n \in 1 .. N : n # 1 => h[n] = E(n, h[n - 1])
  BY <1>6
<1> DEFINE T == {n \in Nat : n + 1 <= N => h[n + 1] \in V}
<1>8. 0 \in T
  BY <1>7
<1>9. ASSUME NEW n \in Nat, n \in T PROVE n + 1 \in T
  <2> SUFFICES ASSUME n + 2 <= N PROVE h[n + 2] \in V
    OBVIOUS
  <2>1. n + 2 \in V /\ n + 2 # 1 /\ (n + 2) - 1 = n + 1 /\ h[n + 1] \in V
    BY <1>9
  <2>2. h[n + 2] = E(n + 2, h[n + 1])
    BY <2>1, <1>7
  <2> QED
    BY <2>1, <2>2, <1>2
<1>10. Nat \subseteq T
  <2> HIDE DEF T
  <2> QED
    BY <1>8, <1>9, NatSetInduction
<1>11. N - 1 \in T /\ (N - 1) + 1 = N
  BY <1>10
<1> QED
  BY <1>1, <1>11 DEF h
-----------------------------------------------------------------------------
(* The order of the map, who is not vanishing, and how the flags of the    *)
(* seats agree with the characters (SeatsAgree, for any of these).         *)
InOrder(q, m) ==
  /\ q \in Seq(DOMAIN m)
  /\ \A i \in DOMAIN m : \E k \in DOMAIN q : q[k] = i
  /\ \A k, n \in DOMAIN q : q[k] = q[n] => k = n

Alive(m) == {i \in DOMAIN m : m[i].fx # "despawn"}

Sits(m, taken, l, h) ==
  /\ taken = ({m[i].seat : i \in Alive(m)} \ {None}) \cup h
  /\ \A i \in Alive(m) : m[i].seat # None =>
       /\ HasSeat(l, m[i].seat)
       /\ m[i].seat \notin h
       /\ \A j \in Alive(m) \ {i} : m[j].seat # m[i].seat

People(m) == \A i \in DOMAIN m : IsCharacter(m[i])

(* Who appears stands on a tile and has nowhere to go.                     *)
Lands(c) == c.tile \in Int \X Int /\ c.path = <<>>

(* A character that is added: q2, m2 and taken2 were q, m and taken.       *)
Newcomer(q, m, taken, id, effect, l, q2, m2, taken2) ==
  /\ id \notin DOMAIN m
  /\ q2 = Append(q, id)
  /\ DOMAIN m2 = DOMAIN m \cup {id}
  /\ \A i \in DOMAIN m : m2[i] = m[i]
  /\ IsCharacter(m2[id]) /\ m2[id].fx = effect
  /\ m2[id].active = TRUE /\ m2[id].rps = None
  /\ Lands(m2[id])
  /\ taken2 = taken \cup ({m2[id].seat} \ {None})
  /\ m2[id].seat # None => HasSeat(l, m2[id].seat) /\ m2[id].seat \notin taken

LEMMA NewcomerInOrder ==
  ASSUME NEW q, NEW m, NEW taken, NEW id, NEW effect, NEW l, NEW q2, NEW m2, NEW taken2,
         Newcomer(q, m, taken, id, effect, l, q2, m2, taken2), effect # "despawn",
         InOrder(q, m), People(m)
  PROVE  InOrder(q2, m2) /\ People(m2) /\ Alive(m2) = Alive(m) \cup {id}
<1>1. People(m2)
  BY DEF Newcomer, People
<1>2. Alive(m2) = Alive(m) \cup {id}
  BY DEF Newcomer, Alive
<1> DEFINE D == DOMAIN m
<1>3. q \in Seq(D) /\ id \notin D /\ q2 = Append(q, id) /\ DOMAIN m2 = D \cup {id}
  BY DEF Newcomer, InOrder
<1>4. /\ \A i \in D : \E k \in 1 .. Len(q) : q[k] = i
      /\ \A k, n \in 1 .. Len(q) : q[k] = q[n] => k = n
      /\ \A k \in 1 .. Len(q) : q[k] \in D
  BY <1>3 DEF InOrder
<1> HIDE DEF D
<1>5. q \in Seq(D \cup {id}) /\ Len(q) \in Nat
  BY <1>3
<1>6. q2 \in Seq(D \cup {id}) /\ Len(q2) = Len(q) + 1 /\ DOMAIN q2 = 1 .. Len(q) + 1
  BY <1>3, <1>5
<1>7. q2[Len(q) + 1] = id /\ \A k \in 1 .. Len(q) : q2[k] = q[k]
  BY <1>3, <1>5
<1>8. \A k \in 1 .. Len(q) + 1 : k = Len(q) + 1 \/ k \in 1 .. Len(q)
  BY <1>5
<1>9. \A i \in D \cup {id} : \E k \in DOMAIN q2 : q2[k] = i
  <2> SUFFICES ASSUME NEW i \in D \cup {id} PROVE \E k \in DOMAIN q2 : q2[k] = i
    OBVIOUS
  <2>1. CASE i = id
    BY <2>1, <1>5, <1>6, <1>7
  <2>2. CASE i \in D
    <3>1. PICK k \in 1 .. Len(q) : q[k] = i
      BY <2>2, <1>4
    <3> QED
      BY <3>1, <1>5, <1>6, <1>7
  <2> QED
    BY <2>1, <2>2
<1>10. \A k, n \in DOMAIN q2 : q2[k] = q2[n] => k = n
  BY <1>3, <1>4, <1>6, <1>7, <1>8
<1> QED
  BY <1>1, <1>2, <1>3, <1>6, <1>9, <1>10 DEF InOrder

LEMMA NewcomerSits ==
  ASSUME NEW q, NEW m, NEW taken, NEW id, NEW effect, NEW l, NEW q2, NEW m2, NEW taken2,
         Newcomer(q, m, taken, id, effect, l, q2, m2, taken2), effect # "despawn",
         NEW h, Sits(m, taken, l, h)
  PROVE  Sits(m2, taken2, l, h)
<1>1. Alive(m2) = Alive(m) \cup {id} /\ id \notin Alive(m)
  BY DEF Newcomer, Alive
<1>2. \A i \in Alive(m) : m2[i] = m[i]
  BY DEF Newcomer, Alive
<1>3. {m2[i].seat : i \in Alive(m2)} = {m[i].seat : i \in Alive(m)} \cup {m2[id].seat}
  BY <1>1, <1>2
<1>4. taken2 = ({m2[i].seat : i \in Alive(m2)} \ {None}) \cup h
  BY <1>3 DEF Newcomer, Sits
<1>5. ASSUME NEW i \in Alive(m2), m2[i].seat # None
      PROVE  /\ HasSeat(l, m2[i].seat)
             /\ m2[i].seat \notin h
             /\ \A j \in Alive(m2) \ {i} : m2[j].seat # m2[i].seat
  <2>1. \A j \in Alive(m) : m[j].seat # None => m[j].seat \in taken
    BY DEF Sits
  <2>2. m2[id].seat # None => m2[id].seat \notin taken /\ HasSeat(l, m2[id].seat)
    BY DEF Newcomer
  <2>3. CASE i = id
    <3>1. \A j \in Alive(m2) \ {i} : m2[j] = m[j] /\ j \in Alive(m)
      BY <1>1, <1>2, <2>3
    <3> QED
      BY <1>5, <2>1, <2>2, <2>3, <3>1 DEF Sits
  <2>4. CASE i # id
    <3>1. i \in Alive(m) /\ m2[i] = m[i]
      BY <1>1, <1>2, <2>4
    <3>2. \A j \in Alive(m2) \ {i} : j = id \/ (m2[j] = m[j] /\ j \in Alive(m))
      BY <1>1, <1>2
    <3> QED
      BY <1>5, <2>1, <2>2, <3>1, <3>2 DEF Sits
  <2> QED
    BY <2>3, <2>4
<1> QED
  BY <1>4, <1>5 DEF Sits

LEMMA CreatedCharacter ==
  ASSUME NEW uid, NEW tile \in Int \X Int, NEW effect \in {"spawn", "none"}
  PROVE  LET c == createCharacter(uid, tile, effect) IN
         /\ IsCharacter(c) /\ c.fx = effect /\ c.seat = uid /\ c.active = TRUE /\ c.rps = None
         /\ Lands(c)
BY DEF createCharacter, IsCharacter, Fields, Lands

(* The tiles that seats and wanderers are on.                              *)
LEMMA TilesFacts ==
  ASSUME NEW l \in DOMAIN Layouts
  PROVE  /\ \A s \in Range(SeatsIn[l]) : s.at \in Int \X Int
         /\ \A uid : HasSeat(l, uid) => SeatTile(l, uid) \in Int \X Int
         /\ WalkableIn[l] \in Seq(Int \X Int)
<1>1. \A s \in Range(SeatsIn[l]) : s.at \in Int \X Int
  BY LayoutsAreGrids
<1>2. \A uid : HasSeat(l, uid) => SeatTile(l, uid) \in Int \X Int
  BY <1>1 DEF HasSeat, SeatTile
<1>3. WalkableIn[l] \in Seq(Int \X Int)
  <2> DEFINE c == Layouts[l].cols
             r == Layouts[l].rows
             RowMajor == [k \in 1 .. c * r |-> <<(k - 1) % c, (k - 1) \div c>>]
             S == {t \in Grid(Layouts[l]) : isWalkable(t, Layouts[l], BlockedIn[l])}
  <2>1. WalkableIn[l] = Among(RowMajor, S)
    BY DEF WalkableIn, getWalkableTiles
  <2>2. c \in Nat /\ r \in Nat
    BY LayoutsAreGrids
  <2> HIDE DEF c, r, S
  <2>3. c * r \in Nat
    BY <2>2
  <2>4. ASSUME NEW k \in 1 .. c * r PROVE <<(k - 1) % c, (k - 1) \div c>> \in Int \X Int
    <3>1. c # 0
      BY <2>2, <2>3
    <3> QED
      BY <2>2, <3>1
  <2>5. RowMajor \in Seq(Int \X Int)
    BY <2>3, <2>4
  <2> HIDE DEF RowMajor
  <2> QED
    BY <2>1, <2>5, AmongFacts
<1> QED
  BY <1>1, <1>2, <1>3

LEMMA AddOneFacts ==
  ASSUME NEW a, a.fx \in {"spawn", "none"}, NEW s, NEW l \in DOMAIN Layouts, NEW r \in AddOne(a, s, l)
  PROVE  IF a.id \in DOMAIN s.ch THEN r = s
         ELSE Newcomer(s.order, s.ch, s.assigned, a.id, a.fx, l, r.order, r.ch, r.assigned)
<1> DEFINE free == FreeSeats(l, s.assigned)
           wanted == Among(free, {t \in Range(free) : t.uid = a.seat})
           taken == IF wanted # <<>> THEN wanted ELSE free
           uid == IF taken # <<>> THEN taken[1].uid ELSE None
           Made(tile) == [order |-> Append(s.order, a.id),
                          ch |-> With(s.ch, a.id, createCharacter(uid, tile, a.fx)),
                          assigned |-> s.assigned \cup ({uid} \ {None})]
<1>1. CASE a.id \in DOMAIN s.ch
  BY <1>1 DEF AddOne
<1>2. CASE a.id \notin DOMAIN s.ch
  <2> DEFINE U == Range(SeatsIn[l])
  <2>1. /\ free \in Seq(U)
        /\ \A n \in DOMAIN free : free[n].uid \notin s.assigned /\ HasSeat(l, free[n].uid)
    BY FreeSeatsFacts
  <2> DEFINE floor == WalkableIn[l]
             spots == IF taken # <<>> THEN {taken[1].at}
                      ELSE IF floor # <<>> THEN Range(floor) ELSE {<<1, 1>>}
  <2>2. \E tile \in spots : r = Made(tile)
    BY <1>2 DEF AddOne
  <2> DEFINE W == {t \in Range(free) : t.uid = a.seat}
  <2> HIDE DEF free, U
  <2>3. /\ wanted \in Seq(U)
        /\ \A n \in DOMAIN wanted : \E k \in DOMAIN free : free[k] = wanted[n]
    <3> HIDE DEF W
    <3>1. /\ Among(free, W) \in Seq(U)
          /\ \A n \in DOMAIN Among(free, W) : \E k \in DOMAIN free : free[k] = Among(free, W)[n]
      BY <2>1, AmongFacts
    <3> QED
      BY <3>1 DEF W
  <2> HIDE DEF wanted
  <2>4. taken \in Seq(U) /\ \A n \in DOMAIN taken : \E k \in DOMAIN free : free[k] = taken[n]
    BY <2>1, <2>3
  <2> HIDE DEF taken
  <2>10. spots \subseteq Int \X Int
    <3>1. floor \in Seq(Int \X Int) /\ \A x \in U : x.at \in Int \X Int
      BY TilesFacts DEF U
    <3> HIDE DEF floor
    <3>2. Range(floor) \subseteq Int \X Int
      BY <3>1 DEF Range
    <3>3. taken # <<>> => taken[1] \in U
      BY <2>4
    <3> QED
      BY <3>1, <3>2, <3>3
  <2> HIDE DEF spots
  <2>5. uid # None => uid \notin s.assigned /\ HasSeat(l, uid)
    <3>1. CASE taken # <<>>
      <4>1. 1 \in DOMAIN taken
        BY <2>4, <3>1
      <4> QED
        BY <2>1, <2>4, <4>1
    <3> QED
      BY <3>1
  <2> HIDE DEF uid
  <2>6. PICK tile \in spots : r = Made(tile)
    BY <2>2
  <2> DEFINE c == createCharacter(uid, tile, a.fx)
  <2>7. /\ IsCharacter(c) /\ c.fx = a.fx /\ c.seat = uid /\ c.active = TRUE /\ c.rps = None
        /\ Lands(c)
    BY <2>6, <2>10, CreatedCharacter
  <2> HIDE DEF c
  <2>8. /\ r.order = Append(s.order, a.id)
        /\ r.ch = With(s.ch, a.id, c)
        /\ r.assigned = s.assigned \cup ({uid} \ {None})
    BY <2>6 DEF c
  <2>9. /\ DOMAIN r.ch = DOMAIN s.ch \cup {a.id}
        /\ r.ch[a.id] = c
        /\ \A i \in DOMAIN s.ch : r.ch[i] = s.ch[i]
    BY <1>2, <2>8 DEF With
  <2> QED
    BY <1>2, <2>5, <2>7, <2>8, <2>9 DEF Newcomer
<1> QED
  BY <1>1, <1>2
AddsUpTo(N, news, s, l, f) ==
  /\ f[0] = {s}
  /\ \A n \in 1 .. N : f[n] = UNION {AddOne(news[n], t, l) : t \in f[n - 1]}

LEMMA AddedRecursion ==
  ASSUME NEW news, NEW N \in Nat, Len(news) = N, NEW s, NEW l
  PROVE  \E f : AddsUpTo(N, news, s, l, f) /\ Added(news, s, l) = f[N]
<1> DEFINE G(n, X) == UNION {AddOne(news[n], t, l) : t \in X}
           Rec(f, k) == f = [n \in 0 .. k |-> IF n = 0 THEN {s} ELSE G(n, f[n - 1])]
           T == {k \in Nat : \E f : Rec(f, k)}
<1>1. Added(news, s, l) = (CHOOSE f : Rec(f, N))[N]
  BY DEF Added
<1> HIDE DEF G
<1>2. 0 \in T
  <2>1. Rec([n \in 0 .. 0 |-> {s}], 0)
    OBVIOUS
  <2> HIDE DEF Rec
  <2> QED
    BY <2>1
<1>3. ASSUME NEW k \in Nat, k \in T PROVE k + 1 \in T
  <2>1. PICK f : Rec(f, k)
    BY <1>3
  <2> DEFINE g == [n \in 0 .. k + 1 |-> IF n = k + 1 THEN G(k + 1, f[k]) ELSE f[n]]
  <2>2. g[k + 1] = G(k + 1, f[k]) /\ \A n \in 0 .. k : g[n] = f[n]
    OBVIOUS
  <2>3. \A n \in 0 .. k : f[n] = IF n = 0 THEN {s} ELSE G(n, f[n - 1])
    BY <2>1
  <2>4. ASSUME NEW n \in 0 .. k + 1 PROVE g[n] = IF n = 0 THEN {s} ELSE G(n, g[n - 1])
    <3>1. CASE n = k + 1
      BY <2>2, <3>1
    <3>2. CASE n \in 0 .. k /\ n # 0
      <4>1. n - 1 \in 0 .. k
        BY <3>2
      <4> QED
        BY <2>2, <2>3, <3>2, <4>1
    <3>3. CASE n = 0
      BY <2>2, <2>3, <3>3
    <3> QED
      BY <3>1, <3>2, <3>3
  <2>5. Rec(g, k + 1)
    <3>1. g = [n \in 0 .. k + 1 |-> g[n]]
      OBVIOUS
    <3> HIDE DEF g
    <3> QED
      BY <2>4, <3>1
  <2> HIDE DEF Rec
  <2> QED
    BY <2>5
<1>4. Nat \subseteq T
  <2> HIDE DEF T
  <2> QED
    BY <1>2, <1>3, NatSetInduction
<1> DEFINE h == CHOOSE f : Rec(f, N)
<1>5. Rec(h, N)
  <2> HIDE DEF Rec
  <2> QED
    BY <1>4
<1>6. Added(news, s, l) = h[N]
  BY <1>1
<1> HIDE DEF h
<1>7. AddsUpTo(N, news, s, l, h)
  <2> DEFINE base == {s}
  <2>1. h = [n \in 0 .. N |-> IF n = 0 THEN base ELSE G(n, h[n - 1])]
    BY <1>5
  <2> HIDE DEF base
  <2>2. h[0] = base /\ \A n \in 1 .. N : h[n] = G(n, h[n - 1])
    BY <2>1
  <2> QED
    BY <2>2 DEF AddsUpTo, base, G
<1> QED
  BY <1>6, <1>7

(* Agents added from the buffer: they stand in line behind those there are,*)
(* without an effect, and seats are still taken once.                      *)
LEMMA AddedFacts ==
  ASSUME NEW news, NEW N \in Nat, Len(news) = N, DOMAIN news = 1 .. N,
         \A n \in 1 .. N : news[n].fx = "none",
         NEW s, NEW l \in DOMAIN Layouts, NEW r \in Added(news, s, l),
         InOrder(s.order, s.ch), People(s.ch)
  PROVE  /\ InOrder(r.order, r.ch) /\ People(r.ch)
         /\ DOMAIN r.ch = DOMAIN s.ch \cup {news[n].id : n \in 1 .. N}
         /\ \A i \in DOMAIN s.ch : r.ch[i] = s.ch[i]
         /\ \A i \in DOMAIN r.ch \ DOMAIN s.ch : r.ch[i].fx = "none" /\ r.ch[i].rps = None /\ Lands(r.ch[i])
         /\ \A h : Sits(s.ch, s.assigned, l, h) => Sits(r.ch, r.assigned, l, h)
<1>1. PICK f : AddsUpTo(N, news, s, l, f) /\ Added(news, s, l) = f[N]
  BY AddedRecursion
<1> DEFINE Good(t, k) ==
             /\ InOrder(t.order, t.ch) /\ People(t.ch)
             /\ DOMAIN t.ch = DOMAIN s.ch \cup {news[n].id : n \in 1 .. k}
             /\ \A i \in DOMAIN s.ch : t.ch[i] = s.ch[i]
             /\ \A i \in DOMAIN t.ch \ DOMAIN s.ch : t.ch[i].fx = "none" /\ t.ch[i].rps = None /\ Lands(t.ch[i])
             /\ \A h : Sits(s.ch, s.assigned, l, h) => Sits(t.ch, t.assigned, l, h)
           T == {k \in Nat : k <= N => \A t \in f[k] : Good(t, k)}
<1>2. r \in f[N]
  BY <1>1
<1>3. f[0] = {s} /\ \A n \in 1 .. N : f[n] = UNION {AddOne(news[n], t, l) : t \in f[n - 1]}
  BY <1>1 DEF AddsUpTo
<1>4. 0 \in T
  <2>1. Good(s, 0)
    OBVIOUS
  <2> HIDE DEF Good
  <2> QED
    BY <2>1, <1>3
<1>5. ASSUME NEW k \in Nat, k \in T PROVE k + 1 \in T
  <2> SUFFICES ASSUME k + 1 <= N, NEW t \in f[k + 1] PROVE Good(t, k + 1)
    OBVIOUS
  <2> DEFINE a == news[k + 1]
  <2>1. k + 1 \in 1 .. N /\ (k + 1) - 1 = k /\ a.fx = "none"
    OBVIOUS
  <2>2. PICK b \in f[k] : t \in AddOne(a, b, l)
    BY <1>3, <2>1
  <2>3. Good(b, k)
    <3> HIDE DEF Good
    <3> QED
      BY <1>5, <2>2
  <2>4. {news[n].id : n \in 1 .. k + 1} = {news[n].id : n \in 1 .. k} \cup {a.id}
    <3>1. 1 .. k + 1 = 1 .. k \cup {k + 1}
      OBVIOUS
    <3> QED
      BY <3>1
  <2> HIDE DEF a
  <2>5. IF a.id \in DOMAIN b.ch THEN t = b
        ELSE Newcomer(b.order, b.ch, b.assigned, a.id, a.fx, l, t.order, t.ch, t.assigned)
    BY <2>1, <2>2, AddOneFacts
  <2>6. CASE a.id \in DOMAIN b.ch
    BY <2>3, <2>4, <2>5, <2>6
  <2>7. CASE a.id \notin DOMAIN b.ch
    <3>1. Newcomer(b.order, b.ch, b.assigned, a.id, a.fx, l, t.order, t.ch, t.assigned)
      BY <2>5, <2>7
    <3>2. InOrder(t.order, t.ch) /\ People(t.ch)
      BY <3>1, <2>1, <2>3, NewcomerInOrder
    <3>3. \A h : Sits(b.ch, b.assigned, l, h) => Sits(t.ch, t.assigned, l, h)
      BY <3>1, <2>1, NewcomerSits
    <3>4. /\ DOMAIN t.ch = DOMAIN b.ch \cup {a.id}
          /\ \A i \in DOMAIN b.ch : t.ch[i] = b.ch[i]
          /\ t.ch[a.id].fx = "none" /\ t.ch[a.id].rps = None /\ Lands(t.ch[a.id])
      BY <3>1, <2>1 DEF Newcomer
    <3>5. DOMAIN t.ch = DOMAIN s.ch \cup {news[n].id : n \in 1 .. k + 1}
      BY <2>3, <2>4, <3>4
    <3>6. /\ \A i \in DOMAIN s.ch : t.ch[i] = s.ch[i]
          /\ \A i \in DOMAIN t.ch \ DOMAIN s.ch : t.ch[i].fx = "none" /\ t.ch[i].rps = None /\ Lands(t.ch[i])
      BY <2>3, <3>4
    <3>7. \A h : Sits(s.ch, s.assigned, l, h) => Sits(t.ch, t.assigned, l, h)
      BY <2>3, <3>3
    <3> QED
      BY <3>2, <3>5, <3>6, <3>7
  <2> QED
    BY <2>6, <2>7
<1>6. Nat \subseteq T
  <2> HIDE DEF T
  <2> QED
    BY <1>4, <1>5, NatSetInduction
<1>7. Good(r, N)
  <2> HIDE DEF Good
  <2> QED
    BY <1>2, <1>6
<1> QED
  BY <1>7
-----------------------------------------------------------------------------
(* What the other operations make of the characters.                       *)
LEMMA AddSubagentFacts ==
  ASSUME layout \in DOMAIN Layouts, NEW a, NEW tool, NEW m, nextSubagentId \notin DOMAIN m,
         addSubagent(a, tool, m)
  PROVE  Newcomer(order, m, assigned, nextSubagentId, "spawn", layout, order', ch', assigned')
<1> DEFINE from == IF a \in DOMAIN m THEN m[a].tile ELSE <<0, 0>>
           free == FreeSeats(layout, assigned)
           n == Nearest([k \in DOMAIN free |-> free[k].at], from)
           at == IF free # <<>> THEN free[n].at
                 ELSE IF WalkableIn[layout] # <<>> THEN Closest(WalkableIn[layout], from)
                 ELSE <<1, 1>>
           uid == IF free # <<>> THEN free[n].uid ELSE None
           c == createCharacter(uid, at, "spawn")
           U == Range(SeatsIn[layout])
           floor == WalkableIn[layout]
<1>1. /\ ch' = With(m, nextSubagentId, c)
      /\ order' = Append(order, nextSubagentId)
      /\ assigned' = assigned \cup ({uid} \ {None})
  BY DEF addSubagent, Move
<1>2. /\ free \in Seq(U)
      /\ \A k \in DOMAIN free : free[k].uid \notin assigned /\ HasSeat(layout, free[k].uid)
  BY FreeSeatsFacts
<1>6. floor \in Seq(Int \X Int) /\ \A x \in U : x.at \in Int \X Int
  BY TilesFacts DEF U
<1>3. /\ uid # None => uid \notin assigned /\ HasSeat(layout, uid)
      /\ at \in Int \X Int
  <2> HIDE DEF free, U
  <2>1. CASE free # <<>>
    <3> DEFINE N == Len(free)
               tiles == [k \in DOMAIN free |-> free[k].at]
    <3>1. N \in Nat \ {0} /\ DOMAIN free = 1 .. N
      BY <1>2, <2>1
    <3>2. tiles \in Seq({free[k].at : k \in DOMAIN free}) /\ DOMAIN tiles = 1 .. N /\ Len(tiles) = N
      BY <3>1
    <3> HIDE DEF N, tiles
    <3>3. n \in 1 .. N
      BY <3>1, <3>2, NearestIsOne DEF tiles
    <3> HIDE DEF n
    <3> QED
      BY <1>2, <1>6, <2>1, <3>1, <3>3
  <2>2. CASE free = <<>>
    <3> DEFINE N == Len(floor)
    <3>1. ASSUME floor # <<>> PROVE Closest(floor, from) \in Int \X Int
      <4> HIDE DEF floor, from
      <4>1. N \in Nat \ {0} /\ DOMAIN floor = 1 .. N
        BY <1>6, <3>1
      <4>2. Nearest(floor, from) \in 1 .. N
        BY <4>1, NearestIsOne
      <4> QED
        BY <1>6, <4>1, <4>2 DEF Closest
    <3> HIDE DEF from, n
    <3> QED
      BY <2>2, <3>1
  <2> QED
    BY <2>1, <2>2
<1> HIDE DEF uid, at
<1>4. IsCharacter(c) /\ c.fx = "spawn" /\ c.seat = uid /\ c.active = TRUE /\ c.rps = None /\ Lands(c)
  BY <1>3, CreatedCharacter
<1> HIDE DEF c
<1>5. /\ DOMAIN ch' = DOMAIN m \cup {nextSubagentId}
      /\ ch'[nextSubagentId] = c
      /\ \A i \in DOMAIN m : ch'[i] = m[i]
  BY <1>1 DEF With
<1> QED
  BY <1>1, <1>3, <1>4, <1>5 DEF Newcomer

LEMMA SetAgentActiveFacts ==
  ASSUME People(ch), NEW i, NEW active \in BOOLEAN
  PROVE  LET m == setAgentActive(i, active) IN
         /\ DOMAIN m = DOMAIN ch
         /\ \A j \in DOMAIN ch :
              /\ IsCharacter(m[j]) /\ m[j].fx = ch[j].fx /\ m[j].seat = ch[j].seat
              /\ m[j].active = IF j = i THEN active ELSE ch[j].active
              /\ m[j].rps = IF /\ i \in DOMAIN ch /\ active /\ ch[i].rps # None
                               /\ j \in {i, ch[i].rps.opponent}
                            THEN None ELSE ch[j].rps
<1> DEFINE m == setAgentActive(i, active)
           foe == IF active /\ ch[i].rps # None THEN {i, ch[i].rps.opponent} ELSE {}
           quit == [j \in DOMAIN ch |-> IF j \in foe THEN [ch[j] EXCEPT !.rps = None] ELSE ch[j]]
           Good(j, d) == /\ IsCharacter(d) /\ d.fx = ch[j].fx /\ d.seat = ch[j].seat
                         /\ d.active = IF j = i THEN active ELSE ch[j].active
                         /\ d.rps = IF /\ i \in DOMAIN ch /\ active /\ ch[i].rps # None
                                       /\ j \in {i, ch[i].rps.opponent}
                                    THEN None ELSE ch[j].rps
<1>1. \A j \in DOMAIN ch : IsCharacter(ch[j])
  BY DEF People
<1>2. CASE i \notin DOMAIN ch
  <2>1. m = ch
    BY <1>2 DEF setAgentActive
  <2> QED
    BY <1>1, <1>2, <2>1
<1>3. CASE i \in DOMAIN ch
  <2>1. m = IF active THEN [quit EXCEPT ![i].active = TRUE]
            ELSE [quit EXCEPT ![i].active = FALSE, ![i].seatTimer = -1,
                              ![i].path = <<>>, ![i].moving = FALSE]
    BY <1>3 DEF setAgentActive
  <2>2. \A j \in DOMAIN ch :
          /\ IsCharacter(quit[j]) /\ quit[j].fx = ch[j].fx /\ quit[j].seat = ch[j].seat
          /\ quit[j].active = ch[j].active
          /\ quit[j].rps = IF j \in foe THEN None ELSE ch[j].rps
    BY <1>1 DEF IsCharacter, Fields
  <2>3. DOMAIN quit = DOMAIN ch
    OBVIOUS
  <2>4. \A j \in DOMAIN ch : j \in foe <=> /\ i \in DOMAIN ch /\ active /\ ch[i].rps # None
                                           /\ j \in {i, ch[i].rps.opponent}
    BY <1>3
  <2> HIDE DEF quit, foe
  <2> DEFINE on == [quit[i] EXCEPT !.active = TRUE]
             off == [quit[i] EXCEPT !.active = FALSE, !.seatTimer = -1, !.path = <<>>, !.moving = FALSE]
  <2>5. m = [quit EXCEPT ![i] = IF active THEN on ELSE off]
    BY <2>1
  <2>6. /\ IsCharacter(on) /\ on.fx = quit[i].fx /\ on.seat = quit[i].seat
        /\ on.active = TRUE /\ on.rps = quit[i].rps
    BY <1>3, <2>2 DEF IsCharacter, Fields
  <2>7. /\ IsCharacter(off) /\ off.fx = quit[i].fx /\ off.seat = quit[i].seat
        /\ off.active = FALSE /\ off.rps = quit[i].rps
    BY <1>3, <2>2 DEF IsCharacter, Fields
  <2> HIDE DEF on, off, m
  <2>8. DOMAIN m = DOMAIN ch
    BY <2>3, <2>5
  <2>9. \A j \in DOMAIN ch : j # i => m[j] = quit[j]
    BY <2>3, <2>5
  <2>10. m[i] = IF active THEN on ELSE off
    BY <1>3, <2>3, <2>5
  <2>11. ASSUME NEW j \in DOMAIN ch PROVE Good(j, m[j])
    <3>1. CASE j = i
      BY <1>3, <2>2, <2>4, <2>6, <2>7, <2>10, <3>1
    <3>2. CASE j # i
      BY <2>2, <2>4, <2>9, <3>2
    <3> QED
      BY <3>1, <3>2
  <2> QED
    BY <2>8, <2>11 DEF m
<1> QED
  BY <1>2, <1>3

LEMMA VanishFacts ==
  ASSUME People(ch), NEW S
  PROVE  LET m == Vanish(S) IN
         /\ DOMAIN m = DOMAIN ch /\ People(m)
         /\ \A i \in DOMAIN ch : /\ m[i].seat = ch[i].seat /\ m[i].rps = ch[i].rps
                                 /\ m[i].active = ch[i].active
         /\ \A i \in DOMAIN ch : m[i].fx = IF i \in S THEN "despawn" ELSE ch[i].fx
         /\ Alive(m) = Alive(ch) \ S
<1> DEFINE m == Vanish(S)
<1>1. DOMAIN m = DOMAIN ch
      /\ \A i \in DOMAIN ch : m[i] = IF i \in S /\ ch[i].fx # "despawn"
                                     THEN [ch[i] EXCEPT !.fx = "despawn", !.fxTimer = 0] ELSE ch[i]
  BY DEF Vanish, Live
<1>2. ASSUME NEW i \in DOMAIN ch
      PROVE  /\ IsCharacter(m[i])
             /\ m[i].seat = ch[i].seat /\ m[i].rps = ch[i].rps /\ m[i].active = ch[i].active
             /\ m[i].fx = IF i \in S THEN "despawn" ELSE ch[i].fx
  <2>1. IsCharacter(ch[i])
    BY DEF People
  <2> DEFINE c == ch[i]
             d == [c EXCEPT !.fx = "despawn", !.fxTimer = 0]
  <2>2. m[i] = IF i \in S /\ c.fx # "despawn" THEN d ELSE c
    BY <1>1
  <2>3. /\ IsCharacter(d) /\ d.fx = "despawn"
        /\ d.seat = c.seat /\ d.rps = c.rps /\ d.active = c.active
    <3> HIDE DEF c
    <3> QED
      BY <2>1 DEF IsCharacter, Fields, c
  <2> HIDE DEF m, d
  <2> QED
    BY <2>1, <2>2, <2>3
<1> HIDE DEF m
<1>3. Alive(m) = Alive(ch) \ S
  BY <1>1, <1>2 DEF Alive
<1> QED
  BY <1>1, <1>2, <1>3 DEF m, People
(* What a frame leaves alone; its games are those of m.                    *)
Kept(m, m2) ==
  \A i \in DOMAIN m2 : /\ m2[i].seat = ch[i].seat /\ m2[i].active = ch[i].active
                       /\ m2[i].rps = m[i].rps
                       /\ ch[i].fx = "none" => m2[i].fx = "none"

LEMMA FrameFacts ==
  ASSUME People(ch), InOrder(order, ch),
         NEW m \in Games([i \in DOMAIN ch |-> PlayOn(i)]), NEW s \in Steps(m),
         NEW ch2, ch2 = [i \in Range(Staying) |-> s[CHOOSE k \in DOMAIN order : order[k] = i]]
  PROVE  /\ InOrder(Staying, ch2) /\ People(ch2)
         /\ DOMAIN ch2 \subseteq DOMAIN ch
         /\ Alive(ch2) = Alive(ch)
         /\ Kept(m, ch2)
<1> DEFINE D == DOMAIN ch
           S == {i \in D : ~(ch[i].fx = "despawn" /\ ch[i].fxTimer + 1 >= MatrixFrames)}
           q == Staying
<1>1. /\ order \in Seq(D)
      /\ \A i \in D : \E k \in DOMAIN order : order[k] = i
      /\ \A k, n \in DOMAIN order : order[k] = order[n] => k = n
  BY DEF InOrder
<1>2. q = Among(order, S)
  BY DEF Staying
<1>3. /\ q \in Seq(D)
      /\ \A n \in DOMAIN q : q[n] \in S
      /\ \A k \in DOMAIN order : order[k] \in S => \E n \in DOMAIN q : q[n] = order[k]
      /\ \A k, n \in DOMAIN q : q[k] = q[n] => k = n
  <2> HIDE DEF D, S, q
  <2> QED
    BY <1>1, <1>2, AmongFacts
<1>4. S \subseteq D
  OBVIOUS
<1>5. Range(q) = S
  <2> HIDE DEF D, S, q
  <2>1. \A i \in S : \E n \in DOMAIN q : q[n] = i
    BY <1>1, <1>3, <1>4
  <2> QED
    BY <1>3, <2>1 DEF Range
<1>6. DOMAIN ch2 = S /\ \A i \in S : ch2[i] = s[CHOOSE k \in DOMAIN order : order[k] = i]
  BY <1>5
<1>7. InOrder(q, ch2)
  <2> HIDE DEF D, S, q
  <2>1. q \in Seq(S)
    BY <1>3
  <2> QED
    BY <1>1, <1>3, <1>4, <1>6, <2>1 DEF InOrder
<1>8. DOMAIN m = D /\ \A i \in D : Similar(ch[i], m[i])
  BY GamesSimilar DEF People
<1>9. ASSUME NEW i \in S
      PROVE  /\ IsCharacter(ch2[i])
             /\ ch2[i].seat = ch[i].seat /\ ch2[i].active = ch[i].active /\ ch2[i].rps = m[i].rps
             /\ ch[i].fx = "none" => ch2[i].fx = "none"
             /\ ch2[i].fx = "despawn" <=> ch[i].fx = "despawn"
  <2> DEFINE k == CHOOSE x \in DOMAIN order : order[x] = i
             c == m[i]
  <2>1. k \in DOMAIN order /\ order[k] = i
    BY <1>1, <1>4
  <2> HIDE DEF k
  <2>2. ch2[i] = s[k]
    BY <1>6 DEF k
  <2>3. s[k] \in Step(c, BlockedFor(k, m))
    BY <1>1, <2>1, StepsFacts
  <2>4. IsCharacter(c) /\ c.seat = ch[i].seat /\ c.active = ch[i].active
        /\ c.fx = ch[i].fx /\ c.fxTimer = ch[i].fxTimer
    BY <1>4, <1>8 DEF Similar
  <2>5. ~(c.fx = "despawn" /\ c.fxTimer + 1 >= MatrixFrames)
    BY <2>4
  <2> HIDE DEF c
  <2> DEFINE d == ch2[i]
             blk == BlockedFor(k, m)
  <2>6. d \in Step(c, blk)
    BY <2>2, <2>3
  <2> HIDE DEF d, blk
  <2>7. /\ d.seat = c.seat /\ d.active = c.active /\ d.rps = c.rps
        /\ c.fx = "none" => Alike(c, d)
        /\ c.fx = "spawn" => IsCharacter(d) /\ d.fx # "despawn"
        /\ c.fx = "despawn" /\ ~(c.fxTimer + 1 >= MatrixFrames) => IsCharacter(d) /\ d.fx = "despawn"
    BY <2>4, <2>6, StepEffect
  <2>8. c.fx \in {"spawn", "none", "despawn"}
    BY <2>4 DEF IsCharacter
  <2>9. /\ IsCharacter(d)
        /\ c.fx = "none" => d.fx = "none"
        /\ d.fx = "despawn" <=> c.fx = "despawn"
    BY <2>5, <2>7, <2>8 DEF Alike, Similar
  <2> QED
    BY <2>4, <2>7, <2>9 DEF c, d
<1>10. Alive(ch2) = Alive(ch)
  BY <1>6, <1>9 DEF Alive
<1> QED
  BY <1>4, <1>6, <1>7, <1>9, <1>10 DEF People, Kept

(* A new layout gives no seat twice, not even to those that vanish.        *)
LEMMA NewSeatsFacts ==
  ASSUME InOrder(order, ch), NEW to \in DOMAIN Layouts
  PROVE  LET seat == NewSeats(to) IN
         \A i \in DOMAIN ch : seat[i] # None =>
           /\ HasSeat(to, seat[i])
           /\ \A j \in DOMAIN ch \ {i} : seat[j] # seat[i]
<1> DEFINE D == DOMAIN ch
           kept == {order[k] : k \in {n \in DOMAIN order : Keeps(n, to)}}
           others == D \ kept
           rest == Among(order, others)
           taken == {ch[i].seat : i \in kept}
           free == FreeSeats(to, taken)
           turn(i) == CHOOSE n \in DOMAIN rest : rest[n] = i
           seat == NewSeats(to)
<1>1. \A i \in D : seat[i] = IF i \in kept THEN ch[i].seat
                             ELSE IF turn(i) <= Len(free) THEN free[turn(i)].uid ELSE None
  BY DEF NewSeats
<1>2. /\ order \in Seq(D)
      /\ \A i \in D : \E k \in DOMAIN order : order[k] = i
      /\ DOMAIN order = 1 .. Len(order) /\ Len(order) \in Nat
  BY DEF InOrder
<1>3. /\ rest \in Seq(D)
      /\ \A k \in DOMAIN order : order[k] \in others => \E n \in DOMAIN rest : rest[n] = order[k]
  <2> HIDE DEF D, others
  <2> QED
    BY <1>2, AmongFacts
<1>4. /\ free \in Seq(Range(SeatsIn[to]))
      /\ \A n \in DOMAIN free : free[n].uid \notin taken /\ HasSeat(to, free[n].uid)
      /\ \A m, n \in DOMAIN free : free[m].uid = free[n].uid => m = n
  BY FreeSeatsFacts
<1>5. \A i \in kept : /\ HasSeat(to, ch[i].seat)
                      /\ \A j \in kept \ {i} : ch[j].seat # ch[i].seat
  <2> SUFFICES ASSUME NEW i \in kept
               PROVE  /\ HasSeat(to, ch[i].seat)
                      /\ \A j \in kept \ {i} : ch[j].seat # ch[i].seat
    OBVIOUS
  <2>1. PICK k \in DOMAIN order : order[k] = i /\ Keeps(k, to)
    OBVIOUS
  <2>2. HasSeat(to, ch[i].seat)
    BY <2>1 DEF Keeps
  <2>3. ASSUME NEW j \in kept \ {i} PROVE ch[j].seat # ch[i].seat
    <3>1. PICK n \in DOMAIN order : order[n] = j /\ Keeps(n, to)
      OBVIOUS
    <3>2. \/ k \in 1 .. n - 1
          \/ n \in 1 .. k - 1
      BY <1>2, <2>1, <2>3, <3>1
    <3> QED
      BY <2>1, <3>1, <3>2 DEF Keeps
  <2> QED
    BY <2>2, <2>3
<1> HIDE DEF kept, free, rest, seat
<1>6. ASSUME NEW i \in D \ kept
      PROVE  turn(i) \in DOMAIN rest /\ rest[turn(i)] = i /\ turn(i) \in Nat \ {0}
  <2>1. \E n \in DOMAIN rest : rest[n] = i
    BY <1>2, <1>3
  <2>2. turn(i) \in DOMAIN rest /\ rest[turn(i)] = i
    BY <2>1
  <2> HIDE DEF turn
  <2> QED
    BY <1>3, <2>2
<1> HIDE DEF turn
<1>7. \A i \in D \ kept : seat[i] # None =>
        turn(i) \in DOMAIN free /\ seat[i] = free[turn(i)].uid
  BY <1>1, <1>4, <1>6
<1>8. \A i \in kept : seat[i] = ch[i].seat /\ seat[i] \in taken
  <2>1. kept \subseteq D
    BY <1>2 DEF kept
  <2> QED
    BY <1>1, <2>1
<1> HIDE DEF taken
<1>9. ASSUME NEW i \in D, seat[i] # None
      PROVE  /\ HasSeat(to, seat[i])
             /\ \A j \in D \ {i} : seat[j] # seat[i]
  <2>1. CASE i \in kept
    <3>1. HasSeat(to, seat[i])
      BY <1>5, <1>8, <2>1
    <3>2. ASSUME NEW j \in D \ {i}, seat[j] = seat[i] PROVE FALSE
      <4>1. CASE j \in kept
        BY <1>5, <1>8, <2>1, <3>2, <4>1
      <4>2. CASE j \notin kept
        BY <1>4, <1>7, <1>8, <1>9, <2>1, <3>2, <4>2
      <4> QED
        BY <4>1, <4>2
    <3> QED
      BY <3>1, <3>2
  <2>2. CASE i \notin kept
    <3>1. turn(i) \in DOMAIN free /\ seat[i] = free[turn(i)].uid
      BY <1>7, <1>9, <2>2
    <3>2. HasSeat(to, seat[i])
      BY <1>4, <3>1
    <3>3. ASSUME NEW j \in D \ {i}, seat[j] = seat[i] PROVE FALSE
      <4>1. CASE j \in kept
        BY <1>4, <1>8, <3>1, <3>3, <4>1
      <4>2. CASE j \notin kept
        <5>1. turn(j) \in DOMAIN free /\ seat[j] = free[turn(j)].uid
          BY <1>7, <1>9, <3>3, <4>2
        <5>2. turn(i) = turn(j)
          BY <1>4, <3>1, <3>3, <5>1
        <5> QED
          BY <1>6, <2>2, <3>3, <4>2, <5>2
      <4> QED
        BY <4>1, <4>2
    <3> QED
      BY <3>2, <3>3
  <2> QED
    BY <2>1, <2>2
<1> QED
  BY <1>9 DEF seat
LEMMA RebuiltSits ==
  ASSUME People(ch), InOrder(order, ch), NEW to \in DOMAIN Layouts, NEW shift,
         NEW new \in rebuildFromLayout(to, shift)
  PROVE  Sits(new, SeatsTaken(new), to, {new[i].seat : i \in DOMAIN ch \ LiveIds} \ {None})
<1> DEFINE seat == NewSeats(to)
           h == {new[i].seat : i \in DOMAIN ch \ LiveIds} \ {None}
<1>1. DOMAIN new = DOMAIN ch /\ \A i \in DOMAIN ch : new[i].fx = ch[i].fx /\ new[i].seat = seat[i]
  BY RebuiltSimilar DEF People
<1>2. \A i \in DOMAIN ch : seat[i] # None =>
           /\ HasSeat(to, seat[i])
           /\ \A j \in DOMAIN ch \ {i} : seat[j] # seat[i]
  BY NewSeatsFacts
<1> HIDE DEF seat
<1>3. Alive(new) = LiveIds /\ LiveIds \subseteq DOMAIN ch
  BY <1>1 DEF Alive, LiveIds
<1>4. SeatsTaken(new) = ({new[i].seat : i \in LiveIds} \ {None}) \cup h
  BY <1>1, <1>3 DEF SeatsTaken
<1>5. ASSUME NEW i \in LiveIds, new[i].seat # None
      PROVE  /\ HasSeat(to, new[i].seat)
             /\ new[i].seat \notin h
             /\ \A j \in LiveIds \ {i} : new[j].seat # new[i].seat
  BY <1>1, <1>2, <1>3, <1>5
<1> HIDE DEF h
<1>6. Sits(new, SeatsTaken(new), to, h)
  BY <1>3, <1>4, <1>5 DEF Sits
<1> QED
  BY <1>6 DEF h

LEMMA RebuiltFacts ==
  ASSUME People(ch), InOrder(order, ch), NEW to, NEW shift, NEW new \in rebuildFromLayout(to, shift)
  PROVE  InOrder(order, new) /\ People(new) /\ Alive(new) = Alive(ch) /\ DOMAIN new = DOMAIN ch
<1>1. DOMAIN new = DOMAIN ch /\ \A i \in DOMAIN ch : IsCharacter(new[i]) /\ new[i].fx = ch[i].fx
  BY RebuiltSimilar DEF People
<1> QED
  BY <1>1 DEF People, InOrder, Alive
-----------------------------------------------------------------------------
(* The invariant.  No id comes twice: those in use are announced agents and*)
(* numbers that nextSubagentId has passed.  What the panel lists is on the *)
(* floor or, before the first layout, in the buffer.                       *)
Used == (Agents \ unborn) \cup {i \in Int : nextSubagentId < i /\ i < 0}

FloorOK ==
  /\ layout \in DOMAIN Layouts
  /\ nextSubagentId \in Int /\ nextSubagentId < 0
  /\ People(ch) /\ InOrder(order, ch)
  /\ DOMAIN ch \subseteq Used

PanelOK ==
  /\ unborn \subseteq Agents
  /\ listed \subseteq Agents \ unborn
  /\ ghosts \subseteq Agents \ (unborn \cup listed)
  /\ pending \in Seq(Agents \ unborn)
  /\ ready \in BOOLEAN
  /\ ready => pending = <<>>
  /\ \A a \in listed \cap DOMAIN ch : a \in LiveIds
  /\ ~ready => /\ \A i \in LiveIds : ~IsSub(i) => i \in listed
               /\ listed \subseteq DOMAIN ch \cup Range(pending)
               /\ ghosts = {}

TracksOK ==
  /\ HelpersTracked
  /\ DOMAIN subagentIdMap \subseteq Agents \X Tools
  /\ \A k \in DOMAIN subagentIdMap : subagentIdMap[k] \in DOMAIN subagentMeta

IInv == FloorOK /\ PanelOK /\ TracksOK /\ AgentsShown

LEMMA LiveIsAlive == LiveIds = Alive(ch) /\ \A i : Live(i) <=> i \in LiveIds
BY DEF LiveIds, Alive, Live

LEMMA InitIInv == Init => IInv
<1> SUFFICES ASSUME Init PROVE IInv
  OBVIOUS
<1>1. ch = <<>> /\ DOMAIN ch = {} /\ LiveIds = {} /\ subagentMeta = <<>> /\ subagentIdMap = <<>>
      /\ DOMAIN subagentMeta = {} /\ DOMAIN subagentIdMap = {}
  BY DEF Init, LiveIds
<1>2. FloorOK
  <2>1. order = <<>> /\ order \in Seq(DOMAIN ch) /\ DOMAIN order = {}
    BY DEF Init
  <2>2. InOrder(order, ch) /\ People(ch)
    BY <1>1, <2>1 DEF InOrder, People
  <2> QED
    BY <1>1, <2>2, LayoutsNamed DEF Init, FloorOK
<1>3. PanelOK
  <2>1. pending = <<>> /\ pending \in Seq(Agents \ unborn)
    BY DEF Init
  <2> QED
    BY <1>1, <2>1 DEF Init, PanelOK
<1>4. TracksOK
  BY <1>1 DEF Init, TracksOK, HelpersTracked
<1>5. AgentsShown
  BY DEF Init, AgentsShown
<1> QED
  BY <1>2, <1>3, <1>4, <1>5 DEF IInv

(* Steps that neither add nor remove anybody.                              *)
LEMMA CalmStep ==
  ASSUME IInv,
         layout' \in DOMAIN Layouts, People(ch'), InOrder(order', ch'),
         DOMAIN ch' \subseteq DOMAIN ch, Alive(ch') = Alive(ch),
         UNCHANGED <<maps, panel, ghosts>>,
         selected' = selected \/ selected' = None \/ selected' \in Alive(ch)
  PROVE  IInv'
<1>1. LiveIds' = LiveIds /\ LiveIds = Alive(ch) /\ LiveIds \subseteq DOMAIN ch /\ LiveIds' \subseteq DOMAIN ch'
  BY DEF LiveIds, Alive
<1>2. UNCHANGED <<subagentIdMap, subagentMeta, nextSubagentId, listed, pending, ready, unborn, ghosts>>
  BY DEF maps, panel
<1>3. FloorOK'
  BY <1>2 DEF IInv, FloorOK, Used
<1>4. PanelOK'
  BY <1>1, <1>2 DEF IInv, PanelOK
<1>5. (selected # None => selected \in LiveIds) /\ (selected' # None => selected' \in LiveIds')
  BY <1>1, LiveIsAlive DEF IInv, TracksOK, HelpersTracked
<1>6. HelpersTracked'
  <2>1. selected' # None => Live(selected)'
    BY <1>5 DEF LiveIds, Live
  <2> QED
    BY <1>1, <1>2, <2>1 DEF IInv, TracksOK, HelpersTracked
<1>7. TracksOK'
  BY <1>2, <1>6 DEF IInv, TracksOK
<1>8. AgentsShown'
  BY <1>1, <1>2 DEF IInv, AgentsShown
<1> QED
  BY <1>3, <1>4, <1>7, <1>8 DEF IInv

(* Steps by which those of S vanish: sub-agents, whose keys go with them,  *)
(* and the agents that are no longer listed.                               *)
LEMMA RemovedStep ==
  ASSUME IInv, NEW S, NEW keys, Removed(S, keys),
         \A i \in DOMAIN subagentMeta : subagentMeta[i] \in keys <=> i \in S,
         {i \in S : ~IsSub(i)} = listed \ listed', listed' \subseteq listed,
         \A i \in DOMAIN subagentMeta \ S : subagentMeta[i][1] \in listed',
         UNCHANGED <<layout, order, nextSubagentId, pending, ready, unborn, ghosts>>
  PROVE  IInv'
<1>1. /\ ch' = Vanish(S)
      /\ selected' = IF selected \in S THEN None ELSE selected
      /\ subagentIdMap' = Without(subagentIdMap, keys)
      /\ subagentMeta' = Without(subagentMeta, {i \in DOMAIN subagentMeta : subagentMeta[i] \in keys})
  BY DEF Removed, Move
<1>2. DOMAIN ch' = DOMAIN ch /\ People(ch') /\ Alive(ch') = Alive(ch) \ S
  BY <1>1, VanishFacts DEF IInv, FloorOK
<1>3. LiveIds' = LiveIds \ S /\ LiveIds \subseteq DOMAIN ch
  BY <1>2 DEF LiveIds, Alive
<1>4. FloorOK'
  <2>1. InOrder(order', ch')
    BY <1>2 DEF IInv, FloorOK, InOrder
  <2> QED
    BY <1>2, <2>1 DEF IInv, FloorOK, Used
<1>5. \A i \in listed' : i \notin S
  <2>1. \A i \in listed : ~IsSub(i)
    BY AgentIds DEF IInv, PanelOK, IsSub
  <2> QED
    BY <2>1
<1>6. PanelOK'
  BY <1>2, <1>3, <1>5 DEF IInv, PanelOK
<1>7. /\ DOMAIN subagentMeta' = DOMAIN subagentMeta \ S
      /\ \A i \in DOMAIN subagentMeta' : subagentMeta'[i] = subagentMeta[i] /\ subagentMeta[i] \notin keys
  BY <1>1 DEF Without
<1>8. /\ DOMAIN subagentIdMap' = DOMAIN subagentIdMap \ keys
      /\ \A k \in DOMAIN subagentIdMap' : subagentIdMap'[k] = subagentIdMap[k]
  BY <1>1 DEF Without
<1>9. /\ DOMAIN subagentMeta = {i \in LiveIds : IsSub(i)}
      /\ \A i \in DOMAIN subagentMeta : /\ subagentMeta[i] \in DOMAIN subagentIdMap
                                        /\ subagentIdMap[subagentMeta[i]] = i
      /\ \A k \in DOMAIN subagentIdMap : subagentMeta[subagentIdMap[k]] = k
      /\ \A k \in DOMAIN subagentIdMap : subagentIdMap[k] \in DOMAIN subagentMeta
      /\ DOMAIN subagentIdMap \subseteq Agents \X Tools
      /\ selected # None => selected \in LiveIds
  BY LiveIsAlive DEF IInv, TracksOK, HelpersTracked
<1>10. HelpersTracked'
  <2>1. DOMAIN subagentMeta' = {i \in LiveIds' : IsSub(i)}
    BY <1>3, <1>7, <1>9
  <2>2. \A i \in DOMAIN subagentMeta' : /\ subagentMeta'[i] \in DOMAIN subagentIdMap'
                                        /\ subagentIdMap'[subagentMeta'[i]] = i
                                        /\ subagentMeta'[i][1] \in listed'
    BY <1>7, <1>8, <1>9
  <2>3. \A k \in DOMAIN subagentIdMap' : subagentMeta'[subagentIdMap'[k]] = k
    BY <1>7, <1>8, <1>9
  <2>4. selected' # None => Live(selected)'
    <3>1. selected' # None => selected' \in LiveIds'
      BY <1>1, <1>3, <1>9
    <3> QED
      BY <3>1 DEF LiveIds, Live
  <2> QED
    BY <2>1, <2>2, <2>3, <2>4 DEF HelpersTracked
<1>11. TracksOK'
  <2>1. \A k \in DOMAIN subagentIdMap' : subagentIdMap'[k] \in DOMAIN subagentMeta'
    BY <1>7, <1>8, <1>9
  <2> QED
    BY <1>8, <1>9, <1>10, <2>1 DEF TracksOK
<1>12. AgentsShown'
  <2>1. ghosts \cap listed = {}
    BY DEF IInv, PanelOK
  <2>2. {i \in LiveIds' : ~IsSub(i)} = {i \in LiveIds : ~IsSub(i)} \ (listed \ listed')
    BY <1>3
  <2> QED
    BY <2>1, <2>2 DEF IInv, AgentsShown
<1> QED
  BY <1>4, <1>6, <1>11, <1>12 DEF IInv
-----------------------------------------------------------------------------
(* Every action keeps the invariant.                                       *)
LEMMA ChangedInPlace ==
  ASSUME People(ch), InOrder(order, ch), NEW m, DOMAIN m = DOMAIN ch,
         \A i \in DOMAIN ch : IsCharacter(m[i]) /\ m[i].fx = ch[i].fx
  PROVE  People(m) /\ InOrder(order, m) /\ Alive(m) = Alive(ch)
BY DEF People, InOrder, Alive

LEMMA OneChanges ==
  ASSUME People(ch), InOrder(order, ch), NEW i \in DOMAIN ch, NEW d, IsCharacter(d), d.fx = ch[i].fx,
         NEW m, m = [ch EXCEPT ![i] = d]
  PROVE  /\ DOMAIN m = DOMAIN ch /\ m[i] = d /\ \A j \in DOMAIN ch \ {i} : m[j] = ch[j]
         /\ People(m) /\ InOrder(order, m) /\ Alive(m) = Alive(ch)
<1>1. DOMAIN m = DOMAIN ch /\ m[i] = d /\ \A j \in DOMAIN ch \ {i} : m[j] = ch[j]
  OBVIOUS
<1>2. \A j \in DOMAIN ch : IsCharacter(m[j]) /\ m[j].fx = ch[j].fx
  BY <1>1 DEF People
<1> QED
  BY <1>1, <1>2, ChangedInPlace

LEMMA SelectedIsThere ==
  ASSUME IInv, selected # None
  PROVE  selected \in DOMAIN ch /\ IsCharacter(ch[selected]) /\ selected \in Alive(ch)
BY DEF IInv, TracksOK, FloorOK, People, HelpersTracked, Live, Alive

LEMMA SetActiveIInv ==
  ASSUME IInv, NEW a, NEW active \in BOOLEAN, SetActive(a, active)
  PROVE  IInv'
<1> DEFINE m == setAgentActive(a, active)
<1>1. ch' = m /\ UNCHANGED <<layout, order, maps, selected, panel, ghosts>>
  BY DEF SetActive, Move
<1>2. People(ch) /\ InOrder(order, ch) /\ layout \in DOMAIN Layouts
  BY DEF IInv, FloorOK
<1>3. DOMAIN m = DOMAIN ch /\ \A j \in DOMAIN ch : IsCharacter(m[j]) /\ m[j].fx = ch[j].fx
  BY <1>2, SetAgentActiveFacts
<1> HIDE DEF m
<1>4. People(m) /\ InOrder(order, m) /\ Alive(m) = Alive(ch)
  BY <1>2, <1>3, ChangedInPlace
<1> QED
  BY <1>1, <1>2, <1>3, <1>4, CalmStep

LEMMA SelectCharacterIInv ==
  ASSUME IInv, NEW i \in DOMAIN ch, SelectCharacter(i)
  PROVE  IInv'
<1>1. UNCHANGED <<layout, order, ch, maps, panel, ghosts>>
  BY DEF SelectCharacter, history
<1>2. selected' = None \/ selected' \in Alive(ch)
  BY DEF SelectCharacter, Live, Alive
<1>3. People(ch) /\ InOrder(order, ch) /\ layout \in DOMAIN Layouts
  BY DEF IInv, FloorOK
<1> QED
  BY <1>1, <1>2, <1>3, CalmStep

LEMMA ClickTileIInv ==
  ASSUME IInv, NEW t, ClickTile(t)
  PROVE  IInv'
<1> DEFINE c == ch[selected]
           uid == Among(SeatsIn[layout], {s \in Range(SeatsIn[layout]) : s.at = t})[1].uid
           seated == [c EXCEPT !.seat = uid]
<1>1. /\ selected # None /\ selected' = None
      /\ UNCHANGED <<layout, order, maps, panel, ghosts>>
      /\ \/ ch' = [ch EXCEPT ![selected] = HeadForSeat(c, blocked)]
         \/ ch' = [ch EXCEPT ![selected] = HeadForSeat(seated, blocked)]
         \/ ch' = ch
  BY DEF ClickTile, Move
<1>2. People(ch) /\ InOrder(order, ch) /\ layout \in DOMAIN Layouts
  BY DEF IInv, FloorOK
<1>3. selected \in DOMAIN ch /\ IsCharacter(c)
  BY <1>1, SelectedIsThere
<1> HIDE DEF uid
<1>4. IsCharacter(seated) /\ seated.fx = c.fx
  BY <1>3 DEF IsCharacter, Fields
<1> HIDE DEF seated
<1> DEFINE p == HeadForSeat(c, blocked)
           q == HeadForSeat(seated, blocked)
<1>5. IsCharacter(p) /\ p.fx = c.fx /\ IsCharacter(q) /\ q.fx = c.fx
  BY <1>3, <1>4, HeadForSeatAlike DEF Alike, Similar
<1> HIDE DEF p, q
<1>6. DOMAIN ch' = DOMAIN ch /\ People(ch') /\ InOrder(order, ch') /\ Alive(ch') = Alive(ch)
  <2>1. selected \in DOMAIN ch /\ p.fx = ch[selected].fx /\ q.fx = ch[selected].fx
    BY <1>3, <1>5
  <2> HIDE DEF c
  <2>2. \/ ch' = [ch EXCEPT ![selected] = p]
        \/ ch' = [ch EXCEPT ![selected] = q]
        \/ ch' = ch
    BY <1>1 DEF p, q
  <2>3. DOMAIN ch' = DOMAIN ch /\ \A j \in DOMAIN ch : IsCharacter(ch'[j]) /\ ch'[j].fx = ch[j].fx
    BY <1>2, <1>5, <2>1, <2>2 DEF People
  <2> QED
    BY <1>2, <2>3, ChangedInPlace
<1> QED
  BY <1>1, <1>2, <1>6, CalmStep

LEMMA WalkToTileIInv ==
  ASSUME IInv, NEW t, WalkToTile(t)
  PROVE  IInv'
<1> DEFINE c == ch[selected]
           d == Walking(c, PathFor(c, t, blocked))
<1>1. /\ selected # None
      /\ UNCHANGED <<layout, order, maps, selected, panel, ghosts>>
      /\ ch' = [ch EXCEPT ![selected] = d]
  BY DEF WalkToTile, Move
<1>2. People(ch) /\ InOrder(order, ch) /\ layout \in DOMAIN Layouts
  BY DEF IInv, FloorOK
<1>3. selected \in DOMAIN ch /\ IsCharacter(c)
  BY <1>1, SelectedIsThere
<1>4. IsCharacter(d) /\ d.fx = ch[selected].fx
  BY <1>3, WalkingAlike DEF Alike, Similar
<1> HIDE DEF c, d
<1>5. DOMAIN ch' = DOMAIN ch /\ People(ch') /\ InOrder(order, ch') /\ Alive(ch') = Alive(ch)
  <2>1. ch' = [ch EXCEPT ![selected] = d] /\ selected \in DOMAIN ch
    BY <1>1, <1>3
  <2> QED
    BY <1>2, <1>4, <2>1, OneChanges
<1> QED
  BY <1>1, <1>2, <1>5, CalmStep

LEMMA EditLayoutIInv ==
  ASSUME IInv, NEW e \in Edits, EditLayout(e)
  PROVE  IInv'
<1>1. PICK new \in rebuildFromLayout(e.to, e.shift) : ch' = new
  BY DEF EditLayout
<1>2. layout' = e.to /\ UNCHANGED <<order, maps, selected, panel, ghosts>>
  BY DEF EditLayout, Rebuilt
<1>3. InOrder(order, new) /\ People(new) /\ Alive(new) = Alive(ch) /\ DOMAIN new = DOMAIN ch
  BY RebuiltFacts DEF IInv, FloorOK
<1> QED
  BY <1>1, <1>2, <1>3, LayoutsNamed, CalmStep

LEMMA FrameIInv ==
  ASSUME IInv, Frame
  PROVE  IInv'
<1>1. PICK m \in Games([i \in DOMAIN ch |-> PlayOn(i)]) : \E s \in Steps(m) :
        ch' = [i \in Range(Staying) |-> s[CHOOSE k \in DOMAIN order : order[k] = i]]
  BY DEF Frame, Move
<1>2. PICK s \in Steps(m) :
        ch' = [i \in Range(Staying) |-> s[CHOOSE k \in DOMAIN order : order[k] = i]]
  BY <1>1
<1>3. order' = Staying /\ UNCHANGED <<layout, maps, selected, panel, ghosts>>
  BY DEF Frame
<1>4. People(ch) /\ InOrder(order, ch) /\ layout \in DOMAIN Layouts
  BY DEF IInv, FloorOK
<1>5. InOrder(order', ch') /\ People(ch') /\ DOMAIN ch' \subseteq DOMAIN ch /\ Alive(ch') = Alive(ch)
  BY <1>2, <1>3, <1>4, FrameFacts
<1> QED
  BY <1>3, <1>4, <1>5, CalmStep

LEMMA HelpersAndKeys ==
  ASSUME IInv
  PROVE  /\ \A i \in DOMAIN subagentMeta : IsSub(i) /\ i \in LiveIds
         /\ \A i \in DOMAIN subagentMeta : /\ subagentMeta[i] \in DOMAIN subagentIdMap
                                           /\ subagentIdMap[subagentMeta[i]] = i
                                           /\ subagentMeta[i][1] \in listed
         /\ \A k \in DOMAIN subagentIdMap : /\ subagentIdMap[k] \in DOMAIN subagentMeta
                                            /\ subagentMeta[subagentIdMap[k]] = k
         /\ \A a \in listed : ~IsSub(a)
<1>1. \A a \in listed : ~IsSub(a)
  BY AgentIds DEF IInv, PanelOK, IsSub
<1> QED
  BY <1>1 DEF IInv, TracksOK, HelpersTracked

LEMMA AgentClosedIInv ==
  ASSUME IInv, NEW a, AgentClosed(a)
  PROVE  IInv'
<1> DEFINE S == HelpersOf(a) \cup {a}
           keys == KeysOf(a)
<1>1. /\ a \in listed /\ listed' = listed \ {a} /\ Removed(S, keys)
      /\ UNCHANGED <<layout, order, nextSubagentId, pending, ready, unborn, ghosts>>
  BY DEF AgentClosed
<1>2. \A i \in DOMAIN subagentMeta : subagentMeta[i] \in keys <=> i \in S
  BY <1>1, HelpersAndKeys DEF KeysOf, HelpersOf
<1>3. {i \in S : ~IsSub(i)} = listed \ listed' /\ listed' \subseteq listed
  BY <1>1, HelpersAndKeys DEF HelpersOf
<1>4. \A i \in DOMAIN subagentMeta \ S : subagentMeta[i][1] \in listed'
  BY <1>1, HelpersAndKeys DEF HelpersOf
<1> QED
  BY <1>1, <1>2, <1>3, <1>4, RemovedStep

LEMMA ToolsClearIInv ==
  ASSUME IInv, NEW a, ToolsClear(a)
  PROVE  IInv'
<1> DEFINE S == HelpersOf(a)
           keys == KeysOf(a)
<1>1. /\ Removed(S, keys) /\ listed' = listed
      /\ UNCHANGED <<layout, order, nextSubagentId, pending, ready, unborn, ghosts>>
  BY DEF ToolsClear, panel
<1>2. \A i \in DOMAIN subagentMeta : subagentMeta[i] \in keys <=> i \in S
  BY <1>1, HelpersAndKeys DEF KeysOf, HelpersOf
<1>3. {i \in S : ~IsSub(i)} = listed \ listed' /\ listed' \subseteq listed
  BY <1>1, HelpersAndKeys DEF HelpersOf
<1>4. \A i \in DOMAIN subagentMeta \ S : subagentMeta[i][1] \in listed'
  BY <1>1, HelpersAndKeys
<1> QED
  BY <1>1, <1>2, <1>3, <1>4, RemovedStep

LEMMA SubagentClearIInv ==
  ASSUME IInv, NEW a, NEW tool, SubagentClear(a, tool)
  PROVE  IInv'
<1> DEFINE k == <<a, tool>>
           S == {subagentIdMap[k]}
           keys == {k}
<1>1. /\ k \in DOMAIN subagentIdMap /\ Removed(S, keys) /\ listed' = listed
      /\ UNCHANGED <<layout, order, nextSubagentId, pending, ready, unborn, ghosts>>
  BY DEF SubagentClear, panel
<1> HIDE DEF k
<1>2. \A i \in DOMAIN subagentMeta : subagentMeta[i] \in keys <=> i \in S
  BY <1>1, HelpersAndKeys
<1>3. {i \in S : ~IsSub(i)} = listed \ listed' /\ listed' \subseteq listed
  BY <1>1, HelpersAndKeys
<1>4. \A i \in DOMAIN subagentMeta \ S : subagentMeta[i][1] \in listed'
  BY <1>1, HelpersAndKeys
<1> QED
  BY <1>1, <1>2, <1>3, <1>4, RemovedStep

LEMMA AgentCreatedIInv ==
  ASSUME IInv, NEW a \in Agents, AgentCreated(a)
  PROVE  IInv'
<1> DEFINE new == [id |-> a, seat |-> None, fx |-> "spawn"]
           now == [order |-> order, ch |-> ch, assigned |-> assigned]
<1>1. /\ a \in unborn /\ unborn' = unborn \ {a} /\ listed' = listed \cup {a}
      /\ \E s \in AddOne(new, now, layout) :
           order' = s.order /\ ch' = s.ch /\ assigned' = s.assigned
      /\ UNCHANGED <<layout, maps, selected, pending, ready, ghosts>>
  BY DEF AgentCreated, Move
<1>2. People(ch) /\ InOrder(order, ch) /\ layout \in DOMAIN Layouts /\ DOMAIN ch \subseteq Used
  BY DEF IInv, FloorOK
<1>3. a \notin DOMAIN ch /\ ~IsSub(a)
  BY <1>1, <1>2, AgentIds DEF Used, IsSub
<1>4. PICK s \in AddOne(new, now, layout) : order' = s.order /\ ch' = s.ch /\ assigned' = s.assigned
  BY <1>1
<1>5. Newcomer(order, ch, assigned, a, "spawn", layout, order', ch', assigned')
  <2>1. new.fx = "spawn" /\ new.id = a /\ now.ch = ch /\ now.order = order /\ now.assigned = assigned
    OBVIOUS
  <2> HIDE DEF new, now
  <2>2. Newcomer(now.order, now.ch, now.assigned, new.id, new.fx, layout, s.order, s.ch, s.assigned)
    BY <1>2, <1>3, <1>4, <2>1, AddOneFacts
  <2> QED
    BY <1>4, <2>1, <2>2
<1>6. InOrder(order', ch') /\ People(ch') /\ Alive(ch') = Alive(ch) \cup {a} /\ DOMAIN ch' = DOMAIN ch \cup {a}
  <2>1. "spawn" # "despawn"
    OBVIOUS
  <2>2. InOrder(order', ch') /\ People(ch') /\ Alive(ch') = Alive(ch) \cup {a}
    BY <1>2, <1>5, <2>1, NewcomerInOrder
  <2> QED
    BY <1>5, <2>2 DEF Newcomer
<1>7. LiveIds' = LiveIds \cup {a} /\ LiveIds \subseteq DOMAIN ch
  BY <1>6 DEF LiveIds, Alive
<1>8. UNCHANGED <<subagentIdMap, subagentMeta, nextSubagentId>>
  BY <1>1 DEF maps
<1>9. FloorOK'
  BY <1>1, <1>2, <1>6, <1>8 DEF IInv, FloorOK, Used
<1>10. PanelOK'
  <2>1. pending' \in Seq(Agents \ unborn')
    <3>1. Agents \ unborn \subseteq Agents \ unborn' /\ pending \in Seq(Agents \ unborn)
      BY <1>1 DEF IInv, PanelOK
    <3> DEFINE X == Agents \ unborn
               Y == Agents \ unborn'
    <3> HIDE DEF X, Y
    <3>2. pending \in Seq(Y)
      BY <3>1 DEF X, Y
    <3> QED
      BY <1>1, <3>2 DEF Y
  <2> QED
    BY <1>1, <1>3, <1>6, <1>7, <2>1 DEF IInv, PanelOK
<1>11. HelpersTracked'
  <2>1. selected' # None => Live(selected)'
    <3>1. selected # None => selected \in LiveIds
      BY LiveIsAlive DEF IInv, TracksOK, HelpersTracked
    <3> QED
      BY <1>1, <1>7, <3>1 DEF LiveIds, Live
  <2> QED
    BY <1>1, <1>3, <1>7, <1>8, <2>1 DEF IInv, TracksOK, HelpersTracked
<1>12. TracksOK'
  BY <1>8, <1>11 DEF IInv, TracksOK
<1>13. AgentsShown'
  BY <1>1, <1>3, <1>7 DEF IInv, AgentsShown
<1> QED
  BY <1>9, <1>10, <1>12, <1>13 DEF IInv

LEMMA SubtaskStartIInv ==
  ASSUME IInv, NEW a \in Agents, NEW tool \in Tools, SubtaskStart(a, tool)
  PROVE  IInv'
<1> DEFINE m == setAgentActive(a, TRUE)
           id == nextSubagentId
           key == <<a, tool>>
<1>1. /\ a \in listed /\ key \notin DOMAIN subagentIdMap
      /\ addSubagent(a, tool, m)
      /\ UNCHANGED <<layout, selected, panel, ghosts>>
      /\ subagentIdMap' = With(subagentIdMap, key, id)
      /\ subagentMeta' = With(subagentMeta, id, key)
      /\ nextSubagentId' = id - 1
  BY DEF SubtaskStart, addSubagent
<1>2. People(ch) /\ InOrder(order, ch) /\ layout \in DOMAIN Layouts /\ DOMAIN ch \subseteq Used
      /\ id \in Int /\ id < 0
  BY DEF IInv, FloorOK
<1>3. DOMAIN m = DOMAIN ch /\ \A j \in DOMAIN ch : IsCharacter(m[j]) /\ m[j].fx = ch[j].fx
  <2>1. \A active \in BOOLEAN :
          /\ DOMAIN setAgentActive(a, active) = DOMAIN ch
          /\ \A j \in DOMAIN ch : /\ IsCharacter(setAgentActive(a, active)[j])
                                /\ setAgentActive(a, active)[j].fx = ch[j].fx
    BY <1>2, SetAgentActiveFacts
  <2> QED
    BY <2>1, Zenon
<1> HIDE DEF m
<1>4. People(m) /\ InOrder(order, m) /\ Alive(m) = Alive(ch)
  BY <1>2, <1>3, ChangedInPlace
<1>5. id \notin Used /\ IsSub(id)
  BY <1>2, AgentIds DEF Used, IsSub
<1>6. Newcomer(order, m, assigned, id, "spawn", layout, order', ch', assigned')
  BY <1>1, <1>2, <1>3, <1>5, AddSubagentFacts
<1>7. InOrder(order', ch') /\ People(ch') /\ Alive(ch') = Alive(ch) \cup {id} /\ DOMAIN ch' = DOMAIN ch \cup {id}
  <2>1. "spawn" # "despawn"
    OBVIOUS
  <2>2. InOrder(order', ch') /\ People(ch') /\ Alive(ch') = Alive(m) \cup {id}
    BY <1>4, <1>6, <2>1, NewcomerInOrder
  <2> QED
    BY <1>3, <1>4, <1>6, <2>2 DEF Newcomer
<1>8. LiveIds' = LiveIds \cup {id} /\ LiveIds \subseteq DOMAIN ch
  BY <1>7 DEF LiveIds, Alive
<1>9. UNCHANGED <<listed, pending, ready, unborn, layout, selected, ghosts>>
  BY <1>1 DEF panel
<1>10. FloorOK'
  <2>1. Used' = Used \cup {id}
    BY <1>1, <1>2, <1>9 DEF Used
  <2> QED
    BY <1>1, <1>2, <1>7, <1>9, <2>1 DEF FloorOK
<1>11. PanelOK'
  <2>1. id \notin listed
    BY <1>5 DEF IInv, PanelOK, Used
  <2> QED
    BY <1>5, <1>7, <1>8, <1>9, <2>1 DEF IInv, PanelOK
<1>12. /\ DOMAIN subagentMeta' = DOMAIN subagentMeta \cup {id} /\ subagentMeta'[id] = key
       /\ \A i \in DOMAIN subagentMeta : i # id => subagentMeta'[i] = subagentMeta[i]
       /\ DOMAIN subagentIdMap' = DOMAIN subagentIdMap \cup {key} /\ subagentIdMap'[key] = id
       /\ \A k \in DOMAIN subagentIdMap : subagentIdMap'[k] = subagentIdMap[k]
  <2> HIDE DEF id, key
  <2> QED
    BY <1>1 DEF With
<1>13. id \notin DOMAIN subagentMeta
  BY <1>2, <1>5, <1>8, HelpersAndKeys
<1>14. HelpersTracked'
  <2>1. selected' # None => Live(selected)'
    <3>1. selected # None => selected \in LiveIds
      BY LiveIsAlive DEF IInv, TracksOK, HelpersTracked
    <3> QED
      BY <1>8, <1>9, <3>1 DEF LiveIds, Live
  <2>2. DOMAIN subagentMeta' = {i \in LiveIds' : IsSub(i)}
    BY <1>5, <1>8, <1>12 DEF IInv, TracksOK, HelpersTracked
  <2>3. key[1] = a
    OBVIOUS
  <2> HIDE DEF key, id
  <2>4. ASSUME NEW i \in DOMAIN subagentMeta'
        PROVE  /\ subagentMeta'[i] \in DOMAIN subagentIdMap'
               /\ subagentIdMap'[subagentMeta'[i]] = i
               /\ subagentMeta'[i][1] \in listed'
    <3>1. CASE i = id
      BY <1>1, <1>9, <1>12, <2>3, <3>1
    <3>2. CASE i # id
      BY <1>1, <1>9, <1>12, <3>2, HelpersAndKeys
    <3> QED
      BY <3>1, <3>2
  <2>5. \A k \in DOMAIN subagentIdMap' : subagentMeta'[subagentIdMap'[k]] = k
    BY <1>1, <1>12, <1>13, HelpersAndKeys
  <2> QED
    BY <2>1, <2>2, <2>4, <2>5 DEF HelpersTracked
<1>15. TracksOK'
  <2>1. key \in Agents \X Tools
    OBVIOUS
  <2> HIDE DEF key, id
  <2>2. \A k \in DOMAIN subagentIdMap' : subagentIdMap'[k] \in DOMAIN subagentMeta'
    BY <1>12, HelpersAndKeys
  <2> QED
    BY <1>12, <1>14, <2>1, <2>2 DEF IInv, TracksOK
<1>16. AgentsShown'
  BY <1>5, <1>8, <1>9 DEF IInv, AgentsShown
<1> QED
  BY <1>10, <1>11, <1>15, <1>16 DEF IInv

LEMMA AllListed ==
  ASSUME NEW S, IsFiniteSet(S), NEW ids \in SetToSeqs(S)
  PROVE  ids \in Seq(S) /\ Range(ids) = S
<1> DEFINE n == Cardinality(S)
<1>1. n \in Nat
  BY FS_CardinalityType
<1>2. ids \in [1 .. n -> S] /\ \A i, j \in 1 .. n : i # j => ids[i] # ids[j]
  BY DEF SetToSeqs
<1>3. ids \in Seq(S)
  <2> HIDE DEF n
  <2> QED
    BY <1>1, <1>2
<1>4. ids \in Injection(1 .. n, S)
  BY <1>2 DEF Injection, IsInjective
<1>5. Cardinality(1 .. n) = n
  <2>1. 1 \in Int /\ n \in Int /\ (1 > n => n = 0)
    BY <1>1
  <2> HIDE DEF n
  <2>2. Cardinality(1 .. n) = IF 1 > n THEN 0 ELSE n - 1 + 1
    BY <2>1, FS_Interval
  <2> QED
    BY <1>1, <2>1, <2>2
<1>6. ids \in Surjection(1 .. n, S)
  BY <1>4, <1>5, FS_Injection
<1>7. Range(ids) = S
  BY <1>2, <1>6 DEF Surjection, Range
<1> QED
  BY <1>3, <1>7

LEMMA ExistingAgentsIInv ==
  ASSUME IInv, NEW restored, ExistingAgents(restored)
  PROVE  IInv'
<1>1. /\ ~ready /\ restored \subseteq unborn
      /\ unborn' = unborn \ restored
      /\ listed' = listed \cup restored
      /\ UNCHANGED <<layout, order, ch, maps, selected, ready, ghosts>>
  BY DEF ExistingAgents, history
<1>2. listed' \subseteq Agents \ unborn' /\ IsFiniteSet(listed')
  <2>1. listed' \subseteq Agents \ unborn'
    BY <1>1 DEF IInv, PanelOK
  <2> QED
    BY <2>1, FS_Subset, AgentIds
<1>3. pending' \in Seq(listed') /\ Range(pending') = listed'
  <2>1. pending' \in SetToSeqs(listed')
    BY <1>1 DEF ExistingAgents
  <2> QED
    BY <1>2, <2>1, AllListed
<1>4. UNCHANGED <<subagentIdMap, subagentMeta, nextSubagentId, LiveIds>>
  BY <1>1 DEF maps, LiveIds
<1>5. FloorOK'
  BY <1>1, <1>4 DEF IInv, FloorOK, Used
<1>6. PanelOK'
  <2>1. pending' \in Seq(Agents \ unborn')
    BY <1>2, <1>3
  <2>2. \A a \in restored : a \notin DOMAIN ch
    BY <1>1, AgentIds DEF IInv, FloorOK, PanelOK, Used
  <2> QED
    BY <1>1, <1>2, <1>3, <1>4, <2>1, <2>2 DEF IInv, PanelOK
<1>7. HelpersTracked'
  <2>1. selected' # None => Live(selected)'
    BY <1>1 DEF IInv, TracksOK, HelpersTracked, Live
  <2> QED
    BY <1>1, <1>4, <2>1 DEF IInv, TracksOK, HelpersTracked
<1>8. TracksOK'
  BY <1>4, <1>7 DEF IInv, TracksOK
<1>9. AgentsShown'
  BY <1>1, <1>4 DEF IInv, AgentsShown
<1> QED
  BY <1>5, <1>6, <1>8, <1>9 DEF IInv

LEMMA FirstLayoutIInv ==
  ASSUME IInv, NEW to \in DOMAIN Layouts \cup {None}, FirstLayout(to)
  PROVE  IInv'
<1> DEFINE l == IF to = None THEN layout ELSE to
           N == Len(pending)
           back == [n \in DOMAIN pending |-> [id |-> pending[n], seat |-> SavedSeat[pending[n]], fx |-> "none"]]
           Then(new) == [order |-> order, ch |-> new,
                         assigned |-> IF to = None THEN assigned ELSE SeatsTaken(new)]
<1>1. /\ ~ready /\ ready' = TRUE /\ pending' = <<>>
      /\ ghosts' = Range(pending) \ (listed \cup DOMAIN ch)
      /\ UNCHANGED <<maps, selected, listed, unborn>>
  BY DEF FirstLayout
<1>2. PICK new \in IF to = None THEN {ch} ELSE rebuildFromLayout(to, <<0, 0>>) :
        \E s \in Added(back, Then(new), l) :
          /\ order' = s.order /\ ch' = s.ch /\ assigned' = s.assigned
          /\ IF to = None THEN layout' = layout ELSE layout' = to
  BY DEF FirstLayout, Rebuilt
<1>3. PICK s \in Added(back, Then(new), l) : order' = s.order /\ ch' = s.ch /\ assigned' = s.assigned
  BY <1>2
<1>4. layout' = l /\ l \in DOMAIN Layouts
  BY <1>2 DEF IInv, FloorOK
<1>5. People(ch) /\ InOrder(order, ch) /\ DOMAIN ch \subseteq Used
  BY DEF IInv, FloorOK
<1>6. InOrder(order, new) /\ People(new) /\ Alive(new) = Alive(ch) /\ DOMAIN new = DOMAIN ch
  BY <1>2, <1>5, RebuiltFacts
<1>7. pending \in Seq(Agents \ unborn) /\ N \in Nat /\ DOMAIN pending = 1 .. N
  BY DEF IInv, PanelOK
<1>8. /\ DOMAIN back = 1 .. N /\ Len(back) = N
      /\ \A n \in 1 .. N : back[n].fx = "none" /\ back[n].id = pending[n]
  BY <1>7
<1>9. /\ InOrder(s.order, s.ch) /\ People(s.ch)
      /\ DOMAIN s.ch = DOMAIN new \cup {back[n].id : n \in 1 .. N}
      /\ \A i \in DOMAIN new : s.ch[i] = new[i]
      /\ \A i \in DOMAIN s.ch \ DOMAIN new : s.ch[i].fx = "none"
  <2>1. Then(new).order = order /\ Then(new).ch = new
    OBVIOUS
  <2> DEFINE b == Then(new)
  <2> HIDE DEF back, N, b, l, Then
  <2>2. s \in Added(back, b, l) /\ b.order = order /\ b.ch = new
    BY <1>3, <2>1 DEF b
  <2>3. InOrder(b.order, b.ch) /\ People(b.ch)
    BY <1>6, <2>2
  <2>4. /\ InOrder(s.order, s.ch) /\ People(s.ch)
        /\ DOMAIN s.ch = DOMAIN b.ch \cup {back[n].id : n \in 1 .. N}
        /\ \A i \in DOMAIN b.ch : s.ch[i] = b.ch[i]
        /\ \A i \in DOMAIN s.ch \ DOMAIN b.ch : s.ch[i].fx = "none" /\ s.ch[i].rps = None
    <3>1. \A n \in 1 .. N : back[n].fx = "none"
      BY <1>8
    <3>2. N \in Nat /\ Len(back) = N /\ DOMAIN back = 1 .. N
      BY <1>7, <1>8
    <3>3. l \in DOMAIN Layouts /\ s \in Added(back, b, l)
      BY <1>4, <2>2
    <3> QED
      BY <2>3, <3>1, <3>2, <3>3, AddedFacts
  <2> QED
    BY <2>2, <2>4
<1>10. {back[n].id : n \in 1 .. N} = Range(pending)
  BY <1>7, <1>8 DEF Range
<1> DEFINE R == Range(pending)
<1> HIDE DEF back, N, Then, l
<1>11. DOMAIN ch' = DOMAIN ch \cup R
  BY <1>3, <1>6, <1>9, <1>10
<1>12. LiveIds' = LiveIds \cup (R \ DOMAIN ch) /\ LiveIds \subseteq DOMAIN ch
  <2>1. Alive(s.ch) = Alive(new) \cup (R \ DOMAIN ch)
    BY <1>6, <1>9, <1>10 DEF Alive
  <2> QED
    BY <1>3, <1>6, <2>1 DEF Alive, LiveIds
<1>13. R \subseteq Agents \ unborn /\ \A i \in R : ~IsSub(i)
  <2>1. R \subseteq Agents \ unborn
    BY <1>7 DEF Range
  <2>2. \A i \in Agents : ~IsSub(i)
    BY AgentIds DEF IsSub
  <2> HIDE DEF R
  <2> QED
    BY <2>1, <2>2
<1>14. UNCHANGED <<subagentIdMap, subagentMeta, nextSubagentId>>
  BY <1>1 DEF maps
<1>15. FloorOK'
  BY <1>1, <1>3, <1>4, <1>5, <1>9, <1>11, <1>13, <1>14 DEF IInv, FloorOK, Used
<1>16. PanelOK'
  <2>1. <<>> \in Seq(Agents \ unborn)
    OBVIOUS
  <2>2. \A a \in listed \cap DOMAIN ch' : a \in LiveIds'
    BY <1>11, <1>12 DEF IInv, PanelOK
  <2> QED
    BY <1>1, <1>13, <2>1, <2>2 DEF IInv, PanelOK
<1>17. HelpersTracked'
  <2>1. selected' # None => Live(selected)'
    <3>1. selected # None => selected \in LiveIds
      BY LiveIsAlive DEF IInv, TracksOK, HelpersTracked
    <3> QED
      BY <1>1, <1>12, <3>1 DEF LiveIds, Live
  <2> QED
    BY <1>1, <1>12, <1>13, <1>14, <2>1 DEF IInv, TracksOK, HelpersTracked
<1>18. TracksOK'
  BY <1>14, <1>17 DEF IInv, TracksOK
<1>19. AgentsShown'
  <2>1. /\ \A i \in LiveIds : ~IsSub(i) => i \in listed
        /\ listed \subseteq DOMAIN ch \cup R
        /\ \A a \in listed : ~IsSub(a) /\ (a \in DOMAIN ch => a \in LiveIds)
    BY <1>1, HelpersAndKeys DEF IInv, PanelOK
  <2> HIDE DEF R
  <2>2. {i \in LiveIds \cup (R \ DOMAIN ch) : ~IsSub(i)} = listed \cup (R \ (listed \cup DOMAIN ch))
    BY <1>12, <1>13, <2>1
  <2> QED
    BY <1>1, <1>12, <2>2 DEF AgentsShown, R
<1> QED
  BY <1>15, <1>16, <1>18, <1>19 DEF IInv

LEMMA NextIInv == IInv /\ [Next]_vars => IInv'
<1> SUFFICES ASSUME IInv, [Next]_vars PROVE IInv'
  OBVIOUS
<1>1. CASE UNCHANGED vars
  <2>1. UNCHANGED <<layout, order, ch, maps, selected, panel, ghosts>>
    BY <1>1 DEF vars, history
  <2>2. People(ch) /\ InOrder(order, ch) /\ layout \in DOMAIN Layouts
    BY DEF IInv, FloorOK
  <2> QED
    BY <2>1, <2>2, CalmStep
<1>2. CASE Event
  <2>1. ASSUME NEW a \in Agents, AgentCreated(a) PROVE IInv'
    BY <2>1, AgentCreatedIInv
  <2>2. ASSUME NEW a \in Agents, AgentClosed(a) PROVE IInv'
    BY <2>2, AgentClosedIInv
  <2>3. ASSUME NEW a \in Agents, ToolsClear(a) PROVE IInv'
    BY <2>3, ToolsClearIInv
  <2>4. ASSUME NEW a \in Agents, NEW t \in Tools, SubtaskStart(a, t) PROVE IInv'
    BY <2>4, SubtaskStartIInv
  <2>5. ASSUME NEW a \in Agents, NEW t \in Tools, SubagentClear(a, t) PROVE IInv'
    BY <2>5, SubagentClearIInv
  <2>6. ASSUME NEW restored \in SUBSET Agents, ExistingAgents(restored) PROVE IInv'
    BY <2>6, ExistingAgentsIInv
  <2>7. ASSUME NEW a \in Agents, NEW b \in BOOLEAN, SetActive(a, b) PROVE IInv'
    BY <2>7, SetActiveIInv
  <2>8. ASSUME NEW i \in DOMAIN ch, SelectCharacter(i) PROVE IInv'
    BY <2>8, SelectCharacterIInv
  <2>9. ASSUME NEW t, ClickTile(t) PROVE IInv'
    BY <2>9, ClickTileIInv
  <2>10. ASSUME NEW t, WalkToTile(t) PROVE IInv'
    BY <2>10, WalkToTileIInv
  <2>11. ASSUME NEW to \in DOMAIN Layouts \cup {None}, FirstLayout(to) PROVE IInv'
    BY <2>11, FirstLayoutIInv
  <2>12. ASSUME NEW e \in Edits, EditLayout(e) PROVE IInv'
    BY <2>12, EditLayoutIInv
  <2> QED
    BY <1>2, <2>1, <2>2, <2>3, <2>4, <2>5, <2>6, <2>7, <2>8, <2>9, <2>10, <2>11, <2>12 DEF Event
<1>3. CASE Frame
  BY <1>3, FrameIInv
<1> QED
  BY <1>1, <1>2, <1>3 DEF Next

(* The invariant of the characters, the panel and the sub-agents.         *)
LEMMA OfficeInvariant == Spec => []IInv
<1>1. Init => IInv
  BY InitIInv
<1>2. IInv /\ [Next]_vars => IInv'
  BY NextIInv
<1> QED
  BY <1>1, <1>2, PTL DEF Spec

(* Whatever the order of messages, clicks, frames and new layouts, every   *)
(* sub-agent on the floor is found under exactly one key, its parent is    *)
(* listed, and nothing that vanishes can be found or stays selected        *)
(* (officeState.ts:392-520).                                               *)
THEOREM HelpersAreTracked == Spec => []HelpersTracked
<1>1. IInv => HelpersTracked
  BY DEF IInv, TracksOK
<1> QED
  BY <1>1, OfficeInvariant, PTL

(* Once a layout is shown, the agents on the floor are those the panel     *)
(* lists and those closed while they were buffered                         *)
(* (useExtensionMessages.ts:126-170).                                      *)
THEOREM ListedAreShown == Spec => []AgentsShown
<1>1. IInv => AgentsShown
  BY DEF IInv
<1> QED
  BY <1>1, OfficeInvariant, PTL
-----------------------------------------------------------------------------
(* The seats.  SeatsAgree is inductive once the characters are known.      *)
LEMMA AgreeingSits == SeatsAgree <=> Sits(ch, assigned, layout, haunted)
BY LiveIsAlive DEF SeatsAgree, Sits

LEMMA SameSeats ==
  ASSUME NEW m, NEW m2, NEW taken, NEW l, NEW h, Sits(m, taken, l, h),
         Alive(m2) = Alive(m), \A i \in Alive(m) : m2[i].seat = m[i].seat
  PROVE  Sits(m2, taken, l, h)
<1>1. {m2[i].seat : i \in Alive(m2)} = {m[i].seat : i \in Alive(m)}
  OBVIOUS
<1> QED
  BY <1>1 DEF Sits

LEMMA InitSeats == Init => SeatsAgree
BY DEF Init, SeatsAgree, LiveIds

LEMMA SeatsFreed ==
  ASSUME IInv, SeatsAgree, NEW S, NEW keys, Removed(S, keys), UNCHANGED <<layout, haunted>>
  PROVE  SeatsAgree'
<1>1. ch' = Vanish(S) /\ assigned' = assigned \ SeatsOf(S)
  BY DEF Removed, Move
<1>2. /\ DOMAIN ch' = DOMAIN ch /\ Alive(ch') = Alive(ch) \ S
      /\ \A i \in DOMAIN ch : ch'[i].seat = ch[i].seat
  BY <1>1, VanishFacts DEF IInv, FloorOK
<1> DEFINE A == Alive(ch)
           B == Alive(ch')
<1>3. SeatsOf(S) = {ch[i].seat : i \in A \cap S} \ {None}
  <2>1. \A i : Live(i) <=> i \in A
    BY LiveIsAlive
  <2> HIDE DEF A
  <2> QED
    BY <2>1 DEF SeatsOf
<1>4. /\ assigned = ({ch[i].seat : i \in A} \ {None}) \cup haunted
      /\ \A i \in A : ch[i].seat # None =>
           /\ HasSeat(layout, ch[i].seat)
           /\ ch[i].seat \notin haunted
           /\ \A j \in A \ {i} : ch[j].seat # ch[i].seat
  BY AgreeingSits DEF Sits
<1>5. B = A \ S /\ \A i \in B : ch'[i].seat = ch[i].seat
  BY <1>2 DEF Alive
<1> HIDE DEF A, B
<1>6. {ch'[i].seat : i \in B} = {ch[i].seat : i \in A \ S}
  BY <1>5
<1>7. assigned' = ({ch'[i].seat : i \in B} \ {None}) \cup haunted'
  <2>1. ({ch[i].seat : i \in A} \ {None}) \ ({ch[i].seat : i \in A \cap S} \ {None})
           = {ch[i].seat : i \in A \ S} \ {None}
    BY <1>4
  <2>2. haunted \cap ({ch[i].seat : i \in A \cap S} \ {None}) = {}
    BY <1>4
  <2> QED
    BY <1>1, <1>3, <1>4, <1>6, <2>1, <2>2
<1>8. \A i \in B : ch'[i].seat # None =>
        /\ HasSeat(layout', ch'[i].seat)
        /\ ch'[i].seat \notin haunted'
        /\ \A j \in B \ {i} : ch'[j].seat # ch'[i].seat
  <2>1. layout' = layout /\ haunted' = haunted
    OBVIOUS
  <2> QED
    BY <1>4, <1>5, <2>1
<1>9. Sits(ch', assigned', layout', haunted')
  BY <1>7, <1>8 DEF Sits, B
<1> QED
  BY <1>9, LiveIsAlive DEF SeatsAgree, Sits, LiveIds, Alive

(* To show SeatsAgree' it is enough to show Sits of the next state.        *)
LEMMA SitsNext ==
  ASSUME Sits(ch', assigned', layout', haunted')
  PROVE  SeatsAgree'
BY DEF SeatsAgree, Sits, LiveIds, Alive

LEMMA CalmSeats ==
  ASSUME SeatsAgree, Alive(ch') = Alive(ch), \A i \in Alive(ch) : ch'[i].seat = ch[i].seat,
         UNCHANGED <<layout, assigned, haunted>>
  PROVE  SeatsAgree'
<1>1. Sits(ch, assigned, layout, haunted)
  BY AgreeingSits
<1>2. Sits(ch', assigned, layout, haunted)
  BY <1>1, SameSeats
<1> QED
  BY <1>2, SitsNext

LEMMA EventSeats ==
  ASSUME IInv, SeatsAgree, NEW a \in Agents, NEW tool
  PROVE  /\ AgentCreated(a) => SeatsAgree'
         /\ AgentClosed(a) \/ ToolsClear(a) \/ SubagentClear(a, tool) => SeatsAgree'
         /\ SubtaskStart(a, tool) => SeatsAgree'
         /\ \A active \in BOOLEAN : SetActive(a, active) => SeatsAgree'
<1>1. People(ch) /\ layout \in DOMAIN Layouts /\ DOMAIN ch \subseteq Used
      /\ nextSubagentId \in Int /\ nextSubagentId < 0
  BY DEF IInv, FloorOK
<1>2. Sits(ch, assigned, layout, haunted)
  BY AgreeingSits
<1>3. "spawn" # "despawn"
  OBVIOUS
<1>4. ASSUME AgentCreated(a) PROVE SeatsAgree'
  <2> DEFINE new == [id |-> a, seat |-> None, fx |-> "spawn"]
             now == [order |-> order, ch |-> ch, assigned |-> assigned]
  <2>1. PICK s \in AddOne(new, now, layout) : order' = s.order /\ ch' = s.ch /\ assigned' = s.assigned
    BY <1>4 DEF AgentCreated, Move
  <2>2. a \notin DOMAIN ch /\ UNCHANGED <<layout, haunted>>
    BY <1>1, <1>4, AgentIds DEF Used, AgentCreated
  <2>3. new.fx = "spawn" /\ new.id = a /\ now.ch = ch /\ now.order = order /\ now.assigned = assigned
    OBVIOUS
  <2> HIDE DEF new, now
  <2>4. Newcomer(now.order, now.ch, now.assigned, new.id, new.fx, layout, s.order, s.ch, s.assigned)
    BY <1>1, <2>1, <2>2, <2>3, AddOneFacts
  <2>5. Newcomer(order, ch, assigned, a, "spawn", layout, order', ch', assigned')
    BY <2>1, <2>3, <2>4
  <2>6. Sits(ch', assigned', layout, haunted)
    BY <1>2, <1>3, <2>5, NewcomerSits
  <2> QED
    BY <2>2, <2>6, SitsNext
<1>5. ASSUME AgentClosed(a) \/ ToolsClear(a) \/ SubagentClear(a, tool) PROVE SeatsAgree'
  BY <1>5, SeatsFreed DEF AgentClosed, ToolsClear, SubagentClear
<1>6. ASSUME SubtaskStart(a, tool) PROVE SeatsAgree'
  <2>1. PICK active \in BOOLEAN : addSubagent(a, tool, setAgentActive(a, active))
    BY <1>6, Zenon DEF SubtaskStart
  <2> DEFINE m == setAgentActive(a, active)
             id == nextSubagentId
  <2>2. DOMAIN m = DOMAIN ch /\ \A j \in DOMAIN ch : m[j].fx = ch[j].fx /\ m[j].seat = ch[j].seat
    BY <1>1, SetAgentActiveFacts
  <2>3. addSubagent(a, tool, m) /\ UNCHANGED <<layout, haunted>>
    BY <1>6, <2>1 DEF SubtaskStart
  <2> HIDE DEF m
  <2>4. Alive(m) = Alive(ch) /\ \A j \in Alive(ch) : m[j].seat = ch[j].seat
    BY <2>2 DEF Alive
  <2>5. Sits(m, assigned, layout, haunted)
    BY <1>2, <2>4, SameSeats
  <2>6. id \notin DOMAIN m
    BY <1>1, <2>2, AgentIds DEF Used
  <2>7. Newcomer(order, m, assigned, id, "spawn", layout, order', ch', assigned')
    BY <1>1, <2>3, <2>6, AddSubagentFacts
  <2>8. Sits(ch', assigned', layout, haunted)
    BY <1>3, <2>5, <2>7, NewcomerSits
  <2> QED
    BY <2>3, <2>8, SitsNext
<1>7. ASSUME NEW active \in BOOLEAN, SetActive(a, active) PROVE SeatsAgree'
  <2> DEFINE m == setAgentActive(a, active)
  <2>1. ch' = m /\ UNCHANGED <<layout, assigned, haunted>>
    BY <1>7 DEF SetActive, Move
  <2>2. DOMAIN m = DOMAIN ch /\ \A j \in DOMAIN ch : m[j].fx = ch[j].fx /\ m[j].seat = ch[j].seat
    BY <1>1, SetAgentActiveFacts
  <2> HIDE DEF m
  <2>3. Alive(ch') = Alive(ch) /\ \A j \in Alive(ch) : ch'[j].seat = ch[j].seat
    BY <2>1, <2>2 DEF Alive
  <2> QED
    BY <2>1, <2>3, CalmSeats
<1> QED
  BY <1>4, <1>5, <1>6, <1>7

LEMMA ClickTileSeats ==
  ASSUME IInv, SeatsAgree, None \notin haunted, NEW t, ClickTile(t)
  PROVE  SeatsAgree'
<1> DEFINE c == ch[selected]
           U == Range(SeatsIn[layout])
           S == {s \in U : s.at = t}
           here == Among(SeatsIn[layout], S)
           uid == here[1].uid
           seated == [c EXCEPT !.seat = uid]
           free == here # <<>> /\ ~IsSub(selected) /\ c.seat # uid /\ uid \notin assigned
           p == HeadForSeat(c, blocked)
           q == HeadForSeat(seated, blocked)
<1>1. /\ selected # None
      /\ UNCHANGED <<layout, haunted>>
      /\ \/ ch' = [ch EXCEPT ![selected] = p] /\ UNCHANGED assigned
         \/ /\ free
            /\ ch' = [ch EXCEPT ![selected] = q]
            /\ assigned' = (assigned \ {c.seat}) \cup {uid}
         \/ UNCHANGED <<ch, assigned>>
  BY DEF ClickTile, Move
<1>2. People(ch) /\ InOrder(order, ch) /\ layout \in DOMAIN Layouts
  BY DEF IInv, FloorOK
<1>3. selected \in DOMAIN ch /\ IsCharacter(c) /\ selected \in Alive(ch)
  BY <1>1, SelectedIsThere
<1>4. IsCharacter(p) /\ p.fx = c.fx /\ p.seat = c.seat
  BY <1>3, HeadForSeatAlike DEF Alike, Similar
<1>5. CASE ch' = [ch EXCEPT ![selected] = p] /\ UNCHANGED assigned
  <2> HIDE DEF p
  <2>1. Alive(ch') = Alive(ch) /\ \A i \in Alive(ch) : ch'[i].seat = ch[i].seat
    BY <1>3, <1>4, <1>5 DEF Alive
  <2> QED
    BY <1>1, <1>5, <2>1, CalmSeats
<1>6. CASE /\ free
           /\ ch' = [ch EXCEPT ![selected] = q]
           /\ assigned' = (assigned \ {c.seat}) \cup {uid}
  <2>1. uid # None /\ HasSeat(layout, uid)
    <3>1. SeatsIn[layout] \in Seq(U)
      BY <1>2, SeatsAreAMap
    <3> HIDE DEF S, U
    <3>2. here \in Seq(U)
      BY <3>1, AmongFacts
    <3> HIDE DEF here
    <3>3. here[1] \in U
      BY <1>6, <3>2
    <3> QED
      BY <1>2, <3>3, NoneIsNoSeat DEF HasSeat, U
  <2> HIDE DEF uid
  <2>2. IsCharacter(seated) /\ seated.fx = c.fx /\ seated.seat = uid
    BY <1>3 DEF IsCharacter, Fields
  <2> HIDE DEF seated
  <2>3. q.fx = c.fx /\ q.seat = uid
    BY <2>2, HeadForSeatAlike DEF Alike, Similar
  <2> HIDE DEF q
  <2> DEFINE A == Alive(ch)
             x == selected
  <2>4. /\ Alive(ch') = A /\ x \in A /\ ch'[x].seat = uid
        /\ \A i \in A \ {x} : ch'[i].seat = ch[i].seat
    BY <1>3, <1>6, <2>3 DEF Alive
  <2>5. /\ assigned = ({ch[i].seat : i \in A} \ {None}) \cup haunted
        /\ \A i \in A : ch[i].seat # None =>
             /\ HasSeat(layout, ch[i].seat)
             /\ ch[i].seat \notin haunted
             /\ \A j \in A \ {i} : ch[j].seat # ch[i].seat
    BY AgreeingSits DEF Sits
  <2>6. uid \notin haunted /\ \A i \in A : ch[i].seat # uid
    BY <1>6, <2>1, <2>5
  <2>7. assigned' = (assigned \ {ch[x].seat}) \cup {uid}
    BY <1>6
  <2> HIDE DEF A, x, free
  <2>8. {ch'[i].seat : i \in A} = {ch[i].seat : i \in A \ {x}} \cup {uid}
    BY <2>4
  <2>9. assigned \ {ch[x].seat} \subseteq ({ch[i].seat : i \in A \ {x}} \ {None}) \cup haunted
    BY <2>5
  <2>10. ({ch[i].seat : i \in A \ {x}} \ {None}) \cup haunted \subseteq assigned \ {ch[x].seat}
    <3>1. \A i \in A \ {x} : ch[i].seat # None => ch[i].seat # ch[x].seat
      BY <2>4, <2>5
    <3>2. ch[x].seat \notin haunted \/ ch[x].seat = None
      BY <2>4, <2>5
    <3>3. CASE ch[x].seat # None
      BY <2>5, <3>1, <3>2, <3>3
    <3>4. CASE ch[x].seat = None
      BY <2>5, <3>1, <3>4
    <3> QED
      BY <3>3, <3>4
  <2>11. assigned' = ({ch'[i].seat : i \in A} \ {None}) \cup haunted
    BY <2>1, <2>7, <2>8, <2>9, <2>10
  <2>12. \A i \in A : ch'[i].seat # None =>
           /\ HasSeat(layout, ch'[i].seat)
           /\ ch'[i].seat \notin haunted
           /\ \A j \in A \ {i} : ch'[j].seat # ch'[i].seat
    BY <2>1, <2>4, <2>5, <2>6
  <2>13. Sits(ch', assigned', layout, haunted)
    BY <2>4, <2>11, <2>12 DEF Sits
  <2> QED
    BY <1>1, <2>13, SitsNext
<1>7. CASE UNCHANGED <<ch, assigned>>
  BY <1>1, <1>7, CalmSeats
<1> QED
  BY <1>1, <1>5, <1>6, <1>7

LEMMA WalkToTileSeats ==
  ASSUME IInv, SeatsAgree, NEW t, WalkToTile(t)
  PROVE  SeatsAgree'
<1> DEFINE c == ch[selected]
           d == Walking(c, PathFor(c, t, blocked))
<1>1. /\ selected # None
      /\ UNCHANGED <<layout, assigned, haunted>>
      /\ ch' = [ch EXCEPT ![selected] = d]
  BY DEF WalkToTile, Move
<1>2. selected \in DOMAIN ch /\ IsCharacter(c)
  BY <1>1, SelectedIsThere
<1>3. d.fx = c.fx /\ d.seat = c.seat
  BY <1>2, WalkingAlike DEF Alike, Similar
<1> HIDE DEF d
<1>4. Alive(ch') = Alive(ch) /\ \A i \in Alive(ch) : ch'[i].seat = ch[i].seat
  BY <1>1, <1>2, <1>3 DEF Alive
<1> QED
  BY <1>1, <1>4, CalmSeats

LEMMA LayoutSeats ==
  ASSUME IInv, SeatsAgree, None \notin haunted
  PROVE  /\ \A to \in DOMAIN Layouts \cup {None} :
              FirstLayout(to) => SeatsAgree' /\ None \notin haunted'
         /\ \A e \in Edits : EditLayout(e) => SeatsAgree' /\ None \notin haunted'
<1>1. People(ch) /\ InOrder(order, ch) /\ layout \in DOMAIN Layouts /\ pending \in Seq(Agents \ unborn)
  BY DEF IInv, FloorOK, PanelOK
<1>2. Sits(ch, assigned, layout, haunted)
  BY AgreeingSits
<1>3. ASSUME NEW to \in DOMAIN Layouts, NEW shift, NEW new \in rebuildFromLayout(to, shift), Rebuilt(to, new)
      PROVE  layout' = to /\ None \notin haunted' /\ Sits(new, SeatsTaken(new), to, haunted')
  BY <1>1, <1>3, RebuiltSits DEF Rebuilt
<1>4. ASSUME NEW to \in DOMAIN Layouts \cup {None}, FirstLayout(to)
      PROVE  SeatsAgree' /\ None \notin haunted'
  <2> DEFINE l == IF to = None THEN layout ELSE to
             N == Len(pending)
             back == [n \in DOMAIN pending |-> [id |-> pending[n], seat |-> SavedSeat[pending[n]], fx |-> "none"]]
             Then(new) == [order |-> order, ch |-> new,
                           assigned |-> IF to = None THEN assigned ELSE SeatsTaken(new)]
  <2>1. PICK new \in IF to = None THEN {ch} ELSE rebuildFromLayout(to, <<0, 0>>) :
          \E s \in Added(back, Then(new), l) :
            /\ ch' = s.ch /\ assigned' = s.assigned
            /\ IF to = None THEN layout' = layout /\ haunted' = haunted ELSE Rebuilt(to, new)
    BY <1>4 DEF FirstLayout
  <2>2. PICK s \in Added(back, Then(new), l) : ch' = s.ch /\ assigned' = s.assigned
    BY <2>1
  <2>3. IF to = None THEN layout' = layout /\ haunted' = haunted ELSE Rebuilt(to, new)
    BY <2>1
  <2>4. InOrder(order, new) /\ People(new)
    BY <1>1, <2>1, RebuiltFacts
  <2> DEFINE b == Then(new)
  <2>5. b.order = order /\ b.ch = new /\ b.assigned = IF to = None THEN assigned ELSE SeatsTaken(new)
    OBVIOUS
  <2> HIDE DEF Then
  <2>6. /\ layout' = l /\ l \in DOMAIN Layouts /\ None \notin haunted'
        /\ Sits(b.ch, b.assigned, l, haunted')
    <3>1. CASE to = None
      <4>1. l = layout /\ layout' = layout /\ haunted' = haunted /\ new = ch
        BY <2>1, <2>3, <3>1
      <4>2. b.ch = ch /\ b.assigned = assigned
        BY <2>5, <3>1, <4>1
      <4> HIDE DEF l, b
      <4> QED
        BY <1>1, <1>2, <4>1, <4>2
    <3>2. CASE to # None
      <4>1. l = to /\ to \in DOMAIN Layouts /\ Rebuilt(to, new) /\ new \in rebuildFromLayout(to, <<0, 0>>)
        BY <2>1, <2>3, <3>2
      <4>2. b.ch = new /\ b.assigned = SeatsTaken(new)
        BY <2>5, <3>2
      <4> HIDE DEF l, b
      <4> QED
        BY <1>3, <4>1, <4>2
    <3> QED
      BY <3>1, <3>2
  <2>7. N \in Nat /\ DOMAIN back = 1 .. N /\ Len(back) = N /\ \A n \in 1 .. N : back[n].fx = "none"
    BY <1>1
  <2> HIDE DEF back, N, b, l
  <2>8. s \in Added(back, b, l) /\ InOrder(b.order, b.ch) /\ People(b.ch)
    <3>1. s \in Added(back, b, l)
      BY <2>2 DEF b
    <3> QED
      BY <2>4, <2>5, <3>1
  <2>9. \A h : Sits(b.ch, b.assigned, l, h) => Sits(s.ch, s.assigned, l, h)
    <3>1. l \in DOMAIN Layouts
      BY <2>6
    <3>2. N \in Nat /\ Len(back) = N /\ DOMAIN back = 1 .. N
      BY <2>7
    <3>3. \A n \in 1 .. N : back[n].fx = "none"
      BY <2>7
    <3>4. s \in Added(back, b, l)
      BY <2>8
    <3>5. InOrder(b.order, b.ch) /\ People(b.ch)
      BY <2>8
    <3> QED
      BY <3>1, <3>2, <3>3, <3>4, <3>5, AddedFacts, ZenonT(30)
  <2>10. Sits(ch', assigned', layout', haunted')
    BY <2>2, <2>6, <2>9
  <2> QED
    BY <2>6, <2>10, SitsNext
<1>5. ASSUME NEW e \in Edits, EditLayout(e) PROVE SeatsAgree' /\ None \notin haunted'
  <2>1. PICK new \in rebuildFromLayout(e.to, e.shift) :
          ch' = new /\ assigned' = SeatsTaken(new) /\ Rebuilt(e.to, new)
    BY <1>5 DEF EditLayout
  <2>2. e.to \in DOMAIN Layouts
    BY LayoutsNamed
  <2>3. layout' = e.to /\ None \notin haunted' /\ Sits(new, SeatsTaken(new), e.to, haunted')
    BY <1>3, <2>1, <2>2
  <2>4. Sits(ch', assigned', layout', haunted')
    BY <2>1, <2>3
  <2> QED
    BY <2>3, <2>4, SitsNext
<1> QED
  BY <1>4, <1>5

LEMMA FrameSeats ==
  ASSUME IInv, SeatsAgree, Frame
  PROVE  SeatsAgree'
<1>1. PICK m \in Games([i \in DOMAIN ch |-> PlayOn(i)]) : \E s \in Steps(m) :
        ch' = [i \in Range(Staying) |-> s[CHOOSE k \in DOMAIN order : order[k] = i]]
  BY DEF Frame, Move
<1>2. PICK s \in Steps(m) :
        ch' = [i \in Range(Staying) |-> s[CHOOSE k \in DOMAIN order : order[k] = i]]
  BY <1>1
<1>3. UNCHANGED <<layout, assigned, haunted>>
  BY DEF Frame
<1>4. People(ch) /\ InOrder(order, ch)
  BY DEF IInv, FloorOK
<1>5. Alive(ch') = Alive(ch) /\ Kept(m, ch')
  BY <1>2, <1>4, FrameFacts
<1>6. \A i \in Alive(ch) : ch'[i].seat = ch[i].seat
  <2>1. Alive(ch') \subseteq DOMAIN ch'
    BY DEF Alive
  <2> QED
    BY <1>5, <2>1 DEF Kept
<1> QED
  BY <1>3, <1>5, <1>6, CalmSeats

(* The flags of the seats are the seats of those who are not vanishing, no *)
(* two of whom share one or sit on a chair that is gone, save the seats    *)
(* that a new layout gives to the vanishing (officeState.ts:103-136): for  *)
(* any layouts, agents and order of messages, clicks and frames.           *)
THEOREM SeatsStayAgreed == Spec => []SeatsAgree
<1> DEFINE SInv == SeatsAgree /\ None \notin haunted
<1>1. Init => SInv
  BY InitSeats DEF Init
<1>2. IInv /\ SInv /\ [Next]_vars => SInv'
  <2> SUFFICES ASSUME IInv, SInv, [Next]_vars PROVE SInv'
    OBVIOUS
  <2>1. CASE UNCHANGED vars
    BY <2>1, CalmSeats DEF vars, history
  <2>2. CASE Event
    <3>1. ASSUME NEW a \in Agents, NEW t, NEW b \in BOOLEAN,
                 \/ AgentCreated(a) \/ AgentClosed(a) \/ ToolsClear(a)
                 \/ SubtaskStart(a, t) \/ SubagentClear(a, t) \/ SetActive(a, b)
          PROVE  SInv'
      <4>1. SeatsAgree'
        BY <3>1, EventSeats
      <4>2. haunted' = haunted
        BY <3>1 DEF AgentCreated, AgentClosed, ToolsClear, SubtaskStart, SubagentClear, SetActive
      <4> QED
        BY <4>1, <4>2
    <3>2. ASSUME NEW restored, ExistingAgents(restored) PROVE SInv'
      BY <3>2, CalmSeats DEF ExistingAgents, history
    <3>3. ASSUME NEW i, SelectCharacter(i) PROVE SInv'
      BY <3>3, CalmSeats DEF SelectCharacter, history
    <3>4. ASSUME NEW t, ClickTile(t) PROVE SInv'
      BY <3>4, ClickTileSeats DEF ClickTile
    <3>5. ASSUME NEW t, WalkToTile(t) PROVE SInv'
      BY <3>5, WalkToTileSeats DEF WalkToTile
    <3>6. ASSUME NEW to \in DOMAIN Layouts \cup {None}, FirstLayout(to) PROVE SInv'
      BY <3>6, LayoutSeats
    <3>7. ASSUME NEW e \in Edits, EditLayout(e) PROVE SInv'
      BY <3>7, LayoutSeats
    <3> HIDE DEF SInv
    <3>8. TRUE \in BOOLEAN
      OBVIOUS
    <3>9. ASSUME NEW a \in Agents, AgentCreated(a) \/ AgentClosed(a) \/ ToolsClear(a) PROVE SInv'
      BY <3>1, <3>8, <3>9
    <3>10. ASSUME NEW a \in Agents, NEW t, SubtaskStart(a, t) \/ SubagentClear(a, t) PROVE SInv'
      BY <3>1, <3>8, <3>10
    <3>11. ASSUME NEW a \in Agents, NEW b \in BOOLEAN, SetActive(a, b) PROVE SInv'
      BY <3>1, <3>11
    <3> QED
      BY <2>2, <3>2, <3>3, <3>4, <3>5, <3>6, <3>7, <3>9, <3>10, <3>11 DEF Event
  <2>3. CASE Frame
    BY <2>3, FrameSeats DEF Frame
  <2> QED
    BY <2>1, <2>2, <2>3 DEF Next
<1> HIDE DEF SInv
<1>3. Spec => []SInv
  BY <1>1, <1>2, OfficeInvariant, PTL DEF Spec
<1>4. SInv => SeatsAgree
  BY DEF SInv
<1> QED
  BY <1>3, <1>4, PTL
-----------------------------------------------------------------------------
(* The games.  An opponent is in use as long as the game lasts, so that no *)
(* newcomer can be taken for it, and games begin only once a layout is     *)
(* shown, so that the buffered agents are no opponents.                    *)
GamesOK ==
  \A i \in LiveIds : ch[i].rps # None =>
    /\ ready
    /\ ch[i].fx = "none" /\ ~ch[i].active
    /\ ch[i].rps \in RpsData
    /\ ch[i].rps.opponent \in Used

Flip(x) == CASE x = "win" -> "lose" [] x = "lose" -> "win" [] OTHER -> x

(* The record q of a player mirrors the record r of its opponent i.        *)
Mirrors(q, r, i) ==
  q.opponent = i /\ q.phase = r.phase /\ q.timer = r.timer /\ q.result = Flip(r.result)

Paired ==
  \A i \in LiveIds : ch[i].rps # None /\ ch[i].rps.opponent \in LiveIds =>
    /\ ch[i].rps.opponent # i
    /\ ch[ch[i].rps.opponent].rps # None
    /\ Mirrors(ch[ch[i].rps.opponent].rps, ch[i].rps, i)

LEMMA MirrorsEnough ==
  ASSUME NEW r \in RpsData, NEW q \in RpsData, NEW i, Mirrors(q, r, i)
  PROVE  q = [r EXCEPT !.opponent = i, !.hand = q.hand,
                !.result = CASE @ = "win" -> "lose" [] @ = "lose" -> "win" [] OTHER -> @]
<1>1. /\ q = [opponent |-> q.opponent, phase |-> q.phase, timer |-> q.timer, hand |-> q.hand,
              result |-> q.result]
      /\ r = [opponent |-> r.opponent, phase |-> r.phase, timer |-> r.timer, hand |-> r.hand,
              result |-> r.result]
  BY DEF RpsData
<1> QED
  BY <1>1 DEF Mirrors, Flip

LEMMA PairedIsTwoSided == GamesOK /\ Paired => GamesHaveTwoSides
<1> SUFFICES ASSUME GamesOK, Paired, NEW i \in LiveIds, ch[i].rps # None,
                    NEW foe, foe = ch[i].rps.opponent
             PROVE  /\ ~ch[i].active
                    /\ Live(foe) =>
                         /\ foe # i /\ ch[foe].rps # None
                         /\ ch[foe].rps = [ch[i].rps EXCEPT !.opponent = i, !.hand = ch[foe].rps.hand,
                              !.result = CASE @ = "win" -> "lose" [] @ = "lose" -> "win" [] OTHER -> @]
  BY DEF GamesHaveTwoSides
<1>1. ~ch[i].active /\ ch[i].rps \in RpsData
  BY DEF GamesOK
<1>2. ASSUME Live(foe)
      PROVE  /\ foe # i /\ ch[foe].rps # None
             /\ ch[foe].rps \in RpsData /\ Mirrors(ch[foe].rps, ch[i].rps, i)
  <2>1. foe \in LiveIds
    BY <1>2, LiveIsAlive
  <2> QED
    BY <2>1 DEF GamesOK, Paired
<1> DEFINE r == ch[i].rps
           q == ch[foe].rps
<1> HIDE DEF r, q
<1>3. ASSUME Live(foe)
      PROVE  q = [r EXCEPT !.opponent = i, !.hand = q.hand,
                    !.result = CASE @ = "win" -> "lose" [] @ = "lose" -> "win" [] OTHER -> @]
  <2>1. r \in RpsData /\ q \in RpsData /\ Mirrors(q, r, i)
    BY <1>1, <1>2, <1>3 DEF r, q
  <2> QED
    BY <2>1, MirrorsEnough
<1> QED
  BY <1>1, <1>2, <1>3 DEF r, q

(* Steps that start no game and move none on.                              *)
LEMMA GamesStay ==
  ASSUME GamesOK, Paired, Used \subseteq Used', ready => ready',
         \A i \in Alive(ch') : ch'[i].rps # None =>
           /\ i \in Alive(ch) /\ ch'[i].rps = ch[i].rps /\ ch'[i].fx = ch[i].fx
           /\ ch'[i].active => ch[i].active
           /\ ch[i].rps.opponent \in Alive(ch') =>
                /\ ch[i].rps.opponent \in Alive(ch)
                /\ ch'[ch[i].rps.opponent].rps = ch[ch[i].rps.opponent].rps
  PROVE  GamesOK' /\ Paired'
<1>1. LiveIds = Alive(ch) /\ LiveIds' = Alive(ch')
  BY DEF LiveIds, Alive
<1>2. GamesOK'
  BY <1>1 DEF GamesOK
<1>3. Paired'
  <2> SUFFICES ASSUME NEW i \in Alive(ch'), ch'[i].rps # None, NEW f, f = ch'[i].rps.opponent,
                      f \in Alive(ch')
               PROVE  f # i /\ ch'[f].rps # None /\ Mirrors(ch'[f].rps, ch'[i].rps, i)
    BY <1>1 DEF Paired
  <2>1. i \in LiveIds /\ ch'[i].rps = ch[i].rps /\ f \in LiveIds /\ ch'[f].rps = ch[f].rps
    BY <1>1
  <2>2. ch[i].rps # None /\ ch[i].rps.opponent = f
    BY <2>1
  <2>3. f # i /\ ch[f].rps # None /\ Mirrors(ch[f].rps, ch[i].rps, i)
    BY <2>1, <2>2 DEF Paired
  <2> QED
    BY <2>1, <2>3
<1> QED
  BY <1>2, <1>3

(* What a frame makes of one game.                                         *)
LEMMA PlayOnRps ==
  ASSUME NEW i \in DOMAIN ch, IsCharacter(ch[i]), ch[i].fx = "none",
         NEW g \in RpsData, g = ch[i].rps, NEW over \in BOOLEAN,
         over <=> g.timer + 1 >= PhaseFrames[g.phase],
         NEW r, r = PlayOn(i).rps, r # None
  PROVE  /\ g.opponent \in DOMAIN ch
         /\ r \in RpsData /\ r.opponent = g.opponent
         /\ ~over => r.phase = g.phase /\ r.timer = g.timer + 1 /\ r.result = g.result
         /\ over => /\ g.phase # "result"
                    /\ r.phase = NextPhase(g.phase) /\ r.timer = 0
                    /\ r.result = IF g.phase # "countdown" THEN g.result
                                  ELSE IF ch[g.opponent].rps = None THEN None
                                  ELSE Outcome(g.hand, ch[g.opponent].rps.hand)
<1> DEFINE c == ch[i]
           foe == g.opponent
           next == [g EXCEPT !.phase = NextPhase(@), !.timer = 0]
           res == IF ch[foe].rps = None THEN None ELSE Outcome(g.hand, ch[foe].rps.hand)
<1>1. c.rps = g /\ g # None /\ DOMAIN c = Fields
  BY NoneIsNoGame DEF IsCharacter
<1>2. \A x : /\ [c EXCEPT !.rps = x].rps = x
             /\ [c EXCEPT !.rps = x, !.state = "idle"].rps = x
             /\ [c EXCEPT !.rps = x, !.path = <<>>, !.moving = FALSE, !.state = "idle"].rps = x
  BY <1>1 DEF Fields
<1>3. foe \in DOMAIN ch
  <2>1. CASE foe \notin DOMAIN ch
    <3>1. PlayOn(i) = [c EXCEPT !.rps = None]
      BY <1>1, <2>1 DEF PlayOn
    <3> QED
      BY <1>2, <3>1
  <2> QED
    BY <2>1
<1>4. CASE ~over
  <2>1. PlayOn(i) = [c EXCEPT !.rps.timer = @ + 1]
    BY <1>1, <1>3, <1>4 DEF PlayOn
  <2>2. r = [g EXCEPT !.timer = @ + 1]
    BY <1>1, <2>1 DEF Fields
  <2>3. r \in RpsData /\ r.opponent = g.opponent /\ r.phase = g.phase /\ r.timer = g.timer + 1
        /\ r.result = g.result
    BY <2>2 DEF RpsData
  <2> QED
    BY <1>3, <1>4, <2>3
<1>5. CASE over
  <2>1. g.phase \in {"walk", "countdown", "reveal", "result"} /\ g.hand \in Hands
        /\ g.result \in {"win", "lose", "draw", None} /\ g.opponent \in Int
    BY DEF RpsData
  <2>2. g.phase # "result"
    <3>1. CASE g.phase = "result"
      <4>1. PlayOn(i) = [c EXCEPT !.rps = None, !.state = "idle"]
        BY <1>1, <1>3, <1>5, <3>1 DEF PlayOn
      <4> QED
        BY <1>2, <4>1
    <3> QED
      BY <3>1
  <2>3. res \in {"win", "lose", "draw", None}
    BY DEF Outcome
  <2>4. /\ next \in RpsData /\ next.opponent = foe /\ next.phase = NextPhase(g.phase)
        /\ next.timer = 0 /\ next.result = g.result
    BY <2>1, <2>2 DEF RpsData, NextPhase
  <2>5. \A x \in {"win", "lose", "draw", None} :
          LET q == [next EXCEPT !.result = x] IN
          /\ q \in RpsData /\ q.opponent = foe /\ q.phase = NextPhase(g.phase)
          /\ q.timer = 0 /\ q.result = x
    <3> HIDE DEF next
    <3> QED
      BY <2>4 DEF RpsData
  <2>6. r = IF g.phase = "countdown" THEN [next EXCEPT !.result = res] ELSE next
    <3>1. CASE g.phase = "walk"
      <4>1. PlayOn(i) = [c EXCEPT !.rps = next, !.path = <<>>, !.moving = FALSE, !.state = "idle"]
        BY <1>1, <1>3, <1>5, <3>1 DEF PlayOn
      <4> HIDE DEF next
      <4> QED
        BY <1>2, <3>1, <4>1
    <3>2. CASE g.phase = "countdown"
      <4>1. PlayOn(i) = [c EXCEPT !.rps = [next EXCEPT !.result = res]]
        BY <1>1, <1>3, <1>5, <3>2 DEF PlayOn
      <4> HIDE DEF next, res
      <4> QED
        BY <1>2, <3>2, <4>1
    <3>3. CASE g.phase = "reveal"
      <4>1. PlayOn(i) = [c EXCEPT !.rps = next]
        BY <1>1, <1>3, <1>5, <3>3 DEF PlayOn
      <4> HIDE DEF next
      <4> QED
        BY <1>2, <3>3, <4>1
    <3> QED
      BY <2>1, <2>2, <3>1, <3>2, <3>3
  <2> HIDE DEF next
  <2>7. CASE g.phase = "countdown"
    BY <1>3, <1>5, <2>2, <2>3, <2>5, <2>6, <2>7
  <2>8. CASE g.phase # "countdown"
    BY <1>3, <1>5, <2>2, <2>4, <2>6, <2>8
  <2> QED
    BY <2>7, <2>8
<1> QED
  BY <1>4, <1>5

(* One wins when the other loses.                                          *)
LEMMA OutcomeFlips ==
  ASSUME NEW x \in Hands, NEW y \in Hands
  PROVE  Outcome(y, x) = Flip(Outcome(x, y))
BY HandsAssumption DEF Outcome, Flip, Beats

(* The games of the characters m of a frame.                               *)
GoodGames(m) ==
  \A i \in Alive(ch) : m[i].rps # None =>
    /\ ready /\ ch[i].fx = "none" /\ ~ch[i].active
    /\ m[i].rps \in RpsData /\ m[i].rps.opponent \in Used
    /\ m[i].rps.opponent \in Alive(ch) =>
         /\ m[i].rps.opponent # i
         /\ m[m[i].rps.opponent].rps # None
         /\ Mirrors(m[m[i].rps.opponent].rps, m[i].rps, i)

LEMMA PlayOnStays ==
  ASSUME NEW i \in DOMAIN ch, IsCharacter(ch[i]), ch[i].fx = "none",
         NEW g \in RpsData, g = ch[i].rps, g.opponent \in DOMAIN ch,
         g.phase # "result" \/ ~(g.timer + 1 >= PhaseFrames[g.phase])
  PROVE  PlayOn(i).rps # None
<1> DEFINE c == ch[i]
           next == [g EXCEPT !.phase = NextPhase(@), !.timer = 0]
           over == g.timer + 1 >= PhaseFrames[g.phase]
<1>1. c.rps = g /\ g # None /\ DOMAIN c = Fields
  BY NoneIsNoGame DEF IsCharacter
<1>2. \A x : /\ [c EXCEPT !.rps = x].rps = x
             /\ [c EXCEPT !.rps = x, !.path = <<>>, !.moving = FALSE, !.state = "idle"].rps = x
  BY <1>1 DEF Fields
<1>3. CASE ~over
  <2>1. PlayOn(i) = [c EXCEPT !.rps.timer = @ + 1]
    BY <1>1, <1>3 DEF PlayOn
  <2>2. PlayOn(i).rps = [g EXCEPT !.timer = @ + 1]
    BY <1>1, <2>1 DEF Fields
  <2>3. PlayOn(i).rps \in RpsData
    BY <2>2 DEF RpsData
  <2> QED
    BY <2>3, NoneIsNoGame
<1>4. CASE over
  <2>1. g.phase \in {"walk", "countdown", "reveal"}
    BY <1>4 DEF RpsData
  <2>2. next \in RpsData
    BY <2>1 DEF RpsData, NextPhase
  <2>3. \A x \in {"win", "lose", "draw", None} : [next EXCEPT !.result = x] \in RpsData
    <3> HIDE DEF next
    <3> QED
      BY <2>2 DEF RpsData
  <2> DEFINE res == IF ch[g.opponent].rps = None THEN None
                    ELSE Outcome(g.hand, ch[g.opponent].rps.hand)
  <2>4. res \in {"win", "lose", "draw", None}
    BY DEF Outcome
  <2>5. CASE g.phase = "walk"
    <3>1. PlayOn(i) = [c EXCEPT !.rps = next, !.path = <<>>, !.moving = FALSE, !.state = "idle"]
      BY <1>1, <1>4, <2>5 DEF PlayOn
    <3> HIDE DEF next
    <3> QED
      BY <1>2, <2>2, <3>1, NoneIsNoGame
  <2>6. CASE g.phase = "countdown"
    <3>1. PlayOn(i) = [c EXCEPT !.rps = [next EXCEPT !.result = res]]
      BY <1>1, <1>4, <2>6 DEF PlayOn
    <3> HIDE DEF next, res
    <3> QED
      BY <1>2, <2>3, <2>4, <3>1, NoneIsNoGame
  <2>7. CASE g.phase = "reveal"
    <3>1. PlayOn(i) = [c EXCEPT !.rps = next]
      BY <1>1, <1>4, <2>7 DEF PlayOn
    <3> HIDE DEF next
    <3> QED
      BY <1>2, <2>2, <3>1, NoneIsNoGame
  <2> QED
    BY <2>1, <2>5, <2>6, <2>7
<1> QED
  BY <1>3, <1>4

LEMMA PlayedOn ==
  ASSUME People(ch), GamesOK, Paired, NEW m, m = [i \in DOMAIN ch |-> PlayOn(i)]
  PROVE  GoodGames(m)
<1>1. LiveIds = Alive(ch) /\ Alive(ch) \subseteq DOMAIN ch /\ \A i \in DOMAIN ch : IsCharacter(ch[i])
  BY LiveIsAlive DEF People, Alive
<1> SUFFICES ASSUME NEW i \in Alive(ch), m[i].rps # None
             PROVE  /\ ready /\ ch[i].fx = "none" /\ ~ch[i].active
                    /\ m[i].rps \in RpsData /\ m[i].rps.opponent \in Used
                    /\ m[i].rps.opponent \in Alive(ch) =>
                         /\ m[i].rps.opponent # i
                         /\ m[m[i].rps.opponent].rps # None
                         /\ Mirrors(m[m[i].rps.opponent].rps, m[i].rps, i)
  BY DEF GoodGames
<1> DEFINE g == ch[i].rps
           f == g.opponent
           r == PlayOn(i).rps
           over == g.timer + 1 >= PhaseFrames[g.phase]
<1>2. m[i].rps = r /\ r # None /\ i \in DOMAIN ch /\ IsCharacter(ch[i])
  BY <1>1
<1>3. g # None
  BY <1>2, PlayOnSimilar
<1>4. ready /\ ch[i].fx = "none" /\ ~ch[i].active /\ g \in RpsData /\ f \in Used
  BY <1>1, <1>3 DEF GamesOK
<1>5. /\ f \in DOMAIN ch
      /\ r \in RpsData /\ r.opponent = f
      /\ ~over => r.phase = g.phase /\ r.timer = g.timer + 1 /\ r.result = g.result
      /\ over => /\ g.phase # "result"
                 /\ r.phase = NextPhase(g.phase) /\ r.timer = 0
                 /\ r.result = IF g.phase # "countdown" THEN g.result
                               ELSE IF ch[f].rps = None THEN None
                               ELSE Outcome(g.hand, ch[f].rps.hand)
  <2> HIDE DEF r, g
  <2>1. over \in BOOLEAN
    OBVIOUS
  <2> DEFINE b == over
  <2>2. b \in BOOLEAN /\ (b <=> g.timer + 1 >= PhaseFrames[g.phase])
    OBVIOUS
  <2> HIDE DEF b
  <2> QED
    BY <1>2, <1>4, <2>2, PlayOnRps DEF r, g
<1>6. ASSUME f \in Alive(ch)
      PROVE  f # i /\ m[f].rps # None /\ Mirrors(m[f].rps, r, i)
  <2> DEFINE h == ch[f].rps
             s == PlayOn(f).rps
  <2>1. f # i /\ h # None /\ Mirrors(h, g, i)
    BY <1>1, <1>3, <1>6 DEF Paired
  <2>2. h \in RpsData /\ ch[f].fx = "none" /\ IsCharacter(ch[f]) /\ m[f].rps = s
    BY <1>1, <1>6, <2>1 DEF GamesOK
  <2>3. h.opponent = i /\ h.phase = g.phase /\ h.timer = g.timer /\ h.result = Flip(g.result)
    BY <2>1 DEF Mirrors
  <2>4. g.phase # "result" \/ ~over
    BY <1>5
  <2> HIDE DEF r, g, h
  <2>5. s # None
    BY <1>2, <1>5, <2>2, <2>3, <2>4, PlayOnStays DEF h
  <2>6. /\ s.opponent = i
        /\ ~over => s.phase = h.phase /\ s.timer = h.timer + 1 /\ s.result = h.result
        /\ over => /\ s.phase = NextPhase(h.phase) /\ s.timer = 0
                   /\ s.result = IF h.phase # "countdown" THEN h.result
                                 ELSE IF g = None THEN None
                                 ELSE Outcome(h.hand, g.hand)
    <3> DEFINE b == h.timer + 1 >= PhaseFrames[h.phase]
    <3>1. b \in BOOLEAN /\ (b <=> h.timer + 1 >= PhaseFrames[h.phase]) /\ (b <=> over)
      BY <2>3
    <3> HIDE DEF b, over, s
    <3>2. /\ s.opponent = h.opponent
          /\ ~b => s.phase = h.phase /\ s.timer = h.timer + 1 /\ s.result = h.result
          /\ b => /\ s.phase = NextPhase(h.phase) /\ s.timer = 0
                  /\ s.result = IF h.phase # "countdown" THEN h.result
                                ELSE IF ch[h.opponent].rps = None THEN None
                                ELSE Outcome(h.hand, ch[h.opponent].rps.hand)
      BY <1>5, <2>2, <2>5, <3>1, PlayOnRps DEF h, s
    <3> QED
      BY <2>3, <3>1, <3>2 DEF g
  <2>7. g.hand \in Hands /\ h.hand \in Hands
    BY <1>4, <2>2 DEF RpsData
  <2>8. Outcome(h.hand, g.hand) = Flip(Outcome(g.hand, h.hand))
    BY <2>7, OutcomeFlips
  <2>9. s.result = Flip(r.result)
    <3>1. g # None /\ h # None
      BY <1>3, <2>1
    <3>2. ch[f].rps = h
      BY DEF h
    <3> HIDE DEF s, over
    <3>3. CASE ~over
      BY <1>5, <2>3, <2>6, <3>3
    <3>4. CASE over /\ g.phase # "countdown"
      BY <1>5, <2>3, <2>6, <3>4
    <3>5. CASE over /\ g.phase = "countdown"
      BY <1>5, <2>3, <2>6, <2>8, <3>1, <3>2, <3>5
    <3> QED
      BY <3>3, <3>4, <3>5
  <2>10. s.phase = r.phase /\ s.timer = r.timer
    <3> HIDE DEF s, over
    <3> QED
      BY <1>5, <2>3, <2>6
  <2>11. Mirrors(s, r, i)
    BY <2>6, <2>9, <2>10 DEF Mirrors
  <2> QED
    BY <2>1, <2>2, <2>5, <2>11
<1> QED
  BY <1>2, <1>4, <1>5, <1>6

LEMMA Started ==
  ASSUME People(ch), DOMAIN ch \subseteq Used, Used \subseteq Int, ready,
         \A i \in DOMAIN ch : ch[i].rps = None,
         NEW n, n = [i \in DOMAIN ch |-> PlayOn(i)],
         NEW i \in Eligible(n), NEW j \in Eligible(n), i # j, NEW hand \in [{i, j} -> Hands],
         NEW m, m = startRps(n, i, j, hand)
  PROVE  GoodGames(m)
<1> DEFINE R(k, foe) == [opponent |-> foe, phase |-> "walk", timer |-> 0, hand |-> hand[k], result |-> None]
           C(k, foe) == [n[k] EXCEPT !.seatTimer = 0, !.state = "idle", !.rps = R(k, foe)]
           Joins(k, foe, d) == d = C(k, foe) \/ \E p : d = Walking(C(k, foe), p)
<1>1. DOMAIN n = DOMAIN ch /\ \A k \in DOMAIN ch : n[k] = ch[k] /\ IsCharacter(n[k]) /\ n[k].rps = None
  BY PlayOnSimilar DEF People
<1>2. /\ i \in DOMAIN ch /\ j \in DOMAIN ch
      /\ ~ch[i].active /\ ch[i].fx = "none" /\ ~ch[j].active /\ ch[j].fx = "none"
  BY <1>1 DEF Eligible
<1>3. \E d, e : Joins(i, j, d) /\ Joins(j, i, e) /\ m = [n EXCEPT ![i] = d, ![j] = e]
  BY DEF startRps
<1>4. \A k, foe, d : k \in DOMAIN ch /\ Joins(k, foe, d) => d.rps = R(k, foe)
  <2> SUFFICES ASSUME NEW k \in DOMAIN ch, NEW foe, NEW d, Joins(k, foe, d) PROVE d.rps = R(k, foe)
    OBVIOUS
  <2> HIDE DEF R
  <2>1. DOMAIN n[k] = Fields
    BY <1>1 DEF IsCharacter
  <2>2. C(k, foe).rps = R(k, foe) /\ DOMAIN C(k, foe) = Fields
    BY <2>1 DEF Fields
  <2> HIDE DEF C
  <2>3. \A p : Walking(C(k, foe), p).rps = R(k, foe)
    BY <2>2 DEF Walking, Fields
  <2> QED
    BY <2>2, <2>3
<1> HIDE DEF Joins
<1>5. PICK d, e : Joins(i, j, d) /\ Joins(j, i, e) /\ m = [n EXCEPT ![i] = d, ![j] = e]
  BY <1>3
<1>6. d.rps = R(i, j) /\ e.rps = R(j, i)
  BY <1>2, <1>4, <1>5
<1>7. /\ m[i].rps = R(i, j) /\ m[j].rps = R(j, i)
      /\ \A k \in DOMAIN ch : k # i /\ k # j => m[k].rps = None
  BY <1>1, <1>2, <1>5, <1>6
<1>8. i \in Used /\ j \in Used /\ i \in Int /\ j \in Int /\ hand[i] \in Hands /\ hand[j] \in Hands
  BY <1>2
<1>9. R(i, j) \in RpsData /\ R(j, i) \in RpsData /\ R(i, j) # None /\ R(j, i) # None
  BY <1>8, NoneIsNoGame DEF RpsData
<1>10. Mirrors(R(j, i), R(i, j), i) /\ Mirrors(R(i, j), R(j, i), j)
  BY NoneIsNoGame DEF Mirrors, Flip
<1>11. R(i, j).opponent = j /\ R(j, i).opponent = i
  OBVIOUS
<1> HIDE DEF R
<1>12. \A k \in Alive(ch) : k \in DOMAIN ch
  BY DEF Alive
<1>13. ASSUME NEW k \in Alive(ch), m[k].rps # None
       PROVE  /\ ready /\ ch[k].fx = "none" /\ ~ch[k].active
              /\ m[k].rps \in RpsData /\ m[k].rps.opponent \in Used
              /\ m[k].rps.opponent \in Alive(ch) =>
                   /\ m[k].rps.opponent # k
                   /\ m[m[k].rps.opponent].rps # None
                   /\ Mirrors(m[m[k].rps.opponent].rps, m[k].rps, k)
  <2>1. k = i \/ k = j
    BY <1>7, <1>12, <1>13
  <2>2. CASE k = i
    BY <1>2, <1>7, <1>8, <1>9, <1>10, <1>11, <2>2
  <2>3. CASE k = j
    BY <1>2, <1>7, <1>8, <1>9, <1>10, <1>11, <2>3
  <2> QED
    BY <2>1, <2>2, <2>3
<1> QED
  BY <1>13 DEF GoodGames

LEMMA GamesGood ==
  ASSUME People(ch), GamesOK, Paired, DOMAIN ch \subseteq Used, Used \subseteq Int,
         NEW m \in Games([i \in DOMAIN ch |-> PlayOn(i)])
  PROVE  GoodGames(m)
<1> DEFINE n == [i \in DOMAIN ch |-> PlayOn(i)]
           P == {q \in Eligible(n) \X Eligible(n) : q[1] # q[2]}
           R(p) == {startRps(n, p[1], p[2], hand) : hand \in [{p[1], p[2]} -> Hands]}
<1>1. n = [i \in DOMAIN ch |-> PlayOn(i)]
  OBVIOUS
<1> HIDE DEF n
<1>2. m \in Games(n)
  BY DEF n
<1>3. \/ m = n
      \/ m \in UNION {R(p) : p \in P} /\ ready /\ \A i \in DOMAIN ch : ch[i].rps = None
  <2> DEFINE T == UNION {R(p) : p \in P}
  <2>1. Games(n) = {n} \cup IF MayPlay /\ ready /\ \A i \in DOMAIN ch : ch[i].rps = None THEN T ELSE {}
    BY DEF Games
  <2> HIDE DEF T
  <2> QED
    BY <1>2, <2>1 DEF T
<1>4. CASE m = n
  BY <1>1, <1>4, PlayedOn
<1>5. CASE m \in UNION {R(p) : p \in P} /\ ready /\ \A i \in DOMAIN ch : ch[i].rps = None
  <2>1. \E p \in P : m \in R(p)
    <3> HIDE DEF P, R
    <3> QED
      BY <1>5
  <2>2. PICK p \in P : m \in R(p)
    BY <2>1
  <2>3. PICK hand \in [{p[1], p[2]} -> Hands] : m = startRps(n, p[1], p[2], hand)
    BY <2>2
  <2>4. p[1] \in Eligible(n) /\ p[2] \in Eligible(n) /\ p[1] # p[2]
    OBVIOUS
  <2> DEFINE i == p[1]
             j == p[2]
  <2>5. i \in Eligible(n) /\ j \in Eligible(n) /\ i # j /\ hand \in [{i, j} -> Hands]
        /\ m = startRps(n, i, j, hand)
    BY <2>3, <2>4
  <2> HIDE DEF i, j, P
  <2> QED
    BY <1>1, <1>5, <2>5, Started
<1> QED
  BY <1>3, <1>4, <1>5

GInv == GamesOK /\ Paired

LEMMA FrameGames ==
  ASSUME IInv, GInv, Frame
  PROVE  GInv'
<1>1. PICK m \in Games([i \in DOMAIN ch |-> PlayOn(i)]) : \E s \in Steps(m) :
        ch' = [i \in Range(Staying) |-> s[CHOOSE k \in DOMAIN order : order[k] = i]]
  BY DEF Frame, Move
<1>2. PICK s \in Steps(m) :
        ch' = [i \in Range(Staying) |-> s[CHOOSE k \in DOMAIN order : order[k] = i]]
  BY <1>1
<1>3. UNCHANGED <<maps, panel>>
  BY DEF Frame
<1>4. People(ch) /\ InOrder(order, ch) /\ DOMAIN ch \subseteq Used /\ Used \subseteq Int
  <2>1. Agents \subseteq Int
    BY AgentIds
  <2>2. Used \subseteq Int
    BY <2>1 DEF Used
  <2> QED
    BY <2>2 DEF IInv, FloorOK
<1>5. Alive(ch') = Alive(ch) /\ Kept(m, ch')
  BY <1>2, <1>4, FrameFacts
<1>6. GoodGames(m)
  BY <1>4, GamesGood DEF GInv
<1>7. LiveIds' = Alive(ch)
  BY <1>5 DEF LiveIds, Alive
<1>8. \A i \in Alive(ch) : /\ ch'[i].active = ch[i].active /\ ch'[i].rps = m[i].rps
                           /\ ch[i].fx = "none" => ch'[i].fx = "none"
  <2>1. Alive(ch') \subseteq DOMAIN ch'
    BY DEF Alive
  <2> QED
    BY <1>5, <2>1 DEF Kept
<1>9. Used' = Used /\ ready' = ready
  BY <1>3 DEF Used, maps, panel
<1>10. GamesOK'
  BY <1>6, <1>7, <1>8, <1>9 DEF GamesOK, GoodGames
<1>11. Paired'
  <2> SUFFICES ASSUME NEW i \in Alive(ch), ch'[i].rps # None, NEW f, f = ch'[i].rps.opponent,
                      f \in Alive(ch)
               PROVE  f # i /\ ch'[f].rps # None /\ Mirrors(ch'[f].rps, ch'[i].rps, i)
    BY <1>7 DEF Paired
  <2>1. ch'[i].rps = m[i].rps /\ ch'[f].rps = m[f].rps
    BY <1>8
  <2> QED
    BY <1>6, <2>1 DEF GoodGames
<1> QED
  BY <1>10, <1>11 DEF GInv

(* Steps that only move, seat or remove characters.                        *)
LEMMA GamesUntouched ==
  ASSUME GInv, Used \subseteq Used', ready => ready',
         Alive(ch') \subseteq Alive(ch),
         \A i \in Alive(ch') : /\ ch'[i].rps = ch[i].rps /\ ch'[i].fx = ch[i].fx
                               /\ ch'[i].active => ch[i].active
  PROVE  GInv'
<1>1. \A i \in Alive(ch') : ch'[i].rps # None =>
        /\ i \in Alive(ch) /\ ch'[i].rps = ch[i].rps /\ ch'[i].fx = ch[i].fx
        /\ ch'[i].active => ch[i].active
        /\ ch[i].rps.opponent \in Alive(ch') =>
             /\ ch[i].rps.opponent \in Alive(ch)
             /\ ch'[ch[i].rps.opponent].rps = ch[ch[i].rps.opponent].rps
  OBVIOUS
<1> QED
  BY <1>1, GamesStay DEF GInv

(* A newcomer is nobody's opponent.                                        *)
LEMMA NewcomerGames ==
  ASSUME GInv, DOMAIN ch \subseteq Used, Used \subseteq Used', ready => ready',
         NEW m, NEW new, \A i \in new : i \notin Used,
         Alive(m) \subseteq Alive(ch),
         \A i \in Alive(m) : m[i].rps # None =>
           /\ m[i].rps = ch[i].rps /\ m[i].fx = ch[i].fx
           /\ m[i].active => ch[i].active
           /\ ch[i].rps.opponent \in Alive(m) =>
                m[ch[i].rps.opponent].rps = ch[ch[i].rps.opponent].rps,
         Alive(ch') \subseteq Alive(m) \cup new,
         \A i \in Alive(m) : ch'[i] = m[i],
         \A i \in new : ch'[i].rps = None
  PROVE  GInv'
<1>1. LiveIds = Alive(ch)
  BY LiveIsAlive
<1>2. ASSUME NEW i \in Alive(ch'), ch'[i].rps # None
      PROVE  /\ i \in Alive(ch) /\ ch'[i].rps = ch[i].rps /\ ch'[i].fx = ch[i].fx
             /\ ch'[i].active => ch[i].active
             /\ ch[i].rps.opponent \in Alive(ch') =>
                  /\ ch[i].rps.opponent \in Alive(ch)
                  /\ ch'[ch[i].rps.opponent].rps = ch[ch[i].rps.opponent].rps
  <2>1. i \in Alive(m) /\ ch'[i] = m[i]
    BY <1>2
  <2>2. i \in Alive(ch) /\ ch'[i].rps = ch[i].rps /\ ch[i].rps # None
    BY <1>2, <2>1
  <2>3. ch[i].rps.opponent \in Used
    BY <1>1, <2>2 DEF GInv, GamesOK
  <2>4. ch[i].rps.opponent \in Alive(ch') => ch[i].rps.opponent \in Alive(m)
    BY <2>3
  <2> QED
    BY <1>2, <2>1, <2>2, <2>4
<1> QED
  BY <1>2, GamesStay DEF GInv

LEMMA SetActiveGames ==
  ASSUME IInv, GInv, NEW a, a \in listed, NEW active \in BOOLEAN,
         NEW m, m = setAgentActive(a, active)
  PROVE  /\ Alive(m) = Alive(ch)
         /\ \A i \in Alive(m) : m[i].rps # None =>
              /\ m[i].rps = ch[i].rps /\ m[i].fx = ch[i].fx
              /\ m[i].active => ch[i].active
              /\ ch[i].rps.opponent \in Alive(m) =>
                   m[ch[i].rps.opponent].rps = ch[ch[i].rps.opponent].rps
<1> DEFINE Quit(j) == /\ a \in DOMAIN ch /\ active /\ ch[a].rps # None
                      /\ j \in {a, ch[a].rps.opponent}
<1>1. /\ DOMAIN m = DOMAIN ch
      /\ \A j \in DOMAIN ch : /\ m[j].fx = ch[j].fx
                              /\ m[j].active = IF j = a THEN active ELSE ch[j].active
                              /\ m[j].rps = IF Quit(j) THEN None ELSE ch[j].rps
  BY SetAgentActiveFacts DEF IInv, FloorOK
<1>2. Alive(m) = Alive(ch) /\ LiveIds = Alive(ch) /\ Alive(ch) \subseteq DOMAIN ch
  BY <1>1, LiveIsAlive DEF Alive
<1>3. a \in DOMAIN ch => a \in Alive(ch)
  BY <1>2 DEF IInv, PanelOK
<1>4. ASSUME NEW i \in Alive(ch), m[i].rps # None
      PROVE  /\ m[i].rps = ch[i].rps /\ m[i].fx = ch[i].fx
             /\ m[i].active => ch[i].active
             /\ ch[i].rps.opponent \in Alive(ch) =>
                  m[ch[i].rps.opponent].rps = ch[ch[i].rps.opponent].rps
  <2>1. ~Quit(i) /\ m[i].rps = ch[i].rps /\ m[i].fx = ch[i].fx /\ ch[i].rps # None
    <3> HIDE DEF Quit
    <3> QED
      BY <1>1, <1>2, <1>4
  <2> DEFINE f == ch[i].rps.opponent
  <2>2. f \in Alive(ch) => /\ f # i /\ ch[f].rps # None /\ ch[f].rps.opponent = i
    BY <1>2, <2>1 DEF GInv, Paired, Mirrors
  <2>3. f \in Alive(ch) => ~Quit(f)
    <3> SUFFICES ASSUME f \in Alive(ch), Quit(f) PROVE FALSE
      OBVIOUS
    <3>1. CASE f = a
      BY <2>1, <2>2, <3>1
    <3>2. CASE f # a
      <4>1. a \in Alive(ch) /\ ch[a].rps # None /\ f = ch[a].rps.opponent /\ active
        BY <1>3, <3>2
      <4>2. ch[f].rps.opponent = a
        BY <1>2, <4>1 DEF GInv, Paired, Mirrors
      <4> QED
        BY <2>1, <2>2, <4>1, <4>2
    <3> QED
      BY <3>1, <3>2
  <2>4. m[i].active => ch[i].active
    <3>1. CASE i # a
      BY <1>1, <1>2, <3>1
    <3>2. CASE i = a
      BY <1>1, <1>2, <2>1, <3>2
    <3> QED
      BY <3>1, <3>2
  <2>5. f \in Alive(ch) => m[f].rps = ch[f].rps
    <3> HIDE DEF Quit, f
    <3> QED
      BY <1>1, <1>2, <2>3
  <2> QED
    BY <2>1, <2>4, <2>5
<1> QED
  BY <1>2, <1>4

LEMMA OtherGames ==
  ASSUME IInv, GInv
  PROVE  /\ \A a \in Agents : AgentCreated(a) => GInv'
         /\ \A S, keys : Removed(S, keys) /\ UNCHANGED <<nextSubagentId, ready, unborn>> => GInv'
         /\ \A a \in Agents, tool \in Tools : SubtaskStart(a, tool) => GInv'
         /\ \A a \in Agents, active \in BOOLEAN : SetActive(a, active) => GInv'
<1>1. People(ch) /\ layout \in DOMAIN Layouts /\ DOMAIN ch \subseteq Used
      /\ nextSubagentId \in Int /\ nextSubagentId < 0
  BY DEF IInv, FloorOK
<1>2. \A i : i \in Alive(ch) => i \in DOMAIN ch
  BY DEF Alive
<1>3. ASSUME NEW a \in Agents, AgentCreated(a) PROVE GInv'
  <2> DEFINE new == [id |-> a, seat |-> None, fx |-> "spawn"]
             now == [order |-> order, ch |-> ch, assigned |-> assigned]
  <2>1. PICK s \in AddOne(new, now, layout) : order' = s.order /\ ch' = s.ch /\ assigned' = s.assigned
    BY <1>3 DEF AgentCreated, Move
  <2>2. a \notin Used /\ Used \subseteq Used' /\ ready' = ready
    BY <1>1, <1>3, AgentIds DEF Used, AgentCreated, maps
  <2>3. new.fx = "spawn" /\ new.id = a /\ now.ch = ch /\ now.order = order /\ now.assigned = assigned
    OBVIOUS
  <2> HIDE DEF new, now
  <2>4. Newcomer(now.order, now.ch, now.assigned, new.id, new.fx, layout, s.order, s.ch, s.assigned)
    BY <1>1, <2>1, <2>2, <2>3, AddOneFacts
  <2>5. /\ DOMAIN ch' = DOMAIN ch \cup {a} /\ ch'[a].rps = None
        /\ \A i \in DOMAIN ch : ch'[i] = ch[i]
    BY <2>1, <2>3, <2>4 DEF Newcomer
  <2>6. Alive(ch') \subseteq Alive(ch) \cup {a}
    BY <2>5 DEF Alive
  <2> DEFINE X == {a}
  <2>7. /\ \A i \in X : i \notin Used /\ ch'[i].rps = None
        /\ \A i \in Alive(ch) : ch'[i] = ch[i]
        /\ Alive(ch') \subseteq Alive(ch) \cup X
    BY <1>2, <2>2, <2>5, <2>6
  <2> HIDE DEF X
  <2> QED
    BY <1>1, <2>2, <2>7, NewcomerGames
<1>4. ASSUME NEW S, NEW keys, Removed(S, keys), UNCHANGED <<nextSubagentId, ready, unborn>> PROVE GInv'
  <2>1. ch' = Vanish(S)
    BY <1>4 DEF Removed, Move
  <2>2. /\ DOMAIN ch' = DOMAIN ch
        /\ \A i \in DOMAIN ch : /\ ch'[i].seat = ch[i].seat /\ ch'[i].rps = ch[i].rps
                                /\ ch'[i].active = ch[i].active
        /\ \A i \in DOMAIN ch : ch'[i].fx = IF i \in S THEN "despawn" ELSE ch[i].fx
        /\ Alive(ch') = Alive(ch) \ S
    BY <1>1, <2>1, VanishFacts
  <2>3. \A i \in Alive(ch') : /\ ch'[i].rps = ch[i].rps /\ ch'[i].fx = ch[i].fx
                              /\ ch'[i].active => ch[i].active
    BY <1>2, <2>2
  <2>4. Used' = Used
    BY <1>4 DEF Used
  <2> QED
    BY <1>4, <2>2, <2>3, <2>4, GamesUntouched
<1>5. ASSUME NEW a \in Agents, NEW tool \in Tools, SubtaskStart(a, tool) PROVE GInv'
  <2>1. PICK active \in BOOLEAN : addSubagent(a, tool, setAgentActive(a, active))
    BY <1>5, Zenon DEF SubtaskStart
  <2> DEFINE m == setAgentActive(a, active)
             id == nextSubagentId
  <2>2. DOMAIN m = DOMAIN ch
    BY <1>1, SetAgentActiveFacts
  <2>3. addSubagent(a, tool, m) /\ a \in listed /\ UNCHANGED <<ready, unborn>> /\ nextSubagentId' = id - 1
    BY <1>5, <2>1 DEF SubtaskStart, addSubagent, panel
  <2>4. /\ Alive(m) = Alive(ch)
        /\ \A i \in Alive(m) : m[i].rps # None =>
             /\ m[i].rps = ch[i].rps /\ m[i].fx = ch[i].fx
             /\ m[i].active => ch[i].active
             /\ ch[i].rps.opponent \in Alive(m) =>
                  m[ch[i].rps.opponent].rps = ch[ch[i].rps.opponent].rps
    BY <2>3, SetActiveGames
  <2>5. id \notin Used /\ Used \subseteq Used'
    BY <1>1, <2>3, AgentIds DEF Used
  <2> HIDE DEF m
  <2>6. Newcomer(order, m, assigned, id, "spawn", layout, order', ch', assigned')
    BY <1>1, <2>2, <2>3, <2>5, AddSubagentFacts
  <2>7. /\ DOMAIN ch' = DOMAIN m \cup {id} /\ ch'[id].rps = None
        /\ \A i \in DOMAIN m : ch'[i] = m[i]
    BY <2>6 DEF Newcomer
  <2>8. Alive(ch') \subseteq Alive(m) \cup {id} /\ \A i \in Alive(m) : i \in DOMAIN m
    BY <2>7 DEF Alive
  <2> DEFINE X == {id}
  <2>9. /\ \A i \in X : i \notin Used /\ ch'[i].rps = None
        /\ \A i \in Alive(m) : ch'[i] = m[i]
        /\ Alive(ch') \subseteq Alive(m) \cup X
    BY <2>5, <2>7, <2>8
  <2> HIDE DEF X
  <2> QED
    BY <1>1, <2>3, <2>4, <2>5, <2>9, NewcomerGames
<1>6. ASSUME NEW a \in Agents, NEW active \in BOOLEAN, SetActive(a, active) PROVE GInv'
  <2> DEFINE m == setAgentActive(a, active)
  <2>1. ch' = m /\ UNCHANGED <<maps, panel>> /\ a \in listed
    BY <1>6 DEF SetActive, Move
  <2>2. Used' = Used /\ ready' = ready
    BY <2>1 DEF maps, panel, Used
  <2>3. /\ Alive(m) = Alive(ch)
        /\ \A i \in Alive(m) : m[i].rps # None =>
             /\ m[i].rps = ch[i].rps /\ m[i].fx = ch[i].fx
             /\ m[i].active => ch[i].active
             /\ ch[i].rps.opponent \in Alive(m) =>
                  m[ch[i].rps.opponent].rps = ch[ch[i].rps.opponent].rps
    BY <2>1, SetActiveGames
  <2> HIDE DEF m
  <2> QED
    BY <2>1, <2>2, <2>3, GamesStay DEF GInv
<1> QED
  BY <1>3, <1>4, <1>5, <1>6

LEMMA ClickedGames ==
  ASSUME IInv, GInv, NEW t, ClickTile(t) \/ WalkToTile(t)
  PROVE  GInv'
<1> DEFINE c == ch[selected]
           uid == Among(SeatsIn[layout], {s \in Range(SeatsIn[layout]) : s.at = t})[1].uid
           seated == [c EXCEPT !.seat = uid]
           p == HeadForSeat(c, blocked)
           q == HeadForSeat(seated, blocked)
           w == Walking(c, PathFor(c, t, blocked))
<1>1. /\ selected # None /\ UNCHANGED <<maps, panel>>
      /\ ch' = ch \/ \E d \in {p, q, w} : ch' = [ch EXCEPT ![selected] = d]
  BY DEF ClickTile, WalkToTile, Move
<1>2. selected \in DOMAIN ch /\ IsCharacter(c)
  BY <1>1, SelectedIsThere
<1> HIDE DEF uid
<1>3. IsCharacter(seated) /\ seated.fx = c.fx /\ seated.rps = c.rps /\ seated.active = c.active
  BY <1>2 DEF IsCharacter, Fields
<1> HIDE DEF seated
<1>4. \A d \in {p, q, w} : d.fx = c.fx /\ d.rps = c.rps /\ d.active = c.active
  BY <1>2, <1>3, HeadForSeatAlike, WalkingAlike DEF Alike, Similar
<1> HIDE DEF p, q, w
<1>5. \A i \in DOMAIN ch : ch'[i].fx = ch[i].fx /\ ch'[i].rps = ch[i].rps /\ ch'[i].active = ch[i].active
  BY <1>1, <1>2, <1>4
<1>6. DOMAIN ch' = DOMAIN ch
  BY <1>1
<1>7. Alive(ch') = Alive(ch) /\ \A i \in Alive(ch) : i \in DOMAIN ch
  BY <1>5, <1>6 DEF Alive
<1>8. Used' = Used /\ ready' = ready
  BY <1>1 DEF maps, panel, Used
<1> QED
  BY <1>5, <1>7, <1>8, GamesUntouched

LEMMA EditLayoutGames ==
  ASSUME IInv, GInv, NEW e, EditLayout(e)
  PROVE  GInv'
<1>1. PICK new \in rebuildFromLayout(e.to, e.shift) : ch' = new
  BY DEF EditLayout
<1>2. \A i \in DOMAIN ch : IsCharacter(ch[i])
  BY DEF IInv, FloorOK, People
<1>3. /\ DOMAIN ch' = DOMAIN ch
      /\ \A i \in DOMAIN ch :
           /\ IsCharacter(ch'[i]) /\ ch'[i].fx = ch[i].fx /\ ch'[i].rps = ch[i].rps
           /\ ch'[i].active = ch[i].active
           /\ ch'[i].seat = NewSeats(e.to)[i]
  BY <1>1, <1>2, RebuiltSimilar
<1>4. Alive(ch') = Alive(ch) /\ \A i \in Alive(ch) : i \in DOMAIN ch
  BY <1>3 DEF Alive
<1>5. Used' = Used /\ ready' = ready
  BY DEF EditLayout, maps, panel, Used
<1>6. \A i \in Alive(ch') : /\ ch'[i].rps = ch[i].rps /\ ch'[i].fx = ch[i].fx
                            /\ ch'[i].active => ch[i].active
  BY <1>3, <1>4
<1> QED
  BY <1>4, <1>5, <1>6, GamesUntouched

LEMMA FirstLayoutGames ==
  ASSUME IInv, GInv, NEW to \in DOMAIN Layouts \cup {None}, FirstLayout(to)
  PROVE  GInv'
<1> DEFINE l == IF to = None THEN layout ELSE to
           N == Len(pending)
           back == [n \in DOMAIN pending |-> [id |-> pending[n], seat |-> SavedSeat[pending[n]], fx |-> "none"]]
           Then(new) == [order |-> order, ch |-> new,
                         assigned |-> IF to = None THEN assigned ELSE SeatsTaken(new)]
<1>1. People(ch) /\ InOrder(order, ch) /\ layout \in DOMAIN Layouts /\ pending \in Seq(Agents \ unborn)
  BY DEF IInv, FloorOK, PanelOK
<1>2. PICK new \in IF to = None THEN {ch} ELSE rebuildFromLayout(to, <<0, 0>>) :
        \E s \in Added(back, Then(new), l) : ch' = s.ch
  BY DEF FirstLayout
<1>3. PICK s \in Added(back, Then(new), l) : ch' = s.ch
  BY <1>2
<1>4. InOrder(order, new) /\ People(new) /\ Alive(new) = Alive(ch) /\ DOMAIN new = DOMAIN ch
      /\ \A i \in DOMAIN ch : new[i].rps = ch[i].rps
  <2>1. CASE to = None
    BY <1>1, <1>2, <2>1
  <2>2. CASE to # None
    <3>1. new \in rebuildFromLayout(to, <<0, 0>>)
      BY <1>2, <2>2
    <3>2. /\ DOMAIN new = DOMAIN ch
          /\ \A i \in DOMAIN ch :
               /\ IsCharacter(new[i]) /\ new[i].fx = ch[i].fx /\ new[i].rps = ch[i].rps
               /\ new[i].active = ch[i].active
               /\ new[i].seat = NewSeats(to)[i]
      BY <1>1, <3>1, RebuiltSimilar DEF People
    <3>3. InOrder(order, new) /\ People(new) /\ Alive(new) = Alive(ch) /\ DOMAIN new = DOMAIN ch
      BY <1>1, <3>1, RebuiltFacts
    <3> QED
      BY <3>2, <3>3
  <2> QED
    BY <2>1, <2>2
<1> DEFINE b == Then(new)
<1>5. b.order = order /\ b.ch = new
  OBVIOUS
<1>6. N \in Nat /\ DOMAIN back = 1 .. N /\ Len(back) = N /\ \A n \in 1 .. N : back[n].fx = "none"
  BY <1>1
<1>7. l \in DOMAIN Layouts
  BY <1>1
<1>8. s \in Added(back, b, l)
  BY <1>3
<1> HIDE DEF back, N, b, l, Then
<1>9. InOrder(b.order, b.ch) /\ People(b.ch)
  BY <1>4, <1>5
<1>10. /\ InOrder(s.order, s.ch) /\ People(s.ch)
       /\ DOMAIN s.ch = DOMAIN b.ch \cup {back[n].id : n \in 1 .. N}
       /\ \A i \in DOMAIN b.ch : s.ch[i] = b.ch[i]
       /\ \A i \in DOMAIN s.ch \ DOMAIN b.ch : s.ch[i].fx = "none" /\ s.ch[i].rps = None
  BY <1>6, <1>7, <1>8, <1>9, AddedFacts
<1>11. /\ \A i \in DOMAIN ch : ch'[i] = new[i]
       /\ \A i \in DOMAIN ch' \ DOMAIN ch : ch'[i].rps = None
       /\ DOMAIN ch \subseteq DOMAIN ch'
  BY <1>3, <1>4, <1>5, <1>10
<1>12. \A i \in Alive(ch) : ch[i].rps = None
  BY LiveIsAlive DEF GInv, GamesOK, FirstLayout
<1>13. \A i \in Alive(ch') : i \in DOMAIN ch' /\ (i \in DOMAIN ch => i \in Alive(ch))
  BY <1>4, <1>11 DEF Alive
<1>14. \A i \in Alive(ch') : ch'[i].rps = None
  BY <1>4, <1>11, <1>12, <1>13
<1>15. LiveIds' = Alive(ch')
  BY DEF LiveIds, Alive
<1> QED
  BY <1>14, <1>15 DEF GInv, GamesOK, Paired

(* A game has two sides until one of them vanishes: whatever calls one of  *)
(* them to work, moves, reseats or closes it, the two that still play name *)
(* each other, in the same phase, both idle, with opposite results         *)
(* (officeState.ts:554-616, 740-796).                                      *)
THEOREM GamesStayTwoSided == Spec => []GamesHaveTwoSides
<1>1. Init => GInv
  BY DEF Init, GInv, GamesOK, Paired, LiveIds
<1>2. IInv /\ GInv /\ [Next]_vars => GInv'
  <2> SUFFICES ASSUME IInv, GInv, [Next]_vars PROVE GInv'
    OBVIOUS
  <2>1. ASSUME UNCHANGED <<ch, maps>>, UNCHANGED <<ready, unborn>> PROVE GInv'
    BY <2>1, GamesUntouched DEF maps, Used
  <2>2. CASE UNCHANGED vars
    BY <2>1, <2>2 DEF vars, panel
  <2>3. CASE Event
    <3>1. ASSUME NEW a \in Agents, AgentCreated(a) PROVE GInv'
      BY <3>1, OtherGames
    <3>2. ASSUME NEW a, NEW t, AgentClosed(a) \/ ToolsClear(a) \/ SubagentClear(a, t) PROVE GInv'
      <4>1. \E S, keys : Removed(S, keys)
        BY <3>2 DEF AgentClosed, ToolsClear, SubagentClear
      <4>2. UNCHANGED <<nextSubagentId, ready, unborn>>
        BY <3>2 DEF AgentClosed, ToolsClear, SubagentClear, panel
      <4> QED
        BY <4>1, <4>2, OtherGames
    <3>3. ASSUME NEW a \in Agents, NEW t \in Tools, SubtaskStart(a, t) PROVE GInv'
      BY <3>3, OtherGames
    <3>4. ASSUME NEW restored, ExistingAgents(restored) PROVE GInv'
      <4>1. unborn' \subseteq unborn /\ Used \subseteq Used'
        BY <3>4 DEF ExistingAgents, Used, maps
      <4> QED
        BY <3>4, <4>1, GamesUntouched DEF ExistingAgents
    <3>5. ASSUME NEW a \in Agents, NEW active \in BOOLEAN, SetActive(a, active) PROVE GInv'
      BY <3>5, OtherGames
    <3>6. ASSUME NEW i, SelectCharacter(i) PROVE GInv'
      BY <2>1, <3>6 DEF SelectCharacter, panel
    <3>7. ASSUME NEW t, ClickTile(t) \/ WalkToTile(t) PROVE GInv'
      BY <3>7, ClickedGames
    <3>8. ASSUME NEW to \in DOMAIN Layouts \cup {None}, FirstLayout(to) PROVE GInv'
      BY <3>8, FirstLayoutGames
    <3>9. ASSUME NEW e \in Edits, EditLayout(e) PROVE GInv'
      BY <3>9, EditLayoutGames
    <3> QED
      BY <2>3, <3>1, <3>2, <3>3, <3>4, <3>5, <3>6, <3>7, <3>8, <3>9 DEF Event
  <2>4. CASE Frame
    BY <2>4, FrameGames
  <2> QED
    BY <2>2, <2>3, <2>4 DEF Next
<1>3. Spec => []GInv
  BY <1>1, <1>2, OfficeInvariant, PTL DEF Spec
<1>4. GInv => GamesHaveTwoSides
  BY PairedIsTwoSided DEF GInv
<1> QED
  BY <1>3, <1>4, PTL
-----------------------------------------------------------------------------
(* Walks.  A trail starts at a tile and goes on over walkable tiles, each  *)
(* next to the one before.                                                 *)
Trails(start, room, blk) ==
  {p \in Seq(Int \X Int) : /\ p # <<>> /\ p[1] = start
                           /\ \A k \in 2 .. Len(p) : /\ isWalkable(p[k], room, blk)
                                                     /\ Distance(p[k], p[k - 1]) = 1}

(* The tiles around a tile are at distance one.                            *)
LEMMA Neighbours ==
  ASSUME NEW s \in Int \X Int, NEW t \in {Up(s), Down(s), Left(s), Right(s)}
  PROVE  t \in Int \X Int /\ Distance(t, s) = 1
BY DEF Up, Down, Left, Right, Distance, Abs

(* A trail goes on with a walkable tile next to its last.                  *)
LEMMA TrailGoesOn ==
  ASSUME NEW start, NEW room, NEW blk, NEW p \in Trails(start, room, blk), NEW t \in Int \X Int,
         isWalkable(t, room, blk), Distance(t, Last(p)) = 1
  PROVE  Append(p, t) \in Trails(start, room, blk)
<1> DEFINE n == Len(p)
           q == Append(p, t)
<1>1. p \in Seq(Int \X Int) /\ p # <<>> /\ n \in Nat /\ n >= 1
  BY DEF Trails
<1>2. q \in Seq(Int \X Int) /\ Len(q) = n + 1 /\ q[n + 1] = t /\ \A k \in 1 .. n : q[k] = p[k]
  <2>1. q \in Seq(Int \X Int) /\ Len(q) = n + 1
    BY <1>1
  <2>2. q[n + 1] = t
    BY <1>1
  <2>3. ASSUME NEW k \in 1 .. n PROVE q[k] = p[k]
    <3>1. k # n + 1 /\ DOMAIN p = 1 .. n
      BY <1>1
    <3> QED
      BY <1>1, <3>1
  <2> HIDE DEF q
  <2> QED
    BY <2>1, <2>2, <2>3
<1>3. Last(p) = p[n]
  BY DEF Last
<1>4. q # <<>> /\ q[1] = start
  <2>1. p[1] = start
    BY DEF Trails
  <2> HIDE DEF q
  <2>2. q # <<>> /\ 1 \in 1 .. n
    BY <1>1, <1>2
  <2> QED
    BY <1>2, <2>1, <2>2
<1>5. ASSUME NEW k \in 2 .. n + 1 PROVE isWalkable(q[k], room, blk) /\ Distance(q[k], q[k - 1]) = 1
  <2>1. CASE k = n + 1
    BY <1>1, <1>2, <1>3, <2>1
  <2>2. CASE k # n + 1
    <3>1. k \in 2 .. n /\ k \in 1 .. n /\ k - 1 \in 1 .. n
      BY <1>1, <2>2
    <3> QED
      BY <1>2, <3>1 DEF Trails
  <2> QED
    BY <2>1, <2>2
<1> QED
  BY <1>2, <1>4, <1>5 DEF Trails

(* A level of the search holds trails, so the next one does.               *)
LEMMA NextLevelTrails ==
  ASSUME NEW start, NEW room, room.cols \in Nat, room.rows \in Nat, NEW blk,
         NEW level \in Seq(Trails(start, room, blk)), NEW visited
  PROVE  NextLevel(level, visited, room, blk) \in Seq(Trails(start, room, blk))
<1> DEFINE P == Trails(start, room, blk)
           N == Len(level)
           Around(t) == <<Up(t), Down(t), Left(t), Right(t)>>
           from(k) == level[(k + 3) \div 4]
           tried == [k \in 1 .. 4 * N |-> Around(Last(from(k)))[((k - 1) % 4) + 1]]
           discovers == {k \in DOMAIN tried : /\ isWalkable(tried[k], room, blk)
                                              /\ tried[k] \notin visited
                                              /\ \A j \in 1 .. k - 1 : tried[j] # tried[k]}
           all == [k \in DOMAIN tried |-> k]
           news == Among(all, discovers)
<1>1. NextLevel(level, visited, room, blk) = [n \in DOMAIN news |-> Append(from(news[n]), tried[news[n]])]
  BY DEF NextLevel
<1>2. N \in Nat /\ DOMAIN tried = 1 .. 4 * N
  OBVIOUS
<1>3. ASSUME NEW k \in discovers PROVE Append(from(k), tried[k]) \in P
  <2>1. k \in 1 .. 4 * N /\ isWalkable(tried[k], room, blk)
    BY <1>2
  <2>2. (k + 3) \div 4 \in 1 .. N /\ ((k - 1) % 4) + 1 \in 1 .. 4
    BY <1>2, <2>1
  <2>3. from(k) \in P
    BY <2>2
  <2> DEFINE p == from(k)
             s == Last(p)
             i == ((k - 1) % 4) + 1
  <2>4. s \in Int \X Int
    <3>1. p \in Seq(Int \X Int) /\ p # <<>>
      BY <2>3 DEF Trails
    <3> HIDE DEF p
    <3>2. Len(p) \in Nat /\ Len(p) >= 1
      BY <3>1
    <3> QED
      BY <3>1, <3>2 DEF Last
  <2>5. tried[k] = Around(s)[i]
    BY <2>1
  <2> HIDE DEF p, tried, s
  <2>6. i = 1 \/ i = 2 \/ i = 3 \/ i = 4
    BY <2>2
  <2> HIDE DEF i
  <2>7. tried[k] \in {Up(s), Down(s), Left(s), Right(s)}
    BY <2>5, <2>6
  <2>8. tried[k] \in Int \X Int /\ Distance(tried[k], s) = 1
    BY <2>4, <2>7, Neighbours
  <2> QED
    BY <2>1, <2>3, <2>8, TrailGoesOn DEF p, s
<1>4. all \in Seq(1 .. 4 * N)
  BY <1>2
<1> HIDE DEF tried, discovers, P, all, from
<1>5. news \in Seq(1 .. 4 * N) /\ \A n \in DOMAIN news : news[n] \in discovers
  BY <1>4, AmongFacts
<1> HIDE DEF news
<1> DEFINE next == [n \in DOMAIN news |-> Append(from(news[n]), tried[news[n]])]
<1>6. Len(news) \in Nat /\ DOMAIN news = 1 .. Len(news)
  BY <1>5
<1>7. next \in [1 .. Len(news) -> P]
  BY <1>3, <1>5, <1>6
<1> HIDE DEF next
<1>8. next \in Seq(P)
  BY <1>6, <1>7
<1> QED
  BY <1>1, <1>8 DEF P, next

(* What the search finds, from whatever start: steps over walkable tiles.  *)
LEMMA FindPathFacts ==
  ASSUME NEW room, room.cols \in Nat, room.rows \in Nat, NEW blk, NEW start \in Int \X Int, NEW end
  PROVE  /\ findPath(start, end, room, blk) \in Seq(Int \X Int)
         /\ IsPath(findPath(start, end, room, blk), start, room, blk)
<1> DEFINE P == Trails(start, room, blk)
           V == [paths : Seq(P), visited : SUBSET (Int \X Int)]
           N == room.cols * room.rows
           Ends(s) == {k \in DOMAIN s.paths : Last(s.paths[k]) = end}
           Onward(s) == NextLevel(s.paths, s.visited, room, blk)
           E(s) == IF Ends(s) # {} THEN s
                   ELSE [paths |-> Onward(s), visited |-> s.visited \cup {Last(p) : p \in Range(Onward(s))}]
           base == [paths |-> <<<<start>>>>, visited |-> {start}]
           Rec(f) == f = [n \in 0 .. N |-> IF n = 0 THEN base ELSE E(f[n - 1])]
           found == (CHOOSE f : Rec(f))[N]
           path == findPath(start, end, room, blk)
<1>1. path = IF start = end \/ ~isWalkable(end, room, blk) \/ Ends(found) = {} THEN <<>>
             ELSE Tail(found.paths[CHOOSE k \in Ends(found) : TRUE])
  BY DEF findPath
<1>2. N \in Nat
  OBVIOUS
<1>3. \A p \in P : p \in Seq(Int \X Int) /\ Last(p) \in Int \X Int /\ Len(p) \in Nat \ {0}
  <2> SUFFICES ASSUME NEW p \in P PROVE p \in Seq(Int \X Int) /\ Last(p) \in Int \X Int /\ Len(p) \in Nat \ {0}
    OBVIOUS
  <2>1. p \in Seq(Int \X Int) /\ p # <<>>
    BY DEF Trails
  <2>2. Len(p) \in Nat /\ Len(p) >= 1
    BY <2>1
  <2> QED
    BY <2>1, <2>2 DEF Last
<1>4. base \in V
  <2>1. <<start>> \in Seq(Int \X Int) /\ Len(<<start>>) = 1 /\ <<start>>[1] = start
    OBVIOUS
  <2>2. <<start>> \in P
    BY <2>1 DEF Trails
  <2> HIDE DEF P
  <2>3. <<<<start>>>> \in Seq(P)
    BY <2>2
  <2> QED
    BY <2>3
<1>5. ASSUME NEW s \in V PROVE E(s) \in V
  <2>1. s.paths \in Seq(P)
    OBVIOUS
  <2>2. Onward(s) \in Seq(P)
    BY <2>1, NextLevelTrails
  <2> DEFINE next == Onward(s)
  <2> HIDE DEF P, Next, Ends, next
  <2>3. {Last(p) : p \in Range(next)} \subseteq Int \X Int
    <3>1. \A p \in Range(next) : p \in P
      BY <2>2 DEF Range, next
    <3> QED
      BY <1>3, <3>1
  <2>4. [paths |-> next, visited |-> s.visited \cup {Last(p) : p \in Range(next)}] \in V
    BY <2>2, <2>3 DEF next
  <2> QED
    BY <2>4 DEF next
<1>6. Rec(CHOOSE f : Rec(f))
  <2> DEFINE G == [n \in 1 .. N |-> [s \in V |-> E(s)]]
  <2>1. G \in [1 .. N -> [V -> V]] /\ \A n \in 1 .. N, s \in V : G[n][s] = E(s)
    <3> HIDE DEF E, V
    <3> QED
      BY <1>5
  <2>2. \E f : Recurs(N, V, base, G, f)
    <3> HIDE DEF N, V, base, G
    <3> QED
      BY <1>2, <1>4, <2>1, Recursion
  <2>3. PICK f \in [0 .. N -> V] : f[0] = base /\ \A n \in 1 .. N : f[n] = G[n][f[n - 1]]
    BY <2>2 DEF Recurs
  <2>4. \A n \in 0 .. N : f[n] = IF n = 0 THEN base ELSE E(f[n - 1])
    <3> HIDE DEF G, E, V, base, N
    <3>1. \A n \in 1 .. N : f[n] = E(f[n - 1])
      BY <1>2, <2>1, <2>3
    <3> QED
      BY <1>2, <2>3, <3>1
  <2>5. Rec(f)
    <3> HIDE DEF E, V, base, N
    <3> QED
      BY <2>3, <2>4
  <2> HIDE DEF Rec
  <2> QED
    BY <2>5
<1>7. found \in V
  <2> DEFINE f == CHOOSE f : Rec(f)
             T == {n \in Nat : n <= N => f[n] \in V}
  <2>1. \A n \in 0 .. N : f[n] = IF n = 0 THEN base ELSE E(f[n - 1])
    <3> HIDE DEF f, E, base, N
    <3> QED
      BY <1>6 DEF f
  <2> HIDE DEF f, E, base, V, N
  <2>2. 0 \in T
    BY <1>2, <1>4, <2>1
  <2>3. \A n \in T : n + 1 \in T
    BY <1>2, <1>5, <2>1
  <2>4. Nat \subseteq T
    <3> HIDE DEF T
    <3> QED
      BY <2>2, <2>3, NatSetInduction
  <2> QED
    BY <1>2, <2>4 DEF f
<1> HIDE DEF found
<1>8. CASE start = end \/ ~isWalkable(end, room, blk) \/ Ends(found) = {}
  BY <1>1, <1>8 DEF IsPath
<1>9. CASE ~(start = end \/ ~isWalkable(end, room, blk) \/ Ends(found) = {})
  <2> DEFINE k == CHOOSE k \in Ends(found) : TRUE
             p == found.paths[k]
  <2>1. k \in DOMAIN found.paths
    BY <1>9
  <2>2. p \in P /\ found.paths \in Seq(P)
    <3> HIDE DEF k, P
    <3> QED
      BY <1>7, <2>1
  <2>3. path = Tail(p)
    BY <1>1, <1>9
  <2> HIDE DEF p, path
  <2>4. /\ p \in Seq(Int \X Int) /\ p # <<>> /\ p[1] = start
        /\ \A j \in 2 .. Len(p) : isWalkable(p[j], room, blk) /\ Distance(p[j], p[j - 1]) = 1
    BY <2>2 DEF Trails
  <2>5. /\ path \in Seq(Int \X Int) /\ Len(p) \in Nat /\ DOMAIN path = 1 .. Len(p) - 1
        /\ \A j \in 1 .. Len(p) - 1 : path[j] = p[j + 1]
    <3>1. path \in Seq(Int \X Int) /\ Len(p) \in Nat
      BY <2>3, <2>4
    <3>2. DOMAIN path = 1 .. Len(p) - 1
      BY <2>3, <2>4
    <3>3. \A j \in 1 .. Len(p) - 1 : path[j] = p[j + 1]
      BY <2>3, <2>4
    <3> QED
      BY <3>1, <3>2, <3>3
  <2>6. ASSUME NEW j \in DOMAIN path
        PROVE  isWalkable(path[j], room, blk) /\ Distance(path[j], IF j = 1 THEN start ELSE path[j - 1]) = 1
    <3>1. j + 1 \in 2 .. Len(p) /\ (j + 1) - 1 = j /\ path[j] = p[j + 1]
      <4>1. j \in 1 .. Len(p) - 1 /\ Len(p) \in Nat
        BY <2>5
      <4>2. j + 1 \in 2 .. Len(p) /\ (j + 1) - 1 = j
        BY <4>1
      <4> QED
        BY <2>5, <4>1, <4>2
    <3>2. isWalkable(p[j + 1], room, blk) /\ Distance(p[j + 1], p[j]) = 1
      BY <2>4, <3>1
    <3>3. p[j] = IF j = 1 THEN start ELSE path[j - 1]
      <4>1. CASE j = 1
        BY <2>4, <4>1
      <4>2. CASE j # 1
        <5> DEFINE i == j - 1
        <5>1. i \in 1 .. Len(p) - 1 /\ i + 1 = j
          <6>1. Len(p) \in Nat /\ j \in 1 .. Len(p) - 1
            BY <2>5
          <6> QED
            BY <4>2, <6>1
        <5>2. \A m \in 1 .. Len(p) - 1 : path[m] = p[m + 1]
          BY <2>5
        <5>3. path[i] = p[j]
          <6> HIDE DEF i
          <6> QED
            BY <5>1, <5>2
        <5> QED
          BY <4>2, <5>3
      <4> QED
        BY <4>1, <4>2
    <3> QED
      BY <3>1, <3>2, <3>3
  <2> QED
    BY <2>5, <2>6 DEF IsPath, path
<1> QED
  BY <1>8, <1>9
-----------------------------------------------------------------------------
(* A character is placed on a tile; it follows a path that the layout      *)
(* shown allows, if it walks; d stands where c stood and goes on as c did, *)
(* or on a path of its own; and d is c one frame later.                    *)
Placed(c) == c.tile \in Int \X Int /\ c.path \in Seq(Int \X Int)

Follows(c) ==
  c.state = "walk" => IsPath(c.path, c.tile, Layouts[layout], BlockedIn[layout] \ OwnSeat(c))

Turns(c, d) ==
  /\ Placed(d) /\ d.tile = c.tile
  /\ Follows(d) \/ (d.path = c.path /\ (Follows(c) => Follows(d)))

Advances(c, d) ==
  /\ Placed(d)
  /\ Follows(d) \/ (d.path \in {c.path, Tail(c.path)} /\ (Follows(c) => Follows(d)))

(* The tile d steps on is the first of the path of c.                      *)
Treads(c, d) == d.tile # c.tile => c.state = "walk" /\ c.path # <<>> /\ d.tile = c.path[1]

LEMMA StandsStill ==
  ASSUME NEW c, NEW d, Placed(c), d.tile = c.tile, d.path = c.path,
         d.state # "walk" \/ (d.state = c.state /\ d.seat = c.seat)
  PROVE  Turns(c, d)
BY DEF Turns, Placed, Follows, OwnSeat

LEMMA Stops ==
  ASSUME NEW c, NEW d, Placed(c), d.tile = c.tile, d.path = <<>>
  PROVE  Turns(c, d)
<1>1. Placed(d)
  <2>1. <<>> \in Seq(Int \X Int)
    OBVIOUS
  <2> QED
    BY <2>1 DEF Placed
<1>2. Follows(d)
  BY DEF Follows, IsPath
<1> QED
  BY <1>1, <1>2 DEF Turns

LEMMA TurnsTwice ==
  ASSUME NEW c, NEW d, NEW e, Turns(c, d), Turns(d, e)
  PROVE  Turns(c, e)
BY DEF Turns

LEMMA TurnsAdvances ==
  ASSUME NEW c, NEW d, NEW e, Turns(c, d), Turns(d, e) \/ Advances(d, e)
  PROVE  Advances(c, e)
BY DEF Turns, Advances

(* Furniture that blocks less leaves a path a path.                        *)
LEMMA PathsStay ==
  ASSUME NEW path, NEW start, NEW room, NEW blk, NEW less \in SUBSET blk, IsPath(path, start, room, blk)
  PROVE  IsPath(path, start, room, less)
BY DEF IsPath, isWalkable

(* What a character finds, with at least the layout's furniture in its     *)
(* way, is a path that the layout allows.                                  *)
LEMMA PathForFacts ==
  ASSUME layout \in DOMAIN Layouts, NEW c, c.tile \in Int \X Int, NEW end, NEW blk, BlockedIn[layout] \subseteq blk
  PROVE  /\ PathFor(c, end, blk) \in Seq(Int \X Int)
         /\ IsPath(PathFor(c, end, blk), c.tile, Layouts[layout], BlockedIn[layout] \ OwnSeat(c))
<1> DEFINE room == Layouts[layout]
           all == blk \ OwnSeat(c)
           less == BlockedIn[layout] \ OwnSeat(c)
           start == c.tile
           p == findPath(start, end, room, all)
<1>1. room.cols \in Nat /\ room.rows \in Nat /\ start \in Int \X Int
  BY LayoutsAreGrids
<1>2. less \in SUBSET all
  OBVIOUS
<1>3. PathFor(c, end, blk) = p
  BY DEF PathFor
<1> HIDE DEF room, all, less, start
<1>4. p \in Seq(Int \X Int) /\ IsPath(p, start, room, all)
  BY <1>1, FindPathFacts
<1> HIDE DEF p
<1>5. IsPath(p, start, room, less)
  BY <1>2, <1>4, PathsStay
<1> QED
  BY <1>3, <1>4, <1>5 DEF room, less, start

(* Who starts to walk follows the path it was given.                       *)
LEMMA WalkingTurns ==
  ASSUME NEW c, IsCharacter(c), NEW p \in Seq(Int \X Int), c.tile \in Int \X Int,
         IsPath(p, c.tile, Layouts[layout], BlockedIn[layout] \ OwnSeat(c))
  PROVE  Turns(c, Walking(c, p)) /\ Follows(Walking(c, p))
<1> DEFINE d == Walking(c, p)
<1>1. d.tile = c.tile /\ d.path = p /\ d.seat = c.seat /\ d.state = "walk"
  BY DEF Walking, IsCharacter, Fields
<1> HIDE DEF d
<1>2. OwnSeat(d) = OwnSeat(c)
  BY <1>1 DEF OwnSeat
<1>3. Follows(d)
  BY <1>1, <1>2 DEF Follows
<1> QED
  BY <1>1, <1>3 DEF Turns, Placed, d

LEMMA HeadForSeatTurns ==
  ASSUME layout \in DOMAIN Layouts, NEW blk, BlockedIn[layout] \subseteq blk,
         NEW c, IsCharacter(c), Placed(c)
  PROVE  /\ Turns(c, HeadForSeat(c, blk)) /\ Follows(HeadForSeat(c, blk))
<1> DEFINE path == PathFor(c, SeatTile(layout, c.seat), blk)
           down == [c EXCEPT !.state = "type", !.seatTimer = IF c.active THEN c.seatTimer ELSE 1]
<1>1. /\ path \in Seq(Int \X Int)
      /\ IsPath(path, c.tile, Layouts[layout], BlockedIn[layout] \ OwnSeat(c))
  BY PathForFacts DEF Placed
<1>2. HeadForSeat(c, blk) = IF path # <<>> THEN Walking(c, path) ELSE down
  BY DEF HeadForSeat
<1> HIDE DEF path
<1>3. down.tile = c.tile /\ down.path = c.path /\ down.state = "type"
  BY DEF IsCharacter, Fields
<1> HIDE DEF down
<1>4. Turns(c, down) /\ Follows(down)
  <2>1. "type" # "walk"
    OBVIOUS
  <2> QED
    BY <1>3, <2>1, StandsStill DEF Follows
<1>5. Turns(c, Walking(c, path)) /\ Follows(Walking(c, path))
  BY <1>1, WalkingTurns DEF Placed
<1> QED
  BY <1>2, <1>4, <1>5

(* One frame of a character: it stays, or treads on the next of its path.  *)
LEMMA StandAdvances ==
  ASSUME layout \in DOMAIN Layouts, NEW blk, BlockedIn[layout] \subseteq blk,
         NEW c, IsCharacter(c), Placed(c), NEW d \in Stand(c, blk)
  PROVE  Turns(c, d)
<1> DEFINE up == [c EXCEPT !.seatTimer = IF @ < 0 THEN 0 ELSE @]
           down == [up EXCEPT !.state = "type"]
<1>1. d = c \/ d = up \/ d = down \/ \E end : d = Walking(up, PathFor(c, end, blk))
  BY DEF Stand
<1>2. /\ IsCharacter(up) /\ up.tile = c.tile /\ up.path = c.path /\ up.state = c.state /\ up.seat = c.seat
      /\ down.tile = c.tile /\ down.path = c.path /\ down.state = "type"
  BY DEF IsCharacter, Fields
<1> HIDE DEF up, down
<1>3. Turns(c, c) /\ Turns(c, up)
  BY <1>2, StandsStill
<1>4. Turns(c, down)
  <2>1. "type" # "walk"
    OBVIOUS
  <2> QED
    BY <1>2, <2>1, StandsStill
<1>5. ASSUME NEW end PROVE Turns(c, Walking(up, PathFor(c, end, blk)))
  <2> DEFINE p == PathFor(c, end, blk)
  <2>1. p \in Seq(Int \X Int) /\ IsPath(p, c.tile, Layouts[layout], BlockedIn[layout] \ OwnSeat(c))
    BY PathForFacts DEF Placed
  <2> HIDE DEF p
  <2>2. OwnSeat(up) = OwnSeat(c)
    BY <1>2 DEF OwnSeat
  <2>3. Turns(up, Walking(up, p))
    BY <1>2, <2>1, <2>2, WalkingTurns DEF Placed
  <2> QED
    BY <1>3, <2>3, TurnsTwice DEF p
<1> QED
  BY <1>1, <1>3, <1>4, <1>5

LEMMA SitOnAdvances ==
  ASSUME NEW c, IsCharacter(c), Placed(c), NEW d \in SitOn(c)
  PROVE  Turns(c, d)
<1>1. d \in {c, [c EXCEPT !.seatTimer = -1], [c EXCEPT !.seatTimer = 0, !.state = "idle"]}
  BY DEF SitOn
<1>2. /\ d.tile = c.tile /\ d.path = c.path /\ d.seat = c.seat
      /\ d.state = c.state \/ d.state = "idle"
  BY <1>1 DEF IsCharacter, Fields
<1>3. "idle" # "walk"
  OBVIOUS
<1> QED
  BY <1>2, <1>3, StandsStill

LEMMA ArriveTurns ==
  ASSUME NEW c, IsCharacter(c), Placed(c)
  PROVE  Turns(c, Arrive(c))
<1> DEFINE d == Arrive(c)
<1>1. d.tile = c.tile /\ d.path = c.path /\ d.state \in {"type", "idle"}
  BY DEF Arrive, IsCharacter, Fields
<1> HIDE DEF d
<1>2. "type" # "walk" /\ "idle" # "walk"
  OBVIOUS
<1>3. Turns(c, d)
  BY <1>1, <1>2, StandsStill
<1> QED
  BY <1>3 DEF d

(* The rest of a path is a path from its first tile.                       *)
LEMMA PathGoesOn ==
  ASSUME NEW path \in Seq(Int \X Int), path # <<>>, NEW start, NEW room, NEW blk,
         IsPath(path, start, room, blk)
  PROVE  IsPath(Tail(path), Head(path), room, blk)
<1> DEFINE n == Len(path)
           q == Tail(path)
<1>1. /\ n \in Nat /\ n >= 1 /\ DOMAIN path = 1 .. n
      /\ DOMAIN q = 1 .. n - 1 /\ \A k \in 1 .. n - 1 : q[k] = path[k + 1]
  <2>1. n \in Nat /\ n >= 1 /\ DOMAIN path = 1 .. n
    OBVIOUS
  <2>2. DOMAIN q = 1 .. n - 1
    OBVIOUS
  <2>3. \A k \in 1 .. n - 1 : q[k] = path[k + 1]
    OBVIOUS
  <2> QED
    BY <2>1, <2>2, <2>3
<1>2. Head(path) = path[1]
  OBVIOUS
<1> HIDE DEF q
<1>3. ASSUME NEW k \in DOMAIN q
      PROVE  isWalkable(q[k], room, blk) /\ Distance(q[k], IF k = 1 THEN Head(path) ELSE q[k - 1]) = 1
  <2>1. k + 1 \in DOMAIN path /\ k + 1 # 1 /\ (k + 1) - 1 = k /\ q[k] = path[k + 1]
    <3>1. k \in 1 .. n - 1 /\ n \in Nat
      BY <1>1
    <3>2. k + 1 \in 1 .. n /\ k + 1 # 1 /\ (k + 1) - 1 = k
      BY <3>1
    <3> QED
      BY <1>1, <3>1, <3>2
  <2>2. isWalkable(path[k + 1], room, blk) /\ Distance(path[k + 1], path[k]) = 1
    BY <2>1 DEF IsPath
  <2>3. path[k] = IF k = 1 THEN Head(path) ELSE q[k - 1]
    <3>1. CASE k = 1
      BY <1>2, <3>1
    <3>2. CASE k # 1
      <4>1. k - 1 \in 1 .. n - 1 /\ (k - 1) + 1 = k
        BY <1>1, <3>2
      <4>2. q[k - 1] = path[(k - 1) + 1]
        BY <1>1, <4>1
      <4> QED
        BY <3>2, <4>1, <4>2
    <3> QED
      BY <3>1, <3>2
  <2> QED
    BY <2>1, <2>2, <2>3
<1> QED
  BY <1>3 DEF IsPath, q

LEMMA WalkAdvances ==
  ASSUME layout \in DOMAIN Layouts, NEW blk, BlockedIn[layout] \subseteq blk,
         NEW c, IsCharacter(c), Placed(c), c.state = "walk"
  PROVE  Advances(c, Walk(c, blk)) /\ Treads(c, Walk(c, blk))
<1> DEFINE step == [c EXCEPT !.moving = TRUE]
           there == [c EXCEPT !.tile = Head(c.path), !.path = Tail(c.path), !.moving = FALSE]
           on == IF ~c.moving THEN step ELSE there
           Home(end) == [on EXCEPT !.path = PathFor(on, end, blk), !.moving = FALSE]
           d == Walk(c, blk)
<1>1. CASE c.path = <<>>
  <2>1. d = Arrive(c)
    BY <1>1 DEF Walk
  <2> QED
    BY <2>1, ArriveTurns DEF Turns, Advances, Treads
<1>2. CASE c.path # <<>>
  <2>1. d = on \/ \E end : d = Home(end)
    BY <1>2 DEF Walk
  <2> DEFINE head == Head(c.path)
             tail == Tail(c.path)
  <2>2. head = c.path[1] /\ head \in Int \X Int /\ tail \in Seq(Int \X Int)
    BY <1>2 DEF Placed
  <2>3. /\ IsCharacter(step) /\ step.tile = c.tile /\ step.path = c.path
        /\ step.state = c.state /\ step.seat = c.seat
        /\ IsCharacter(there) /\ there.tile = head /\ there.path = tail
        /\ there.state = c.state /\ there.seat = c.seat
    BY DEF IsCharacter, Fields
  <2> HIDE DEF step, there, head, tail, d
  <2>4. Advances(c, step)
    BY <2>3, StandsStill DEF Turns, Advances
  <2>5. Follows(c) => Follows(there)
    <3> SUFFICES ASSUME Follows(c) PROVE Follows(there)
      OBVIOUS
    <3>1. IsPath(c.path, c.tile, Layouts[layout], BlockedIn[layout] \ OwnSeat(c))
      BY DEF Follows
    <3>2. IsPath(tail, head, Layouts[layout], BlockedIn[layout] \ OwnSeat(c))
      BY <1>2, <3>1, PathGoesOn DEF Placed, head, tail
    <3>3. OwnSeat(there) = OwnSeat(c)
      BY <2>3 DEF OwnSeat
    <3> QED
      BY <2>3, <3>2, <3>3 DEF Follows
  <2>6. Placed(there)
    BY <2>2, <2>3 DEF Placed
  <2>7. Advances(c, there)
    BY <2>3, <2>5, <2>6 DEF Advances, tail
  <2>8. /\ IsCharacter(on) /\ Placed(on) /\ Advances(c, on)
        /\ on.tile = c.tile \/ on.tile = c.path[1]
    BY <2>2, <2>3, <2>4, <2>6, <2>7 DEF Advances
  <2> HIDE DEF on
  <2>9. ASSUME NEW end PROVE Advances(c, Home(end)) /\ Home(end).tile = on.tile
    <3> DEFINE p == PathFor(on, end, blk)
               h == [on EXCEPT !.path = p, !.moving = FALSE]
    <3>1. p \in Seq(Int \X Int) /\ IsPath(p, on.tile, Layouts[layout], BlockedIn[layout] \ OwnSeat(on))
      BY <2>8, PathForFacts DEF Placed
    <3> HIDE DEF p
    <3>2. h.tile = on.tile /\ h.path = p /\ h.seat = on.seat
      BY <2>8 DEF IsCharacter, Fields
    <3>3. Home(end) = h
      BY DEF p
    <3> HIDE DEF h, Home
    <3>4. OwnSeat(h) = OwnSeat(on)
      BY <3>2 DEF OwnSeat
    <3>5. Placed(h) /\ Follows(h)
      BY <2>8, <3>1, <3>2, <3>4 DEF Placed, Follows
    <3> QED
      BY <3>2, <3>3, <3>5 DEF Advances
  <2> HIDE DEF Home
  <2>10. Advances(c, d) /\ (d.tile = c.tile \/ d.tile = c.path[1])
    BY <2>1, <2>8, <2>9
  <2> QED
    BY <1>2, <2>10 DEF Treads, d
<1> QED
  BY <1>1, <1>2

LEMMA StepAdvances ==
  ASSUME layout \in DOMAIN Layouts, NEW blk, BlockedIn[layout] \subseteq blk,
         NEW c, IsCharacter(c), Placed(c), NEW d \in Step(c, blk)
  PROVE  Advances(c, d) /\ Treads(c, d)
<1>1. CASE c.fx # "none"
  <2>1. \/ d = [c EXCEPT !.fxTimer = @ + 1]
        \/ d = [c EXCEPT !.fx = "none", !.fxTimer = 0]
        \/ d = [c EXCEPT !.fx = "gone"]
    BY <1>1 DEF Step
  <2>2. d.tile = c.tile /\ d.path = c.path /\ d.state = c.state /\ d.seat = c.seat
    BY <2>1 DEF IsCharacter, Fields
  <2> QED
    BY <2>2, StandsStill DEF Turns, Advances, Treads
<1>2. CASE c.fx = "none"
  <2>1. d \in updateCharacter(c, blk)
    BY <1>2 DEF Step
  <2>2. CASE c.state = "type"
    <3>1. Turns(c, d)
      BY <2>1, <2>2, SitOnAdvances DEF updateCharacter
    <3> QED
      BY <3>1 DEF Turns, Advances, Treads
  <2>3. CASE c.state = "idle"
    <3>1. d \in Stand(c, blk)
      BY <2>1, <2>3 DEF updateCharacter
    <3>2. Turns(c, d)
      BY <3>1, StandAdvances
    <3> QED
      BY <3>2 DEF Turns, Advances, Treads
  <2>4. CASE c.state = "walk"
    <3>1. d = Walk(c, blk)
      BY <2>1, <2>4 DEF updateCharacter
    <3> QED
      BY <2>4, <3>1, WalkAdvances
  <2> QED
    BY <2>2, <2>3, <2>4 DEF IsCharacter
<1> QED
  BY <1>1, <1>2

(* Games: players stop, stand up, or walk towards each other.              *)
LEMMA PlayOnTurns ==
  ASSUME NEW i \in DOMAIN ch, IsCharacter(ch[i]), Placed(ch[i])
  PROVE  Turns(ch[i], PlayOn(i))
<1> DEFINE c == ch[i]
           Plays(r) == [c EXCEPT !.rps = r]
           Rises(r) == [c EXCEPT !.rps = r, !.state = "idle"]
           Meets(r) == [c EXCEPT !.rps = r, !.path = <<>>, !.moving = FALSE, !.state = "idle"]
<1>1. \/ PlayOn(i) = c
      \/ \E r : PlayOn(i) = Plays(r)
      \/ \E r : PlayOn(i) = Rises(r)
      \/ \E r : PlayOn(i) = Meets(r)
  <2>1. CASE c.rps = None \/ c.fx # "none"
    BY <2>1 DEF PlayOn
  <2>2. CASE c.rps # None /\ c.fx = "none" /\ c.rps.opponent \notin DOMAIN ch
    BY <2>2 DEF PlayOn
  <2>3. CASE c.rps # None /\ c.fx = "none" /\ c.rps.opponent \in DOMAIN ch
    <3>1. c.rps.phase \in {"walk", "countdown", "reveal", "result"}
      BY <2>3 DEF IsCharacter, IsGame
    <3>2. CASE ~(c.rps.timer + 1 >= PhaseFrames[c.rps.phase])
      BY <2>3, <3>2 DEF PlayOn
    <3>3. CASE c.rps.timer + 1 >= PhaseFrames[c.rps.phase]
      <4>1. CASE c.rps.phase = "walk"
        BY <2>3, <3>3, <4>1 DEF PlayOn
      <4>2. CASE c.rps.phase = "countdown"
        BY <2>3, <3>3, <4>2 DEF PlayOn
      <4>3. CASE c.rps.phase = "reveal"
        BY <2>3, <3>3, <4>3 DEF PlayOn
      <4>4. CASE c.rps.phase = "result"
        BY <2>3, <3>3, <4>4 DEF PlayOn
      <4> QED
        BY <3>1, <4>1, <4>2, <4>3, <4>4
    <3> QED
      BY <3>2, <3>3
  <2> QED
    BY <2>1, <2>2, <2>3
<1>2. "idle" # "walk"
  OBVIOUS
<1>3. Turns(c, c)
  BY StandsStill
<1>4. ASSUME NEW r PROVE Turns(c, Plays(r))
  <2> DEFINE d == Plays(r)
  <2>1. d.tile = c.tile /\ d.path = c.path /\ d.state = c.state /\ d.seat = c.seat
    BY DEF IsCharacter, Fields
  <2> HIDE DEF d
  <2> QED
    BY <2>1, StandsStill DEF d
<1>5. ASSUME NEW r PROVE Turns(c, Rises(r))
  <2> DEFINE d == Rises(r)
  <2>1. d.tile = c.tile /\ d.path = c.path /\ d.state = "idle"
    BY DEF IsCharacter, Fields
  <2> HIDE DEF d
  <2> QED
    BY <1>2, <2>1, StandsStill DEF d
<1>6. ASSUME NEW r PROVE Turns(c, Meets(r))
  <2> DEFINE d == Meets(r)
  <2>1. d.tile = c.tile /\ d.path = <<>>
    BY DEF IsCharacter, Fields
  <2> HIDE DEF d
  <2> QED
    BY <2>1, Stops DEF d
<1> HIDE DEF Plays, Rises, Meets
<1> QED
  BY <1>1, <1>3, <1>4, <1>5, <1>6

LEMMA GamesTurn ==
  ASSUME layout \in DOMAIN Layouts, BlockedIn[layout] \subseteq blocked, People(ch),
         \A i \in DOMAIN ch : Placed(ch[i]), NEW m \in Games([i \in DOMAIN ch |-> PlayOn(i)])
  PROVE  \A i \in DOMAIN ch : Turns(ch[i], m[i])
<1> DEFINE n == [i \in DOMAIN ch |-> PlayOn(i)]
<1>1. DOMAIN n = DOMAIN ch /\ \A i \in DOMAIN ch : Turns(ch[i], n[i]) /\ IsCharacter(n[i])
  BY PlayOnTurns, PlayOnSimilar DEF People, Similar
<1>2. m \in Games(n)
  OBVIOUS
<1> HIDE DEF n
<1>3. m = n \/ \E i, j \in Eligible(n) : \E hand : i # j /\ m = startRps(n, i, j, hand)
  BY <1>2, GamesForms
<1>4. ASSUME NEW i \in Eligible(n), NEW j \in Eligible(n), NEW hand, m = startRps(n, i, j, hand)
      PROVE  \A k \in DOMAIN ch : Turns(n[k], m[k])
  <2>1. i \in DOMAIN ch /\ j \in DOMAIN ch
    BY <1>1 DEF Eligible
  <2> DEFINE C(k, foe) == [n[k] EXCEPT !.seatTimer = 0, !.state = "idle",
                             !.rps = [opponent |-> foe, phase |-> "walk", timer |-> 0,
                                      hand |-> hand[k], result |-> None]]
             Joins(k, foe, d) ==
               d = C(k, foe) \/ \E end, blk : /\ blocked \subseteq blk
                                              /\ d = Walking(C(k, foe), PathFor(C(k, foe), end, blk))
  <2>2. ASSUME NEW k \in DOMAIN ch, NEW foe, NEW d, Joins(k, foe, d)
        PROVE  Turns(n[k], d)
    <3> DEFINE c == C(k, foe)
    <3>1. IsCharacter(n[k]) /\ Placed(n[k])
      BY <1>1 DEF Turns
    <3>2. IsCharacter(c) /\ c.tile = n[k].tile /\ c.path = n[k].path /\ c.state = "idle"
      BY <3>1 DEF IsCharacter, IsGame, Fields
    <3> HIDE DEF C
    <3>3. Turns(n[k], c)
      <4>1. "idle" # "walk"
        OBVIOUS
      <4> QED
        BY <3>1, <3>2, <4>1, StandsStill
    <3>4. ASSUME NEW end, NEW blk, blocked \subseteq blk
          PROVE  Turns(n[k], Walking(c, PathFor(c, end, blk)))
      <4> DEFINE p == PathFor(c, end, blk)
      <4> HIDE DEF c
      <4>1. c.tile \in Int \X Int
        BY <3>1, <3>2 DEF Placed
      <4>2. p \in Seq(Int \X Int) /\ IsPath(p, c.tile, Layouts[layout], BlockedIn[layout] \ OwnSeat(c))
        BY <3>4, <4>1, PathForFacts
      <4> HIDE DEF p
      <4>3. Turns(c, Walking(c, p))
        BY <3>2, <4>1, <4>2, WalkingTurns
      <4> QED
        BY <3>3, <4>3, TurnsTwice DEF p
    <3> QED
      BY <2>2, <3>3, <3>4
  <2>3. \E d, e : Joins(i, j, d) /\ Joins(j, i, e) /\ m = [n EXCEPT ![i] = d, ![j] = e]
    BY <1>4 DEF startRps
  <2> HIDE DEF Joins
  <2>4. PICK d, e : Joins(i, j, d) /\ Joins(j, i, e) /\ m = [n EXCEPT ![i] = d, ![j] = e]
    BY <2>3
  <2>5. \A k \in DOMAIN ch : Turns(n[k], n[k])
    BY <1>1, StandsStill DEF Turns
  <2>6. \A k \in DOMAIN ch : m[k] = IF k = j THEN e ELSE IF k = i THEN d ELSE n[k]
    BY <1>1, <2>1, <2>4
  <2>7. Turns(n[i], d) /\ Turns(n[j], e)
    BY <2>1, <2>2, <2>4
  <2> QED
    BY <2>5, <2>6, <2>7
<1> QED
  BY <1>1, <1>3, <1>4, TurnsTwice
-----------------------------------------------------------------------------
(* Everybody is on a tile, and follows a path that the layout allows but   *)
(* for those whose path is older than the layout.  What the layout blocks  *)
(* stays blocked: the code takes a seat out while its owner looks for a    *)
(* path and puts it back.                                                  *)
Roads ==
  /\ edits \in Nat
  /\ BlockedIn[layout] \subseteq blocked
  /\ \A i \in DOMAIN ch : Placed(ch[i])
  /\ \A i \in DOMAIN ch \ stale : Follows(ch[i])

(* The layout stays, and with it where everybody stands.                   *)
Stayed ==
  /\ UNCHANGED <<layout, edits>> /\ blocked \subseteq blocked'
  /\ stale' \in {stale, StaleAfter(ch')}
  /\ \A i \in DOMAIN ch \cap DOMAIN ch' : Turns(ch[i], ch'[i])
  /\ \A i \in DOMAIN ch' \ DOMAIN ch : Lands(ch'[i])

(* Everybody goes on for a frame, a tile at most.                          *)
Went ==
  /\ UNCHANGED <<layout, edits>> /\ blocked \subseteq blocked'
  /\ stale' \in {stale, StaleAfter(ch')}
  /\ DOMAIN ch' \subseteq DOMAIN ch
  /\ \A i \in DOMAIN ch' : /\ Advances(ch[i], ch'[i])
                           /\ \E c : /\ Turns(ch[i], c) /\ Treads(c, ch'[i])
                                     /\ c.seat = ch[i].seat

(* Another layout, in which every path is stale.                           *)
Reshaped ==
  /\ layout' \in DOMAIN Layouts /\ blocked' = BlockedIn[layout']
  /\ stale' = {i \in DOMAIN ch : ch'[i].path # <<>>}
  /\ \A i \in DOMAIN ch' : IF i \in DOMAIN ch THEN Placed(ch'[i]) ELSE Lands(ch'[i])
  /\ edits' = edits + 1 \/ (edits' = edits /\ ready' # ready)

LEMMA LandsPlaced ==
  ASSUME NEW c, Lands(c)
  PROVE  Placed(c) /\ Follows(c)
<1>1. <<>> \in Seq(Int \X Int)
  OBVIOUS
<1> QED
  BY <1>1 DEF Lands, Placed, Follows, IsPath

LEMMA RoadsGoOn ==
  ASSUME Roads, Stayed \/ Went
  PROVE  Roads'
<1>1. /\ UNCHANGED <<layout, edits>> /\ blocked \subseteq blocked'
      /\ stale' \in {stale, StaleAfter(ch')}
      /\ \A i \in DOMAIN ch \cap DOMAIN ch' : Advances(ch[i], ch'[i])
      /\ \A i \in DOMAIN ch' \ DOMAIN ch : Lands(ch'[i])
  BY DEF Stayed, Went, Turns, Advances
<1>2. ASSUME NEW i \in DOMAIN ch'
      PROVE  Placed(ch'[i]) /\ (i \notin stale' => Follows(ch'[i]))
  <2>1. CASE i \notin DOMAIN ch
    BY <1>1, <2>1, LandsPlaced
  <2>2. CASE i \in DOMAIN ch
    <3>1. Advances(ch[i], ch'[i])
      BY <1>1, <2>2
    <3>2. ASSUME i \notin stale' PROVE Follows(ch'[i])
      <4>1. CASE i \notin stale
        BY <2>2, <3>1, <4>1 DEF Roads, Advances
      <4>2. CASE i \in stale
        <5>1. stale' = StaleAfter(ch')
          BY <1>1, <3>2, <4>2
        <5>2. ch'[i].path = <<>> \/ ch'[i].path \notin {ch[i].path, Tail(ch[i].path)}
          BY <3>2, <4>2, <5>1 DEF StaleAfter
        <5>3. ch'[i].path = <<>> => Follows(ch'[i])
          BY DEF Follows, IsPath
        <5> QED
          BY <3>1, <5>2, <5>3 DEF Advances
      <4> QED
        BY <4>1, <4>2
    <3> QED
      BY <3>1, <3>2 DEF Advances
  <2> QED
    BY <2>1, <2>2
<1>3. \A i \in DOMAIN ch' \ stale' : Follows(ch[i])'
  BY <1>1, <1>2 DEF Follows, OwnSeat
<1>4. \A i \in DOMAIN ch' : Placed(ch'[i])
  BY <1>2
<1> QED
  BY <1>1, <1>3, <1>4 DEF Roads, Placed

LEMMA RoadsReshaped ==
  ASSUME Roads, Reshaped
  PROVE  Roads'
<1>1. \A i \in DOMAIN ch' : Placed(ch'[i])
  BY LandsPlaced DEF Reshaped
<1>2. ASSUME NEW i \in DOMAIN ch' \ stale' PROVE ch'[i].path = <<>>
  <2>1. CASE i \in DOMAIN ch
    BY <1>2, <2>1 DEF Reshaped
  <2>2. CASE i \notin DOMAIN ch
    BY <1>2, <2>2 DEF Reshaped, Lands
  <2> QED
    BY <2>1, <2>2
<1>3. \A i \in DOMAIN ch' \ stale' : Follows(ch[i])'
  BY <1>2 DEF Follows, IsPath
<1>4. BlockedIn[layout'] \subseteq blocked' /\ edits' \in Nat
  BY DEF Reshaped, Roads
<1> QED
  BY <1>1, <1>3, <1>4 DEF Roads, Placed

(* A new layout puts everybody on a tile.                                  *)
LEMMA RebuiltPlaced ==
  ASSUME People(ch), InOrder(order, ch), \A i \in DOMAIN ch : Placed(ch[i]),
         NEW to \in DOMAIN Layouts, NEW shift \in Int \X Int, NEW new \in rebuildFromLayout(to, shift)
  PROVE  \A i \in DOMAIN ch : Placed(new[i])
<1> DEFINE seat == NewSeats(to)
           floor == WalkableIn[to]
           Shifted(c) == IF shift = <<0, 0>> THEN c
                         ELSE [c EXCEPT !.tile = Plus(@, shift), !.path = <<>>, !.moving = FALSE]
           Seated(i) == IF seat[i] = None THEN [Shifted(ch[i]) EXCEPT !.seat = None]
                        ELSE [Shifted(ch[i]) EXCEPT !.seat = seat[i], !.tile = SeatTile(to, seat[i])]
           lost == IF floor = <<>> THEN {}
                   ELSE {i \in DOMAIN ch : seat[i] = None /\ Seated(i).tile \notin Grid(Layouts[to])}
           Put(i, t) == [Seated(i) EXCEPT !.tile = t, !.path = <<>>, !.moving = FALSE]
<1>1. PICK spot \in [lost -> Range(floor)] :
        new = [i \in DOMAIN ch |-> IF i \in lost THEN Put(i, spot[i]) ELSE Seated(i)]
  BY DEF rebuildFromLayout
<1>2. Range(floor) \subseteq Int \X Int
  <2>1. floor \in Seq(Int \X Int)
    BY TilesFacts
  <2> HIDE DEF floor
  <2> QED
    BY <2>1 DEF Range
<1>3. \A i \in DOMAIN ch : seat[i] # None => SeatTile(to, seat[i]) \in Int \X Int
  BY NewSeatsFacts, TilesFacts
<1> HIDE DEF seat, floor
<1>4. ASSUME NEW i \in DOMAIN ch PROVE Placed(new[i])
  <2> DEFINE c == ch[i]
  <2>1. IsCharacter(c) /\ Placed(c) /\ <<>> \in Seq(Int \X Int)
    BY DEF People
  <2>2. Plus(c.tile, shift) \in Int \X Int
    BY <2>1 DEF Plus, Placed
  <2> DEFINE e == Shifted(c)
             f == Seated(i)
             g(t) == Put(i, t)
  <2>3. DOMAIN e = Fields /\ Placed(e)
    BY <2>1, <2>2 DEF IsCharacter, Fields, Placed
  <2>4. f = IF seat[i] = None THEN [e EXCEPT !.seat = None]
            ELSE [e EXCEPT !.seat = seat[i], !.tile = SeatTile(to, seat[i])]
    OBVIOUS
  <2> HIDE DEF e, Seated, Shifted
  <2>5. DOMAIN f = Fields /\ Placed(f)
    BY <1>3, <2>3, <2>4 DEF Fields, Placed
  <2>6. \A t \in Int \X Int : Placed(g(t))
    <3> HIDE DEF f
    <3>1. \A t : g(t) = [f EXCEPT !.tile = t, !.path = <<>>, !.moving = FALSE]
      BY DEF f
    <3> QED
      BY <2>1, <2>5, <3>1 DEF Fields, Placed
  <2>7. new[i] = f \/ \E t \in Int \X Int : new[i] = g(t)
    <3> HIDE DEF Put, lost
    <3> QED
      BY <1>1, <1>2
  <2> HIDE DEF Put, f
  <2> QED
    BY <2>5, <2>6, <2>7
<1> QED
  BY <1>4

(* What the messages and the clicks make of one character.                 *)
LEMMA SetActiveTurns ==
  ASSUME People(ch), \A i \in DOMAIN ch : Placed(ch[i]), NEW a, NEW active \in BOOLEAN
  PROVE  \A i \in DOMAIN ch : Turns(ch[i], setAgentActive(a, active)[i])
<1> DEFINE m == setAgentActive(a, active)
           foe == IF active /\ ch[a].rps # None THEN {a, ch[a].rps.opponent} ELSE {}
           quit == [j \in DOMAIN ch |-> IF j \in foe THEN [ch[j] EXCEPT !.rps = None] ELSE ch[j]]
<1>1. CASE a \notin DOMAIN ch
  BY <1>1, StandsStill DEF setAgentActive
<1>2. CASE a \in DOMAIN ch
  <2>1. m = IF active THEN [quit EXCEPT ![a].active = TRUE]
            ELSE [quit EXCEPT ![a].active = FALSE, ![a].seatTimer = -1,
                              ![a].path = <<>>, ![a].moving = FALSE]
    BY <1>2 DEF setAgentActive
  <2>2. DOMAIN quit = DOMAIN ch
    OBVIOUS
  <2>3. \A j \in DOMAIN ch :
          /\ DOMAIN quit[j] = Fields
          /\ quit[j].tile = ch[j].tile /\ quit[j].path = ch[j].path
          /\ quit[j].state = ch[j].state /\ quit[j].seat = ch[j].seat
    BY DEF People, IsCharacter, Fields
  <2> HIDE DEF quit, foe
  <2> DEFINE on == [quit[a] EXCEPT !.active = TRUE]
             off == [quit[a] EXCEPT !.active = FALSE, !.seatTimer = -1, !.path = <<>>, !.moving = FALSE]
  <2>4. m = [quit EXCEPT ![a] = IF active THEN on ELSE off]
    BY <2>1
  <2>5. /\ on.tile = ch[a].tile /\ on.path = ch[a].path
        /\ on.state = ch[a].state /\ on.seat = ch[a].seat
        /\ off.tile = ch[a].tile /\ off.path = <<>>
    BY <1>2, <2>3 DEF Fields
  <2> HIDE DEF on, off, m
  <2>6. \A j \in DOMAIN ch : m[j] = IF j = a THEN IF active THEN on ELSE off ELSE quit[j]
    BY <1>2, <2>2, <2>4
  <2>7. Turns(ch[a], on) /\ Turns(ch[a], off)
    BY <1>2, <2>5, StandsStill, Stops
  <2>8. \A j \in DOMAIN ch : Turns(ch[j], quit[j])
    BY <2>3, StandsStill
  <2> QED
    BY <2>6, <2>7, <2>8 DEF m
<1> QED
  BY <1>1, <1>2

LEMMA VanishTurns ==
  ASSUME People(ch), \A i \in DOMAIN ch : Placed(ch[i]), NEW S
  PROVE  \A i \in DOMAIN ch : Turns(ch[i], Vanish(S)[i])
<1> SUFFICES ASSUME NEW i \in DOMAIN ch PROVE Turns(ch[i], Vanish(S)[i])
  OBVIOUS
<1> DEFINE c == ch[i]
           d == Vanish(S)[i]
<1>1. d = c \/ d = [c EXCEPT !.fx = "despawn", !.fxTimer = 0]
  BY DEF Vanish
<1>2. IsCharacter(c)
  BY DEF People
<1>3. d.tile = c.tile /\ d.path = c.path /\ d.state = c.state /\ d.seat = c.seat
  BY <1>1, <1>2 DEF IsCharacter, Fields
<1> QED
  BY <1>3, StandsStill

(* One character changes, the others stay as they are.                     *)
LEMMA OneTurns ==
  ASSUME \A i \in DOMAIN ch : Placed(ch[i]), NEW j \in DOMAIN ch, NEW d, Turns(ch[j], d),
         NEW m, m = [ch EXCEPT ![j] = d]
  PROVE  DOMAIN m = DOMAIN ch /\ \A i \in DOMAIN ch : Turns(ch[i], m[i])
<1>1. \A i \in DOMAIN ch : m[i] = IF i = j THEN d ELSE ch[i]
  OBVIOUS
<1>2. \A i \in DOMAIN ch : Turns(ch[i], ch[i])
  BY StandsStill
<1> QED
  BY <1>1, <1>2

LEMMA ClicksTurn ==
  ASSUME IInv, Roads, NEW t, ClickTile(t) \/ WalkToTile(t)
  PROVE  Stayed
<1> DEFINE c == ch[selected]
           uid == Among(SeatsIn[layout], {s \in Range(SeatsIn[layout]) : s.at = t})[1].uid
           seated == [c EXCEPT !.seat = uid]
           p == HeadForSeat(c, blocked)
           q == HeadForSeat(seated, blocked)
           w == Walking(c, PathFor(c, t, blocked))
<1>1. /\ selected # None /\ UNCHANGED <<layout, edits>> /\ blocked \subseteq blocked'
      /\ \/ UNCHANGED <<ch, stale>>
         \/ /\ stale' = StaleAfter(ch')
            /\ \E d \in {p, q, w} : ch' = [ch EXCEPT ![selected] = d]
  <2>1. CASE ClickTile(t)
    BY <2>1 DEF ClickTile, Move, Blocking
  <2>2. CASE WalkToTile(t)
    BY <2>2 DEF WalkToTile, Move, Blocking
  <2> QED
    BY <2>1, <2>2
<1>2. selected \in DOMAIN ch /\ IsCharacter(c)
  BY <1>1, SelectedIsThere
<1>3. layout \in DOMAIN Layouts /\ BlockedIn[layout] \subseteq blocked /\ \A i \in DOMAIN ch : Placed(ch[i])
  BY DEF IInv, FloorOK, Roads
<1> HIDE DEF uid
<1>4. IsCharacter(seated) /\ seated.tile = c.tile /\ seated.path = c.path
  BY <1>2 DEF IsCharacter, Fields
<1>5. Placed(c)
  BY <1>2, <1>3
<1> HIDE DEF seated, c
<1>6. Turns(c, p)
  BY <1>2, <1>3, <1>5, HeadForSeatTurns
<1>7. Turns(c, q)
  <2>1. Placed(seated)
    BY <1>4, <1>5 DEF Placed
  <2>2. Turns(seated, q) /\ Follows(q)
    BY <1>3, <1>4, <2>1, HeadForSeatTurns
  <2> QED
    BY <1>4, <2>2 DEF Turns
<1>8. Turns(c, w)
  <2> DEFINE path == PathFor(c, t, blocked)
  <2>1. path \in Seq(Int \X Int) /\ IsPath(path, c.tile, Layouts[layout], BlockedIn[layout] \ OwnSeat(c))
    BY <1>3, <1>5, PathForFacts DEF Placed
  <2> HIDE DEF path
  <2>2. Turns(c, Walking(c, path))
    BY <1>2, <1>5, <2>1, WalkingTurns DEF Placed
  <2> QED
    BY <2>2 DEF path
<1> HIDE DEF p, q, w
<1>9. DOMAIN ch' = DOMAIN ch /\ \A i \in DOMAIN ch : Turns(ch[i], ch'[i])
  <2>1. CASE UNCHANGED <<ch, stale>>
    BY <1>3, <2>1, StandsStill
  <2>2. ASSUME NEW d \in {p, q, w}, ch' = [ch EXCEPT ![selected] = d]
        PROVE  DOMAIN ch' = DOMAIN ch /\ \A i \in DOMAIN ch : Turns(ch[i], ch'[i])
    <3>1. Turns(ch[selected], d)
      BY <1>6, <1>7, <1>8 DEF c
    <3> QED
      BY <1>2, <1>3, <2>2, <3>1, OneTurns
  <2> QED
    BY <1>1, <2>1, <2>2
<1> QED
  BY <1>1, <1>9 DEF Stayed

LEMMA NewcomersTurn ==
  ASSUME IInv, Roads
  PROVE  /\ \A a \in Agents : AgentCreated(a) => Stayed
         /\ \A a \in Agents, tool \in Tools : SubtaskStart(a, tool) => Stayed
<1>1. /\ layout \in DOMAIN Layouts /\ People(ch) /\ \A i \in DOMAIN ch : Placed(ch[i])
      /\ DOMAIN ch \subseteq Used /\ nextSubagentId \in Int /\ nextSubagentId < 0
  BY DEF IInv, FloorOK, Roads
<1>2. ASSUME NEW a \in Agents, AgentCreated(a) PROVE Stayed
  <2> DEFINE new == [id |-> a, seat |-> None, fx |-> "spawn"]
             now == [order |-> order, ch |-> ch, assigned |-> assigned]
  <2>1. PICK s \in AddOne(new, now, layout) : ch' = s.ch /\ stale' = StaleAfter(ch')
    BY <1>2 DEF AgentCreated, Move
  <2>2. UNCHANGED <<layout, edits, blocked>>
    BY <1>2 DEF AgentCreated, bounds
  <2>3. new.fx = "spawn" /\ now.ch = ch
    OBVIOUS
  <2> HIDE DEF new, now
  <2>4. IF new.id \in DOMAIN now.ch THEN s = now
        ELSE Newcomer(now.order, now.ch, now.assigned, new.id, new.fx, layout, s.order, s.ch, s.assigned)
    BY <1>1, <2>1, <2>3, AddOneFacts
  <2>5. /\ \A i \in DOMAIN ch : ch'[i] = ch[i]
        /\ \A i \in DOMAIN ch' \ DOMAIN ch : Lands(ch'[i])
    BY <2>1, <2>3, <2>4 DEF Newcomer
  <2>6. \A i \in DOMAIN ch : Turns(ch[i], ch'[i])
    BY <1>1, <2>5, StandsStill
  <2> QED
    BY <2>1, <2>2, <2>5, <2>6 DEF Stayed
<1>3. ASSUME NEW a \in Agents, NEW tool \in Tools, SubtaskStart(a, tool) PROVE Stayed
  <2> DEFINE m == setAgentActive(a, TRUE)
             id == nextSubagentId
  <2>1. addSubagent(a, tool, m) /\ UNCHANGED <<layout, edits, blocked>>
    BY <1>3 DEF SubtaskStart, bounds
  <2>2. DOMAIN m = DOMAIN ch /\ \A i \in DOMAIN ch : Turns(ch[i], m[i])
    BY <1>1, SetAgentActiveFacts, SetActiveTurns
  <2>3. id \notin DOMAIN ch
    BY <1>1, AgentIds DEF Used
  <2> HIDE DEF m
  <2>4. Newcomer(order, m, assigned, id, "spawn", layout, order', ch', assigned')
    BY <1>1, <2>1, <2>2, <2>3, AddSubagentFacts
  <2>5. /\ \A i \in DOMAIN ch : ch'[i] = m[i]
        /\ \A i \in DOMAIN ch' \ DOMAIN ch : Lands(ch'[i])
    BY <2>2, <2>4 DEF Newcomer
  <2>6. stale' = StaleAfter(ch')
    BY <2>1 DEF addSubagent, Move
  <2> QED
    BY <2>1, <2>2, <2>5, <2>6 DEF Stayed
<1> QED
  BY <1>2, <1>3

(* A layout that is loaded or edited; the first one may be the default,    *)
(* which is shown already.                                                 *)
LEMMA LayoutsReshape ==
  ASSUME IInv, Roads
  PROVE  /\ \A e \in Edits : EditLayout(e) => Reshaped
         /\ \A to \in DOMAIN Layouts \cup {None} : FirstLayout(to) => Stayed \/ Reshaped
<1>1. /\ layout \in DOMAIN Layouts /\ People(ch) /\ InOrder(order, ch)
      /\ pending \in Seq(Agents \ unborn) /\ \A i \in DOMAIN ch : Placed(ch[i])
  BY DEF IInv, FloorOK, PanelOK, Roads
<1>2. ASSUME NEW e \in Edits, EditLayout(e) PROVE Reshaped
  <2>1. PICK new \in rebuildFromLayout(e.to, e.shift) : ch' = new /\ Rebuilt(e.to, new) /\ edits' = edits + 1
    BY <1>2 DEF EditLayout
  <2>2. e.to \in DOMAIN Layouts /\ e.shift \in Int \X Int
    BY LayoutsNamed
  <2>3. DOMAIN new = DOMAIN ch /\ \A i \in DOMAIN ch : Placed(new[i])
    BY <1>1, <2>2, RebuiltFacts, RebuiltPlaced
  <2> QED
    BY <2>1, <2>2, <2>3 DEF Reshaped, Rebuilt
<1>3. ASSUME NEW to \in DOMAIN Layouts \cup {None}, FirstLayout(to) PROVE Stayed \/ Reshaped
  <2> DEFINE l == IF to = None THEN layout ELSE to
             N == Len(pending)
             back == [n \in DOMAIN pending |-> [id |-> pending[n], seat |-> SavedSeat[pending[n]], fx |-> "none"]]
             Then(new) == [order |-> order, ch |-> new,
                           assigned |-> IF to = None THEN assigned ELSE SeatsTaken(new)]
  <2>1. PICK new \in IF to = None THEN {ch} ELSE rebuildFromLayout(to, <<0, 0>>) :
          /\ \E s \in Added(back, Then(new), l) : ch' = s.ch
          /\ IF to = None THEN UNCHANGED <<layout, blocked, haunted, stale>> ELSE Rebuilt(to, new)
    BY <1>3 DEF FirstLayout
  <2>2. PICK s \in Added(back, Then(new), l) : ch' = s.ch
    BY <2>1
  <2>3. UNCHANGED edits /\ ready' # ready
    BY <1>3 DEF FirstLayout, bounds
  <2>4. /\ InOrder(order, new) /\ People(new) /\ DOMAIN new = DOMAIN ch
        /\ \A i \in DOMAIN ch : Placed(new[i])
    <3>1. CASE to = None
      BY <1>1, <2>1, <3>1
    <3>2. CASE to # None
      <4>1. new \in rebuildFromLayout(to, <<0, 0>>) /\ to \in DOMAIN Layouts
        BY <2>1, <3>2
      <4>2. <<0, 0>> \in Int \X Int
        OBVIOUS
      <4> QED
        BY <1>1, <4>1, <4>2, RebuiltFacts, RebuiltPlaced
    <3> QED
      BY <3>1, <3>2
  <2> DEFINE b == Then(new)
  <2>5. b.order = order /\ b.ch = new
    OBVIOUS
  <2>6. N \in Nat /\ DOMAIN back = 1 .. N /\ Len(back) = N /\ \A n \in 1 .. N : back[n].fx = "none"
    BY <1>1
  <2>7. l \in DOMAIN Layouts /\ s \in Added(back, b, l)
    BY <1>1, <2>2
  <2> HIDE DEF back, N, b, l, Then
  <2>8. /\ \A i \in DOMAIN b.ch : s.ch[i] = b.ch[i]
        /\ \A i \in DOMAIN s.ch \ DOMAIN b.ch : s.ch[i].fx = "none" /\ s.ch[i].rps = None /\ Lands(s.ch[i])
        /\ DOMAIN s.ch = DOMAIN b.ch \cup {back[n].id : n \in 1 .. N}
    BY <2>4, <2>5, <2>6, <2>7, AddedFacts
  <2>9. /\ \A i \in DOMAIN ch : ch'[i] = new[i]
        /\ \A i \in DOMAIN ch' \ DOMAIN ch : Lands(ch'[i])
        /\ DOMAIN ch \subseteq DOMAIN ch'
    BY <2>2, <2>4, <2>5, <2>8
  <2>10. CASE to = None
    <3>1. new = ch /\ UNCHANGED <<layout, blocked, stale>>
      BY <2>1, <2>10
    <3>2. \A i \in DOMAIN ch : Turns(ch[i], ch'[i])
      BY <1>1, <2>9, <3>1, StandsStill
    <3> QED
      BY <2>3, <2>9, <3>1, <3>2 DEF Stayed
  <2>11. CASE to # None
    <3>1. to \in DOMAIN Layouts /\ Rebuilt(to, new)
      BY <2>1, <2>11
    <3> QED
      BY <2>3, <2>4, <2>9, <3>1 DEF Reshaped, Rebuilt
  <2> QED
    BY <2>10, <2>11
<1> QED
  BY <1>2, <1>3

(* A frame is a turn, for those in a game, and then a step.                *)
LEMMA FrameGoes ==
  ASSUME IInv, Roads, Frame
  PROVE  Went
<1>1. /\ layout \in DOMAIN Layouts /\ People(ch) /\ InOrder(order, ch)
      /\ BlockedIn[layout] \subseteq blocked /\ \A i \in DOMAIN ch : Placed(ch[i])
  BY DEF IInv, FloorOK, Roads
<1>9. PICK m \in Games([i \in DOMAIN ch |-> PlayOn(i)]) : \E s \in Steps(m) :
        /\ Move([i \in Range(Staying) |-> s[CHOOSE k \in DOMAIN order : order[k] = i]])
        /\ blocked' = BlockedFor(Len(order) + 1, m)
  BY DEF Frame
<1>2. PICK s \in Steps(m) :
        /\ Move([i \in Range(Staying) |-> s[CHOOSE k \in DOMAIN order : order[k] = i]])
        /\ blocked' = BlockedFor(Len(order) + 1, m)
  BY <1>9
<1>3. /\ UNCHANGED <<layout, edits>> /\ blocked \subseteq blocked'
      /\ stale' = StaleAfter(ch')
  BY <1>2 DEF Frame, bounds, Move, BlockedFor
<1>4. ch' = [i \in Range(Staying) |-> s[CHOOSE k \in DOMAIN order : order[k] = i]]
  BY <1>2 DEF Move
<1>5. DOMAIN ch' \subseteq DOMAIN ch
  BY <1>1, <1>4, FrameFacts
<1>6. \A i \in DOMAIN ch : Similar(ch[i], m[i]) /\ Turns(ch[i], m[i])
  BY <1>1, GamesSimilar, GamesTurn DEF People
<1>7. /\ order \in Seq(DOMAIN ch)
      /\ \A i \in DOMAIN ch : \E k \in DOMAIN order : order[k] = i
  BY <1>1 DEF InOrder
<1>8. ASSUME NEW i \in DOMAIN ch'
      PROVE  /\ Advances(ch[i], ch'[i])
             /\ \E c : Turns(ch[i], c) /\ Treads(c, ch'[i]) /\ c.seat = ch[i].seat
  <2> DEFINE k == CHOOSE x \in DOMAIN order : order[x] = i
             blk == BlockedFor(k, m)
             c == m[i]
             d == ch'[i]
  <2>1. k \in DOMAIN order /\ order[k] = i
    BY <1>5, <1>7
  <2>2. d \in Step(m[order[k]], blk)
    <3>1. d = s[k]
      BY <1>4
    <3> QED
      BY <1>7, <2>1, <3>1, StepsFacts
  <2>3. BlockedIn[layout] \subseteq blk
    BY <1>1 DEF BlockedFor
  <2>4. IsCharacter(c) /\ Turns(ch[i], c) /\ Placed(c) /\ c.seat = ch[i].seat
    BY <1>5, <1>6 DEF Similar, Turns
  <2>5. d \in Step(c, blk)
    BY <2>1, <2>2
  <2> HIDE DEF k, blk, c, d
  <2>6. Advances(c, d) /\ Treads(c, d)
    BY <1>1, <2>3, <2>4, <2>5, StepAdvances
  <2>7. Advances(ch[i], d)
    BY <2>4, <2>6, TurnsAdvances
  <2> QED
    BY <2>4, <2>6, <2>7 DEF d
<1> QED
  BY <1>3, <1>5, <1>8 DEF Went

LEMMA DistanceIsSymmetric ==
  ASSUME NEW s \in Int \X Int, NEW t \in Int \X Int
  PROVE  Distance(s, t) = Distance(t, s)
BY DEF Distance, Abs

(* Every step is of one of the three kinds.                                *)
LEMMA KindsOfSteps ==
  ASSUME IInv, Roads, [Next]_vars
  PROVE  Stayed \/ Went \/ Reshaped
<1>1. People(ch) /\ \A i \in DOMAIN ch : Placed(ch[i])
  BY DEF IInv, FloorOK, Roads
<1>2. ASSUME UNCHANGED <<layout, edits, blocked, ch, stale>> PROVE Stayed
  <2>1. \A i \in DOMAIN ch : Turns(ch[i], ch[i])
    BY <1>1, StandsStill
  <2> QED
    BY <1>2, <2>1 DEF Stayed
<1>3. CASE UNCHANGED vars
  BY <1>2, <1>3 DEF vars, bounds, history
<1>4. CASE Event
  <2>1. ASSUME NEW a \in Agents, AgentCreated(a) PROVE Stayed
    BY <2>1, NewcomersTurn
  <2>2. ASSUME NEW a, NEW t, AgentClosed(a) \/ ToolsClear(a) \/ SubagentClear(a, t) PROVE Stayed
    <3>1. UNCHANGED <<layout, edits, blocked>> /\ \E S, keys : Removed(S, keys)
      BY <2>2 DEF AgentClosed, ToolsClear, SubagentClear, bounds
    <3>2. PICK S : ch' = Vanish(S) /\ stale' = StaleAfter(ch')
      BY <3>1 DEF Removed, Move
    <3>3. DOMAIN ch' = DOMAIN ch /\ \A i \in DOMAIN ch : Turns(ch[i], ch'[i])
      BY <1>1, <3>2, VanishFacts, VanishTurns
    <3> QED
      BY <3>1, <3>2, <3>3 DEF Stayed
  <2>3. ASSUME NEW a \in Agents, NEW t \in Tools, SubtaskStart(a, t) PROVE Stayed
    BY <2>3, NewcomersTurn
  <2>4. ASSUME NEW restored, ExistingAgents(restored) PROVE Stayed
    BY <1>2, <2>4 DEF ExistingAgents, bounds, history
  <2>5. ASSUME NEW a \in Agents, NEW active \in BOOLEAN, SetActive(a, active) PROVE Stayed
    <3>1. /\ UNCHANGED <<layout, edits, blocked>>
          /\ ch' = setAgentActive(a, active) /\ stale' = StaleAfter(ch')
      BY <2>5 DEF SetActive, bounds, Move
    <3>2. DOMAIN ch' = DOMAIN ch /\ \A i \in DOMAIN ch : Turns(ch[i], ch'[i])
      BY <1>1, <3>1, SetAgentActiveFacts, SetActiveTurns
    <3> QED
      BY <3>1, <3>2 DEF Stayed
  <2>6. ASSUME NEW i, SelectCharacter(i) PROVE Stayed
    BY <1>2, <2>6 DEF SelectCharacter, history
  <2>7. ASSUME NEW t, ClickTile(t) \/ WalkToTile(t) PROVE Stayed
    BY <2>7, ClicksTurn
  <2>8. ASSUME NEW to \in DOMAIN Layouts \cup {None}, FirstLayout(to) PROVE Stayed \/ Reshaped
    BY <2>8, LayoutsReshape
  <2>9. ASSUME NEW e \in Edits, EditLayout(e) PROVE Reshaped
    BY <2>9, LayoutsReshape
  <2> QED
    BY <1>4, <2>1, <2>2, <2>3, <2>4, <2>5, <2>6, <2>7, <2>8, <2>9 DEF Event
<1>5. CASE Frame
  BY <1>5, FrameGoes
<1> QED
  BY <1>3, <1>4, <1>5 DEF Next

LEMMA InitRoads == Init => Roads
<1> SUFFICES ASSUME Init PROVE Roads
  OBVIOUS
<1>1. edits = 0 /\ blocked = BlockedIn[layout] /\ DOMAIN ch = {}
  BY DEF Init
<1> QED
  BY <1>1 DEF Roads

(* Nobody walks through walls or furniture, or jumps: a frame takes a      *)
(* character at most to the next tile of a path that findPath found when   *)
(* at least the furniture of the layout shown blocked the way, for any     *)
(* layouts, furniture and order of events; who followed a path when the    *)
(* layout changed is excepted until that path ends                         *)
(* (officeState.ts:103-120, characters.ts, tileMap.ts).                    *)
THEOREM NobodyEverWalksThroughWalls == Spec => NobodyWalksThroughWalls
<1> DEFINE Fair(i) ==
             (edits' = edits /\ ready' = ready /\ ch'[i].tile # ch[i].tile) =>
                \/ i \in stale
                \/ /\ Distance(ch[i].tile, ch'[i].tile) = 1
                   /\ \/ isWalkable(ch'[i].tile, Layouts[layout], BlockedIn[layout])
                      \/ ch'[i].tile \in OwnSeat(ch[i])
<1>1. IInv /\ Roads /\ [Next]_vars => Roads'
  BY KindsOfSteps, RoadsGoOn, RoadsReshaped
<1>2. IInv /\ Roads /\ [Next]_vars => \A i \in DOMAIN ch \cap DOMAIN ch' : Fair(i)
  <2> SUFFICES ASSUME IInv, Roads, [Next]_vars, NEW i \in DOMAIN ch \cap DOMAIN ch',
                      edits' = edits, ready' = ready, ch'[i].tile # ch[i].tile, i \notin stale
               PROVE  Fair(i)
    OBVIOUS
  <2>1. ~Stayed
    BY DEF Stayed, Turns
  <2>2. ~Reshaped
    BY DEF Reshaped, Roads
  <2>3. Went
    BY <2>1, <2>2, KindsOfSteps
  <2> DEFINE a == ch[i]
             d == ch'[i]
  <2>4. Follows(a) /\ Placed(a) /\ Placed(d)
    BY <2>3 DEF Roads, Went, Advances
  <2>5. PICK c : Turns(a, c) /\ Treads(c, d) /\ c.seat = a.seat
    BY <2>3 DEF Went
  <2> HIDE DEF a, d
  <2>6. /\ c.state = "walk" /\ c.path # <<>> /\ d.tile = c.path[1] /\ c.tile = a.tile
        /\ Follows(c) /\ c.path \in Seq(Int \X Int)
    BY <2>4, <2>5 DEF Turns, Treads, Placed, a, d
  <2>7. 1 \in DOMAIN c.path
    BY <2>6
  <2>8. /\ isWalkable(d.tile, Layouts[layout], BlockedIn[layout] \ OwnSeat(c))
        /\ Distance(d.tile, a.tile) = 1
    BY <2>6, <2>7 DEF Follows, IsPath
  <2>9. OwnSeat(c) = OwnSeat(a)
    BY <2>5 DEF OwnSeat
  <2>10. Distance(a.tile, d.tile) = 1
    BY <2>4, <2>8, DistanceIsSymmetric DEF Placed
  <2>11. \/ isWalkable(d.tile, Layouts[layout], BlockedIn[layout])
         \/ d.tile \in OwnSeat(a)
    BY <2>8, <2>9 DEF isWalkable
  <2> QED
    BY <2>10, <2>11 DEF a, d
<1>3. IInv /\ Roads /\ [Next]_vars => [\A i \in DOMAIN ch \cap DOMAIN ch' : Fair(i)]_vars
  BY <1>2
<1> QED
  BY <1>1, <1>3, InitRoads, OfficeInvariant, PTL DEF Spec, NobodyWalksThroughWalls
=============================================================================
