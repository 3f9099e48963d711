----------------------------- MODULE AgentProofs -----------------------------
(***************************************************************************)
(* Proofs about the agents in the extension, for any numbers of them and   *)
(* of what they do:                                                        *)
(*   - the extension and the webview agree about an agent (AgentActivity); *)
(*   - what an agent uses is reported once (TokenReporter);                *)
(*   - each agent follows its session, and no line is processed twice      *)
(*     (AgentTracker).                                                     *)
(***************************************************************************)
EXTENDS AgentActivity, TokenReporter, AgentTracker, ListProofs, SequenceTheorems, FiniteSetTheorems, TLAPS

-----------------------------------------------------------------------------
(***************************************************************************)
(* AgentActivity: what the extension keeps of the tools of an agent and    *)
(* what the webview shows, for any tools, sub-agents and exemptions.       *)
(***************************************************************************)
(* What keeps a late message harmless: it is about a tool that is over,    *)
(* and an active tool is not.                                              *)
LateIsOver ==
  /\ \A t \in active : life[t] = "open"
  /\ \A t \in Tools : <<"toolDone", t>> \in later => life[t] = "over"
  /\ \A t \in Spawning : <<"subagentClear", t>> \in later => life[t] = "over"
  /\ \A t \in Tools : life[t] = "new" => shown[t] = "none"

(* What keeps the flags right while a batch is read.                       *)
TurnFlags ==
  /\ active # {} => hadTools
  /\ reading => ~permission

Agreement == /\ ToolsAgree /\ HelpersAgree /\ WaitingAgrees /\ BubblesAgree
             /\ NoOrphans /\ LateIsOver /\ TurnFlags

(* The inductive invariant.                                                *)
IInv == TypeOK /\ Agreement

(* A message that is due is of one of three kinds.                         *)
LEMMA DelayedKinds ==
  ASSUME NEW m \in Delayed
  PROVE  \/ \E t \in Tools : m = <<"toolDone", t>>
         \/ \E s \in SubTools : m = <<"subagentToolDone", s>>
         \/ \E t \in Spawning : m = <<"subagentClear", t>>
BY DEF Delayed

(* Initially nothing runs and nothing is shown.                            *)
LEMMA InitInvariant == Init => IInv
BY ActivityAssumption DEF Init, IInv, TypeOK, Agreement, ToolsAgree, HelpersAgree,
   WaitingAgrees, BubblesAgree, NoOrphans, LateIsOver, TurnFlags, NoTool, NoSubTool,
   Delayed

(* Types are kept by every step.                                           *)
LEMMA StepTypes == IInv /\ [Next]_vars => TypeOK'
<1> SUFFICES ASSUME IInv, [Next]_vars PROVE TypeOK'
  OBVIOUS
<1> USE ActivityAssumption DEF IInv, TypeOK
<1>1. CASE Arrive
  BY <1>1 DEF Arrive, PermissionClear, Unflagged
<1>2. CASE Text
  BY <1>2 DEF Text, Line, agentState, view
<1>3. CASE Prompt
  BY <1>3 DEF Prompt, Line, ClearActivity, ToolsClear, Unflagged, NoTool, NoSubTool
<1>4. CASE TurnEnd
  BY <1>4 DEF TurnEnd, Line, ShowWaiting, NoTool, NoSubTool
<1>5. ASSUME NEW t \in Tools, Use(t) PROVE TypeOK'
  BY <1>5 DEF Use, Started, Line, Written, Unflagged
<1>6. ASSUME NEW t \in Tools, Result(t) PROVE TypeOK'
  BY <1>6 DEF Result, Line, Ended, Children, timers, view, Delayed
<1>7. ASSUME NEW t \in Tools, Progress(t) PROVE TypeOK'
  BY <1>7 DEF Progress, Line, agentState, view
<1>8. ASSUME NEW s \in SubTools, SubUse(s) PROVE TypeOK'
  BY <1>8 DEF SubUse, Started, Line, Written
<1>9. ASSUME NEW s \in SubTools, SubResult(s) PROVE TypeOK'
  <2>1. <<"subagentToolDone", s>> \in Delayed
    BY DEF Delayed
  <2>2. subs' \subseteq SubTools /\ later' \subseteq Delayed /\ permissionTimer' \in BOOLEAN
    <3>1. CASE ParentOf[s] \in active
      <4> DEFINE still == subs' \ Exempt # {}
      <4>1. permissionTimer' = (permissionTimer \/ still)
        BY <1>9, <3>1 DEF SubResult
      <4>2. permissionTimer' \in BOOLEAN
        <5> HIDE DEF still
        <5> QED  BY <4>1
      <4> QED
        BY <1>9, <2>1, <3>1, <4>2 DEF SubResult
    <3>2. CASE ParentOf[s] \notin active
      BY <1>9, <3>2 DEF SubResult
    <3> QED
      BY <3>1, <3>2
  <2> QED
    BY <1>9, <2>2 DEF SubResult, Line, Ended, view
<1>10. CASE Finish
  BY <1>10 DEF Finish, transcript, agentState, timers, view
<1>11. CASE WaitingFires
  BY <1>11 DEF WaitingFires, ShowWaiting, transcript
<1>12. CASE PermissionFires
  BY <1>12 DEF PermissionFires, ShowPermission, Stuck, transcript
<1>13. ASSUME NEW m \in later, Post(m) PROVE TypeOK'
  <2>1. m \in Delayed
    OBVIOUS
  <2>2. /\ shown' \in [Tools -> {"none", "running", "done"}]
        /\ shownSubs' \in [SubTools -> {"none", "running", "done"}]
        /\ helpers' \subseteq Spawning /\ helperBubbles' \subseteq helpers'
    BY <1>13, <2>1, DelayedKinds DEF Post, Done, Children
  <2> QED
    BY <1>13, <2>2 DEF Post, transcript, agentState, timers
<1>14. CASE Dismiss
  BY <1>14 DEF Dismiss, transcript, agentState, timers
<1>15. CASE Reassign
  BY <1>15 DEF Reassign, ClearActivity, ToolsClear, Unflagged, NoTool, NoSubTool
<1>16. CASE Reload
  BY <1>16 DEF Reload, SendStatuses, Skip, NoSubTool, agentState, transcript, timers
<1>17. CASE UNCHANGED vars
  BY <1>17 DEF vars, transcript, agentState, timers, view
<1> QED
  BY <1>1, <1>2, <1>3, <1>4, <1>5, <1>6, <1>7, <1>8, <1>9, <1>10, <1>11, <1>12,
     <1>13, <1>14, <1>15, <1>16, <1>17 DEF Next, Record

(* The agreement is kept by every step.                                    *)
LEMMA StepAgreement == IInv /\ [Next]_vars => Agreement'
<1> SUFFICES ASSUME IInv, [Next]_vars PROVE Agreement'
  OBVIOUS
<1> USE ActivityAssumption
    DEF IInv, TypeOK, Agreement, ToolsAgree, HelpersAgree, WaitingAgrees, BubblesAgree,
        NoOrphans, LateIsOver, TurnFlags
<1>1. CASE Arrive
  BY <1>1 DEF Arrive, PermissionClear, Unflagged
<1>2. CASE Text
  BY <1>2 DEF Text, Line, agentState, view
<1>3. CASE Prompt
  BY <1>3 DEF Prompt, Line, ClearActivity, ToolsClear, Unflagged, NoTool, NoSubTool
<1>4. CASE TurnEnd
  BY <1>4 DEF TurnEnd, Line, ShowWaiting, NoTool, NoSubTool
<1>5. ASSUME NEW t \in Tools, Use(t) PROVE Agreement'
  BY <1>5 DEF Use, Started, Line, Written, Unflagged
<1>6. ASSUME NEW t \in Tools, Result(t) PROVE Agreement'
  BY <1>6 DEF Result, Line, Ended, Children, timers, view
<1>7. ASSUME NEW t \in Tools, Progress(t) PROVE Agreement'
  BY <1>7 DEF Progress, Line, agentState, view
<1>8. ASSUME NEW s \in SubTools, SubUse(s) PROVE Agreement'
  BY <1>8 DEF SubUse, Started, Line, Written
<1>9. ASSUME NEW s \in SubTools, SubResult(s) PROVE Agreement'
  BY <1>9 DEF SubResult, Line, Ended, view
<1>10. CASE Finish
  BY <1>10 DEF Finish, transcript, agentState, timers, view
<1>11. CASE WaitingFires
  BY <1>11 DEF WaitingFires, ShowWaiting, transcript
<1>12. CASE PermissionFires
  BY <1>12 DEF PermissionFires, ShowPermission, Stuck, transcript
<1>13. ASSUME NEW m \in later, Post(m) PROVE Agreement'
  <2>1. m \in Delayed
    OBVIOUS
  <2> QED
    BY <1>13, <2>1, DelayedKinds DEF Post, Done, Children, transcript, agentState, timers
<1>14. CASE Dismiss
  BY <1>14 DEF Dismiss, transcript, agentState, timers
<1>15. CASE Reassign
  BY <1>15 DEF Reassign, ClearActivity, ToolsClear, Unflagged, NoTool, NoSubTool
<1>16. CASE Reload
  <2>1. CASE terminal
    <3>1. \A x \in Tools \union SubTools : life[x] = "over" => life'[x] = "over"
      BY <1>16, <2>1 DEF Reload, SendStatuses, Skip, Later
    <3> QED
      BY <1>16, <2>1, <3>1 DEF Reload, SendStatuses, timers
  <2>2. CASE ~terminal
    BY <1>16, <2>2 DEF Reload, SendStatuses, agentState, transcript, timers
  <2> QED
    BY <2>1, <2>2
<1>17. CASE UNCHANGED vars
  BY <1>17 DEF vars, transcript, agentState, timers, view
<1> QED
  BY <1>1, <1>2, <1>3, <1>4, <1>5, <1>6, <1>7, <1>8, <1>9, <1>10, <1>11, <1>12,
     <1>13, <1>14, <1>15, <1>16, <1>17 DEF Next, Record

(* The invariant holds at every moment.                                    *)
THEOREM ActivityInvariant == Spec => []IInv
<1>1. Init => IInv
  BY InitInvariant
<1>2. IInv /\ [Next]_vars => IInv'
  BY StepTypes, StepAgreement DEF IInv
<1> QED
  BY <1>1, <1>2, PTL DEF Spec

(* Types, and with them: only a sub-agent that has a character has a       *)
(* permission bubble.                                                      *)
THEOREM ActivityTypes == Spec => []TypeOK
<1>1. IInv => TypeOK
  BY DEF IInv
<1> QED
  BY <1>1, ActivityInvariant, PTL

(* The tools shown as running are those that run, whatever comes late.     *)
THEOREM ToolsAlwaysAgree == Spec => []ToolsAgree
<1>1. IInv => ToolsAgree
  BY DEF IInv, Agreement
<1> QED
  BY <1>1, ActivityInvariant, PTL

(* Sub-agent characters are those of the tools that run.                   *)
THEOREM HelpersAlwaysAgree == Spec => []HelpersAgree
<1>1. IInv => HelpersAgree
  BY DEF IInv, Agreement
<1> QED
  BY <1>1, ActivityInvariant, PTL

(* Nobody is shown waiting while a tool runs.                              *)
THEOREM WaitingAlwaysAgrees == Spec => []WaitingAgrees
<1>1. IInv => WaitingAgrees
  BY DEF IInv, Agreement
<1> QED
  BY <1>1, ActivityInvariant, PTL

(* No permission bubble outlives its reason.                               *)
THEOREM BubblesAlwaysAgree == Spec => []BubblesAgree
<1>1. IInv => BubblesAgree
  BY DEF IInv, Agreement
<1> QED
  BY <1>1, ActivityInvariant, PTL

(* A sub-agent's tool is tracked no longer than its parent.                *)
THEOREM NeverOrphans == Spec => []NoOrphans
<1>1. IInv => NoOrphans
  BY DEF IInv, Agreement
<1> QED
  BY <1>1, ActivityInvariant, PTL

-----------------------------------------------------------------------------
(***************************************************************************)
(* TokenReporter, for any number of reports, any limit of the offline      *)
(* queue, any outcomes of a POST and any number of connections.  Where a   *)
(* report is when a function awaits is what can go wrong, so the invariant *)
(* speaks of places: the pending reports, the offline queue, the batches   *)
(* being posted and the queues being drained.                              *)
(***************************************************************************)
(* OnePlace, place by place.                                               *)
Apart ==
  /\ IsInjective(pending) /\ IsInjective(queue)
  /\ Range(pending) \intersect Range(queue) = {}
  /\ \A b \in batches : /\ IsInjective(b)
                        /\ Range(b) \intersect Range(pending) = {}
                        /\ Range(b) \intersect Range(queue) = {}
  /\ \A d \in drains : /\ IsInjective(d)
                       /\ Range(d) \intersect Range(pending) = {}
                       /\ Range(d) \intersect Range(queue) = {}
  /\ \A b, c \in batches : b # c => Range(b) \intersect Range(c) = {}
  /\ \A d, e \in drains : d # e => Range(d) \intersect Range(e) = {}
  /\ \A b \in batches, d \in drains : Range(b) \intersect Range(d) = {}

(* A report that waits anywhere.                                           *)
Waits(r) ==
  \/ r \in Range(pending) \/ r \in Range(queue)
  \/ \E b \in batches : r \in Range(b)
  \/ \E d \in drains : r \in Range(d)
Kept     == \A r \in 1..made : Waits(r) \/ r \in credited \/ r \in lost
(* The next report has a number that no place holds.                       *)
OnlyMade == \A r : Waits(r) => r \in 1..made
(* What was written was the queue once: the host may return to it.         *)
Durable  == IsInjective(durable) /\ Range(durable) \subseteq 1..made

ReporterInv == ReporterTypes /\ Apart /\ Kept /\ OnlyMade /\ Durable

-----------------------------------------------------------------------------

(* What the places hold after a concatenation, an addition, and the cut of *)
(* an offline queue that is too long.                                      *)
LEMMA EmptyFacts ==
  ASSUME NEW S
  PROVE  /\ <<>> \in Seq(S) /\ Len(<<>>) = 0
         /\ IsInjective(<<>>) /\ Range(<<>>) = {}
BY DEF IsInjective, Range

LEMMA ConcatFacts ==
  ASSUME NEW S, NEW s \in Seq(S), NEW t \in Seq(S)
  PROVE  /\ s \o t \in Seq(S)
         /\ Range(s \o t) = Range(s) \union Range(t)
         /\ IsInjective(s) /\ IsInjective(t) /\ Range(s) \intersect Range(t) = {}
              => IsInjective(s \o t)
<1>1. /\ s \o t \in Seq(S) /\ Len(s \o t) = Len(s) + Len(t)
      /\ \A i \in 1..(Len(s) + Len(t)) :
           (s \o t)[i] = IF i <= Len(s) THEN s[i] ELSE t[i - Len(s)]
  BY ConcatProperties
<1>2. Range(s \o t) = Range(s) \union Range(t)
  BY RangeConcatenation
<1>3. /\ DOMAIN s = 1..Len(s) /\ DOMAIN t = 1..Len(t) /\ DOMAIN (s \o t) = 1..Len(s \o t)
      /\ Len(s) \in Nat /\ Len(t) \in Nat
  BY <1>1, LenProperties
<1>4. ASSUME IsInjective(s), IsInjective(t), Range(s) \intersect Range(t) = {}
      PROVE  IsInjective(s \o t)
  <2> SUFFICES ASSUME NEW i \in 1..(Len(s) + Len(t)), NEW j \in 1..(Len(s) + Len(t)),
                      (s \o t)[i] = (s \o t)[j]
               PROVE  i = j
    BY <1>1, <1>3 DEF IsInjective
  <2>1. CASE i <= Len(s) /\ j <= Len(s)
    BY <1>1, <1>3, <1>4, <2>1 DEF IsInjective
  <2>2. CASE i > Len(s) /\ j > Len(s)
    <3>1. /\ i - Len(s) \in DOMAIN t /\ j - Len(s) \in DOMAIN t
          /\ t[i - Len(s)] = t[j - Len(s)]
      BY <1>1, <1>3, <2>2
    <3>2. i - Len(s) = j - Len(s)
      BY <1>4, <3>1 DEF IsInjective
    <3> QED
      BY <1>3, <3>2
  <2>3. ASSUME NEW k \in 1..(Len(s) + Len(t)), NEW l \in 1..(Len(s) + Len(t)),
               k <= Len(s), l > Len(s), (s \o t)[k] = (s \o t)[l]
        PROVE  FALSE
    <3>1. k \in DOMAIN s /\ l - Len(s) \in DOMAIN t /\ s[k] = t[l - Len(s)]
      BY <1>1, <1>3, <2>3
    <3> QED
      BY <1>4, <3>1 DEF Range
  <2> QED
    BY <1>3, <2>1, <2>2, <2>3
<1> QED
  BY <1>1, <1>2, <1>4

LEMMA AppendFacts ==
  ASSUME NEW S, NEW s \in Seq(S), NEW e \in S
  PROVE  /\ Append(s, e) \in Seq(S)
         /\ Range(Append(s, e)) = Range(s) \union {e}
         /\ IsInjective(s) /\ e \notin Range(s) => IsInjective(Append(s, e))
<1>1. Append(s, e) = s \o <<e>>
  BY AppendIsConcat
<1>2. <<e>> \in Seq(S) /\ Range(<<e>>) = {e} /\ IsInjective(<<e>>)
  BY DEF Range, IsInjective
<1> DEFINE t == <<e>>
<1> HIDE DEF t
<1>3. /\ s \o t \in Seq(S) /\ Range(s \o t) = Range(s) \union Range(t)
      /\ IsInjective(s) /\ IsInjective(t) /\ Range(s) \intersect Range(t) = {}
           => IsInjective(s \o t)
  BY <1>2, ConcatFacts DEF t
<1>4. Range(t) = {e} /\ IsInjective(t) /\ Append(s, e) = s \o t
  BY <1>1, <1>2 DEF t
<1> QED
  BY <1>3, <1>4

LEMMA NewestFacts ==
  ASSUME NEW S, NEW s \in Seq(S), Len(s) > MaxOffline
  PROVE  /\ Newest(s) \in Seq(S) /\ Len(Newest(s)) = MaxOffline
         /\ Range(Newest(s)) \subseteq Range(s)
         /\ IsInjective(s) => IsInjective(Newest(s))
<1> DEFINE from == Len(s) - MaxOffline
<1>1. Len(s) \in Nat /\ DOMAIN s = 1..Len(s) /\ \A i \in 1..Len(s) : s[i] \in S
  BY LenProperties
<1>2. MaxOffline \in Nat /\ from \in Nat
  BY <1>1, ReporterAssumption
<1>3. \A i \in (from + 1)..Len(s) : s[i] \in S
  BY <1>1, <1>2
<1>4. /\ Newest(s) \in Seq(S)
      /\ Len(Newest(s)) = MaxOffline
      /\ \A i \in 1..MaxOffline : Newest(s)[i] = s[from + i]
  BY <1>1, <1>2, <1>3, SubSeqProperties DEF Newest
<1>5. DOMAIN Newest(s) = 1..MaxOffline
  BY <1>4, LenProperties
<1>6. \A i \in 1..MaxOffline : from + i \in DOMAIN s
  BY <1>1, <1>2
<1>7. Range(Newest(s)) \subseteq Range(s)
  BY <1>4, <1>5, <1>6 DEF Range
<1>8. IsInjective(s) => IsInjective(Newest(s))
  BY <1>2, <1>4, <1>5, <1>6 DEF IsInjective
<1> QED
  BY <1>4, <1>7, <1>8

(* The offline queue takes reports that it does not have: each is in it    *)
(* afterwards, or lost, and so is each it had.                             *)
LEMMA EnqueueFacts ==
  ASSUME queue \in Seq(Reports), Len(queue) <= MaxOffline, lost \subseteq Reports,
         NEW reports \in Seq(Reports), EnqueueOffline(reports),
         IsInjective(queue), IsInjective(reports),
         Range(queue) \intersect Range(reports) = {}
  PROVE  /\ queue' \in Seq(Reports) /\ Len(queue') <= MaxOffline
         /\ lost \subseteq lost' /\ lost' \subseteq Reports
         /\ IsInjective(queue')
         /\ Range(queue') \subseteq Range(queue) \union Range(reports)
         /\ Range(queue) \union Range(reports) \subseteq Range(queue') \union lost'
<1> DEFINE combined == queue \o reports
<1>1. /\ combined \in Seq(Reports) /\ IsInjective(combined)
      /\ Range(combined) = Range(queue) \union Range(reports)
  BY ConcatFacts
<1> HIDE DEF combined
<1>2. Len(combined) \in Nat /\ MaxOffline \in Nat
  BY <1>1, LenProperties, ReporterAssumption
<1>3. /\ queue' = IF Len(combined) <= MaxOffline THEN combined ELSE Newest(combined)
      /\ lost' = lost \union (Range(combined) \ Range(queue'))
  BY DEF EnqueueOffline, combined
<1>4. /\ queue' \in Seq(Reports) /\ Len(queue') <= MaxOffline /\ IsInjective(queue')
      /\ Range(queue') \subseteq Range(combined)
  <2>1. CASE Len(combined) <= MaxOffline
    BY <1>1, <1>3, <2>1
  <2>2. CASE Len(combined) > MaxOffline
    <3>1. /\ Newest(combined) \in Seq(Reports) /\ Len(Newest(combined)) = MaxOffline
          /\ Range(Newest(combined)) \subseteq Range(combined)
          /\ IsInjective(Newest(combined))
      BY <1>1, <2>2, NewestFacts
    <3>2. queue' = Newest(combined)
      BY <1>2, <1>3, <2>2
    <3> QED
      BY <1>2, <3>1, <3>2
  <2> QED
    BY <1>2, <2>1, <2>2
<1>5. Range(combined) \subseteq Reports
  BY <1>1, RangeOfSeq
<1> QED
  BY <1>1, <1>3, <1>4, <1>5

-----------------------------------------------------------------------------

LEMMA InitIInv == ReporterInit => ReporterInv
<1> SUFFICES ASSUME ReporterInit PROVE ReporterInv
  OBVIOUS
<1>1. /\ pending = <<>> /\ queue = <<>> /\ durable = <<>> /\ batches = {} /\ drains = {}
      /\ IsInjective(<<>>) /\ Range(<<>>) = {}
  BY EmptyFacts DEF ReporterInit
<1>2. ReporterTypes
  <2>1. /\ made \in 0..MaxReports /\ connects \in 0..MaxConnects
        /\ Len(queue) <= MaxOffline /\ Len(durable) <= MaxOffline
    BY <1>1, EmptyFacts, ReporterAssumption DEF ReporterInit
  <2>2. pending \in Seq(Reports) /\ queue \in Seq(Reports) /\ durable \in Seq(Reports)
    BY <1>1, EmptyFacts
  <2>3. /\ registering \in Nat /\ storing \in Nat /\ registering + storing <= connects
    BY DEF ReporterInit
  <2>4. credited = {} /\ lost = {} /\ host = "active" /\ ~ticking /\ ~token
        /\ ticking \in BOOLEAN /\ token \in BOOLEAN
    BY DEF ReporterInit
  <2> QED
    BY <1>1, <2>1, <2>2, <2>3, <2>4 DEF ReporterTypes
<1>3. Apart /\ OnlyMade /\ Durable
  BY <1>1 DEF Apart, OnlyMade, Durable, Waits
<1>4. Kept
  BY DEF ReporterInit, Kept
<1> QED
  BY <1>2, <1>3, <1>4 DEF ReporterInv

(* Steps that leave every report where it is.                              *)
LEMMA SamePlaces ==
  ASSUME ReporterInv, ReporterTypes', UNCHANGED <<made, pending, batches, drains, queue>>,
         durable' \in {durable, queue}, credited \subseteq credited', lost \subseteq lost'
  PROVE  ReporterInv'
<1>1. Apart'
  BY DEF ReporterInv, Apart
<1>2. \A r : Waits(r)' <=> Waits(r)
  BY DEF Waits
<1>3. Kept' /\ OnlyMade'
  BY <1>2 DEF ReporterInv, Kept, OnlyMade
<1>4. Durable'
  BY DEF ReporterInv, Apart, OnlyMade, Durable, Waits
<1> QED
  BY <1>1, <1>3, <1>4 DEF ReporterInv

LEMMA RegistrationStep ==
  ASSUME ReporterInv, Connected \/ Registered \/ RegisterFailed \/ StoreFailed
               \/ Activate \/ (Stored /\ UNCHANGED <<ticking, drains, queue>>)
  PROVE  ReporterInv'
<1>1. UNCHANGED <<made, pending, batches, drains, queue, durable, credited, lost>>
  BY DEF Connected, Registered, RegisterFailed, StoreFailed, Activate, Stored, memory
<1>2. /\ ticking' \in BOOLEAN /\ token' \in BOOLEAN /\ host' \in {"active", "disposed", "gone"}
  BY ReporterAssumption
     DEF ReporterInv, ReporterTypes, Connected, Registered, RegisterFailed, StoreFailed, Activate, Stored, memory
<1>3. /\ registering' \in Nat /\ storing' \in Nat /\ connects' \in 0..MaxConnects
      /\ registering' + storing' <= connects'
  <2>1. /\ registering \in Nat /\ storing \in Nat /\ connects \in 0..MaxConnects
        /\ registering + storing <= connects /\ MaxConnects \in Nat
    BY ReporterAssumption DEF ReporterInv, ReporterTypes
  <2> QED
    BY <2>1 DEF Connected, Registered, RegisterFailed, StoreFailed, Activate, Stored, memory
<1>4. ReporterTypes'
  BY <1>1, <1>2, <1>3 DEF ReporterInv, ReporterTypes
<1> QED
  BY <1>1, <1>4, SamePlaces

(* VS Code writes the queue.                                               *)
LEMMA PersistStep ==
  ASSUME ReporterInv, Persist
  PROVE  ReporterInv'
<1>1. /\ UNCHANGED <<made, pending, batches, drains, queue, credited, lost>>
      /\ durable' = queue
  BY DEF Persist, memory
<1>2. ReporterTypes'
  BY <1>1 DEF ReporterInv, ReporterTypes, Persist, memory
<1> QED
  BY <1>1, <1>2, SamePlaces

(* What was written stays what the host may return to.                     *)
LEMMA StillWritten ==
  ASSUME ReporterInv, UNCHANGED durable, made' \in Nat, made \in Nat, made <= made'
  PROVE  Durable'
<1>1. 1..made \subseteq 1..made'
  OBVIOUS
<1> QED
  BY <1>1 DEF ReporterInv, Durable

(* A new report is pending, under a number of its own.                     *)
LEMMA ReportStep ==
  ASSUME ReporterInv, Report
  PROVE  ReporterInv'
<1>1. /\ made \in 0..MaxReports /\ made < MaxReports /\ made' = made + 1
      /\ made' \in Reports /\ pending \in Seq(Reports)
      /\ pending' = Append(pending, made')
  BY ReporterAssumption DEF ReporterInv, ReporterTypes, Report, Reports
<1>2. UNCHANGED <<host, ticking, token, batches, drains, registering, storing,
                  connects, queue, durable, credited, lost>>
  BY DEF Report
<1>3. ~Waits(made')
  BY <1>1 DEF ReporterInv, OnlyMade
<1>4. /\ pending' \in Seq(Reports) /\ Range(pending') = Range(pending) \union {made'}
      /\ IsInjective(pending) /\ made' \notin Range(pending) => IsInjective(pending')
  BY <1>1, AppendFacts
<1>5. ReporterTypes'
  <2>1. made' \in 0..MaxReports
    BY <1>1, ReporterAssumption
  <2> QED
    BY <2>1, <1>2, <1>4 DEF ReporterInv, ReporterTypes
<1>6. Apart'
  BY <1>2, <1>3, <1>4 DEF ReporterInv, Apart, Waits
<1>7. \A r : Waits(r)' <=> Waits(r) \/ r = made'
  BY <1>2, <1>4 DEF Waits
<1>8. \A r : r \in 1..made' <=> r \in 1..made \/ r = made'
  BY <1>1
<1>9. Kept' /\ OnlyMade'
  BY <1>2, <1>7, <1>8 DEF ReporterInv, Kept, OnlyMade
<1>10. Durable'
  <2>1. made \in Nat /\ made' \in Nat /\ made <= made'
    BY <1>1, ReporterAssumption
  <2> QED
    BY <1>2, <2>1, StillWritten
<1> QED
  BY <1>5, <1>6, <1>9, <1>10 DEF ReporterInv

(* What is pending goes to the offline queue: a flush without a token, and *)
(* stop().                                                                 *)
LEMMA PutOffline ==
  ASSUME ReporterInv, EnqueueOffline(pending), pending' = <<>>,
         UNCHANGED <<made, durable, batches, drains, registering, storing, connects, credited>>,
         host' \in {"active", "disposed", "gone"}, ticking' \in BOOLEAN, token' \in BOOLEAN
  PROVE  ReporterInv'
<1>1. /\ queue' \in Seq(Reports) /\ Len(queue') <= MaxOffline
      /\ lost \subseteq lost' /\ lost' \subseteq Reports
      /\ IsInjective(queue')
      /\ Range(queue') \subseteq Range(queue) \union Range(pending)
      /\ Range(queue) \union Range(pending) \subseteq Range(queue') \union lost'
  <2>1. Range(queue) \intersect Range(pending) = {}
    BY DEF ReporterInv, Apart
  <2> QED
    BY <2>1, EnqueueFacts DEF ReporterInv, ReporterTypes, Apart
<1>2. pending' \in Seq(Reports) /\ Range(pending') = {} /\ IsInjective(pending')
  BY EmptyFacts
<1>3. ReporterTypes'
  BY <1>1, <1>2 DEF ReporterInv, ReporterTypes
<1>4. Apart'
  BY <1>1, <1>2 DEF ReporterInv, Apart
<1>5. \A r : Waits(r)' => Waits(r)
  BY <1>1, <1>2 DEF Waits
<1>6. \A r : Waits(r) => Waits(r)' \/ r \in lost'
  BY <1>1 DEF Waits
<1>7. Kept' /\ OnlyMade'
  BY <1>1, <1>5, <1>6 DEF ReporterInv, Kept, OnlyMade
<1>8. Durable'
  BY DEF ReporterInv, Durable
<1> QED
  BY <1>3, <1>4, <1>7, <1>8 DEF ReporterInv

LEMMA FlushStep ==
  ASSUME ReporterInv, Flush
  PROVE  ReporterInv'
<1>1. CASE ~token /\ EnqueueOffline(pending) /\ UNCHANGED batches
  BY <1>1, PutOffline DEF Flush, ReporterInv, ReporterTypes
<1>2. CASE token /\ batches' = batches \union {pending} /\ UNCHANGED <<queue, lost>>
  <2>1. /\ UNCHANGED <<host, made, durable, ticking, token, drains, registering, storing,
                       connects, credited, queue, lost>>
        /\ pending' = <<>>
    BY <1>2 DEF Flush
  <2>2. pending' \in Seq(Reports) /\ Range(pending') = {} /\ IsInjective(pending')
    BY <2>1, EmptyFacts
  <2>3. ReporterTypes'
    BY <1>2, <2>1, <2>2 DEF ReporterInv, ReporterTypes
  <2>4. Apart'
    BY <1>2, <2>1, <2>2 DEF ReporterInv, Apart
  <2>5. \A r : Waits(r)' <=> Waits(r)
    BY <1>2, <2>1, <2>2 DEF Waits
  <2>6. Kept' /\ OnlyMade'
    BY <2>1, <2>5 DEF ReporterInv, Kept, OnlyMade
  <2>7. Durable'
    BY <2>1 DEF ReporterInv, Durable
  <2> QED
    BY <2>3, <2>4, <2>6, <2>7 DEF ReporterInv
<1> QED
  BY <1>1, <1>2 DEF Flush

(* A batch is credited, or goes offline, or both.                          *)
LEMMA AnswerStep ==
  ASSUME ReporterInv, NEW b \in batches, Answer(b)
  PROVE  ReporterInv'
<1>1. /\ batches' = batches \ {b}
      /\ UNCHANGED <<host, made, durable, pending, ticking, token, drains, registering,
                     storing, connects>>
  BY DEF Answer
<1>2. b \in Seq(Reports) /\ Range(b) \subseteq Reports
  BY RangeOfSeq DEF ReporterInv, ReporterTypes
<1>3. PICK outcome \in Outcomes :
        /\ credited' = IF outcome = "refused" THEN credited ELSE credited \union Range(b)
        /\ IF outcome = "ok" THEN UNCHANGED <<queue, lost>> ELSE EnqueueOffline(b)
  BY DEF Answer
<1>4. credited \subseteq credited' /\ credited' \subseteq Reports
  BY <1>2, <1>3 DEF ReporterInv, ReporterTypes
<1>5. /\ queue' \in Seq(Reports) /\ Len(queue') <= MaxOffline
      /\ lost \subseteq lost' /\ lost' \subseteq Reports
      /\ IsInjective(queue')
      /\ Range(queue') \subseteq Range(queue) \union Range(b)
      /\ Range(queue) \union Range(b) \subseteq Range(queue') \union lost' \union credited'
  <2>1. CASE outcome = "ok"
    BY <1>3, <2>1 DEF ReporterInv, ReporterTypes, Apart
  <2>2. CASE outcome # "ok"
    <3>1. EnqueueOffline(b) /\ Range(queue) \intersect Range(b) = {} /\ IsInjective(b)
      BY <1>3, <2>2 DEF ReporterInv, Apart
    <3> QED
      BY <1>2, <3>1, EnqueueFacts DEF ReporterInv, ReporterTypes, Apart
  <2> QED
    BY <2>1, <2>2
<1>6. ReporterTypes'
  BY <1>1, <1>4, <1>5 DEF ReporterInv, ReporterTypes
<1>7. Apart'
  BY <1>1, <1>5 DEF ReporterInv, Apart
<1>8. \A r : Waits(r)' => Waits(r)
  BY <1>1, <1>5 DEF Waits
<1>9. \A r : Waits(r) => Waits(r)' \/ r \in lost' \/ r \in credited'
  BY <1>1, <1>5 DEF Waits
<1>10. Kept' /\ OnlyMade'
  BY <1>1, <1>4, <1>5, <1>8, <1>9 DEF ReporterInv, Kept, OnlyMade
<1>11. Durable'
  BY <1>1 DEF ReporterInv, Durable
<1> QED
  BY <1>6, <1>7, <1>10, <1>11 DEF ReporterInv

(* The queue moves to the drain as a whole, then to the pending reports.   *)
LEMMA StartDrainStep ==
  ASSUME ReporterInv, Stored, StartDrain, ticking' = TRUE
  PROVE  ReporterInv'
<1>1. UNCHANGED <<host, made, durable, pending, token, batches, registering, connects, credited, lost>>
  BY DEF Stored, StartDrain
<1>2. queue' = <<>> /\ queue' \in Seq(Reports) /\ Range(queue') = {} /\ IsInjective(queue')
      /\ Len(queue') <= MaxOffline
  BY EmptyFacts, ReporterAssumption DEF StartDrain
<1>3. drains' = IF queue = <<>> THEN drains ELSE drains \union {queue}
  BY DEF StartDrain
<1>4. registering' \in Nat /\ storing' \in Nat /\ registering' + storing' <= connects'
  BY ReporterAssumption DEF ReporterInv, ReporterTypes, Stored
<1>5. ReporterTypes'
  BY <1>1, <1>2, <1>3, <1>4 DEF ReporterInv, ReporterTypes
<1>6. Apart'
  BY <1>1, <1>2, <1>3 DEF ReporterInv, Apart
<1>7. \A r : Waits(r)' <=> Waits(r)
  <2>1. queue = <<>> => Range(queue) = {}
    BY EmptyFacts
  <2> QED
    BY <1>1, <1>2, <1>3, <2>1 DEF Waits
<1>8. Kept' /\ OnlyMade'
  BY <1>1, <1>7 DEF ReporterInv, Kept, OnlyMade
<1>9. Durable'
  BY <1>1 DEF ReporterInv, Durable
<1> QED
  BY <1>5, <1>6, <1>8, <1>9 DEF ReporterInv

LEMMA FinishDrainStep ==
  ASSUME ReporterInv, NEW d \in drains, FinishDrain(d)
  PROVE  ReporterInv'
<1>1. /\ drains' = drains \ {d} /\ pending' = pending \o d
      /\ UNCHANGED <<host, made, durable, ticking, token, batches, registering, storing,
                     connects, queue, credited, lost>>
  BY DEF FinishDrain
<1>2. /\ pending' \in Seq(Reports) /\ Range(pending') = Range(pending) \union Range(d)
      /\ IsInjective(pending')
  <2>1. /\ d \in Seq(Reports) /\ pending \in Seq(Reports)
        /\ IsInjective(pending) /\ IsInjective(d)
        /\ Range(pending) \intersect Range(d) = {}
    BY DEF ReporterInv, ReporterTypes, Apart
  <2> QED
    BY <1>1, <2>1, ConcatFacts
<1>3. ReporterTypes'
  BY <1>1, <1>2 DEF ReporterInv, ReporterTypes
<1>4. Apart'
  BY <1>1, <1>2 DEF ReporterInv, Apart
<1>5. \A r : Waits(r)' <=> Waits(r)
  BY <1>1, <1>2 DEF Waits
<1>6. Kept' /\ OnlyMade'
  BY <1>1, <1>5 DEF ReporterInv, Kept, OnlyMade
<1>7. Durable'
  BY <1>1 DEF ReporterInv, Durable
<1> QED
  BY <1>3, <1>4, <1>6, <1>7 DEF ReporterInv

(* Whatever was in memory when the host ended, or in a queue not yet       *)
(* written, is credited or lost.                                           *)
LEMMA ExitStep ==
  ASSUME ReporterInv, Exit
  PROVE  ReporterInv'
<1>1. /\ pending' = <<>> /\ batches' = {} /\ drains' = {} /\ queue' = durable
      /\ UNCHANGED <<made, durable>>
      /\ lost' = lost \union (Held \ (Range(durable) \union credited'))
  BY DEF Exit
<1>2. PICK arrived \in SUBSET batches : credited' = credited \union Ids(arrived)
  BY DEF Exit
<1>3. \A S, r : r \in Ids(S) <=> \E s \in S : r \in Range(s)
  BY DEF Ids
<1>4. \A r : Waits(r) <=> r \in Held
  BY <1>3 DEF Waits, Held
<1>5. /\ lost \subseteq lost' /\ lost' \subseteq Reports
      /\ credited \subseteq credited' /\ credited' \subseteq Reports
  <2>1. \A s \in batches \union {queue, pending} \union drains : Range(s) \subseteq Reports
    BY RangeOfSeq DEF ReporterInv, ReporterTypes
  <2>2. Held \subseteq Reports
    BY <1>4, <2>1 DEF Waits
  <2> QED
    BY <1>1, <1>2, <1>3, <2>1, <2>2 DEF ReporterInv, ReporterTypes
<1>6. pending' \in Seq(Reports) /\ Range(pending') = {} /\ IsInjective(pending')
  BY <1>1, EmptyFacts
<1>7. ReporterTypes'
  <2>1. /\ host' = "gone" /\ ticking' = FALSE /\ token' = FALSE
        /\ registering' = 0 /\ storing' = 0 /\ connects' = 0 /\ MaxConnects \in Nat
    BY ReporterAssumption DEF Exit
  <2>2. /\ registering' \in Nat /\ storing' \in Nat /\ connects' \in 0..MaxConnects
        /\ registering' + storing' <= connects'
    BY <2>1
  <2> QED
    BY <1>1, <1>5, <1>6, <2>1, <2>2 DEF ReporterInv, ReporterTypes
<1>8. Apart' /\ Durable'
  BY <1>1, <1>6 DEF ReporterInv, Apart, Durable
<1>9. \A r : Waits(r)' <=> r \in Range(durable)
  BY <1>1, <1>6 DEF Waits
<1>10. \A r : Waits(r) => Waits(r)' \/ r \in lost' \/ r \in credited'
  BY <1>1, <1>4, <1>9
<1>11. Kept' /\ OnlyMade'
  BY <1>1, <1>5, <1>9, <1>10 DEF ReporterInv, Kept, OnlyMade, Durable
<1> QED
  BY <1>7, <1>8, <1>11 DEF ReporterInv

LEMMA NextStep == ReporterInv /\ [ReporterNext]_reporterVars => ReporterInv'
<1> SUFFICES ASSUME ReporterInv, [ReporterNext]_reporterVars PROVE ReporterInv'
  OBVIOUS
<1>1. ASSUME Stored PROVE ReporterInv'
  BY <1>1, RegistrationStep, StartDrainStep DEF Stored
<1>2. ASSUME Dispose PROVE ReporterInv'
  BY <1>2, PutOffline DEF Dispose
<1>3. CASE UNCHANGED reporterVars
  <2>1. ReporterTypes' /\ UNCHANGED <<made, pending, batches, drains, queue, durable, credited, lost>>
    BY <1>3 DEF ReporterInv, ReporterTypes, reporterVars, memory
  <2> QED
    BY <2>1, SamePlaces
<1> QED
  BY <1>1, <1>2, <1>3, ReportStep, FlushStep, AnswerStep, FinishDrainStep,
     RegistrationStep, PersistStep, ExitStep DEF ReporterNext, Reporting, Registration

(* The places of OnePlace are those of Apart.                              *)
LEMMA KeptInOnePlace == ReporterInv => ReportsKept
<1> SUFFICES ASSUME ReporterInv PROVE ReportsKept
  OBVIOUS
<1>1. NothingVanishes
  <2>1. \A r : Waits(r) => r \in Held
    BY DEF Waits, Held, Ids
  <2> QED
    BY <2>1 DEF ReporterInv, Kept, NothingVanishes
<1>2. OnePlace
  <2> DEFINE places == {<<"pending", pending>>, <<"queue", queue>>}
                         \union ({"batch"} \X batches) \union ({"drain"} \X drains)
  <2>1. \A p \in places :
          \/ p = <<"pending", pending>> \/ p = <<"queue", queue>>
          \/ \E b \in batches : p = <<"batch", b>>
          \/ \E d \in drains : p = <<"drain", d>>
    OBVIOUS
  <2> HIDE DEF places
  <2>2. \A p \in places : IsInjective(p[2])
    BY <2>1 DEF ReporterInv, Apart
  <2>3. ASSUME NEW p \in places, NEW q \in places, p # q
        PROVE  Range(p[2]) \intersect Range(q[2]) = {}
    <3>1. CASE p = <<"pending", pending>>
      BY <2>1, <2>3, <3>1 DEF ReporterInv, Apart
    <3>2. CASE p = <<"queue", queue>>
      BY <2>1, <2>3, <3>2 DEF ReporterInv, Apart
    <3>3. ASSUME NEW b \in batches, p = <<"batch", b>>
          PROVE  Range(p[2]) \intersect Range(q[2]) = {}
      BY <2>1, <2>3, <3>3 DEF ReporterInv, Apart
    <3>4. ASSUME NEW d \in drains, p = <<"drain", d>>
          PROVE  Range(p[2]) \intersect Range(q[2]) = {}
      BY <2>1, <2>3, <3>4 DEF ReporterInv, Apart
    <3> QED
      BY <2>1, <3>1, <3>2, <3>3, <3>4
  <2> QED
    BY <2>2, <2>3 DEF OnePlace, places
<1> QED
  BY <1>1, <1>2 DEF ReportsKept

(* The inductive invariant holds in every reachable state.               *)
THEOREM ReporterInvariant == ReporterSpec => []ReporterInv
BY InitIInv, NextStep, PTL DEF ReporterSpec

(* The offline queue never exceeds MAX_OFFLINE_QUEUE, whichever awaits its *)
(* additions overlap.                                                      *)
THEOREM ReporterTypesHold == ReporterSpec => []ReporterTypes
<1>1. ReporterInv => ReporterTypes
  BY DEF ReporterInv
<1> QED
  BY ReporterInvariant, <1>1, PTL

(* No report disappears between two awaits, nor is one posted and queued   *)
(* at once: flush, its answer, the drain and stop() hand reports over      *)
(* whole, and only an overflow or the end of the host loses any.           *)
THEOREM ReportsAreKept == ReporterSpec => []ReportsKept
BY ReporterInvariant, KeptInOnePlace, PTL
-----------------------------------------------------------------------------
(***************************************************************************)
(* AgentTracker: which transcript each agent follows, for any terminals,   *)
(* files, reloads and starts of the panel.                                 *)
(***************************************************************************)
(* What the records of the extension hold.                                 *)
Names == Nat \cup Range(ShellName) \cup {None}
Timers == {"read", "skip", "watch"}
AgentRecs == [term : Terminals \cup {None}, name : Names, file : Files, offset : Int,
              watched : BOOLEAN, polls : SUBSET Timers]
Rosters == UNION {[D -> AgentRecs] : D \in SUBSET Nat}
Entries == [id : Nat, name : Names, file : Files, term : Terminals]
Exts == [agents : Rosters, known : SUBSET Files, active : Nat \cup {None}, nextId : Nat,
         nextTerm : Nat, scanning : BOOLEAN, saved : SUBSET Entries, processed : [Files -> Int]]

WorldTypes ==
  /\ open \in Seq(Terminals) /\ \A m, n \in DOMAIN open : open[m] = open[n] => m = n
  /\ name \in [Terminals -> Nat \cup Range(ShellName)]
  /\ focus \in Open \cup {None}
  /\ session \in [Terminals -> Files \cup {None}]
  /\ size \in [Files -> Nat \cup {None}]

(* The numbers of agents and terminals that are known have a bound.        *)
Bounds(s, k) ==
  /\ \A i \in AgentIds(s) : s.agents[i].name \in Nat => s.agents[i].name < k
  /\ \A p \in s.saved : p.id < k /\ (p.name \in Nat => p.name < k)

(* No two agents, nor two entries of the list, share a file, and the files *)
(* of agents are known.                                                    *)
OwnFiles(s) ==
  /\ \A i \in AgentIds(s) : i < s.nextId /\ s.agents[i].file \in s.known
  /\ \A i, j \in AgentIds(s) : s.agents[i].file = s.agents[j].file => i = j
  /\ \A p, q \in s.saved : p.id = q.id \/ p.file = q.file => p = q
  /\ \E k \in Nat : Bounds(s, k)

(* The lines of a file that were processed are those before the offset of  *)
(* its agent; a file that the scan does not know has been left alone.      *)
Counted(s) ==
  /\ \A i \in AgentIds(s) : s.processed[s.agents[i].file] <= s.agents[i].offset
  /\ \A f \in Files : IF Exists(f) THEN s.processed[f] <= size[f] ELSE s.processed[f] <= 0
  /\ \A f \in OnDisk \ s.known : s.scanning => s.processed[f] <= 0

(* Before the panel starts nothing is there.                               *)
Unstarted(s) == ~s.scanning => AgentIds(s) = {} /\ s.active = None

Orderly(s) == OwnFiles(s) /\ Counted(s) /\ Unstarted(s)
ListStored(s) == s.scanning => s.saved = ListOf(s)

(* After a step from s to n the agents have what they had, but for the     *)
(* file f of agent id; or there is one more, in the terminal t.            *)
SameBut(s, n, id, f) ==
  /\ AgentIds(n) = AgentIds(s) /\ n.known = s.known /\ n.active = s.active /\ n.scanning = s.scanning
  /\ \A i \in AgentIds(s) : /\ n.agents[i].term = s.agents[i].term
                            /\ n.agents[i].name = s.agents[i].name
                            /\ n.agents[i].file = IF i = id THEN f ELSE s.agents[i].file
OneMore(s, n, t, f) ==
  /\ AgentIds(n) = AgentIds(s) \cup {s.nextId} /\ s.nextId \notin AgentIds(s)
  /\ n.known = s.known /\ n.active = s.nextId /\ n.scanning = s.scanning
  /\ n.agents[s.nextId].term = t /\ n.agents[s.nextId].name = name[t] /\ n.agents[s.nextId].file = f
  /\ \A i \in AgentIds(s) : /\ n.agents[i].term = s.agents[i].term
                            /\ n.agents[i].name = s.agents[i].name
                            /\ n.agents[i].file = s.agents[i].file

(* A roster is a function to agents, from a set of numbers.                *)
LEMMA RosterFacts ==
  ASSUME NEW a
  PROVE  a \in Rosters <=> DOMAIN a \subseteq Nat /\ a \in [DOMAIN a -> AgentRecs]
<1>1. ASSUME a \in Rosters PROVE DOMAIN a \subseteq Nat /\ a \in [DOMAIN a -> AgentRecs]
  BY <1>1 DEF Rosters
<1>2. ASSUME DOMAIN a \subseteq Nat, a \in [DOMAIN a -> AgentRecs] PROVE a \in Rosters
  BY <1>2 DEF Rosters
<1> QED
  BY <1>1, <1>2

(* FirstNamed chooses a terminal of that name.                             *)
LEMMA FirstNamedFacts ==
  ASSUME WorldTypes, NEW n, Named(n) # {}
  PROVE  FirstNamed(n) \in Named(n)
<1> DEFINE T == {k \in DOMAIN open : name[open[k]] = n}
           First(k) == name[open[k]] = n /\ \A m \in 1 .. k - 1 : name[open[m]] # n
<1>1. DOMAIN open = 1 .. Len(open) /\ Len(open) \in Nat
  BY DEF WorldTypes
<1>2. T # {} /\ T \subseteq Nat
  BY <1>1 DEF Named, Open, Range
<1>3. PICK k \in T : \A m \in T : k <= m
  BY <1>2, NatSetMin
<1>4. k \in DOMAIN open /\ First(k)
  BY <1>1, <1>3
<1> DEFINE c == CHOOSE j \in DOMAIN open : First(j)
<1>5. c \in DOMAIN open /\ First(c)
  <2> HIDE DEF First
  <2> QED
    BY <1>4
<1>6. FirstNamed(n) = open[c]
  BY DEF FirstNamed
<1> HIDE DEF c
<1> QED
  BY <1>5, <1>6 DEF Named, Open, Range

(* Largest chooses the largest of a set that has a bound.                  *)
LEMMA LargestFacts ==
  ASSUME NEW S \in SUBSET Nat, S # {}, NEW k \in Nat, \A n \in S : n <= k
  PROVE  Largest(S) \in S /\ \A n \in S : n <= Largest(S)
<1> DEFINE T == {j \in Nat : \A n \in S : n <= j}
<1>1. PICK m \in T : \A j \in T : m <= j
  <2>1. k \in T /\ T \subseteq Nat
    OBVIOUS
  <2> HIDE DEF T
  <2> QED
    BY <2>1, NatSetMin
<1>2. m \in S
  <2> SUFFICES ASSUME m \notin S PROVE FALSE
    OBVIOUS
  <2>1. PICK n \in S : TRUE
    OBVIOUS
  <2>2. \A j \in S : j <= m - 1
    BY <1>1
  <2>3. m - 1 \in T
    BY <2>1, <2>2
  <2> QED
    BY <2>3, <1>1
<1>3. \A n \in S : n <= m
  BY <1>1
<1> QED
  BY <1>2, <1>3 DEF Largest

(* persistAgents stores the list and changes nothing else.                 *)
LEMMA PersistFacts ==
  ASSUME NEW s \in Exts
  PROVE  /\ persistAgents(s) \in Exts /\ persistAgents(s).saved = ListOf(s)
         /\ persistAgents(s) = [agents |-> s.agents, known |-> s.known, active |-> s.active,
              nextId |-> s.nextId, nextTerm |-> s.nextTerm, scanning |-> s.scanning,
              saved |-> ListOf(s), processed |-> s.processed]
<1>1. DOMAIN s.agents \subseteq Nat /\ s.agents \in [DOMAIN s.agents -> AgentRecs]
  BY RosterFacts DEF Exts
<1>2. ListOf(s) \subseteq Entries
  BY <1>1 DEF ListOf, AgentIds, Entries, AgentRecs
<1>3. persistAgents(s) = [s EXCEPT !.saved = ListOf(s)]
  BY DEF persistAgents
<1> QED
  BY <1>2, <1>3 DEF Exts

(* The list that is stored has each id and each file once.                 *)
LEMMA PersistOrderly ==
  ASSUME NEW s \in Exts, OwnFiles(s)
  PROVE  OwnFiles(persistAgents(s)) /\ ListStored(persistAgents(s))
<1> DEFINE n == persistAgents(s)
<1>1. /\ n.agents = s.agents /\ n.known = s.known /\ n.nextId = s.nextId /\ n.saved = ListOf(s)
      /\ AgentIds(n) = AgentIds(s) /\ ListOf(n) = ListOf(s)
  BY PersistFacts DEF AgentIds, ListOf
<1>2. AgentIds(s) \subseteq Nat /\ s.nextId \in Nat
  BY RosterFacts DEF Exts, AgentIds
<1> HIDE DEF n
<1>3. \A p \in ListOf(s) : /\ p.id \in AgentIds(s) /\ p.file = s.agents[p.id].file
                           /\ p.name = s.agents[p.id].name /\ p.term = s.agents[p.id].term
                           /\ p = [id |-> p.id, name |-> p.name, file |-> p.file, term |-> p.term]
  BY DEF ListOf
<1>4. \A p, q \in ListOf(s) : p.id = q.id \/ p.file = q.file => p = q
  BY <1>3 DEF OwnFiles
<1>5. PICK k \in Nat : Bounds(s, k)
  BY DEF OwnFiles
<1> DEFINE m == IF k >= s.nextId THEN k ELSE s.nextId
<1>6. m \in Nat /\ k <= m /\ s.nextId <= m
  BY <1>2
<1>7. Bounds(n, m)
  <2> HIDE DEF m
  <2>1. \A i \in AgentIds(s) : i < m /\ (s.agents[i].name \in Nat => s.agents[i].name < m)
    BY <1>2, <1>5, <1>6 DEF Bounds, OwnFiles
  <2> QED
    BY <1>1, <1>3, <2>1 DEF Bounds
<1>8. \A i, j \in AgentIds(n) : n.agents[i].file = n.agents[j].file => i = j
  BY <1>1 DEF OwnFiles
<1>9. \A i \in AgentIds(n) : i < n.nextId /\ n.agents[i].file \in n.known
  BY <1>1 DEF OwnFiles
<1> QED
  BY <1>1, <1>4, <1>6, <1>7, <1>8, <1>9 DEF OwnFiles, ListStored, n

(* Record by field: the same extension with other agents.                  *)
LEMMA ExtIsRecord ==
  ASSUME NEW s \in Exts
  PROVE  s = [agents |-> s.agents, known |-> s.known, active |-> s.active, nextId |-> s.nextId,
              nextTerm |-> s.nextTerm, scanning |-> s.scanning, saved |-> s.saved, processed |-> s.processed]
BY DEF Exts

(* readNewLines, field by field.                                           *)
LEMMA ReadFacts ==
  ASSUME NEW s \in Exts, NEW id \in AgentIds(s), Exists(s.agents[id].file), WorldTypes
  PROVE  LET n == readNewLines(s, id)
             f == s.agents[id].file IN
         /\ n \in Exts
         /\ n.known = s.known /\ n.active = s.active /\ n.nextId = s.nextId /\ n.nextTerm = s.nextTerm
         /\ n.scanning = s.scanning /\ n.saved = s.saved
         /\ n.agents = [s.agents EXCEPT ![id].offset = size[f]]
         /\ n.processed = [s.processed EXCEPT ![f] = @ + (size[f] - s.agents[id].offset)]
<1> DEFINE f == s.agents[id].file
           n == readNewLines(s, id)
<1>1. s.agents \in [AgentIds(s) -> AgentRecs] /\ AgentIds(s) \subseteq Nat
  BY RosterFacts DEF Exts, AgentIds
<1>2. s.agents[id] \in AgentRecs
  BY <1>1
<1>3. f \in Files /\ s.agents[id].offset \in Int /\ s.processed[f] \in Int /\ size[f] \in Nat
  BY <1>2 DEF AgentRecs, Exts, Exists, WorldTypes
<1>4. n = [s EXCEPT !.agents = [s.agents EXCEPT ![id].offset = size[f]],
                    !.processed = [s.processed EXCEPT ![f] = @ + (size[f] - s.agents[id].offset)]]
  BY DEF readNewLines, Exts
<1> HIDE DEF n
<1>5. n = [agents |-> [s.agents EXCEPT ![id].offset = size[f]], known |-> s.known, active |-> s.active,
           nextId |-> s.nextId, nextTerm |-> s.nextTerm, scanning |-> s.scanning, saved |-> s.saved,
           processed |-> [s.processed EXCEPT ![f] = @ + (size[f] - s.agents[id].offset)]]
  BY <1>4 DEF Exts
<1>6. [s.agents EXCEPT ![id].offset = size[f]] \in [AgentIds(s) -> AgentRecs]
  BY <1>1, <1>2, <1>3 DEF AgentRecs
<1>7. [s.agents EXCEPT ![id].offset = size[f]] \in Rosters
  BY <1>1, <1>6, RosterFacts DEF AgentIds
<1>8. [s.processed EXCEPT ![f] = @ + (size[f] - s.agents[id].offset)] \in [Files -> Int]
  BY <1>3 DEF Exts
<1>9. n \in Exts
  BY <1>5, <1>7, <1>8 DEF Exts
<1> QED
  BY <1>5, <1>9 DEF n

(* After reading, every line of the file is counted, and none twice.       *)
LEMMA ReadOrderly ==
  ASSUME NEW s \in Exts, NEW id \in AgentIds(s), Exists(s.agents[id].file), WorldTypes,
         Orderly(s)
  PROVE  LET n == readNewLines(s, id) IN
         /\ n \in Exts /\ Orderly(n)
         /\ ListStored(s) => ListStored(n)
         /\ AgentIds(n) = AgentIds(s) /\ n.known = s.known /\ n.active = s.active /\ n.scanning = s.scanning
         /\ \A i \in AgentIds(s) : /\ n.agents[i].term = s.agents[i].term
                                   /\ n.agents[i].name = s.agents[i].name
                                   /\ n.agents[i].file = s.agents[i].file
<1> DEFINE f == s.agents[id].file
           n == readNewLines(s, id)
<1>1. s.agents \in [AgentIds(s) -> AgentRecs] /\ AgentIds(s) \subseteq Nat
  BY RosterFacts DEF Exts, AgentIds
<1>2. f \in Files /\ s.agents[id].offset \in Int /\ s.processed[f] \in Int /\ size[f] \in Nat
  BY <1>1 DEF AgentRecs, Exts, Exists, WorldTypes
<1>3. /\ n \in Exts
      /\ n.known = s.known /\ n.active = s.active /\ n.nextId = s.nextId /\ n.nextTerm = s.nextTerm
      /\ n.scanning = s.scanning /\ n.saved = s.saved
      /\ n.agents = [s.agents EXCEPT ![id].offset = size[f]]
      /\ n.processed = [s.processed EXCEPT ![f] = @ + (size[f] - s.agents[id].offset)]
  BY ReadFacts
<1> HIDE DEF n
<1>4. AgentIds(n) = AgentIds(s)
  BY <1>3 DEF AgentIds
<1>5. \A i \in AgentIds(s) : /\ n.agents[i].term = s.agents[i].term
                             /\ n.agents[i].name = s.agents[i].name
                             /\ n.agents[i].file = s.agents[i].file
                             /\ n.agents[i].offset = IF i = id THEN size[f] ELSE s.agents[i].offset
  BY <1>1, <1>3 DEF AgentRecs
<1>6. \A g \in Files : n.processed[g] = IF g = f THEN s.processed[f] + (size[f] - s.agents[id].offset)
                                        ELSE s.processed[g]
  BY <1>3 DEF Exts
<1>7. OwnFiles(n)
  <2>1. PICK k \in Nat : Bounds(s, k)
    BY DEF Orderly, OwnFiles
  <2>2. Bounds(n, k)
    BY <2>1, <1>3, <1>4, <1>5 DEF Bounds
  <2> QED
    BY <1>3, <1>4, <1>5, <2>1, <2>2 DEF Orderly, OwnFiles
<1>8. n.processed[f] <= size[f]
  BY <1>2, <1>6 DEF Orderly, Counted
<1>9. Counted(n)
  <2>1. \A i \in AgentIds(n) : n.processed[n.agents[i].file] <= n.agents[i].offset
    <3> SUFFICES ASSUME NEW i \in AgentIds(s) PROVE n.processed[n.agents[i].file] <= n.agents[i].offset
      BY <1>4
    <3>1. CASE i = id
      BY <3>1, <1>5, <1>8
    <3>2. CASE i # id
      <4>1. s.agents[i].file # f /\ s.agents[i].file \in Files
        BY <3>2, <1>1 DEF Orderly, OwnFiles, AgentRecs
      <4>2. s.processed[s.agents[i].file] <= s.agents[i].offset
        BY DEF Orderly, Counted
      <4> QED
        BY <4>1, <4>2, <3>2, <1>5, <1>6
    <3> QED
      BY <3>1, <3>2
  <2>2. \A g \in Files : IF Exists(g) THEN n.processed[g] <= size[g] ELSE n.processed[g] <= 0
    BY <1>6, <1>8 DEF Orderly, Counted
  <2>3. f \notin OnDisk \ n.known
    BY <1>3 DEF Orderly, OwnFiles
  <2>4. \A g \in OnDisk \ n.known : n.scanning => n.processed[g] <= 0
    BY <2>3, <1>3, <1>6 DEF Orderly, Counted, OnDisk
  <2> QED
    BY <2>1, <2>2, <2>4 DEF Counted
<1>10. Unstarted(n)
  BY <1>3, <1>4 DEF Orderly, Unstarted
<1>11. ListStored(s) => ListStored(n)
  <2>1. ListOf(n) = ListOf(s)
    BY <1>4, <1>5 DEF ListOf
  <2> QED
    BY <2>1, <1>3 DEF ListStored
<1> QED
  BY <1>3, <1>4, <1>5, <1>7, <1>9, <1>10, <1>11 DEF Orderly, n

(* A file that is known but that no agent follows, and nobody has read.    *)
Untouched(s, f) ==
  /\ f \in s.known /\ s.processed[f] <= 0
  /\ \A i \in AgentIds(s) : s.agents[i].file # f

(* An agent put on such a file has read nothing of it.                     *)
LEMMA SwappedOrderly ==
  ASSUME NEW s \in Exts, NEW id \in AgentIds(s), NEW f \in Files, Orderly(s), Untouched(s, f)
  PROVE  LET n == Swapped(s, id, f) IN
         /\ n \in Exts /\ Orderly(n)
         /\ AgentIds(n) = AgentIds(s) /\ n.known = s.known /\ n.active = s.active /\ n.scanning = s.scanning
         /\ \A i \in AgentIds(s) : /\ n.agents[i].term = s.agents[i].term
                                   /\ n.agents[i].name = s.agents[i].name
                                   /\ n.agents[i].file = IF i = id THEN f ELSE s.agents[i].file
<1> DEFINE n == Swapped(s, id, f)
           old == s.agents[id]
           new == [old EXCEPT !.file = f, !.offset = 0, !.watched = TRUE]
           roster == [s.agents EXCEPT ![id] = new]
<1>1. s.agents \in [AgentIds(s) -> AgentRecs] /\ AgentIds(s) \subseteq Nat
  BY RosterFacts DEF Exts, AgentIds
<1>2. new \in AgentRecs
  <2>1. old \in AgentRecs
    BY <1>1
  <2> HIDE DEF old
  <2>2. new = [term |-> old.term, name |-> old.name, file |-> f, offset |-> 0, watched |-> TRUE, polls |-> old.polls]
    <3>1. new = [old EXCEPT !.file = f, !.offset = 0, !.watched = TRUE]
      OBVIOUS
    <3> HIDE DEF new
    <3> QED
      BY <2>1, <3>1 DEF AgentRecs
  <2>3. TRUE \in BOOLEAN /\ 0 \in Int
    OBVIOUS
  <2> HIDE DEF new
  <2> QED
    BY <2>1, <2>2, <2>3 DEF AgentRecs
<1>3. n = [s EXCEPT !.agents = roster]
  BY DEF Swapped, Exts
<1>4. new.term = s.agents[id].term /\ new.name = s.agents[id].name /\ new.file = f /\ new.offset = 0
  BY <1>1 DEF AgentRecs
<1> HIDE DEF n, new
<1>5. roster \in [AgentIds(s) -> AgentRecs]
  BY <1>1, <1>2
<1>6. roster \in Rosters
  BY <1>1, <1>5, RosterFacts DEF AgentIds
<1>7. /\ n \in Exts /\ n.agents = roster
      /\ n.known = s.known /\ n.active = s.active /\ n.nextId = s.nextId /\ n.nextTerm = s.nextTerm
      /\ n.scanning = s.scanning /\ n.saved = s.saved /\ n.processed = s.processed
  BY <1>3, <1>6 DEF Exts
<1>8. AgentIds(n) = AgentIds(s)
  BY <1>7, <1>5 DEF AgentIds
<1>9. \A i \in AgentIds(s) : n.agents[i] = IF i = id THEN new ELSE s.agents[i]
  BY <1>1, <1>7
<1> HIDE DEF roster
<1>10. \A i \in AgentIds(s) : /\ n.agents[i].term = s.agents[i].term
                              /\ n.agents[i].name = s.agents[i].name
                              /\ n.agents[i].file = IF i = id THEN f ELSE s.agents[i].file
                              /\ n.agents[i].offset = IF i = id THEN 0 ELSE s.agents[i].offset
  BY <1>4, <1>9
<1>11. OwnFiles(n)
  <2>1. PICK k \in Nat : Bounds(s, k)
    BY DEF Orderly, OwnFiles
  <2>2. Bounds(n, k)
    BY <2>1, <1>7, <1>8, <1>10 DEF Bounds
  <2>3. \A i \in AgentIds(n) : i < n.nextId /\ n.agents[i].file \in n.known
    BY <1>7, <1>8, <1>10 DEF Orderly, OwnFiles, Untouched
  <2>4. \A i, j \in AgentIds(n) : n.agents[i].file = n.agents[j].file => i = j
    BY <1>8, <1>10 DEF Orderly, OwnFiles, Untouched
  <2>5. \A p, q \in n.saved : p.id = q.id \/ p.file = q.file => p = q
    BY <1>7 DEF Orderly, OwnFiles
  <2> QED
    BY <2>1, <2>2, <2>3, <2>4, <2>5 DEF OwnFiles
<1>12. Counted(n)
  BY <1>7, <1>8, <1>10 DEF Orderly, Counted, Untouched
<1>13. Unstarted(n)
  BY <1>7, <1>8 DEF Orderly, Unstarted
<1> QED
  BY <1>7, <1>8, <1>10, <1>11, <1>12, <1>13 DEF Orderly, n

(* persistAgents keeps what is orderly, and makes the list true.           *)
LEMMA PersistGood ==
  ASSUME NEW s \in Exts, Orderly(s)
  PROVE  LET n == persistAgents(s) IN
         /\ n \in Exts /\ Orderly(n) /\ ListStored(n)
         /\ n.agents = s.agents /\ AgentIds(n) = AgentIds(s)
         /\ n.known = s.known /\ n.active = s.active /\ n.nextId = s.nextId /\ n.nextTerm = s.nextTerm
         /\ n.scanning = s.scanning /\ n.saved = ListOf(s) /\ n.processed = s.processed
<1> DEFINE n == persistAgents(s)
<1>1. /\ n \in Exts /\ n.agents = s.agents /\ AgentIds(n) = AgentIds(s)
      /\ n.known = s.known /\ n.active = s.active /\ n.nextId = s.nextId /\ n.nextTerm = s.nextTerm
      /\ n.scanning = s.scanning /\ n.saved = ListOf(s) /\ n.processed = s.processed
  BY PersistFacts DEF AgentIds
<1>2. OwnFiles(n) /\ ListStored(n)
  BY PersistOrderly DEF Orderly
<1> HIDE DEF n
<1>3. Counted(n) /\ Unstarted(n)
  BY <1>1 DEF Orderly, Counted, Unstarted
<1> QED
  BY <1>1, <1>2, <1>3 DEF Orderly, n

(* reassignAgentToFile changes the file of one agent.                      *)
LEMMA ReassignGood ==
  ASSUME NEW s \in Exts, NEW id \in AgentIds(s), NEW f \in Files, Orderly(s), Untouched(s, f),
         WorldTypes, Exists(f)
  PROVE  LET n == reassignAgentToFile(s, id, f) IN
         n \in Exts /\ Orderly(n) /\ ListStored(n) /\ SameBut(s, n, id, f)
<1> DEFINE a == Swapped(s, id, f)
           b == persistAgents(a)
           n == readNewLines(b, id)
<1>1. /\ a \in Exts /\ Orderly(a)
      /\ AgentIds(a) = AgentIds(s) /\ a.known = s.known /\ a.active = s.active /\ a.scanning = s.scanning
      /\ \A i \in AgentIds(s) : /\ a.agents[i].term = s.agents[i].term
                                /\ a.agents[i].name = s.agents[i].name
                                /\ a.agents[i].file = IF i = id THEN f ELSE s.agents[i].file
  BY SwappedOrderly
<1> HIDE DEF a
<1>2. /\ b \in Exts /\ Orderly(b) /\ ListStored(b) /\ b.agents = a.agents /\ AgentIds(b) = AgentIds(a)
      /\ b.known = a.known /\ b.active = a.active /\ b.scanning = a.scanning
  BY <1>1, PersistGood
<1> HIDE DEF b
<1>3. id \in AgentIds(b) /\ Exists(b.agents[id].file)
  BY <1>1, <1>2
<1>4. /\ n \in Exts /\ Orderly(n)
      /\ ListStored(b) => ListStored(n)
      /\ AgentIds(n) = AgentIds(b) /\ n.known = b.known /\ n.active = b.active /\ n.scanning = b.scanning
      /\ \A i \in AgentIds(b) : /\ n.agents[i].term = b.agents[i].term
                                /\ n.agents[i].name = b.agents[i].name
                                /\ n.agents[i].file = b.agents[i].file
  BY <1>2, <1>3, ReadOrderly
<1> HIDE DEF n
<1>5. n = reassignAgentToFile(s, id, f)
  BY DEF reassignAgentToFile, n, b, a
<1> QED
  BY <1>1, <1>2, <1>4, <1>5 DEF SameBut

(* A new agent on a file that nobody has read.                             *)
Employed(s, a, x) ==
  [With(s, s.nextId, a) EXCEPT !.nextId = @ + 1, !.active = s.nextId, !.nextTerm = x]
Hired(s, n, a) ==
  /\ n \in Exts /\ Orderly(n) /\ AgentIds(n) = AgentIds(s) \cup {s.nextId} /\ s.nextId \notin AgentIds(s)
  /\ n.known = s.known /\ n.active = s.nextId /\ n.scanning = s.scanning
  /\ n.agents[s.nextId] = a /\ \A i \in AgentIds(s) : n.agents[i] = s.agents[i]

LEMMA NewAgentGood ==
  ASSUME NEW s \in Exts, NEW a \in AgentRecs, a.offset = 0, Untouched(s, a.file), Orderly(s), s.scanning,
         NEW x \in Nat
  PROVE  Hired(s, Employed(s, a, x), a)
<1> DEFINE id == s.nextId
           roster == [i \in AgentIds(s) \cup {id} |-> IF i = id THEN a ELSE s.agents[i]]
           n == Employed(s, a, x)
<1>1. s.agents \in [AgentIds(s) -> AgentRecs] /\ AgentIds(s) \subseteq Nat /\ id \in Nat
  BY RosterFacts DEF Exts, AgentIds
<1>2. id \notin AgentIds(s)
  BY <1>1 DEF Orderly, OwnFiles
<1>3. roster \in [AgentIds(s) \cup {id} -> AgentRecs] /\ DOMAIN roster \subseteq Nat
  BY <1>1
<1>4. roster \in Rosters
  BY <1>3, RosterFacts
<1> DEFINE w == With(s, s.nextId, a)
<1>5. w = [agents |-> roster, known |-> s.known, active |-> s.active, nextId |-> id, nextTerm |-> s.nextTerm,
           scanning |-> s.scanning, saved |-> s.saved, processed |-> s.processed]
  <2>1. w = [s EXCEPT !.agents = roster]
    BY DEF With, Exts
  <2> HIDE DEF w, roster
  <2> QED
    BY <2>1 DEF Exts
<1>5a. n = [w EXCEPT !.nextId = @ + 1, !.active = s.nextId, !.nextTerm = x]
  BY DEF Employed
<1> HIDE DEF w, roster, n
<1>6. n = [agents |-> roster, known |-> s.known, active |-> id, nextId |-> id + 1, nextTerm |-> x,
           scanning |-> s.scanning, saved |-> s.saved, processed |-> s.processed]
  BY <1>5a, <1>5
<1>7. n \in Exts
  <2> HIDE DEF n
  <2> QED
    BY <1>1, <1>4, <1>6 DEF Exts
<1>8. /\ AgentIds(n) = AgentIds(s) \cup {id} /\ n.agents[id] = a
      /\ \A i \in AgentIds(s) : n.agents[i] = s.agents[i]
      /\ n.known = s.known /\ n.active = id /\ n.scanning = s.scanning /\ n.saved = s.saved
      /\ n.processed = s.processed /\ n.nextId = id + 1
  <2> HIDE DEF n
  <2> QED
    BY <1>2, <1>6 DEF AgentIds, roster
<1> HIDE DEF n
<1>9. OwnFiles(n)
  <2>1. PICK k \in Nat : Bounds(s, k)
    BY DEF Orderly, OwnFiles
  <2> DEFINE m == IF a.name \in Nat /\ a.name >= k THEN a.name + 1 ELSE k
  <2>2. m \in Nat /\ k <= m /\ (a.name \in Nat => a.name < m)
    OBVIOUS
  <2> HIDE DEF m
  <2>3. \A i \in AgentIds(n) : n.agents[i].name \in Nat => n.agents[i].name < m
    BY <2>1, <2>2, <1>8 DEF Bounds
  <2>4. \A p \in n.saved : p.id < m /\ (p.name \in Nat => p.name < m)
    BY <2>1, <2>2, <1>8 DEF Bounds, Exts, Entries
  <2>5. \A i \in AgentIds(n) : i < n.nextId /\ n.agents[i].file \in n.known
    BY <1>1, <1>8 DEF Orderly, OwnFiles, Untouched
  <2>6. \A i, j \in AgentIds(n) : n.agents[i].file = n.agents[j].file => i = j
    BY <1>8 DEF Orderly, OwnFiles, Untouched
  <2>7. \A p, q \in n.saved : p.id = q.id \/ p.file = q.file => p = q
    BY <1>8 DEF Orderly, OwnFiles
  <2> QED
    BY <2>2, <2>3, <2>4, <2>5, <2>6, <2>7 DEF OwnFiles, Bounds
<1>10. Counted(n)
  BY <1>8 DEF Orderly, Counted, Untouched
<1>11. Unstarted(n)
  BY <1>8 DEF Unstarted
<1> QED
  BY <1>2, <1>7, <1>8, <1>9, <1>10, <1>11 DEF Hired, Orderly, n

(* adoptTerminalForFile adds one agent, in the terminal.                   *)
LEMMA AdoptGood ==
  ASSUME NEW s \in Exts, NEW t \in Terminals, NEW f \in Files, Orderly(s), s.scanning, Untouched(s, f),
         WorldTypes, Exists(f)
  PROVE  LET n == adoptTerminalForFile(s, t, f) IN
         n \in Exts /\ Orderly(n) /\ ListStored(n) /\ OneMore(s, n, t, f)
<1> DEFINE id == s.nextId
           rec == Agent(t, name[t], f, 0, TRUE, {})
           w == With(s, s.nextId, rec)
           a == [w EXCEPT !.nextId = @ + 1, !.active = s.nextId]
           a2 == Employed(s, rec, s.nextTerm)
           b == persistAgents(a)
           n == readNewLines(b, id)
<1>1. rec \in AgentRecs /\ rec.offset = 0 /\ rec.file = f /\ rec.term = t /\ rec.name = name[t]
  BY DEF Agent, AgentRecs, WorldTypes, Names
<1>2. s.nextTerm \in Nat /\ Untouched(s, rec.file)
  BY <1>1 DEF Exts
<1> HIDE DEF rec
<1>3. /\ a2 \in Exts /\ Orderly(a2) /\ AgentIds(a2) = AgentIds(s) \cup {id} /\ id \notin AgentIds(s)
      /\ a2.known = s.known /\ a2.active = id /\ a2.scanning = s.scanning
      /\ a2.agents[id] = rec /\ \A i \in AgentIds(s) : a2.agents[i] = s.agents[i]
  <2>1. Hired(s, a2, rec)
    BY <1>1, <1>2, NewAgentGood
  <2> QED
    BY <2>1 DEF Hired
<1>4. a = a2
  <2>1. w.nextTerm = s.nextTerm /\ DOMAIN w = DOMAIN s
    BY DEF With, Exts
  <2>2. a2 = [w EXCEPT !.nextId = @ + 1, !.active = s.nextId, !.nextTerm = s.nextTerm]
    BY DEF Employed
  <2>3. a = [w EXCEPT !.nextId = @ + 1, !.active = s.nextId]
    OBVIOUS
  <2> HIDE DEF w, a, a2
  <2> QED
    BY <2>1, <2>2, <2>3
<1> HIDE DEF a, a2
<1>5. /\ b \in Exts /\ Orderly(b) /\ ListStored(b) /\ b.agents = a.agents /\ AgentIds(b) = AgentIds(a)
      /\ b.known = a.known /\ b.active = a.active /\ b.scanning = a.scanning
  BY <1>3, <1>4, PersistGood
<1> HIDE DEF b
<1>6. id \in AgentIds(b) /\ Exists(b.agents[id].file)
  BY <1>1, <1>3, <1>4, <1>5
<1>7. /\ n \in Exts /\ Orderly(n)
      /\ ListStored(b) => ListStored(n)
      /\ AgentIds(n) = AgentIds(b) /\ n.known = b.known /\ n.active = b.active /\ n.scanning = b.scanning
      /\ \A i \in AgentIds(b) : /\ n.agents[i].term = b.agents[i].term
                                /\ n.agents[i].name = b.agents[i].name
                                /\ n.agents[i].file = b.agents[i].file
  BY <1>5, <1>6, ReadOrderly
<1> HIDE DEF n
<1>8. n = adoptTerminalForFile(s, t, f)
  BY DEF adoptTerminalForFile, n, b, a, w, rec
<1> QED
  <2>1. OneMore(s, n, t, f)
    BY <1>1, <1>3, <1>4, <1>5, <1>7 DEF OneMore
  <2> QED
    BY <2>1, <1>5, <1>7, <1>8

(* A file of the scan: the active agent goes on to it, or the terminal in  *)
(* focus is adopted, or nothing happens.                                   *)
MovedOn(s, n, f) ==
  /\ n.known = s.known \cup {f} /\ n.scanning
  /\ AgentIds(s) \subseteq AgentIds(n)
  /\ \A i \in AgentIds(s) : /\ n.agents[i].term = s.agents[i].term
                            /\ n.agents[i].name = s.agents[i].name
                            /\ n.agents[i].file = IF i = s.active THEN f ELSE s.agents[i].file
  /\ \A i \in AgentIds(n) \ AgentIds(s) :
       /\ n.agents[i].term = focus /\ n.agents[i].name = name[focus] /\ n.agents[i].file = f
       /\ focus # None /\ n.active = i /\ s.active = None /\ OwnerOf(s, focus) = {}
  /\ n.active # s.active => n.active \in AgentIds(n) \ AgentIds(s)
  /\ s.active = None /\ focus # None /\ OwnerOf(s, focus) = {} => n.active # None

(* None is not the number of an agent.                                     *)
LEMMA NoneIsNoId == ASSUME NEW s \in Exts PROVE None \notin AgentIds(s) /\ s.nextId # None
BY TrackerAssumption, RosterFacts DEF Exts, AgentIds

(* Each file of the scan keeps the extension orderly.                      *)
LEMMA FoundGood ==
  ASSUME NEW s \in Exts, NEW f \in OnDisk \ s.known, Orderly(s), ListStored(s), s.scanning, WorldTypes
  PROVE  /\ Found(s, f) \in Exts /\ Orderly(Found(s, f)) /\ ListStored(Found(s, f))
         /\ MovedOn(s, Found(s, f), f)
<1> DEFINE new == [s EXCEPT !.known = @ \cup {f}]
           n == Found(s, f)
<1>1. f \in Files /\ Exists(f)
  BY DEF OnDisk
<1>2. new = [s EXCEPT !.known = s.known \cup {f}]
  BY DEF Exts
<1>3. /\ new \in Exts /\ new.agents = s.agents /\ AgentIds(new) = AgentIds(s)
      /\ new.known = s.known \cup {f} /\ new.active = s.active /\ new.nextId = s.nextId
      /\ new.scanning = s.scanning /\ new.saved = s.saved /\ new.processed = s.processed
  <2> HIDE DEF new
  <2> QED
    BY <1>1, <1>2 DEF Exts, AgentIds
<1>4. n = IF new.active # None
          THEN IF new.active \in AgentIds(new) THEN reassignAgentToFile(new, new.active, f) ELSE new
          ELSE IF focus # None /\ OwnerOf(new, focus) = {} THEN adoptTerminalForFile(new, focus, f) ELSE new
  BY DEF Found
<1> HIDE DEF new, n
<1>5. OwnFiles(new)
  <2>1. PICK k \in Nat : Bounds(s, k)
    BY DEF Orderly, OwnFiles
  <2>2. Bounds(new, k)
    BY <2>1, <1>3 DEF Bounds
  <2> QED
    BY <1>3, <2>1, <2>2 DEF Orderly, OwnFiles
<1>6. Counted(new) /\ Unstarted(new)
  BY <1>3 DEF Orderly, Counted, Unstarted
<1>7. Orderly(new) /\ Untouched(new, f) /\ ListStored(new)
  <2>1. s.processed[f] <= 0
    BY DEF Orderly, Counted
  <2>2. \A i \in AgentIds(s) : s.agents[i].file # f
    BY DEF Orderly, OwnFiles
  <2>3. ListOf(new) = ListOf(s)
    BY <1>3 DEF ListOf
  <2> QED
    BY <1>3, <1>5, <1>6, <2>1, <2>2, <2>3 DEF Orderly, Untouched, ListStored
<1>8. OwnerOf(new, focus) = OwnerOf(s, focus)
  BY <1>3 DEF OwnerOf
<1>9. CASE s.active # None /\ s.active \in AgentIds(s)
  <2>1. n = reassignAgentToFile(new, s.active, f) /\ s.active \in AgentIds(new)
    BY <1>3, <1>4, <1>9
  <2> DEFINE m == reassignAgentToFile(new, s.active, f)
  <2>2. m \in Exts /\ Orderly(m) /\ ListStored(m) /\ SameBut(new, m, s.active, f)
    BY <1>1, <1>3, <1>7, <1>9, ReassignGood
  <2> HIDE DEF m
  <2>3. n = m
    BY <2>1 DEF m
  <2>4. /\ AgentIds(n) = AgentIds(s) /\ n.known = s.known \cup {f} /\ n.active = s.active /\ n.scanning
        /\ \A i \in AgentIds(s) : /\ n.agents[i].term = s.agents[i].term
                                  /\ n.agents[i].name = s.agents[i].name
                                  /\ n.agents[i].file = IF i = s.active THEN f ELSE s.agents[i].file
    <3>1. SameBut(new, m, s.active, f)
      BY <2>2
    <3>2. /\ AgentIds(m) = AgentIds(new) /\ m.known = new.known /\ m.active = new.active
          /\ m.scanning = new.scanning
          /\ \A i \in AgentIds(new) : /\ m.agents[i].term = new.agents[i].term
                                      /\ m.agents[i].name = new.agents[i].name
                                      /\ m.agents[i].file = IF i = s.active THEN f ELSE new.agents[i].file
      BY <3>1 DEF SameBut
    <3> QED
      BY <1>3, <2>3, <3>2
  <2>5. MovedOn(s, n, f)
    BY <1>9, <2>4 DEF MovedOn
  <2> QED
    BY <2>2, <2>3, <2>5 DEF n
<1>10. CASE s.active # None /\ s.active \notin AgentIds(s)
  <2>1. n = new
    BY <1>3, <1>4, <1>10
  <2> QED
    BY <1>3, <1>7, <1>10, <2>1 DEF MovedOn, n
<1>11. CASE s.active = None /\ focus # None /\ OwnerOf(s, focus) = {}
  <2>1. n = adoptTerminalForFile(new, focus, f)
    BY <1>3, <1>4, <1>8, <1>11
  <2>2. focus \in Terminals
    BY <1>11 DEF WorldTypes, Open, Range
  <2> DEFINE m == adoptTerminalForFile(new, focus, f)
  <2>3. m \in Exts /\ Orderly(m) /\ ListStored(m) /\ OneMore(new, m, focus, f)
    BY <1>1, <1>3, <1>7, <2>2, AdoptGood
  <2> HIDE DEF m
  <2>5. n = m
    BY <2>1 DEF m
  <2>4. None \notin AgentIds(s) /\ s.nextId # None
    BY NoneIsNoId
  <2>6. /\ AgentIds(n) = AgentIds(s) \cup {s.nextId} /\ s.nextId \notin AgentIds(s)
        /\ n.known = s.known \cup {f} /\ n.active = s.nextId /\ n.scanning
        /\ n.agents[s.nextId].term = focus /\ n.agents[s.nextId].name = name[focus] /\ n.agents[s.nextId].file = f
    BY <1>3, <2>3, <2>5 DEF OneMore
  <2>7. \A i \in AgentIds(s) : /\ n.agents[i].term = s.agents[i].term
                               /\ n.agents[i].name = s.agents[i].name
                               /\ n.agents[i].file = s.agents[i].file
    BY <1>3, <2>3, <2>5 DEF OneMore
  <2>8. MovedOn(s, n, f)
    BY <1>11, <2>4, <2>6, <2>7 DEF MovedOn
  <2> QED
    BY <2>3, <2>5, <2>8 DEF n
<1>12. CASE s.active = None /\ ~(focus # None /\ OwnerOf(s, focus) = {})
  <2>1. n = new
    BY <1>3, <1>4, <1>8, <1>12
  <2>2. None \notin AgentIds(s)
    BY NoneIsNoId
  <2> QED
    BY <1>3, <1>7, <1>12, <2>1, <2>2 DEF MovedOn, n
<1> QED
  BY <1>9, <1>10, <1>11, <1>12

(* All files of the scan.                                                  *)
Trail(s, n, seen) ==
  /\ n.known = s.known \cup seen /\ n.scanning
  /\ AgentIds(s) \subseteq AgentIds(n)
  /\ \A i \in AgentIds(s) : /\ n.agents[i].term = s.agents[i].term
                            /\ n.agents[i].name = s.agents[i].name
                            /\ i # s.active => n.agents[i].file = s.agents[i].file
  /\ \A i \in AgentIds(n) \ AgentIds(s) :
       /\ n.agents[i].term = focus /\ n.agents[i].name = name[focus]
       /\ focus # None /\ s.active = None /\ OwnerOf(s, focus) = {}
  /\ n.active # s.active => n.active \in AgentIds(n) \ AgentIds(s)
WellKept(s) == s \in Exts /\ Orderly(s) /\ ListStored(s)

(* One more file.                                                          *)
LEMMA TrailStep ==
  ASSUME NEW s \in Exts, NEW x \in Exts, NEW y \in Exts, NEW seen, NEW f,
         Trail(s, x, seen), MovedOn(x, y, f)
  PROVE  Trail(s, y, seen \cup {f})
<1>1. None \notin AgentIds(x) /\ None \notin AgentIds(s)
  BY NoneIsNoId
<1>2. y.known = s.known \cup (seen \cup {f}) /\ y.scanning /\ AgentIds(s) \subseteq AgentIds(y)
  BY DEF Trail, MovedOn
<1>3. x.active # s.active => x.active \in AgentIds(x) \ AgentIds(s)
  BY DEF Trail
<1>4. ASSUME NEW i \in AgentIds(s)
      PROVE  /\ y.agents[i].term = s.agents[i].term
             /\ y.agents[i].name = s.agents[i].name
             /\ i # s.active => y.agents[i].file = s.agents[i].file
  <2>1. i \in AgentIds(x) /\ x.agents[i].term = s.agents[i].term /\ x.agents[i].name = s.agents[i].name
    BY DEF Trail
  <2>2. i # s.active => x.agents[i].file = s.agents[i].file
    BY DEF Trail
  <2>3. /\ y.agents[i].term = x.agents[i].term /\ y.agents[i].name = x.agents[i].name
        /\ y.agents[i].file = IF i = x.active THEN f ELSE x.agents[i].file
    BY <2>1 DEF MovedOn
  <2> QED
    BY <2>1, <2>2, <2>3, <1>3
<1>5. ASSUME NEW i \in AgentIds(y) \ AgentIds(s)
      PROVE  /\ y.agents[i].term = focus /\ y.agents[i].name = name[focus]
             /\ focus # None /\ s.active = None /\ OwnerOf(s, focus) = {}
  <2>1. CASE i \in AgentIds(x)
    BY <2>1 DEF Trail, MovedOn
  <2>2. CASE i \notin AgentIds(x)
    <3>1. /\ y.agents[i].term = focus /\ y.agents[i].name = name[focus]
          /\ focus # None /\ x.active = None /\ OwnerOf(x, focus) = {}
      BY <2>2 DEF MovedOn
    <3>2. s.active = None
      BY <3>1, <1>1, <1>3
    <3>3. OwnerOf(s, focus) \subseteq OwnerOf(x, focus)
      BY DEF OwnerOf, Trail
    <3> QED
      BY <3>1, <3>2, <3>3
  <2> QED
    BY <2>1, <2>2
<1>6. y.active # s.active => y.active \in AgentIds(y) \ AgentIds(s)
  <2>1. y.active # x.active => y.active \in AgentIds(y) \ AgentIds(x)
    BY DEF MovedOn
  <2>2. AgentIds(s) \subseteq AgentIds(x) /\ AgentIds(x) \subseteq AgentIds(y)
    BY DEF Trail, MovedOn
  <2> QED
    BY <1>3, <2>1, <2>2
<1> QED
  BY <1>2, <1>4, <1>5, <1>6 DEF Trail

(* An order of a set of files has each of them once.                       *)
LEMMA OrderFacts ==
  ASSUME NEW S \in SUBSET Files, NEW order \in SetToSeqs(S)
  PROVE  /\ order \in Seq(S) /\ Len(order) \in Nat /\ Len(order) = Cardinality(S)
         /\ \A i, j \in 1 .. Len(order) : order[i] = order[j] => i = j
         /\ \A i \in 1 .. Len(order) : order[i] \in S
<1>1. IsFiniteSet(S) /\ Cardinality(S) \in Nat
  BY TrackerAssumption, FS_Subset, FS_CardinalityType
<1>2. order \in [1 .. Cardinality(S) -> S] /\ \A i, j \in 1 .. Cardinality(S) : i # j => order[i] # order[j]
  BY DEF SetToSeqs
<1>3. order \in Seq(S) /\ Len(order) = Cardinality(S)
  BY <1>1, <1>2
<1> QED
  BY <1>1, <1>2, <1>3

(* The scan, whatever the order of its files.                              *)
LEMMA FoundAllGood ==
  ASSUME NEW s, WellKept(s), s.scanning, WorldTypes, NEW order \in SetToSeqs(OnDisk \ s.known)
  PROVE  /\ WellKept(FoundAll(s, order)) /\ Trail(s, FoundAll(s, order), Range(order))
         /\ \A f : order = <<f>> => FoundAll(s, order) = Found(s, f)
<1> DEFINE N == Len(order)
           Next1(x, n) == IF Found(x, order[n]) \in Exts THEN Found(x, order[n]) ELSE x
           G == [n \in 1 .. N |-> [x \in Exts |-> Next1(x, n)]]
           Rec(f) == f = [n \in 0 .. N |-> IF n = 0 THEN s ELSE Found(f[n - 1], order[n])]
           Seen(n) == {order[m] : m \in 1 .. n}
           Good(x, n) == WellKept(x) /\ Trail(s, x, Seen(n))
<1>0. OnDisk \ s.known \subseteq Files
  BY DEF OnDisk
<1>1. /\ order \in Seq(OnDisk \ s.known) /\ N \in Nat
      /\ \A i, j \in 1 .. N : order[i] = order[j] => i = j
      /\ \A i \in 1 .. N : order[i] \in OnDisk \ s.known
  BY <1>0, OrderFacts
<1>2. s \in Exts
  BY DEF WellKept
<1>3. \A n \in 1 .. N, x \in Exts : Next1(x, n) \in Exts /\ G[n][x] = Next1(x, n)
  OBVIOUS
<1>4. G \in [1 .. N -> [Exts -> Exts]]
  BY <1>3
<1>5. PICK f : Recurs(N, Exts, s, G, f)
  <2>1. \E f : Recurs(N, Exts, s, G, f)
    <3> HIDE DEF G, N
    <3> QED
      BY <1>1, <1>2, <1>4, Recursion
  <2> QED
    BY <2>1
<1>6. f \in [0 .. N -> Exts] /\ f[0] = s /\ \A n \in 1 .. N : f[n] = G[n][f[n - 1]]
  BY <1>5 DEF Recurs
<1>7. ASSUME NEW n \in Nat, n + 1 <= N, Good(f[n], n)
      PROVE  Good(f[n + 1], n + 1) /\ f[n + 1] = Found(f[n], order[n + 1])
  <2>1. n + 1 \in 1 .. N /\ n \in 0 .. N /\ (n + 1) - 1 = n
    BY <1>1, <1>7
  <2>2. f[n + 1] = Next1(f[n], n + 1)
    <3>1. f[n + 1] = G[n + 1][f[n]] /\ f[n] \in Exts
      BY <1>6, <2>1
    <3> QED
      BY <3>1, <2>1, <1>3
  <2> DEFINE x == f[n]
             e == order[n + 1]
             y == Found(x, e)
  <2>3. x \in Exts /\ Orderly(x) /\ ListStored(x) /\ Trail(s, x, Seen(n))
    BY <1>7 DEF WellKept
  <2>4. e \in OnDisk \ s.known /\ e \notin Seen(n)
    <3>1. \A m \in 1 .. n : m \in 1 .. N /\ m # n + 1
      BY <2>1
    <3> QED
      BY <1>1, <2>1, <3>1
  <2>5. x.known = s.known \cup Seen(n) /\ x.scanning
    <3> HIDE DEF x, Seen
    <3> QED
      BY <2>3 DEF Trail
  <2> HIDE DEF Seen, x, e
  <2>6. e \in OnDisk \ x.known
    BY <2>4, <2>5
  <2>7. y \in Exts /\ Orderly(y) /\ ListStored(y) /\ MovedOn(x, y, e)
    BY <2>3, <2>5, <2>6, FoundGood
  <2> HIDE DEF y
  <2>8. Trail(s, y, Seen(n) \cup {e})
    BY <2>3, <2>7, <1>2, TrailStep
  <2>9. Seen(n) \cup {e} = Seen(n + 1)
    <3>1. 1 .. n + 1 = 1 .. n \cup {n + 1}
      BY <2>1
    <3> QED
      BY <3>1 DEF Seen, e
  <2>10. f[n + 1] = y
    BY <2>2, <2>7 DEF y, x, e
  <2> QED
    BY <2>7, <2>8, <2>9, <2>10 DEF WellKept, y, x, e
<1>8. Good(f[0], 0)
  <2>1. Seen(0) = {}
    OBVIOUS
  <2> HIDE DEF Seen
  <2> QED
    BY <1>2, <1>6, <2>1 DEF WellKept, Trail
<1> DEFINE T == {n \in Nat : n <= N => Good(f[n], n)}
<1>9. Nat \subseteq T
  <2>1. 0 \in T
    <3> HIDE DEF Good
    <3> QED
      BY <1>8
  <2>2. ASSUME NEW n \in Nat, n \in T PROVE n + 1 \in T
    <3> SUFFICES ASSUME n + 1 <= N PROVE Good(f[n + 1], n + 1)
      OBVIOUS
    <3>1. Good(f[n], n)
      <4> HIDE DEF Good
      <4> QED
        BY <1>1, <2>2
    <3> HIDE DEF Good
    <3> QED
      BY <3>1, <1>7
  <2> HIDE DEF T
  <2> QED
    BY <2>1, <2>2, NatSetInduction
<1>10. Rec(f)
  <2>1. \A n \in 1 .. N : f[n] = Found(f[n - 1], order[n])
    <3> SUFFICES ASSUME NEW n \in 1 .. N PROVE f[n] = Found(f[n - 1], order[n])
      OBVIOUS
    <3>1. n - 1 \in Nat /\ (n - 1) + 1 = n /\ (n - 1) + 1 <= N
      BY <1>1
    <3>2. Good(f[n - 1], n - 1)
      <4> HIDE DEF Good
      <4> QED
        BY <3>1, <1>1, <1>9
    <3> DEFINE k == n - 1
    <3>3. k \in Nat /\ k + 1 <= N /\ Good(f[k], k) /\ k + 1 = n
      BY <3>1, <3>2
    <3> HIDE DEF k, Good
    <3>4. f[k + 1] = Found(f[k], order[k + 1])
      BY <3>3, <1>7
    <3> QED
      BY <3>3, <3>4 DEF k
  <2> QED
    BY <2>1, <1>6
<1> DEFINE h == CHOOSE g : Rec(g)
<1>11. Rec(h)
  <2> HIDE DEF Rec
  <2> QED
    BY <1>10
<1>12. FoundAll(s, order) = h[N]
  BY DEF FoundAll
<1> HIDE DEF h
<1>13. \A n \in 0 .. N : h[n] = f[n]
  <2> DEFINE U == {n \in Nat : n <= N => h[n] = f[n]}
  <2>1. 0 \in U
    BY <1>1, <1>10, <1>11
  <2>2. ASSUME NEW n \in Nat, n \in U PROVE n + 1 \in U
    <3> SUFFICES ASSUME n + 1 <= N PROVE h[n + 1] = f[n + 1]
      OBVIOUS
    <3>1. n + 1 \in 0 .. N /\ n + 1 # 0 /\ (n + 1) - 1 = n /\ n <= N
      BY <1>1
    <3>2. h[n + 1] = Found(h[n], order[n + 1]) /\ f[n + 1] = Found(f[n], order[n + 1])
      BY <3>1, <1>10, <1>11
    <3>3. h[n] = f[n]
      BY <2>2, <3>1
    <3> QED
      BY <3>2, <3>3
  <2>3. Nat \subseteq U
    <3> HIDE DEF U
    <3> QED
      BY <2>1, <2>2, NatSetInduction
  <2> QED
    BY <2>3
<1>14. WellKept(FoundAll(s, order)) /\ Trail(s, FoundAll(s, order), Range(order))
  <2>1. Good(f[N], N)
    <3> HIDE DEF Good
    <3> QED
      BY <1>1, <1>9
  <2>2. Seen(N) = Range(order)
    BY <1>1 DEF Range
  <2>3. FoundAll(s, order) = f[N]
    BY <1>1, <1>12, <1>13
  <2> HIDE DEF Seen
  <2> QED
    BY <2>1, <2>2, <2>3
<1>15. ASSUME NEW e, order = <<e>> PROVE FoundAll(s, order) = Found(s, e)
  <2>1. N = 1 /\ order[1] = e
    BY <1>15
  <2>2. f[1] = Found(f[0], order[1])
    BY <1>10, <2>1
  <2> QED
    BY <2>1, <2>2, <1>6, <1>12, <1>13
<1> QED
  BY <1>14, <1>15

(* What the panel finds when it starts: an extension whose list is true,   *)
(* whether there is a scan yet or not.                                     *)
Settled(s) == s \in Exts /\ OwnFiles(s) /\ Counted(s) /\ s.saved = ListOf(s)

(* persistAgents, where there may be no scan yet.                          *)
LEMMA PersistSettles ==
  ASSUME NEW s \in Exts, OwnFiles(s), Counted(s)
  PROVE  LET n == persistAgents(s) IN
         /\ Settled(n) /\ n.agents = s.agents /\ n.known = s.known /\ n.active = s.active
         /\ n.scanning = s.scanning
<1> DEFINE n == persistAgents(s)
<1>1. /\ n \in Exts /\ n.agents = s.agents /\ AgentIds(n) = AgentIds(s) /\ ListOf(n) = ListOf(s)
      /\ n.known = s.known /\ n.active = s.active /\ n.scanning = s.scanning
      /\ n.saved = ListOf(s) /\ n.processed = s.processed
  BY PersistFacts DEF AgentIds, ListOf
<1>2. OwnFiles(n)
  BY PersistOrderly
<1> HIDE DEF n
<1>3. Counted(n)
  BY <1>1 DEF Counted
<1> QED
  BY <1>1, <1>2, <1>3 DEF Settled, n

(* ensureProjectScan: what exists is known, and the scan runs.             *)
LEMMA EnsureGood ==
  ASSUME NEW s, Settled(s)
  PROVE  LET n == ensureProjectScan(s) IN
         /\ Settled(n) /\ n.scanning /\ WellKept(n) /\ n.agents = s.agents /\ n.active = s.active
         /\ s.known \subseteq n.known
<1> DEFINE n == ensureProjectScan(s)
           m == [s EXCEPT !.scanning = TRUE, !.known = @ \cup OnDisk]
<1>0. s \in Exts /\ OwnFiles(s) /\ Counted(s) /\ s.saved = ListOf(s)
  BY DEF Settled
<1>1. CASE s.scanning
  <2>1. n = s
    BY <1>1 DEF ensureProjectScan
  <2> HIDE DEF n
  <2> QED
    BY <2>1, <1>0, <1>1 DEF Settled, WellKept, Orderly, Unstarted, ListStored, n
<1>2. CASE ~s.scanning
  <2>1. n = m
    BY <1>2 DEF ensureProjectScan
  <2>2. m = [s EXCEPT !.scanning = TRUE, !.known = s.known \cup OnDisk]
    BY <1>0 DEF Exts
  <2> HIDE DEF m, n
  <2>3. /\ m.agents = s.agents /\ m.known = s.known \cup OnDisk /\ m.active = s.active /\ m.nextId = s.nextId
        /\ m.nextTerm = s.nextTerm /\ m.scanning = TRUE /\ m.saved = s.saved /\ m.processed = s.processed
    BY <1>0, <2>2 DEF Exts
  <2>4. m \in Exts
    BY <1>0, <2>2 DEF Exts, OnDisk
  <2>5. AgentIds(m) = AgentIds(s) /\ ListOf(m) = ListOf(s)
    BY <2>3 DEF AgentIds, ListOf
  <2>6. OwnFiles(m)
    <3>1. PICK k \in Nat : Bounds(s, k)
      BY <1>0 DEF OwnFiles
    <3>2. Bounds(m, k)
      BY <2>3, <2>5, <3>1 DEF Bounds
    <3> QED
      BY <1>0, <2>3, <2>5, <3>1, <3>2 DEF OwnFiles
  <2>7. Counted(m)
    BY <1>0, <2>3, <2>5 DEF Counted
  <2>8. Settled(m) /\ WellKept(m)
    BY <1>0, <2>3, <2>4, <2>5, <2>6, <2>7 DEF Settled, WellKept, Orderly, Unstarted, ListStored
  <2> QED
    BY <2>1, <2>3, <2>8 DEF n
<1> QED
  BY <1>1, <1>2

(* autoDiscoverAgents adds agents without a terminal, on their own files.  *)
LEMMA DiscoverGood ==
  ASSUME NEW s, Settled(s), WorldTypes, NEW files \in SetToSeqs(OnDisk \ s.known)
  PROVE  LET n == autoDiscoverAgents(s, files) IN
         /\ Settled(n) /\ n.active = s.active /\ n.scanning = s.scanning /\ s.known \subseteq n.known
         /\ AgentIds(s) \subseteq AgentIds(n) /\ \A i \in AgentIds(s) : n.agents[i] = s.agents[i]
         /\ \A i \in AgentIds(n) \ AgentIds(s) : n.agents[i].term = None
<1> DEFINE N == Len(files)
           ids == s.nextId .. s.nextId + N - 1
           File(id) == files[id - s.nextId + 1]
           New(id) == Agent(None, None, File(id), size[File(id)], TRUE, {})
           roster == [id \in AgentIds(s) \cup ids |-> IF id \in AgentIds(s) THEN s.agents[id] ELSE New(id)]
           known == s.known \cup Range(files)
           new == [s EXCEPT !.agents = roster, !.known = known, !.nextId = s.nextId + N]
           n == autoDiscoverAgents(s, files)
<1>0. s \in Exts /\ OwnFiles(s) /\ Counted(s) /\ s.saved = ListOf(s)
  BY DEF Settled
<1>1. s.agents \in [AgentIds(s) -> AgentRecs] /\ AgentIds(s) \subseteq Nat /\ s.nextId \in Nat /\ s.known \subseteq Files
  BY <1>0, RosterFacts DEF Exts, AgentIds
<1>2. OnDisk \ s.known \subseteq Files
  BY DEF OnDisk
<1>3. /\ files \in Seq(OnDisk \ s.known) /\ N \in Nat
      /\ \A i, j \in 1 .. N : files[i] = files[j] => i = j
      /\ \A i \in 1 .. N : files[i] \in OnDisk \ s.known
  BY <1>2, OrderFacts
<1>4. \A i \in ids : /\ i \in Nat /\ i >= s.nextId /\ i < s.nextId + N
                     /\ i - s.nextId + 1 \in 1 .. N /\ i \notin AgentIds(s)
  BY <1>0, <1>1, <1>3 DEF OwnFiles
<1>5. \A i \in ids : /\ File(i) \in OnDisk \ s.known /\ File(i) \in Range(files)
                     /\ File(i) \in Files /\ size[File(i)] \in Nat
  BY <1>3, <1>4 DEF Range, OnDisk, Exists, WorldTypes
<1>6. ASSUME NEW i \in ids, NEW j \in ids, File(i) = File(j) PROVE i = j
  <2>1. i - s.nextId + 1 = j - s.nextId + 1
    BY <1>3, <1>4, <1>6
  <2> QED
    BY <2>1, <1>1, <1>4
<1>7. Range(files) \subseteq Files
  BY <1>2, <1>3 DEF Range
<1> HIDE DEF File, ids
<1>8. \A i \in ids : New(i) \in AgentRecs
  <2>1. TRUE \in BOOLEAN /\ {} \in SUBSET Timers /\ None \in Names /\ None \in Terminals \cup {None}
    BY DEF Names
  <2> QED
    BY <1>5, <2>1 DEF Agent, AgentRecs
<1>8a. \A i \in ids : /\ New(i).term = None /\ New(i).name = None /\ New(i).file = File(i)
                      /\ New(i).offset = size[File(i)]
  BY DEF Agent
<1> HIDE DEF New
<1>9. roster \in [AgentIds(s) \cup ids -> AgentRecs] /\ roster \in Rosters
  <2>1. roster \in [AgentIds(s) \cup ids -> AgentRecs]
    BY <1>1, <1>8
  <2>2. DOMAIN roster \subseteq Nat /\ roster \in [DOMAIN roster -> AgentRecs]
    BY <1>1, <1>4, <2>1
  <2> HIDE DEF roster
  <2> QED
    BY <2>1, <2>2, RosterFacts
<1>10. /\ \A i \in AgentIds(s) : roster[i] = s.agents[i]
       /\ \A i \in ids : roster[i] = New(i)
  BY <1>4
<1> HIDE DEF roster
<1>11. known \subseteq Files /\ s.nextId + N \in Nat
  BY <1>1, <1>3, <1>7
<1> HIDE DEF known
<1>12. n = IF files = <<>> THEN s ELSE persistAgents(new)
  <2>1. new = [s EXCEPT !.agents = [id \in AgentIds(s) \cup ids |->
                                     IF id \in AgentIds(s) THEN @[id]
                                     ELSE Agent(None, None, File(id), size[File(id)], TRUE, {})],
                       !.known = @ \cup Range(files), !.nextId = @ + Len(files)]
    BY <1>0 DEF Exts, roster, known, New
  <2> HIDE DEF new
  <2> QED
    BY <2>1 DEF autoDiscoverAgents, File, ids
<1>13. /\ new \in Exts /\ new.agents = roster /\ new.known = known /\ new.active = s.active
       /\ new.nextId = s.nextId + N /\ new.nextTerm = s.nextTerm /\ new.scanning = s.scanning
       /\ new.saved = s.saved /\ new.processed = s.processed
  BY <1>0, <1>9, <1>11 DEF Exts
<1> HIDE DEF new, n
<1>14. AgentIds(new) = AgentIds(s) \cup ids
  BY <1>9, <1>13 DEF AgentIds
<1>15. OwnFiles(new)
  <2>1. PICK k \in Nat : Bounds(s, k)
    BY <1>0 DEF OwnFiles
  <2>2. Bounds(new, k)
    BY <2>1, <1>8a, <1>10, <1>13, <1>14, TrackerAssumption DEF Bounds
  <2>3. \A i \in AgentIds(new) : i < new.nextId /\ new.agents[i].file \in new.known
    <3>1. \A i \in AgentIds(s) : i < s.nextId + N /\ s.agents[i].file \in known
      BY <1>0, <1>1, <1>3 DEF OwnFiles, known
    <3>2. \A i \in ids : i < s.nextId + N /\ New(i).file \in known
      BY <1>4, <1>5, <1>8a DEF known
    <3> QED
      BY <3>1, <3>2, <1>10, <1>13, <1>14
  <2>4. ASSUME NEW i \in AgentIds(new), NEW j \in AgentIds(new), new.agents[i].file = new.agents[j].file
        PROVE i = j
    <3>1. \A x \in AgentIds(s) : new.agents[x].file \in s.known
      BY <1>0, <1>10, <1>13 DEF OwnFiles
    <3>2. \A x \in ids : new.agents[x].file = File(x) /\ File(x) \notin s.known
      BY <1>5, <1>8a, <1>10, <1>13
    <3>3. CASE i \in AgentIds(s) /\ j \in AgentIds(s)
      BY <3>3, <2>4, <1>0, <1>10, <1>13 DEF OwnFiles
    <3>4. CASE i \in ids /\ j \in ids
      BY <3>2, <3>4, <2>4, <1>6
    <3> QED
      BY <3>1, <3>2, <3>3, <3>4, <2>4, <1>14
  <2> QED
    BY <2>1, <2>2, <2>3, <2>4, <1>0, <1>13 DEF OwnFiles
<1>16. Counted(new)
  <2>1. \A i \in AgentIds(new) : new.processed[new.agents[i].file] <= new.agents[i].offset
    <3>1. \A i \in AgentIds(s) : new.processed[new.agents[i].file] <= new.agents[i].offset
      BY <1>0, <1>10, <1>13 DEF Counted
    <3>2. \A i \in ids : new.processed[new.agents[i].file] <= new.agents[i].offset
      <4>1. \A i \in ids : s.processed[File(i)] <= size[File(i)]
        BY <1>0, <1>5 DEF Counted, OnDisk
      <4> QED
        BY <4>1, <1>8a, <1>10, <1>13
    <3> QED
      BY <3>1, <3>2, <1>14
  <2> QED
    BY <2>1, <1>0, <1>13 DEF Counted, known
<1>17. CASE files = <<>>
  <2>1. n = s
    BY <1>12, <1>17
  <2> QED
    BY <2>1 DEF n
<1>18. CASE files # <<>>
  <2> DEFINE m == persistAgents(new)
  <2>1. /\ Settled(m) /\ m.agents = new.agents /\ m.known = new.known /\ m.active = new.active
        /\ m.scanning = new.scanning
    BY <1>13, <1>15, <1>16, PersistSettles
  <2>2. n = m
    BY <1>12, <1>18
  <2> HIDE DEF m
  <2>3. AgentIds(n) = AgentIds(new)
    BY <2>1, <2>2 DEF AgentIds
  <2> QED
    BY <2>1, <2>2, <2>3, <1>8a, <1>10, <1>13, <1>14 DEF n, known
<1> QED
  BY <1>17, <1>18

(* An agent of the list is back in the terminal of its name, or there was  *)
(* no such entry and it is what it was.                                    *)
Comes(s, p, a) == /\ p \in Back(s) /\ a.term = FirstNamed(p.name) /\ a.name = p.name /\ a.file = p.file
Reborn(s, n) ==
  /\ n.active = s.active /\ s.known \subseteq n.known
  /\ AgentIds(n) = AgentIds(s) \cup {p.id : p \in Back(s)}
  /\ \A i \in AgentIds(n) :
       IF i \in {p.id : p \in Back(s)} THEN \E p \in Back(s) : p.id = i /\ Comes(s, p, n.agents[i])
       ELSE n.agents[i] = s.agents[i]

(* The agent that an entry becomes.                                        *)
LEMMA RestoredFacts ==
  ASSUME NEW s \in Exts, WorldTypes, NEW p \in Back(s)
  PROVE  LET a == Restored(s, p) IN
         /\ a \in AgentRecs /\ Comes(s, p, a)
         /\ a.offset = IF Exists(p.file) THEN size[p.file] ELSE 0
<1> DEFINE a == Restored(s, p)
           had == IF p.id \in AgentIds(s) THEN s.agents[p.id].polls ELSE {}
           kept == {IF k = "skip" THEN "watch" ELSE k : k \in had}
           after == IF Exists(p.file) THEN kept ELSE kept \cup {"skip"}
           offset == IF Exists(p.file) THEN size[p.file] ELSE 0
<1>1. p \in Entries /\ Named(p.name) # {}
  BY DEF Back, Exts
<1>2. FirstNamed(p.name) \in Terminals
  BY <1>1, FirstNamedFacts DEF Named, Open, Range, WorldTypes
<1>3. had \subseteq Timers
  <2>1. p.id \in AgentIds(s) => s.agents[p.id] \in AgentRecs
    BY RosterFacts DEF Exts, AgentIds
  <2> QED
    BY <2>1 DEF AgentRecs
<1> HIDE DEF had
<1>4. after \in SUBSET Timers
  BY <1>3 DEF Timers
<1> HIDE DEF after
<1>5. offset \in Int
  BY <1>1 DEF Entries, Exists, WorldTypes
<1>6. a = Agent(FirstNamed(p.name), p.name, p.file, offset, Exists(p.file), after)
  BY DEF Restored, after, kept, had
<1> HIDE DEF a, offset
<1>7. /\ a.term = FirstNamed(p.name) /\ a.name = p.name /\ a.file = p.file /\ a.offset = offset
  BY <1>6 DEF Agent
<1>8. Exists(p.file) \in BOOLEAN
  BY DEF Exists
<1>9. a \in AgentRecs
  BY <1>1, <1>2, <1>4, <1>5, <1>6, <1>8 DEF Agent, AgentRecs, Entries
<1> QED
  BY <1>7, <1>9 DEF Comes, a, offset

(* restoreAgents: the agents of the list are back, each once.              *)
LEMMA RestoreGood ==
  ASSUME NEW s, WellKept(s), WorldTypes
  PROVE  Settled(restoreAgents(s)) /\ Reborn(s, restoreAgents(s))
<1> DEFINE back == Back(s)
           ids == {p.id : p \in back}
           Entry(id) == CHOOSE p \in back : p.id = id
           roster == [id \in AgentIds(s) \cup ids |-> IF id \in ids THEN Restored(s, Entry(id)) ELSE s.agents[id]]
           known == s.known \cup {p.file : p \in back}
           A == {s.nextId} \cup {id + 1 : id \in ids}
           B == {s.nextTerm} \cup {k + 1 : k \in {p.name : p \in back} \cap Nat}
           new == [s EXCEPT !.agents = roster, !.known = known, !.nextId = Largest(A), !.nextTerm = Largest(B)]
           n == restoreAgents(s)
<1>0. s \in Exts /\ OwnFiles(s) /\ Counted(s) /\ Unstarted(s) /\ (s.scanning => s.saved = ListOf(s))
  BY DEF WellKept, Orderly, ListStored
<1>1. /\ s.agents \in [AgentIds(s) -> AgentRecs] /\ AgentIds(s) \subseteq Nat /\ s.nextId \in Nat
      /\ s.nextTerm \in Nat /\ s.known \subseteq Files /\ s.saved \subseteq Entries
  BY <1>0, RosterFacts DEF Exts, AgentIds
<1>2. back \subseteq s.saved /\ back \subseteq Entries /\ ids \subseteq Nat /\ \A p \in back : p.file \in Files
  BY <1>1 DEF Back, Entries
<1>3. \A p, q \in back : p.id = q.id \/ p.file = q.file => p = q
  BY <1>0, <1>2 DEF OwnFiles
<1> HIDE DEF back
<1>4. \A id \in ids : Entry(id) \in back /\ Entry(id).id = id
  OBVIOUS
<1>5. \A id \in ids : /\ Restored(s, Entry(id)) \in AgentRecs /\ Comes(s, Entry(id), Restored(s, Entry(id)))
                      /\ Restored(s, Entry(id)).offset =
                           IF Exists(Entry(id).file) THEN size[Entry(id).file] ELSE 0
  <2> SUFFICES ASSUME NEW id \in ids
               PROVE  /\ Restored(s, Entry(id)) \in AgentRecs /\ Comes(s, Entry(id), Restored(s, Entry(id)))
                      /\ Restored(s, Entry(id)).offset =
                           IF Exists(Entry(id).file) THEN size[Entry(id).file] ELSE 0
    OBVIOUS
  <2> DEFINE p == Entry(id)
  <2>1. p \in Back(s)
    BY <1>4 DEF back
  <2> HIDE DEF p
  <2>2. /\ Restored(s, p) \in AgentRecs /\ Comes(s, p, Restored(s, p))
        /\ Restored(s, p).offset = IF Exists(p.file) THEN size[p.file] ELSE 0
    BY <1>0, <2>1, RestoredFacts
  <2> QED
    BY <2>2 DEF p
<1> HIDE DEF Entry
<1>6. roster \in [AgentIds(s) \cup ids -> AgentRecs] /\ roster \in Rosters
  <2>1. roster \in [AgentIds(s) \cup ids -> AgentRecs]
    BY <1>1, <1>5
  <2>2. DOMAIN roster \subseteq Nat /\ roster \in [DOMAIN roster -> AgentRecs]
    BY <1>1, <1>2, <2>1
  <2> HIDE DEF roster
  <2> QED
    BY <2>1, <2>2, RosterFacts
<1>7. /\ \A i \in ids : roster[i] = Restored(s, Entry(i))
      /\ \A i \in AgentIds(s) \ ids : roster[i] = s.agents[i]
      /\ DOMAIN roster = AgentIds(s) \cup ids
  OBVIOUS
<1> HIDE DEF roster
<1>8. PICK k \in Nat : Bounds(s, k)
  BY <1>0 DEF OwnFiles
<1>9. Largest(A) \in Nat /\ \A x \in A : x <= Largest(A)
  <2> DEFINE m == IF k >= s.nextId THEN k ELSE s.nextId
  <2>1. m \in Nat /\ k <= m /\ s.nextId <= m
    BY <1>1
  <2>2. \A x \in ids : x + 1 \in Nat /\ x + 1 <= k
    BY <1>2, <1>8 DEF Bounds
  <2>3. A \in SUBSET Nat /\ A # {} /\ \A x \in A : x <= m
    <3> HIDE DEF ids, m
    <3> QED
      BY <2>1, <2>2, <1>1
  <2> HIDE DEF A, m
  <2>4. Largest(A) \in A /\ \A x \in A : x <= Largest(A)
    BY <2>1, <2>3, LargestFacts
  <2> QED
    BY <2>3, <2>4
<1>10. Largest(B) \in Nat
  <2> DEFINE m == IF k >= s.nextTerm THEN k ELSE s.nextTerm
             C == {p.name : p \in back} \cap Nat
  <2>1. m \in Nat /\ k <= m /\ s.nextTerm <= m
    BY <1>1
  <2>2. \A x \in C : x + 1 \in Nat /\ x + 1 <= k
    BY <1>2, <1>8 DEF Bounds
  <2>3. B \in SUBSET Nat /\ B # {} /\ \A x \in B : x <= m
    <3>1. B = {s.nextTerm} \cup {x + 1 : x \in C}
      OBVIOUS
    <3> HIDE DEF B, C, m
    <3> QED
      BY <2>1, <2>2, <3>1, <1>1
  <2> HIDE DEF B, m
  <2>4. Largest(B) \in B
    BY <2>1, <2>3, LargestFacts
  <2> QED
    BY <2>3, <2>4
<1>11. known \subseteq Files
  BY <1>1, <1>2
<1>12. /\ \A id \in ids : id < Largest(A)
       /\ s.nextId <= Largest(A)
  <2>1. s.nextId \in A /\ \A id \in ids : id + 1 \in A
    OBVIOUS
  <2> HIDE DEF A, ids
  <2> QED
    BY <2>1, <1>1, <1>2, <1>9
<1>13. \A i \in ids : \E p \in back : p.id = i /\ roster[i].file = p.file /\ roster[i].name = p.name
                                      /\ roster[i].offset = IF Exists(p.file) THEN size[p.file] ELSE 0
  <2> SUFFICES ASSUME NEW i \in ids
               PROVE  \E p \in back : p.id = i /\ roster[i].file = p.file /\ roster[i].name = p.name
                                      /\ roster[i].offset = IF Exists(p.file) THEN size[p.file] ELSE 0
    OBVIOUS
  <2> DEFINE q == Entry(i)
  <2>1. q \in back /\ q.id = i
    BY <1>4
  <2>2. roster[i].file = q.file /\ roster[i].name = q.name
    BY <1>5, <1>7 DEF Comes
  <2>3. roster[i].offset = IF Exists(q.file) THEN size[q.file] ELSE 0
    BY <1>5, <1>7
  <2> HIDE DEF q, ids
  <2> QED
    BY <2>1, <2>2, <2>3
<1>14. \A i \in AgentIds(s) : roster[i].file = s.agents[i].file
  <2> SUFFICES ASSUME NEW i \in AgentIds(s), i \in ids PROVE roster[i].file = s.agents[i].file
    BY <1>7
  <2>1. s.scanning
    BY <1>0 DEF Unstarted
  <2>2. PICK p \in back : p.id = i /\ roster[i].file = p.file
    BY <1>13
  <2>3. p \in ListOf(s)
    BY <2>1, <1>0, <1>2
  <2> QED
    BY <2>2, <2>3 DEF ListOf
<1>15. ~s.scanning => AgentIds(s) = {}
  BY <1>0 DEF Unstarted
<1>16. s.scanning => ids \subseteq AgentIds(s)
  BY <1>0, <1>2 DEF ListOf
<1>17. n = IF s.saved = {} THEN s
           ELSE IF back = {} THEN persistAgents(new) ELSE ensureProjectScan(persistAgents(new))
  <2>1. new = [s EXCEPT !.agents = [id \in AgentIds(s) \cup ids |->
                                     IF id \in ids THEN Restored(s, CHOOSE p \in back : p.id = id) ELSE @[id]],
                       !.known = @ \cup {p.file : p \in back},
                       !.nextId = Largest({@} \cup {id + 1 : id \in ids}),
                       !.nextTerm = Largest({@} \cup {k_1 + 1 : k_1 \in {p.name : p \in back} \cap Nat})]
    BY <1>0 DEF Exts, roster, Entry
  <2> HIDE DEF new
  <2> QED
    BY <2>1 DEF restoreAgents, back
<1> HIDE DEF A, B, known
<1>18. /\ new \in Exts /\ new.agents = roster /\ new.known = known /\ new.active = s.active
       /\ new.nextId = Largest(A) /\ new.scanning = s.scanning
       /\ new.saved = s.saved /\ new.processed = s.processed
  BY <1>0, <1>6, <1>9, <1>10, <1>11 DEF Exts
<1> HIDE DEF new, n, ids
<1>19. AgentIds(new) = AgentIds(s) \cup ids
  BY <1>7, <1>18 DEF AgentIds
<1>20. OwnFiles(new)
  <2>1. Bounds(new, k)
    <3>1. \A p \in back : p.name \in Nat => p.name < k
      BY <1>2, <1>8 DEF Bounds
    <3>2. \A i \in AgentIds(new) : new.agents[i].name \in Nat => new.agents[i].name < k
      <4>1. \A i \in ids : roster[i].name \in Nat => roster[i].name < k
        BY <1>13, <3>1
      <4>2. \A i \in AgentIds(s) \ ids : roster[i].name \in Nat => roster[i].name < k
        BY <1>7, <1>8 DEF Bounds
      <4> QED
        BY <4>1, <4>2, <1>18, <1>19
    <3> QED
      BY <1>8, <1>18, <3>2 DEF Bounds
  <2>2. \A i \in AgentIds(new) : i < new.nextId /\ new.agents[i].file \in new.known
    <3>1. \A i \in ids : i < Largest(A) /\ roster[i].file \in known
      BY <1>12, <1>13 DEF known
    <3>2. \A i \in AgentIds(s) \ ids : i < Largest(A) /\ roster[i].file \in known
      <4>1. \A i \in AgentIds(s) : i < s.nextId /\ s.agents[i].file \in s.known
        BY <1>0 DEF OwnFiles
      <4> QED
        BY <4>1, <1>1, <1>9, <1>12, <1>14 DEF known
    <3> QED
      BY <3>1, <3>2, <1>18, <1>19
  <2>3. ASSUME NEW i \in AgentIds(new), NEW j \in AgentIds(new), new.agents[i].file = new.agents[j].file
        PROVE i = j
    <3>1. CASE i \in AgentIds(s) /\ j \in AgentIds(s)
      BY <2>3, <3>1, <1>0, <1>14, <1>18 DEF OwnFiles
    <3>2. CASE i \in ids /\ j \in ids
      <4>1. PICK p \in back : p.id = i /\ roster[i].file = p.file
        BY <3>2, <1>13
      <4>2. PICK q \in back : q.id = j /\ roster[j].file = q.file
        BY <3>2, <1>13
      <4> QED
        BY <4>1, <4>2, <2>3, <1>3, <1>18
    <3> QED
      BY <3>1, <3>2, <1>15, <1>16, <1>19
  <2> QED
    BY <2>1, <2>2, <2>3, <1>0, <1>8, <1>18 DEF OwnFiles
<1>21. Counted(new)
  <2>1. \A i \in ids : s.processed[roster[i].file] <= roster[i].offset
    <3> SUFFICES ASSUME NEW i \in ids PROVE s.processed[roster[i].file] <= roster[i].offset
      OBVIOUS
    <3>1. PICK p \in back : p.id = i /\ roster[i].file = p.file
                            /\ roster[i].offset = IF Exists(p.file) THEN size[p.file] ELSE 0
      BY <1>13
    <3>2. p.file \in Files
      BY <1>2
    <3> QED
      BY <3>1, <3>2, <1>0 DEF Counted
  <2>2. \A i \in AgentIds(s) \ ids : s.processed[roster[i].file] <= roster[i].offset
    BY <1>0, <1>7 DEF Counted
  <2>3. \A i \in AgentIds(new) : new.processed[new.agents[i].file] <= new.agents[i].offset
    BY <2>1, <2>2, <1>18, <1>19
  <2> QED
    BY <2>3, <1>0, <1>18 DEF Counted, known
<1>22. CASE s.saved = {}
  <2>1. n = s /\ back = {}
    BY <1>17, <1>22, <1>2
  <2>2. ListOf(s) = {}
    BY <1>0, <1>15, <1>22 DEF ListOf
  <2>3. Settled(s)
    BY <1>0, <1>22, <2>2 DEF Settled
  <2>4. Back(s) = {}
    BY <2>1 DEF back
  <2>5. Reborn(s, s)
    BY <2>4 DEF Reborn
  <2> QED
    BY <2>1, <2>3, <2>5 DEF n
<1>23. CASE s.saved # {}
  <2> DEFINE m == persistAgents(new)
             e == ensureProjectScan(m)
  <2>1. /\ Settled(m) /\ m.agents = new.agents /\ m.known = new.known /\ m.active = new.active
    BY <1>18, <1>20, <1>21, PersistSettles
  <2> HIDE DEF m
  <2>2. Settled(e) /\ e.agents = m.agents /\ e.active = m.active /\ m.known \subseteq e.known
    BY <2>1, EnsureGood
  <2> HIDE DEF e
  <2>3. n = m \/ n = e
    BY <1>17, <1>23 DEF m, e
  <2>4. Settled(n) /\ n.agents = roster /\ n.active = s.active /\ s.known \subseteq n.known
    BY <2>1, <2>2, <2>3, <1>18 DEF known
  <2>5. AgentIds(n) = AgentIds(s) \cup ids
    BY <2>4, <1>7 DEF AgentIds
  <2>6. \A i \in ids : \E p \in back : p.id = i /\ Comes(s, p, roster[i])
    <3> SUFFICES ASSUME NEW i \in ids PROVE \E p \in back : p.id = i /\ Comes(s, p, roster[i])
      OBVIOUS
    <3> DEFINE q == Entry(i)
    <3>1. q \in back /\ q.id = i
      BY <1>4 DEF ids
    <3>2. Comes(s, q, roster[i])
      BY <1>5, <1>7 DEF ids
    <3> HIDE DEF q
    <3> QED
      BY <3>1, <3>2
  <2>7. Reborn(s, n)
    BY <2>4, <2>5, <2>6, <1>7 DEF Reborn, ids, back
  <2> QED
    BY <2>4, <2>7 DEF n
<1> QED
  BY <1>22, <1>23

-----------------------------------------------------------------------------
(* An agent with a terminal has its name.  The active agent is that of the *)
(* terminal in focus; after a start of the panel its terminal may be       *)
(* another one of the same name, and then nobody is in focus.              *)
AtHome(s) ==
  /\ \A i \in AgentIds(s) : s.agents[i].term # None =>
       s.agents[i].term \in Open /\ s.agents[i].name = name[s.agents[i].term]
  /\ s.active # None =>
       /\ s.active \in AgentIds(s) /\ focus # None
       /\ s.agents[s.active].term # None /\ s.agents[s.active].name = name[focus]
       /\ s.agents[s.active].term # focus => s.agents[s.active].term \in astray /\ OwnerOf(s, focus) = {}

(* The inductive invariant.                                                *)
TrackerInv == WorldTypes /\ WellKept(ext) /\ AtHome(ext) /\ FollowsItsSession

(* None is neither a terminal nor a file.                                  *)
LEMMA OpenFacts ==
  ASSUME WorldTypes
  PROVE  Open \subseteq Terminals /\ None \notin Open /\ None \notin Terminals /\ None \notin Files /\ None \notin Nat
BY TrackerAssumption DEF WorldTypes, Open, Range

(* The types of an extension that is well kept.                            *)
LEMMA ExtFacts ==
  ASSUME WellKept(ext)
  PROVE  /\ ext \in Exts /\ AgentIds(ext) \subseteq Nat /\ ext.agents \in [AgentIds(ext) -> AgentRecs]
         /\ ext.known \subseteq Files /\ ext.nextId \in Nat /\ ext.nextTerm \in Nat
         /\ ~ext.scanning => AgentIds(ext) = {} /\ ext.active = None
BY RosterFacts DEF WellKept, Exts, AgentIds, Orderly, Unstarted

(* Only the sizes of the files count.                                      *)
LEMMA Carry ==
  ASSUME WellKept(ext'), size' = size
  PROVE  WellKept(ext)'
<1>1. Counted(ext)'
  BY DEF WellKept, Orderly, Counted, Exists, OnDisk, AgentIds
<1>2. OwnFiles(ext)' /\ Unstarted(ext)' /\ ListStored(ext)' /\ ext' \in Exts
  BY DEF WellKept, Orderly, OwnFiles, Unstarted, ListStored, AgentIds, Bounds, ListOf
<1> QED
  BY <1>1, <1>2 DEF WellKept, Orderly

(* A file grows, which the extension does not see.                         *)
LEMMA Grows ==
  ASSUME WellKept(ext), WorldTypes, NEW f \in Files, ext' = ext,
         size' = [size EXCEPT ![f] = IF Exists(f) THEN @ + 1 ELSE 1]
  PROVE  WellKept(ext)' /\ size' \in [Files -> Nat \cup {None}]
<1>1. size' \in [Files -> Nat \cup {None}]
  BY DEF WorldTypes, Exists
<1>2. \A g \in Files : g # f => size'[g] = size[g]
  BY DEF WorldTypes
<1>3. size'[f] \in Nat /\ size'[f] # None /\ (Exists(f) => size[f] <= size'[f]) /\ 0 <= size'[f]
  BY TrackerAssumption DEF WorldTypes, Exists
<1>4. ext.processed \in [Files -> Int]
  BY DEF WellKept, Exts
<1>5. \A g \in Files : IF Exists(g)' THEN ext.processed[g] <= size'[g] ELSE ext.processed[g] <= 0
  <2> SUFFICES ASSUME NEW g \in Files
               PROVE  IF size'[g] # None THEN ext.processed[g] <= size'[g] ELSE ext.processed[g] <= 0
    BY DEF Exists
  <2>1. IF size[g] # None THEN ext.processed[g] <= size[g] ELSE ext.processed[g] <= 0
    BY DEF WellKept, Orderly, Counted, Exists
  <2>2. CASE g # f
    BY <2>1, <2>2, <1>2
  <2>3. CASE g = f
    BY <2>1, <2>3, <1>3, <1>4, TrackerAssumption DEF Exists, WorldTypes
  <2> QED
    BY <2>2, <2>3
<1>6. \A g \in OnDisk' \ ext.known : ext.scanning => ext.processed[g] <= 0
  <2> SUFFICES ASSUME NEW g \in Files, size'[g] # None, g \notin ext.known, ext.scanning
               PROVE  ext.processed[g] <= 0
    BY DEF OnDisk, Exists
  <2>1. CASE size[g] # None
    BY <2>1 DEF WellKept, Orderly, Counted, OnDisk, Exists
  <2>2. CASE size[g] = None
    BY <2>2 DEF WellKept, Orderly, Counted, Exists
  <2> QED
    BY <2>1, <2>2
<1>7. Counted(ext)'
  BY <1>5, <1>6 DEF WellKept, Orderly, Counted, AgentIds
<1>8. OwnFiles(ext)' /\ Unstarted(ext)' /\ ListStored(ext)' /\ ext' \in Exts
  BY DEF WellKept, Orderly, OwnFiles, Unstarted, ListStored, AgentIds, Bounds, ListOf
<1> QED
  BY <1>1, <1>7, <1>8 DEF WellKept, Orderly

(* A step that only reads, or that a timer takes.                          *)
LEMMA Quiet ==
  ASSUME TrackerInv, WellKept(ext'), UNCHANGED <<world, astray>>,
         AgentIds(ext') = AgentIds(ext), ext'.known = ext.known, ext'.active = ext.active,
         \A i \in AgentIds(ext) : /\ ext'.agents[i].term = ext.agents[i].term
                                  /\ ext'.agents[i].name = ext.agents[i].name
                                  /\ ext'.agents[i].file = ext.agents[i].file
  PROVE  TrackerInv'
<1>1. WellKept(ext)'
  BY Carry DEF world
<1>2. WorldTypes'
  BY DEF TrackerInv, WorldTypes, Open, world
<1>3. AgentIds(ext)' = AgentIds(ext)
  BY DEF AgentIds
<1>4. AtHome(ext)'
  <2>1. Open' = Open /\ name' = name /\ focus' = focus /\ astray' = astray
    BY DEF Open, world
  <2>2. OwnerOf(ext, focus)' = OwnerOf(ext, focus)
    BY <1>3, <2>1 DEF OwnerOf
  <2> QED
    BY <1>3, <2>1, <2>2 DEF TrackerInv, AtHome
<1>5. FollowsItsSession'
  <2>1. Open' = Open /\ session' = session /\ astray' = astray
    BY DEF Open, world
  <2> QED
    BY <1>3, <2>1 DEF TrackerInv, FollowsItsSession
<1> QED
  BY <1>1, <1>2, <1>4, <1>5 DEF TrackerInv

(* Initially there is no agent and nothing is stored.                      *)
LEMMA TrackerInitHolds == TrackerInit => TrackerInv
<1> SUFFICES ASSUME TrackerInit PROVE TrackerInv
  OBVIOUS
<1> USE DEF TrackerInit
<1>1. WorldTypes
  <2>1. open \in Seq(Terminals) /\ DOMAIN open = {}
    OBVIOUS
  <2>2. name \in [Terminals -> Nat \cup Range(ShellName)]
    BY TrackerAssumption
  <2>3. size \in [Files -> Nat \cup {None}]
    OBVIOUS
  <2> QED
    BY <2>1, <2>2, <2>3 DEF WorldTypes
<1>2. ext \in Exts /\ AgentIds(ext) = {} /\ ext.saved = {}
  <2>1. <<>> \in Rosters /\ DOMAIN <<>> = {}
    <3> DEFINE q == <<>>
    <3>1. DOMAIN q = {} /\ q \in [{} -> AgentRecs]
      OBVIOUS
    <3> HIDE DEF q
    <3>2. q \in Rosters
      BY <3>1, RosterFacts
    <3> QED
      BY <3>1, <3>2 DEF q
  <2>2. [f \in Files |-> 0] \in [Files -> Int] /\ FALSE \in BOOLEAN
    OBVIOUS
  <2> QED
    BY <2>1, <2>2 DEF Fresh, Exts, AgentIds
<1>3. OwnFiles(ext)
  <2>1. Bounds(ext, 0) /\ 0 \in Nat
    BY <1>2 DEF Bounds
  <2> QED
    BY <1>2, <2>1 DEF OwnFiles
<1>4. ext.active = None /\ ext.scanning = FALSE /\ ext.processed = [f \in Files |-> 0]
  BY DEF Fresh
<1>5. Counted(ext)
  BY <1>2, <1>4, TrackerAssumption DEF Counted, Exists
<1>6. WellKept(ext)
  BY <1>2, <1>3, <1>4, <1>5 DEF WellKept, Orderly, Unstarted, ListStored
<1>7. AtHome(ext) /\ FollowsItsSession
  BY <1>2, <1>4 DEF AtHome, FollowsItsSession
<1> QED
  BY <1>1, <1>6, <1>7 DEF TrackerInv

(* The active agent is none of what is well kept.                          *)
LEMMA ActiveFacts ==
  ASSUME NEW s, WellKept(s), s.scanning, NEW a \in Nat \cup {None}
  PROVE  LET n == [s EXCEPT !.active = a] IN
         /\ WellKept(n) /\ n.agents = s.agents /\ AgentIds(n) = AgentIds(s) /\ n.known = s.known
         /\ n.active = a /\ n.scanning
<1> DEFINE n == [s EXCEPT !.active = a]
<1>1. s \in Exts /\ OwnFiles(s) /\ Counted(s) /\ s.saved = ListOf(s)
  BY DEF WellKept, Orderly, ListStored
<1>2. /\ n \in Exts /\ n.agents = s.agents /\ n.known = s.known /\ n.active = a /\ n.nextId = s.nextId
      /\ n.scanning = s.scanning /\ n.saved = s.saved /\ n.processed = s.processed
  BY <1>1 DEF Exts
<1> HIDE DEF n
<1>3. AgentIds(n) = AgentIds(s) /\ ListOf(n) = ListOf(s)
  BY <1>2 DEF AgentIds, ListOf
<1>4. OwnFiles(n)
  <2>1. PICK k \in Nat : Bounds(s, k)
    BY <1>1 DEF OwnFiles
  <2>2. Bounds(n, k)
    BY <1>2, <1>3, <2>1 DEF Bounds
  <2> QED
    BY <1>1, <1>2, <1>3, <2>1, <2>2 DEF OwnFiles
<1>5. Counted(n)
  BY <1>1, <1>2, <1>3 DEF Counted
<1> QED
  BY <1>1, <1>2, <1>3, <1>4, <1>5 DEF WellKept, Orderly, Unstarted, ListStored, n

(* What the extension does about a terminal that gets the focus.           *)
LEMMA NoticedFacts ==
  ASSUME WellKept(ext), NEW a \in Nat \cup {None},
         ext' = IF Resolved THEN [ext EXCEPT !.active = a] ELSE ext
  PROVE  /\ WellKept(ext') /\ ext'.agents = ext.agents /\ AgentIds(ext') = AgentIds(ext) /\ ext'.known = ext.known
         /\ ext'.active = IF Resolved THEN a ELSE None
         /\ ~Resolved => AgentIds(ext) = {}
<1>1. CASE Resolved
  <2> DEFINE n == [ext EXCEPT !.active = a]
  <2>1. /\ WellKept(n) /\ n.agents = ext.agents /\ AgentIds(n) = AgentIds(ext) /\ n.known = ext.known
        /\ n.active = a
    BY <1>1, ActiveFacts DEF Resolved
  <2>2. ext' = n
    BY <1>1
  <2> HIDE DEF n
  <2> QED
    BY <1>1, <2>1, <2>2
<1>2. CASE ~Resolved
  BY <1>2, ExtFacts DEF Resolved
<1> QED
  BY <1>1, <1>2

(* Focus: the active agent is the first of the terminal.                   *)
LEMMA FocusKeeps == ASSUME TrackerInv, NEW t, Focus(t) PROVE TrackerInv'
<1> USE DEF Focus
<1>0. WorldTypes /\ WellKept(ext) /\ AtHome(ext) /\ FollowsItsSession
  BY DEF TrackerInv
<1> DEFINE a == ActiveFor(t)
<1>1. AgentIds(ext) \subseteq Nat /\ None \notin Open /\ None \notin Nat
  BY <1>0, ExtFacts, OpenFacts
<1>2. a = None \/ (t # None /\ a \in OwnerOf(ext, t))
  <2> SUFFICES ASSUME t # None, OwnerOf(ext, t) # {} PROVE a \in OwnerOf(ext, t)
    BY DEF ActiveFor
  <2> DEFINE O == OwnerOf(ext, t)
  <2>1. O \in SUBSET Nat /\ O # {}
    BY <1>1 DEF OwnerOf
  <2>2. a = CHOOSE id \in O : \A o \in O : id <= o
    BY DEF ActiveFor
  <2> HIDE DEF O, a
  <2>3. \E id \in O : \A o \in O : id <= o
    BY <2>1, NatSetMin
  <2> QED
    BY <2>2, <2>3 DEF O
<1>3. a \in Nat \cup {None}
  BY <1>1, <1>2 DEF OwnerOf
<1>4. ext' = IF Resolved THEN [ext EXCEPT !.active = a] ELSE ext
  OBVIOUS
<1> HIDE DEF a
<1>5. /\ WellKept(ext') /\ ext'.agents = ext.agents /\ AgentIds(ext') = AgentIds(ext) /\ ext'.known = ext.known
      /\ ext'.active = IF Resolved THEN a ELSE None
  BY <1>0, <1>3, <1>4, NoticedFacts
<1>6. WellKept(ext)'
  BY <1>5, Carry
<1>7. WorldTypes'
  BY <1>0 DEF WorldTypes, Open
<1>8. AgentIds(ext)' = AgentIds(ext) /\ Open' = Open
  BY <1>5 DEF AgentIds, Open
<1>9. AtHome(ext)'
  <2>1. \A i \in AgentIds(ext) : ext.agents[i].term # None =>
          ext.agents[i].term \in Open /\ ext.agents[i].name = name[ext.agents[i].term]
    BY <1>0 DEF AtHome
  <2>2. ext'.active # None =>
          /\ ext'.active \in AgentIds(ext) /\ t # None
          /\ ext.agents[ext'.active].term = t /\ ext.agents[ext'.active].name = name[t]
    BY <1>2, <1>5, <2>1 DEF OwnerOf
  <2> QED
    BY <2>1, <2>2, <1>5, <1>8 DEF AtHome
<1>10. FollowsItsSession'
  BY <1>0, <1>5, <1>8 DEF FollowsItsSession
<1> QED
  BY <1>6, <1>7, <1>9, <1>10 DEF TrackerInv

(* A terminal that opens is the last of the list.                          *)
LEMMA OpenedFacts ==
  ASSUME WorldTypes, NEW t \in Terminals, t \notin Open, open' = Append(open, t)
  PROVE  /\ Open' = Open \cup {t} /\ open' \in Seq(Terminals)
         /\ \A m, n \in DOMAIN open' : open'[m] = open'[n] => m = n
<1>1. /\ open \in Seq(Terminals) /\ Len(open) \in Nat /\ DOMAIN open = 1 .. Len(open)
      /\ \A m, n \in DOMAIN open : open[m] = open[n] => m = n
  BY DEF WorldTypes
<1>2. /\ open' \in Seq(Terminals) /\ DOMAIN open' = 1 .. Len(open) + 1
      /\ open'[Len(open) + 1] = t /\ \A n \in 1 .. Len(open) : open'[n] = open[n]
  BY <1>1
<1>3. \A n \in DOMAIN open' : n = Len(open) + 1 \/ n \in 1 .. Len(open)
  BY <1>1, <1>2
<1>4. \A n \in DOMAIN open : open[n] # t
  BY DEF Open, Range
<1>5. Len(open) + 1 \in DOMAIN open' /\ 1 .. Len(open) \subseteq DOMAIN open'
  BY <1>1, <1>2
<1>6. Open' = Open \cup {t}
  BY <1>1, <1>2, <1>3, <1>5 DEF Open, Range
<1>7. \A m, n \in DOMAIN open' : open'[m] = open'[n] => m = n
  BY <1>1, <1>2, <1>3, <1>4
<1> QED
  BY <1>2, <1>6, <1>7

(* OpenShell: no agent has the new terminal.                               *)
LEMMA OpenShellKeeps == ASSUME TrackerInv, NEW t \in Terminals, OpenShell(t) PROVE TrackerInv'
<1> USE DEF OpenShell
<1>0. WorldTypes /\ WellKept(ext) /\ AtHome(ext) /\ FollowsItsSession
  BY DEF TrackerInv
<1>1. ext' = IF Resolved THEN [ext EXCEPT !.active = None] ELSE ext
  OBVIOUS
<1>2. None \in Nat \cup {None}
  OBVIOUS
<1>3. /\ WellKept(ext') /\ ext'.agents = ext.agents /\ AgentIds(ext') = AgentIds(ext) /\ ext'.known = ext.known
      /\ ext'.active = IF Resolved THEN None ELSE None
  BY <1>0, <1>1, <1>2, NoticedFacts
<1>4. WellKept(ext)'
  BY <1>3, Carry
<1>5. /\ Open' = Open \cup {t} /\ open' \in Seq(Terminals)
      /\ \A m, n \in DOMAIN open' : open'[m] = open'[n] => m = n
  BY <1>0, OpenedFacts
<1>6. ShellName[t] \in Range(ShellName)
  BY TrackerAssumption DEF Range
<1>7. WorldTypes'
  <2>1. name' \in [Terminals -> Nat \cup Range(ShellName)] /\ session' \in [Terminals -> Files \cup {None}]
    BY <1>0, <1>6 DEF WorldTypes
  <2> QED
    BY <1>0, <1>5, <2>1 DEF WorldTypes
<1>8. AgentIds(ext)' = AgentIds(ext)
  BY <1>3 DEF AgentIds
<1>9. \A i \in AgentIds(ext) : ext.agents[i].term # None =>
        /\ ext.agents[i].term \in Open /\ ext.agents[i].term # t
        /\ ext.agents[i].name = name[ext.agents[i].term] /\ name'[ext.agents[i].term] = name[ext.agents[i].term]
        /\ session'[ext.agents[i].term] = session[ext.agents[i].term]
  BY <1>0, OpenFacts DEF AtHome, WorldTypes
<1>10. AtHome(ext)'
  BY <1>3, <1>5, <1>8, <1>9 DEF AtHome
<1>11. FollowsItsSession'
  BY <1>0, <1>3, <1>5, <1>8, <1>9, OpenFacts DEF FollowsItsSession
<1> QED
  BY <1>4, <1>7, <1>10, <1>11 DEF TrackerInv

(* Say: a line more than the extension has seen.                           *)
LEMMA SayKeeps == ASSUME TrackerInv, NEW t \in Terminals, Say(t) PROVE TrackerInv'
<1> USE DEF Say
<1>0. WorldTypes /\ WellKept(ext) /\ AtHome(ext) /\ FollowsItsSession
  BY DEF TrackerInv
<1>1. session[t] \in Files
  BY <1>0 DEF WorldTypes
<1>2. WellKept(ext)' /\ size' \in [Files -> Nat \cup {None}]
  BY <1>0, <1>1, Grows
<1>3. Open' = Open /\ AgentIds(ext)' = AgentIds(ext)
  BY DEF Open, AgentIds
<1>4. WorldTypes' /\ AtHome(ext)' /\ FollowsItsSession'
  BY <1>0, <1>2, <1>3 DEF WorldTypes, AtHome, OwnerOf, FollowsItsSession
<1> QED
  BY <1>2, <1>4 DEF TrackerInv

(* Elsewhere: likewise.                                                    *)
LEMMA ElsewhereKeeps == ASSUME TrackerInv, NEW f \in Files, Elsewhere(f) PROVE TrackerInv'
<1> USE DEF Elsewhere
<1>0. WorldTypes /\ WellKept(ext) /\ AtHome(ext) /\ FollowsItsSession
  BY DEF TrackerInv
<1>2. WellKept(ext)' /\ size' \in [Files -> Nat \cup {None}]
  BY <1>0, Grows
<1>3. Open' = Open /\ AgentIds(ext)' = AgentIds(ext)
  BY DEF Open, AgentIds
<1>4. WorldTypes' /\ AtHome(ext)' /\ FollowsItsSession'
  BY <1>0, <1>2, <1>3 DEF WorldTypes, AtHome, OwnerOf, FollowsItsSession
<1> QED
  BY <1>2, <1>4 DEF TrackerInv

(* StartSession: the new file is not known yet.                            *)
LEMMA StartSessionKeeps ==
  ASSUME TrackerInv, NEW t \in Terminals, NEW f \in Files, StartSession(t, f) PROVE TrackerInv'
<1> USE DEF StartSession
<1>0. WorldTypes /\ WellKept(ext) /\ AtHome(ext) /\ FollowsItsSession
  BY DEF TrackerInv
<1>1. f \notin ext.known /\ ~Exists(f)
  BY DEF Used, OnDisk
<1>2. size' = [size EXCEPT ![f] = IF Exists(f) THEN @ + 1 ELSE 1]
  BY <1>1
<1>3. WellKept(ext)' /\ size' \in [Files -> Nat \cup {None}]
  BY <1>0, <1>2, Grows
<1>4. Open' = Open /\ AgentIds(ext)' = AgentIds(ext)
  BY DEF Open, AgentIds
<1>5. session' \in [Terminals -> Files \cup {None}] /\ \A u \in Terminals : session'[u] = IF u = t THEN f ELSE session[u]
  BY <1>0 DEF WorldTypes
<1>6. WorldTypes' /\ AtHome(ext)'
  BY <1>0, <1>3, <1>4, <1>5 DEF WorldTypes, AtHome, OwnerOf
<1>7. FollowsItsSession'
  BY <1>0, <1>1, <1>4, <1>5, OpenFacts DEF FollowsItsSession
<1> QED
  BY <1>3, <1>6, <1>7 DEF TrackerInv

(* ReloadWindow: of the list some entries stay; the agents are gone.       *)
LEMMA ReloadWindowKeeps == ASSUME TrackerInv, ReloadWindow PROVE TrackerInv'
<1> USE DEF ReloadWindow
<1>0. WorldTypes /\ WellKept(ext) /\ AtHome(ext) /\ FollowsItsSession
  BY DEF TrackerInv
<1>1. PICK oldest \in 0 .. ext.nextId :
        ext' = Fresh({p \in ext.saved : p.id >= oldest}, ext.processed)
  OBVIOUS
<1> DEFINE saved == {p \in ext.saved : p.id >= oldest}
<1>2. saved \subseteq ext.saved /\ saved \subseteq Entries /\ ext.processed \in [Files -> Int]
  BY <1>0 DEF WellKept, Exts
<1>3. /\ ext'.known = {} /\ ext'.active = None /\ ext'.scanning = FALSE /\ ext'.saved = saved
      /\ ext'.processed = ext.processed /\ AgentIds(ext') = {}
  BY <1>1 DEF Fresh, AgentIds
<1>4. ext' \in Exts
  <2>1. <<>> \in Rosters
    <3> DEFINE q == <<>>
    <3>1. DOMAIN q = {} /\ q \in [{} -> AgentRecs]
      OBVIOUS
    <3> HIDE DEF q
    <3>2. q \in Rosters
      BY <3>1, RosterFacts
    <3> QED
      BY <3>2 DEF q
  <2>2. FALSE \in BOOLEAN
    OBVIOUS
  <2> QED
    BY <1>1, <1>2, <2>1, <2>2 DEF Fresh, Exts
<1>5. OwnFiles(ext')
  <2>1. PICK k \in Nat : Bounds(ext, k)
    BY <1>0 DEF WellKept, Orderly, OwnFiles
  <2>2. Bounds(ext', k)
    BY <1>2, <1>3, <2>1 DEF Bounds
  <2>3. \A p, q \in saved : p.id = q.id \/ p.file = q.file => p = q
    BY <1>0, <1>2 DEF WellKept, Orderly, OwnFiles
  <2> QED
    BY <1>3, <2>1, <2>2, <2>3 DEF OwnFiles
<1>6. Counted(ext')
  BY <1>0, <1>3 DEF WellKept, Orderly, Counted
<1>7. WellKept(ext')
  BY <1>3, <1>4, <1>5, <1>6 DEF WellKept, Orderly, Unstarted, ListStored
<1>8. WellKept(ext)'
  BY <1>7, Carry DEF world
<1>9. WorldTypes'
  BY <1>0 DEF WorldTypes, Open, world
<1>10. AgentIds(ext)' = {}
  BY <1>3 DEF AgentIds
<1>11. AtHome(ext)' /\ FollowsItsSession'
  BY <1>3, <1>10 DEF AtHome, FollowsItsSession
<1> QED
  BY <1>8, <1>9, <1>11 DEF TrackerInv

(* removeAgents keeps the others, and the list true.                       *)
LEMMA RemoveFacts ==
  ASSUME NEW s, WellKept(s), s.scanning, NEW ids \in SUBSET AgentIds(s)
  PROVE  LET n == removeAgents(s, ids) IN
         /\ WellKept(n) /\ AgentIds(n) = AgentIds(s) \ ids /\ n.known = s.known /\ n.active = s.active
         /\ \A i \in AgentIds(s) \ ids : n.agents[i] = s.agents[i]
<1> DEFINE n == removeAgents(s, ids)
           roster == [i \in AgentIds(s) \ ids |-> s.agents[i]]
           m == [s EXCEPT !.agents = roster]
<1>0. s \in Exts /\ OwnFiles(s) /\ Counted(s)
  BY DEF WellKept, Orderly
<1>1. CASE ids = {}
  <2>1. n = s
    BY <1>1 DEF removeAgents
  <2> HIDE DEF n
  <2> QED
    BY <2>1, <1>1 DEF n
<1>2. CASE ids # {}
  <2>1. n = persistAgents(m)
    <3>1. m = [s EXCEPT !.agents = [i \in AgentIds(s) \ ids |-> @[i]]]
      BY <1>0 DEF Exts
    <3> HIDE DEF m
    <3> QED
      BY <3>1, <1>2 DEF removeAgents
  <2>2. s.agents \in [AgentIds(s) -> AgentRecs] /\ AgentIds(s) \subseteq Nat
    BY <1>0, RosterFacts DEF Exts, AgentIds
  <2>3. roster \in Rosters
    <3>1. DOMAIN roster \subseteq Nat /\ roster \in [DOMAIN roster -> AgentRecs]
      BY <2>2
    <3> HIDE DEF roster
    <3> QED
      BY <3>1, RosterFacts
  <2>4. DOMAIN roster = AgentIds(s) \ ids /\ \A i \in AgentIds(s) \ ids : roster[i] = s.agents[i]
    OBVIOUS
  <2> HIDE DEF roster
  <2>5. /\ m \in Exts /\ m.agents = roster /\ m.known = s.known /\ m.active = s.active
        /\ m.nextId = s.nextId /\ m.scanning = s.scanning /\ m.saved = s.saved /\ m.processed = s.processed
    BY <1>0, <2>3 DEF Exts
  <2> HIDE DEF m
  <2>6. AgentIds(m) = AgentIds(s) \ ids
    BY <2>4, <2>5 DEF AgentIds
  <2>7. OwnFiles(m)
    <3>1. PICK k \in Nat : Bounds(s, k)
      BY <1>0 DEF OwnFiles
    <3>2. Bounds(m, k)
      BY <2>4, <2>5, <2>6, <3>1 DEF Bounds
    <3>3. \A i, j \in AgentIds(m) : m.agents[i].file = m.agents[j].file => i = j
      BY <1>0, <2>4, <2>5, <2>6 DEF OwnFiles
    <3> QED
      BY <1>0, <2>4, <2>5, <2>6, <3>1, <3>2, <3>3 DEF OwnFiles
  <2>8. Counted(m)
    BY <1>0, <2>4, <2>5, <2>6 DEF Counted
  <2>9. Orderly(m)
    BY <2>5, <2>7, <2>8 DEF Orderly, Unstarted
  <2> DEFINE q == persistAgents(m)
  <2>10. /\ q \in Exts /\ Orderly(q) /\ ListStored(q) /\ q.agents = m.agents /\ AgentIds(q) = AgentIds(m)
         /\ q.known = m.known /\ q.active = m.active
    BY <2>5, <2>9, PersistGood
  <2> HIDE DEF q, n
  <2>11. n = q
    BY <2>1 DEF q
  <2>12. /\ WellKept(n) /\ AgentIds(n) = AgentIds(s) \ ids /\ n.known = s.known /\ n.active = s.active
         /\ \A i \in AgentIds(s) \ ids : n.agents[i] = s.agents[i]
    BY <2>4, <2>5, <2>6, <2>10, <2>11 DEF WellKept
  <2> QED
    BY <2>12 DEF n
<1> QED
  BY <1>1, <1>2

(* Close: the agents of the terminal are gone with it.                     *)
LEMMA CloseKeeps == ASSUME TrackerInv, NEW t \in Terminals, Close(t) PROVE TrackerInv'
<1> USE DEF Close
<1>0. WorldTypes /\ WellKept(ext) /\ AtHome(ext) /\ FollowsItsSession
  BY DEF TrackerInv
<1>1. /\ open' \in Seq(Terminals) /\ Open' = Open \ {t}
      /\ \A m, n \in DOMAIN open' : open'[m] = open'[n] => m = n
  <2> DEFINE S == Open \ {t}
  <2>1. open \in Seq(Terminals) /\ \A m, n \in DOMAIN open : open[m] = open[n] => m = n
    BY <1>0 DEF WorldTypes
  <2> DEFINE q == Among(open, S)
  <2>2. open' = q
    OBVIOUS
  <2> HIDE DEF S
  <2>3. /\ q \in Seq(Terminals)
        /\ \A n \in DOMAIN q : q[n] \in S /\ \E m \in DOMAIN open : open[m] = q[n]
        /\ \A m \in DOMAIN open : open[m] \in S => \E n \in DOMAIN q : q[n] = open[m]
        /\ (\A m, n \in DOMAIN open : open[m] = open[n] => m = n)
           => \A m, n \in DOMAIN q : q[m] = q[n] => m = n
    BY <2>1, AmongFacts
  <2> HIDE DEF q
  <2>4. Range(q) = S
    <3>1. \A x \in Range(q) : x \in S
      BY <2>3 DEF Range
    <3>2. \A x \in S : \E m \in DOMAIN open : open[m] = x
      BY DEF S, Open, Range
    <3>3. \A x \in S : x \in Range(q)
      BY <2>3, <3>2 DEF Range
    <3> QED
      BY <3>1, <3>3
  <2>5. Open' = S
    BY <2>2, <2>4 DEF Open
  <2> QED
    BY <2>1, <2>2, <2>3, <2>5 DEF S
<1>2. None \notin Open /\ None \notin Terminals /\ AgentIds(ext) \subseteq Nat /\ ext.active \in Nat \cup {None}
  BY <1>0, OpenFacts, ExtFacts DEF Exts
<1>3. /\ \A u \in Terminals : session'[u] = IF u = t THEN None ELSE session[u]
      /\ session' \in [Terminals -> Files \cup {None}]
  BY <1>0 DEF WorldTypes
<1>4. WorldTypes'
  <2>1. focus' \in Open' \cup {None}
    BY <1>0, <1>1 DEF WorldTypes
  <2> QED
    BY <1>0, <1>1, <1>3, <2>1 DEF WorldTypes
<1>5. CASE ~Resolved
  <2>1. ext' = ext /\ AgentIds(ext) = {} /\ ext.active = None
    BY <1>0, <1>5, ExtFacts DEF Resolved
  <2>2. WellKept(ext)'
    BY <2>1, <1>0, Carry
  <2>3. AgentIds(ext)' = {}
    BY <2>1 DEF AgentIds
  <2>4. AtHome(ext)' /\ FollowsItsSession'
    BY <2>1, <2>3 DEF AtHome, FollowsItsSession
  <2> QED
    BY <2>2, <2>4, <1>4 DEF TrackerInv
<1>6. CASE Resolved
  <2> DEFINE a == IF ext.active \in OwnerOf(ext, t) \/ focus = t THEN None ELSE ext.active
             m == [ext EXCEPT !.active = a]
             ids == OwnerOf(ext, t)
             n == removeAgents(m, ids)
  <2>1. ext' = n
    <3>1. m = [ext EXCEPT !.active = IF @ \in OwnerOf(ext, t) \/ focus = t THEN None ELSE @]
      BY <1>0 DEF WellKept, Exts
    <3> HIDE DEF m
    <3> QED
      BY <3>1, <1>6
  <2>2. a \in Nat \cup {None}
    BY <1>2
  <2>3. a # None => a = ext.active /\ a \notin ids /\ focus # t
    OBVIOUS
  <2>3a. ids = {i \in AgentIds(ext) : ext.agents[i].term = t}
    BY DEF OwnerOf
  <2> HIDE DEF a, ids
  <2>4. /\ WellKept(m) /\ m.agents = ext.agents /\ AgentIds(m) = AgentIds(ext) /\ m.known = ext.known
        /\ m.active = a /\ m.scanning
    BY <1>0, <1>6, <2>2, ActiveFacts DEF Resolved
  <2> HIDE DEF m
  <2>5. ids \in SUBSET AgentIds(m)
    BY <2>3a, <2>4
  <2>6. /\ WellKept(n) /\ AgentIds(n) = AgentIds(m) \ ids /\ n.known = m.known /\ n.active = m.active
        /\ \A i \in AgentIds(m) \ ids : n.agents[i] = m.agents[i]
    BY <2>4, <2>5, RemoveFacts
  <2> HIDE DEF n
  <2>7. /\ WellKept(ext') /\ AgentIds(ext') = AgentIds(ext) \ ids /\ ext'.known = ext.known /\ ext'.active = a
        /\ \A i \in AgentIds(ext) \ ids : ext'.agents[i] = ext.agents[i]
    BY <2>1, <2>4, <2>6
  <2>8. WellKept(ext)'
    BY <2>7, Carry
  <2>9. AgentIds(ext)' = AgentIds(ext) \ ids
    BY <2>7 DEF AgentIds
  <2>10. \A i \in AgentIds(ext) \ ids :
           /\ ext'.agents[i] = ext.agents[i] /\ ext.agents[i].term # t
           /\ ext.agents[i].term # None => /\ ext.agents[i].term \in Open'
                                           /\ ext.agents[i].name = name[ext.agents[i].term]
    BY <2>3a, <2>7, <1>0, <1>1 DEF AtHome
  <2>11. AtHome(ext)'
    <3>1. a # None =>
            /\ a \in AgentIds(ext) \ ids /\ focus' = focus /\ focus # None
            /\ ext.agents[a].term # None /\ ext.agents[a].name = name[focus]
            /\ ext.agents[a].term # focus => ext.agents[a].term \in astray' /\ OwnerOf(ext, focus) = {}
      BY <2>3, <2>10, <1>0 DEF AtHome
    <3>2. OwnerOf(ext, focus) = {} => \A i \in AgentIds(ext)' : ext'.agents[i].term # focus
      BY <2>9, <2>10 DEF OwnerOf
    <3>3. \A i \in AgentIds(ext)' : ext'.agents[i].term # None =>
            ext'.agents[i].term \in Open' /\ ext'.agents[i].name = name'[ext'.agents[i].term]
      BY <2>9, <2>10
    <3>4. OwnerOf(ext, focus) = {} => OwnerOf(ext', focus) = {}
      BY <2>9, <3>2 DEF OwnerOf, AgentIds
    <3>5. a # None => /\ ext'.agents[a] = ext.agents[a] /\ a \in AgentIds(ext)' /\ name' = name
                      /\ OwnerOf(ext, focus)' = OwnerOf(ext', focus)
      BY <2>7, <2>9, <3>1 DEF OwnerOf, AgentIds
    <3> QED
      BY <2>7, <3>1, <3>3, <3>4, <3>5 DEF AtHome
  <2>12. FollowsItsSession'
    <3> SUFFICES ASSUME NEW i \in AgentIds(ext) \ ids, ext'.agents[i].term \in Open' \ astray',
                        session'[ext'.agents[i].term] \in ext'.known
                 PROVE  ext'.agents[i].file = session'[ext'.agents[i].term]
      BY <2>9 DEF FollowsItsSession
    <3>1. ext'.agents[i] = ext.agents[i] /\ ext.agents[i].term # t
      BY <2>10
    <3>2. ext.agents[i].term \in Open \ astray /\ session'[ext.agents[i].term] = session[ext.agents[i].term]
      BY <3>1, <1>0, <1>1, <1>3, OpenFacts
    <3> QED
      BY <3>1, <3>2, <2>7, <1>0 DEF FollowsItsSession
  <2> QED
    BY <2>8, <2>11, <2>12, <1>4 DEF TrackerInv
<1> QED
  BY <1>5, <1>6

(* ReadNewLines moves an offset to the end of the file.                    *)
LEMMA ReadNewLinesKeeps == ASSUME TrackerInv, NEW id \in AgentIds(ext), ReadNewLines(id) PROVE TrackerInv'
<1>0. WorldTypes /\ WellKept(ext)
  BY DEF TrackerInv
<1>1. Exists(ext.agents[id].file) /\ ext' = readNewLines(ext, id) /\ UNCHANGED <<world, astray>>
  BY DEF ReadNewLines
<1>2. ext \in Exts /\ Orderly(ext) /\ ListStored(ext)
  BY <1>0 DEF WellKept
<1> DEFINE n == readNewLines(ext, id)
<1>3. /\ n \in Exts /\ Orderly(n)
      /\ ListStored(ext) => ListStored(n)
      /\ AgentIds(n) = AgentIds(ext) /\ n.known = ext.known /\ n.active = ext.active /\ n.scanning = ext.scanning
      /\ \A i \in AgentIds(ext) : /\ n.agents[i].term = ext.agents[i].term
                                  /\ n.agents[i].name = ext.agents[i].name
                                  /\ n.agents[i].file = ext.agents[i].file
  BY <1>0, <1>1, <1>2, ReadOrderly
<1>4. ext' = n
  BY <1>1
<1> HIDE DEF n
<1> QED
  BY <1>1, <1>2, <1>3, <1>4, Quiet DEF WellKept

(* The same agent, with another offset or other timers.                    *)
Same(s, n) ==
  /\ AgentIds(n) = AgentIds(s) /\ n.known = s.known /\ n.active = s.active
  /\ \A i \in AgentIds(s) : /\ n.agents[i].term = s.agents[i].term
                            /\ n.agents[i].name = s.agents[i].name
                            /\ n.agents[i].file = s.agents[i].file

(* Such a change keeps the extension orderly.                              *)
LEMMA TouchedFacts ==
  ASSUME NEW s, WellKept(s), NEW id \in AgentIds(s), NEW a \in AgentRecs,
         a.term = s.agents[id].term, a.name = s.agents[id].name, a.file = s.agents[id].file,
         s.processed[a.file] <= a.offset
  PROVE  LET n == [s EXCEPT !.agents = [s.agents EXCEPT ![id] = a]] IN
         WellKept(n) /\ Same(s, n) /\ n.agents[id] = a
<1> DEFINE roster == [s.agents EXCEPT ![id] = a]
           n == [s EXCEPT !.agents = roster]
<1>0. s \in Exts /\ OwnFiles(s) /\ Counted(s) /\ Unstarted(s) /\ ListStored(s)
  BY DEF WellKept, Orderly
<1>1. s.agents \in [AgentIds(s) -> AgentRecs] /\ AgentIds(s) \subseteq Nat
  BY <1>0, RosterFacts DEF Exts, AgentIds
<1>2. roster \in [AgentIds(s) -> AgentRecs] /\ DOMAIN roster = AgentIds(s)
  BY <1>1
<1>3. roster \in Rosters
  BY <1>1, <1>2, RosterFacts
<1>4. \A i \in AgentIds(s) : roster[i] = IF i = id THEN a ELSE s.agents[i]
  BY <1>1
<1> HIDE DEF roster
<1>5. /\ n \in Exts /\ n.agents = roster /\ n.known = s.known /\ n.active = s.active
      /\ n.nextId = s.nextId /\ n.scanning = s.scanning /\ n.saved = s.saved /\ n.processed = s.processed
  BY <1>0, <1>3 DEF Exts
<1> HIDE DEF n
<1>6. AgentIds(n) = AgentIds(s)
  BY <1>2, <1>5 DEF AgentIds
<1>7. \A i \in AgentIds(s) : /\ n.agents[i].term = s.agents[i].term
                             /\ n.agents[i].name = s.agents[i].name
                             /\ n.agents[i].file = s.agents[i].file
  BY <1>4, <1>5
<1>8. OwnFiles(n)
  <2>1. PICK k \in Nat : Bounds(s, k)
    BY <1>0 DEF OwnFiles
  <2>2. Bounds(n, k)
    BY <1>5, <1>6, <1>7, <2>1 DEF Bounds
  <2> QED
    BY <1>0, <1>5, <1>6, <1>7, <2>1, <2>2 DEF OwnFiles
<1>9. Counted(n)
  BY <1>0, <1>4, <1>5, <1>6 DEF Counted
<1>10. Unstarted(n) /\ ListStored(n)
  <2>1. ListOf(n) = ListOf(s)
    BY <1>6, <1>7 DEF ListOf
  <2> QED
    BY <2>1, <1>0, <1>5, <1>6 DEF Unstarted, ListStored
<1>11. WellKept(n) /\ Same(s, n)
  BY <1>5, <1>6, <1>7, <1>8, <1>9, <1>10 DEF WellKept, Orderly, Same
<1>12. n.agents[id] = a
  BY <1>4, <1>5
<1> QED
  BY <1>11, <1>12 DEF n, roster

(* FileAppears: the file is read, skipped or watched.                      *)
LEMMA FileAppearsKeeps ==
  ASSUME TrackerInv, NEW id \in AgentIds(ext), NEW timer \in Timers, FileAppears(id, timer)
  PROVE  TrackerInv'
<1>0. WorldTypes /\ WellKept(ext) /\ ext \in Exts /\ Counted(ext)
  BY DEF TrackerInv, WellKept, Orderly
<1> DEFINE old == ext.agents[id]
           file == old.file
           a == [old EXCEPT !.watched = TRUE, !.polls = @ \ {timer}]
           b == [a EXCEPT !.offset = size[file]]
           new == [ext EXCEPT !.agents[id].watched = TRUE, !.agents[id].polls = @ \ {timer}]
           n == [ext EXCEPT !.agents = [ext.agents EXCEPT ![id] = a]]
           m == [ext EXCEPT !.agents = [ext.agents EXCEPT ![id] = b]]
           r == readNewLines(n, id)
<1>1. /\ Exists(file) /\ UNCHANGED <<world, astray>>
      /\ ext' = CASE timer = "read" -> readNewLines(new, id)
                  [] timer = "skip" -> [new EXCEPT !.agents[id].offset = size[file]]
                  [] timer = "watch" -> new
  BY DEF FileAppears
<1>2. ext.agents \in [AgentIds(ext) -> AgentRecs] /\ old \in AgentRecs /\ DOMAIN ext.agents = AgentIds(ext)
  BY <1>0, ExtFacts DEF AgentIds
<1>3. new = n
  BY <1>0, <1>2 DEF Exts, AgentRecs
<1>4. /\ a \in AgentRecs /\ a.term = old.term /\ a.name = old.name /\ a.file = file /\ a.offset = old.offset
      /\ DOMAIN a = DOMAIN old
  <2> HIDE DEF old
  <2>1. a = [old EXCEPT !.watched = TRUE, !.polls = old.polls \ {timer}]
    BY <1>2 DEF AgentRecs
  <2> HIDE DEF a
  <2>2. a = [term |-> old.term, name |-> old.name, file |-> old.file, offset |-> old.offset, watched |-> TRUE,
             polls |-> old.polls \ {timer}]
    BY <2>1, <1>2 DEF AgentRecs
  <2>3. TRUE \in BOOLEAN /\ old.polls \ {timer} \subseteq Timers
    BY <1>2 DEF AgentRecs
  <2>4. a \in AgentRecs
    BY <2>2, <2>3, <1>2 DEF AgentRecs
  <2> QED
    BY <2>2, <2>4, <1>2 DEF AgentRecs
<1>5. ext.processed[file] <= old.offset /\ ext.processed[file] <= size[file] /\ size[file] \in Nat /\ file \in Files
  BY <1>0, <1>1, <1>2 DEF Counted, AgentRecs, Exists, WorldTypes
<1>6. b \in AgentRecs /\ b.term = old.term /\ b.name = old.name /\ b.file = file /\ b.offset = size[file]
  <2> HIDE DEF a, file
  <2> QED
    BY <1>4, <1>5 DEF AgentRecs
<1>7. WellKept(n) /\ Same(ext, n) /\ n.agents[id] = a
  <2> HIDE DEF a
  <2> QED
    BY <1>0, <1>4, <1>5, TouchedFacts
<1>8. WellKept(m) /\ Same(ext, m)
  <2> HIDE DEF b
  <2> QED
    BY <1>0, <1>5, <1>6, TouchedFacts
<1>9. [n EXCEPT !.agents[id].offset = size[file]] = m
  <2> HIDE DEF a, file
  <2>1. n.agents = [ext.agents EXCEPT ![id] = a] /\ ext.agents[id] \in AgentRecs
    BY <1>0, <1>2 DEF Exts
  <2>2. [n.agents EXCEPT ![id].offset = size[file]] = [ext.agents EXCEPT ![id] = b]
    BY <1>2, <2>1
  <2> QED
    BY <2>2, <1>0 DEF Exts
<1>10. WellKept(r) /\ Same(ext, r)
  <2> HIDE DEF n, a
  <2>1. n \in Exts /\ Orderly(n) /\ ListStored(n) /\ id \in AgentIds(n) /\ Exists(n.agents[id].file)
    BY <1>1, <1>4, <1>7 DEF WellKept, Same
  <2>2. /\ r \in Exts /\ Orderly(r)
        /\ ListStored(n) => ListStored(r)
        /\ AgentIds(r) = AgentIds(n) /\ r.known = n.known /\ r.active = n.active /\ r.scanning = n.scanning
        /\ \A i \in AgentIds(n) : /\ r.agents[i].term = n.agents[i].term
                                  /\ r.agents[i].name = n.agents[i].name
                                  /\ r.agents[i].file = n.agents[i].file
    BY <2>1, <1>0, ReadOrderly
  <2> HIDE DEF r
  <2> QED
    BY <2>1, <2>2, <1>7 DEF WellKept, Same
<1>11. ext' = r \/ ext' = m \/ ext' = n
  <2>1. "read" # "skip" /\ "read" # "watch" /\ "skip" # "watch"
    OBVIOUS
  <2> HIDE DEF n, m, new, a, b, old, file
  <2>2. CASE timer = "read"
    <3>1. ext' = readNewLines(new, id)
      BY <2>1, <2>2, <1>1
    <3> QED
      BY <3>1, <1>3
  <2>3. CASE timer = "skip"
    <3>1. ext' = [new EXCEPT !.agents[id].offset = size[file]]
      BY <2>1, <2>3, <1>1
    <3> QED
      BY <3>1, <1>3, <1>9
  <2>4. CASE timer = "watch"
    <3>1. ext' = new
      BY <2>1, <2>4, <1>1
    <3> QED
      BY <3>1, <1>3
  <2> QED
    BY <2>2, <2>3, <2>4 DEF Timers
<1>12. WellKept(ext') /\ Same(ext, ext')
  <2> HIDE DEF n, m, r
  <2> QED
    BY <1>7, <1>8, <1>10, <1>11
<1> QED
  BY <1>1, <1>12, Quiet DEF Same

(* Launch: the agent knows the file of its session.                        *)
LEMMA LaunchKeeps ==
  ASSUME TrackerInv, NEW t \in Terminals, NEW f \in Files, Launch(t, f) PROVE TrackerInv'
<1>0. WorldTypes /\ WellKept(ext) /\ AtHome(ext) /\ FollowsItsSession /\ ext \in Exts /\ OwnFiles(ext) /\ Counted(ext)
  BY DEF TrackerInv, WellKept, Orderly
<1> DEFINE rec == Agent(t, ext.nextTerm, f, 0, FALSE, {"read"})
           s == [ext EXCEPT !.known = @ \cup {f}]
           new == [With(ext, ext.nextId, rec) EXCEPT
                   !.nextTerm = @ + 1, !.nextId = @ + 1, !.known = @ \cup {f}, !.active = ext.nextId]
           e == Employed(s, rec, ext.nextTerm + 1)
           n == persistAgents(e)
<1>1. /\ ext.scanning /\ t \notin Open /\ f \notin Used
      /\ open' = Append(open, t) /\ focus' = t
      /\ name' = [name EXCEPT ![t] = ext.nextTerm]
      /\ session' = [session EXCEPT ![t] = f]
      /\ ext' = ensureProjectScan(persistAgents(new))
      /\ astray' = astray \ {t} /\ size' = size
  BY DEF Launch, Resolved
<1>2. f \notin ext.known /\ ~Exists(f) /\ f \notin Range(session)
  BY <1>1 DEF Used, OnDisk
<1>3. rec \in AgentRecs /\ rec.offset = 0 /\ rec.file = f /\ rec.term = t /\ rec.name = ext.nextTerm
  <2>1. ext.nextTerm \in Names /\ FALSE \in BOOLEAN /\ {"read"} \subseteq Timers
    BY <1>0 DEF Exts, Names, Timers
  <2> QED
    BY <2>1 DEF Agent, AgentRecs
<1>4. /\ s \in Exts /\ s.agents = ext.agents /\ s.known = ext.known \cup {f} /\ s.active = ext.active
      /\ s.nextId = ext.nextId /\ s.nextTerm = ext.nextTerm /\ s.scanning = ext.scanning
      /\ s.saved = ext.saved /\ s.processed = ext.processed
  <2>1. s = [ext EXCEPT !.known = ext.known \cup {f}]
    BY <1>0 DEF Exts
  <2> HIDE DEF s
  <2> QED
    BY <2>1, <1>0 DEF Exts
<1>5. new = e
  <2> HIDE DEF rec
  <2> DEFINE w == [i \in AgentIds(ext) \cup {ext.nextId} |-> IF i = ext.nextId THEN rec ELSE ext.agents[i]]
             we == With(ext, ext.nextId, rec)
             ws == With(s, s.nextId, rec)
  <2>1. we = [ext EXCEPT !.agents = w]
    BY <1>0 DEF With, Exts
  <2>2. ws = [s EXCEPT !.agents = w]
    <3>1. AgentIds(s) = AgentIds(ext)
      BY <1>4 DEF AgentIds
    <3>2. ws = [s EXCEPT !.agents = [i \in AgentIds(s) \cup {s.nextId} |-> IF i = s.nextId THEN rec ELSE s.agents[i]]]
      BY <1>4 DEF With, Exts
    <3> HIDE DEF s, ws
    <3> QED
      BY <3>1, <3>2, <1>4
  <2>3. new = [we EXCEPT !.nextTerm = @ + 1, !.nextId = @ + 1, !.known = @ \cup {f}, !.active = ext.nextId]
    OBVIOUS
  <2>4. e = [ws EXCEPT !.nextId = @ + 1, !.active = s.nextId, !.nextTerm = ext.nextTerm + 1]
    BY DEF Employed
  <2> HIDE DEF w, we, ws, s, new, e
  <2>5. we = [agents |-> w, known |-> ext.known, active |-> ext.active, nextId |-> ext.nextId,
              nextTerm |-> ext.nextTerm, scanning |-> ext.scanning, saved |-> ext.saved, processed |-> ext.processed]
    BY <2>1, <1>0 DEF Exts
  <2>6. ws = [agents |-> w, known |-> ext.known \cup {f}, active |-> ext.active, nextId |-> ext.nextId,
              nextTerm |-> ext.nextTerm, scanning |-> ext.scanning, saved |-> ext.saved, processed |-> ext.processed]
    BY <2>2, <1>4 DEF Exts
  <2>7. new = [agents |-> w, known |-> ext.known \cup {f}, active |-> ext.nextId, nextId |-> ext.nextId + 1,
              nextTerm |-> ext.nextTerm + 1, scanning |-> ext.scanning, saved |-> ext.saved, processed |-> ext.processed]
    BY <2>3, <2>5
  <2>8. e = [agents |-> w, known |-> ext.known \cup {f}, active |-> ext.nextId, nextId |-> ext.nextId + 1,
              nextTerm |-> ext.nextTerm + 1, scanning |-> ext.scanning, saved |-> ext.saved, processed |-> ext.processed]
    BY <2>4, <2>6, <1>4
  <2> QED
    BY <2>7, <2>8
<1> HIDE DEF s, rec, e, new
<1>6. AgentIds(s) = AgentIds(ext) /\ ListOf(s) = ListOf(ext)
  BY <1>4 DEF AgentIds, ListOf
<1>7. Orderly(s) /\ Untouched(s, f)
  <2>1. PICK k \in Nat : Bounds(ext, k)
    BY <1>0 DEF OwnFiles
  <2>2. Bounds(s, k)
    BY <2>1, <1>4, <1>6 DEF Bounds
  <2>3. OwnFiles(s)
    BY <1>0, <1>4, <1>6, <2>1, <2>2 DEF OwnFiles
  <2>4. Counted(s)
    BY <1>0, <1>4, <1>6 DEF Counted
  <2>5. Untouched(s, f)
    BY <1>0, <1>2, <1>4, <1>6 DEF Untouched, OwnFiles, Counted
  <2> QED
    BY <2>3, <2>4, <2>5, <1>1, <1>4 DEF Orderly, Unstarted
<1>8. Hired(s, e, rec)
  <2> DEFINE x == ext.nextTerm + 1
  <2>1. x \in Nat /\ s.scanning /\ Untouched(s, rec.file)
    BY <1>0, <1>1, <1>3, <1>4, <1>7 DEF Exts
  <2>2. e = Employed(s, rec, x)
    BY DEF e
  <2> HIDE DEF x
  <2>3. Hired(s, Employed(s, rec, x), rec)
    BY <2>1, <1>3, <1>4, <1>7, NewAgentGood
  <2> QED
    BY <2>2, <2>3
<1>9. /\ n \in Exts /\ Orderly(n) /\ ListStored(n) /\ n.agents = e.agents /\ AgentIds(n) = AgentIds(e)
      /\ n.known = e.known /\ n.active = e.active /\ n.scanning = e.scanning
  <2>1. e \in Exts /\ Orderly(e)
    BY <1>8 DEF Hired
  <2> QED
    BY <2>1, PersistGood
<1>10. ext' = n
  <2>1. n.scanning
    BY <1>1, <1>4, <1>8, <1>9 DEF Hired
  <2>2. ensureProjectScan(n) = n
    BY <2>1 DEF ensureProjectScan
  <2> QED
    BY <2>2, <1>1, <1>5
<1> HIDE DEF n
<1> DEFINE id == ext.nextId
<1>11. /\ AgentIds(ext') = AgentIds(ext) \cup {id} /\ id \notin AgentIds(ext)
       /\ ext'.known = ext.known \cup {f} /\ ext'.active = id
       /\ ext'.agents[id] = rec /\ \A i \in AgentIds(ext) : ext'.agents[i] = ext.agents[i]
  BY <1>4, <1>6, <1>8, <1>9, <1>10 DEF Hired
<1> HIDE DEF id
<1>12. WellKept(ext)'
  <2>1. WellKept(ext')
    BY <1>9, <1>10 DEF WellKept
  <2> QED
    BY <2>1, <1>1, Carry
<1>13. /\ Open' = Open \cup {t} /\ open' \in Seq(Terminals)
       /\ \A m, k \in DOMAIN open' : open'[m] = open'[k] => m = k
  BY <1>0, <1>1, OpenedFacts
<1>14. /\ name' \in [Terminals -> Nat \cup Range(ShellName)] /\ session' \in [Terminals -> Files \cup {None}]
       /\ name'[t] = ext.nextTerm /\ session'[t] = f
       /\ \A u \in Terminals : u # t => name'[u] = name[u] /\ session'[u] = session[u]
  BY <1>0, <1>1 DEF WorldTypes, Exts
<1>15. WorldTypes'
  BY <1>0, <1>1, <1>13, <1>14 DEF WorldTypes
<1>16. AgentIds(ext)' = AgentIds(ext) \cup {id}
  BY <1>11 DEF AgentIds
<1>17. Open \subseteq Terminals /\ None \notin Terminals
  BY <1>0, OpenFacts
<1>18. \A i \in AgentIds(ext) : ext.agents[i].term # None =>
         /\ ext.agents[i].term \in Open /\ ext.agents[i].term # t
         /\ ext.agents[i].name = name'[ext.agents[i].term]
  BY <1>0, <1>1, <1>14, <1>17 DEF AtHome
<1>19. AtHome(ext)'
  <2>1. ext'.agents[id].term = t /\ ext'.agents[id].name = name'[t] /\ t \in Open'
    BY <1>3, <1>11, <1>13, <1>14
  <2> QED
    BY <2>1, <1>1, <1>11, <1>13, <1>16, <1>17, <1>18 DEF AtHome
<1>20. FollowsItsSession'
  <2> SUFFICES ASSUME NEW i \in AgentIds(ext) \cup {id}, ext'.agents[i].term \in Open' \ astray',
                      session'[ext'.agents[i].term] \in ext'.known
               PROVE  ext'.agents[i].file = session'[ext'.agents[i].term]
    BY <1>16 DEF FollowsItsSession
  <2>1. CASE i = id
    BY <2>1, <1>3, <1>11, <1>14
  <2>2. CASE i # id
    <3>1. i \in AgentIds(ext) /\ ext'.agents[i] = ext.agents[i]
      BY <2>2, <1>11
    <3>2. ext.agents[i].term \in Open \ astray /\ ext.agents[i].term # t
      <4>1. ext.agents[i].term # None
        BY <3>1, <1>13, <1>17
      <4> QED
        BY <4>1, <3>1, <1>1, <1>13, <1>18
    <3>3. session'[ext.agents[i].term] = session[ext.agents[i].term]
      BY <3>2, <1>14, <1>17
    <3>4. session[ext.agents[i].term] # f
      <4>1. DOMAIN session = Terminals
        BY <1>0 DEF WorldTypes
      <4> QED
        BY <4>1, <3>2, <1>2, <1>17 DEF Range
    <3> QED
      BY <3>1, <3>2, <3>3, <3>4, <1>0, <1>11 DEF FollowsItsSession
  <2> QED
    BY <2>1, <2>2
<1> QED
  BY <1>12, <1>15, <1>19, <1>20 DEF TrackerInv

(* The scan: an agent that goes on to a file of another session is astray. *)
LEMMA ScanKeeps == ASSUME TrackerInv, ScanForNewJsonlFiles PROVE TrackerInv'
<1>0. WorldTypes /\ WellKept(ext) /\ AtHome(ext) /\ FollowsItsSession
  BY DEF TrackerInv
<1>1. PICK order \in SetToSeqs(OnDisk \ ext.known) : ext' = FoundAll(ext, order)
  BY DEF ScanForNewJsonlFiles, Unknown
<1>2. /\ ext.scanning /\ UNCHANGED world
      /\ astray' = IF GuessesRight THEN astray \ {focus}
                   ELSE astray \cup {focus} \cup UNION {MadeBy(f) : f \in Unknown}
  BY DEF ScanForNewJsonlFiles
<1>3. /\ WellKept(ext') /\ Trail(ext, ext', Range(order))
      /\ \A f : order = <<f>> => ext' = Found(ext, f)
  BY <1>0, <1>1, <1>2, FoundAllGood
<1>4. WellKept(ext)' /\ WorldTypes'
  BY <1>0, <1>2, <1>3, Carry DEF WorldTypes, Open, world
<1>5. /\ open' = open /\ name' = name /\ focus' = focus /\ session' = session /\ Open' = Open
      /\ AgentIds(ext)' = AgentIds(ext')
  BY <1>2 DEF world, Open, AgentIds
<1>6. None \notin Open /\ Open \subseteq Terminals /\ focus \in Open \cup {None} /\ None \notin AgentIds(ext)
      /\ ext \in Exts
  BY <1>0, OpenFacts, NoneIsNoId DEF WorldTypes, WellKept
<1>7. AgentIds(ext) \subseteq AgentIds(ext') /\ ext'.known = ext.known \cup Range(order)
  BY <1>3 DEF Trail
<1>8. ASSUME NEW i \in AgentIds(ext)
      PROVE  /\ ext'.agents[i].term = ext.agents[i].term /\ ext'.agents[i].name = ext.agents[i].name
             /\ i # ext.active => ext'.agents[i].file = ext.agents[i].file
  BY <1>3 DEF Trail
<1>9. ASSUME NEW i \in AgentIds(ext') \ AgentIds(ext)
      PROVE  /\ ext'.agents[i].term = focus /\ ext'.agents[i].name = name[focus] /\ focus # None
             /\ ext.active = None /\ OwnerOf(ext, focus) = {}
  BY <1>3 DEF Trail
<1>10. ext'.active # ext.active => ext'.active \in AgentIds(ext') \ AgentIds(ext)
  BY <1>3 DEF Trail
<1>11. \A u \in astray : u # focus => u \in astray'
  BY <1>2
<1>12. AtHome(ext)'
  <2>1. \A i \in AgentIds(ext') : ext'.agents[i].term # None =>
          ext'.agents[i].term \in Open /\ ext'.agents[i].name = name[ext'.agents[i].term]
    <3>1. \A i \in AgentIds(ext) : ext.agents[i].term # None =>
            ext.agents[i].term \in Open /\ ext.agents[i].name = name[ext.agents[i].term]
      BY <1>0 DEF AtHome
    <3> QED
      BY <3>1, <1>6, <1>8, <1>9
  <2>2. ASSUME ext'.active # None
        PROVE  /\ ext'.active \in AgentIds(ext') /\ focus # None
               /\ ext'.agents[ext'.active].term # None /\ ext'.agents[ext'.active].name = name[focus]
               /\ ext'.agents[ext'.active].term # focus =>
                    ext'.agents[ext'.active].term \in astray' /\ \A i \in AgentIds(ext') : ext'.agents[i].term # focus
    <3>1. CASE ext'.active # ext.active
      BY <3>1, <1>9, <1>10
    <3>2. CASE ext'.active = ext.active
      <4>1. /\ ext.active \in AgentIds(ext) /\ focus # None
            /\ ext.agents[ext.active].term # None /\ ext.agents[ext.active].name = name[focus]
            /\ ext.agents[ext.active].term # focus =>
                 ext.agents[ext.active].term \in astray /\ OwnerOf(ext, focus) = {}
        BY <2>2, <3>2, <1>0 DEF AtHome
      <4>2. OwnerOf(ext, focus) = {} => \A i \in AgentIds(ext') : ext'.agents[i].term # focus
        <5>1. OwnerOf(ext, focus) = {} => \A i \in AgentIds(ext) : ext.agents[i].term # focus
          BY DEF OwnerOf
        <5>2. AgentIds(ext') \ AgentIds(ext) = {}
          BY <1>9, <2>2, <3>2
        <5> QED
          BY <5>1, <5>2, <1>8
      <4> QED
        BY <4>1, <4>2, <3>2, <1>7, <1>8, <1>11
    <3> QED
      BY <3>1, <3>2
  <2> QED
    BY <2>1, <2>2, <1>5 DEF AtHome, OwnerOf
<1>13. ASSUME NEW i \in AgentIds(ext'), ext'.agents[i].term \in Open \ astray', session[ext'.agents[i].term] \in ext'.known
       PROVE  ext'.agents[i].file = session[ext'.agents[i].term]
  <2> DEFINE t == ext'.agents[i].term
  <2>1. t \in Terminals /\ t # None
    BY <1>6, <1>13
  <2>2. session[t] \in ext.known \/ session[t] \in Unknown
    <3>1. Range(order) \subseteq OnDisk \ ext.known
      <4>1. OnDisk \ ext.known \subseteq Files
        BY DEF OnDisk
      <4>2. order \in Seq(OnDisk \ ext.known) /\ \A m \in 1 .. Len(order) : order[m] \in OnDisk \ ext.known
        BY <4>1, OrderFacts
      <4> QED
        BY <4>2 DEF Range
    <3> QED
      BY <3>1, <1>7, <1>13 DEF Unknown
  <2>3. session[t] \in Unknown => t \in UNION {MadeBy(f) : f \in Unknown}
    BY <2>1 DEF MadeBy
  <2>4. ASSUME i \in AgentIds(ext), i # ext.active, t \notin astray, session[t] \in ext.known
        PROVE  ext'.agents[i].file = session[t]
    BY <2>4, <1>0, <1>8, <1>13 DEF FollowsItsSession
  <2>5. ASSUME i = ext.active, i \in AgentIds(ext) PROVE t = focus \/ t \in astray
    BY <2>5, <1>0, <1>6, <1>8 DEF AtHome
  <2>6. CASE ~GuessesRight
    <3>1. t \notin astray /\ t # focus /\ t \notin UNION {MadeBy(f) : f \in Unknown}
      BY <2>6, <1>2, <1>13
    <3>2. i \in AgentIds(ext) /\ i # ext.active
      BY <3>1, <2>5, <1>9
    <3> QED
      BY <3>1, <3>2, <2>2, <2>3, <2>4
  <2>7. CASE GuessesRight
    <3>1. PICK f \in Unknown : Unknown = {f} /\ MadeBy(f) = {focus}
      BY <2>7 DEF GuessesRight
    <3>2. /\ ext.active # None \/ OwnerOf(ext, focus) = {}
          /\ \A x, y \in OwnerOf(ext, focus) : x = y
      BY <2>7 DEF GuessesRight, Knows
    <3>3. focus \in Terminals /\ session[focus] = f
      BY <3>1 DEF MadeBy
    <3>4. order = <<f>>
      <4>1. OnDisk \ ext.known = {f} /\ f \in Files
        BY <3>1 DEF Unknown, OnDisk
      <4>2. Cardinality({f}) = 1
        BY FS_Singleton
      <4>3. {f} \in SUBSET Files /\ order \in SetToSeqs({f})
        BY <4>1
      <4> DEFINE S == {f}
      <4>3a. S \in SUBSET Files /\ order \in SetToSeqs(S)
        BY <4>3
      <4> HIDE DEF S
      <4>3b. order \in Seq(S) /\ Len(order) = Cardinality(S) /\ \A m \in 1 .. Len(order) : order[m] \in S
        BY <4>3a, OrderFacts
      <4>4. order \in Seq({f}) /\ Len(order) = 1 /\ order[1] = f
        BY <4>2, <4>3b DEF S
      <4> QED
        BY <4>4
    <3>5. ext' = Found(ext, f)
      BY <3>4, <1>3
    <3>6. MovedOn(ext, ext', f)
      <4>1. f \in OnDisk \ ext.known
        BY <3>1 DEF Unknown
      <4> QED
        BY <4>1, <3>5, <1>0, <1>2, FoundGood DEF WellKept
    <3>7. CASE t = focus
      <4>1. CASE i \notin AgentIds(ext)
        <5>1. ext'.agents[i].file = f
          BY <4>1, <3>6 DEF MovedOn
        <5> QED
          BY <5>1, <3>3, <3>7
      <4>2. CASE i \in AgentIds(ext)
        <5>1. i \in OwnerOf(ext, focus)
          BY <4>2, <3>7, <1>8 DEF OwnerOf
        <5>2. ext.active \in OwnerOf(ext, focus)
          BY <5>1, <3>2, <1>0 DEF AtHome, OwnerOf
        <5>3. i = ext.active
          BY <5>1, <5>2, <3>2
        <5>4. ext'.agents[i].file = f
          BY <5>3, <4>2, <3>6 DEF MovedOn
        <5> QED
          BY <5>4, <3>3, <3>7
      <4> QED
        BY <4>1, <4>2
    <3>8. CASE t # focus
      <4>1. t \notin astray
        BY <3>8, <2>7, <1>2, <1>13
      <4>2. i \in AgentIds(ext) /\ i # ext.active
        BY <4>1, <3>8, <2>5, <1>9
      <4>3. session[t] # f
        BY <3>1, <3>8, <2>1 DEF MadeBy
      <4> QED
        BY <4>1, <4>2, <4>3, <3>1, <2>2, <2>4
    <3> QED
      BY <3>7, <3>8
  <2> QED
    BY <2>6, <2>7
<1>14. FollowsItsSession'
  BY <1>5, <1>13 DEF FollowsItsSession
<1> QED
  BY <1>4, <1>12, <1>14 DEF TrackerInv

(* Ready: every agent with a terminal comes back from the list.            *)
LEMMA ReadyKeeps == ASSUME TrackerInv, Ready PROVE TrackerInv'
<1>0. WorldTypes /\ WellKept(ext) /\ AtHome(ext) /\ FollowsItsSession
  BY DEF TrackerInv
<1> DEFINE r == restoreAgents(ext)
<1>1. PICK files \in SetToSeqs(OnDisk \ r.known) : ext' = ensureProjectScan(autoDiscoverAgents(r, files))
  BY DEF Ready, NotKnown
<1>2. /\ UNCHANGED world
      /\ astray' = astray \cup UNION {
           {p.term} \cup Named(p.name) :
             p \in {q \in ext.saved : session[q.term] # q.file \/ Named(q.name) # {q.term}}}
  BY DEF Ready
<1>3. Settled(r) /\ Reborn(ext, r)
  BY <1>0, RestoreGood
<1> HIDE DEF r
<1> DEFINE d == autoDiscoverAgents(r, files)
<1>4. /\ Settled(d) /\ d.active = r.active /\ r.known \subseteq d.known
      /\ AgentIds(r) \subseteq AgentIds(d) /\ \A i \in AgentIds(r) : d.agents[i] = r.agents[i]
      /\ \A i \in AgentIds(d) \ AgentIds(r) : d.agents[i].term = None
  BY <1>0, <1>1, <1>3, DiscoverGood
<1> HIDE DEF d
<1> DEFINE n == ensureProjectScan(d)
<1>5. /\ WellKept(n) /\ n.agents = d.agents /\ n.active = d.active
  BY <1>4, EnsureGood
<1>6. ext' = n
  BY <1>1 DEF d
<1> HIDE DEF n
<1>7. /\ AgentIds(ext') = AgentIds(d) /\ ext'.active = ext.active /\ WellKept(ext')
      /\ \A i \in AgentIds(ext') : ext'.agents[i] = d.agents[i]
  BY <1>3, <1>4, <1>5, <1>6 DEF AgentIds, Reborn
<1>8. WellKept(ext)' /\ WorldTypes'
  BY <1>0, <1>2, <1>7, Carry DEF WorldTypes, Open, world
<1>9. /\ open' = open /\ name' = name /\ focus' = focus /\ session' = session /\ Open' = Open
      /\ AgentIds(ext)' = AgentIds(ext')
  BY <1>2 DEF world, Open, AgentIds
<1>10. None \notin Open /\ Open \subseteq Terminals /\ focus \in Open \cup {None}
       /\ ext \in Exts /\ (ext.scanning => ext.saved = ListOf(ext))
       /\ (~ext.scanning => AgentIds(ext) = {} /\ ext.active = None)
  BY <1>0, OpenFacts DEF WorldTypes, WellKept, Orderly, Unstarted, ListStored
(* Every agent with a terminal comes from the list.                        *)
<1>11. ASSUME NEW i \in AgentIds(ext), ext.agents[i].term # None
       PROVE  \E p \in Back(ext) : p.id = i /\ p.term = ext.agents[i].term /\ p.name = ext.agents[i].name
  <2>1. ext.scanning
    BY <1>10
  <2> DEFINE p == [id |-> i, name |-> ext.agents[i].name, file |-> ext.agents[i].file, term |-> ext.agents[i].term]
  <2>2. p \in ext.saved
    BY <2>1, <1>10, <1>11 DEF ListOf
  <2>3. ext.agents[i].term \in Named(p.name)
    BY <1>0, <1>11 DEF AtHome, Named
  <2>4. p.id = i /\ p.term = ext.agents[i].term /\ p.name = ext.agents[i].name
    OBVIOUS
  <2> HIDE DEF p
  <2>5. p \in Back(ext)
    BY <2>2, <2>3 DEF Back
  <2> QED
    BY <2>4, <2>5
<1>12. ASSUME NEW i \in AgentIds(ext')
       PROVE  \/ ext'.agents[i].term = None
              \/ \E p \in Back(ext) : p.id = i /\ Comes(ext, p, ext'.agents[i])
  <2>1. CASE i \notin AgentIds(r)
    BY <2>1, <1>4, <1>7
  <2>2. CASE i \in AgentIds(r)
    <3>1. ext'.agents[i] = r.agents[i]
      BY <2>2, <1>4, <1>7
    <3>2. CASE i \in {p.id : p \in Back(ext)}
      BY <3>1, <3>2, <2>2, <1>3 DEF Reborn
    <3>3. CASE i \notin {p.id : p \in Back(ext)}
      <4>1. i \in AgentIds(ext) /\ r.agents[i] = ext.agents[i]
        BY <3>3, <2>2, <1>3 DEF Reborn
      <4> QED
        BY <4>1, <3>1, <3>3, <1>11
    <3> QED
      BY <3>2, <3>3
  <2> QED
    BY <2>1, <2>2
<1>13. ASSUME NEW p \in Back(ext)
       PROVE  FirstNamed(p.name) \in Named(p.name) /\ FirstNamed(p.name) \in Open /\ name[FirstNamed(p.name)] = p.name
              /\ p \in ext.saved /\ p.term \in Terminals
  <2>1. Named(p.name) # {} /\ p \in ext.saved
    BY DEF Back
  <2>2. p \in Entries
    BY <2>1, <1>10 DEF Exts
  <2> QED
    BY <2>1, <2>2, <1>0, FirstNamedFacts DEF Named, Entries
<1>14. ASSUME NEW p \in Back(ext), session[p.term] # p.file \/ Named(p.name) # {p.term}
       PROVE  Named(p.name) \subseteq astray'
  <2>1. p \in {q \in ext.saved : session[q.term] # q.file \/ Named(q.name) # {q.term}}
    BY <1>13, <1>14
  <2> QED
    BY <2>1, <1>2
<1>15. AtHome(ext)'
  <2>1. \A i \in AgentIds(ext') : ext'.agents[i].term # None =>
          ext'.agents[i].term \in Open /\ ext'.agents[i].name = name[ext'.agents[i].term]
    <3> SUFFICES ASSUME NEW i \in AgentIds(ext'), ext'.agents[i].term # None
                 PROVE  ext'.agents[i].term \in Open /\ ext'.agents[i].name = name[ext'.agents[i].term]
      OBVIOUS
    <3>1. PICK p \in Back(ext) : Comes(ext, p, ext'.agents[i])
      BY <1>12
    <3> QED
      BY <3>1, <1>13 DEF Comes
  <2>2. ASSUME ext'.active # None
        PROVE  /\ ext'.active \in AgentIds(ext') /\ focus # None
               /\ ext'.agents[ext'.active].term # None /\ ext'.agents[ext'.active].name = name[focus]
               /\ ext'.agents[ext'.active].term # focus =>
                    ext'.agents[ext'.active].term \in astray' /\ \A i \in AgentIds(ext') : ext'.agents[i].term # focus
    <3> DEFINE a == ext.active
    <3>1. /\ a \in AgentIds(ext) /\ focus # None /\ ext.agents[a].term # None /\ ext.agents[a].name = name[focus]
      BY <2>2, <1>0, <1>7 DEF AtHome
    <3>2. PICK p \in Back(ext) : p.id = a /\ p.term = ext.agents[a].term /\ p.name = name[focus]
      BY <3>1, <1>11
    <3>3. a \in AgentIds(ext') /\ a \in AgentIds(r)
      BY <3>1, <1>3, <1>4, <1>7 DEF Reborn
    <3>4. PICK q \in Back(ext) : q.id = a /\ Comes(ext, q, ext'.agents[a])
      <4>1. a \in {x.id : x \in Back(ext)}
        BY <3>2
      <4>2. \E q \in Back(ext) : q.id = a /\ Comes(ext, q, r.agents[a])
        BY <4>1, <3>3, <1>3 DEF Reborn
      <4>3. ext'.agents[a] = r.agents[a]
        BY <3>3, <1>4, <1>7
      <4> QED
        BY <4>2, <4>3
    <3>5. q = p
      <4>1. p \in ext.saved /\ q \in ext.saved
        BY <1>13
      <4> QED
        BY <4>1, <3>2, <3>4, <1>0 DEF WellKept, Orderly, OwnFiles
    <3>6. /\ ext'.agents[a].term = FirstNamed(name[focus]) /\ ext'.agents[a].name = name[focus]
          /\ FirstNamed(name[focus]) \in Open /\ FirstNamed(name[focus]) \in Named(name[focus])
      BY <3>2, <3>4, <3>5, <1>13 DEF Comes
    <3>7. ASSUME FirstNamed(name[focus]) # focus
          PROVE  FirstNamed(name[focus]) \in astray' /\ \A i \in AgentIds(ext') : ext'.agents[i].term # focus
      <4>1. focus \in Named(name[focus])
        BY <3>1, <1>10 DEF Named
      <4>2. Named(name[focus]) # {p.term}
        BY <4>1, <3>6, <3>7
      <4>3. Named(name[focus]) \subseteq astray'
        BY <4>2, <3>2, <1>14
      <4>4. ASSUME NEW i \in AgentIds(ext'), ext'.agents[i].term = focus PROVE FALSE
        <5>1. PICK x \in Back(ext) : Comes(ext, x, ext'.agents[i])
          BY <4>4, <3>1, <1>12
        <5>2. focus = FirstNamed(x.name) /\ name[focus] = x.name
          BY <5>1, <4>4, <1>13 DEF Comes
        <5> QED
          BY <5>2, <3>7
      <4> QED
        BY <4>3, <4>4, <3>6
    <3> QED
      BY <3>1, <3>3, <3>6, <3>7, <1>7, <1>10
  <2> QED
    BY <2>1, <2>2, <1>9 DEF AtHome, OwnerOf
<1>16. ASSUME NEW i \in AgentIds(ext'), ext'.agents[i].term \in Open \ astray'
       PROVE  ext'.agents[i].file = session[ext'.agents[i].term]
  <2>1. PICK p \in Back(ext) : p.id = i /\ Comes(ext, p, ext'.agents[i])
    BY <1>10, <1>12, <1>16
  <2>2. ext'.agents[i].term \in Named(p.name)
    BY <2>1, <1>13 DEF Comes
  <2>3. session[p.term] = p.file /\ Named(p.name) = {p.term}
    BY <2>2, <1>14, <1>16
  <2> QED
    BY <2>1, <2>2, <2>3 DEF Comes
<1>17. FollowsItsSession'
  BY <1>9, <1>16 DEF FollowsItsSession
<1> QED
  BY <1>8, <1>15, <1>17 DEF TrackerInv

(* Every step keeps the invariant.                                         *)
LEMMA TrackerStep == TrackerInv /\ [TrackerNext]_trackerVars => TrackerInv'
<1> SUFFICES ASSUME TrackerInv, [TrackerNext]_trackerVars PROVE TrackerInv'
  OBVIOUS
<1>1. ASSUME NEW t \in Terminals, OpenShell(t) \/ Close(t) \/ Say(t) \/ Focus(t) PROVE TrackerInv'
  BY <1>1, OpenShellKeeps, CloseKeeps, SayKeeps, FocusKeeps
<1>2. ASSUME NEW t \in Terminals, NEW f \in Files, Launch(t, f) \/ StartSession(t, f) PROVE TrackerInv'
  BY <1>2, LaunchKeeps, StartSessionKeeps
<1>3. CASE Focus(None)
  BY <1>3, FocusKeeps
<1>4. ASSUME NEW f \in Files, Elsewhere(f) PROVE TrackerInv'
  BY <1>4, ElsewhereKeeps
<1>5. ASSUME NEW id \in AgentIds(ext), ReadNewLines(id) PROVE TrackerInv'
  BY <1>5, ReadNewLinesKeeps
<1>6. ASSUME NEW id \in AgentIds(ext), NEW timer \in {"read", "skip", "watch"}, FileAppears(id, timer)
      PROVE  TrackerInv'
  BY <1>6, FileAppearsKeeps DEF Timers
<1>7. CASE ScanForNewJsonlFiles
  BY <1>7, ScanKeeps
<1>8. CASE Ready
  BY <1>8, ReadyKeeps
<1>9. CASE ReloadWindow
  BY <1>9, ReloadWindowKeeps
<1>10. CASE UNCHANGED trackerVars
  <2>1. ext' = ext /\ UNCHANGED <<world, astray>>
    BY <1>10 DEF trackerVars
  <2>2. WellKept(ext')
    BY <2>1 DEF TrackerInv
  <2> QED
    BY <2>1, <2>2, Quiet
<1> QED
  BY <1>1, <1>2, <1>3, <1>4, <1>5, <1>6, <1>7, <1>8, <1>9, <1>10 DEF TrackerNext, Session

(* Every state of the tracker satisfies the invariant.                     *)
THEOREM TrackerInvariant == TrackerSpec => []TrackerInv
BY TrackerInitHolds, TrackerStep, PTL DEF TrackerSpec

(* No line is processed twice, by one agent or by two, whatever terminals, *)
(* files and reloads there are (agentManager.ts:258-262,                   *)
(* fileWatcher.ts:62-76).                                                  *)
THEOREM NoLineTwiceHolds == TrackerSpec => []NoLineTwice
<1>1. TrackerInv => NoLineTwice
  BY DEF TrackerInv, WellKept, Orderly, Counted, NoLineTwice, OnDisk
<1> QED
  BY <1>1, TrackerInvariant, PTL

(* The stored list is that of the agents with terminals                    *)
(* (agentManager.ts:179-195).                                              *)
THEOREM ListIsTrueHolds == TrackerSpec => []ListIsTrue
<1>1. TrackerInv => ListIsTrue
  <2> SUFFICES ASSUME TrackerInv, ext.scanning
               PROVE  {<<p.id, p.term, p.file>> : p \in ext.saved}
                      = {<<id, ext.agents[id].term, ext.agents[id].file>> :
                           id \in {i \in AgentIds(ext) : ext.agents[i].term # None}}
    BY DEF ListIsTrue, Resolved
  <2>1. ext.saved = ListOf(ext)
    BY DEF TrackerInv, WellKept, ListStored
  <2> DEFINE I == {i \in AgentIds(ext) : ext.agents[i].term # None}
             entry(i) == [id |-> i, name |-> ext.agents[i].name, file |-> ext.agents[i].file,
                          term |-> ext.agents[i].term]
             told(p) == <<p.id, p.term, p.file>>
             row(i) == <<i, ext.agents[i].term, ext.agents[i].file>>
  <2>2. ext.saved = {entry(i) : i \in I}
    BY <2>1 DEF ListOf
  <2>3. \A i \in I : told(entry(i)) = row(i)
    OBVIOUS
  <2> HIDE DEF I, entry, told, row
  <2>4. {told(p) : p \in ext.saved} = {row(i) : i \in I}
    BY <2>2, <2>3
  <2> QED
    BY <2>4 DEF I, told, row
<1> QED
  BY <1>1, TrackerInvariant, PTL

(* An agent follows the session in its terminal (fileWatcher.ts:166-214).  *)
THEOREM FollowsItsSessionHolds == TrackerSpec => []FollowsItsSession
<1>1. TrackerInv => FollowsItsSession
  BY DEF TrackerInv
<1> QED
  BY <1>1, TrackerInvariant, PTL
=============================================================================
