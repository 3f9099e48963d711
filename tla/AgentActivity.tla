--------------------------- MODULE AgentActivity ---------------------------
(***************************************************************************)
(* The activity of one agent: how the extension follows the transcript of  *)
(* a Claude session (fileWatcher.ts, transcriptParser.ts, timerManager.ts) *)
(* and what the webview makes of the messages it posts                     *)
(* (useExtensionMessages.ts, officeState.ts).                              *)
(*                                                                         *)
(* Reading is synchronous: from the first line of a batch to its last no   *)
(* timer fires, which "reading" expresses.  Messages go one way and are    *)
(* delivered in order, so the webview is given as of the messages posted.  *)
(* The transcript is written by Claude Code: a tool_use is written once,   *)
(* its result at most once and after it, a sub-agent's records while its   *)
(* parent tool runs, and a new file starts with what the user said.        *)
(***************************************************************************)
EXTENDS Integers, FiniteSets

CONSTANTS
  Tools,     \* ids of tool_use blocks of the agent
  SubTools,  \* ids of tool_use blocks of its sub-agents
  Spawning,  \* tools that spawn a sub-agent: Task, Agent, TeamCreate, SendMessage
  Exempt,    \* tools, of either kind, in PERMISSION_EXEMPT_TOOLS
  ParentOf   \* parentToolUseID of a sub-agent's tool

ASSUME ActivityAssumption ==
  /\ Tools \intersect SubTools = {}
  /\ Spawning \subseteq Tools
  /\ Spawning \subseteq Exempt /\ Exempt \subseteq Tools \union SubTools
  /\ ParentOf \in [SubTools -> Spawning]

VARIABLES
  terminal,    \* the agent has a terminal (else it was discovered)
  life, fresh, last,  \* the transcript: each tool, a new file, the last record
  reading,     \* readNewLines is processing a batch
  active,      \* activeToolIds
  subs,        \* activeSubagentToolIds, of all parents
  waiting, permission, hadTools,   \* isWaiting, permissionSent, hadToolsInTurn
  waitingTimer, permissionTimer,   \* timers that are set
  later,       \* messages that a setTimeout will post
  shown, shownSubs, status,        \* webview: tool lists, "active" or "waiting"
  helpers,     \* webview: sub-agent characters, by their parent tool
  bubble,      \* webview: the speech bubble of the character
  helperBubbles  \* webview: sub-agent characters with a permission bubble

transcript == <<life, fresh, last>>
agentState == <<active, subs, waiting, permission, hadTools>>
timers     == <<waitingTimer, permissionTimer>>
view       == <<shown, shownSubs, status, helpers, bubble, helperBubbles>>
vars       == <<terminal, transcript, reading, agentState, timers, later, view>>

Children(t) == {s \in SubTools : ParentOf[s] = t}
NoTool      == [t \in Tools |-> "none"]
NoSubTool   == [s \in SubTools |-> "none"]

(* The transcript of a discovered agent is read from its end.              *)
Init ==
  /\ terminal \in BOOLEAN
  /\ life \in [Tools \union SubTools -> {"new", "open", "over"}]
  /\ terminal => \A x \in DOMAIN life : life[x] = "new"
  /\ fresh = FALSE /\ last = "none"
  /\ reading = FALSE
  /\ active = {} /\ subs = {}
  /\ waiting = FALSE /\ permission = FALSE /\ hadTools = FALSE
  /\ waitingTimer = FALSE /\ permissionTimer = FALSE /\ later = {}
  /\ shown = NoTool /\ shownSubs = NoSubTool /\ status = "active"
  /\ helpers = {} /\ bubble = "none" /\ helperBubbles = {}

-----------------------------------------------------------------------------
(* Messages, by what the webview does with them.                           *)

Unflagged(b) == IF b = "permission" THEN "none" ELSE b

(* Faults: sub-agents, or their bubbles, survive the tools of the agent.   *)
ToolsClearKeepingHelpers ==
  /\ shown' = NoTool /\ shownSubs' = NoSubTool
  /\ UNCHANGED <<helpers, helperBubbles>>
  /\ bubble' = Unflagged(bubble)
ToolsClearKeepingBubbles ==
  /\ shown' = NoTool /\ shownSubs' = NoSubTool
  /\ helpers' = {} /\ UNCHANGED helperBubbles
  /\ bubble' = Unflagged(bubble)

(* agentToolsClear                                                         *)
ToolsClear ==
  /\ shown' = NoTool /\ shownSubs' = NoSubTool
  /\ helpers' = {} /\ helperBubbles' = {}
  /\ bubble' = Unflagged(bubble)

(* agentToolStart, subagentToolStart: a tool that is listed is not again.   *)
Started(tools, x) == [tools EXCEPT ![x] = IF @ = "none" THEN "running" ELSE @]

(* agentToolPermission, and subagentToolPermission for the parents whose    *)
(* sub-agents wait: only those that have a character can show it.          *)
ShowPermission(parents) ==
  /\ bubble' = "permission"
  /\ helperBubbles' = helperBubbles \union (parents \intersect helpers)

(* agentToolPermissionClear: for the agent and all its sub-agents.         *)
PermissionClear == bubble' = Unflagged(bubble) /\ helperBubbles' = {}

(* agentStatus "waiting"                                                   *)
ShowWaiting == status' = "waiting" /\ bubble' = "waiting"

(* clearAgentActivity                                                      *)
ClearActivity ==
  /\ active' = {} /\ subs' = {}
  /\ waiting' = FALSE /\ permission' = FALSE /\ permissionTimer' = FALSE
  /\ ToolsClear /\ status' = "active"

-----------------------------------------------------------------------------
(* The transcript.                                                         *)

Written(x) == life' = [life EXCEPT ![x] = "open"]
Ended(x)   == life' = [life EXCEPT ![x] = "over"]

(* New lines: data flows, so neither timer has a reason any more.          *)
Arrive ==
  /\ ~reading /\ reading' = TRUE
  /\ waitingTimer' = FALSE /\ permissionTimer' = FALSE
  /\ permission' = FALSE
  /\ IF permission THEN PermissionClear ELSE UNCHANGED <<bubble, helperBubbles>>
  /\ last' = "other"
  /\ UNCHANGED <<terminal, life, fresh, active, subs, waiting, hadTools, later,
                 shown, shownSubs, status, helpers>>

Line(kind) == reading /\ last' = kind /\ UNCHANGED <<terminal, reading>>

(* Text in a turn without tools: silence will mean that the turn ended.    *)
Text ==
  /\ Line("text") /\ ~fresh
  /\ waitingTimer' = (waitingTimer \/ ~hadTools)
  /\ UNCHANGED <<life, fresh, agentState, permissionTimer, later, view>>

(* tool_use                                                                *)
Use(t) ==
  /\ Line("use") /\ ~fresh /\ life[t] = "new" /\ Written(t)
  /\ active' = active \union {t}
  /\ hadTools' = TRUE
  /\ waiting' = FALSE /\ status' = "active" /\ waitingTimer' = FALSE
  /\ permissionTimer' = (permissionTimer \/ t \notin Exempt)
  /\ shown' = Started(shown, t)
  /\ helpers' = IF t \in Spawning THEN helpers \union {t} ELSE helpers
  /\ bubble' = Unflagged(bubble)
  /\ UNCHANGED <<fresh, subs, permission, later, shownSubs, helperBubbles>>

(* Fault: the turn's flag survives its tools.                              *)
ResultKeepingTurn(t) ==
  /\ Line("result") /\ ~fresh /\ life[t] = "open" /\ Ended(t)
  /\ active' = active \ {t}
  /\ IF t \in active \intersect Spawning
     THEN subs' = subs \ Children(t)
          /\ later' = later \union {<<"toolDone", t>>, <<"subagentClear", t>>}
     ELSE UNCHANGED subs /\ later' = later \union {<<"toolDone", t>>}
  /\ UNCHANGED <<fresh, waiting, permission, hadTools, timers, view>>

(* tool_result: the webview hears of it a little later.                    *)
Result(t) ==
  /\ Line("result") /\ ~fresh /\ life[t] = "open" /\ Ended(t)
  /\ active' = active \ {t}
  /\ IF t \in active \intersect Spawning
     THEN subs' = subs \ Children(t)
          /\ later' = later \union {<<"toolDone", t>>, <<"subagentClear", t>>}
     ELSE UNCHANGED subs /\ later' = later \union {<<"toolDone", t>>}
  /\ hadTools' = (hadTools /\ active' # {})
  /\ UNCHANGED <<fresh, waiting, permission, timers, view>>

(* The user speaks: a new turn.                                            *)
Prompt ==
  /\ Line("prompt") /\ fresh' = FALSE
  /\ ClearActivity /\ waitingTimer' = FALSE /\ hadTools' = FALSE
  /\ UNCHANGED <<life, later>>

(* Fault: stale tools stay.                                                *)
TurnEndKeepingTools ==
  /\ Line("end") /\ ~fresh
  /\ waitingTimer' = FALSE /\ permissionTimer' = FALSE
  /\ waiting' = TRUE /\ permission' = FALSE /\ hadTools' = FALSE
  /\ ShowWaiting
  /\ UNCHANGED <<life, fresh, active, subs, later, shown, shownSubs, helpers,
                 helperBubbles>>

(* turn_duration: the turn is over, whatever tools were left.              *)
TurnEnd ==
  /\ Line("end") /\ ~fresh
  /\ waitingTimer' = FALSE /\ permissionTimer' = FALSE
  /\ IF active # {}
     THEN /\ active' = {} /\ subs' = {}
          /\ shown' = NoTool /\ shownSubs' = NoSubTool
          /\ helpers' = {} /\ helperBubbles' = {}
     ELSE UNCHANGED <<active, subs, shown, shownSubs, helpers, helperBubbles>>
  /\ waiting' = TRUE /\ permission' = FALSE /\ hadTools' = FALSE
  /\ ShowWaiting
  /\ UNCHANGED <<life, fresh, later>>

(* bash_progress, mcp_progress: the tool runs, it is not stuck.            *)
Progress(t) ==
  /\ Line("progress") /\ ~fresh /\ life[t] = "open"
  /\ permissionTimer' = (permissionTimer \/ t \in active)
  /\ UNCHANGED <<life, fresh, agentState, waitingTimer, later, view>>

Running(t) == life[t] = "open"

(* Fault: a sub-agent is followed even if its parent is not.               *)
SubUseOfAnyone(s) ==
  /\ Line("subUse") /\ ~fresh /\ Running(ParentOf[s])
  /\ life[s] = "new" /\ Written(s)
  /\ subs' = subs \union {s}
  /\ shownSubs' = Started(shownSubs, s)
  /\ permissionTimer' = (permissionTimer \/ s \notin Exempt)
  /\ UNCHANGED <<fresh, active, waiting, permission, hadTools, waitingTimer, later,
                 shown, status, helpers, bubble, helperBubbles>>

(* agent_progress with a tool_use, or a tool_result, of a sub-agent; it is *)
(* ignored unless the parent is an active tool.                            *)
SubUse(s) ==
  /\ Line("subUse") /\ ~fresh /\ Running(ParentOf[s])
  /\ life[s] = "new" /\ Written(s)
  /\ IF ParentOf[s] \in active
     THEN /\ subs' = subs \union {s}
          /\ shownSubs' = Started(shownSubs, s)
          /\ permissionTimer' = (permissionTimer \/ s \notin Exempt)
     ELSE UNCHANGED <<subs, shownSubs, permissionTimer>>
  /\ UNCHANGED <<fresh, active, waiting, permission, hadTools, waitingTimer, later,
                 shown, status, helpers, bubble, helperBubbles>>

SubResult(s) ==
  /\ Line("subResult") /\ ~fresh /\ Running(ParentOf[s])
  /\ life[s] = "open" /\ Ended(s)
  /\ IF ParentOf[s] \in active
     THEN /\ subs' = subs \ {s}
          /\ later' = later \union {<<"subagentToolDone", s>>}
          /\ permissionTimer' = (permissionTimer \/ subs' \ Exempt # {})
     ELSE UNCHANGED <<subs, later, permissionTimer>>
  /\ UNCHANGED <<fresh, active, waiting, permission, hadTools, waitingTimer, view>>

(* The batch is read.                                                      *)
Finish ==
  /\ reading /\ reading' = FALSE
  /\ UNCHANGED <<terminal, transcript, agentState, timers, later, view>>

-----------------------------------------------------------------------------
(* Timers.                                                                 *)

WaitingFires ==
  /\ ~reading /\ waitingTimer /\ waitingTimer' = FALSE
  /\ waiting' = TRUE /\ ShowWaiting
  /\ UNCHANGED <<terminal, transcript, reading, active, subs, permission, hadTools,
                 permissionTimer, later, shown, shownSubs, helpers, helperBubbles>>

(* Parents of sub-agents that may wait for a permission.                   *)
Stuck == {ParentOf[s] : s \in subs \ Exempt}

(* Fault: it does not look whether a tool is still there.                  *)
PermissionFiresAnyway ==
  /\ ~reading /\ permissionTimer /\ permissionTimer' = FALSE
  /\ permission' = TRUE /\ ShowPermission(Stuck)
  /\ UNCHANGED <<terminal, transcript, reading, active, subs, waiting, hadTools,
                 waitingTimer, later, shown, shownSubs, status, helpers>>

PermissionFires ==
  /\ ~reading /\ permissionTimer /\ permissionTimer' = FALSE
  /\ IF active \ Exempt # {} \/ Stuck # {}
     THEN permission' = TRUE /\ ShowPermission(Stuck)
     ELSE UNCHANGED <<permission, bubble, helperBubbles>>
  /\ UNCHANGED <<terminal, transcript, reading, active, subs, waiting, hadTools,
                 waitingTimer, later, shown, shownSubs, status, helpers>>

(* The delayed messages agentToolDone, subagentToolDone, subagentClear.    *)
Done(tools, x) == [tools EXCEPT ![x] = IF @ = "none" THEN "none" ELSE "done"]
Post(m) ==
  /\ ~reading /\ m \in later /\ later' = later \ {m}
  /\ CASE m[1] = "toolDone" ->
            shown' = Done(shown, m[2]) /\ UNCHANGED <<shownSubs, helpers, helperBubbles>>
       [] m[1] = "subagentToolDone" ->
            shownSubs' = Done(shownSubs, m[2]) /\ UNCHANGED <<shown, helpers, helperBubbles>>
       [] OTHER ->
            /\ shownSubs' = [s \in SubTools |->
                               IF s \in Children(m[2]) THEN "none" ELSE shownSubs[s]]
            /\ helpers' = helpers \ {m[2]} /\ helperBubbles' = helperBubbles \ {m[2]}
            /\ UNCHANGED shown
  /\ UNCHANGED <<terminal, transcript, reading, agentState, timers, status, bubble>>

-----------------------------------------------------------------------------

(* A click, or the end of its time, removes a bubble.                      *)
Dismiss ==
  /\ \/ bubble # "none" /\ bubble' = "none" /\ UNCHANGED helperBubbles
     \/ /\ \E h \in helperBubbles : helperBubbles' = helperBubbles \ {h}
        /\ UNCHANGED bubble
  /\ UNCHANGED <<terminal, transcript, reading, agentState, timers, later,
                 shown, shownSubs, status, helpers>>

(* /clear: the terminal of the agent has a new transcript, which is read   *)
(* at once if it has lines already.                                        *)
Reassign ==
  /\ ~reading /\ terminal
  /\ ClearActivity /\ waitingTimer' = FALSE
  /\ reading' \in BOOLEAN
  /\ life' = [x \in DOMAIN life |-> IF life[x] = "open" THEN "over" ELSE life[x]]
  /\ fresh' = TRUE /\ last' = "other"
  /\ UNCHANGED <<terminal, hadTools, later>>

(* Lines that are never read: what they say of tools is not seen.          *)
Later == [new |-> {"open", "over"}, open |-> {"over"}, over |-> {}]
Skip ==
  /\ life' \in {f \in [DOMAIN life -> {"new", "open", "over"}] :
                 \A x \in DOMAIN life : f[x] = life[x] \/ f[x] \in Later[life[x]]}
  /\ fresh' \in {FALSE, fresh} /\ last' = "other"

(* Fault: what a discovered agent does is not sent again.                  *)
ReloadForgetting ==
  /\ ~reading
  /\ shown' = NoTool /\ helpers' = {}
  /\ status' = "active"
  /\ shownSubs' = NoSubTool /\ bubble' = "none" /\ helperBubbles' = {}
  /\ IF terminal
     THEN /\ active' = {} /\ subs' = {} /\ Skip
          /\ waiting' = FALSE /\ permission' = FALSE /\ hadTools' = FALSE
     ELSE UNCHANGED <<agentState, transcript>>
  /\ UNCHANGED <<terminal, reading, timers, later>>

(* sendExistingAgents, sendCurrentAgentStatuses: the tools that run, and    *)
(* whether the agent waits.                                                *)
SendStatuses ==
  /\ shown' = [t \in Tools |-> IF t \in active' THEN "running" ELSE "none"]
  /\ helpers' = active' \intersect Spawning
  /\ status' = IF waiting' THEN "waiting" ELSE "active"

(* The panel was hidden and is shown: the webview starts anew and says     *)
(* webviewReady.  restoreAgents puts a new AgentState, which reads from    *)
(* the end of the file, in the place of one that has a terminal; of        *)
(* another, tools and status are sent again.                               *)
Reload ==
  /\ ~reading
  /\ shownSubs' = NoSubTool /\ bubble' = "none" /\ helperBubbles' = {}
  /\ IF terminal
     THEN /\ active' = {} /\ subs' = {} /\ Skip
          /\ waiting' = FALSE /\ permission' = FALSE /\ hadTools' = FALSE
     ELSE UNCHANGED <<agentState, transcript>>
  /\ SendStatuses
  /\ UNCHANGED <<terminal, reading, timers, later>>

Record == \/ Text \/ Prompt \/ TurnEnd
          \/ \E t \in Tools : Use(t) \/ Result(t) \/ Progress(t)
          \/ \E s \in SubTools : SubUse(s) \/ SubResult(s)

Next == \/ Arrive \/ Record \/ Finish
        \/ WaitingFires \/ PermissionFires \/ \E m \in later : Post(m)
        \/ Dismiss \/ Reassign \/ Reload

Spec == Init /\ [][Next]_vars

(* Timers that are set fire, and a batch has an end.                       *)
Fairness == /\ WF_vars(WaitingFires) /\ WF_vars(PermissionFires) /\ WF_vars(Finish)
            /\ WF_vars(\E m \in later : Post(m))

FairSpec == Spec /\ Fairness

-----------------------------------------------------------------------------

Delayed == ({"toolDone"} \X Tools) \union ({"subagentToolDone"} \X SubTools)
           \union ({"subagentClear"} \X Spawning)

(* Type invariant.                                                         *)
TypeOK ==
  /\ terminal \in BOOLEAN /\ fresh \in BOOLEAN /\ reading \in BOOLEAN
  /\ life \in [Tools \union SubTools -> {"new", "open", "over"}]
  /\ active \subseteq Tools /\ subs \subseteq SubTools
  /\ waiting \in BOOLEAN /\ permission \in BOOLEAN /\ hadTools \in BOOLEAN
  /\ waitingTimer \in BOOLEAN /\ permissionTimer \in BOOLEAN
  /\ later \subseteq Delayed
  /\ shown \in [Tools -> {"none", "running", "done"}]
  /\ shownSubs \in [SubTools -> {"none", "running", "done"}]
  /\ status \in {"active", "waiting"}
  /\ helpers \subseteq Spawning /\ helperBubbles \subseteq helpers
  /\ bubble \in {"none", "permission", "waiting"}

(* The tools the webview shows as running are those the agent runs, but    *)
(* for the short delay of a tool that is done: whatever timers, delayed    *)
(* messages, /clear and reloads of the panel come in between.              *)
ToolsAgree ==
  /\ \A t \in active : shown[t] = "running"
  /\ \A t \in Tools \ active : shown[t] = "running" => <<"toolDone", t>> \in later

(* Likewise each sub-agent character stands for a tool that runs, and each *)
(* such tool has one: no character is left behind in the office.           *)
HelpersAgree ==
  /\ active \intersect Spawning \subseteq helpers
  /\ \A t \in helpers \ active : <<"subagentClear", t>> \in later

(* The status agrees, and nobody is shown waiting while a tool of theirs   *)
(* runs, although two timers and two kinds of record may say so.           *)
WaitingAgrees ==
  /\ status = "waiting" <=> waiting
  /\ waiting \/ waitingTimer => active = {}

(* A permission bubble, of the agent or of a sub-agent, never outlives the *)
(* extension's belief that a permission is awaited, nor the last tool of   *)
(* the agent.  (It may outlive the tool that awaited it, while another one *)
(* runs.)                                                                  *)
BubblesAgree ==
  /\ bubble = "permission" \/ helperBubbles # {} => permission
  /\ permission => active # {}

(* A tool of a sub-agent is not tracked longer than its parent: also when  *)
(* their records come late, or after the turn or the panel has ended.      *)
NoOrphans == \A s \in subs : ParentOf[s] \in active

(* A turn that ends with a text and silence is shown as waiting, also      *)
(* after tools were used: unless more comes, or the panel is reloaded.     *)
SilenceIsWaiting ==
  last = "text" /\ active = {} /\ ~reading ~> waiting \/ last # "text" \/ reading

(* What transcriptParser.ts says of sub-agents: when one completes and     *)
(* another is still stuck, the permission timer is there to flag it.       *)
StuckIsFlagged == ~reading /\ subs \ Exempt # {} => permissionTimer \/ permission
===========================================================================
