----------------------------- MODULE AgentTracker -----------------------------
(***************************************************************************)
(* Which transcript each agent follows: terminals, the JSONL files that    *)
(* Claude sessions write, the scan that finds new ones, discovery, and     *)
(* what a reload of the window or of the panel does to the agents          *)
(* (vscode-extension/src/agentManager.ts, fileWatcher.ts and the handlers  *)
(* of PixelAgentsViewProvider.ts).                                         *)
(*                                                                         *)
(* One project folder, whose files are all of the last day.  A file is     *)
(* counted in lines.  fs.watch, fs.watchFile and the polling of a file all *)
(* come to readNewLines.  What the lines do is in AgentActivity.           *)
(***************************************************************************)
EXTENDS Integers, Sequences, FiniteSets, SequencesExt, TLC, Lists

CONSTANTS
  Terminals,
  ShellName,     \* the name of a terminal that the user opens
  Files,
  MaxLines, MaxReadies, MaxReloads,     \* bounds of the model
  None

ASSUME TrackerAssumption ==
  /\ IsFiniteSet(Files) /\ ShellName \in [Terminals -> Range(ShellName)]
  /\ None \notin Nat \cup Files \cup Terminals

VARIABLES
  \* The window and the sessions.
  open,          \* the terminals there are, in the order of their creation
  name,          \* of each terminal
  focus,         \* activeTerminal
  session,       \* per terminal the file its session writes, or None
  size,          \* lines of each file, None before it exists
  \* The extension: [agents, known, active, nextId, nextTerm, scanning, saved],
  \* and as history the lines processed of each file.
  ext,
  readies, reloads

\* History: the terminals whose session the extension may have lost.
VARIABLE astray

world == <<open, name, focus, session, size>>
trackerVars == <<world, ext, readies, reloads, astray>>

Fresh(saved, processed) ==
  [agents |-> <<>>, known |-> {}, active |-> None, nextId |-> 1, nextTerm |-> 1,
   scanning |-> FALSE, saved |-> saved, processed |-> processed]

TrackerInit ==
  /\ open = <<>> /\ name = ShellName /\ focus = None
  /\ session = [t \in Terminals |-> None]
  /\ size \in [Files -> {None, 1}]
  /\ ext = Fresh({}, [f \in Files |-> 0])
  /\ readies = 0 /\ reloads = 0
  /\ astray = {}

Open == Range(open)
Exists(f) == size[f] # None
OnDisk == {f \in Files : Exists(f)}
Used == OnDisk \cup Range(session) \cup ext.known \cup {p.file : p \in ext.saved}
Unknown == OnDisk \ ext.known

\* Of an extension s.
AgentIds(s) == DOMAIN s.agents
OwnerOf(s, t) == {id \in AgentIds(s) : s.agents[id].term = t}
\* The panel has started: then there is always a scan.
Resolved == ext.scanning

-------------------------------------------------------------------------------
(***************************************************************************)
(* Operations of the extension, from state to state.                       *)
(***************************************************************************)
\* persistAgents: those without a terminal are left out.  (term is history: it
\* is not stored.)  Every entry of the list has an id of its own, and nothing
\* asks for the order.
ListOf(s) == {[id |-> id, name |-> s.agents[id].name, file |-> s.agents[id].file, term |-> s.agents[id].term] :
                id \in {i \in AgentIds(s) : s.agents[i].term # None}}
persistAgents(s) == [s EXCEPT !.saved = ListOf(s)]

With(s, id, agent) ==
  [s EXCEPT !.agents = [n \in AgentIds(s) \cup {id} |-> IF n = id THEN agent ELSE @[n]]]

\* polls: the timers that wait for the file, by what they do when it is there:
\* "read" it, "skip" what is in it, or only "watch" it, when the agent they were
\* for has been replaced.
Agent(t, n, f, offset, watched, polls) ==
  [term |-> t, name |-> n, file |-> f, offset |-> offset, watched |-> watched, polls |-> polls]

\* readNewLines
readNewLines(s, id) ==
  LET a == s.agents[id] IN
  [s EXCEPT !.agents[id].offset = size[a.file], !.processed[a.file] = @ + (size[a.file] - a.offset)]

\* ensureProjectScan: what exists by then is not new.
ensureProjectScan(s) ==
  IF s.scanning THEN s ELSE [s EXCEPT !.scanning = TRUE, !.known = @ \cup OnDisk]

\* removeAgent, for one agent after the other: each call stores the list.
removeAgents(s, ids) ==
  IF ids = {} THEN s
  ELSE persistAgents([s EXCEPT !.agents = [n \in AgentIds(s) \ ids |-> @[n]]])

Swapped(s, id, f) ==
  [s EXCEPT !.agents[id].file = f, !.agents[id].offset = 0, !.agents[id].watched = TRUE]

\* Slip: the new file is not remembered for the next start.
reassignUnsaved(s, id, f) == readNewLines(Swapped(s, id, f), id)

\* The timer that polls for the first file is not stopped.
reassignAgentToFile(s, id, f) == readNewLines(persistAgents(Swapped(s, id, f)), id)

adoptTerminalForFile(s, t, f) ==
  LET new == [With(s, s.nextId, Agent(t, name[t], f, 0, TRUE, {})) EXCEPT !.nextId = @ + 1, !.active = s.nextId]
  IN  readNewLines(persistAgents(new), s.nextId)

\* One file of scanForNewJsonlFiles, and all that are new.
Found(s, f) ==
  LET new == [s EXCEPT !.known = @ \cup {f}] IN
  IF new.active # None
  THEN IF new.active \in AgentIds(new) THEN reassignAgentToFile(new, new.active, f) ELSE new
  ELSE IF focus # None /\ OwnerOf(new, focus) = {} THEN adoptTerminalForFile(new, focus, f)
  ELSE new

FoundAll(s, order) ==
  LET Upto[n \in 0 .. Len(order)] == IF n = 0 THEN s ELSE Found(Upto[n - 1], order[n])
  IN  Upto[Len(order)]

\* An agent of the list is back when a terminal has its name: the first one.
\* Its file is read from its end, or polled for.
Named(n) == {t \in Open : name[t] = n}
FirstNamed(n) == open[CHOOSE k \in DOMAIN open : name[open[k]] = n /\ \A m \in 1 .. k - 1 : name[open[m]] # n]
Back(s) == {p \in s.saved : Named(p.name) # {}}

\* Slip: the file is read again from its start.
RestoredFromStart(s, p) ==
  Agent(FirstNamed(p.name), p.name, p.file, 0, Exists(p.file), IF Exists(p.file) THEN {} ELSE {"skip"})

\* Timers of an agent with this id go on.
Restored(s, p) ==
  LET timers == IF p.id \in AgentIds(s) THEN s.agents[p.id].polls ELSE {}
      kept == {IF k = "skip" THEN "watch" ELSE k : k \in timers}
  IN  Agent(FirstNamed(p.name), p.name, p.file, IF Exists(p.file) THEN size[p.file] ELSE 0,
            Exists(p.file), IF Exists(p.file) THEN kept ELSE kept \cup {"skip"})

Largest(S) == CHOOSE n \in S : \A k \in S : k <= n
restoreAgents(s) ==
  LET back == Back(s)
      ids == {p.id : p \in back}
      new == [s EXCEPT !.agents = [id \in AgentIds(s) \cup ids |->
                                     IF id \in ids THEN Restored(s, CHOOSE p \in back : p.id = id) ELSE @[id]],
                       !.known = @ \cup {p.file : p \in back},
                       !.nextId = Largest({@} \cup {id + 1 : id \in ids}),
                       !.nextTerm = Largest({@} \cup {k + 1 : k \in {p.name : p \in back} \cap Nat})]
  IN  IF s.saved = {} THEN s
      ELSE IF back = {} THEN persistAgents(new) ELSE ensureProjectScan(persistAgents(new))

\* Each file that nobody knows, in any order, gets an agent without a terminal.
NotKnown(s) == SetToSeqs(OnDisk \ s.known)

autoDiscoverAgents(s, files) ==
  LET ids == s.nextId .. s.nextId + Len(files) - 1
      File(id) == files[id - s.nextId + 1]
      new == [s EXCEPT !.agents = [id \in AgentIds(s) \cup ids |->
                                     IF id \in AgentIds(s) THEN @[id]
                                     ELSE Agent(None, None, File(id), size[File(id)], TRUE, {})],
                       !.known = @ \cup Range(files), !.nextId = @ + Len(files)]
  IN  IF files = <<>> THEN s ELSE persistAgents(new)

-------------------------------------------------------------------------------
(***************************************************************************)
(* The user and the sessions.                                              *)
(***************************************************************************)
Unchanged == UNCHANGED <<readies, reloads>>

\* launchNewTerminal: the name of the session's file is chosen before it exists.
Launch(t, f) ==
  /\ Resolved /\ t \notin Open /\ f \notin Used
  /\ open' = Append(open, t) /\ focus' = t
  /\ name' = [name EXCEPT ![t] = ext.nextTerm]
  /\ session' = [session EXCEPT ![t] = f]
  /\ LET new == [With(ext, ext.nextId, Agent(t, ext.nextTerm, f, 0, FALSE, {"read"})) EXCEPT
                   !.nextTerm = @ + 1, !.nextId = @ + 1, !.known = @ \cup {f}, !.active = ext.nextId]
     IN  ext' = ensureProjectScan(persistAgents(new))
  /\ astray' = astray \ {t}
  /\ UNCHANGED size /\ Unchanged

\* Slip: with a terminal that no agent has, the last agent stays active.
ActiveStill(t) == LET owners == OwnerOf(ext, t) IN
                  IF t = None \/ owners = {} THEN ext.active ELSE CHOOSE id \in owners : TRUE

\* onDidChangeActiveTerminal; nobody listens before the panel is there.
ActiveFor(t) == LET owners == OwnerOf(ext, t) IN
                IF t = None \/ owners = {} THEN None ELSE CHOOSE id \in owners : \A o \in owners : id <= o

Focus(t) ==
  /\ t # focus /\ t \in Open \cup {None}
  /\ focus' = t
  /\ ext' = IF Resolved THEN [ext EXCEPT !.active = ActiveFor(t)] ELSE ext
  /\ UNCHANGED <<open, name, session, size, astray>> /\ Unchanged

OpenShell(t) ==
  /\ t \notin Open
  /\ open' = Append(open, t) /\ focus' = t
  /\ name' = [name EXCEPT ![t] = ShellName[t]]
  /\ session' = [session EXCEPT ![t] = None]
  /\ ext' = IF Resolved THEN [ext EXCEPT !.active = None] ELSE ext
  /\ astray' = astray \ {t}
  /\ UNCHANGED size /\ Unchanged

\* onDidCloseTerminal: every agent of the terminal is removed.
Close(t) ==
  /\ t \in Open
  /\ open' = Among(open, Open \ {t})
  /\ focus' = IF focus = t THEN None ELSE focus
  /\ session' = [session EXCEPT ![t] = None]
  /\ ext' = IF ~Resolved THEN ext
            ELSE removeAgents([ext EXCEPT !.active = IF @ \in OwnerOf(ext, t) \/ focus = t THEN None ELSE @],
                              OwnerOf(ext, t))
  /\ astray' = astray \ {t}
  /\ UNCHANGED <<name, size>> /\ Unchanged

\* A session writes: the first line creates the file.
Say(t) ==
  /\ session[t] # None
  /\ LET f == session[t] IN
       /\ size[f] \in {None} \cup 1 .. MaxLines - 1
       /\ size' = [size EXCEPT ![f] = IF Exists(f) THEN @ + 1 ELSE 1]
  /\ UNCHANGED <<open, name, focus, session, ext, astray>> /\ Unchanged

\* claude is started in a terminal, or /clear given: a new file.
StartSession(t, f) ==
  /\ t \in Open /\ f \notin Used
  /\ session[t] # None => Exists(session[t])
  /\ session' = [session EXCEPT ![t] = f]
  /\ size' = [size EXCEPT ![f] = 1]
  /\ UNCHANGED <<open, name, focus, ext, astray>> /\ Unchanged

\* A session outside of the window.
Elsewhere(f) ==
  /\ f \notin Range(session) /\ size[f] \in {None} \cup 1 .. MaxLines - 1
  /\ size' = [size EXCEPT ![f] = IF Exists(f) THEN @ + 1 ELSE 1]
  /\ UNCHANGED <<open, name, focus, session, ext, astray>> /\ Unchanged

-------------------------------------------------------------------------------
(***************************************************************************)
(* Timers and watchers.                                                    *)
(***************************************************************************)
\* fs.watch, fs.watchFile or the interval.
ReadNewLines(id) ==
  LET a == ext.agents[id] IN
  /\ a.watched /\ Exists(a.file) /\ size[a.file] > a.offset
  /\ ext' = readNewLines(ext, id)
  /\ UNCHANGED <<world, astray>> /\ Unchanged

\* A timer finds the file of the agent.
FileAppears(id, timer) ==
  LET file == ext.agents[id].file
      new == [ext EXCEPT !.agents[id].watched = TRUE, !.agents[id].polls = @ \ {timer}]
  IN
  /\ timer \in ext.agents[id].polls /\ Exists(file)
  /\ ext' = CASE timer = "read" -> readNewLines(new, id)
               [] timer = "skip" -> [new EXCEPT !.agents[id].offset = size[file]]
               [] timer = "watch" -> new
  /\ UNCHANGED <<world, astray>> /\ Unchanged

\* The scan, in whatever order the files come.  It guesses right when the one
\* new file is of the terminal in focus, and the extension knows whose that is.
MadeBy(f) == {t \in Terminals : session[t] = f}
\* (A terminal that two agents share is not found again.)
Knows == ext.active # None \/ OwnerOf(ext, focus) = {}
GuessesRight ==
  /\ Knows /\ \A i, j \in OwnerOf(ext, focus) : i = j
  /\ \E f \in Unknown : Unknown = {f} /\ MadeBy(f) = {focus}

ScanForNewJsonlFiles ==
  /\ ext.scanning /\ Unknown # {}
  /\ \E order \in SetToSeqs(Unknown) : ext' = FoundAll(ext, order)
  /\ astray' = IF GuessesRight THEN astray \ {focus}
             ELSE astray \cup {focus} \cup UNION {MadeBy(f) : f \in Unknown}
  /\ UNCHANGED world /\ Unchanged

-------------------------------------------------------------------------------
(***************************************************************************)
(* The panel and the window.                                               *)
(***************************************************************************)
\* webviewReady; sessions that went on to a file the list does not have are lost.
Ready ==
  /\ readies < MaxReadies /\ readies' = readies + 1
  /\ \E files \in NotKnown(restoreAgents(ext)) :
       ext' = ensureProjectScan(autoDiscoverAgents(restoreAgents(ext), files))
  /\ astray' = astray \cup UNION {
       {p.term} \cup Named(p.name) :
         p \in {q \in ext.saved : session[q.term] # q.file \/ Named(q.name) # {q.term}}}
  /\ UNCHANGED <<world, reloads>>

\* The extension host ends and starts anew.  When it is asked to, the agents are
\* removed first, by age, and the list is stored after each: some are stored yet.
ReloadWindow ==
  /\ Resolved /\ reloads < MaxReloads /\ reloads' = reloads + 1
  /\ \E oldest \in 0 .. ext.nextId :
       ext' = Fresh({p \in ext.saved : p.id >= oldest}, ext.processed)
  /\ UNCHANGED <<world, readies, astray>>

-------------------------------------------------------------------------------
Session == \E t \in Terminals :
  \/ OpenShell(t) \/ Close(t) \/ Say(t) \/ Focus(t)
  \/ \E f \in Files : Launch(t, f) \/ StartSession(t, f)

TrackerNext ==
  \/ Session \/ Focus(None) \/ \E f \in Files : Elsewhere(f)
  \/ \E id \in AgentIds(ext) : ReadNewLines(id) \/ \E timer \in {"read", "skip", "watch"} : FileAppears(id, timer)
  \/ ScanForNewJsonlFiles \/ Ready \/ ReloadWindow

TrackerSpec == TrackerInit /\ [][TrackerNext]_trackerVars

-------------------------------------------------------------------------------
(***************************************************************************)
(* Properties.                                                             *)
(***************************************************************************)
\* No line is processed twice: not by two agents that follow one file, nor by
\* one that was restored or moved to another file (agentManager.ts:258-262,
\* fileWatcher.ts:62-76).
NoLineTwice == \A f \in OnDisk : ext.processed[f] <= size[f]

\* Whenever the extension host ends, the stored list is that of the agents with
\* terminals and the files they follow (agentManager.ts:179-195).
ListIsTrue ==
  Resolved => {<<p.id, p.term, p.file>> : p \in ext.saved}
              = {<<id, ext.agents[id].term, ext.agents[id].file>> :
                   id \in {i \in AgentIds(ext) : ext.agents[i].term # None}}

\* An agent follows the file that the session in its terminal writes, after any
\* number of /clear; the scan may lose it when several files are new at once,
\* another terminal has the focus, or the extension was reloaded and has not
\* seen a change of focus (fileWatcher.ts:166-214).
FollowsItsSession ==
  \A id \in AgentIds(ext) :
    LET a == ext.agents[id] IN
    (a.term \in Open \ astray /\ session[a.term] \in ext.known) => a.file = session[a.term]
===============================================================================
