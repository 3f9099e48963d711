------------------------------ MODULE LayoutSync ------------------------------
(***************************************************************************)
(* One layout file shared by the windows of an editor                      *)
(* (vscode-extension/src/layoutPersistence.ts, its use in                  *)
(* PixelAgentsViewProvider.ts, and the debounced save and the handler of   *)
(* layoutLoaded in the panel).                                             *)
(*                                                                         *)
(* Windows are processes: their file accesses interleave, while within one *)
(* window an access blocks the extension.  A write goes to layout.json.tmp *)
(* and renames it; the windows share that name.  Watching and polling both *)
(* come to checkForChange.  Two changes never have the same timestamp.     *)
(***************************************************************************)
EXTENDS Integers, Sequences, FiniteSets, TLC

CONSTANTS
  Windows,
  Editors,       \* the windows whose user edits
  Layouts, Default,
  Revision,      \* the layoutRevision of each layout
  Stored,        \* what the file holds at first: a set of layouts, or Absent
  Legacy,        \* the layout in the workspace state of every window, or Absent
  MaxEdits, MaxFaults, MaxOpens,   \* bounds of the model
  Absent

Empty == "empty"     \* a file that was truncated
Mixed == "mixed"     \* parts of two layouts
Unreadable == {Empty, Mixed}

Readables == (Layouts \cup Stored \cup {Default, Legacy}) \ {Absent}
Files == [content: Readables \cup Unreadable, mtime: Nat, by: Windows \cup {Absent}]
Jobs == [layout: Readables, for: {"load", "save", "import"},
         step: {"truncate", "write", "rename", "show", "watch"}]

\* What a write that stops leaves behind cannot be parsed, and Absent is nothing else.
ASSUME LayoutAssumption ==
  /\ Readables \cap Unreadable = {} /\ Absent # Default /\ Absent \notin Layouts
  /\ Absent \notin Nat \cup Files \cup Jobs \cup Unreadable

VARIABLES
  file, tmp,     \* Absent or [content, mtime, by]
  clock,
  ext,           \* per window the extension [up, seen (lastMtime), skip, legacy, job, fd]
  mail, post,    \* messages under way to the panel and from it
  view,          \* per window the panel [shown, dirty, pending]
  edits, faults, opens

\* History: two windows wrote at once; the windows that may show another layout
\* than the file and have nothing to read.
VARIABLES clash, behind

bounds == <<edits, faults, opens>>
disk == <<file, tmp, clock>>
vars == <<disk, ext, mail, post, view, bounds, clash, behind>>

Closed == [up |-> FALSE, seen |-> Absent, skip |-> FALSE, legacy |-> Legacy, job |-> Absent, fd |-> "none"]
Blank == [shown |-> Absent, dirty |-> FALSE, pending |-> Absent]

Init ==
  /\ file \in {IF l = Absent THEN Absent ELSE [content |-> l, mtime |-> 1, by |-> Absent] : l \in Stored}
  /\ tmp = Absent /\ clock = 1
  /\ ext = [w \in Windows |-> Closed]
  /\ mail = [w \in Windows |-> <<>>] /\ post = [w \in Windows |-> <<>>]
  /\ view = [w \in Windows |-> Blank]
  /\ edits = 0 /\ faults = 0 /\ opens = 0
  /\ clash = FALSE /\ behind = {}

Readable == file # Absent /\ file.content \notin Unreadable
Mtime == IF file = Absent THEN 0 ELSE file.mtime
Idle(w) == ext[w].up /\ ext[w].job = Absent
AtStep(w, step) == ext[w].job # Absent /\ ext[w].job.step = step

Job(l, for, step) == [layout |-> l, for |-> for, step |-> step]

-------------------------------------------------------------------------------
(***************************************************************************)
(* The panel is opened, or opened again: migrateAndLoadLayout.             *)
(***************************************************************************)
LoadJob(w) ==
  IF Readable
  THEN IF Revision[Default] > Revision[file.content]
       THEN Job(Default, "load", "truncate") ELSE Job(file.content, "load", "show")
  ELSE Job(IF ext[w].legacy # Absent THEN ext[w].legacy ELSE Default, "load", "truncate")

Ready(w) ==
  /\ ext[w].job = Absent /\ opens < MaxOpens /\ opens' = opens + 1
  /\ ext' = [ext EXCEPT ![w].up = TRUE, ![w].job = LoadJob(w)]
  /\ view' = [view EXCEPT ![w] = Blank]
  /\ mail' = [mail EXCEPT ![w] = <<>>]
  /\ behind' = behind \ {w}
  /\ UNCHANGED <<disk, post, edits, faults, clash>>

\* sendLayout posts what was loaded, whether or not it could be written.
ShowLoaded(w) ==
  /\ AtStep(w, "show")
  /\ mail' = [mail EXCEPT ![w] = Append(@, ext[w].job.layout)]
  /\ ext' = [ext EXCEPT ![w].job = IF @.for = "load" THEN [@ EXCEPT !.step = "watch"] ELSE Absent,
                        ![w].legacy = IF @ = ext[w].job.layout THEN Absent ELSE @]
  /\ UNCHANGED <<disk, post, view, bounds, clash, behind>>

\* startLayoutWatcher, unless it runs already.  What is written between the
\* reading and this step is not noticed.
Watch(w) ==
  /\ AtStep(w, "watch")
  /\ ext' = [ext EXCEPT ![w].job = Absent, ![w].seen = IF @ = Absent THEN Mtime ELSE @]
  /\ behind' = IF ext[w].seen = Absent /\ ~(file # Absent /\ file.content = ext[w].job.layout)
               THEN behind \cup {w} ELSE behind
  /\ UNCHANGED <<disk, mail, post, view, bounds, clash>>

-------------------------------------------------------------------------------
(***************************************************************************)
(* Editing and saving.                                                     *)
(***************************************************************************)
Edit(w, l) ==
  /\ edits < MaxEdits /\ edits' = edits + 1
  /\ view[w].shown \notin {Absent, l}
  /\ view' = [view EXCEPT ![w] = [shown |-> l, dirty |-> TRUE, pending |-> l]]
  /\ UNCHANGED <<disk, ext, mail, post, faults, opens, clash, behind>>

SaveFires(w) ==
  /\ view[w].pending # Absent
  /\ post' = [post EXCEPT ![w] = Append(@, view[w].pending)]
  /\ view' = [view EXCEPT ![w].pending = Absent]
  /\ behind' = IF view[w].shown # view[w].pending THEN behind \cup {w} ELSE behind
  /\ UNCHANGED <<disk, ext, mail, bounds, clash>>

Save(w) ==
  /\ view[w].dirty
  /\ post' = [post EXCEPT ![w] = Append(@, view[w].shown)]
  /\ view' = [view EXCEPT ![w].pending = Absent, ![w].dirty = FALSE]
  /\ UNCHANGED <<disk, ext, mail, bounds, clash, behind>>

\* markOwnWrite does nothing before the watcher runs.
Marked(e) == IF e.seen = Absent THEN e ELSE [e EXCEPT !.skip = TRUE, !.seen = Mtime]

SaveLayout(w) ==
  /\ Idle(w) /\ post[w] # <<>>
  /\ ext' = [ext EXCEPT ![w] = [Marked(@) EXCEPT !.job = Job(Head(post[w]), "save", "truncate")]]
  /\ post' = [post EXCEPT ![w] = Tail(@)]
  /\ UNCHANGED <<disk, mail, view, bounds, clash, behind>>

ImportLayout(w, l) ==
  /\ Idle(w) /\ edits < MaxEdits /\ edits' = edits + 1
  /\ ext' = [ext EXCEPT ![w] = [Marked(@) EXCEPT !.job = Job(l, "import", "truncate")]]
  /\ UNCHANGED <<disk, mail, post, view, faults, opens, clash, behind>>

-------------------------------------------------------------------------------
(***************************************************************************)
(* writeLayoutToFile.  A descriptor stays with its file when that is       *)
(* renamed: fd is "tmp", "file", "gone" or "none".                         *)
(***************************************************************************)
After(job) == IF job.for = "save" THEN Absent ELSE [job EXCEPT !.step = "show"]
New(content, w) == [content |-> content, mtime |-> clock + 1, by |-> w]
Writing(w) == AtStep(w, "write") \/ AtStep(w, "rename")

\* Slip: the file is written in place.
TruncateInPlace(w) ==
  /\ AtStep(w, "truncate")
  /\ file' = New(Empty, w) /\ clock' = clock + 1
  /\ ext' = [ext EXCEPT ![w].fd = "file", ![w].job.step = "write"]
  /\ clash' = (clash \/ \E v \in Windows \ {w} : Writing(v))
  /\ UNCHANGED <<tmp, mail, post, view, bounds, behind>>

Truncate(w) ==
  /\ AtStep(w, "truncate")
  /\ tmp' = New(Empty, w) /\ clock' = clock + 1
  /\ ext' = [ext EXCEPT ![w].fd = "tmp", ![w].job.step = "write"]
  /\ clash' = (clash \/ \E v \in Windows \ {w} : Writing(v))
  /\ UNCHANGED <<file, mail, post, view, bounds, behind>>

\* Over the longer content of another window some of it remains.
Contents(f, l) == IF f.content = Empty THEN {l} ELSE {l, Mixed}
Write(w) ==
  /\ AtStep(w, "write")
  /\ clock' = clock + 1
  /\ CASE ext[w].fd = "tmp" -> /\ \E c \in Contents(tmp, ext[w].job.layout) : tmp' = New(c, w)
                               /\ UNCHANGED file
       [] ext[w].fd = "file" -> /\ \E c \in Contents(file, ext[w].job.layout) : file' = New(c, w)
                                /\ UNCHANGED tmp
       [] OTHER -> UNCHANGED <<file, tmp>>
  /\ ext' = [ext EXCEPT ![w].fd = "none", ![w].job.step = "rename"]
  /\ UNCHANGED <<mail, post, view, bounds, clash, behind>>

Moved(fd) == CASE fd = "tmp" -> "file" [] fd = "file" -> "gone" [] OTHER -> fd
Rename(w) ==
  /\ AtStep(w, "rename")
  /\ file' = IF tmp = Absent THEN file ELSE tmp      \* the error is logged
  /\ tmp' = Absent
  /\ ext' = [v \in Windows |->
               LET e == IF tmp = Absent THEN ext[v] ELSE [ext[v] EXCEPT !.fd = Moved(@)] IN
               IF v = w THEN [e EXCEPT !.job = After(@)] ELSE e]
  /\ UNCHANGED <<clock, mail, post, view, bounds, clash, behind>>

\* A step of the write fails, which is logged, or the window ends.
Fail(w) ==
  /\ faults < MaxFaults /\ faults' = faults + 1
  /\ AtStep(w, "truncate") \/ Writing(w)
  /\ ext' = [ext EXCEPT ![w].fd = "none", ![w].job = After(@)]
  /\ behind' = behind \cup {w}
  /\ UNCHANGED <<disk, mail, post, view, edits, opens, clash>>

Crash(w) ==
  /\ faults < MaxFaults /\ faults' = faults + 1
  /\ ext[w].up
  /\ ext' = [ext EXCEPT ![w] = [Closed EXCEPT !.legacy = ext[w].legacy]]
  /\ view' = [view EXCEPT ![w] = Blank]
  /\ mail' = [mail EXCEPT ![w] = <<>>] /\ post' = [post EXCEPT ![w] = <<>>]
  /\ UNCHANGED <<disk, edits, opens, clash, behind>>

-------------------------------------------------------------------------------
(***************************************************************************)
(* Changes of other windows.                                               *)
(***************************************************************************)
Due(w) == Idle(w) /\ ext[w].seen # Absent /\ Mtime > ext[w].seen

\* Slip: the file is remembered as seen when it was looked at.
checkForChangeByClock(w) ==
  /\ Due(w)
  /\ ext' = [ext EXCEPT ![w].seen = clock, ![w].skip = FALSE]
  /\ mail' = IF ~ext[w].skip /\ Readable THEN [mail EXCEPT ![w] = Append(@, file.content)] ELSE mail

checkForChange(w) ==
  /\ Due(w)
  /\ ext' = [ext EXCEPT ![w].seen = Mtime, ![w].skip = FALSE]
  /\ mail' = IF ~ext[w].skip /\ Readable THEN [mail EXCEPT ![w] = Append(@, file.content)] ELSE mail

\* The change that is skipped need not be the own one; one that cannot be read
\* is not read again.
Check(w) ==
  /\ checkForChange(w)
  /\ behind' = CASE ext[w].skip -> IF file.by = w THEN behind ELSE behind \cup {w}
                 [] Readable /\ ~ext[w].skip -> behind \ {w}
                 [] OTHER -> behind \cup {w}
  /\ UNCHANGED <<disk, post, view, bounds, clash>>

\* The handler sees the isEditDirty of the first render, always false
\* (useExtensionMessages.ts:408): unsaved changes are replaced as well.  The
\* window is behind when a save of its own is, or was, on its way.
LayoutLoaded(w) ==
  /\ mail[w] # <<>>
  /\ LET l == Head(mail[w]) IN
       /\ view' = [view EXCEPT ![w].shown = l]
       /\ behind' = IF \/ view[w].pending # Absent \/ post[w] # <<>>
                       \/ AtStep(w, "truncate") \/ Writing(w)
                       \/ file # Absent /\ file.by = w /\ file.content # l
                    THEN behind \cup {w} ELSE behind
  /\ mail' = [mail EXCEPT ![w] = Tail(@)]
  /\ UNCHANGED <<disk, ext, post, bounds, clash>>

-------------------------------------------------------------------------------
Advance(w) == ShowLoaded(w) \/ Watch(w) \/ Truncate(w) \/ Write(w) \/ Rename(w)
UserEdits(w) == (\E l \in Layouts \ {Default} : Edit(w, l) \/ ImportLayout(w, l)) \/ Save(w)

Next ==
  \E w \in Windows :
    \/ Ready(w) \/ (w \in Editors /\ UserEdits(w))
    \/ SaveFires(w) \/ SaveLayout(w) \/ Advance(w)
    \/ Fail(w) \/ Crash(w) \/ Check(w) \/ LayoutLoaded(w)

Spec == Init /\ [][Next]_vars

-------------------------------------------------------------------------------
(***************************************************************************)
(* Properties.                                                             *)
(***************************************************************************)
\* Whoever reads the file finds a layout, at whatever point a write stops or a
\* window ends; the one exception are windows that write at the same time, for
\* they share the name of the temporary file (layoutPersistence.ts:42-45).
FileIsWhole == clash \/ file = Absent \/ Readable

\* An open window for which nothing is under way shows the layout of the file;
\* the exceptions are counted in behind: a save that failed, one that crossed
\* another window's, a change that was taken for the own one or came before the
\* watcher ran (layoutPersistence.ts:104-153).
AtRest(w) == /\ ext[w].up /\ ext[w].job = Absent /\ ~Due(w)
             /\ mail[w] = <<>> /\ post[w] = <<>> /\ view[w].pending = Absent
ShowsFile(w) == file # Absent /\ view[w].shown = file.content
NobodyMissesChanges ==
  \A w \in Windows : AtRest(w) => clash \/ w \in behind \/ ShowsFile(w)

\* A layout of another window never replaces unsaved changes, as the comment
\* of the handler has it (useExtensionMessages.ts:111).
UnsavedEditsStay ==
  [][\A w \in Windows : (LayoutLoaded(w) /\ view[w].dirty) => view'[w].shown = view[w].shown]_vars
===============================================================================
