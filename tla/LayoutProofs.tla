---------------------------- MODULE LayoutProofs ----------------------------
(***************************************************************************)
(* Proofs about the layout: of LayoutSync, for any number of windows, any  *)
(* layouts and any bounds, and of LayoutEditor, for any catalog and any    *)
(* layouts to load.                                                        *)
(*                                                                         *)
(* LayoutSync: while no two windows write at once, the temporary file      *)
(* belongs to the one that writes; and of every window that is not counted *)
(* in behind it is known, at each step of a load, a save and a reload,     *)
(* which layout it is on its way to show.                                  *)
(*                                                                         *)
(* LayoutEditor: every layout that is in play (the one shown, the stacks,  *)
(* the one to be saved, the last one saved) is sound, which says more than *)
(* that only surfaces overlap; and each step is of one of a few kinds, of  *)
(* which the three properties are then proved.                             *)
(***************************************************************************)
EXTENDS LayoutSync, LayoutEditor, ListProofs, SequenceTheorems, TLAPS

(* Types: layouts are what jobs, messages and panels hold.                 *)
Descriptors == {"none", "tmp", "file", "gone"}
Exts == [up: BOOLEAN, seen: Nat \cup {Absent}, skip: BOOLEAN, legacy: Readables \cup {Absent},
         job: Jobs \cup {Absent}, fd: Descriptors]
Views == [shown: Readables \cup {Absent}, dirty: BOOLEAN, pending: Readables \cup {Absent}]
TypeOK ==
  /\ file \in Files \cup {Absent} /\ tmp \in Files \cup {Absent} /\ clock \in Nat
  /\ ext \in [Windows -> Exts] /\ view \in [Windows -> Views]
  /\ mail \in [Windows -> Seq(Readables)] /\ post \in [Windows -> Seq(Readables)]
  /\ clash \in BOOLEAN /\ behind \subseteq Windows
  /\ \A w \in Windows : view[w].dirty => view[w].shown # Absent

(* Without a clash one window writes at a time: the temporary file is its  *)
(* own, newer than the layout file, and whole when it is renamed.          *)
OneWriter == \A v, w \in Windows : Writing(v) /\ Writing(w) => v = w
TmpIsOurs ==
  \A w \in Windows :
    /\ AtStep(w, "write") => ext[w].fd = "tmp" /\ tmp # Absent /\ tmp.content = Empty
    /\ AtStep(w, "rename") =>
         /\ tmp # Absent /\ tmp.content = ext[w].job.layout /\ tmp.by = w
         /\ Mtime < tmp.mtime
ClockOK ==
  /\ Mtime <= clock /\ (tmp # Absent => tmp.mtime <= clock)
  /\ \A w \in Windows : ext[w].seen # Absent => ext[w].seen <= Mtime
DiskOK == ~clash => OneWriter /\ TmpIsOurs /\ ClockOK /\ FileIsWhole

(* The watcher is running whenever no load is under way.                   *)
Watched(w) ==
  /\ ext[w].up /\ ext[w].seen = Absent => ext[w].job # Absent /\ ext[w].job.for = "load"
  /\ ext[w].job # Absent => ext[w].up
  /\ AtStep(w, "watch") => ext[w].job.for = "load"
  /\ AtStep(w, "show") => ext[w].job.for # "save"
WatcherRuns == \A w \in Windows : Watched(w)

(* A save of this window is somewhere between the panel and the file.      *)
Busy(w) == \/ view[w].pending # Absent \/ post[w] # <<>>
           \/ AtStep(w, "truncate") \/ Writing(w)
(* The extension has nothing to learn from the file as it is.              *)
Current(w) == \/ Mtime <= ext[w].seen
              \/ ext[w].skip /\ file # Absent /\ file.by = w
Final(q) == q[Len(q)]
(* What the panel shows, or will show, is the layout of the file.          *)
Agrees(w) ==
  /\ file # Absent
  /\ IF AtStep(w, "show") THEN ext[w].job.layout = file.content
     ELSE IF mail[w] # <<>> THEN Final(mail[w]) = file.content \/ file.by = w
     ELSE view[w].shown = file.content
(* The layout that the last save under way will leave in the file.         *)
LastWord(w) == IF view[w].pending # Absent THEN view[w].pending
               ELSE IF post[w] # <<>> THEN Final(post[w]) ELSE ext[w].job.layout
(* The panel will be told another layout.                                  *)
ToBeShown(w) == \/ mail[w] # <<>>
                \/ /\ ext[w].job # Absent /\ ext[w].job.for # "save"
                   /\ ext[w].job.step # "watch"

(* Where a window stands: nothing is under way; a save is; the first load  *)
(* has been shown and the watcher is about to start.                       *)
Settled(w) == ext[w].seen # Absent /\ ~Busy(w) /\ Current(w) => Agrees(w)
Saving(w)  == Busy(w) /\ ~ToBeShown(w) => view[w].shown = LastWord(w)
Loading(w) == ext[w].seen = Absent /\ AtStep(w, "watch") =>
                IF mail[w] # <<>> THEN Final(mail[w]) = ext[w].job.layout
                ELSE ~Busy(w) => view[w].shown = ext[w].job.layout
InStep(w) == Settled(w) /\ Saving(w) /\ Loading(w)
AllInStep == ~clash => \A w \in Windows \ behind : ext[w].up => InStep(w)

LInv == TypeOK /\ DiskOK /\ WatcherRuns /\ AllInStep

-----------------------------------------------------------------------------
(* Types.                                                                  *)
LEMMA NoneIsNothing ==
  /\ Absent \notin Readables /\ Absent \notin Files /\ Absent \notin Jobs
  /\ Absent \notin Nat /\ Default \in Readables
  /\ Readables \cap Unreadable = {} /\ Layouts \subseteq Readables
BY LayoutAssumption DEF Readables

LEMMA JobType ==
  ASSUME NEW l \in Readables, NEW for \in {"load", "save", "import"},
         NEW step \in {"truncate", "write", "rename", "show", "watch"}
  PROVE  /\ Job(l, for, step) \in Jobs /\ Job(l, for, step) # Absent
         /\ Job(l, for, step).layout = l /\ Job(l, for, step).for = for
         /\ Job(l, for, step).step = step
BY NoneIsNothing DEF Job, Jobs

LEMMA Added ==
  ASSUME NEW q \in Seq(Readables), NEW l \in Readables
  PROVE  Append(q, l) \in Seq(Readables) /\ Append(q, l) # << >> /\ Final(Append(q, l)) = l
<1>1. /\ Append(q, l) \in Seq(Readables) /\ Append(q, l) # << >>
      /\ Len(Append(q, l)) = Len(q) + 1 /\ Append(q, l)[Len(q) + 1] = l
  BY Len(q) \in Nat
<1> QED
  BY <1>1 DEF Final

LEMMA Taken ==
  ASSUME NEW q \in Seq(Readables), q # << >>
  PROVE  /\ Head(q) \in Readables /\ Tail(q) \in Seq(Readables)
         /\ Tail(q) # << >> => Final(Tail(q)) = Final(q)
         /\ Tail(q) = << >> => Final(q) = Head(q)
<1>1. /\ Head(q) = q[1] /\ Head(q) \in Readables /\ Tail(q) \in Seq(Readables)
      /\ Len(Tail(q)) = Len(q) - 1 /\ Len(q) \in Nat \ {0}
  OBVIOUS
<1>2. ASSUME Tail(q) # << >> PROVE Final(Tail(q)) = Final(q)
  <2>1. Len(Tail(q)) \in Nat \ {0}
    BY <1>1, <1>2
  <2> QED
    BY <1>1, <2>1 DEF Final
<1>3. Tail(q) = << >> => Len(q) = 1
  <2>1. Tail(q) = << >> => Len(Tail(q)) = 0
    BY <1>1, EmptySeq
  <2> QED
    BY <1>1, <2>1
<1> QED
  BY <1>1, <1>2, <1>3 DEF Final

LEMMA NewType ==
  ASSUME NEW c \in Readables \cup Unreadable, NEW w \in Windows, clock \in Nat
  PROVE  New(c, w) \in Files
BY DEF New, Files

LEMMA InitLInv == Init => LInv
<1> SUFFICES ASSUME Init PROVE LInv
  OBVIOUS
<1>1. Closed \in Exts /\ Blank \in Views /\ Closed.up = FALSE /\ Closed.job = Absent
      /\ Closed.seen = Absent /\ Blank.dirty = FALSE
  BY DEF Closed, Blank, Exts, Views, Readables, Descriptors
<1>2. \A w \in Windows : ext[w] = Closed /\ view[w] = Blank
  BY DEF Init
<1>3. file \in Files \cup {Absent}
  BY DEF Init, Files, Readables
<1>4. ext \in [Windows -> Exts] /\ view \in [Windows -> Views]
  BY <1>1 DEF Init
<1>5. mail \in [Windows -> Seq(Readables)] /\ post \in [Windows -> Seq(Readables)]
  <2>1. << >> \in Seq(Readables)
    OBVIOUS
  <2> QED
    BY <2>1 DEF Init
<1>6. TypeOK
  BY <1>1, <1>2, <1>3, <1>4, <1>5 DEF Init, TypeOK
<1>7. FileIsWhole /\ Mtime <= clock /\ tmp = Absent
  BY NoneIsNothing DEF Init, FileIsWhole, Readable, Mtime, Readables
<1>8. \A w \in Windows : ext[w].seen = Absent /\ ~ext[w].up /\ ext[w].job = Absent
  BY <1>1, <1>2
<1>9. DiskOK
  BY <1>7, <1>8 DEF DiskOK, OneWriter, TmpIsOurs, ClockOK, Writing, AtStep
<1>10. WatcherRuns /\ AllInStep
  BY <1>8 DEF WatcherRuns, Watched, AllInStep, AtStep
<1> QED
  BY <1>6, <1>9, <1>10 DEF LInv

LEMMA LoadType ==
  ASSUME TypeOK, NEW w \in Windows
  PROVE  /\ LoadJob(w) \in Jobs /\ LoadJob(w) # Absent /\ LoadJob(w).for = "load"
         /\ \/ LoadJob(w).step = "truncate"
            \/ LoadJob(w).step = "show" /\ file # Absent /\ LoadJob(w).layout = file.content
<1>1. Readable => file # Absent /\ file.content \in Readables
  BY DEF TypeOK, Readable, Files
<1>2. ext[w].legacy # Absent => ext[w].legacy \in Readables
  BY DEF TypeOK, Exts
<1> QED
  BY <1>1, <1>2, NoneIsNothing, JobType DEF LoadJob

-----------------------------------------------------------------------------
(* A step of one window that leaves the disk alone: what remains to be     *)
(* shown of each such action.                                              *)
Only(w) == \A v \in Windows \ {w} :
             ext'[v] = ext[v] /\ view'[v] = view[v] /\ mail'[v] = mail[v] /\ post'[v] = post[v]

LEMMA Frame ==
  ASSUME NEW w \in Windows, Only(w), NEW v \in Windows \ {w}
  PROVE  /\ Writing(v)' <=> Writing(v)
         /\ AtStep(v, "write")' <=> AtStep(v, "write")
         /\ AtStep(v, "rename")' <=> AtStep(v, "rename")
         /\ Watched(v)' <=> Watched(v)
         /\ file' = file => (InStep(v)' <=> InStep(v))
BY DEF Only, Writing, AtStep, Watched, InStep, Settled, Saving, Loading, Busy, Current, Agrees,
       LastWord, ToBeShown, Mtime, Final

LEMMA QuietStep ==
  ASSUME LInv, TypeOK', NEW w \in Windows, Only(w), UNCHANGED <<disk, clash>>,
         behind \subseteq behind' \cup {w},
         ext'[w].seen \in {ext[w].seen, Absent, Mtime},
         Writing(w)' => ext'[w].job = ext[w].job /\ ext'[w].fd = ext[w].fd,
         Watched(w)',
         ~clash /\ w \notin behind' /\ ext'[w].up => InStep(w)'
  PROVE  LInv'
<1>1. WatcherRuns'
  BY Frame DEF LInv, WatcherRuns
<1>2. AllInStep'
  BY Frame DEF LInv, AllInStep, Only, disk
<1>3. ASSUME ~clash' PROVE (OneWriter /\ TmpIsOurs /\ ClockOK /\ FileIsWhole)'
  <2>1. OneWriter /\ TmpIsOurs /\ ClockOK /\ FileIsWhole /\ UNCHANGED <<file, tmp, clock>>
    BY <1>3 DEF LInv, DiskOK, disk
  <2>2. \A v \in Windows : /\ AtStep(v, "write")' => AtStep(v, "write")
                           /\ AtStep(v, "rename")' => AtStep(v, "rename")
                           /\ Writing(v)' => Writing(v) /\ ext'[v].job = ext[v].job
                                                       /\ ext'[v].fd = ext[v].fd
    BY Frame DEF Only, Writing, AtStep
  <2>3. OneWriter' /\ TmpIsOurs'
    BY <2>1, <2>2 DEF OneWriter, TmpIsOurs, Mtime, Writing
  <2>4. Mtime' = Mtime /\ Mtime \in Nat
    BY <2>1 DEF Mtime, LInv, TypeOK, Files
  <2>5. ClockOK'
    BY <2>1, <2>4, NoneIsNothing DEF ClockOK, Only
  <2> QED
    BY <1>3, <2>1, <2>3, <2>5 DEF FileIsWhole, Readable
<1> QED
  BY <1>1, <1>2, <1>3 DEF LInv, DiskOK

-----------------------------------------------------------------------------
LEMMA ReadyStep == ASSUME LInv, NEW w \in Windows, Ready(w) PROVE LInv'
<1> DEFINE e == [ext[w] EXCEPT !.up = TRUE, !.job = LoadJob(w)]
<1>1. ext' = [ext EXCEPT ![w] = e] /\ TypeOK
  BY DEF Ready, LInv, TypeOK
<1>2. e \in Exts /\ e.up /\ e.job = LoadJob(w) /\ e.seen = ext[w].seen
  BY <1>1, LoadType DEF TypeOK, Exts
<1>3. Blank \in Views /\ Blank.dirty = FALSE
  BY DEF Blank, Views
<1>4. mail' \in [Windows -> Seq(Readables)]
  BY DEF Ready, LInv, TypeOK
<1>5. TypeOK'
  BY <1>1, <1>2, <1>3, <1>4 DEF Ready, TypeOK, disk
<1>6. ext'[w] = e /\ view'[w] = Blank /\ mail'[w] = << >> /\ Only(w)
  BY <1>1 DEF Ready, TypeOK, Only
<1> HIDE DEF e
<1>7. Watched(w)' /\ ~Writing(w)'
  <2>1. ext'[w].up /\ ext'[w].job = LoadJob(w)
    BY <1>2, <1>6
  <2>2. LoadJob(w) # Absent /\ LoadJob(w).for = "load" /\ LoadJob(w).step \in {"truncate", "show"}
    BY <1>1, LoadType
  <2> QED
    BY <2>1, <2>2 DEF Watched, Writing, AtStep
<1>8. Busy(w)' \/ (AtStep(w, "show")' /\ file' # Absent /\ ext'[w].job.layout = file'.content)
  <2>1. ext'[w].job = LoadJob(w) /\ file' = file
    BY <1>2, <1>6 DEF Ready, disk
  <2>2. CASE LoadJob(w).step = "truncate"
    BY <1>1, <2>1, <2>2, LoadType DEF Busy, AtStep
  <2>3. CASE LoadJob(w).step = "show" /\ file # Absent /\ LoadJob(w).layout = file.content
    BY <1>1, <2>1, <2>3, LoadType DEF AtStep
  <2> QED
    BY <1>1, <2>2, <2>3, LoadType
<1>9. ToBeShown(w)' /\ ~AtStep(w, "watch")'
  BY <1>1, <1>2, <1>6, LoadType DEF ToBeShown, AtStep
<1>10. InStep(w)'
  BY <1>8, <1>9 DEF InStep, Settled, Saving, Loading, Agrees
<1> QED
  BY <1>2, <1>5, <1>6, <1>7, <1>10, QuietStep DEF Ready

LEMMA ShowLoadedStep == ASSUME LInv, NEW w \in Windows, ShowLoaded(w) PROVE LInv'
<1> DEFINE j == ext[w].job
           next == IF j.for = "load" THEN [j EXCEPT !.step = "watch"] ELSE Absent
           rest == IF ext[w].legacy = j.layout THEN Absent ELSE ext[w].legacy
           e == [ext[w] EXCEPT !.job = next, !.legacy = rest]
<1>1. ext' = [ext EXCEPT ![w] = e] /\ TypeOK
  BY DEF ShowLoaded, LInv, TypeOK
<1>2. /\ j \in Jobs /\ j.step = "show" /\ j.for # "save" /\ j.layout \in Readables
      /\ ext[w].up /\ Watched(w)
  BY <1>1 DEF ShowLoaded, AtStep, LInv, WatcherRuns, Watched, TypeOK, Exts, Jobs
<1>3. /\ next \in Jobs \cup {Absent}
      /\ next # Absent => j.for = "load" /\ next.step = "watch" /\ next.for = "load" /\ next.layout = j.layout
      /\ j.for = "load" => next # Absent
  BY <1>2, NoneIsNothing DEF Jobs
<1>4. /\ e \in Exts /\ e.job = next /\ e.seen = ext[w].seen /\ e.up = ext[w].up
      /\ e.skip = ext[w].skip
  BY <1>1, <1>3 DEF TypeOK, Exts
<1> HIDE DEF next, e
<1>5. mail' = [mail EXCEPT ![w] = Append(mail[w], j.layout)]
      /\ Append(mail[w], j.layout) \in Seq(Readables)
  BY <1>1, <1>2, Added DEF ShowLoaded, TypeOK
<1>6. TypeOK'
  <2>1. ext' \in [Windows -> Exts] /\ mail' \in [Windows -> Seq(Readables)]
    BY <1>1, <1>4, <1>5 DEF TypeOK
  <2> QED
    BY <1>1, <2>1 DEF ShowLoaded, TypeOK, disk
<1>7. /\ ext'[w] = e /\ mail'[w] = Append(mail[w], j.layout) /\ Only(w)
      /\ view'[w] = view[w] /\ post'[w] = post[w] /\ file' = file
  BY <1>1, <1>5 DEF ShowLoaded, TypeOK, Only, disk
<1>8. mail'[w] # << >> /\ Final(mail'[w]) = j.layout
  <2>1. mail[w] \in Seq(Readables)
    BY <1>1 DEF TypeOK
  <2> QED
    BY <1>2, <1>7, <2>1, Added
<1>9. Watched(w)' /\ ~Writing(w)'
  BY <1>2, <1>3, <1>4, <1>7 DEF Watched, Writing, AtStep
<1>10. ASSUME InStep(w) PROVE InStep(w)'
  <2>1. Busy(w)' => Busy(w)
    BY <1>3, <1>4, <1>7 DEF Busy, Writing, AtStep
  <2>2. Busy(w) => Busy(w)'
    BY <1>2, <1>7 DEF Busy, Writing, AtStep
  <2>3. Settled(w)'
    BY <1>2, <1>3, <1>4, <1>7, <1>8, <1>10, <2>2, NoneIsNothing
       DEF InStep, Settled, Current, Agrees, AtStep, Mtime
  <2>4. Saving(w)' /\ Loading(w)'
    BY <1>3, <1>4, <1>7, <1>8 DEF Saving, Loading, ToBeShown, AtStep
  <2> QED
    BY <2>3, <2>4 DEF InStep
<1>11. behind' = behind /\ UNCHANGED <<disk, clash>>
  BY DEF ShowLoaded
<1>12. ~clash /\ w \notin behind' /\ ext'[w].up => InStep(w)'
  BY <1>2, <1>10, <1>11 DEF LInv, AllInStep
<1> QED
  BY <1>4, <1>6, <1>7, <1>9, <1>11, <1>12, QuietStep

LEMMA WatchStep == ASSUME LInv, NEW w \in Windows, Watch(w) PROVE LInv'
<1> DEFINE j == ext[w].job
           e == [ext[w] EXCEPT !.job = Absent, !.seen = IF ext[w].seen = Absent THEN Mtime ELSE ext[w].seen]
<1>1. ext' = [ext EXCEPT ![w] = e] /\ TypeOK
  BY DEF Watch, LInv, TypeOK
<1>2. Mtime \in Nat /\ Mtime # Absent
  BY <1>1, NoneIsNothing DEF TypeOK, Mtime, Files
<1>3. /\ e \in Exts /\ e.job = Absent /\ e.up = ext[w].up /\ e.skip = ext[w].skip
      /\ e.seen = IF ext[w].seen = Absent THEN Mtime ELSE ext[w].seen
  BY <1>1, <1>2 DEF TypeOK, Exts
<1>4. j # Absent /\ j.step = "watch" /\ j.for = "load" /\ ext[w].up
  BY DEF Watch, AtStep, LInv, WatcherRuns, Watched
<1> HIDE DEF e
<1>5. TypeOK'
  BY <1>1, <1>3 DEF Watch, TypeOK, disk
<1>6. /\ ext'[w] = e /\ Only(w)
      /\ mail'[w] = mail[w] /\ view'[w] = view[w] /\ post'[w] = post[w]
      /\ UNCHANGED <<disk, clash>> /\ file' = file /\ behind \subseteq behind'
  BY <1>1 DEF Watch, TypeOK, Only, disk
<1>7. Watched(w)' /\ ~Writing(w)' /\ ~AtStep(w, "show")' /\ ~AtStep(w, "watch")'
  BY <1>2, <1>3, <1>6 DEF Watched, Writing, AtStep
<1>8. ASSUME InStep(w), w \notin behind' PROVE InStep(w)'
  <2>1. Busy(w)' <=> Busy(w)
    BY <1>3, <1>4, <1>6 DEF Busy, Writing, AtStep
  <2>2. ASSUME ext[w].seen = Absent PROVE Settled(w)'
    <3>1. file # Absent /\ file.content = j.layout
      BY <1>8, <2>2 DEF Watch
    <3>2. Loading(w) /\ AtStep(w, "watch")
      BY <1>8 DEF InStep, Watch
    <3> QED
      BY <1>6, <1>7, <2>1, <2>2, <3>1, <3>2 DEF Settled, Agrees, Loading
  <2>3. ASSUME ext[w].seen # Absent PROVE Settled(w)'
    <3>1. Current(w)' <=> Current(w)
      BY <1>3, <1>6, <2>3 DEF Current, Mtime
    <3> QED
      BY <1>4, <1>6, <1>7, <1>8, <2>1, <2>3, <3>1 DEF InStep, Settled, Agrees, AtStep
  <2>4. Settled(w)'
    BY <2>2, <2>3
  <2>5. Saving(w)'
    BY <1>3, <1>4, <1>6, <1>8, <2>1 DEF InStep, Saving, ToBeShown, LastWord, Busy, AtStep, Writing
  <2> QED
    BY <1>7, <2>4, <2>5 DEF InStep, Loading
<1>9. ~clash /\ w \notin behind' /\ ext'[w].up => InStep(w)'
  BY <1>4, <1>6, <1>8 DEF LInv, AllInStep
<1> QED
  BY <1>3, <1>5, <1>6, <1>7, <1>9, QuietStep

-----------------------------------------------------------------------------
(* Steps of the panel: the extension is as it was.                         *)
LEMMA PanelStep ==
  ASSUME LInv, TypeOK', NEW w \in Windows, Only(w), UNCHANGED <<disk, clash, ext>>,
         behind \subseteq behind' \cup {w},
         InStep(w) /\ w \notin behind' => InStep(w)',
         w \notin behind' => w \notin behind
  PROVE  LInv'
<1>1. Watched(w)'
  BY DEF LInv, WatcherRuns, Watched, AtStep
<1>2. ~clash /\ w \notin behind' /\ ext'[w].up => InStep(w)'
  BY DEF LInv, AllInStep
<1> QED
  BY <1>1, <1>2, QuietStep

LEMMA EditStep ==
  ASSUME LInv, NEW w \in Windows, NEW l \in Layouts, Edit(w, l) PROVE LInv'
<1> DEFINE v == [shown |-> l, dirty |-> TRUE, pending |-> l]
<1>1. v \in Views /\ l # Absent /\ l \in Readables
  BY NoneIsNothing DEF Views
<1>2. view' = [view EXCEPT ![w] = v] /\ view'[w] = v /\ Only(w)
  BY DEF Edit, LInv, TypeOK, Only
<1>3. TypeOK'
  BY <1>1, <1>2 DEF Edit, LInv, TypeOK, disk
<1>4. Busy(w)' /\ Saving(w)'
  BY <1>1, <1>2 DEF Busy, Saving, LastWord
<1>5. Loading(w) => Loading(w)'
  BY <1>4 DEF Edit, Loading, AtStep
<1> QED
  BY <1>2, <1>3, <1>4, <1>5, PanelStep DEF Edit, InStep, Settled

LEMMA SaveFiresStep == ASSUME LInv, NEW w \in Windows, SaveFires(w) PROVE LInv'
<1> DEFINE l == view[w].pending
<1>1. TypeOK /\ l \in Readables /\ l # Absent
  BY DEF SaveFires, LInv, TypeOK, Views
<1>2. /\ view' = [view EXCEPT ![w] = [view[w] EXCEPT !.pending = Absent]]
      /\ post' = [post EXCEPT ![w] = Append(post[w], l)]
      /\ [view[w] EXCEPT !.pending = Absent] \in Views
  BY <1>1 DEF SaveFires, TypeOK, Views
<1>3. /\ view'[w].shown = view[w].shown /\ view'[w].pending = Absent
      /\ view'[w].dirty = view[w].dirty
      /\ post'[w] = Append(post[w], l) /\ Only(w)
  BY <1>1, <1>2 DEF SaveFires, TypeOK, Views, Only
<1>4. post'[w] \in Seq(Readables) /\ post'[w] # << >> /\ Final(post'[w]) = l
  <2>1. post[w] \in Seq(Readables)
    BY <1>1 DEF TypeOK
  <2> QED
    BY <1>1, <1>3, <2>1, Added
<1>5. TypeOK'
  <2>1. view' \in [Windows -> Views] /\ post' \in [Windows -> Seq(Readables)]
    BY <1>1, <1>2, <1>3, <1>4 DEF TypeOK
  <2>2. \A v \in Windows : view'[v].dirty => view'[v].shown # Absent
    BY <1>1, <1>3 DEF TypeOK, Only
  <2> QED
    BY <1>1, <2>1, <2>2 DEF SaveFires, TypeOK, disk
<1>6. Busy(w)'
  BY <1>4 DEF Busy
<1>7. w \notin behind' => Saving(w)'
  BY <1>3, <1>4 DEF SaveFires, Saving, LastWord
<1>8. Loading(w) => Loading(w)'
  BY <1>6 DEF SaveFires, Loading, AtStep
<1> QED
  BY <1>3, <1>5, <1>6, <1>7, <1>8, PanelStep DEF SaveFires, InStep, Settled

LEMMA SaveStep == ASSUME LInv, NEW w \in Windows, Save(w) PROVE LInv'
<1> DEFINE l == view[w].shown
           v == [view[w] EXCEPT !.pending = Absent, !.dirty = FALSE]
<1>1. TypeOK /\ l \in Readables /\ l # Absent
  BY NoneIsNothing DEF Save, LInv, TypeOK, Views
<1>2. /\ view' = [view EXCEPT ![w] = v] /\ post' = [post EXCEPT ![w] = Append(post[w], l)]
      /\ v \in Views /\ v.shown = l /\ v.pending = Absent /\ v.dirty = FALSE
  BY <1>1 DEF Save, TypeOK, Views
<1> HIDE DEF v
<1>3. view'[w] = v /\ post'[w] = Append(post[w], l) /\ Only(w)
  BY <1>1, <1>2 DEF Save, TypeOK, Only
<1>4. post'[w] \in Seq(Readables) /\ post'[w] # << >> /\ Final(post'[w]) = l
  <2>1. post[w] \in Seq(Readables)
    BY <1>1 DEF TypeOK
  <2> QED
    BY <1>1, <1>3, <2>1, Added
<1>5. TypeOK'
  <2>1. view' \in [Windows -> Views] /\ post' \in [Windows -> Seq(Readables)]
    BY <1>1, <1>2, <1>3, <1>4 DEF TypeOK
  <2>2. \A u \in Windows : view'[u].dirty => view'[u].shown # Absent
    BY <1>1, <1>2, <1>3 DEF TypeOK, Only
  <2> QED
    BY <1>1, <2>1, <2>2 DEF Save, TypeOK, disk
<1>6. Busy(w)' /\ Saving(w)'
  BY <1>2, <1>3, <1>4 DEF Busy, Saving, LastWord
<1>7. Loading(w) => Loading(w)'
  BY <1>6 DEF Save, Loading, AtStep
<1> QED
  BY <1>3, <1>5, <1>6, <1>7, PanelStep DEF Save, InStep, Settled

-----------------------------------------------------------------------------
(* Steps of the extension that begin a write.                              *)
LEMMA MarkedType ==
  ASSUME TypeOK, NEW w \in Windows, NEW j \in Jobs
  PROVE  LET e == [Marked(ext[w]) EXCEPT !.job = j]
         IN  /\ e \in Exts /\ e.job = j /\ e.up = ext[w].up
             /\ e.seen \in {ext[w].seen, Mtime}
             /\ e.seen = Absent <=> ext[w].seen = Absent
<1>1. Mtime \in Nat /\ Mtime # Absent
  BY NoneIsNothing DEF TypeOK, Mtime, Files
<1>2. CASE ext[w].seen = Absent
  BY <1>2 DEF Marked, TypeOK, Exts
<1>3. CASE ext[w].seen # Absent
  BY <1>1, <1>3 DEF Marked, TypeOK, Exts
<1> QED
  BY <1>2, <1>3

LEMMA SaveLayoutStep == ASSUME LInv, NEW w \in Windows, SaveLayout(w) PROVE LInv'
<1> DEFINE j == Job(Head(post[w]), "save", "truncate")
           e == [Marked(ext[w]) EXCEPT !.job = j]
<1>1. /\ TypeOK /\ ext[w].up /\ ext[w].job = Absent /\ post[w] # << >>
      /\ ext' = [ext EXCEPT ![w] = e] /\ post' = [post EXCEPT ![w] = Tail(post[w])]
  BY DEF SaveLayout, Idle, LInv, TypeOK
<1>2. /\ Head(post[w]) \in Readables /\ Tail(post[w]) \in Seq(Readables)
      /\ Tail(post[w]) # << >> => Final(Tail(post[w])) = Final(post[w])
      /\ Tail(post[w]) = << >> => Final(post[w]) = Head(post[w])
  <2>1. post[w] \in Seq(Readables)
    BY <1>1 DEF TypeOK
  <2> QED
    BY <1>1, <2>1, Taken
<1>3. /\ j \in Jobs /\ j # Absent /\ j.layout = Head(post[w]) /\ j.for = "save"
      /\ j.step = "truncate"
  BY <1>2, JobType
<1> HIDE DEF j
<1>4. /\ e \in Exts /\ e.job = j /\ e.up = ext[w].up
      /\ e.seen \in {ext[w].seen, Mtime} /\ (e.seen = Absent <=> ext[w].seen = Absent)
  BY <1>1, <1>3, MarkedType
<1> HIDE DEF e
<1>5. TypeOK'
  <2>1. ext' \in [Windows -> Exts] /\ post' \in [Windows -> Seq(Readables)]
    BY <1>1, <1>2, <1>4 DEF TypeOK
  <2> QED
    BY <1>1, <2>1 DEF SaveLayout, TypeOK, disk
<1>6. /\ ext'[w] = e /\ post'[w] = Tail(post[w]) /\ view'[w] = view[w] /\ mail'[w] = mail[w]
      /\ Only(w)
  BY <1>1 DEF SaveLayout, TypeOK, Only
<1>7. Watched(w)' /\ ~Writing(w)'
  BY <1>1, <1>3, <1>4, <1>6 DEF LInv, WatcherRuns, Watched, Writing, AtStep
<1>8. Busy(w)' /\ Busy(w) /\ ~AtStep(w, "watch")'
  BY <1>1, <1>3, <1>4, <1>6 DEF Busy, AtStep
<1>9. ASSUME Saving(w) PROVE Saving(w)'
  <2>1. ToBeShown(w) => ToBeShown(w)'
    BY <1>1, <1>6 DEF ToBeShown
  <2>2. LastWord(w)' = LastWord(w)
    BY <1>1, <1>2, <1>3, <1>4, <1>6 DEF LastWord
  <2> QED
    BY <1>6, <1>8, <1>9, <2>1, <2>2 DEF Saving
<1>10. ~clash /\ w \notin behind' /\ ext'[w].up => InStep(w)'
  BY <1>1, <1>8, <1>9 DEF SaveLayout, LInv, AllInStep, InStep, Settled, Loading
<1> QED
  BY <1>4, <1>5, <1>6, <1>7, <1>10, QuietStep DEF SaveLayout

LEMMA ImportLayoutStep ==
  ASSUME LInv, NEW w \in Windows, NEW l \in Layouts, ImportLayout(w, l) PROVE LInv'
<1> DEFINE j == Job(l, "import", "truncate")
           e == [Marked(ext[w]) EXCEPT !.job = j]
<1>1. /\ TypeOK /\ ext[w].up /\ ext[w].job = Absent /\ ext' = [ext EXCEPT ![w] = e]
  BY DEF ImportLayout, Idle, LInv, TypeOK
<1>2. j \in Jobs /\ j # Absent /\ j.for = "import" /\ j.step = "truncate"
  BY NoneIsNothing, JobType
<1> HIDE DEF j
<1>3. /\ e \in Exts /\ e.job = j /\ e.up = ext[w].up
      /\ e.seen \in {ext[w].seen, Mtime} /\ (e.seen = Absent <=> ext[w].seen = Absent)
  BY <1>1, <1>2, MarkedType
<1> HIDE DEF e
<1>4. TypeOK'
  BY <1>1, <1>3 DEF ImportLayout, TypeOK, disk
<1>5. ext'[w] = e /\ Only(w)
  BY <1>1 DEF ImportLayout, TypeOK, Only
<1>6. Watched(w)' /\ ~Writing(w)'
  BY <1>1, <1>2, <1>3, <1>5 DEF LInv, WatcherRuns, Watched, Writing, AtStep
<1>7. InStep(w)'
  BY <1>2, <1>3, <1>5 DEF InStep, Settled, Saving, Loading, Busy, ToBeShown, AtStep
<1> QED
  BY <1>3, <1>4, <1>5, <1>6, <1>7, QuietStep DEF ImportLayout

-----------------------------------------------------------------------------
(* Steps of a write that end it, and those that read the file.             *)
LEMMA AfterType ==
  ASSUME NEW j \in Jobs
  PROVE  /\ After(j) \in Jobs \cup {Absent}
         /\ j.for = "save" => After(j) = Absent
         /\ j.for # "save" => /\ After(j) # Absent /\ After(j).for = j.for
                             /\ After(j).step = "show" /\ After(j).layout = j.layout
BY NoneIsNothing DEF After, Jobs

LEMMA FailStep == ASSUME LInv, NEW w \in Windows, Fail(w) PROVE LInv'
<1> DEFINE j == ext[w].job
           e == [ext[w] EXCEPT !.fd = "none", !.job = After(j)]
<1>1. /\ TypeOK /\ ext' = [ext EXCEPT ![w] = e] /\ Watched(w)
  BY DEF Fail, LInv, TypeOK, WatcherRuns
<1>2. j \in Jobs /\ j # Absent
  BY <1>1 DEF Fail, AtStep, Writing, TypeOK, Exts
<1>3. /\ e \in Exts /\ e.job = After(j) /\ e.seen = ext[w].seen /\ e.up = ext[w].up
  BY <1>1, <1>2, AfterType DEF TypeOK, Exts, Descriptors
<1> HIDE DEF e
<1>4. TypeOK'
  BY <1>1, <1>3 DEF Fail, TypeOK, disk
<1>5. ext'[w] = e /\ Only(w)
  BY <1>1 DEF Fail, TypeOK, Only
<1>6. Watched(w)' /\ ~Writing(w)'
  <2>1. j.for # "load" => ext[w].seen # Absent
    BY <1>1, <1>2 DEF Watched
  <2> QED
    BY <1>1, <1>2, <1>3, <1>5, <2>1, AfterType DEF Watched, Writing, AtStep
<1> QED
  BY <1>3, <1>4, <1>5, <1>6, QuietStep DEF Fail

LEMMA CrashStep == ASSUME LInv, NEW w \in Windows, Crash(w) PROVE LInv'
<1> DEFINE e == [Closed EXCEPT !.legacy = ext[w].legacy]
<1>1. TypeOK /\ ext' = [ext EXCEPT ![w] = e]
  BY DEF Crash, LInv, TypeOK
<1>2. e \in Exts /\ e.job = Absent /\ e.seen = Absent /\ ~e.up
  BY <1>1 DEF Closed, TypeOK, Exts, Descriptors
<1> HIDE DEF e
<1>3. Blank \in Views /\ Blank.dirty = FALSE
  BY DEF Blank, Views
<1>4. TypeOK'
  <2>1. /\ ext' \in [Windows -> Exts] /\ view' \in [Windows -> Views]
        /\ mail' \in [Windows -> Seq(Readables)] /\ post' \in [Windows -> Seq(Readables)]
    <3>1. << >> \in Seq(Readables)
      OBVIOUS
    <3> QED
      BY <1>1, <1>2, <1>3, <3>1 DEF Crash, TypeOK
  <2>2. \A v \in Windows : view'[v].dirty => view'[v].shown # Absent
    BY <1>1, <1>3 DEF Crash, TypeOK
  <2> QED
    BY <1>1, <2>1, <2>2 DEF Crash, TypeOK, disk
<1>5. ext'[w] = e /\ Only(w)
  BY <1>1 DEF Crash, TypeOK, Only
<1>6. Watched(w)' /\ ~Writing(w)'
  BY <1>2, <1>5 DEF Watched, Writing, AtStep
<1> QED
  BY <1>2, <1>4, <1>5, <1>6, QuietStep DEF Crash

LEMMA CheckStep == ASSUME LInv, NEW w \in Windows, Check(w) PROVE LInv'
<1> DEFINE e == [ext[w] EXCEPT !.seen = Mtime, !.skip = FALSE]
           told == ~ext[w].skip /\ Readable
<1>1. /\ TypeOK /\ ext' = [ext EXCEPT ![w] = e] /\ ext[w].job = Absent /\ ext[w].up
      /\ ext[w].seen # Absent /\ Mtime > ext[w].seen
      /\ mail' = IF told THEN [mail EXCEPT ![w] = Append(mail[w], file.content)] ELSE mail
  BY DEF Check, checkForChange, Due, Idle, LInv, TypeOK
<1>2. Mtime \in Nat /\ Mtime # Absent /\ ext[w].seen \in Nat
  BY <1>1, NoneIsNothing DEF TypeOK, Mtime, Files, Exts
<1>3. file # Absent
  BY <1>1, <1>2 DEF Mtime
<1>4. Readable => file.content \in Readables
  BY <1>1 DEF TypeOK, Readable, Files
<1>5. e \in Exts /\ e.job = Absent /\ e.seen = Mtime /\ e.up = ext[w].up /\ e.skip = FALSE
  BY <1>1, <1>2 DEF TypeOK, Exts
<1> HIDE DEF e
<1>6. /\ told => /\ Append(mail[w], file.content) \in Seq(Readables)
                /\ Append(mail[w], file.content) # << >>
                /\ Final(Append(mail[w], file.content)) = file.content
  <2>1. mail[w] \in Seq(Readables)
    BY <1>1 DEF TypeOK
  <2> QED
    BY <1>4, <2>1, Added
<1>7. TypeOK'
  <2>1. ext' \in [Windows -> Exts] /\ mail' \in [Windows -> Seq(Readables)]
    BY <1>1, <1>5, <1>6 DEF TypeOK
  <2>2. behind' \subseteq Windows
    BY <1>1 DEF Check, TypeOK
  <2> QED
    BY <1>1, <2>1, <2>2 DEF Check, TypeOK, disk
<1>8. /\ ext'[w] = e /\ view'[w] = view[w] /\ post'[w] = post[w] /\ Only(w) /\ file' = file
      /\ mail'[w] = IF told THEN Append(mail[w], file.content) ELSE mail[w]
  BY <1>1 DEF Check, TypeOK, Only, disk
<1>9. Watched(w)' /\ ~Writing(w)' /\ ~AtStep(w, "watch")' /\ ~AtStep(w, "show")'
  BY <1>2, <1>5, <1>8 DEF Watched, Writing, AtStep
<1>10. behind \subseteq behind' \cup {w}
  BY DEF Check
<1>11. ASSUME told PROVE InStep(w)'
  BY <1>3, <1>6, <1>8, <1>9, <1>11 DEF InStep, Settled, Saving, Loading, Agrees, ToBeShown
<1>12. ASSUME ~told, w \notin behind', ~clash PROVE InStep(w)'
  <2>1. ext[w].skip /\ file.by = w /\ w \notin behind
    BY <1>12 DEF Check
  <2>2. InStep(w) /\ Current(w)
    BY <1>1, <1>3, <1>12, <2>1 DEF LInv, AllInStep, Current
  <2>3. Busy(w)' <=> Busy(w)
    BY <1>1, <1>5, <1>8 DEF Busy, Writing, AtStep
  <2>4. Settled(w)'
    BY <1>1, <1>8, <1>9, <1>12, <2>2, <2>3 DEF InStep, Settled, Agrees, AtStep
  <2>5. Saving(w)'
    BY <1>1, <1>5, <1>8, <1>12, <2>2, <2>3
       DEF InStep, Saving, ToBeShown, LastWord, Busy, Writing, AtStep
  <2> QED
    BY <1>9, <2>4, <2>5 DEF InStep, Loading
<1> QED
  BY <1>5, <1>7, <1>8, <1>9, <1>10, <1>11, <1>12, QuietStep DEF Check

LEMMA LayoutLoadedStep == ASSUME LInv, NEW w \in Windows, LayoutLoaded(w) PROVE LInv'
<1> DEFINE l == Head(mail[w])
           v == [view[w] EXCEPT !.shown = l]
<1>1. /\ TypeOK /\ view' = [view EXCEPT ![w] = v] /\ mail[w] # << >>
      /\ mail' = [mail EXCEPT ![w] = Tail(mail[w])]
  BY DEF LayoutLoaded, LInv, TypeOK
<1>2. /\ l \in Readables /\ Tail(mail[w]) \in Seq(Readables)
      /\ Tail(mail[w]) # << >> => Final(Tail(mail[w])) = Final(mail[w])
      /\ Tail(mail[w]) = << >> => Final(mail[w]) = l
  <2>1. mail[w] \in Seq(Readables)
    BY <1>1 DEF TypeOK
  <2> QED
    BY <1>1, <2>1, Taken
<1>3. v \in Views /\ v.shown = l /\ v.pending = view[w].pending /\ l # Absent
  BY <1>1, <1>2, NoneIsNothing DEF TypeOK, Views
<1> HIDE DEF v
<1>4. /\ view'[w] = v /\ mail'[w] = Tail(mail[w]) /\ Only(w)
      /\ UNCHANGED <<disk, ext, post, clash>> /\ file' = file
  BY <1>1 DEF LayoutLoaded, TypeOK, Only, disk
<1>5. TypeOK'
  <2>1. view' \in [Windows -> Views] /\ mail' \in [Windows -> Seq(Readables)]
    BY <1>1, <1>2, <1>3 DEF TypeOK
  <2>2. \A u \in Windows : view'[u].dirty => view'[u].shown # Absent
    BY <1>1, <1>3, <1>4 DEF TypeOK, Only
  <2>3. behind' \subseteq Windows
    BY <1>1 DEF LayoutLoaded, TypeOK
  <2> QED
    BY <1>1, <2>1, <2>2, <2>3 DEF LayoutLoaded, TypeOK, disk
<1>6. ASSUME InStep(w), w \notin behind' PROVE InStep(w)'
  <2>1. /\ ~Busy(w) /\ (file # Absent /\ file.by = w => file.content = l)
    BY <1>6 DEF LayoutLoaded, Busy
  <2>2. ~Busy(w)'
    BY <1>3, <1>4, <2>1 DEF Busy, Writing, AtStep
  <2>3. Settled(w)'
    BY <1>1, <1>2, <1>3, <1>4, <1>6, <2>1 DEF InStep, Settled, Current, Agrees, AtStep, Mtime
  <2>4. Loading(w)'
    BY <1>1, <1>2, <1>3, <1>4, <1>6 DEF InStep, Loading, AtStep
  <2> QED
    BY <2>2, <2>3, <2>4 DEF InStep, Saving
<1>7. behind \subseteq behind'
  BY DEF LayoutLoaded
<1> QED
  BY <1>4, <1>5, <1>6, <1>7, PanelStep

-----------------------------------------------------------------------------
(* Steps of a write.                                                       *)
LEMMA WriterType ==
  ASSUME TypeOK, WatcherRuns, NEW w \in Windows, AtStep(w, "truncate") \/ Writing(w)
  PROVE  /\ ext[w].job \in Jobs /\ ext[w].job # Absent /\ ext[w].up
         /\ ext[w].job.layout \in Readables
BY DEF TypeOK, WatcherRuns, Watched, AtStep, Writing, Exts, Jobs

(* Going from one step of the write to the next is nothing to a window     *)
(* that knows where it stands.                                             *)
LEMMA SameWrite ==
  ASSUME LInv, NEW w \in Windows, AtStep(w, "truncate") \/ Writing(w),
         NEW fd \in Descriptors, NEW step \in {"write", "rename"},
         ext' = [ext EXCEPT ![w].fd = fd, ![w].job.step = step],
         UNCHANGED <<view, mail, post, behind>>
  PROVE  /\ ext' \in [Windows -> Exts] /\ ext'[w].job # Absent /\ ext'[w].job.step = step
         /\ ext'[w].fd = fd /\ ext'[w].seen = ext[w].seen
         /\ ext'[w].job.layout = ext[w].job.layout /\ Only(w) /\ Watched(w)'
         /\ InStep(w) => InStep(w)'
<1> DEFINE j == [ext[w].job EXCEPT !.step = step]
           e == [ext[w] EXCEPT !.fd = fd, !.job = j]
<1>1. TypeOK /\ ext' = [ext EXCEPT ![w] = e] /\ ext[w].job \in Jobs
      /\ ext[w].up /\ Watched(w)
  BY WriterType DEF LInv, TypeOK, WatcherRuns
<1>2. /\ j \in Jobs /\ j # Absent /\ j.step = step /\ j.layout = ext[w].job.layout
      /\ j.for = ext[w].job.for
  BY <1>1, NoneIsNothing DEF Jobs
<1> HIDE DEF j
<1>3. /\ e \in Exts /\ e.job = j /\ e.fd = fd /\ e.seen = ext[w].seen /\ e.up = ext[w].up
      /\ e.skip = ext[w].skip
  <2>1. ext[w] \in Exts /\ j \in Jobs \cup {Absent} /\ fd \in Descriptors
    BY <1>1, <1>2 DEF TypeOK
  <2> QED
    BY <2>1 DEF Exts
<1> HIDE DEF e
<1>4. ext' \in [Windows -> Exts] /\ ext'[w] = e /\ Only(w)
  BY <1>1, <1>3 DEF TypeOK, Only
<1>5. Busy(w) /\ Busy(w)' /\ ~AtStep(w, "watch")'
  BY <1>2, <1>3, <1>4 DEF Busy, Writing, AtStep
<1>6. ToBeShown(w) => ToBeShown(w)'
  BY <1>2, <1>3, <1>4 DEF ToBeShown
<1>7. LastWord(w)' = LastWord(w)
  BY <1>2, <1>3, <1>4 DEF LastWord
<1>8. InStep(w) => InStep(w)'
  BY <1>5, <1>6, <1>7 DEF InStep, Settled, Saving, Loading
<1>9. Watched(w)'
  <2>1. ext[w].seen = Absent => ext[w].job.for = "load"
    BY <1>1 DEF Watched
  <2> QED
    BY <1>1, <1>2, <1>3, <1>4, <2>1 DEF Watched, AtStep
<1> QED
  BY <1>2, <1>3, <1>4, <1>8, <1>9

LEMMA TruncateStep == ASSUME LInv, NEW w \in Windows, Truncate(w) PROVE LInv'
<1>1. /\ ext' \in [Windows -> Exts] /\ ext'[w].job # Absent /\ ext'[w].job.step = "write"
      /\ ext'[w].fd = "tmp" /\ ext'[w].seen = ext[w].seen
      /\ Only(w) /\ Watched(w)' /\ (InStep(w) => InStep(w)')
  BY SameWrite DEF Truncate, Descriptors
<1>2. tmp' \in Files /\ tmp' # Absent /\ tmp'.content = Empty /\ tmp'.mtime = clock + 1
  <2>1. New(Empty, w) \in Files
    BY NewType DEF LInv, TypeOK, Unreadable
  <2> QED
    BY <2>1, NoneIsNothing DEF Truncate, New
<1>3. TypeOK'
  BY <1>1, <1>2 DEF Truncate, LInv, TypeOK
<1>4. WatcherRuns'
  BY <1>1, Frame DEF LInv, WatcherRuns
<1>5. AllInStep'
  <2>1. file' = file /\ behind' = behind /\ (~clash' => ~clash)
    BY DEF Truncate
  <2>2. \A v \in Windows \ {w} : (InStep(v)' <=> InStep(v)) /\ ext'[v].up = ext[v].up
    BY <1>1, <2>1, Frame DEF Only
  <2>3. ext[w].up
    BY WriterType DEF Truncate, LInv
  <2> QED
    BY <1>1, <2>1, <2>2, <2>3 DEF LInv, AllInStep
<1>6. ASSUME ~clash' PROVE (OneWriter /\ TmpIsOurs /\ ClockOK /\ FileIsWhole)'
  <2>1. ~clash /\ \A v \in Windows \ {w} : ~Writing(v)
    BY <1>6 DEF Truncate
  <2>2. \A v \in Windows \ {w} :
           ~Writing(v)' /\ ~AtStep(v, "write")' /\ ~AtStep(v, "rename")'
    BY <1>1, <2>1, Frame DEF Writing
  <2>3. OneWriter'
    BY <2>2 DEF OneWriter
  <2>4. TmpIsOurs'
    BY <1>1, <1>2, <2>2 DEF TmpIsOurs, AtStep
  <2>5. Mtime' = Mtime /\ Mtime \in Nat /\ clock \in Nat /\ clock' = clock + 1
    BY DEF Truncate, Mtime, LInv, TypeOK, Files
  <2>6. ClockOK'
    <3>1. ClockOK /\ clock' = clock + 1 /\ clock \in Nat
      BY <2>1, <2>5 DEF LInv, DiskOK
    <3>2. \A v \in Windows : ext'[v].seen = ext[v].seen
      BY <1>1 DEF Only
    <3> QED
      BY <1>2, <2>5, <3>1, <3>2 DEF ClockOK
  <2> QED
    BY <1>6, <2>1, <2>3, <2>4, <2>6 DEF Truncate, LInv, DiskOK, FileIsWhole, Readable
<1> QED
  BY <1>3, <1>4, <1>5, <1>6 DEF LInv, DiskOK

LEMMA WriteStep == ASSUME LInv, NEW w \in Windows, Write(w) PROVE LInv'
<1>1. Writing(w) /\ AtStep(w, "write") /\ TypeOK /\ clock' = clock + 1 /\ clock \in Nat
  BY DEF Write, Writing, LInv, TypeOK
<1>2. /\ ext' \in [Windows -> Exts] /\ ext'[w].job # Absent /\ ext'[w].job.step = "rename"
      /\ ext'[w].seen = ext[w].seen /\ ext'[w].job.layout = ext[w].job.layout
      /\ Only(w) /\ Watched(w)' /\ (InStep(w) => InStep(w)')
  BY <1>1, SameWrite DEF Write, Descriptors
<1>3. file' \in Files \cup {Absent} /\ tmp' \in Files \cup {Absent}
  <2>1. ext[w].job.layout \in Readables
    BY <1>1, WriterType DEF LInv
  <2>2. \A f : \A c \in Contents(f, ext[w].job.layout) : New(c, w) \in Files
    BY <1>1, <2>1, NewType DEF Contents, Unreadable
  <2> QED
    BY <1>1, <2>2 DEF Write, TypeOK
<1>4. TypeOK'
  BY <1>1, <1>2, <1>3 DEF Write, TypeOK
<1>5. WatcherRuns'
  BY <1>2, Frame DEF LInv, WatcherRuns
<1>6. ASSUME ~clash'
      PROVE  AllInStep' /\ (OneWriter /\ TmpIsOurs /\ ClockOK /\ FileIsWhole)'
  <2>1. ~clash /\ UNCHANGED clash /\ OneWriter /\ TmpIsOurs /\ ClockOK /\ FileIsWhole
    BY <1>6 DEF Write, LInv, DiskOK
  <2>2. ext[w].fd = "tmp" /\ tmp # Absent /\ tmp.content = Empty
    BY <1>1, <2>1 DEF TmpIsOurs
  <2>3. file' = file /\ tmp' = New(ext[w].job.layout, w)
    BY <2>2 DEF Write, Contents
  <2>4. tmp' # Absent /\ tmp'.content = ext[w].job.layout /\ tmp'.by = w /\ tmp'.mtime = clock + 1
    <3>1. New(ext[w].job.layout, w) \in Files
      BY <1>1, WriterType, NewType DEF LInv
    <3> QED
      BY <2>3, <3>1, NoneIsNothing DEF New
  <2>5. \A v \in Windows \ {w} :
           ~Writing(v)' /\ ~AtStep(v, "write")' /\ ~AtStep(v, "rename")'
    BY <1>1, <1>2, <2>1, Frame DEF OneWriter, Writing
  <2>6. Mtime' = Mtime /\ Mtime \in Nat
    BY <1>1, <2>3 DEF Mtime, TypeOK, Files
  <2>7. OneWriter'
    BY <2>5 DEF OneWriter
  <2>8. ClockOK'
    <3>1. \A v \in Windows : ext'[v].seen = ext[v].seen
      BY <1>2 DEF Only
    <3> QED
      BY <1>1, <2>1, <2>4, <2>6, <3>1 DEF ClockOK
  <2>9. Mtime' < tmp'.mtime
    BY <1>1, <2>1, <2>4, <2>6 DEF ClockOK
  <2>10. TmpIsOurs'
    BY <1>2, <2>4, <2>5, <2>9 DEF TmpIsOurs, AtStep
  <2>11. AllInStep'
    BY <1>2, <2>1, <2>3, Frame DEF Write, LInv, AllInStep, Only
  <2> QED
    BY <2>1, <2>3, <2>7, <2>8, <2>10, <2>11 DEF FileIsWhole, Readable
<1> QED
  BY <1>4, <1>5, <1>6 DEF LInv, DiskOK, AllInStep

(* The rename may move the descriptor of another window, and replaces the  *)
(* file under all of them.                                                 *)
LEMMA Renamed ==
  ASSUME LInv, NEW w \in Windows, Rename(w)
  PROVE  /\ ext' \in [Windows -> Exts]
         /\ \A v \in Windows : /\ ext'[v].up = ext[v].up /\ ext'[v].seen = ext[v].seen
                               /\ ext'[v].skip = ext[v].skip
         /\ \A v \in Windows \ {w} : ext'[v].job = ext[v].job
         /\ ext'[w].job = After(ext[w].job)
<1> DEFINE e(v) == IF tmp = Absent THEN ext[v] ELSE [ext[v] EXCEPT !.fd = Moved(@)]
           j == After(ext[w].job)
           next(v) == IF v = w THEN [e(v) EXCEPT !.job = After(@)] ELSE e(v)
<1>1. ext' = [v \in Windows |-> next(v)]
  BY DEF Rename
<1>2. ext[w].job \in Jobs /\ j \in Jobs \cup {Absent}
  BY WriterType, AfterType DEF Rename, Writing, LInv
<1>3. ASSUME NEW v \in Windows
      PROVE  /\ e(v) \in Exts /\ e(v).up = ext[v].up /\ e(v).seen = ext[v].seen
             /\ e(v).skip = ext[v].skip /\ e(v).job = ext[v].job
  <2>1. ext[v] \in Exts
    BY DEF LInv, TypeOK
  <2>2. Moved(ext[v].fd) \in Descriptors
    BY <2>1 DEF Moved, Exts, Descriptors
  <2> QED
    BY <2>1, <2>2 DEF Exts
<1> HIDE DEF e, j
<1>4. ASSUME NEW v \in Windows, v # w PROVE next(v) = e(v)
  BY <1>4
<1>5. next(w) = [e(w) EXCEPT !.job = j]
  BY <1>3 DEF j
<1>6. [e(w) EXCEPT !.job = j] \in Exts
  BY <1>2, <1>3 DEF Exts
<1>7. [e(w) EXCEPT !.job = j].job = j /\ [e(w) EXCEPT !.job = j].up = e(w).up
      /\ [e(w) EXCEPT !.job = j].seen = e(w).seen /\ [e(w) EXCEPT !.job = j].skip = e(w).skip
  BY <1>3 DEF Exts
<1> HIDE DEF next
<1>8. \A v \in Windows : ext'[v] = next(v)
  BY <1>1
<1>9. ext' \in [Windows -> Exts]
  BY <1>1, <1>3, <1>4, <1>5, <1>6
<1>10. ASSUME NEW v \in Windows, v # w
       PROVE  /\ ext'[v].up = ext[v].up /\ ext'[v].seen = ext[v].seen
              /\ ext'[v].skip = ext[v].skip /\ ext'[v].job = ext[v].job
  BY <1>3, <1>4, <1>8, <1>10
<1>11. /\ ext'[w].up = ext[w].up /\ ext'[w].seen = ext[w].seen
       /\ ext'[w].skip = ext[w].skip /\ ext'[w].job = j
  BY <1>3, <1>5, <1>7, <1>8
<1> QED
  BY <1>9, <1>10, <1>11 DEF j

LEMMA RenameStep == ASSUME LInv, NEW w \in Windows, Rename(w) PROVE LInv'
<1> DEFINE j == ext[w].job
<1>1. /\ TypeOK /\ WatcherRuns /\ Writing(w) /\ AtStep(w, "rename")
      /\ UNCHANGED <<clock, view, mail, post, behind, clash>>
  BY DEF Rename, Writing, LInv
<1>2. j \in Jobs /\ j # Absent /\ ext[w].up /\ Watched(w) /\ j.step = "rename"
  BY <1>1, WriterType DEF WatcherRuns, AtStep
<1>3. /\ After(j) \in Jobs \cup {Absent}
      /\ j.for = "save" => After(j) = Absent
      /\ j.for # "save" => /\ After(j) # Absent /\ After(j).for = j.for
                          /\ After(j).step = "show" /\ After(j).layout = j.layout
  BY <1>2, AfterType
<1>4. /\ ext' \in [Windows -> Exts] /\ ext'[w].job = After(j)
      /\ \A v \in Windows : /\ ext'[v].up = ext[v].up /\ ext'[v].seen = ext[v].seen
                            /\ ext'[v].skip = ext[v].skip
      /\ \A v \in Windows \ {w} : ext'[v].job = ext[v].job
  BY Renamed
<1>5. TypeOK'
  <2>1. file' \in Files \cup {Absent} /\ tmp' \in Files \cup {Absent}
    BY <1>1 DEF Rename, TypeOK
  <2> QED
    BY <1>1, <1>4, <2>1 DEF TypeOK
<1>6. ~Writing(w)' /\ \A v \in Windows \ {w} : Writing(v)' <=> Writing(v)
  BY <1>3, <1>4 DEF Writing, AtStep
<1>7. WatcherRuns'
  <2>1. Watched(w)'
    <3>1. ext[w].seen = Absent => j.for = "load"
      BY <1>2 DEF Watched
    <3> QED
      BY <1>2, <1>3, <1>4, <3>1 DEF Watched, AtStep
  <2>2. ASSUME NEW v \in Windows \ {w} PROVE Watched(v)'
    BY <1>1, <1>4 DEF WatcherRuns, Watched, AtStep
  <2> QED
    BY <2>1, <2>2 DEF WatcherRuns
<1>8. ASSUME ~clash'
      PROVE  AllInStep' /\ (OneWriter /\ TmpIsOurs /\ ClockOK /\ FileIsWhole)'
  <2>1. ~clash /\ OneWriter /\ TmpIsOurs /\ ClockOK /\ FileIsWhole
    BY <1>1, <1>8 DEF LInv, DiskOK
  <2>2. /\ tmp # Absent /\ file' = tmp /\ file'.content = j.layout /\ file'.by = w
        /\ Mtime < file'.mtime
    BY <1>1, <2>1 DEF TmpIsOurs, Rename
  <2>3. Mtime \in Nat /\ Mtime' \in Nat /\ Mtime' = file'.mtime /\ Mtime < Mtime'
    BY <1>1, <2>2 DEF Mtime, TypeOK, Files
  <2>4. \A v \in Windows : ~Writing(v)'
    BY <1>1, <1>6, <2>1 DEF OneWriter
  <2>5. OneWriter' /\ TmpIsOurs'
    BY <2>4 DEF OneWriter, TmpIsOurs, Writing
  <2>6. j.layout \in Readables /\ FileIsWhole'
    BY <1>2, <2>2, NoneIsNothing DEF Jobs, FileIsWhole, Readable
  <2>7. \A v \in Windows : ext'[v].seen # Absent =>
           ext'[v].seen \in Nat /\ ext'[v].seen <= Mtime /\ ext'[v].seen < Mtime'
    <3>1. ASSUME NEW v \in Windows, ext'[v].seen # Absent
          PROVE  ext'[v].seen \in Nat /\ ext'[v].seen <= Mtime
      BY <1>1, <1>4, <2>1, <3>1 DEF ClockOK, TypeOK, Exts
    <3> QED
      BY <2>3, <3>1
  <2>8. InStep(w) => InStep(w)'
    <3>1. ~AtStep(w, "watch")' /\ Busy(w)
      BY <1>1, <1>3, <1>4 DEF Busy, AtStep
    <3>2. CASE j.for # "save"
      <4>1. AtStep(w, "show")' /\ ToBeShown(w)' /\ ext'[w].job.layout = j.layout
        BY <1>3, <1>4, <3>2 DEF AtStep, ToBeShown
      <4> QED
        BY <2>2, <3>1, <4>1 DEF InStep, Settled, Saving, Loading, Agrees
    <3>3. CASE j.for = "save"
      <4>1. ext'[w].job = Absent /\ ~AtStep(w, "show")' /\ (ToBeShown(w)' <=> mail[w] # << >>)
        BY <1>1, <1>3, <1>4, <3>3 DEF AtStep, ToBeShown
      <4>2. ToBeShown(w) <=> mail[w] # << >>
        BY <3>3 DEF ToBeShown
      <4>3. Busy(w)' <=> view[w].pending # Absent \/ post[w] # << >>
        BY <1>1, <4>1 DEF Busy, Writing, AtStep
      <4>4. ASSUME Saving(w), mail[w] = << >> PROVE view[w].shown = LastWord(w)
        BY <3>1, <4>2, <4>4 DEF Saving
      <4>5. Saving(w) => Saving(w)'
        BY <1>1, <4>1, <4>3, <4>4 DEF Saving, LastWord
      <4>6. Saving(w) => Settled(w)'
        BY <1>1, <2>2, <4>1, <4>3, <4>4 DEF Settled, Agrees, LastWord
      <4> QED
        BY <3>1, <4>5, <4>6 DEF InStep, Loading
    <3> QED
      BY <3>2, <3>3
  <2>9. ASSUME NEW v \in Windows \ {w}, InStep(v) PROVE InStep(v)'
    <3>1. ext'[v].seen # Absent => ~Current(v)'
      BY <2>2, <2>3, <2>7 DEF Current
    <3>2. Saving(v)' /\ Loading(v)'
      BY <1>1, <1>4, <2>9 DEF InStep, Saving, Loading, Busy, Writing, ToBeShown, LastWord, AtStep
    <3> QED
      BY <3>1, <3>2 DEF InStep, Settled
  <2>10. AllInStep'
    BY <1>1, <1>4, <2>1, <2>8, <2>9 DEF LInv, AllInStep
  <2>11. ClockOK'
    <3>1. tmp.mtime <= clock /\ tmp' = Absent
      BY <2>1, <2>2 DEF ClockOK, Rename
    <3> QED
      BY <1>1, <2>2, <2>3, <2>7, <3>1 DEF ClockOK
  <2> QED
    BY <2>5, <2>6, <2>10, <2>11
<1> QED
  BY <1>5, <1>7, <1>8 DEF LInv, DiskOK, AllInStep

-----------------------------------------------------------------------------
LEMMA StutterStep == ASSUME LInv, UNCHANGED vars PROVE LInv'
BY DEF LInv, vars, disk, bounds, TypeOK, DiskOK, OneWriter, TmpIsOurs, ClockOK, FileIsWhole, Readable,
       WatcherRuns, Watched, AllInStep, InStep, Settled, Saving, Loading, Busy, Current, Agrees,
       LastWord, ToBeShown, Writing, AtStep, Mtime

LEMMA NextLInv == LInv /\ [Next]_vars => LInv'
<1> SUFFICES ASSUME LInv, [Next]_vars PROVE LInv'
  OBVIOUS
<1>1. CASE UNCHANGED vars
  BY <1>1, StutterStep
<1>2. ASSUME NEW w \in Windows,
             \/ Ready(w) \/ (w \in Editors /\ UserEdits(w))
             \/ SaveFires(w) \/ SaveLayout(w) \/ Advance(w)
             \/ Fail(w) \/ Crash(w) \/ Check(w) \/ LayoutLoaded(w)
      PROVE  LInv'
  <2>1. UserEdits(w) => LInv'
    BY EditStep, ImportLayoutStep, SaveStep DEF UserEdits
  <2>2. Advance(w) => LInv'
    BY ShowLoadedStep, WatchStep, TruncateStep, WriteStep, RenameStep DEF Advance
  <2> QED
    BY <1>2, <2>1, <2>2, ReadyStep, SaveFiresStep, SaveLayoutStep, FailStep, CrashStep,
       CheckStep, LayoutLoadedStep
<1> QED
  BY <1>1, <1>2 DEF Next

-----------------------------------------------------------------------------
LEMMA LayoutInvariant == Spec => []LInv
BY InitLInv, NextLInv, PTL DEF Spec

(* Whatever windows are opened, edited in, saved, imported to, stopped and *)
(* opened again, the states are those the model speaks of.                 *)
THEOREM LayoutTypes == Spec => []TypeOK
BY LayoutInvariant, PTL DEF LInv

(* The layout file holds a layout at every moment, wherever a write stopped*)
(* or a window ended, as long as no two windows wrote at once: a write goes*)
(* to the temporary file and is renamed when it is complete                *)
(* (layoutPersistence.ts:34-49).                                           *)
THEOREM LayoutIsWhole == Spec => []FileIsWhole
<1>1. LInv => FileIsWhole
  BY DEF LInv, DiskOK, FileIsWhole
<1> QED
  BY <1>1, LayoutInvariant, PTL

(* A window with nothing under way shows the layout of the file, unless it *)
(* is one that lost a save or a change: the own write is the only one that *)
(* markOwnWrite makes the watcher pass over (layoutPersistence.ts:104-166).*)
THEOREM WindowsShowTheFile == Spec => []NobodyMissesChanges
<1>1. ASSUME LInv, NEW w \in Windows, AtRest(w), ~clash, w \notin behind
      PROVE  ShowsFile(w)
  <2>1. /\ ext[w].up /\ ext[w].job = Absent /\ mail[w] = << >> /\ post[w] = << >>
        /\ view[w].pending = Absent /\ ~Due(w)
    BY <1>1 DEF AtRest
  <2>2. ext[w].seen # Absent /\ ext[w].seen \in Nat /\ Mtime \in Nat
    <3>1. ext[w].seen # Absent
      BY <1>1, <2>1 DEF LInv, WatcherRuns, Watched
    <3> QED
      BY <1>1, <3>1 DEF LInv, TypeOK, Exts, Mtime, Files
  <2>3. Current(w)
    BY <2>1, <2>2 DEF Due, Idle, Current
  <2>4. ~Busy(w) /\ ~AtStep(w, "show")
    BY <2>1 DEF Busy, Writing, AtStep
  <2>5. Settled(w)
    BY <1>1, <2>1 DEF LInv, AllInStep, InStep
  <2> QED
    BY <2>1, <2>2, <2>3, <2>4, <2>5 DEF Settled, Agrees, ShowsFile
<1>2. LInv => NobodyMissesChanges
  BY <1>1 DEF NobodyMissesChanges
<1> QED
  BY <1>2, LayoutInvariant, PTL

-------------------------------------------------------------------------------
(***************************************************************************)
(* The editor.                                                             *)
(***************************************************************************)
(* Where the solid tiles of an item lie, seen from the item.               *)
SolidOffsets(type) ==
  LET e == Catalog[type] IN
  {<<(k - 1) % e.w, e.bg + ((k - 1) \div e.w)>> : k \in 1 .. e.w * (IF e.h > e.bg THEN e.h - e.bg ELSE 0)}
Translated(t, by) == <<t[1] + by[1], t[2] + by[2]>>

(* The solid tiles of an item are those of its type, moved to where it     *)
(* stands.                                                                 *)
LEMMA SolidShape ==
  ASSUME NEW i, i.type \in DOMAIN Catalog, i.at \in Int \X Int
  PROVE  /\ SolidOffsets(i.type) \subseteq Nat \X Nat
         /\ SolidTiles(i) = {Translated(i.at, o) : o \in SolidOffsets(i.type)}
<1> DEFINE e == Catalog[i.type]
           N == e.w * (IF e.h > e.bg THEN e.h - e.bg ELSE 0)
           across(k) == (k - 1) % e.w
           down(k) == (k - 1) \div e.w
<1>1. e.w \in Nat \ {0} /\ e.h \in Nat \ {0} /\ e.bg \in Nat
  BY CatalogAssumption
<1>2. N \in Nat
  <2>1. \A a, b \in Nat : a * b \in Nat
    OBVIOUS
  <2> QED
    BY <1>1, <2>1
<1>3. SolidOffsets(i.type) = {<<across(k), e.bg + down(k)>> : k \in 1 .. N}
  BY DEF SolidOffsets
<1>4. FootprintSeq(i, e.bg) = [k \in 1 .. N |-> <<i.at[1] + across(k), i.at[2] + e.bg + down(k)>>]
  BY DEF FootprintSeq
<1> HIDE DEF N
<1>5. \A k \in 1 .. N : across(k) \in Nat /\ down(k) \in Nat
  <2> SUFFICES ASSUME NEW k \in 1 .. N PROVE across(k) \in Nat /\ down(k) \in Nat
    OBVIOUS
  <2>1. k - 1 \in Nat
    BY <1>2
  <2> QED
    BY <1>1, <2>1
<1> HIDE DEF across, down, e
<1>6. SolidOffsets(i.type) \subseteq Nat \X Nat
  BY <1>1, <1>3, <1>5
<1>7. SolidTiles(i) = {<<i.at[1] + across(k), i.at[2] + e.bg + down(k)>> : k \in 1 .. N}
  BY <1>4 DEF SolidTiles, Range, e
<1>8. i.at[1] \in Int /\ i.at[2] \in Int
  OBVIOUS
<1>9. \A k \in 1 .. N : Translated(i.at, <<across(k), e.bg + down(k)>>)
                        = <<i.at[1] + across(k), i.at[2] + e.bg + down(k)>>
  BY <1>1, <1>5, <1>8 DEF Translated
<1> DEFINE off(k) == <<across(k), e.bg + down(k)>>
           spot(k) == <<i.at[1] + across(k), i.at[2] + e.bg + down(k)>>
<1>10. SolidOffsets(i.type) = {off(k) : k \in 1 .. N} /\ SolidTiles(i) = {spot(k) : k \in 1 .. N}
  BY <1>3, <1>7
<1>11. \A k \in 1 .. N : Translated(i.at, off(k)) = spot(k)
  BY <1>9
<1> HIDE DEF off, spot
<1> QED
  BY <1>6, <1>10, <1>11

(* Where an item stands decides which tiles it takes.                      *)
LEMMA SolidMoves ==
  ASSUME NEW i, i.type \in DOMAIN Catalog, i.at \in Int \X Int,
         NEW by \in Int \X Int, NEW j, j.type = i.type, j.at = Translated(i.at, by)
  PROVE  /\ SolidTiles(j) = {Translated(t, by) : t \in SolidTiles(i)}
         /\ SolidTiles(i) \subseteq Int \X Int
         /\ \A t \in SolidTiles(i) : t[2] >= i.at[2]
<1>1. j.at \in Int \X Int
  BY DEF Translated
<1>2. /\ SolidOffsets(i.type) \subseteq Nat \X Nat
      /\ SolidTiles(i) = {Translated(i.at, o) : o \in SolidOffsets(i.type)}
      /\ SolidTiles(j) = {Translated(j.at, o) : o \in SolidOffsets(i.type)}
  BY <1>1, SolidShape
<1>3. \A o \in SolidOffsets(i.type) :
        /\ Translated(j.at, o) = Translated(Translated(i.at, o), by)
        /\ Translated(i.at, o) \in Int \X Int /\ Translated(i.at, o)[2] >= i.at[2]
  BY <1>2 DEF Translated
<1>4. SolidTiles(j) = {Translated(t, by) : t \in SolidTiles(i)}
  BY <1>2, <1>3
<1> QED
  BY <1>2, <1>3, <1>4

(* Soundness of layouts.                                                   *)
LEMMA SoundLonger ==
  ASSUME NEW l, NEW free, NEW given \in Nat, Sound(l, free, given),
         NEW free2, free \subseteq free2, NEW given2 \in Nat, given <= given2
  PROVE  Sound(l, free2, given2)
<1>1. Apart(l, free2)
  BY DEF Sound, Apart
<1> QED
  BY <1>1 DEF Sound

(* The items of a layout decide whether it is sound.                       *)
LEMMA SoundItems ==
  ASSUME NEW l, NEW free, NEW given, Sound(l, free, given),
         NEW new, IsLayout(new), new.furniture = l.furniture
  PROVE  Sound(new, free, given)
  BY DEF Sound, Apart

(* A sequence over S is a function from its positions into S.              *)
LEMMA ListShape ==
  ASSUME NEW S, NEW q \in Seq(S)
  PROVE  /\ Len(q) \in Nat /\ DOMAIN q = 1 .. Len(q) /\ q \in [1 .. Len(q) -> S]
         /\ \A n \in DOMAIN q : q[n] \in S
OBVIOUS

(* The furniture of a layout is a sequence of items.                       *)
LEMMA ItemFacts ==
  ASSUME NEW l, IsLayout(l)
  PROVE  /\ l.furniture \in Seq({i \in Range(l.furniture) : IsItem(i)})
         /\ Len(l.furniture) \in Nat /\ DOMAIN l.furniture = 1 .. Len(l.furniture)
         /\ \A n \in DOMAIN l.furniture : l.furniture[n] \in Range(l.furniture) /\ IsItem(l.furniture[n])
         /\ \A i \in Range(l.furniture) : IsItem(i) /\ \E n \in DOMAIN l.furniture : l.furniture[n] = i
         /\ Items(l.furniture) \subseteq Range(l.furniture)
<1>1. l.furniture \in Seq({i \in Range(l.furniture) : IsItem(i)})
  BY DEF IsLayout
<1>2. /\ \A n \in DOMAIN l.furniture : l.furniture[n] \in {i \in Range(l.furniture) : IsItem(i)}
      /\ Len(l.furniture) \in Nat /\ DOMAIN l.furniture = 1 .. Len(l.furniture)
  BY <1>1, ListShape
<1>3. \A n \in DOMAIN l.furniture : l.furniture[n] \in Range(l.furniture) /\ IsItem(l.furniture[n])
  BY <1>2
<1>4. \A i \in Range(l.furniture) : \E n \in DOMAIN l.furniture : l.furniture[n] = i
  BY DEF Range
<1>5. Items(l.furniture) \subseteq Range(l.furniture)
  BY DEF Items
<1> QED
  BY <1>1, <1>2, <1>3, <1>4, <1>5

(* Painting changes the tiles and the colours alone.                       *)
LEMMA PaintSound ==
  ASSUME NEW l, NEW free, NEW given, Sound(l, free, given), NEW t, NEW kind, NEW color,
         NEW new \in paintTile(l, t, kind, color)
  PROVE  Sound(new, free, given)
<1>1. PICK s : new = [l EXCEPT !.tile[s] = kind, !.color[s] = Painted(kind, color)]
  BY DEF paintTile
<1>2. IsLayout(l)
  BY DEF Sound
<1>3. new.tile = [l.tile EXCEPT ![s] = kind] /\ new.color = [l.color EXCEPT ![s] = Painted(kind, color)]
  BY <1>1, <1>2 DEF IsLayout
<1>4. /\ new.cols = l.cols /\ new.rows = l.rows /\ new.furniture = l.furniture
      /\ new \in [cols : Nat, rows : Nat, tile : {new.tile}, color : {new.color}, furniture : {new.furniture}]
  BY <1>1, <1>2 DEF IsLayout
<1>5. Grid(new) = Grid(l)
  BY <1>4 DEF Grid
<1>6. new.tile \in [Grid(new) -> Range(new.tile)] /\ new.color \in [Grid(new) -> Range(new.color)]
  BY <1>2, <1>3, <1>5 DEF IsLayout, Range
<1>7. IsLayout(new)
  BY <1>2, <1>4, <1>6 DEF IsLayout
<1> QED
  BY <1>4, <1>7, SoundItems

(* Other colors move no item.                                              *)
LEMMA WallColorSound ==
  ASSUME NEW l, NEW free, NEW given, Sound(l, free, given), NEW colors, colors \in [Grid(l) -> Range(colors)],
         NEW new, new = [l EXCEPT !.color = colors]
  PROVE  Sound(new, free, given)
<1>2. IsLayout(l)
  BY DEF Sound
<1>4. /\ new.cols = l.cols /\ new.rows = l.rows /\ new.furniture = l.furniture
      /\ new.tile = l.tile /\ new.color = colors
      /\ new \in [cols : Nat, rows : Nat, tile : {new.tile}, color : {new.color}, furniture : {new.furniture}]
  BY <1>2 DEF IsLayout
<1>5. Grid(new) = Grid(l)
  BY <1>4 DEF Grid
<1>7. IsLayout(new)
  BY <1>2, <1>4, <1>5 DEF IsLayout
<1> QED
  BY <1>4, <1>7, SoundItems

(* A layout with another list of items.                                    *)
LEMMA Refurnished ==
  ASSUME NEW l, IsLayout(l), NEW items, items \in Seq({i \in Range(items) : IsItem(i)}),
         NEW new, new = [l EXCEPT !.furniture = items]
  PROVE  IsLayout(new) /\ new.furniture = items
<1>1. /\ new.tile = l.tile /\ new.color = l.color
      /\ new.cols = l.cols /\ new.rows = l.rows /\ new.furniture = items
      /\ new \in [cols : Nat, rows : Nat, tile : {new.tile}, color : {new.color}, furniture : {new.furniture}]
  BY DEF IsLayout
<1>2. Grid(new) = Grid(l)
  BY <1>1 DEF Grid
<1> QED
  BY <1>1, <1>2 DEF IsLayout

(* One field of the items of one uid is changed.                           *)
ItemChanged(i, uid, field, v) == IF i.uid = uid THEN [i EXCEPT ![field] = v] ELSE i

(* A change of one field of the items with a uid, item by item.            *)
ChangesItems(l, new, uid, field, v) ==
  /\ IsLayout(new)
  /\ new.furniture = [n \in DOMAIN l.furniture |-> ItemChanged(l.furniture[n], uid, field, v)]
  /\ \A i \in Range(new.furniture) :
       \E j \in Range(l.furniture) : i = ItemChanged(j, uid, field, v) /\ i.uid = j.uid

LEMMA ChangeFacts ==
  ASSUME NEW l, IsLayout(l), NEW uid, NEW field \in {"type", "at", "color"}, NEW v,
         field = "at" => v \in Int \X Int, NEW new, new = Change(l, uid, field, v)
  PROVE  ChangesItems(l, new, uid, field, v)
<1> DEFINE items == [n \in DOMAIN l.furniture |-> ItemChanged(l.furniture[n], uid, field, v)]
<1>1. new = [l EXCEPT !.furniture = items]
  BY DEF IsLayout, Change, ItemChanged
<1>2. \A i : IsItem(i) => IsItem(ItemChanged(i, uid, field, v)) /\ ItemChanged(i, uid, field, v).uid = i.uid
  BY DEF IsItem, ItemChanged
<1>3. PICK N \in Nat : DOMAIN l.furniture = 1 .. N
  <2>1. Len(l.furniture) \in Nat /\ DOMAIN l.furniture = 1 .. Len(l.furniture)
    BY ItemFacts
  <2> QED
    BY <2>1
<1>4. \A n \in 1 .. N : IsItem(items[n]) /\ items[n] \in Range(items) /\ items[n].uid = l.furniture[n].uid
  BY <1>2, <1>3, ItemFacts DEF Range
<1>5. items \in [1 .. N -> {i \in Range(items) : IsItem(i)}]
  BY <1>3, <1>4
<1>6. items \in Seq({i \in Range(items) : IsItem(i)})
  <2> HIDE DEF items
  <2> QED
    BY <1>5, SeqDef
<1>7. IsLayout(new) /\ new.furniture = items
  <2> HIDE DEF items
  <2> QED
    BY <1>1, <1>6, Refurnished
<1>8. ASSUME NEW i \in Range(items)
      PROVE  \E j \in Range(l.furniture) : i = ItemChanged(j, uid, field, v) /\ i.uid = j.uid
  <2>1. PICK n \in 1 .. N : i = items[n]
    BY <1>3 DEF Range
  <2>2. l.furniture[n] \in Range(l.furniture) /\ i = ItemChanged(l.furniture[n], uid, field, v)
    BY <1>3, <2>1 DEF Range
  <2> QED
    BY <1>4, <2>1, <2>2
<1> QED
  BY <1>7, <1>8 DEF ChangesItems

(* What may be placed meets other items as the rule allows it.             *)
LEMMA FitsByTheRule ==
  ASSUME NEW l, NEW free, NEW given, Sound(l, free, given), NEW item, item.at \in Int \X Int,
         NEW uid, canPlaceFurniture(l, item.type, item.at, uid)
  PROVE  /\ item.type \in DOMAIN Catalog
         /\ Catalog[item.type].walls \/ item.at[2] >= 0
         /\ \A j \in Items(l.furniture) :
              (j.uid # uid /\ SolidTiles(item) \cap SolidTiles(j) # {}) =>
                \/ j.uid \in free
                \/ Catalog[item.type].surfaces
                \/ Catalog[item.type].walls /\ Catalog[j.type].walls
<1> DEFINE solid == {t \in SolidTiles([uid |-> uid, type |-> item.type, at |-> item.at]) : t[2] >= 0}
           blocked == getPlacementBlockedTiles(l.furniture, uid)
<1>1. /\ item.type \in DOMAIN Catalog
      /\ Catalog[item.type].walls \/ item.at[2] >= 0
      /\ ~Catalog[item.type].surfaces => solid \cap blocked \subseteq {}
  BY DEF canPlaceFurniture
<1>2. SolidTiles([uid |-> uid, type |-> item.type, at |-> item.at]) = SolidTiles(item)
  BY DEF SolidTiles, FootprintSeq
<1>3. ASSUME NEW j \in Items(l.furniture), j.uid # uid, SolidTiles(item) \cap SolidTiles(j) # {},
             ~Catalog[item.type].surfaces, j.uid \notin free
      PROVE  Catalog[item.type].walls /\ Catalog[j.type].walls
  <2>1. PICK t \in SolidTiles(item) \cap SolidTiles(j) : TRUE
    BY <1>3
  <2>2. t \in blocked
    BY <1>3, <2>1 DEF getPlacementBlockedTiles
  <2>3. ~(t[2] >= 0)
    BY <1>1, <1>2, <1>3, <2>1, <2>2
  <2>4. IsItem(j) /\ j.type \in DOMAIN Catalog /\ j.at \in Int \X Int
    BY ItemFacts DEF Sound, Items, IsItem
  <2>5. Translated(item.at, <<0, 0>>) = item.at /\ Translated(j.at, <<0, 0>>) = j.at
    BY <2>4 DEF Translated
  <2>6. SolidTiles(item) \subseteq Int \X Int /\ t[2] >= item.at[2] /\ t[2] >= j.at[2]
    BY <1>1, <2>1, <2>4, <2>5, SolidMoves
  <2>7. t[2] \in Int /\ item.at[2] \in Int /\ j.at[2] \in Int
    BY <2>1, <2>4, <2>6
  <2>8. ~(item.at[2] >= 0) /\ ~(j.at[2] >= 0)
    BY <2>3, <2>6, <2>7
  <2> QED
    BY <1>1, <1>3, <2>8 DEF Sound
<1> HIDE DEF solid, blocked
<1> QED
  BY <1>1, <1>3

(* Nothing moves when an item is recolored.                                *)
LEMMA ColorSound ==
  ASSUME NEW l, NEW free, NEW given, Sound(l, free, given), NEW uid, NEW c
  PROVE  Sound(Change(l, uid, "color", c), free, given)
<1> DEFINE new == Change(l, uid, "color", c)
<1>1. IsLayout(l)
  BY DEF Sound
<1>2. /\ IsLayout(new)
      /\ new.furniture = [n \in DOMAIN l.furniture |-> ItemChanged(l.furniture[n], uid, "color", c)]
      /\ \A i \in Range(new.furniture) :
           \E j \in Range(l.furniture) : i = ItemChanged(j, uid, "color", c) /\ i.uid = j.uid
  <2>1. "color" \in {"type", "at", "color"} /\ ("color" = "at" => c \in Int \X Int)
    OBVIOUS
  <2>2. ChangesItems(l, new, uid, "color", c)
    BY <1>1, <2>1, ChangeFacts
  <2> QED
    BY <2>2 DEF ChangesItems
<1> HIDE DEF new
<1>3. \A i \in Range(new.furniture) :
        \E j \in Range(l.furniture) :
          i = ItemChanged(j, uid, "color", c) /\ i.uid = j.uid /\ i.type = j.type /\ i.at = j.at
  <2> SUFFICES ASSUME NEW j \in Range(l.furniture), NEW i, i = ItemChanged(j, uid, "color", c)
               PROVE  i.type = j.type /\ i.at = j.at
    BY <1>2
  <2> QED
    BY <1>1, ItemFacts DEF ItemChanged, IsItem
<1>4. \A n \in DOMAIN l.furniture : new.furniture[n].uid = l.furniture[n].uid
  BY <1>1, <1>2, ItemFacts DEF ItemChanged, IsItem
<1>5. \A i, j : i.type = j.type /\ i.at = j.at => SolidTiles(i) = SolidTiles(j)
  BY DEF SolidTiles, FootprintSeq
<1>6. Apart(new, free)
  <2> SUFFICES ASSUME NEW i \in Items(new.furniture), NEW j \in Items(new.furniture),
                      i # j, SolidTiles(i) \cap SolidTiles(j) # {}
               PROVE  \/ {i.uid, j.uid} \cap free # {}
                      \/ Catalog[i.type].surfaces \/ Catalog[j.type].surfaces
                      \/ Catalog[i.type].walls /\ Catalog[j.type].walls
    BY DEF Apart
  <2>1. i \in Range(new.furniture) /\ j \in Range(new.furniture)
        /\ i.type \in DOMAIN Catalog /\ j.type \in DOMAIN Catalog
    BY DEF Items
  <2>2. PICK i0 \in Range(l.furniture) :
          i = ItemChanged(i0, uid, "color", c) /\ i.uid = i0.uid /\ i.type = i0.type /\ i.at = i0.at
    BY <1>3, <2>1
  <2>3. PICK j0 \in Range(l.furniture) :
          j = ItemChanged(j0, uid, "color", c) /\ j.uid = j0.uid /\ j.type = j0.type /\ j.at = j0.at
    BY <1>3, <2>1
  <2>4. i0 # j0 /\ i0 \in Items(l.furniture) /\ j0 \in Items(l.furniture)
    BY <2>1, <2>2, <2>3 DEF Items
  <2>5. SolidTiles(i0) \cap SolidTiles(j0) # {}
    BY <1>5, <2>2, <2>3
  <2> QED
    BY <2>2, <2>3, <2>4, <2>5 DEF Sound, Apart
<1>7. /\ \A m, n \in DOMAIN new.furniture : new.furniture[m].uid = new.furniture[n].uid => m = n
      /\ \A i \in Range(new.furniture) : i.uid # None /\ (i.uid \in Nat => i.uid <= given)
  BY <1>2, <1>3, <1>4 DEF Sound
<1>8. ASSUME NEW i \in Items(new.furniture)
      PROVE  Catalog[i.type].walls \/ i.at[2] >= 0 \/ i.uid \in free
  BY <1>3 DEF Sound, Items
<1>9. Sound(new, free, given)
  BY <1>2, <1>6, <1>7, <1>8 DEF Sound
<1> QED
  BY <1>9 DEF new

(* The items of a layout of which those of one uid were changed.           *)
OneChanged(l, new, uid, field, v, given) ==
  /\ IsLayout(new)
  /\ \A i \in Range(new.furniture) :
       \/ i.uid # uid /\ i \in Range(l.furniture)
       \/ i.uid = uid /\ \E j \in Range(l.furniture) : j.uid = uid /\ i = ItemChanged(j, uid, field, v)
  /\ \A m, n \in DOMAIN new.furniture : new.furniture[m].uid = new.furniture[n].uid => m = n
  /\ \A i, j \in Range(new.furniture) : i.uid = j.uid => i = j
  /\ \A i \in Range(new.furniture) : i.uid # None /\ (i.uid \in Nat => i.uid <= given)

(* Items that are changed keep their uids, so still no two share one.      *)
LEMMA ChangedUids ==
  ASSUME NEW l, NEW free, NEW given, Sound(l, free, given), NEW uid,
         NEW field \in {"type", "at"}, NEW v, field = "at" => v \in Int \X Int,
         NEW new, new = Change(l, uid, field, v)
  PROVE  OneChanged(l, new, uid, field, v, given)
<1>1. IsLayout(l)
  BY DEF Sound
<1>2. /\ IsLayout(new)
      /\ new.furniture = [n \in DOMAIN l.furniture |-> ItemChanged(l.furniture[n], uid, field, v)]
      /\ \A i \in Range(new.furniture) :
           \E j \in Range(l.furniture) : i = ItemChanged(j, uid, field, v) /\ i.uid = j.uid
  <2>1. field \in {"type", "at", "color"} /\ (field = "at" => v \in Int \X Int)
    OBVIOUS
  <2>2. ChangesItems(l, new, uid, field, v)
    BY <1>1, <2>1, ChangeFacts
  <2> QED
    BY <2>2 DEF ChangesItems
<1>3. \A i \in Range(new.furniture) :
        \/ i.uid # uid /\ i \in Range(l.furniture)
        \/ i.uid = uid /\ \E j \in Range(l.furniture) : j.uid = uid /\ i = ItemChanged(j, uid, field, v)
  BY <1>2 DEF ItemChanged
<1>4. \A n \in DOMAIN l.furniture : new.furniture[n].uid = l.furniture[n].uid
  BY <1>1, <1>2, ItemFacts DEF ItemChanged, IsItem
<1>5. \A m, n \in DOMAIN new.furniture : new.furniture[m].uid = new.furniture[n].uid => m = n
  BY <1>2, <1>4 DEF Sound
<1>6. \A i, j \in Range(new.furniture) : i.uid = j.uid => i = j
  BY <1>5 DEF Range
<1>7. \A i \in Range(new.furniture) : i.uid # None /\ (i.uid \in Nat => i.uid <= given)
  BY <1>2 DEF Sound
<1> QED
  BY <1>2, <1>3, <1>5, <1>6, <1>7 DEF OneChanged

(* An item that is turned stays an item of its uid; it may overlap from    *)
(* then on.                                                                *)
LEMMA TypeSound ==
  ASSUME NEW l, NEW free, NEW given, Sound(l, free, given), NEW uid \in free, NEW type
  PROVE  Sound(Change(l, uid, "type", type), free, given)
<1> DEFINE new == Change(l, uid, "type", type)
<1>1. /\ IsLayout(new)
      /\ \A i \in Range(new.furniture) : i.uid = uid \/ i \in Range(l.furniture)
      /\ \A m, n \in DOMAIN new.furniture : new.furniture[m].uid = new.furniture[n].uid => m = n
      /\ \A i \in Range(new.furniture) : i.uid # None /\ (i.uid \in Nat => i.uid <= given)
  <2>1. "type" # "at" /\ "type" \in {"type", "at"}
    OBVIOUS
  <2> HIDE DEF new
  <2>2. new = Change(l, uid, "type", type)
    BY DEF new
  <2>3. OneChanged(l, new, uid, "type", type, given)
    BY <2>1, <2>2, ChangedUids
  <2> QED
    BY <2>3 DEF OneChanged
<1> HIDE DEF new
<1>2. \A i \in Items(new.furniture) : i.uid = uid \/ i \in Items(l.furniture)
  BY <1>1 DEF Items
<1>3. Apart(new, free)
  <2> SUFFICES ASSUME NEW i \in Items(new.furniture), NEW j \in Items(new.furniture),
                      i # j, SolidTiles(i) \cap SolidTiles(j) # {}, {i.uid, j.uid} \cap free = {}
               PROVE  \/ Catalog[i.type].surfaces \/ Catalog[j.type].surfaces
                      \/ Catalog[i.type].walls /\ Catalog[j.type].walls
    BY DEF Apart
  <2>1. i \in Items(l.furniture) /\ j \in Items(l.furniture)
    BY <1>2
  <2> QED
    BY <2>1 DEF Sound, Apart
<1>4. \A i \in Items(new.furniture) : Catalog[i.type].walls \/ i.at[2] >= 0 \/ i.uid \in free
  BY <1>2 DEF Sound
<1>5. Sound(new, free, given)
  BY <1>1, <1>3, <1>4 DEF Sound
<1> QED
  BY <1>5 DEF new

(* An item that is moved goes where it fits, so it overlaps no item but a  *)
(* surface.                                                                *)
LEMMA MoveSound ==
  ASSUME NEW l, NEW free, NEW given, Sound(l, free, given), NEW uid, NEW at \in Int \X Int,
         NEW new \in moveFurniture(l, uid, at)
  PROVE  Sound(new, free, given)
<1>1. PICK x \in Range(l.furniture) :
        x.uid = uid /\ canPlaceFurniture(l, x.type, at, uid) /\ new = Change(l, uid, "at", at)
  BY DEF moveFurniture, ItemsWith
<1> DEFINE moved == [x EXCEPT !.at = at]
<1>2. /\ IsLayout(new)
      /\ \A i \in Range(new.furniture) :
           \/ i.uid # uid /\ i \in Range(l.furniture)
           \/ i.uid = uid /\ \E j \in Range(l.furniture) : j.uid = uid /\ i = ItemChanged(j, uid, "at", at)
      /\ \A m, n \in DOMAIN new.furniture : new.furniture[m].uid = new.furniture[n].uid => m = n
      /\ \A i, j \in Range(new.furniture) : i.uid = j.uid => i = j
      /\ \A i \in Range(new.furniture) : i.uid # None /\ (i.uid \in Nat => i.uid <= given)
  <2>1. at \in Int \X Int /\ "at" \in {"type", "at"}
    OBVIOUS
  <2>2. OneChanged(l, new, uid, "at", at, given)
    BY <1>1, <2>1, ChangedUids
  <2> QED
    BY <2>2 DEF OneChanged
<1>3. \A j \in Range(l.furniture) : j.uid = uid => j = x
  BY <1>1 DEF Sound, Range
<1>4. moved.type = x.type /\ moved.at = at /\ moved.uid = uid
  BY <1>1, ItemFacts DEF Sound, IsItem
<1>5. \A i \in Range(new.furniture) : i.uid = uid => i = moved
  BY <1>2, <1>3 DEF ItemChanged
<1> HIDE DEF moved
<1>6. /\ moved.type \in DOMAIN Catalog
      /\ Catalog[moved.type].walls \/ moved.at[2] >= 0
      /\ \A j \in Items(l.furniture) :
           (j.uid # uid /\ SolidTiles(moved) \cap SolidTiles(j) # {}) =>
             \/ j.uid \in free
             \/ Catalog[moved.type].surfaces
             \/ Catalog[moved.type].walls /\ Catalog[j.type].walls
  <2>1. canPlaceFurniture(l, moved.type, moved.at, uid) /\ moved.at \in Int \X Int
    BY <1>1, <1>4
  <2> QED
    BY <2>1, FitsByTheRule
<1>7. \A i \in Items(new.furniture) :
        (i.uid # uid /\ i \in Items(l.furniture)) \/ (i.uid = uid /\ i = moved)
  BY <1>2, <1>5 DEF Items
<1>8. Apart(new, free)
  <2> SUFFICES ASSUME NEW i \in Items(new.furniture), NEW j \in Items(new.furniture),
                      i # j, SolidTiles(i) \cap SolidTiles(j) # {}, {i.uid, j.uid} \cap free = {}
               PROVE  \/ Catalog[i.type].surfaces \/ Catalog[j.type].surfaces
                      \/ Catalog[i.type].walls /\ Catalog[j.type].walls
    BY DEF Apart
  <2>1. CASE i.uid # uid /\ j.uid # uid
    BY <1>7, <2>1 DEF Sound, Apart
  <2>2. CASE i.uid = uid
    <3>1. i = moved /\ j \in Items(l.furniture) /\ j.uid # uid
      BY <1>7, <2>2
    <3> QED
      BY <1>6, <3>1
  <2>3. CASE j.uid = uid
    <3>1. j = moved /\ i \in Items(l.furniture) /\ i.uid # uid
      BY <1>7, <2>3
    <3> QED
      BY <1>6, <3>1
  <2> QED
    BY <2>1, <2>2, <2>3
<1>9. \A i \in Items(new.furniture) : Catalog[i.type].walls \/ i.at[2] >= 0 \/ i.uid \in free
  BY <1>6, <1>7 DEF Sound
<1> QED
  BY <1>2, <1>8, <1>9 DEF Sound

(* Placing and removing.                                                   *)
LEMMA PlaceSound ==
  ASSUME NEW l, NEW free, NEW given \in Nat, Sound(l, free, given), NEW item,
         IsItem(item), item.uid = given + 1, NEW new \in placeFurniture(l, item)
  PROVE  Sound(new, free, given + 1)
<1> DEFINE items == Append(l.furniture, item)
<1>1. /\ canPlaceFurniture(l, item.type, item.at, None)
      /\ new = [l EXCEPT !.furniture = items] /\ IsLayout(l)
  BY DEF placeFurniture, Sound, IsLayout
<1> DEFINE N == Len(l.furniture)
<1>2. N \in Nat /\ DOMAIN l.furniture = 1 .. N
  BY <1>1, ItemFacts
<1>3. /\ items \in Seq({i \in Range(l.furniture) : IsItem(i)} \cup {item})
      /\ DOMAIN items = 1 .. N + 1 /\ items[N + 1] = item
      /\ \A n \in 1 .. N : items[n] = l.furniture[n]
  <2>1. l.furniture \in Seq({i \in Range(l.furniture) : IsItem(i)} \cup {item})
    <3>1. l.furniture \in Seq({i \in Range(l.furniture) : IsItem(i)})
      BY <1>1, ItemFacts
    <3> DEFINE S == {i \in Range(l.furniture) : IsItem(i)}
    <3> HIDE DEF S
    <3>2. l.furniture \in Seq(S) => l.furniture \in Seq(S \cup {item})
      OBVIOUS
    <3> QED
      BY <3>1, <3>2 DEF S
  <2> DEFINE S == {i \in Range(l.furniture) : IsItem(i)} \cup {item}
             q == l.furniture
  <2> HIDE DEF S, q
  <2>2. ASSUME q \in Seq(S), item \in S, Len(q) \in Nat
        PROVE  /\ Append(q, item) \in Seq(S) /\ DOMAIN Append(q, item) = 1 .. Len(q) + 1
               /\ Append(q, item)[Len(q) + 1] = item
               /\ \A n \in 1 .. Len(q) : Append(q, item)[n] = q[n]
    BY <2>2
  <2> QED
    BY <1>2, <2>1, <2>2 DEF S, q
<1> HIDE DEF items
<1>4. \A i \in Range(items) : i = item \/ i \in Range(l.furniture)
  BY <1>2, <1>3 DEF Range
<1>5. \A i \in Range(items) : IsItem(i)
  BY <1>1, <1>4, ItemFacts
<1>6. items \in Seq({i \in Range(items) : IsItem(i)})
  <2>1. \A n \in 1 .. N + 1 : items[n] \in Range(items)
    BY <1>3 DEF Range
  <2>2. items \in [1 .. N + 1 -> {i \in Range(items) : IsItem(i)}]
    <3>1. items = [n \in DOMAIN items |-> items[n]]
      BY <1>3, ListShape
    <3> QED
      BY <1>3, <1>5, <2>1, <3>1
  <2> QED
    BY <1>2, <2>2, SeqDef
<1>7. IsLayout(new) /\ new.furniture = items
  BY <1>1, <1>6, Refurnished
<1>8. \A j \in Range(l.furniture) : j.uid # item.uid /\ j.uid # None
  BY DEF Sound
<1>9. \A i \in Items(items) : i = item \/ i \in Items(l.furniture)
  BY <1>4 DEF Items
<1>10. /\ item.type \in DOMAIN Catalog
       /\ Catalog[item.type].walls \/ item.at[2] >= 0
       /\ \A j \in Items(l.furniture) :
            (j.uid # None /\ SolidTiles(item) \cap SolidTiles(j) # {}) =>
              \/ j.uid \in free
              \/ Catalog[item.type].surfaces
              \/ Catalog[item.type].walls /\ Catalog[j.type].walls
  <2>1. item.at \in Int \X Int
    BY DEF IsItem
  <2> QED
    BY <1>1, <2>1, FitsByTheRule
<1>11. Apart(new, free)
  <2> SUFFICES ASSUME NEW i \in Items(items), NEW j \in Items(items),
                      i # j, SolidTiles(i) \cap SolidTiles(j) # {}, {i.uid, j.uid} \cap free = {}
               PROVE  \/ Catalog[i.type].surfaces \/ Catalog[j.type].surfaces
                      \/ Catalog[i.type].walls /\ Catalog[j.type].walls
    BY <1>7 DEF Apart
  <2>1. CASE i # item /\ j # item
    BY <1>9, <2>1 DEF Sound, Apart
  <2>2. CASE i = item
    BY <1>8, <1>9, <1>10, <2>2 DEF Items
  <2>3. CASE j = item
    BY <1>8, <1>9, <1>10, <2>3 DEF Items
  <2> QED
    BY <2>1, <2>2, <2>3
<1>12. \A m, n \in DOMAIN items : items[m].uid = items[n].uid => m = n
  <2>1. \A n \in 1 .. N : items[n].uid # item.uid
    BY <1>2, <1>3, <1>8 DEF Range
  <2>2. \A m, n \in 1 .. N : items[m].uid = items[n].uid => m = n
    BY <1>2, <1>3 DEF Sound
  <2>3. ASSUME NEW m \in DOMAIN items, NEW n \in DOMAIN items, items[m].uid = items[n].uid
        PROVE  m = n
    <3>1. \A k \in DOMAIN items : k \in 1 .. N \/ k = N + 1
      BY <1>2, <1>3
    <3> QED
      BY <1>3, <2>1, <2>2, <2>3, <3>1
  <2> QED
    BY <2>3
<1>13. \A i \in Range(items) : i.uid # None /\ (i.uid \in Nat => i.uid <= given + 1)
  BY <1>4, NoneAssumption DEF Sound
<1>14. \A i \in Items(items) : Catalog[i.type].walls \/ i.at[2] >= 0 \/ i.uid \in free
  BY <1>9, <1>10 DEF Sound
<1> QED
  BY <1>7, <1>11, <1>12, <1>13, <1>14 DEF Sound

(* What is left when an item is removed overlaps no more than before.      *)
LEMMA RemoveSound ==
  ASSUME NEW l, NEW free, NEW given, Sound(l, free, given), NEW uid, NEW new \in removeFurniture(l, uid)
  PROVE  Sound(new, free, given)
<1> DEFINE items == OtherItems(l, uid)
           S == {i \in Range(l.furniture) : IsItem(i)}
           kept == {i \in Range(l.furniture) : i.uid # uid}
           f == l.furniture
<1>1. new = [l EXCEPT !.furniture = items] /\ IsLayout(l)
  BY DEF removeFurniture, Sound, IsLayout
<1>2. f \in Seq(S)
  BY <1>1, ItemFacts
<1>3. items = Among(f, kept)
  BY DEF OtherItems
<1> HIDE DEF items, S, kept
<1>4. \A m, n \in DOMAIN f : f[m].uid = f[n].uid => m = n
  BY DEF Sound
<1> HIDE DEF f
<1>5. /\ items \in Seq(S)
      /\ \A n \in DOMAIN items : \E m \in DOMAIN f : f[m] = items[n]
      /\ \A m, n \in DOMAIN items : items[m] = items[n] => m = n
  <2>1. \A m, n \in DOMAIN f : f[m] = f[n] => m = n
    BY <1>4
  <2> QED
    BY <1>2, <1>3, <2>1, AmongFacts
<1>6. \A m, n \in DOMAIN items : items[m].uid = items[n].uid => m = n
  BY <1>4, <1>5
<1>7. \A i \in Range(items) : i \in Range(l.furniture) /\ IsItem(i)
  <2>1. \A i \in Range(items) : \E n \in DOMAIN items : i = items[n]
    BY DEF Range
  <2>2. \A n \in DOMAIN items : items[n] \in S
    BY <1>5, ListShape
  <2> QED
    BY <2>1, <2>2 DEF S
<1>8. items \in Seq({i \in Range(items) : IsItem(i)})
  <2>1. Len(items) \in Nat /\ DOMAIN items = 1 .. Len(items) /\ items \in [1 .. Len(items) -> S]
    BY <1>5, ListShape
  <2>2. \A n \in 1 .. Len(items) : items[n] \in Range(items)
    BY <2>1 DEF Range
  <2>3. items \in [1 .. Len(items) -> {i \in Range(items) : IsItem(i)}]
    BY <1>7, <2>1, <2>2
  <2> QED
    BY <2>1, <2>3, SeqDef
<1>9. IsLayout(new) /\ new.furniture = items
  BY <1>1, <1>8, Refurnished
<1>10. Items(items) \subseteq Items(l.furniture)
  BY <1>7 DEF Items
<1>11. Apart(new, free)
  BY <1>9, <1>10 DEF Sound, Apart
<1> QED
  BY <1>6, <1>7, <1>9, <1>10, <1>11 DEF Sound

(* Growing: everything moves by the same shift, and what is new is void.   *)
Drawn(l) == {t \in Grid(l) : l.tile[t] # Void}
ShiftedItem(i, by) == [i EXCEPT !.at = Translated(@, by)]
Grew(l, new, by) ==
  /\ IsLayout(new)
  /\ new.cols >= l.cols /\ new.rows >= l.rows
  /\ new.cols > l.cols \/ new.rows > l.rows
  /\ Drawn(new) = {Translated(t, by) : t \in Drawn(l)}
  /\ \A t \in Drawn(l) : /\ new.tile[Translated(t, by)] = l.tile[t]
                         /\ new.color[Translated(t, by)] = l.color[t]
  /\ new.furniture = [n \in DOMAIN l.furniture |-> ShiftedItem(l.furniture[n], by)]

(* A layout moves by one column or one row, or not at all.                 *)
LEMMA ShiftType ==
  ASSUME NEW dir PROVE Shift(dir) \in (0 .. 1) \X (0 .. 1)
  BY DEF Shift

(* An item that moves with its layout is an item, of the same type and     *)
(* uid.                                                                    *)
LEMMA ShiftedFacts ==
  ASSUME NEW i, IsItem(i), NEW by \in Nat \X Nat
  PROVE  /\ IsItem(ShiftedItem(i, by)) /\ ShiftedItem(i, by).uid = i.uid
         /\ ShiftedItem(i, by).type = i.type /\ ShiftedItem(i, by).at = Translated(i.at, by)
<1>1. Translated(i.at, by) \in Int \X Int
  BY DEF Translated, IsItem
<1> QED
  BY <1>1 DEF ShiftedItem, IsItem

(* An expansion in one direction only grows the layout.                    *)
LEMMA ExpandFacts ==
  ASSUME NEW l, IsLayout(l), NEW dir \in {"left", "right", "up", "down"}, NEW new \in expandLayout(l, dir)
  PROVE  Grew(l, new, Shift(dir))
<1> DEFINE cols == l.cols + (IF dir \in {"left", "right"} THEN 1 ELSE 0)
           rows == l.rows + (IF dir \in {"up", "down"} THEN 1 ELSE 0)
           by == Shift(dir)
           Before(t) == <<t[1] - by[1], t[2] - by[2]>>
           room == (0 .. cols - 1) \X (0 .. rows - 1)
           tile == [t \in room |-> IF Before(t) \in Grid(l) THEN l.tile[Before(t)] ELSE Void]
           color == [t \in room |-> IF Before(t) \in Grid(l) THEN l.color[Before(t)] ELSE None]
           items == [n \in DOMAIN l.furniture |-> ShiftedItem(l.furniture[n], by)]
<1>1. new = [cols |-> cols, rows |-> rows, tile |-> tile, color |-> color, furniture |-> items]
  BY DEF expandLayout, ShiftedItem, Translated
<1>2. l.cols \in Nat /\ l.rows \in Nat
  BY DEF IsLayout
<1>3. by \in (0 .. 1) \X (0 .. 1)
  BY ShiftType
<1>4. /\ by[1] \in 0 .. 1 /\ by[2] \in 0 .. 1
      /\ cols = l.cols \/ cols = l.cols + 1
      /\ rows = l.rows \/ rows = l.rows + 1
      /\ cols > l.cols \/ rows > l.rows
      /\ by[1] = 1 => cols = l.cols + 1
      /\ by[2] = 1 => rows = l.rows + 1
  BY <1>2, <1>3 DEF Shift
<1> HIDE DEF cols, rows, by
<1>5. \A t \in Grid(l) : /\ Translated(t, by) \in room
                         /\ Before(Translated(t, by)) = t
  <2> SUFFICES ASSUME NEW t \in Grid(l)
               PROVE  Translated(t, by) \in room /\ Before(Translated(t, by)) = t
    OBVIOUS
  <2>1. t[1] \in 0 .. l.cols - 1 /\ t[2] \in 0 .. l.rows - 1 /\ t = <<t[1], t[2]>>
    BY DEF Grid
  <2>2. t[1] + by[1] \in 0 .. cols - 1 /\ t[2] + by[2] \in 0 .. rows - 1
    BY <1>2, <1>4, <2>1
  <2>3. (t[1] + by[1]) - by[1] = t[1] /\ (t[2] + by[2]) - by[2] = t[2]
    BY <1>2, <1>4, <2>1
  <2> QED
    BY <2>1, <2>2, <2>3 DEF Translated
<1>6. \A t \in room : t = Translated(Before(t), by)
  BY <1>2, <1>4 DEF Translated
<1>7. Grid(new) = room /\ new.cols \in Nat /\ new.rows \in Nat
  BY <1>1, <1>2, <1>4 DEF Grid
<1>8. new.tile = tile /\ new.color = color /\ new.furniture = items /\ new.cols = cols /\ new.rows = rows
  BY <1>1
<1> HIDE DEF room
<1>9. Drawn(new) = {Translated(t, by) : t \in Drawn(l)}
  <2>1. ASSUME NEW t \in Drawn(new) PROVE \E s \in Drawn(l) : t = Translated(s, by)
    <3>1. t \in room /\ tile[t] # Void
      BY <1>7, <1>8 DEF Drawn
    <3>2. Before(t) \in Grid(l) /\ l.tile[Before(t)] # Void
      BY <3>1
    <3> QED
      BY <1>6, <3>1, <3>2 DEF Drawn
  <2>2. ASSUME NEW s \in Drawn(l) PROVE Translated(s, by) \in Drawn(new)
    <3>1. s \in Grid(l) /\ l.tile[s] # Void
      BY DEF Drawn
    <3>2. Translated(s, by) \in room /\ tile[Translated(s, by)] = l.tile[s]
      BY <1>5, <3>1
    <3> QED
      BY <1>7, <1>8, <3>1, <3>2 DEF Drawn
  <2> QED
    BY <2>1, <2>2
<1>10. \A t \in Drawn(l) : /\ new.tile[Translated(t, by)] = l.tile[t]
                           /\ new.color[Translated(t, by)] = l.color[t]
  BY <1>5, <1>8 DEF Drawn
<1>11. IsLayout(new)
  <2>1. new \in [cols : Nat, rows : Nat, tile : {new.tile}, color : {new.color}, furniture : {new.furniture}]
    <3> HIDE DEF tile, color, items
    <3> QED
      BY <1>1, <1>7, <1>8
  <2>2. new.tile \in [Grid(new) -> Range(new.tile)] /\ new.color \in [Grid(new) -> Range(new.color)]
    BY <1>7, <1>8 DEF Range
  <2>3. items \in Seq({i \in Range(items) : IsItem(i)})
    <3>1. by \in Nat \X Nat
      BY <1>3
    <3>2. Len(l.furniture) \in Nat /\ DOMAIN l.furniture = 1 .. Len(l.furniture)
      BY ItemFacts
    <3>3. \A n \in DOMAIN items : IsItem(items[n]) /\ items[n] \in Range(items)
      BY <3>1, ItemFacts, ShiftedFacts DEF Range
    <3>4. items \in [1 .. Len(l.furniture) -> {i \in Range(items) : IsItem(i)}]
      BY <3>2, <3>3
    <3> HIDE DEF items
    <3> QED
      BY <3>2, <3>4, SeqDef
  <2> QED
    BY <1>7, <1>8, <2>1, <2>2, <2>3 DEF IsLayout
<1>12. new.cols >= l.cols /\ new.rows >= l.rows /\ (new.cols > l.cols \/ new.rows > l.rows)
  BY <1>2, <1>4, <1>8
<1> QED
  BY <1>8, <1>9, <1>10, <1>11, <1>12 DEF Grew, by

(* A layout that grew is sound: its items moved together, if at all.       *)
LEMMA GrownSound ==
  ASSUME NEW l, NEW free, NEW given, Sound(l, free, given), NEW by \in Nat \X Nat,
         NEW new, Grew(l, new, by)
  PROVE  Sound(new, free, given)
<1>1. IsLayout(l) /\ IsLayout(new) /\ by[1] \in Nat /\ by[2] \in Nat
  BY DEF Sound, Grew
<1>2. new.furniture = [n \in DOMAIN l.furniture |-> ShiftedItem(l.furniture[n], by)]
  BY DEF Grew
<1>3. \A i \in Range(l.furniture) :
        /\ IsItem(i)
        /\ IsItem(ShiftedItem(i, by)) /\ ShiftedItem(i, by).uid = i.uid
        /\ ShiftedItem(i, by).type = i.type /\ ShiftedItem(i, by).at = Translated(i.at, by)
  BY <1>1, ItemFacts, ShiftedFacts
<1>4. \A i \in Range(new.furniture) : \E j \in Range(l.furniture) : i = ShiftedItem(j, by)
  BY <1>2 DEF Range
<1>5. \A i \in Items(new.furniture) : \E j \in Items(l.furniture) : i = ShiftedItem(j, by)
  <2> SUFFICES ASSUME NEW i \in Items(new.furniture)
               PROVE  \E j \in Items(l.furniture) : i = ShiftedItem(j, by)
    OBVIOUS
  <2>1. i \in Range(new.furniture) /\ i.type \in DOMAIN Catalog
    BY DEF Items
  <2>2. PICK j \in Range(l.furniture) : i = ShiftedItem(j, by)
    BY <1>4, <2>1
  <2> QED
    BY <1>3, <2>1, <2>2 DEF Items
<1>6. \A i \in Items(l.furniture) : i \in Range(l.furniture) /\ i.type \in DOMAIN Catalog
  BY DEF Items
<1>7. ASSUME NEW i \in Items(l.furniture)
      PROVE  /\ SolidTiles(ShiftedItem(i, by)) = {Translated(t, by) : t \in SolidTiles(i)}
             /\ SolidTiles(i) \subseteq Int \X Int
  <2>1. i.at \in Int \X Int /\ i.type \in DOMAIN Catalog
    BY <1>3, <1>6 DEF IsItem
  <2>2. by \in Int \X Int
    OBVIOUS
  <2>3. ShiftedItem(i, by).type = i.type /\ ShiftedItem(i, by).at = Translated(i.at, by)
    BY <1>3, <1>6
  <2> QED
    BY <2>1, <2>2, <2>3, SolidMoves
<1>8. Apart(new, free)
  <2> SUFFICES ASSUME NEW i \in Items(new.furniture), NEW j \in Items(new.furniture),
                      i # j, SolidTiles(i) \cap SolidTiles(j) # {}
               PROVE  \/ {i.uid, j.uid} \cap free # {}
                      \/ Catalog[i.type].surfaces \/ Catalog[j.type].surfaces
                      \/ Catalog[i.type].walls /\ Catalog[j.type].walls
    BY DEF Apart
  <2>1. PICK i0 \in Items(l.furniture) : i = ShiftedItem(i0, by)
    BY <1>5
  <2>2. PICK j0 \in Items(l.furniture) : j = ShiftedItem(j0, by)
    BY <1>5
  <2>3. PICK t \in SolidTiles(i0), s \in SolidTiles(j0) : Translated(t, by) = Translated(s, by)
    BY <1>7, <2>1, <2>2
  <2>4. t \in Int \X Int /\ s \in Int \X Int
    BY <1>7
  <2>5. t = s
    BY <1>1, <2>3, <2>4 DEF Translated
  <2>6. SolidTiles(i0) \cap SolidTiles(j0) # {} /\ i0 # j0
    BY <2>1, <2>2, <2>5
  <2> QED
    BY <1>3, <1>6, <2>1, <2>2, <2>6 DEF Sound, Apart
<1>9. \A m, n \in DOMAIN new.furniture : new.furniture[m].uid = new.furniture[n].uid => m = n
  <2>1. \A n \in DOMAIN l.furniture : new.furniture[n].uid = l.furniture[n].uid
    BY <1>1, <1>2, <1>3, ItemFacts
  <2> QED
    BY <1>2, <2>1 DEF Sound
<1>10. \A i \in Range(new.furniture) : i.uid # None /\ (i.uid \in Nat => i.uid <= given)
  BY <1>3, <1>4 DEF Sound
<1>11. ASSUME NEW i \in Items(new.furniture)
       PROVE  Catalog[i.type].walls \/ i.at[2] >= 0 \/ i.uid \in free
  <2>1. PICK j \in Items(l.furniture) : i = ShiftedItem(j, by)
    BY <1>5
  <2>2. i.at = Translated(j.at, by) /\ i.uid = j.uid /\ i.type = j.type /\ j.at \in Int \X Int
    BY <1>3, <1>6, <2>1 DEF IsItem
  <2>3. j.at[2] >= 0 => i.at[2] >= 0
    BY <1>1, <2>2 DEF Translated
  <2> QED
    BY <2>2, <2>3 DEF Sound
<1> QED
  BY <1>1, <1>8, <1>9, <1>10, <1>11 DEF Sound

-----------------------------------------------------------------------------
(* What is left when the margins are taken away.                           *)
LEMMA LowestOf ==
  ASSUME NEW S, S \subseteq Int, S # {}, NEW b \in Int, \A x \in S : b <= x
  PROVE  \E m \in S : \A x \in S : m <= x
<1> DEFINE T == {x - b : x \in S}
<1>1. T \in SUBSET Nat /\ T # {}
  <2>1. \A x \in S : x \in Int /\ b <= x
    OBVIOUS
  <2>2. \A x \in S : x - b \in Nat
    BY <2>1
  <2> QED
    BY <2>2
<1>2. PICK n \in T : \A m \in T : n <= m
  BY <1>1, NatSetMin
<1>3. PICK m \in S : n = m - b
  BY <1>2
<1>4. \A x \in S : m - b <= x - b
  BY <1>2, <1>3
<1> QED
  BY <1>3, <1>4

(* Finitely many integers have a lower bound.                              *)
LEMMA ListBound ==
  ASSUME NEW q \in Seq(Int)
  PROVE  \E b \in Int : \A n \in DOMAIN q : b <= q[n]
<1>1. Len(q) \in Nat /\ DOMAIN q = 1 .. Len(q) /\ \A n \in DOMAIN q : q[n] \in Int
  BY ListShape
<1> DEFINE T == {k \in Nat : k <= Len(q) => \E b \in Int : \A n \in 1 .. k : b <= q[n]}
<1>2. 0 \in T
  OBVIOUS
<1>3. ASSUME NEW k \in Nat, k \in T PROVE k + 1 \in T
  <2> SUFFICES ASSUME k + 1 <= Len(q) PROVE \E b \in Int : \A n \in 1 .. k + 1 : b <= q[n]
    OBVIOUS
  <2>1. PICK b \in Int : \A n \in 1 .. k : b <= q[n]
    BY <1>1, <1>3
  <2>2. q[k + 1] \in Int
    BY <1>1
  <2>3. \A n \in 1 .. k + 1 : n \in 1 .. k \/ n = k + 1
    OBVIOUS
  <2>4. CASE b <= q[k + 1]
    <3>1. \A n \in 1 .. k + 1 : b <= q[n]
      BY <2>1, <2>3, <2>4
    <3> QED
      BY <3>1
  <2>5. CASE ~(b <= q[k + 1])
    <3>1. \A n \in 1 .. k : q[n] \in Int
      BY <1>1
    <3>2. \A n \in 1 .. k + 1 : q[k + 1] <= q[n]
      BY <2>1, <2>2, <2>3, <2>5, <3>1
    <3> QED
      BY <2>2, <3>2
  <2> QED
    BY <2>4, <2>5
<1>4. Len(q) \in T
  <2> HIDE DEF T
  <2> QED
    BY <1>1, <1>2, <1>3, NatSetInduction
<1>5. Len(q) <= Len(q)
  BY <1>1
<1> QED
  BY <1>1, <1>4, <1>5

Spots(l) == Drawn(l) \cup {i.at : i \in Range(l.furniture)}
Edge(S, axis) == CHOOSE c \in {t[axis] : t \in S} : \A t \in S : c <= t[axis]

(* The tiles that bound a trimmed layout have a lower bound on each axis.  *)
LEMMA SpotsBounded ==
  ASSUME NEW l, IsLayout(l), NEW axis \in {1, 2}
  PROVE  Spots(l) \subseteq Int \X Int /\ \E b \in Int : \A t \in Spots(l) : b <= t[axis]
<1> DEFINE q == [n \in DOMAIN l.furniture |-> l.furniture[n].at[axis]]
<1>1. \A i \in Range(l.furniture) : i.at \in Int \X Int
  BY ItemFacts DEF IsItem
<1>2. q \in Seq(Int)
  <2>1. Len(l.furniture) \in Nat /\ DOMAIN l.furniture = 1 .. Len(l.furniture)
        /\ \A n \in DOMAIN l.furniture : l.furniture[n] \in Range(l.furniture)
    BY ItemFacts
  <2>2. \A i \in Range(l.furniture) : i.at[axis] \in Int
    BY <1>1
  <2>3. q \in [1 .. Len(l.furniture) -> Int]
    BY <2>1, <2>2
  <2> HIDE DEF q
  <2> QED
    BY <2>1, <2>3, SeqDef
<1>3. PICK b \in Int : \A n \in DOMAIN q : b <= q[n]
  <2> HIDE DEF q
  <2> QED
    BY <1>2, ListBound
<1>4. \A i \in Range(l.furniture) : b <= i.at[axis]
  <2> SUFFICES ASSUME NEW i \in Range(l.furniture) PROVE b <= i.at[axis]
    OBVIOUS
  <2>1. PICK n \in DOMAIN l.furniture : i = l.furniture[n]
    BY DEF Range
  <2> QED
    BY <1>3, <2>1
<1>5. Grid(l) \subseteq Nat \X Nat
  BY DEF Grid, IsLayout
<1>6. \A t \in Drawn(l) : t \in Int \X Int /\ t[axis] \in Nat
  BY <1>5 DEF Drawn
<1>7. Spots(l) \subseteq Int \X Int
  BY <1>1, <1>6 DEF Spots
<1>8. CASE b <= 0
  <2>1. \A t \in Spots(l) : b <= t[axis]
    BY <1>4, <1>6, <1>8 DEF Spots
  <2> QED
    BY <1>7, <2>1
<1>9. CASE ~(b <= 0)
  <2>1. \A t \in Spots(l) : 0 <= t[axis]
    <3>1. \A i \in Range(l.furniture) : i.at[axis] \in Int
      BY <1>1
    <3>2. \A i \in Range(l.furniture) : 0 <= i.at[axis]
      BY <1>4, <1>9, <3>1
    <3> QED
      BY <1>6, <3>2 DEF Spots
  <2> QED
    BY <1>7, <2>1
<1> QED
  BY <1>8, <1>9

(* The edge is the least of the coordinates.                               *)
LEMMA EdgeFacts ==
  ASSUME NEW S, S \subseteq Int \X Int, S # {}, NEW axis \in {1, 2},
         \E b \in Int : \A t \in S : b <= t[axis]
  PROVE  Edge(S, axis) \in {t[axis] : t \in S} /\ \A t \in S : Edge(S, axis) <= t[axis]
<1> DEFINE T == {t[axis] : t \in S}
<1>1. PICK b \in Int : \A t \in S : b <= t[axis]
  OBVIOUS
<1>2. T \subseteq Int /\ T # {} /\ \A x \in T : b <= x
  BY <1>1
<1>3. PICK m \in T : \A x \in T : m <= x
  <2> HIDE DEF T
  <2> QED
    BY <1>2, LowestOf
<1>4. \A t \in S : m <= t[axis]
  BY <1>3
<1> QED
  BY <1>3, <1>4 DEF Edge

(* The edge moves with the tiles that it bounds.                           *)
LEMMA EdgeMoves ==
  ASSUME NEW S, S \subseteq Int \X Int, S # {}, NEW axis \in {1, 2}, NEW by \in Nat \X Nat,
         \E b \in Int : \A t \in S : b <= t[axis],
         NEW moved, moved = {Translated(t, by) : t \in S}
  PROVE  Edge(moved, axis) = Edge(S, axis) + by[axis] /\ Edge(S, axis) \in Int
<1>1. \A t \in S : /\ t[axis] \in Int /\ Translated(t, by) \in Int \X Int
                   /\ Translated(t, by)[axis] = t[axis] + by[axis]
  BY DEF Translated
<1>2. by[axis] \in Int
  OBVIOUS
<1>3. PICK b \in Int : \A t \in S : b <= t[axis]
  OBVIOUS
<1>4. b + by[axis] \in Int /\ \A t \in moved : b + by[axis] <= t[axis]
  BY <1>1, <1>2, <1>3
<1>5. moved \subseteq Int \X Int /\ moved # {}
  BY <1>1
<1>6. Edge(moved, axis) \in {t[axis] : t \in moved} /\ \A t \in moved : Edge(moved, axis) <= t[axis]
  BY <1>4, <1>5, EdgeFacts
<1>7. Edge(S, axis) \in {t[axis] : t \in S} /\ \A t \in S : Edge(S, axis) <= t[axis]
  BY EdgeFacts
<1>8. PICK t \in S : Edge(S, axis) = t[axis]
  BY <1>7
<1>9. PICK s \in S : Edge(moved, axis) = s[axis] + by[axis]
  BY <1>1, <1>6
<1>10. Edge(moved, axis) <= t[axis] + by[axis] /\ Edge(S, axis) <= s[axis]
  BY <1>1, <1>6, <1>7
<1> QED
  BY <1>1, <1>2, <1>8, <1>9, <1>10

DrawnFrom(l, col, row) == {<<t[1] - col, t[2] - row, l.tile[t], l.color[t]>> : t \in Drawn(l)}
ItemsFrom(l, col, row) ==
  [n \in DOMAIN l.furniture |-> [l.furniture[n] EXCEPT !.at = <<@[1] - col, @[2] - row>>]]

(* A layout that is trimmed, written out.                                  *)
LEMMA TrimIs ==
  ASSUME NEW l
  PROVE  Trim(l) = IF Spots(l) = {} THEN <<>>
                   ELSE <<DrawnFrom(l, Edge(Spots(l), 1), Edge(Spots(l), 2)),
                          ItemsFrom(l, Edge(Spots(l), 1), Edge(Spots(l), 2))>>
BY DEF Trim, Spots, Drawn, DrawnFrom, ItemsFrom, Edge

(* A layout that only grew is trimmed to what it was trimmed to before.    *)
LEMMA TrimMoves ==
  ASSUME NEW l, IsLayout(l), NEW by \in Nat \X Nat, NEW new, Grew(l, new, by)
  PROVE  Trim(l) = Trim(new)
<1>1. /\ new.furniture = [n \in DOMAIN l.furniture |-> ShiftedItem(l.furniture[n], by)]
      /\ Drawn(new) = {Translated(t, by) : t \in Drawn(l)} /\ IsLayout(new)
      /\ by[1] \in Int /\ by[2] \in Int
  BY DEF Grew
<1>2. \A i \in Range(l.furniture) :
        /\ IsItem(i) /\ i.at \in Int \X Int
        /\ IsItem(ShiftedItem(i, by)) /\ ShiftedItem(i, by).at = Translated(i.at, by)
  BY ItemFacts, ShiftedFacts DEF IsItem
<1>3. \A n \in DOMAIN l.furniture : l.furniture[n] \in Range(l.furniture)
  BY ItemFacts
<1>4. {i.at : i \in Range(new.furniture)} = {Translated(i.at, by) : i \in Range(l.furniture)}
  <2>1. ASSUME NEW i \in Range(new.furniture)
        PROVE  \E j \in Range(l.furniture) : i.at = Translated(j.at, by)
    <3>1. PICK n \in DOMAIN l.furniture : i = ShiftedItem(l.furniture[n], by)
      BY <1>1 DEF Range
    <3> QED
      BY <1>2, <1>3, <3>1
  <2>2. ASSUME NEW j \in Range(l.furniture)
        PROVE  \E i \in Range(new.furniture) : i.at = Translated(j.at, by)
    <3>1. PICK n \in DOMAIN l.furniture : j = l.furniture[n]
      BY DEF Range
    <3>2. ShiftedItem(j, by) \in Range(new.furniture)
      BY <1>1, <3>1 DEF Range
    <3> QED
      BY <1>2, <3>2
  <2> QED
    BY <2>1, <2>2
<1>5. Spots(new) = {Translated(t, by) : t \in Spots(l)}
  <2> DEFINE held == {i.at : i \in Range(l.furniture)}
  <2>1. Spots(l) = Drawn(l) \cup held /\ Spots(new) = Drawn(new) \cup {i.at : i \in Range(new.furniture)}
    BY DEF Spots
  <2>2. {Translated(i.at, by) : i \in Range(l.furniture)} = {Translated(t, by) : t \in held}
    OBVIOUS
  <2> HIDE DEF held
  <2> QED
    BY <1>1, <1>4, <2>1, <2>2
<1>6. CASE Spots(l) = {}
  <2>1. Spots(new) = {}
    BY <1>5, <1>6
  <2> QED
    BY <1>6, <2>1, TrimIs
<1>7. CASE Spots(l) # {}
  <2>1. /\ Edge(Spots(new), 1) = Edge(Spots(l), 1) + by[1] /\ Edge(Spots(l), 1) \in Int
        /\ Edge(Spots(new), 2) = Edge(Spots(l), 2) + by[2] /\ Edge(Spots(l), 2) \in Int
        /\ Spots(new) # {}
    <3>1. Spots(l) \subseteq Int \X Int
      BY SpotsBounded
    <3>2. \E b \in Int : \A t \in Spots(l) : b <= t[1]
      BY SpotsBounded
    <3>3. \E b \in Int : \A t \in Spots(l) : b <= t[2]
      BY SpotsBounded
    <3>4. Edge(Spots(new), 1) = Edge(Spots(l), 1) + by[1] /\ Edge(Spots(l), 1) \in Int
      BY <1>5, <1>7, <3>1, <3>2, EdgeMoves
    <3>5. Edge(Spots(new), 2) = Edge(Spots(l), 2) + by[2] /\ Edge(Spots(l), 2) \in Int
      BY <1>5, <1>7, <3>1, <3>3, EdgeMoves
    <3> QED
      BY <1>5, <1>7, <3>4, <3>5
  <2> DEFINE col == Edge(Spots(l), 1)
             row == Edge(Spots(l), 2)
  <2>2. col \in Int /\ row \in Int
    BY <2>1
  <2> HIDE DEF col, row
  <2>3. DrawnFrom(new, col + by[1], row + by[2]) = DrawnFrom(l, col, row)
    <3> DEFINE old(t) == <<t[1] - col, t[2] - row, l.tile[t], l.color[t]>>
               now(t) == <<t[1] - (col + by[1]), t[2] - (row + by[2]), new.tile[t], new.color[t]>>
    <3>1. \A t \in Drawn(l) : now(Translated(t, by)) = old(t)
      <4> SUFFICES ASSUME NEW t \in Drawn(l) PROVE now(Translated(t, by)) = old(t)
        OBVIOUS
      <4>1. t[1] \in Int /\ t[2] \in Int
        BY DEF Drawn, Grid
      <4>2. /\ Translated(t, by)[1] - (col + by[1]) = t[1] - col
            /\ Translated(t, by)[2] - (row + by[2]) = t[2] - row
        BY <1>1, <2>2, <4>1 DEF Translated
      <4>3. new.tile[Translated(t, by)] = l.tile[t] /\ new.color[Translated(t, by)] = l.color[t]
        BY DEF Grew
      <4> QED
        BY <4>2, <4>3
    <3>2. /\ DrawnFrom(l, col, row) = {old(t) : t \in Drawn(l)}
          /\ DrawnFrom(new, col + by[1], row + by[2]) = {now(t) : t \in Drawn(new)}
      BY DEF DrawnFrom
    <3> HIDE DEF old, now
    <3> QED
      BY <1>1, <3>1, <3>2
  <2>4. ItemsFrom(new, col + by[1], row + by[2]) = ItemsFrom(l, col, row)
    <3> DEFINE old(i) == [i EXCEPT !.at = <<@[1] - col, @[2] - row>>]
               now(i) == [i EXCEPT !.at = <<@[1] - (col + by[1]), @[2] - (row + by[2])>>]
    <3>1. \A i \in Range(l.furniture) : now(ShiftedItem(i, by)) = old(i)
      <4> SUFFICES ASSUME NEW i \in Range(l.furniture) PROVE now(ShiftedItem(i, by)) = old(i)
        OBVIOUS
      <4>1. IsItem(i) /\ i.at[1] \in Int /\ i.at[2] \in Int
        BY <1>2
      <4>2. ShiftedItem(i, by) = [i EXCEPT !.at = Translated(@, by)]
        BY DEF ShiftedItem
      <4>3. /\ Translated(i.at, by)[1] - (col + by[1]) = i.at[1] - col
            /\ Translated(i.at, by)[2] - (row + by[2]) = i.at[2] - row
        BY <1>1, <2>2, <4>1 DEF Translated
      <4>4. now(ShiftedItem(i, by))
            = [i EXCEPT !.at = <<Translated(i.at, by)[1] - (col + by[1]), Translated(i.at, by)[2] - (row + by[2])>>]
        BY <4>1, <4>2 DEF IsItem
      <4> QED
        BY <4>3, <4>4
    <3>2. /\ ItemsFrom(l, col, row) = [n \in DOMAIN l.furniture |-> old(l.furniture[n])]
          /\ ItemsFrom(new, col + by[1], row + by[2]) = [n \in DOMAIN new.furniture |-> now(new.furniture[n])]
      BY DEF ItemsFrom
    <3> HIDE DEF old, now
    <3>3. \A n \in DOMAIN l.furniture : now(new.furniture[n]) = old(l.furniture[n])
      BY <1>1, <1>3, <3>1
    <3>4. DOMAIN new.furniture = DOMAIN l.furniture
      BY <1>1
    <3> QED
      BY <3>2, <3>3, <3>4
  <2> QED
    BY <1>7, <2>1, <2>3, <2>4, TrimIs DEF col, row
<1> QED
  BY <1>6, <1>7

(* Every expansion in any direction is sound.                              *)
LEMMA ExpandSound ==
  ASSUME NEW l, NEW free, NEW given, Sound(l, free, given),
         NEW dir \in {"left", "right", "up", "down"}, NEW new \in expandLayout(l, dir)
  PROVE  /\ Sound(new, free, given) /\ Trim(l) = Trim(new)
         /\ new.cols >= l.cols /\ new.rows >= l.rows
         /\ new.cols > l.cols \/ new.rows > l.rows
<1>1. IsLayout(l)
  BY DEF Sound
<1>2. Grew(l, new, Shift(dir))
  BY <1>1, ExpandFacts
<1>3. Shift(dir) \in Nat \X Nat
  BY ShiftType
<1>4. Sound(new, free, given)
  BY <1>2, <1>3, GrownSound
<1>5. Trim(l) = Trim(new)
  BY <1>1, <1>2, <1>3, TrimMoves
<1> QED
  BY <1>2, <1>4, <1>5 DEF Grew

(* A click outside grows the layout by one or two steps.                   *)
Stepped(U, dir) ==
  UNION {{[layout |-> m, at |-> <<s.at[1] + Shift(dir)[1], s.at[2] + Shift(dir)[2]>>] :
            m \in expandLayout(s.layout, dir)} : s \in U}

(* A tile beyond the grid is so in one direction or in two.                *)
LEMMA OutsideShape ==
  ASSUME NEW l, l.cols \in Nat, l.rows \in Nat, NEW t \in Int \X Int
  PROVE  /\ Outside(l, t) \in Seq({"left", "right", "up", "down"})
         /\ Len(Outside(l, t)) \in 0 .. 2
<1> DEFINE a == IF t[1] < 0 THEN <<"left">> ELSE <<>>
           b == IF t[1] >= l.cols THEN <<"right">> ELSE <<>>
           c == IF t[2] < 0 THEN <<"up">> ELSE <<>>
           d == IF t[2] >= l.rows THEN <<"down">> ELSE <<>>
           S == {"left", "right", "up", "down"}
<1>1. t[1] \in Int /\ t[2] \in Int
  OBVIOUS
<1>2. a \in Seq(S) /\ b \in Seq(S) /\ c \in Seq(S) /\ d \in Seq(S)
  <2>1. \A way \in S : <<way>> \in Seq(S)
    <3> HIDE DEF S
    <3> QED
      OBVIOUS
  <2>2. <<>> \in Seq(S)
    <3> HIDE DEF S
    <3> QED
      OBVIOUS
  <2>3. "left" \in S /\ "right" \in S /\ "up" \in S /\ "down" \in S
    OBVIOUS
  <2> HIDE DEF S
  <2> QED
    BY <2>1, <2>2, <2>3
<1>3. Len(a) + Len(b) <= 1 /\ Len(c) + Len(d) <= 1
  BY <1>1
<1>4. Outside(l, t) = ((a \o b) \o c) \o d
  BY DEF Outside
<1> HIDE DEF a, b, c, d, S
<1>5. a \o b \in Seq(S) /\ Len(a \o b) = Len(a) + Len(b)
  BY <1>2
<1>6. (a \o b) \o c \in Seq(S) /\ Len((a \o b) \o c) = Len(a \o b) + Len(c)
  BY <1>2, <1>5
<1>7. ((a \o b) \o c) \o d \in Seq(S) /\ Len(((a \o b) \o c) \o d) = Len((a \o b) \o c) + Len(d)
  BY <1>2, <1>6
<1>8. Len(a) \in Nat /\ Len(b) \in Nat /\ Len(c) \in Nat /\ Len(d) \in Nat
  BY <1>2
<1> QED
  BY <1>3, <1>4, <1>5, <1>6, <1>7, <1>8 DEF S

(* The expansions that maybeExpand can make, one by one.                   *)
LEMMA MaybeExpandIs ==
  ASSUME NEW l, NEW t, NEW S, Outside(l, t) \in Seq(S), Len(Outside(l, t)) \in 0 .. 2
  PROVE  LET dirs == Outside(l, t)
             once == Stepped({[layout |-> l, at |-> t]}, dirs[1])
         IN  maybeExpand(l, t) = CASE Len(dirs) = 0 -> {}
                                   [] Len(dirs) = 1 -> once
                                   [] Len(dirs) = 2 -> Stepped(once, dirs[2])
<1> DEFINE dirs == Outside(l, t)
           zero == {[layout |-> l, at |-> t]}
           once == Stepped(zero, dirs[1])
           twice == Stepped(once, dirs[2])
           Rec(f) == f = [n \in 0 .. Len(dirs) |-> IF n = 0 THEN zero ELSE Stepped(f[n - 1], dirs[n])]
<1>1. maybeExpand(l, t) = IF dirs = <<>> THEN {} ELSE (CHOOSE f : Rec(f))[Len(dirs)]
  BY DEF maybeExpand, Stepped
<1>2. Len(dirs) \in 0 .. 2 /\ (dirs = <<>> <=> Len(dirs) = 0)
  OBVIOUS
<1> HIDE DEF dirs, zero
<1> DEFINE g == [n \in 0 .. Len(dirs) |-> IF n = 0 THEN zero ELSE IF n = 1 THEN once ELSE twice]
<1>3. Rec(g)
  <2>1. \A n \in 0 .. Len(dirs) : n = 0 \/ n = 1 \/ n = 2
    <3>1. \A N \in 0 .. 2 : \A n \in 0 .. N : n = 0 \/ n = 1 \/ n = 2
      OBVIOUS
    <3> QED
      BY <1>2, <3>1
  <2>2. \A n \in 0 .. Len(dirs) : g[n] = IF n = 0 THEN zero ELSE Stepped(g[n - 1], dirs[n])
    <3> SUFFICES ASSUME NEW n \in 0 .. Len(dirs)
                 PROVE  g[n] = IF n = 0 THEN zero ELSE Stepped(g[n - 1], dirs[n])
      OBVIOUS
    <3>1. CASE n = 0
      BY <3>1
    <3>2. CASE n = 1
      <4>1. g[0] = zero /\ g[1] = once
        BY <1>2, <3>2
      <4> QED
        BY <3>2, <4>1
    <3>3. CASE n = 2
      <4>1. g[1] = once /\ g[2] = twice
        BY <1>2, <3>3
      <4> QED
        BY <3>3, <4>1
    <3> QED
      BY <2>1, <3>1, <3>2, <3>3
  <2>3. g = [n \in 0 .. Len(dirs) |-> g[n]]
    OBVIOUS
  <2> HIDE DEF g
  <2> QED
    BY <2>2, <2>3
<1>4. Rec(CHOOSE f : Rec(f))
  <2> HIDE DEF Rec
  <2> QED
    BY <1>3
<1> DEFINE f == CHOOSE f : Rec(f)
<1>5. \A n \in 0 .. Len(dirs) : f[n] = IF n = 0 THEN zero ELSE Stepped(f[n - 1], dirs[n])
  <2>1. f = [n \in 0 .. Len(dirs) |-> IF n = 0 THEN zero ELSE Stepped(f[n - 1], dirs[n])]
    BY <1>4
  <2> HIDE DEF f
  <2> QED
    BY <2>1
<1>6. maybeExpand(l, t) = IF dirs = <<>> THEN {} ELSE f[Len(dirs)]
  BY <1>1
<1> HIDE DEF f
<1>7. CASE Len(dirs) = 0
  BY <1>2, <1>6, <1>7 DEF dirs
<1>8. CASE Len(dirs) = 1
  <2>1. f[0] = zero /\ f[1] = once
    BY <1>5, <1>8
  <2> QED
    BY <1>2, <1>6, <1>8, <2>1 DEF dirs, zero
<1>9. CASE Len(dirs) = 2
  <2>1. f[0] = zero /\ f[1] = once
    BY <1>5, <1>9
  <2>2. f[2] = twice
    BY <1>5, <1>9, <2>1
  <2> QED
    BY <1>2, <1>6, <1>9, <2>2 DEF dirs, zero
<1> QED
  BY <1>2, <1>7, <1>8, <1>9

(* Before something is painted a layout only grows margins.                *)
LEMMA MarginOnly ==
  ASSUME NEW l, NEW free, NEW given, Sound(l, free, given), NEW t \in Int \X Int,
         NEW g \in maybeExpand(l, t)
  PROVE  Sound(g.layout, free, given) /\ SameButMargins(l, g.layout)
<1> DEFINE dirs == Outside(l, t)
           D == {"left", "right", "up", "down"}
           zero == {[layout |-> l, at |-> t]}
           once == Stepped(zero, dirs[1])
           twice == Stepped(once, dirs[2])
           Kept(m) == Sound(m, free, given) /\ Trim(l) = Trim(m) /\ m.cols >= l.cols /\ m.rows >= l.rows
           More(m) == Kept(m) /\ (m.cols > l.cols \/ m.rows > l.rows)
<1>1. dirs \in Seq(D) /\ Len(dirs) \in 0 .. 2 /\ l.cols \in Nat /\ l.rows \in Nat
  BY OutsideShape DEF Sound, IsLayout
<1>2. maybeExpand(l, t) = CASE Len(dirs) = 0 -> {} [] Len(dirs) = 1 -> once [] Len(dirs) = 2 -> twice
  BY <1>1, MaybeExpandIs
<1> HIDE DEF dirs, D
<1>3. ASSUME NEW U, \A s \in U : Kept(s.layout), NEW dir \in D
      PROVE  \A s \in Stepped(U, dir) : More(s.layout)
  <2> SUFFICES ASSUME NEW s \in U, NEW m \in expandLayout(s.layout, dir) PROVE More(m)
    BY DEF Stepped
  <2>1. Sound(s.layout, free, given) /\ Trim(l) = Trim(s.layout)
        /\ s.layout.cols >= l.cols /\ s.layout.rows >= l.rows
    BY <1>3
  <2>2. /\ Sound(m, free, given) /\ Trim(s.layout) = Trim(m)
        /\ m.cols >= s.layout.cols /\ m.rows >= s.layout.rows
        /\ m.cols > s.layout.cols \/ m.rows > s.layout.rows
    BY <2>1, ExpandSound DEF D
  <2>3. /\ m.cols \in Nat /\ m.rows \in Nat
        /\ s.layout.cols \in Nat /\ s.layout.rows \in Nat
    BY <2>1, <2>2 DEF Sound, IsLayout
  <2> QED
    BY <1>1, <2>1, <2>2, <2>3
<1>4. \A s \in zero : Kept(s.layout)
  BY <1>1
<1> HIDE DEF Kept
<1>5. CASE Len(dirs) = 0
  BY <1>2, <1>5
<1>6. CASE Len(dirs) = 1
  <2>1. dirs[1] \in D
    BY <1>1, <1>6, ListShape
  <2>2. \A s \in once : More(s.layout)
    BY <1>3, <1>4, <2>1
  <2> HIDE DEF once, twice
  <2>3. g \in once
    BY <1>2, <1>6
  <2>4. More(g.layout)
    BY <2>2, <2>3
  <2> QED
    BY <2>4 DEF SameButMargins, Kept
<1>7. CASE Len(dirs) = 2
  <2>1. dirs[1] \in D /\ dirs[2] \in D
    BY <1>1, <1>7, ListShape
  <2>2. \A s \in once : Kept(s.layout)
    BY <1>3, <1>4, <2>1
  <2>3. \A s \in twice : More(s.layout)
    BY <1>3, <2>1, <2>2
  <2> HIDE DEF once, twice
  <2>4. g \in twice
    BY <1>2, <1>7
  <2>5. More(g.layout)
    BY <2>3, <2>4
  <2> QED
    BY <2>5 DEF SameButMargins, Kept
<1> QED
  BY <1>1, <1>5, <1>6, <1>7

-----------------------------------------------------------------------------
(* The invariant: every layout that is shown, was saved or is on a stack   *)
(* is sound; an item is dragged from where it is; what was not sent waits  *)
(* for the timer.                                                          *)
InPlay(S) == layout \in S /\ lastSaved \in S /\ undoStack \in Seq(S) /\ redoStack \in Seq(S)
AllSound == \E S : InPlay(S) /\ \A l \in S : Sound(l, turned, made)

IsDrag(d) ==
  d \in [uid : {d.uid}, start : {d.start}, at : Int \X Int, moving : {d.moving}, offset : Int \X Int]
IsMouse(m) ==
  /\ m \in [paint : {m.paint}, adding : {m.adding}, erase : {m.erase}, drag : {m.drag}]
  /\ m.drag # None => IsDrag(m.drag)

IsSession == session \in [uid : {session.uid}, wall : BOOLEAN]

TimerHolds == ~loose => saveTimer \in {None, layout}

EditorInv ==
  /\ made \in Nat /\ TurnedBefore \subseteq turned /\ AllSound /\ IsMouse(mouse)
  /\ IsSession /\ NothingUnsaved /\ TimerHolds

(* What a step does to the layout and to the stacks.                       *)
Edited ==
  \E base, news :
    /\ applyEdit(base, news)
    /\ base = layout \/ (Sound(base, turned, made) /\ SameButMargins(layout, base))
    /\ \A new \in news : Sound(new, turned', made')
Tinted ==
  \E new, first :
    /\ Recolor(new, first)
    /\ first \in BOOLEAN /\ (~first => ColorOpen)
    /\ SameButColors(layout, new) /\ Sound(new, turned', made')
Closing == ColorOpen' => ColorOpen
Quiet == UNCHANGED <<layout, stacks, saving, loose>>
Kind == \/ Edited \/ Tinted \/ Undo \/ Redo \/ SaveNow \/ Reset \/ TimerFires
        \/ (\E l \in Others : layoutLoaded(l)) \/ Quiet
Onwards == turned \subseteq turned' /\ made' \in Nat /\ made <= made' /\ IsMouse(mouse)'

(* The layout that is shown is in play, so it is sound.                    *)
LEMMA ShownSound == ASSUME EditorInv PROVE Sound(layout, turned, made) /\ IsLayout(layout)
  BY DEF EditorInv, AllSound, InPlay, Sound

(* The stacks.                                                             *)
LEMMA Pushed ==
  ASSUME NEW S, NEW q \in Seq(S), NEW l \in S
  PROVE  /\ Push(q, l) \in Seq(S) /\ Push(q, l) # <<>>
         /\ Push(q, l)[Len(Push(q, l))] = l
<1> DEFINE all == Append(q, l)
<1>1. /\ all \in Seq(S) /\ Len(all) = Len(q) + 1 /\ Len(q) \in Nat
      /\ all[Len(q) + 1] = l
  OBVIOUS
<1>2. UNDO_STACK_MAX_SIZE \in Nat \ {0}
  BY StackHoldsOne
<1> HIDE DEF all
<1>3. Push(q, l) = IF Len(all) > UNDO_STACK_MAX_SIZE THEN Tail(all) ELSE all
  BY DEF Push, all
<1>4. CASE Len(all) > UNDO_STACK_MAX_SIZE
  <2>1. Len(q) > 0
    BY <1>1, <1>2, <1>4
  <2>2. all # <<>>
    BY <1>1
  <2>3. Tail(all) \in Seq(S) /\ Len(Tail(all)) = Len(q)
    BY <1>1, <2>2
  <2>4. Tail(all)[Len(q)] = all[Len(q) + 1]
    BY <1>1, <2>1, <2>2, <2>3
  <2>5. Tail(all) # <<>>
    BY <2>1, <2>3
  <2> QED
    BY <1>1, <1>3, <1>4, <2>3, <2>4, <2>5
<1>5. CASE ~(Len(all) > UNDO_STACK_MAX_SIZE)
  BY <1>1, <1>3, <1>5
<1> QED
  BY <1>4, <1>5

(* What is popped off a stack was on it, and the rest stays a stack.       *)
LEMMA Popped ==
  ASSUME NEW S, NEW q \in Seq(S), q # <<>>
  PROVE  SubSeq(q, 1, Len(q) - 1) \in Seq(S) /\ q[Len(q)] \in S
<1>1. Len(q) \in Nat \ {0}
  OBVIOUS
<1>2. q[Len(q)] \in S
  BY <1>1
<1>3. SubSeq(q, 1, Len(q) - 1) \in Seq(S)
  BY <1>1
<1> QED
  BY <1>2, <1>3

(* What is sound stays sound when more items were turned or made.          *)
LEMMA Wider ==
  ASSUME NEW S, NEW q \in Seq(S), NEW U PROVE q \in Seq(S \cup U) /\ <<>> \in Seq(S)
  OBVIOUS

(* Whatever kind of step is taken, the layouts in play stay sound.         *)
LEMMA KindSound == ASSUME EditorInv, Kind, Onwards PROVE AllSound'
<1>1. PICK S : InPlay(S) /\ \A l \in S : Sound(l, turned, made)
  BY DEF EditorInv, AllSound
<1>2. \A l : Sound(l, turned, made) => Sound(l, turned', made')
  BY SoundLonger DEF EditorInv, Onwards
<1>3. layout \in S /\ lastSaved \in S /\ undoStack \in Seq(S) /\ redoStack \in Seq(S)
  BY <1>1 DEF InPlay
<1> SUFFICES \E T : InPlay(T)' /\ \A l \in T : Sound(l, turned', made')
  BY DEF AllSound
<1>4. CASE Edited
  <2>1. PICK base, news : /\ applyEdit(base, news)
                          /\ base = layout \/ Sound(base, turned, made)
                          /\ \A new \in news : Sound(new, turned', made')
    BY <1>4 DEF Edited
  <2> DEFINE T == S \cup ({base} \cup news)
  <2>2. undoStack \in Seq(T) /\ redoStack \in Seq(T)
    BY <1>3, Wider
  <2>3. \A l \in T : Sound(l, turned', made')
    BY <1>1, <1>2, <1>3, <2>1
  <2>4. lastSaved \in T /\ base \in T /\ \A new \in news : new \in T
    BY <1>3
  <2> HIDE DEF T
  <2>5. <<>> \in Seq(T) /\ Push(undoStack, base) \in Seq(T)
    BY <2>2, <2>4, Pushed, Wider
  <2>6. InPlay(T)'
    BY <2>1, <2>2, <2>4, <2>5 DEF InPlay, applyEdit, Remember, Show, stacks, saving
  <2> QED
    BY <2>3, <2>6
<1>5. CASE Tinted
  <2>1. PICK new, first : Recolor(new, first) /\ Sound(new, turned', made')
    BY <1>5 DEF Tinted
  <2> DEFINE T == S \cup {new}
  <2>2. undoStack \in Seq(T) /\ redoStack \in Seq(T)
    BY <1>3, Wider
  <2>3. \A l \in T : Sound(l, turned', made')
    BY <1>1, <1>2, <2>1
  <2>4. lastSaved \in T /\ layout \in T /\ new \in T
    BY <1>3
  <2> HIDE DEF T
  <2>5. <<>> \in Seq(T) /\ Push(undoStack, layout) \in Seq(T)
    BY <2>2, <2>4, Pushed, Wider
  <2>6. InPlay(T)'
    BY <2>1, <2>2, <2>4, <2>5 DEF InPlay, Recolor, Remember, Show, stacks
  <2> QED
    BY <2>3, <2>6
<1>6. CASE Undo \/ Redo
  <2>1. /\ Push(redoStack, layout) \in Seq(S) /\ Push(undoStack, layout) \in Seq(S)
        /\ undoStack # <<>> => SubSeq(undoStack, 1, Len(undoStack) - 1) \in Seq(S) /\ undoStack[Len(undoStack)] \in S
        /\ redoStack # <<>> => SubSeq(redoStack, 1, Len(redoStack) - 1) \in Seq(S) /\ redoStack[Len(redoStack)] \in S
    BY <1>3, Pushed, Popped
  <2>2. InPlay(S)'
    BY <1>3, <1>6, <2>1 DEF InPlay, Undo, Redo, Show
  <2> QED
    BY <1>1, <1>2, <2>2
<1>7. CASE SaveNow \/ Reset \/ TimerFires \/ Quiet
  <2>1. <<>> \in Seq(S)
    BY <1>3, Wider
  <2>2. InPlay(S)'
    BY <1>3, <1>7, <2>1 DEF InPlay, SaveNow, Reset, TimerFires, Quiet, stacks, saving
  <2> QED
    BY <1>1, <1>2, <2>2
<1>8. ASSUME NEW l \in Others, layoutLoaded(l) PROVE \E T : InPlay(T)' /\ \A k \in T : Sound(k, turned', made')
  <2> DEFINE T == S \cup {l}
  <2>1. undoStack \in Seq(T) /\ redoStack \in Seq(T)
    BY <1>3, Wider
  <2>2. Sound(l, TurnedBefore, 0) /\ TurnedBefore \subseteq turned' /\ made' \in Nat
    BY LayoutsAssumption DEF Onwards, EditorInv
  <2>3. Sound(l, turned', made')
    BY <2>2, SoundLonger
  <2>4. \A k \in T : Sound(k, turned', made')
    BY <1>1, <1>2, <2>3
  <2>5. InPlay(T)'
    BY <1>3, <1>8, <2>1 DEF InPlay, layoutLoaded, stacks
  <2> QED
    BY <2>4, <2>5
<1> QED
  BY <1>4, <1>5, <1>6, <1>7, <1>8 DEF Kind

(* Whatever kind of step is taken, an edit is either saved or about to be. *)
LEMMA KindSaved == ASSUME EditorInv, Kind PROVE NothingUnsaved' /\ TimerHolds'
<1>1. NothingUnsaved /\ TimerHolds
  BY DEF EditorInv
<1>2. ASSUME NEW new, Show(new) PROVE NothingUnsaved' /\ TimerHolds'
  BY <1>2 DEF Show, NothingUnsaved, TimerHolds
<1>3. CASE Edited
  <2>1. PICK base, news : applyEdit(base, news)
    BY <1>3 DEF Edited
  <2>2. CASE \E new \in news : Show(new)
    BY <1>2, <2>2
  <2>3. CASE /\ layout' = base /\ loose' = (loose \/ base # layout)
             /\ UNCHANGED saving
    BY <1>1, <2>3 DEF NothingUnsaved, TimerHolds, saving
  <2> QED
    BY <2>1, <2>2, <2>3 DEF applyEdit
<1>4. CASE Tinted \/ Undo \/ Redo
  BY <1>2, <1>4 DEF Tinted, Recolor, Undo, Redo
<1>5. CASE SaveNow \/ Reset \/ TimerFires \/ Quiet
  BY <1>1, <1>5 DEF NothingUnsaved, TimerHolds, SaveNow, Reset, TimerFires, Quiet, saving
<1>6. CASE \E l \in Others : layoutLoaded(l)
  BY <1>6 DEF NothingUnsaved, TimerHolds, layoutLoaded
<1> QED
  BY <1>3, <1>4, <1>5, <1>6 DEF Kind

(* Every kind of step is one of the line of history, or none of them, or   *)
(* goes on with a colour that was overtaken.                               *)
LEMMA KindMaps ==
  ASSUME EditorInv, Kind, Tinted \/ Closing
  PROVE  \/ Line!TimelineNext \/ OvertakenStep
         \/ UNCHANGED <<undoStack, layout, redoStack, CanAdjust>>
<1>1. PICK S : InPlay(S)
  BY DEF EditorInv, AllSound
<1>2. layout \in S /\ undoStack \in Seq(S) /\ redoStack \in Seq(S)
  BY <1>1 DEF InPlay
<1>3. \A q, l : Line!Recorded(q, l) = Push(q, l)
  BY DEF Line!Recorded, Push
<1>4. ASSUME NEW base, Remember(base), base = layout \/ SameButMargins(layout, base) PROVE Line!Change
  <2>1. undoStack \in Seq(S \cup {base}) /\ base \in S \cup {base}
    BY <1>2, Wider
  <2>2. /\ Push(undoStack, base) # <<>>
        /\ Push(undoStack, base)[Len(Push(undoStack, base))] = base
    BY <2>1, Pushed
  <2>3. undoStack' = Push(undoStack, base) /\ redoStack' = <<>>
    BY <1>4 DEF Remember
  <2> QED
    BY <1>3, <1>4, <2>2, <2>3 DEF Line!Change
<1>12. ASSUME UNCHANGED <<undoStack, layout, redoStack>>, CanAdjust' => CanAdjust
       PROVE  \/ Line!TimelineNext
              \/ UNCHANGED <<undoStack, layout, redoStack, CanAdjust>>
  <2>1. CASE CanAdjust /\ ~CanAdjust'
    BY <1>12, <2>1 DEF Line!TimelineNext, Line!Close
  <2>2. CASE CanAdjust' = CanAdjust
    BY <1>12, <2>2
  <2>3. CanAdjust \in BOOLEAN /\ CanAdjust' \in BOOLEAN
    BY DEF CanAdjust
  <2> QED
    BY <1>12, <2>1, <2>2, <2>3
<1>5. CASE Edited /\ Closing
  <2>1. PICK base, news : applyEdit(base, news) /\ (base = layout \/ SameButMargins(layout, base))
    BY <1>5 DEF Edited
  <2>2. CASE Remember(base)
    BY <1>4, <2>1, <2>2 DEF Line!TimelineNext
  <2>3. CASE layout' = base /\ UNCHANGED stacks
    <3>1. UNCHANGED <<undoStack, redoStack, fresh>> /\ (CanAdjust' => CanAdjust)
      BY <1>5, <2>3 DEF stacks, Closing, CanAdjust
    <3>2. CASE base = layout
      BY <1>12, <2>3, <3>1, <3>2
    <3>3. CASE SameButMargins(layout, base)
      BY <2>3, <3>1, <3>3 DEF Line!TimelineNext, Line!Widen
    <3> QED
      BY <2>1, <3>2, <3>3
  <2> QED
    BY <2>1, <2>2, <2>3 DEF applyEdit
<1>6. CASE Tinted
  <2>1. PICK new, first : /\ Recolor(new, first) /\ first \in BOOLEAN
                          /\ ~first => ColorOpen
                          /\ SameButColors(layout, new)
    BY <1>6 DEF Tinted
  <2>2. CASE first
    BY <1>4, <2>1, <2>2 DEF Line!TimelineNext, Recolor
  <2>3. CASE ~first
    <3>1. UNCHANGED stacks /\ SameButColors(layout, layout') /\ ColorOpen
      BY <2>1, <2>3 DEF Recolor, Show
    <3>2. CASE fresh
      BY <3>1, <3>2 DEF Line!TimelineNext, Line!Adjust, CanAdjust, stacks
    <3>3. CASE ~fresh
      BY <3>1, <3>3 DEF OvertakenStep
    <3> QED
      BY <3>2, <3>3
  <2> QED
    BY <2>1, <2>2, <2>3
<1>7. CASE Undo
  BY <1>3, <1>7 DEF Undo, Show, Line!TimelineNext, Line!Undo, Line!Front, CanAdjust
<1>8. CASE Redo
  BY <1>3, <1>8 DEF Redo, Show, Line!TimelineNext, Line!Redo, Line!Front, CanAdjust
<1>9. CASE (SaveNow \/ TimerFires \/ Quiet) /\ Closing
  <2>1. UNCHANGED <<undoStack, layout, redoStack, fresh>> /\ (CanAdjust' => CanAdjust)
    BY <1>9 DEF SaveNow, TimerFires, Quiet, stacks, Closing, CanAdjust
  <2> QED
    BY <1>12, <2>1
<1>10. CASE Reset
  BY <1>10 DEF Reset, Line!TimelineNext, Line!GiveUp, CanAdjust
<1>11. CASE \E l \in Others : layoutLoaded(l)
  BY <1>11 DEF layoutLoaded, Line!TimelineNext, Line!Replace, CanAdjust
<1> QED
  BY <1>5, <1>6, <1>7, <1>8, <1>9, <1>10, <1>11 DEF Kind

-----------------------------------------------------------------------------
(* The steps.  First what leaves the layout alone.                         *)
LEMMA EditorQuietStep ==
  ASSUME EditorInv, EditorOnly, IsMouse(mouse) => IsMouse(mouse)' PROVE Kind /\ Onwards
  BY DEF EditorOnly, Kind, Quiet, Onwards, EditorInv

(* The mouse keeps its type when a button or a drag ends.                  *)
LEMMA MouseSteps ==
  ASSUME NEW m, IsMouse(m)
  PROVE  /\ IsMouse(NoDrag(m)) /\ IsMouse(Still)
         /\ \A v : IsMouse([m EXCEPT !.paint = v]) /\ IsMouse([m EXCEPT !.erase = v]) /\ IsMouse([m EXCEPT !.adding = v])
         /\ \A v, u : IsMouse([m EXCEPT !.paint = v, !.adding = u])
<1>1. IsMouse(NoDrag(m)) /\ IsMouse(Still)
  BY DEF IsMouse, NoDrag, Still
<1>2. \A v : IsMouse([m EXCEPT !.paint = v]) /\ IsMouse([m EXCEPT !.erase = v]) /\ IsMouse([m EXCEPT !.adding = v])
  BY DEF IsMouse
<1>3. \A v, u : IsMouse([m EXCEPT !.paint = v, !.adding = u])
  BY DEF IsMouse
<1> QED
  BY <1>1, <1>2, <1>3

(* The mouse keeps its type when a drag goes on.                           *)
LEMMA DragSet ==
  ASSUME NEW m, IsMouse(m), NEW d, IsDrag(d)
  PROVE  IsMouse([m EXCEPT !.drag = d])
BY DEF IsMouse

(* The tiles that a click reaches are pairs of integers.                   *)
LEMMA ReachFacts ==
  ASSUME EditorInv, NEW t \in Reach PROVE t \in Int \X Int
<1>1. layout.cols \in Nat /\ layout.rows \in Nat
  BY ShownSound DEF IsLayout
<1> QED
  BY <1>1 DEF Reach, Grid

(* An edit of the layout that is shown.                                    *)
LEMMA ShownEditStep ==
  ASSUME EditorInv, NEW news, applyEdit(layout, news), \A new \in news : Sound(new, turned', made'),
         turned \subseteq turned', made' \in Nat, made <= made', IsMouse(mouse)'
  PROVE  Kind /\ Onwards
BY DEF Kind, Edited, Onwards

(* A step that tries an edit and makes none.                               *)
LEMMA NoEdit ==
  ASSUME EditorInv, applyEdit(layout, {}), UNCHANGED <<turned, made>>, IsMouse(mouse)'
  PROVE  Kind /\ Onwards
BY ShownEditStep DEF EditorInv

(* An item gets another colour.                                            *)
LEMMA OnlyItsColor ==
  ASSUME NEW l, IsLayout(l), NEW uid, NEW c PROVE SameButColors(l, Change(l, uid, "color", c))
<1> DEFINE f == l.furniture
           g == [n \in DOMAIN f |-> IF f[n].uid = uid THEN [f[n] EXCEPT !["color"] = c] ELSE f[n]]
           new == [l EXCEPT !.furniture = g]
<1>1. Change(l, uid, "color", c) = new
  BY DEF Change, IsLayout
<1>2. \A n \in DOMAIN f : IsItem(f[n])
  BY DEF IsLayout
<1>3. DOMAIN g = DOMAIN f /\ \A n \in DOMAIN f : [g[n] EXCEPT !.color = None] = [f[n] EXCEPT !.color = None]
  <2> SUFFICES ASSUME NEW n \in DOMAIN f PROVE [g[n] EXCEPT !.color = None] = [f[n] EXCEPT !.color = None]
    OBVIOUS
  <2>1. g[n] = f[n] \/ g[n] = [f[n] EXCEPT !["color"] = c]
    OBVIOUS
  <2>2. [[f[n] EXCEPT !["color"] = c] EXCEPT !.color = None] = [f[n] EXCEPT !.color = None]
    BY <1>2 DEF IsItem
  <2> QED
    BY <2>1, <2>2
<1> HIDE DEF g
<1>4. new.cols = l.cols /\ new.rows = l.rows /\ new.tile = l.tile /\ new.furniture = g
  BY DEF IsLayout
<1> HIDE DEF new
<1> QED
  BY <1>1, <1>3, <1>4 DEF SameButColors

LEMMA SelectedColorChangeStep ==
  ASSUME EditorInv, NEW c, SelectedColorChange(c) PROVE Kind /\ Onwards /\ Tinted
<1>1. Sound(Recolored(sel, c), turned, made)
  BY ShownSound, ColorSound DEF Recolored
<1>2. /\ Recolor(Recolored(sel, c), FirstFor(sel)) /\ sel # None
      /\ UNCHANGED <<mouse, made, turned>>
  BY DEF SelectedColorChange
<1>3. FirstFor(sel) \in BOOLEAN /\ (~FirstFor(sel) => ColorOpen)
  BY <1>2 DEF FirstFor, ColorOpen
<1>5. SameButColors(layout, Recolored(sel, c))
  BY ShownSound, OnlyItsColor DEF Recolored
<1>4. Tinted
  BY <1>1, <1>2, <1>3, <1>5 DEF Tinted
<1> QED
  BY <1>2, <1>4 DEF Kind, Onwards, EditorInv, IsMouse

LEMMA WallColorChangeStep ==
  ASSUME EditorInv, NEW c, WallColorChange(c)
  PROVE  Kind /\ Onwards /\ (Tinted \/ UNCHANGED session)
<1>1. UNCHANGED <<mouse, made, turned>>
  BY DEF WallColorChange
<1>2. Onwards
  BY <1>1 DEF Onwards, EditorInv, IsMouse
<1>3. CASE Walls = {}
  BY <1>2, <1>3 DEF WallColorChange, Kind, Quiet
<1>4. CASE Walls # {}
  <2> DEFINE colors == [t \in DOMAIN layout.color |-> IF t \in Walls THEN c ELSE layout.color[t]]
             new == [layout EXCEPT !.color = colors]
  <2>1. Recolor(new, ~session.wall)
    BY <1>4, ShownSound DEF WallColorChange, IsLayout
  <2>2. colors \in [Grid(layout) -> Range(colors)]
    BY ShownSound DEF IsLayout, Range
  <2> HIDE DEF colors
  <2>3. Sound(new, turned, made)
    BY <2>2, ShownSound, WallColorSound
  <2>5. SameButColors(layout, new)
    <3>1. /\ new.cols = layout.cols /\ new.rows = layout.rows
          /\ new.tile = layout.tile /\ new.furniture = layout.furniture
      BY ShownSound DEF IsLayout
    <3> HIDE DEF new
    <3> QED
      BY <3>1 DEF SameButColors
  <2> HIDE DEF new
  <2>4. Tinted
    <3> DEFINE first == ~session.wall
    <3>1. first \in BOOLEAN /\ (~first => ColorOpen)
      BY DEF ColorOpen
    <3>2. Recolor(new, first) /\ Sound(new, turned', made')
      BY <1>1, <2>1, <2>3
    <3> HIDE DEF first
    <3> QED
      BY <2>5, <3>1, <3>2 DEF Tinted
  <2> QED
    BY <1>2, <2>4 DEF Kind
<1> QED
  BY <1>3, <1>4

LEMMA DeleteSelectedStep == ASSUME EditorInv, DeleteSelected PROVE Kind /\ Onwards
<1>1. applyEdit(layout, removeFurniture(layout, sel)) /\ UNCHANGED <<mouse, made, turned>>
  BY DEF DeleteSelected
<1>2. \A new \in removeFurniture(layout, sel) : Sound(new, turned, made)
  BY ShownSound, RemoveSound
<1> QED
  BY <1>1, <1>2, ShownEditStep DEF EditorInv, IsMouse

LEMMA TurnStep ==
  ASSUME EditorInv, NEW to, Turn(to, Reshape(layout, sel, to)) PROVE Kind /\ Onwards
<1>1. UNCHANGED <<mouse, made>>
  BY DEF Turn
<1>2. made \in Nat /\ IsMouse(mouse)'
  BY <1>1 DEF EditorInv, IsMouse
<1>3. CASE tool = "FURNITURE_PLACE"
  BY <1>1, <1>2, <1>3 DEF Turn, Kind, Quiet, Onwards
<1>4. CASE tool # "FURNITURE_PLACE"
  <2>1. /\ applyEdit(layout, Reshape(layout, sel, to))
        /\ turned' = turned \cup {i.uid : i \in ItemsWith(layout, sel)}
    BY <1>4 DEF Turn
  <2>2. ASSUME NEW new \in Reshape(layout, sel, to) PROVE Sound(new, turned', made)
    <3>1. PICK x \in ItemsWith(layout, sel) : new = Change(layout, sel, "type", to[x.type])
      BY DEF Reshape
    <3>2. sel \in turned' /\ turned \subseteq turned'
      BY <2>1, <3>1 DEF ItemsWith
    <3>3. Sound(layout, turned', made)
      BY <1>2, <3>2, ShownSound, SoundLonger
    <3> QED
      BY <3>1, <3>2, <3>3, TypeSound
  <2> QED
    BY <1>1, <1>2, <2>1, <2>2, ShownEditStep
<1> QED
  BY <1>3, <1>4

LEMMA ToggleEditModeStep == ASSUME EditorInv, ToggleEditMode PROVE Kind /\ Onwards
<1>1. mouse' = mouse \/ mouse' = NoDrag(mouse)
  BY DEF ToggleEditMode
<1>2. IsMouse(mouse')
  BY <1>1, MouseSteps DEF EditorInv
<1> QED
  BY <1>2 DEF ToggleEditMode, Kind, Quiet, Onwards, EditorInv

LEMMA ToolbarStep ==
  ASSUME EditorInv, NEW t, ToolChange(t) \/ Choose(t) PROVE Kind /\ Onwards
<1>1. EditorOnly /\ mouse' = mouse
  BY DEF ToolChange, Choose
<1> QED
  BY <1>1, EditorQuietStep DEF IsMouse

LEMMA MouseOnlyStep ==
  ASSUME EditorInv,
         (\E t \in Reach : DragOver(t)) \/ DragBeyond \/ DownBeyond \/ MouseUp \/ RightUp \/ MouseLeave \/ Escape
  PROVE  Kind /\ Onwards
<1>1. EditorOnly
  BY DEF DragOver, DragBeyond, DownBeyond, MouseUp, RightUp, MouseLeave, Escape
<1>2. IsMouse(mouse) /\ <<-1, -1>> \in Int \X Int
  BY DEF EditorInv
<1>3. IsMouse(mouse')
  <2>1. ASSUME NEW t \in Reach, DragOver(t) PROVE IsMouse(mouse')
    <3> t \in Int \X Int
      BY ReachFacts
    <3> DEFINE d == mouse.drag
               new == [d EXCEPT !.at = t, !.moving = @ \/ t # d.start]
    <3>1. d # None /\ mouse' = [mouse EXCEPT !.drag = new]
      BY <1>2, <2>1 DEF DragOver, IsMouse, IsDrag
    <3>2. IsDrag(new)
      BY <1>2, <3>1 DEF IsMouse, IsDrag
    <3> HIDE DEF new
    <3> QED
      BY <1>2, <3>1, <3>2, DragSet
  <2>2. CASE DragBeyond
    <3> DEFINE d == mouse.drag
               new == [d EXCEPT !.at = <<-1, -1>>]
    <3>1. d # None /\ mouse' = [mouse EXCEPT !.drag = new]
      BY <1>2, <2>2 DEF DragBeyond, IsMouse, IsDrag
    <3>2. IsDrag(new)
      BY <1>2, <3>1 DEF IsMouse, IsDrag
    <3> HIDE DEF new
    <3> QED
      BY <1>2, <3>1, <3>2, DragSet
  <2>3. CASE DownBeyond \/ RightUp
    BY <1>2, <2>3 DEF DownBeyond, RightUp, IsMouse
  <2>4. CASE MouseUp
    BY <1>2, <2>4, MouseSteps DEF MouseUp
  <2>5. CASE MouseLeave \/ Escape
    BY <1>2, <2>5, MouseSteps DEF MouseLeave, Escape
  <2> QED
    BY <2>1, <2>2, <2>3, <2>4, <2>5
<1> QED
  BY <1>1, <1>3, EditorQuietStep DEF IsMouse

(* A stroke of a tool.                                                     *)
LEMMA ErasedSound ==
  ASSUME EditorInv, NEW t, NEW new \in Erased(layout, t) PROVE Sound(new, turned, made)
<1>1. new \in paintTile(layout, t, Void, None)
  BY DEF Erased
<1> QED
  BY <1>1, ShownSound, PaintSound

(* Painting, where the layout may have to grow first.                      *)
LEMMA PaintAtStep ==
  ASSUME EditorInv, NEW t \in Int \X Int, NEW m, IsMouse(m), PaintAt(t, m), UNCHANGED <<made, turned>>
  PROVE  Kind /\ Onwards
<1> DEFINE grown == maybeExpand(layout, t)
           g == CHOOSE e \in grown : TRUE
           base == IF grown = {} THEN layout ELSE g.layout
           at == IF grown = {} THEN t ELSE g.at
           isWall == \E s \in TileAt(base, at) : base.tile[s] = Wall
           adding == IF m.adding = None THEN ~isWall ELSE m.adding
           walls == paintTile(base, at, Wall, pick.wall)
           floors == paintTile(base, at, pick.tile, pick.floor)
           chosen == IF adding THEN walls ELSE IF isWall THEN floors ELSE {}
<1>1. IF tool = "TILE_PAINT" THEN applyEdit(base, floors) /\ mouse' = m
      ELSE mouse' = [m EXCEPT !.adding = adding] /\ applyEdit(base, chosen)
  BY DEF PaintAt
<1>2. base = layout \/ (Sound(base, turned, made) /\ SameButMargins(layout, base))
  <2>1. CASE grown = {}
    BY <2>1
  <2>2. CASE grown # {}
    <3>1. g \in grown
      BY <2>2
    <3> HIDE DEF g
    <3>2. Sound(g.layout, turned, made) /\ SameButMargins(layout, g.layout)
      BY <3>1, ShownSound, MarginOnly
    <3> QED
      BY <2>2, <3>2
  <2> QED
    BY <2>1, <2>2
<1> HIDE DEF base, at, isWall, adding
<1>3. Sound(base, turned, made)
  BY <1>2, ShownSound
<1>4. \A new \in floors \cup walls : Sound(new, turned, made)
  <2>1. ASSUME NEW new \in floors PROVE Sound(new, turned, made)
    BY <1>3, <2>1, PaintSound
  <2>2. ASSUME NEW new \in walls PROVE Sound(new, turned, made)
    BY <1>3, <2>2, PaintSound
  <2> QED
    BY <2>1, <2>2
<1>5. IsMouse(mouse') /\ Onwards
  <2>1. IsMouse([m EXCEPT !.adding = adding])
    BY DEF IsMouse
  <2>2. IsMouse(mouse')
    BY <1>1, <2>1
  <2> QED
    BY <2>2 DEF Onwards, EditorInv
<1>6. PICK news : applyEdit(base, news) /\ news \subseteq floors \cup walls
  <2>1. CASE tool = "TILE_PAINT"
    BY <1>1, <2>1
  <2>2. CASE tool # "TILE_PAINT"
    BY <1>1, <2>2
  <2> QED
    BY <2>1, <2>2
<1>7. Edited
  <2>1. \A new \in news : Sound(new, turned', made')
    BY <1>4, <1>6
  <2> QED
    BY <1>2, <1>6, <2>1 DEF Edited
<1> QED
  BY <1>5, <1>7 DEF Kind

(* Placing an item, which gets a uid of its own.                           *)
LEMMA PlaceAtStep ==
  ASSUME EditorInv, NEW t \in Int \X Int, PlaceAt(t), IsMouse(mouse)', turned' = turned
  PROVE  Kind /\ Onwards
<1> DEFINE at == <<t[1], getWallPlacementRow(pick.type, t[2])>>
           item == [uid |-> made + 1, type |-> pick.type, at |-> at, color |-> pick.color]
           news == placeFurniture(layout, item)
<1>1. applyEdit(layout, news) /\ made' = (IF news = {} THEN made ELSE made + 1) /\ made \in Nat
  BY DEF PlaceAt, EditorInv
<1>2. at \in Int \X Int
  <2>1. \A h \in Nat, r \in Int : r - (h - 1) \in Int
    OBVIOUS
  <2>2. getWallPlacementRow(pick.type, t[2]) \in Int
    BY <2>1, CatalogAssumption DEF getWallPlacementRow
  <2> QED
    BY <2>2
<1> HIDE DEF at
<1>3. IsItem(item) /\ item.uid = made + 1
  BY <1>2 DEF IsItem
<1> HIDE DEF item
<1>4. \A new \in news : Sound(new, turned, made + 1)
  BY <1>1, <1>3, ShownSound, PlaceSound
<1>5. made' \in Nat /\ made <= made'
  BY <1>1
<1>6. \A new \in news : Sound(new, turned', made')
  BY <1>1, <1>4
<1> HIDE DEF news
<1> QED
  BY <1>1, <1>5, <1>6, ShownEditStep

(* A click on a tile, with each of the tools.                              *)
LEMMA TileActionStep ==
  ASSUME EditorInv, NEW t \in Int \X Int, NEW m, IsMouse(m), TileAction(t, m), turned' = turned
  PROVE  Kind /\ Onwards
<1>1. made \in Nat
  BY DEF EditorInv
<1>2. CASE PaintAt(t, m) /\ UNCHANGED made
  BY <1>2, PaintAtStep
<1>3. CASE applyEdit(layout, Erased(layout, t)) /\ mouse' = m /\ made' = made
  <2>1. \A new \in Erased(layout, t) : Sound(new, turned', made')
    BY <1>3, ErasedSound
  <2> QED
    BY <1>1, <1>3, <2>1, ShownEditStep
<1>4. CASE PlaceAt(t) /\ mouse' = m
  BY <1>4, PlaceAtStep
<1>5. CASE applyEdit(layout, {}) /\ mouse' = m /\ made' = made
  BY <1>5, NoEdit
<1> QED
  BY <1>2, <1>3, <1>4, <1>5 DEF TileAction

(* The item under the mouse is one of the layout.                          *)
LEMMA GrabbedFacts ==
  ASSUME EditorInv, NEW t, HitAt(layout, t) # {}
  PROVE  IsItem(Grabbed(t))
<1> DEFINE S == {i \in Range(layout.furniture) : IsItem(i)}
           under == {i \in Items(layout.furniture) : t \in Footprint(i)}
           tops == {i \in Items(layout.furniture) : Catalog[i.type].surfaces}
           f == layout.furniture
           hits == Among(f, under)
           onTop == Among(hits, tops)
<1>1. f \in Seq(S)
  BY ShownSound, ItemFacts
<1>2. PICK n \in DOMAIN f : f[n] \in under
  BY DEF HitAt
<1>3. Grabbed(t) = IF onTop # <<>> THEN onTop[Len(onTop)] ELSE hits[1]
  BY DEF Grabbed
<1> HIDE DEF f, S, under, tops
<1>4. hits \in Seq(S) /\ \E k \in DOMAIN hits : hits[k] = f[n]
  BY <1>1, <1>2, AmongFacts
<1> HIDE DEF hits
<1>5. onTop \in Seq(S)
  BY <1>4, AmongFacts
<1> HIDE DEF onTop
<1>6. hits[1] \in S
  BY <1>4, ListShape
<1>7. onTop # <<>> => onTop[Len(onTop)] \in S
  BY <1>5, Popped
<1>8. \A i \in S : IsItem(i)
  BY DEF S
<1> QED
  BY <1>3, <1>6, <1>7, <1>8

LEMMA MouseDownStep ==
  ASSUME EditorInv, NEW t \in Int \X Int, MouseDown(t) PROVE Kind /\ Onwards
<1>1. IsMouse(mouse) /\ turned' = turned
  BY DEF EditorInv, MouseDown
<1>2. CASE Selecting /\ HitAt(layout, t) # {}
  <2> DEFINE i == Grabbed(t)
             d == [uid |-> i.uid, start |-> t, at |-> t, moving |-> FALSE,
                   offset |-> <<t[1] - i.at[1], t[2] - i.at[2]>>]
  <2>1. mouse' = [mouse EXCEPT !.drag = d] /\ made' = made /\ applyEdit(layout, {})
    BY <1>2 DEF MouseDown
  <2>2. IsItem(i)
    BY <1>2, GrabbedFacts
  <2> HIDE DEF i
  <2>3. i.at[1] \in Int /\ i.at[2] \in Int
    BY <2>2 DEF IsItem
  <2>4. IsDrag(d)
    BY <2>3 DEF IsDrag
  <2> HIDE DEF d
  <2>5. IsMouse(mouse')
    BY <1>1, <2>1, <2>4, DragSet
  <2> QED
    BY <1>1, <2>1, <2>5, NoEdit
<1>3. CASE ~(Selecting /\ HitAt(layout, t) # {})
  <2> DEFINE m == [mouse EXCEPT !.paint = tool \in PaintTools]
  <2>1. TileAction(t, m)
    BY <1>3 DEF MouseDown
  <2>2. IsMouse(m)
    BY <1>1 DEF IsMouse
  <2> HIDE DEF m
  <2> QED
    BY <1>1, <2>1, <2>2, TileActionStep
<1> QED
  BY <1>2, <1>3

LEMMA PaintOverStep ==
  ASSUME EditorInv, NEW t \in Int \X Int, PaintOver(t) PROVE Kind /\ Onwards
<1>1. IsMouse(mouse) /\ turned' = turned /\ made \in Nat
  BY DEF EditorInv, PaintOver
<1>2. CASE TileAction(t, mouse)
  BY <1>1, <1>2, TileActionStep
<1>3. CASE applyEdit(layout, Erased(layout, t)) /\ UNCHANGED <<mouse, choice, made>>
  BY <1>1, <1>3, ErasedSound, ShownEditStep
<1> QED
  BY <1>2, <1>3 DEF PaintOver

LEMMA RightDownStep ==
  ASSUME EditorInv, NEW t \in Int \X Int, RightDown(t) PROVE Kind /\ Onwards
<1> DEFINE news == Erased(layout, t)
<1>1. turned' = turned /\ made' = made /\ made \in Nat /\ applyEdit(layout, news)
  BY DEF EditorInv, RightDown
<1>2. IsMouse(mouse')
  <2>1. mouse' = [mouse EXCEPT !.erase = TRUE] /\ IsMouse(mouse)
    BY DEF EditorInv, RightDown
  <2> QED
    BY <2>1 DEF IsMouse
<1>3. \A new \in news : Sound(new, turned', made')
  BY <1>1, ErasedSound
<1> HIDE DEF news
<1> QED
  BY <1>1, <1>2, <1>3, ShownEditStep

LEMMA DropStep == ASSUME EditorInv, Drop PROVE Kind /\ Onwards
<1> DEFINE d == mouse.drag
           to == <<d.at[1] - d.offset[1], d.at[2] - d.offset[2]>>
           news == IF d.moving THEN moveFurniture(layout, d.uid, to) ELSE {}
<1>1. /\ d # None /\ applyEdit(layout, news) /\ mouse' = NoDrag(mouse)
      /\ turned' = turned /\ made' = made /\ made \in Nat /\ IsMouse(mouse)
  BY DEF Drop, EditorInv
<1>2. to \in Int \X Int
  BY <1>1 DEF IsMouse, IsDrag
<1> HIDE DEF to
<1>3. \A new \in news : Sound(new, turned', made')
  BY <1>1, <1>2, ShownSound, MoveSound
<1>4. IsMouse(mouse')
  BY <1>1, MouseSteps
<1> HIDE DEF news
<1> QED
  BY <1>1, <1>3, <1>4, ShownEditStep

(* The others are kinds of step themselves.                                *)
LEMMA OwnKindStep ==
  ASSUME EditorInv, \/ Undo \/ Redo \/ SaveNow \/ Reset \/ TimerFires
                    \/ \E l \in Others : layoutLoaded(l)
                    \/ UNCHANGED editorVars
  PROVE  Kind /\ Onwards
<1>1. UNCHANGED <<mouse, made, turned>>
  BY DEF Undo, Redo, SaveNow, Reset, TimerFires, layoutLoaded, editorVars
<1>2. Onwards
  BY <1>1 DEF Onwards, EditorInv, IsMouse
<1>3. UNCHANGED editorVars => Quiet
  BY DEF editorVars, Quiet
<1> QED
  BY <1>2, <1>3 DEF Kind

(* Every step of the editor is of one of the kinds.                        *)
LEMMA StepKind == ASSUME EditorInv, [EditorNext]_editorVars PROVE Kind /\ Onwards
<1>1. CASE Toolbar
  <2>1. CASE Undo \/ Redo \/ SaveNow \/ Reset
    BY <2>1, OwnKindStep
  <2>2. CASE ToggleEditMode
    BY <2>2, ToggleEditModeStep
  <2>3. CASE DeleteSelected
    BY <2>3, DeleteSelectedStep
  <2>4. CASE RotateSelected
    BY <2>4, TurnStep DEF RotateSelected, rotateFurniture
  <2>5. CASE ToggleState
    BY <2>5, TurnStep DEF ToggleState, toggleFurnitureState
  <2>6. CASE Escape
    <3>1. EditorOnly /\ (mouse' = NoDrag(mouse))
      BY <2>6 DEF Escape
    <3>2. IsMouse(mouse')
      BY <3>1, MouseSteps DEF EditorInv
    <3> QED
      BY <3>1, <3>2, EditorQuietStep
  <2>7. CASE \E t \in Tools \ {"SELECT"} : ToolChange(t)
    BY <2>7, ToolbarStep
  <2>8. CASE \E k \in Tiles : TileTypeChange(k)
    BY <2>8, ToolbarStep DEF TileTypeChange
  <2>9. CASE \E c \in Colors : FloorColorChange(c)
    BY <2>9, ToolbarStep DEF FloorColorChange
  <2>10. CASE \E c \in Colors : WallColorChange(c)
    BY <2>10, WallColorChangeStep
  <2>11. CASE \E c \in Colors \cup {None} : SelectedColorChange(c)
    BY <2>11, SelectedColorChangeStep
  <2>12. CASE \E type \in Types : FurnitureTypeChange(type)
    BY <2>12, ToolbarStep DEF FurnitureTypeChange
  <2> QED
    BY <1>1, <2>1, <2>2, <2>3, <2>4, <2>5, <2>6, <2>7, <2>8, <2>9, <2>10, <2>11, <2>12 DEF Toolbar
<1>2. ASSUME NEW t \in Reach, Click(t) PROVE Kind /\ Onwards
  <2>1. t \in Int \X Int
    BY ReachFacts
  <2>2. CASE DragOver(t)
    BY <2>2, MouseOnlyStep
  <2> QED
    BY <1>2, <2>1, <2>2, MouseDownStep, PaintOverStep, RightDownStep DEF Click
<1>3. CASE DragBeyond \/ DownBeyond \/ MouseUp \/ RightUp \/ MouseLeave
  BY <1>3, MouseOnlyStep
<1>4. CASE Drop
  BY <1>4, DropStep
<1>5. CASE TimerFires \/ (\E l \in Others : layoutLoaded(l)) \/ UNCHANGED editorVars
  BY <1>5, OwnKindStep
<1> QED
  BY <1>1, <1>2, <1>3, <1>4, <1>5 DEF EditorNext

(* A colour begins to be chosen by a step that is remembered.              *)
LEMMA SessionStep ==
  ASSUME EditorInv, [EditorNext]_editorVars PROVE IsSession' /\ (Tinted \/ Closing)
<1>1. IsSession
  BY DEF EditorInv
<1>2. ASSUME \/ session' = session
             \/ session' = [session EXCEPT !.uid = None]
             \/ session' = [session EXCEPT !.wall = FALSE]
             \/ session' = [uid |-> None, wall |-> FALSE]
      PROVE  IsSession' /\ Closing
  <2>1. CASE session' = session
    BY <1>1, <2>1 DEF IsSession, Closing, ColorOpen
  <2>2. CASE session' = [session EXCEPT !.uid = None]
    <3>1. session'.uid = None /\ session'.wall = session.wall
      BY <1>1, <2>2 DEF IsSession
    <3>2. IsSession'
      BY <1>1, <2>2 DEF IsSession
    <3> QED
      BY <3>1, <3>2 DEF Closing, ColorOpen
  <2>3. CASE session' = [session EXCEPT !.wall = FALSE]
    <3>1. session'.uid = session.uid /\ session'.wall = FALSE
      BY <1>1, <2>3 DEF IsSession
    <3>2. IsSession'
      BY <1>1, <2>3 DEF IsSession
    <3> QED
      BY <3>1, <3>2 DEF Closing, ColorOpen
  <2>4. CASE session' = [uid |-> None, wall |-> FALSE]
    BY <2>4 DEF IsSession, Closing, ColorOpen
  <2> QED
    BY <1>2, <2>1, <2>2, <2>3, <2>4
<1>3. ASSUME NEW c, SelectedColorChange(c) PROVE IsSession' /\ Tinted
  <2>1. session' = [session EXCEPT !.uid = sel]
    BY <1>3 DEF SelectedColorChange
  <2>2. IsSession'
    BY <1>1, <2>1 DEF IsSession
  <2> QED
    BY <1>3, <2>2, SelectedColorChangeStep
<1>4. ASSUME NEW c, WallColorChange(c) PROVE IsSession' /\ (Tinted \/ Closing)
  <2>1. session' = session \/ session' = [session EXCEPT !.wall = TRUE]
    BY <1>4 DEF WallColorChange
  <2>2. IsSession'
    BY <1>1, <2>1 DEF IsSession
  <2>3. Tinted \/ UNCHANGED session
    BY <1>4, WallColorChangeStep
  <2> QED
    BY <1>2, <2>2, <2>3
<1>5. CASE Toolbar
  <2>1. CASE Undo \/ Redo \/ SaveNow \/ Reset \/ RotateSelected \/ ToggleState \/ Escape
    BY <1>2, <2>1 DEF Undo, Redo, SaveNow, Reset, RotateSelected, ToggleState, Turn, Escape
  <2>2. CASE ToggleEditMode \/ DeleteSelected
    BY <1>2, <2>2 DEF ToggleEditMode, DeleteSelected
  <2>3. ASSUME NEW x, \/ ToolChange(x) \/ TileTypeChange(x) \/ FloorColorChange(x)
                       \/ FurnitureTypeChange(x)
        PROVE  IsSession' /\ Closing
    BY <1>2, <2>3 DEF ToolChange, TileTypeChange, FloorColorChange, FurnitureTypeChange, Choose
  <2> QED
    BY <1>3, <1>4, <1>5, <2>1, <2>2, <2>3 DEF Toolbar
<1>6. ASSUME NEW t, Click(t) PROVE IsSession' /\ Closing
  BY <1>2, <1>6 DEF Click, MouseDown, DragOver, PaintOver, RightDown
<1>7. CASE DragBeyond \/ DownBeyond \/ Drop \/ MouseUp \/ RightUp \/ MouseLeave
  BY <1>2, <1>7 DEF DragBeyond, DownBeyond, Drop, MouseUp, RightUp, MouseLeave
<1>8. CASE TimerFires \/ (\E l \in Others : layoutLoaded(l)) \/ UNCHANGED editorVars
  BY <1>2, <1>8 DEF TimerFires, layoutLoaded, editorVars
<1> QED
  BY <1>5, <1>6, <1>7, <1>8 DEF EditorNext

(* The layout that is loaded first is sound, by assumption.                *)
LEMMA InitEditorInv == EditorInit => EditorInv
<1> SUFFICES ASSUME EditorInit PROVE EditorInv
  OBVIOUS
<1>1. Sound(layout, TurnedBefore, 0)
  BY LayoutsAssumption DEF EditorInit
<1>2. InPlay({layout})
  BY DEF EditorInit, InPlay
<1>3. AllSound
  BY <1>1, <1>2 DEF AllSound, EditorInit
<1>4. IsMouse(mouse)
  BY DEF EditorInit, Still, IsMouse
<1>5. IsSession
  BY DEF EditorInit, IsSession
<1> QED
  BY <1>3, <1>4, <1>5 DEF EditorInit, EditorInv, NothingUnsaved, TimerHolds

(* The invariant is inductive.                                             *)
LEMMA NextEditorInv == EditorInv /\ [EditorNext]_editorVars => EditorInv'
<1> SUFFICES ASSUME EditorInv, [EditorNext]_editorVars PROVE EditorInv'
  OBVIOUS
<1>1. Kind /\ Onwards
  BY StepKind
<1>2. AllSound'
  BY <1>1, KindSound
<1>3. NothingUnsaved' /\ TimerHolds'
  BY <1>1, KindSaved
<1>4. IsSession'
  BY SessionStep
<1> QED
  BY <1>1, <1>2, <1>3, <1>4 DEF EditorInv, Onwards

(* Every layout that the editor shows, keeps to undo or to redo, or is to  *)
(* save is sound, whatever the catalog, and whatever sound layouts are     *)
(* loaded.                                                                 *)
THEOREM EditorInvariant == EditorSpec => []EditorInv
<1> QED
  BY InitEditorInv, NextEditorInv, PTL DEF EditorSpec

(* What the editor shows was posted to be saved or waits for the timer,    *)
(* and with no change announced (isDirty) it is the checkpoint, with the   *)
(* exceptions that loose names (useEditorActions.ts).                      *)
THEOREM NothingUnsavedHolds == EditorSpec => []NothingUnsaved
<1>1. EditorInv => NothingUnsaved
  BY DEF EditorInv
<1> QED
  BY <1>1, EditorInvariant, PTL

(* Of two items that overlap one stands on a surface or was turned:        *)
(* neither placing nor moving, nor growing the layout, nor undoing any of  *)
(* it makes an item stand in another (layoutSerializer.ts,                 *)
(* editorActions.ts).                                                      *)
THEOREM OnlySurfacesOverlapHolds == EditorSpec => []OnlySurfacesOverlap
<1>1. EditorInv => OnlySurfacesOverlap
  BY ShownSound DEF Sound, OnlySurfacesOverlap
<1> QED
  BY <1>1, EditorInvariant, PTL

(* The editor implements Timeline: what it shows, with the layouts to undo *)
(* and to redo, is a line of past, present and future that every step      *)
(* moves along or changes as that specification allows, and a colour can   *)
(* be adjusted only until something else moves the layout; the exception   *)
(* are the steps of a colour that was overtaken (useEditorActions.ts).     *)
THEOREM EditorImplementsTimeline == EditorSpec => ImplementsTimeline
<1>1. EditorInit => Line!TimelineInit
  BY DEF EditorInit, Line!TimelineInit, CanAdjust
<1>2. EditorInv /\ [EditorNext]_editorVars =>
        [Line!TimelineNext \/ OvertakenStep]_<<undoStack, layout, redoStack, CanAdjust>>
  BY StepKind, SessionStep, KindMaps
<1> QED
  BY <1>1, <1>2, EditorInvariant, PTL DEF EditorSpec, ImplementsTimeline
===============================================================================
