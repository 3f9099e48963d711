--------------------------- MODULE TokenReporter ---------------------------
(***************************************************************************)
(* The token reporter of one VS Code window (tokenReporter.ts), and what   *)
(* extension.ts and economyClient.ts do around it: register at every       *)
(* connection, start the reporter, dispose of it.                          *)
(*                                                                         *)
(* JavaScript runs one callback at a time; an await (a fetch, an update of *)
(* the stored state, of the secrets) lets any other callback run before    *)
(* the rest of the function.  Each action is what runs between two awaits. *)
(***************************************************************************)
EXTENDS Integers, Sequences, FiniteSets, Functions

CONSTANTS
  MaxReports,     \* bound: number of assistant records with a usage
  MaxOffline,     \* MAX_OFFLINE_QUEUE
  MaxConnects,    \* bound: connections during one life of the extension host
  Outcomes,       \* what becomes of a POST: "ok", "refused", or "unheard"
                  \* (the server credits it and the answer is lost)
  SendsToken,     \* the answer to register has the field the client reads
  StoreMayFail    \* the secret storage may fail

ASSUME ReporterAssumption ==
  /\ MaxReports \in Nat /\ MaxOffline \in Nat \ {0} /\ MaxConnects \in Nat
  /\ Outcomes \subseteq {"ok", "refused", "unheard"}
  /\ SendsToken \in BOOLEAN /\ StoreMayFail \in BOOLEAN

VARIABLES
  host,         \* extension host: "active", "disposed" or "gone"
  made,         \* reports made so far; they are numbered 1, 2, ...
  pending,      \* this.pending
  ticking,      \* batchTimer is set
  token,        \* getAuthToken() returns a token
  batches,      \* batches whose POST is awaited
  drains,       \* queues whose drain awaits the update of the stored state
  queue,        \* the offline queue, in globalState
  durable,      \* what of it has been written, and survives the host
  registering, storing,  \* registrations awaiting the server, the secrets
  connects,     \* connections of this host
  credited,     \* requestIds in processed_requests
  lost          \* reports the code gave up

memory == <<pending, ticking, token, batches, drains, registering, storing, connects>>
reporterVars   == <<host, made, memory, queue, durable, credited, lost>>

Ids(seqs) == UNION {Range(s) : s \in seqs}
Held == Ids(batches \union drains \union {pending, queue})

ReporterInit ==
  /\ host = "active" /\ made = 0
  /\ pending = <<>> /\ ticking = FALSE /\ token = FALSE
  /\ batches = {} /\ drains = {} /\ queue = <<>> /\ durable = <<>>
  /\ registering = 0 /\ storing = 0 /\ connects = 0
  /\ credited = {} /\ lost = {}

-----------------------------------------------------------------------------

(* reportUsage, called by the transcript parser.                           *)
Report ==
  /\ host = "active" /\ made < MaxReports
  /\ made' = made + 1
  /\ pending' = Append(pending, made')
  /\ UNCHANGED <<host, ticking, token, batches, drains, registering, storing,
                 connects, queue, durable, credited, lost>>

(* Fault: it keeps one report too many.                                    *)
NewestOffByOne(s) == SubSeq(s, Len(s) - MaxOffline, Len(s))

(* The offline queue keeps its newest MaxOffline reports.  Nobody waits    *)
(* until it has been written.                                              *)
Newest(s) == SubSeq(s, Len(s) - MaxOffline + 1, Len(s))
EnqueueOffline(reports) ==
  LET combined == queue \o reports
      kept == IF Len(combined) <= MaxOffline THEN combined ELSE Newest(combined) IN
  /\ queue' = kept
  /\ lost' = lost \union (Range(combined) \ Range(kept))

(* flush, up to its fetch: without a token the batch goes offline.         *)
Flush ==
  /\ ticking /\ pending # <<>>
  /\ pending' = <<>>
  /\ \/ ~token /\ EnqueueOffline(pending) /\ UNCHANGED batches
     \/ token /\ batches' = batches \union {pending} /\ UNCHANGED <<queue, lost>>
  /\ UNCHANGED <<host, made, durable, ticking, token, drains, registering, storing,
                 connects, credited>>

(* The rest of flush: a batch that is refused or not answered goes offline. *)
Answer(b) ==
  /\ b \in batches /\ batches' = batches \ {b}
  /\ \E outcome \in Outcomes :
       /\ credited' = IF outcome = "refused" THEN credited
                                             ELSE credited \union Range(b)
       /\ IF outcome = "ok" THEN UNCHANGED <<queue, lost>> ELSE EnqueueOffline(b)
  /\ UNCHANGED <<host, made, durable, pending, ticking, token, drains, registering,
                 storing, connects>>

(* Faults: the queue is not cleared before it is drained, or only after.   *)
StartDrainKeepingQueue ==
  /\ drains' = IF queue = <<>> THEN drains ELSE drains \union {queue}
  /\ UNCHANGED queue
FinishDrainClearing(d) ==
  /\ d \in drains /\ drains' = drains \ {d}
  /\ pending' = pending \o d
  /\ queue' = <<>>
  /\ UNCHANGED <<host, made, durable, ticking, token, batches, registering, storing,
                 connects, credited, lost>>

(* VS Code writes globalState.                                             *)
Persist ==
  /\ durable # queue /\ durable' = queue
  /\ UNCHANGED <<host, made, memory, queue, credited, lost>>

(* drainOfflineQueue: take the queue, await that its clearing is written,  *)
(* then add it to the pending reports.                                     *)
StartDrain ==
  /\ drains' = IF queue = <<>> THEN drains ELSE drains \union {queue}
  /\ queue' = <<>>
FinishDrain(d) ==
  /\ d \in drains /\ Range(d) \intersect Range(durable) = {}
  /\ drains' = drains \ {d}
  /\ pending' = pending \o d
  /\ UNCHANGED <<host, made, ticking, token, batches, registering, storing,
                 connects, queue, durable, credited, lost>>

-----------------------------------------------------------------------------

(* The WebSocket opens: the handler of _connected posts a registration.    *)
Connected ==
  /\ host = "active" /\ connects < MaxConnects
  /\ connects' = connects + 1
  /\ registering' = registering + 1
  /\ UNCHANGED <<host, made, durable, pending, ticking, token, batches, drains, storing,
                 queue, credited, lost>>

(* register returns, and the session token is stored; or it throws.        *)
Registered ==
  /\ registering > 0 /\ registering' = registering - 1
  /\ storing' = storing + 1
  /\ token' = SendsToken
  /\ UNCHANGED <<host, made, durable, pending, ticking, batches, drains, connects,
                 queue, credited, lost>>
RegisterFailed ==
  /\ registering > 0 /\ registering' = registering - 1
  /\ UNCHANGED <<host, made, durable, pending, ticking, token, batches, drains, storing,
                 connects, queue, credited, lost>>

(* The token is stored: start() sets the timer and drains, the first time. *)
Stored ==
  /\ storing > 0 /\ storing' = storing - 1
  /\ \/ ticking /\ UNCHANGED <<ticking, drains, queue>>
     \/ ~ticking /\ ticking' = TRUE /\ StartDrain
  /\ UNCHANGED <<host, made, durable, pending, token, batches, registering, connects,
                 credited, lost>>
StoreFailed ==
  /\ StoreMayFail
  /\ storing > 0 /\ storing' = storing - 1
  /\ UNCHANGED <<host, made, durable, pending, ticking, token, batches, drains,
                 registering, connects, queue, credited, lost>>

-----------------------------------------------------------------------------

(* Fault: stop() clears the timer and nothing more.                        *)
DisposeForgetting ==
  /\ host = "active" /\ host' = "disposed"
  /\ ticking' = FALSE /\ token' = FALSE
  /\ UNCHANGED <<made, durable, pending, batches, drains, registering, storing,
                 connects, queue, credited, lost>>

(* The window closes: the usage callback goes, stop() persists what is     *)
(* pending, the economy client forgets its token.                          *)
Dispose ==
  /\ host = "active" /\ host' = "disposed"
  /\ ticking' = FALSE /\ token' = FALSE
  /\ EnqueueOffline(pending) /\ pending' = <<>>
  /\ UNCHANGED <<made, durable, batches, drains, registering, storing, connects, credited>>

(* The extension host ends, after its disposal or by a crash, with what    *)
(* was written; a batch on its way may still reach the server.             *)
Exit ==
  /\ host # "gone" /\ host' = "gone"
  /\ \E arrived \in (IF Outcomes = {"refused"} THEN {{}} ELSE SUBSET batches) :
       credited' = credited \union Ids(arrived)
  /\ queue' = durable
  /\ lost' = lost \union (Held \ (Range(durable) \union credited'))
  /\ pending' = <<>> /\ ticking' = FALSE /\ token' = FALSE
  /\ batches' = {} /\ drains' = {}
  /\ registering' = 0 /\ storing' = 0 /\ connects' = 0
  /\ UNCHANGED <<made, durable>>

Activate ==
  /\ host = "gone" /\ host' = "active"
  /\ UNCHANGED <<made, durable, memory, queue, credited, lost>>

Registration == Connected \/ Registered \/ RegisterFailed \/ Stored \/ StoreFailed
Reporting == Report \/ Flush \/ (\E b \in batches : Answer(b))
                    \/ (\E d \in drains : FinishDrain(d))

ReporterNext == (host # "gone" /\ (Reporting \/ Registration \/ Persist))
                \/ Dispose \/ Exit \/ Activate

ReporterSpec == ReporterInit /\ [][ReporterNext]_reporterVars

(* The timer ticks, and everything awaited is answered or times out;       *)
(* VS Code writes what it was given.                                       *)
ReporterFairness ==
  /\ WF_reporterVars(host # "gone" /\ Flush)
  /\ WF_reporterVars(host # "gone" /\ \E b \in batches : Answer(b))
  /\ WF_reporterVars(host # "gone" /\ Persist)
  /\ WF_reporterVars(host # "gone" /\ \E d \in drains : FinishDrain(d))
  /\ WF_reporterVars(host # "gone" /\ (Registered \/ RegisterFailed))
  /\ WF_reporterVars(host # "gone" /\ (Stored \/ StoreFailed))

FairReporterSpec == ReporterSpec /\ ReporterFairness

-----------------------------------------------------------------------------

Reports == 1..MaxReports

(* Type invariant.  The offline queue never exceeds its limit.             *)
ReporterTypes ==
  /\ host \in {"active", "disposed", "gone"}
  /\ made \in 0..MaxReports
  /\ pending \in Seq(Reports) /\ ticking \in BOOLEAN /\ token \in BOOLEAN
  /\ batches \subseteq Seq(Reports) /\ drains \subseteq Seq(Reports)
  /\ queue \in Seq(Reports) /\ Len(queue) <= MaxOffline
  /\ durable \in Seq(Reports) /\ Len(durable) <= MaxOffline
  /\ registering \in Nat /\ storing \in Nat
  /\ connects \in 0..MaxConnects /\ registering + storing <= connects
  /\ credited \subseteq Reports /\ lost \subseteq Reports

(* A report does not vanish between two awaits: it is credited, or still   *)
(* in memory or in the offline queue, unless the queue overflowed or the   *)
(* host ended with it in memory, or before it was written.                 *)
NothingVanishes == 1..made \subseteq Held \union credited \union lost

(* A report is in one place: it is never in two batches, nor queued        *)
(* offline while it waits to be sent.                                      *)
OnePlace ==
  LET places == {<<"pending", pending>>, <<"queue", queue>>}
                \union ({"batch"} \X batches) \union ({"drain"} \X drains) IN
  /\ \A p \in places : IsInjective(p[2])
  /\ \A p, q \in places : p # q => Range(p[2]) \intersect Range(q[2]) = {}

(* Every report is somewhere, and in one place.                            *)
ReportsKept == NothingVanishes /\ OnePlace

(* While the reporter runs, a report that waits or is being sent settles:  *)
(* it is credited, put offline, or lost with the host.                     *)
ReportsSettle ==
  \A r \in Reports :
    ticking /\ r \in Range(pending) \union Ids(batches)
      ~> r \in credited \union Range(queue) \union lost

(* The design documents: the offline queue is drained when the connection  *)
(* is restored, here when a new registration is about to call start().     *)
DrainedOnReconnect ==
  \A r \in Reports :
    r \in Range(queue) /\ storing > 0 /\ host = "active"
      ~> r \notin Range(queue) \/ host # "active"

(* stop() leaves nothing unflushed in memory: once it has run and all that *)
(* was awaited is over, every report is persisted.                         *)
StopPersists ==
  host = "disposed" /\ ~ticking /\ batches = {} /\ drains = {} => pending = <<>>

(* The documented data flow: the usage that waits in a running reporter is *)
(* posted and credited, unless the window ends first.                      *)
UsageIsCredited ==
  \A r \in Reports :
    ticking /\ r \in Range(pending) ~> r \in credited \/ host # "active"
===========================================================================
