------------------------------ MODULE Reporting ------------------------------
(***************************************************************************)
(* Durable traffic reporting of one node: internal/reporting (Controller   *)
(* and batchSpool) driven by internal/service (report ticker and shutdown  *)
(* flush), with the byte counter of internal/tracker it flushes and        *)
(* restores.                                                               *)
(*                                                                         *)
(* A batch is a record [id, n]: the stable traffic_batch_id and the amount *)
(* of traffic it carries (the per-user map is abstracted to its total).    *)
(* NoBatch stands for a nil pending pointer, an absent spool file, and a   *)
(* report that carries no traffic and therefore no BatchID.                *)
(*                                                                         *)
(* The disk is a visible file plus the set of contents the spool path may  *)
(* have after a power loss: a rename or an unlink whose directory was not  *)
(* fsynced may or may not survive.  The panel and the network are external *)
(* (docs/traffic-durable-replay.md): a sent report may be committed at any *)
(* later time, once per batch ID, and its answer may be lost.              *)
(***************************************************************************)
EXTENDS Integers

CONSTANTS MaxUsed,     \* bound: units of traffic metered
          MaxBatches,  \* bound: batch IDs generated
          MaxStops,    \* bound: process ends (crashes and exits)
          DirFaults    \* TRUE: the directory fsync of a save may fail

ASSUME ReportingAssumption ==
  /\ MaxUsed \in Nat
  /\ MaxBatches \in Nat
  /\ MaxStops \in Nat
  /\ DirFaults \in BOOLEAN

VARIABLES used,       \* traffic metered so far (history)
          tracker,    \* Tracker.pendingTraffic
          pending,    \* Controller.pending: of the live service, of the old one
          disk,       \* the spool file as the process sees it
          afterLoss,  \* the contents the file may have after a power loss
          skip,       \* backoff.skipRemaining
          calls,      \* the Sink.Report calls in progress, one per caller
          hadPending, \* PushSync's local variable
          mode,       \* where the service's main goroutine is
          nextId,     \* the next fresh batch ID
          stops,      \* process ends so far
          sent,       \* batches that ever left the process (history)
          settled,    \* batch IDs the panel has committed
          billed      \* traffic the panel has committed

vars == <<used, tracker, pending, disk, afterLoss, skip, calls, hadPending,
          mode, nextId, stops, sent, settled, billed>>

spoolVars == <<disk, afterLoss>>
panelVars == <<settled, billed>>

-----------------------------------------------------------------------------
(* Values                                                                  *)

\* Of a batch's payload the traffic alone: FlushTraffic hands over the map and
\* starts a new one.  Its list of devices is no part of it: it stays the
\* tracker's buffer and may change under a pending batch (DeviceReports).
NoBatch == [id |-> 0, n |-> 0]
Batches == [id : 1..MaxBatches, n : 1..MaxUsed] \cup {NoBatch}

\* The goroutine of PushAsync, the shutdown flush PushSync, and a goroutine
\* of PushAsync that outlived the service that started it.
Callers == {"async", "sync", "orphan"}
Owner(c) == IF c = "orphan" THEN "old" ELSE "live"
Idle == [batch |-> NoBatch, phase |-> "idle"]
Calls == [batch : Batches, phase : {"idle", "ready", "sent"}]

Modes == {"run",    \* in the select loop
          "stop",   \* in PushSync, first nextBatch ahead
          "first",  \* in PushSync, first report
          "next",   \* in PushSync, second nextBatch ahead
          "last",   \* in PushSync, last report
          "exited", \* Service.Run has returned
          "down"}   \* no process

-----------------------------------------------------------------------------
(* The spool: batchSpool.save and batchSpool.clear, outcome by outcome     *)

SaveOk(b) == disk' = b /\ afterLoss' = {b}

\* An error before the rename leaves the old file; after it the directory
\* fsync failed and the best-effort os.Remove did or did not work.
SaveFails(b) ==
  \/ UNCHANGED spoolVars
  \/ DirFaults /\ disk' = NoBatch /\ afterLoss' = afterLoss \cup {b, NoBatch}
  \/ DirFaults /\ disk' = b /\ afterLoss' = afterLoss \cup {b}

ClearOk == disk' = NoBatch /\ afterLoss' = {NoBatch}

ClearFails ==
  \/ UNCHANGED spoolVars
  \/ disk' = NoBatch /\ afterLoss' = afterLoss \cup {NoBatch}

Fresh == [id |-> nextId, n |-> tracker]

-----------------------------------------------------------------------------
Init ==
  /\ used = 0 /\ tracker = 0
  /\ pending = [o \in {"live", "old"} |-> NoBatch]
  /\ disk = NoBatch /\ afterLoss = {NoBatch}
  /\ skip = 0
  /\ calls = [c \in Callers |-> Idle]
  /\ hadPending = FALSE
  /\ mode = "run"
  /\ nextId = 1 /\ stops = 0
  /\ sent = {} /\ settled = {} /\ billed = 0

\* trackAndEnforce -> Tracker.Process: one more unit is metered.
Track ==
  /\ mode = "run" /\ used < MaxUsed
  /\ used' = used + 1
  /\ tracker' = tracker + 1
  /\ UNCHANGED <<pending, spoolVars, skip, calls, hadPending, mode, nextId,
                 stops, sent, panelVars>>

-----------------------------------------------------------------------------
(* PushAsync, on the report ticker of the select loop                      *)

\* backoff.onFailure
Backoff(s) == IF s = 0 THEN 1 ELSE IF s < 8 THEN 2 * s ELSE s

AsyncIdle == mode = "run" /\ calls["async"] = Idle

\* The attempt is consumed by the backoff: no flush.
AsyncSkips ==
  /\ AsyncIdle /\ skip > 0
  /\ skip' = skip - 1
  /\ UNCHANGED <<used, tracker, pending, spoolVars, calls, hadPending, mode,
                 nextId, stops, sent, panelVars>>

Launch(c, b) == calls' = [calls EXCEPT ![c] = [batch |-> b, phase |-> "ready"]]

\* Mutant: a retry is rebuilt from the tracker under the old batch ID.
ReplayWithNewBytes == [id |-> pending["live"].id,
                       n |-> pending["live"].n + tracker]
\* nextBatch when a batch is pending: the very same one.
Replayed == pending["live"]

\* nextBatch, a batch is pending: replay it.
AsyncReplays ==
  /\ AsyncIdle /\ skip = 0
  /\ pending["live"] # NoBatch
  /\ Launch("async", Replayed)
  /\ UNCHANGED <<used, tracker, pending, spoolVars, skip, hadPending, mode,
                 nextId, stops, sent, panelVars>>

\* nextBatch, nothing to report: the report carries no traffic and no ID.
AsyncEmpty ==
  /\ AsyncIdle /\ skip = 0
  /\ pending["live"] = NoBatch /\ tracker = 0
  /\ Launch("async", NoBatch)
  /\ UNCHANGED <<used, tracker, pending, spoolVars, skip, hadPending, mode,
                 nextId, stops, sent, panelVars>>

\* Mutant: the flushed counters stay in the tracker.
FlushKeeps == UNCHANGED tracker
\* prepareReportBatch -> FlushTraffic empties the tracker.
Flush == tracker' = 0

\* nextBatch's durable branch: save, then remember as pending.
Seal(b) ==
  /\ SaveOk(b)
  /\ pending' = [pending EXCEPT !["live"] = b]

\* nextBatch, nothing is pending and there is traffic.
CanSeal == pending["live"] = NoBatch /\ tracker > 0 /\ nextId <= MaxBatches

AsyncFresh ==
  /\ AsyncIdle /\ skip = 0 /\ CanSeal
  /\ Flush
  /\ Seal(Fresh)
  /\ nextId' = nextId + 1
  /\ Launch("async", Fresh)
  /\ UNCHANGED <<used, skip, hadPending, mode, stops, sent, panelVars>>

\* Mutant: onFailure forgets to put the flushed traffic back.
NoRestore == tracker' = 0
\* onFailure -> RestoreTraffic of the whole flushed batch.
Restore == UNCHANGED tracker

\* save failed: back off and restore; FlushTraffic and RestoreTraffic cancel.
AsyncSaveFails ==
  /\ AsyncIdle /\ skip = 0 /\ CanSeal
  /\ SaveFails(Fresh)
  /\ Restore
  /\ nextId' = nextId + 1
  /\ skip' = Backoff(skip)
  /\ UNCHANGED <<used, pending, calls, hadPending, mode, stops, sent, panelVars>>

-----------------------------------------------------------------------------
(* Sink.Report, its answer and acknowledge, for every caller               *)

\* The request leaves the process.
Send(c) ==
  /\ calls[c].phase = "ready"
  /\ calls' = [calls EXCEPT ![c].phase = "sent"]
  /\ sent' = IF calls[c].batch = NoBatch THEN sent
                                         ELSE sent \cup {calls[c].batch}
  /\ UNCHANGED <<used, tracker, pending, spoolVars, skip, hadPending, mode,
                 nextId, stops, panelVars>>

\* External: the panel commits a report it received, once per batch ID.
PanelCommit(b) ==
  /\ b.id \notin settled
  /\ settled' = settled \cup {b.id}
  /\ billed' = billed + b.n
  /\ UNCHANGED <<used, tracker, pending, spoolVars, skip, calls, hadPending,
                 mode, nextId, stops, sent>>

\* Mutant: PushSync returns once the old batch is acknowledged.
ReturnAtOnce(c, ok) ==
  /\ calls' = [calls EXCEPT ![c] = Idle]
  /\ mode' = IF c # "sync" THEN mode ELSE "exited"
  /\ skip' = CASE c # "async" -> skip
               [] ok          -> 0
               [] OTHER       -> Backoff(skip)

\* Where the caller goes on once Report and acknowledge have returned: the
\* goroutines end and release `active`; PushSync continues or returns.
Return(c, ok) ==
  /\ calls' = [calls EXCEPT ![c] = Idle]
  /\ mode' = IF c # "sync" THEN mode
             ELSE IF ok /\ mode = "first" /\ hadPending THEN "next"
             ELSE "exited"
  /\ skip' = CASE c # "async" -> skip
               [] ok          -> 0
               [] OTHER       -> Backoff(skip)

\* A 2xx answer: only for a committed batch (or one without traffic).
Answered(c) ==
  /\ calls[c].phase = "sent"
  /\ calls[c].batch.id \in settled \cup {0}

\* acknowledge's condition for clearing the pending batch.
Matches(c) ==
  /\ calls[c].batch.id # 0
  /\ pending[Owner(c)].id = calls[c].batch.id

\* Report returned nil.
Acked(c) == Answered(c)

AckClears(c) ==
  /\ Acked(c) /\ Matches(c)
  /\ ClearOk
  /\ pending' = [pending EXCEPT ![Owner(c)] = NoBatch]
  /\ Return(c, TRUE)
  /\ UNCHANGED <<used, tracker, hadPending, nextId, stops, sent, panelVars>>

\* spool.clear failed: the batch stays pending, acknowledge returns an error.
AckClearFails(c) ==
  /\ Acked(c) /\ Matches(c)
  /\ ClearFails
  /\ Return(c, FALSE)
  /\ UNCHANGED <<used, tracker, pending, hadPending, nextId, stops, sent,
                 panelVars>>

\* Nothing to acknowledge: no ID, or another caller already did.
AckIgnored(c) ==
  /\ Acked(c) /\ ~Matches(c)
  /\ Return(c, TRUE)
  /\ UNCHANGED <<used, tracker, pending, spoolVars, hadPending, nextId, stops,
                 sent, panelVars>>

\* The request or its answer was lost, timed out or refused.  The failure
\* notice carries no traffic: the tagged batch stays pending.
ReportFails(c) ==
  /\ calls[c].phase # "idle"
  /\ Return(c, FALSE)
  /\ UNCHANGED <<used, tracker, pending, spoolVars, hadPending, nextId, stops,
                 sent, panelVars>>

-----------------------------------------------------------------------------
(* Shutdown flush, process ends and restarts                               *)

\* ctx.Done in the select loop: PushSync reads whether a batch is pending.
\* Bound: the last of the MaxStops + 1 process lives is not shut down.
Shutdown ==
  /\ mode = "run" /\ stops < MaxStops
  /\ hadPending' = (pending["live"] # NoBatch)
  /\ mode' = "stop"
  /\ UNCHANGED <<used, tracker, pending, spoolVars, skip, calls, nextId, stops,
                 sent, panelVars>>

SyncNextBatch == mode \in {"stop", "next"}
SyncAdvance == mode' = IF mode = "stop" THEN "first" ELSE "last"

SyncReplays ==
  /\ SyncNextBatch /\ pending["live"] # NoBatch
  /\ Launch("sync", pending["live"])
  /\ SyncAdvance
  /\ UNCHANGED <<used, tracker, pending, spoolVars, skip, hadPending, nextId,
                 stops, sent, panelVars>>

SyncEmpty ==
  /\ SyncNextBatch /\ pending["live"] = NoBatch /\ tracker = 0
  /\ Launch("sync", NoBatch)
  /\ SyncAdvance
  /\ UNCHANGED <<used, tracker, pending, spoolVars, skip, hadPending, nextId,
                 stops, sent, panelVars>>

SyncFresh ==
  /\ SyncNextBatch /\ CanSeal
  /\ Flush
  /\ Seal(Fresh)
  /\ nextId' = nextId + 1
  /\ Launch("sync", Fresh)
  /\ SyncAdvance
  /\ UNCHANGED <<used, skip, hadPending, stops, sent, panelVars>>

\* pushReportSync logs the error; the flushed snapshot is not restored.
SyncSaveFails ==
  /\ SyncNextBatch /\ CanSeal
  /\ SaveFails(Fresh)
  /\ tracker' = 0
  /\ nextId' = nextId + 1
  /\ mode' = "exited"
  /\ UNCHANGED <<used, pending, skip, calls, hadPending, stops, sent, panelVars>>

\* A crash, a kill, a power loss, or the exit that follows Service.Run: every
\* goroutine and all memory are gone, and the file is any of its possible
\* contents.  What is found on disk afterwards is taken to be durable.
ProcessEnds ==
  /\ mode # "down" /\ stops < MaxStops
  /\ stops' = stops + 1
  /\ mode' = "down"
  /\ disk' \in afterLoss
  /\ afterLoss' = {disk'}
  /\ tracker' = 0 /\ skip' = 0 /\ hadPending' = FALSE
  /\ pending' = [o \in {"live", "old"} |-> NoBatch]
  /\ calls' = [c \in Callers |-> Idle]
  /\ UNCHANGED <<used, nextId, sent, panelVars>>

\* Mutant: the spool file is not read back at startup.
LoadsNothing == NoBatch
\* openBatchSpool's result.
Loaded == disk

\* A new process: NewDurable loads the pending batch.
Boot ==
  /\ mode = "down"
  /\ mode' = "run"
  /\ pending' = [pending EXCEPT !["live"] = Loaded]
  /\ UNCHANGED <<used, tracker, spoolVars, skip, calls, hadPending, nextId,
                 stops, sent, panelVars>>

\* The config watcher (runWithReload) or the machine orchestrator replaces
\* the service inside the process.  Nothing waits for a report goroutine
\* still in progress: it keeps its own controller and spool path.
\* Bound: at most one such goroutine at a time.
Restart ==
  /\ mode = "exited"
  /\ calls["orphan"] = Idle
  /\ mode' = "run"
  /\ pending' = [o \in {"live", "old"} |-> IF o = "live" THEN disk ELSE pending["live"]]
  /\ calls' = [calls EXCEPT !["orphan"] = calls["async"], !["async"] = Idle]
  /\ tracker' = 0 /\ skip' = 0 /\ hadPending' = FALSE
  /\ UNCHANGED <<used, spoolVars, nextId, stops, sent, panelVars>>

-----------------------------------------------------------------------------
PushAsync == AsyncSkips \/ AsyncReplays \/ AsyncEmpty \/ AsyncFresh \/ AsyncSaveFails
PushSync == Shutdown \/ SyncReplays \/ SyncEmpty \/ SyncFresh \/ SyncSaveFails
Report(c) == Send(c) \/ AckClears(c) \/ AckClearFails(c) \/ AckIgnored(c) \/ ReportFails(c)

Next ==
  \/ Track
  \/ PushAsync
  \/ PushSync
  \/ \E c \in Callers : Report(c)
  \/ \E b \in sent : PanelCommit(b)
  \/ ProcessEnds
  \/ Boot

Spec == Init /\ [][Next]_vars

\* With services restarted inside the process.
ReloadSpec == Init /\ [][Next \/ Restart]_vars

\* The report ticker fires again and again, goroutines run, the process is
\* started again by its supervisor, the panel commits what reaches it, and an
\* attempt that is repeated for ever gets through and is answered some time.
Fairness ==
  /\ WF_vars(PushAsync)
  /\ \A c \in Callers : SF_vars(Send(c)) /\ SF_vars(AckClears(c)) /\ SF_vars(AckIgnored(c))
  /\ WF_vars(SyncReplays \/ SyncEmpty \/ SyncFresh)
  /\ WF_vars(mode = "exited" /\ ProcessEnds)
  /\ WF_vars(Boot)
  /\ WF_vars(\E b \in sent : PanelCommit(b))

FairSpec == Spec /\ Fairness

-----------------------------------------------------------------------------
(* Properties                                                              *)

\* The batch that will be replayed: in memory, or on disk between processes.
Carrier == IF mode = "down" THEN disk ELSE pending["live"]
Unsettled(b) == IF b.id \in settled THEN 0 ELSE b.n

\* Every variable has its type; in particular no batch is ever tagged, saved
\* or sent without traffic (openBatchSpool would refuse to start on it).
TypeOK ==
  /\ used \in 0..MaxUsed /\ tracker \in 0..MaxUsed /\ billed \in Nat
  /\ pending \in [{"live", "old"} -> Batches]
  /\ disk \in Batches /\ afterLoss \in SUBSET Batches
  /\ skip \in Nat
  /\ calls \in [Callers -> Calls]
  /\ hadPending \in BOOLEAN
  /\ mode \in Modes
  /\ nextId \in 1..(MaxBatches + 1) /\ stops \in 0..MaxStops
  /\ sent \in SUBSET (Batches \ {NoBatch})
  /\ settled \in SUBSET (1..MaxBatches)

\* The retry backoff never skips two ticks in a row: an attempt is made only
\* when it is zero, so the doubling in onFailure never comes into play and a
\* panel that keeps failing is asked again at every second report tick.
BackoffIsOneTick == skip <= 1 /\ (calls["async"] # Idle => skip = 0)

\* What the panel has billed, what will be replayed and what the tracker will
\* report never add up to more than was metered: replays after failures,
\* restarts, half-failed saves and late commits bill no unit twice.
NoDoubleBilling == billed + Unsettled(Carrier) + tracker <= used

\* Whatever carries a batch ID - sent, in memory or possibly on disk - carries
\* the same traffic under it (docs/traffic-durable-replay.md:3, "immutable
\* counters"; the panel deduplicates by ID, so other counters would be lost).
\* Nothing is said of the rest of the payload.
SameTraffic ==
  \A a, b \in sent \cup afterLoss \cup {pending["live"]} :
    a.id = b.id => a = b

\* A batch that left the process and is not committed is the one that will be
\* replayed, and no power loss can take it off the disk: it was saved and
\* fsynced before Sink.Report, and nothing newer is sent before it.
DeliveredIsSpooled ==
  \A b \in sent : b.id \notin settled => Carrier = b /\ afterLoss = {b}

\* Units go missing only where docs/traffic-durable-replay.md says so: when
\* the service stops, and then no more than the bytes not yet flushed to a
\* saved batch.
Missing == used - (billed + Unsettled(Carrier) + tracker)
StopStep == mode' \in {"down", "exited"} \/ (mode = "exited" /\ mode' = "run")
LosesOnlyUnflushed ==
  [][Missing' <= Missing + (IF StopStep THEN tracker ELSE 0)]_vars

\* A shutdown flush that succeeds leaves nothing behind, also when it started
\* with a batch pending or the report goroutine answered meanwhile.
CleanShutdown ==
  [][ (AckClears("sync") \/ AckIgnored("sync")) /\ mode' = "exited"
      => pending'["live"] = NoBatch /\ tracker' = 0 ]_vars

\* A batch that became pending is eventually committed by the panel, across
\* failures, backoff, shutdowns and crashes.
PendingDelivered ==
  \A i \in 1..MaxBatches : pending["live"].id = i ~> i \in settled

\* The controller implements the ledger of module TrafficLedger.
Ledger == INSTANCE TrafficLedger WITH
            metered <- used, buffer <- tracker,
            claim <- Unsettled(Carrier), billed <- billed
\* Every behaviour of the controller is one of the ledger: only the end of a
\* process loses units, and only units that were in no sealed batch.
LedgerSpec == Ledger!Spec

-----------------------------------------------------------------------------
(* The inductive invariant of a deployment without in-process restarts     *)

\* Fresh IDs are fresh.
IdsBelowNext ==
  /\ \A b \in sent \cup afterLoss \cup {pending["live"]} : b.id < nextId
  /\ \A i \in settled : i < nextId /\ \E b \in sent : b.id = i

\* A pending batch was saved and confirmed; only a commit by the panel can
\* have let its file go.
PendingIsSaved ==
  LET p == pending["live"] IN
  p # NoBatch => /\ afterLoss \subseteq {p, NoBatch}
                 /\ p.id \notin settled => afterLoss = {p}

\* A report in progress carries the pending batch or one already delivered
\* and committed.
CallsCarryPending ==
  /\ calls["orphan"] = Idle
  /\ \A c \in Callers : LET b == calls[c].batch IN
       b # NoBatch => b = pending["live"] \/ (b \in sent /\ b.id \in settled)

\* The visible file is one of the contents a power loss may leave; between
\* two processes there is nothing else.
DiskShape ==
  /\ disk \in afterLoss
  /\ mode = "down" =>
       /\ afterLoss = {disk} /\ pending["live"] = NoBatch /\ tracker = 0
       /\ \A c \in Callers : calls[c] = Idle

\* Whatever a power loss may turn up was metered and never billed.
SurvivorsUnbilled == \A b \in afterLoss : billed + Unsettled(b) <= used

\* The strengthening of NoDoubleBilling, SameTraffic and DeliveredIsSpooled
\* that every step preserves.
IndInv ==
  /\ IdsBelowNext /\ PendingIsSaved /\ CallsCarryPending
  /\ DiskShape /\ SurvivorsUnbilled
  /\ NoDoubleBilling /\ SameTraffic /\ DeliveredIsSpooled
=============================================================================
