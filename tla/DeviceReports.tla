---------------------------- MODULE DeviceReports ----------------------------
(***************************************************************************)
(* The addresses in use, on their way to the panel: FlushAliveIPs and      *)
(* RestoreAliveIPs of internal/tracker, prepareReportBatch and the device  *)
(* tick of the Service, and the two transports, the report (REST) and the  *)
(* device report (WebSocket).  Both draw on one change detector.           *)
(*                                                                         *)
(* The tracker hands out its buffer, not a copy: a batch that waits for    *)
(* its replay holds the buffer the next flush fills.  The Service loop     *)
(* flushes while the goroutine of a report reads.  Traffic, the identity   *)
(* of a batch and its retries are in Reporting; here a batch either has    *)
(* traffic, and is kept until it is acknowledged, or has none.             *)
(***************************************************************************)
EXTENDS Integers, Sequences

CONSTANTS Devices,  \* pairs of a user and an address
          Hash,     \* calcAliveIPsHash, {} has a hash of its own
          WireCap   \* bound: the WebSocket's queue of messages

DeviceReportsAssumption ==
  /\ DOMAIN Hash = SUBSET Devices
  /\ \A s \in SUBSET Devices : Hash[s] = Hash[{}] => s = {}
  /\ WireCap \in Nat

VARIABLES live,       \* the snapshot Process publishes
          lastHash,   \* Tracker.lastAliveIPsHash
          buffer,     \* Tracker.aliveIPsBuf
          connected,  \* the push link
          wire,       \* device reports written, not yet read by the panel
          report,     \* the goroutine of the report
          pending,    \* the batch with traffic that is not acknowledged
          panel,      \* the devices the panel was told of last
          settled,    \* nothing was lost or overtaken since the last flush (history)
          stopped     \* the runtime's verdict on a map read and written at once

deviceVars == <<live, lastHash, buffer, connected, wire, report, pending, panel, settled, stopped>>

Free == [pc |-> "idle", shared |-> FALSE, alive |-> {}]
NoBatch == [source |-> "none", alive |-> {}]

\* A batch restored from the spool has devices of its own, one
\* without a change none.
Init ==
  /\ live = {} /\ lastHash = Hash[{}] /\ buffer = {} /\ panel = {}
  /\ connected = FALSE /\ wire = << >> /\ report = Free /\ settled = TRUE /\ stopped = FALSE
  /\ \/ pending = NoBatch
     \/ \E s \in SUBSET Devices : pending = [source |-> "own", alive |-> s]

-----------------------------------------------------------------------------
(* The tracker                                                             *)

\* Process publishes what the kernel says.
Process(s) ==
  /\ live' = s
  /\ UNCHANGED <<lastHash, buffer, connected, wire, report, pending, panel, settled, stopped>>

Changed == Hash[live] # lastHash

\* Mutant: the entries of the last flush stay.
NotCleared(old, new) == old \cup new
Refilled(old, new) == new

\* FlushAliveIPs of a change: the buffer is filled in place.
Flush ==
  /\ lastHash' = Hash[live]
  /\ buffer' = Refilled(buffer, live)

-----------------------------------------------------------------------------
(* The device tick                                                         *)

Overtakes == report.pc # "idle" /\ (report.shared \/ report.alive # {})

\* A flush meets the goroutine that reads the buffer: it reads a mixture, or
\* the runtime stops the process.
Torn ==
  IF report.pc = "reading" /\ report.shared
  THEN /\ stopped' \in BOOLEAN
       /\ \E s \in SUBSET (buffer \cup live) : report' = [report EXCEPT !.alive = s]
  ELSE UNCHANGED <<report, stopped>>

\* sendDeviceBatch; a full queue drops the message.
DeviceTick ==
  /\ connected /\ Changed /\ Flush /\ Torn
  /\ wire' = IF Len(wire) < WireCap THEN Append(wire, live) ELSE wire
  /\ settled' = (Len(wire) < WireCap /\ ~Overtakes)
  /\ UNCHANGED <<live, connected, pending, panel>>

Arrives ==
  /\ wire # << >>
  /\ panel' = Head(wire) /\ wire' = Tail(wire)
  /\ UNCHANGED <<live, lastHash, buffer, connected, report, pending, settled, stopped>>

Link ==
  /\ connected' = ~connected
  /\ wire' = << >> /\ settled' = (settled /\ wire = << >>)
  /\ UNCHANGED <<live, lastHash, buffer, report, pending, panel, stopped>>

-----------------------------------------------------------------------------
(* The report tick                                                         *)

\* PushAsync with nothing pending: nextBatch prepares, and keeps what has
\* traffic.  No change, no devices.
ReportTick(traffic) ==
  /\ report.pc = "idle" /\ pending.source = "none"
  /\ IF Changed
     THEN Flush /\ settled' = (live # {} /\ wire = << >>)
     ELSE UNCHANGED <<lastHash, buffer, settled>>
  /\ report' = [pc |-> "reading", shared |-> Changed, alive |-> IF Changed THEN live ELSE {}]
  /\ pending' = IF traffic THEN [NoBatch EXCEPT !.source = IF Changed THEN "buffer" ELSE "own"] ELSE NoBatch
  /\ UNCHANGED <<live, connected, wire, panel, stopped>>

\* The batch could not be saved: its devices go back to the buffer, where
\* they are already, and nothing is sent.
SaveFails ==
  /\ report.pc = "idle" /\ pending.source = "none" /\ Changed /\ Flush
  /\ settled' = FALSE
  /\ UNCHANGED <<live, connected, wire, report, pending, panel, stopped>>

\* PushAsync with a batch pending.
ReplayTick ==
  LET alive == IF pending.source = "buffer" THEN buffer ELSE pending.alive IN
    /\ report.pc = "idle" /\ pending.source # "none"
    /\ report' = [pc |-> "reading", shared |-> pending.source = "buffer", alive |-> alive]
    /\ settled' = (settled /\ alive \in {{}, buffer} /\ wire = << >>)
    /\ UNCHANGED <<live, lastHash, buffer, connected, wire, pending, panel, stopped>>

\* The body is marshalled.
Marshalled ==
  /\ report.pc = "reading"
  /\ report' = [report EXCEPT !.pc = "flight"]
  /\ UNCHANGED <<live, lastHash, buffer, connected, wire, pending, panel, settled, stopped>>

\* RestoreAliveIPs adds the devices of a report without an answer to the
\* buffer, which changes it only for those of the spool; the change detector
\* stays.
Restored == IF pending.source = "own" THEN buffer \cup pending.alive ELSE buffer

\* The panel has the report; the answer may be lost.  No devices in it leave
\* what it knows.
Received(answered) ==
  /\ report.pc = "flight"
  /\ panel' = IF report.alive = {} THEN panel ELSE report.alive
  /\ report' = Free
  /\ pending' = IF answered THEN NoBatch ELSE pending
  /\ buffer' = IF answered THEN buffer ELSE Restored
  /\ UNCHANGED <<live, lastHash, connected, wire, settled, stopped>>

\* The panel never sees it.
Lost ==
  /\ report.pc = "flight"
  /\ report' = Free
  /\ buffer' = Restored
  /\ settled' = (report.alive = {} /\ pending.source # "own" /\ settled)
  /\ UNCHANGED <<live, lastHash, connected, wire, pending, panel, stopped>>

Next ==
  /\ ~stopped
  /\ \/ \E s \in SUBSET Devices : Process(s)
     \/ DeviceTick \/ Arrives \/ Link
     \/ \E traffic \in BOOLEAN : ReportTick(traffic)
     \/ SaveFails \/ ReplayTick \/ Marshalled
     \/ \E answered \in BOOLEAN : Received(answered)
     \/ Lost

Spec == Init /\ [][Next]_deviceVars

-----------------------------------------------------------------------------
(* Properties                                                              *)

\* With two transports on one change detector the panel still knows the last
\* devices flushed, once nothing is on its way, unless one of the sends since
\* was lost, refused or overtaken; the detector would not tell them again.
LastFlushIsTold ==
  settled /\ wire = << >> /\ report.pc = "idle" => panel = buffer /\ Hash[panel] = lastHash
=============================================================================
