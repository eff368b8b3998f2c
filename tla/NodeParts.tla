------------------------------ MODULE NodeParts ------------------------------
(***************************************************************************)
(* The parts of a node that share no state with each other, side by side,  *)
(* each with constants of its own: what is proved of them in general is    *)
(* stated here, and MCParts gives the constants values.  Layout is the     *)
(* part whose module this one extends.                                     *)
(***************************************************************************)
EXTENDS Layout

CONSTANTS Users, Addresses, Conns,      \* ConnTracker, SpeedLimits, LimitDispatcher
          UserMaps, DeviceLimit, MaxTrackers, MaxCarried,
          Tables, Floor, MaxBuffer, MaxEpochs, MaxLimiters,
          Links, Limits, MaxCounters, MaxCounted,
          Devices, Hash, WireCap,       \* DeviceReports
          StatusCap, EventCap, MaxClients,                       \* PushLink
          Targets, RuleSets, ReportAll, Native, BatchMax, AuditCap, AuditBatches, MaxEvents,
          Configs, MaxIssued,           \* Cert
          Requests, Op, OpsCap, CacheCap, MaxRuns,               \* NodeOps
          Contents, MaxEdits, MaxSignals,                        \* ConfigReload
          MaxUsed, MaxBatches, MaxStops, DirFaults               \* Reporting

VARIABLES current, trackers, conns, global, lastSeen, metered, carried,
          limits, indexed, buckets, limiters, updating, epoch, callers,
          deviceLimits, limitedIPs, unlimitedIPs, counters, links, connCount, panicked,
          live, lastHash, buffer, connected, wire, report, pending, panel, settled, stopped,
          offered, clients, made, control, statuses, events, devices, serving, noise,
          panelRules, rules, waiting, flush, observed, dropped, reported, received,
          cfg, mat, acme, renewed, disk, loop, renewal, issued, kernel, poll,
          config, running, requests, drained, cache, runs, told,
          file, edits, root, main, open, services, failed, watcher, loads, reloadCh, new,
          signals, sigCh, handler, watchdog, health, missed,
          used, tracker, batch, spool, afterLoss, skip, calls, hadPending, mode, nextId, stops,
          sent, committed, billed

connectionVars == <<current, trackers, conns, global, lastSeen, metered, carried>>
speedVars == <<limits, indexed, buckets, limiters, updating, epoch, callers>>
linkVars == <<deviceLimits, limitedIPs, unlimitedIPs, counters, links, connCount, panicked>>
deviceVars == <<live, lastHash, buffer, connected, wire, report, pending, panel, settled, stopped>>
pushVars == <<offered, clients, made, control, statuses, events, devices, serving, noise>>
auditVars == <<panelRules, rules, waiting, flush, observed, dropped, reported, received>>
certVars == <<cfg, mat, acme, renewed, disk, loop, renewal, issued, kernel, poll>>
opsVars == <<config, running, requests, drained, cache, runs, told>>
reloadVars == <<file, edits, root, main, open, services, failed, watcher, loads, reloadCh, new,
                signals, sigCh, handler, watchdog, health, missed>>
reportVars == <<used, tracker, batch, spool, afterLoss, skip, calls, hadPending, mode, nextId,
                stops, sent, committed, billed>>

-----------------------------------------------------------------------------
(* The parts                                                               *)

CT == INSTANCE ConnTracker
SL == INSTANCE SpeedLimits
LD == INSTANCE LimitDispatcher WITH Emails <- Users
DR == INSTANCE DeviceReports
PL == INSTANCE PushLink
AU == INSTANCE Audit WITH
        QueueCap <- AuditCap, MaxBatches <- AuditBatches, queue <- waiting, events <- observed
CE == INSTANCE Cert
NO == INSTANCE NodeOps WITH QueueCap <- OpsCap, queue <- requests
CR == INSTANCE ConfigReload WITH live <- open

\* Services are replaced inside the process.
RE == INSTANCE Reporting WITH pending <- batch, disk <- spool, settled <- committed

ASSUME PartsAssumption ==
  /\ CT!ConnTrackerAssumption /\ SL!SpeedLimitsAssumption /\ LD!LimitDispatcherAssumption
  /\ DR!DeviceReportsAssumption /\ PL!PushLinkAssumption /\ AU!AuditAssumption
  /\ CE!CertAssumption /\ NO!NodeOpsAssumption /\ CR!ConfigReloadAssumption
  /\ RE!ReportingAssumption

-----------------------------------------------------------------------------
(* What holds of each part, as its module states it                        *)

\* ConnTracker: addresses and counts are those of the open connections.
PresenceIsExact == CT!PresenceIsExact

\* ConnTracker: nobody is charged twice, and nothing is forgotten.
MeteredOnce == CT!MeteredOnce

\* SpeedLimits: the connections of a user share one budget, of his speed.
SharedBudget == SL!SharedBudget

\* SpeedLimits: nobody waits forever for a buffer that fits the floor, nor for
\* one that was cut to the burst since the last update.
StrandedForCause == SL!StrandedForCause

\* LimitDispatcher: a device with a link is counted.
DevicesAreCounted == LD!DevicesAreCounted

\* DeviceReports: the panel knows the last devices flushed.
LastFlushIsTold == DR!LastFlushIsTold

\* PushLink: one client goes on connecting, and it can be cancelled.
OneLink == PL!OneLink

\* PushLink: what the Service believes of the connection is true.
StatusFollows == PL!StatusFollows

\* Audit: every observation waits, is reported or is counted as dropped.
EventsAccounted == AU!EventsAccounted

\* Cert: a certificate comes with its key.
PairIsWhole == CE!PairIsWhole

\* Cert: the kernel runs with the material the manager holds.
KernelHasMaterial == CE!KernelHasMaterial

\* NodeOps: a request is carried out once and has one verdict.
OpsRunOnce == NO!OpsRunOnce

\* ConfigReload: the services run with the file as it is.
RunsTheFile == CR!RunsTheFile

\* Reporting, with services replaced inside the process: a report goroutine of
\* the old service bills nothing twice, changes no batch's traffic, and a shutdown
\* flush that succeeds leaves nothing behind.
ReloadKeepsBooks ==
  [][ /\ RE!NoDoubleBilling' /\ RE!SameTraffic'
      /\ (RE!AckClears("sync") \/ RE!AckIgnored("sync")) /\ mode' = "exited"
           => batch'["live"] = RE!NoBatch /\ tracker' = 0 ]_reportVars
=============================================================================
