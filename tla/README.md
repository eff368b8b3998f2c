# TX-Node: TLA+ models, model checking and proofs

TX-Node runs proxy nodes (a sing-box or Xray kernel) for a panel: it fetches each node's
configuration and users, keeps the kernel in step, meters traffic and reports it back.
This directory models the parts of that program where order, failure and concurrency
decide about correctness. Source paths are relative to `src/`.

## 1. Inventory

| Component | State it keeps | Operations | Talks to | What is hard | What makes it correct | Module |
|---|---|---|---|---|---|---|
| traffic reporting (`internal/reporting`, `service/report_adapter.go`) | pending batch, active flag, backoff, spool file | PushAsync, PushSync, acknowledge, nextBatch, spool save/clear/open | tracker (flush, restore), panel (report) | crash at any file operation, lost answers, shutdown racing a report, in-process reload | nothing billed twice, one amount of traffic per batch ID, only unflushed traffic lost | `Reporting` |
| tracker (`internal/tracker`) | last counters per user, traffic per user, alive IPs, change detector | Process, FlushTraffic, RestoreTraffic, FlushAliveIPs, RestoreAliveIPs | kernels (counters), reporting | counters that restart, flush and restore around failed reports, two transports on one detector | every byte is counted once; the panel knows the last devices | `ConnTracker`, `Reporting`, `DeviceReports` |
| node synchronisation (`internal/nodesync`, `service/sync_adapter.go`) | poll in flight, backoff, resync flag, one buffered result | Poll, RequestResync, CompleteResync | control plane, select loop | polls overlap pushes, stale captured hash, partial failure | the node ends up with what the panel holds | `NodeSync` |
| panel client (`internal/panel/client.go`) | ETags of configuration and users | Handshake, GetConfig, GetUsers, Report | panel | ETag committed before the result is used | a 304 never hides an unseen version | `NodeSync` |
| push (`internal/pushsync`, `internal/panel/ws.go`, `controlplane/panel.go`) | client, cancel function, event and status channels, time of disconnection | Start, Stop, Discover, ObserveStatus, Run, callbacks | panel, select loop | full channels, reconnects, clients that close slowly | a dropped event is made up for; one client connects, and it can be cancelled | `NodeSync`, `PushLink` |
| service (`internal/service`) | last configuration and hash, tickers, the components above | Run (select loop), initialSetup, handleWSEvent, applyUserUpdate, applyUserDelta, device reports | everything in a node | one failing step of several; rollback | kernel and desired state agree | each case in its component's module |
| desired users (`internal/userstate`) | users, hash | Replace, Restore, Merge, Subtract | limiters, service | rollback | limits, hash and users change together | `KernelUsers`, `NodeSync` |
| kernel lifecycle and kernels (`internal/kernellifecycle`, `internal/kernel`) | running instance, users, inbound, counters | Start, Reload, Stop, AddUsers, RemoveUsers, UpdateUsers | service | a failed hot swap, start before stop, UUID changes | the kernel admits exactly the desired users | `KernelUsers`, `NodeSync` |
| connection tracker (`kernel/singbox/conntracker.go`) | connections, addresses and counters per user, one tracker per kernel start | device gate, register, transfer, close, user map and global devices replaced | kernels, tracker | users who leave and return, kernels that drain, gate and count in two steps | counts are those of the open connections; metered once | `ConnTracker` |
| limiters (`internal/limiter`) | speeds and device limits per user, token buckets | UpdateUsers, UpdateBuckets, GetLimiter | kernels, userstate | check then act against an update in two steps | one budget per user, no small buffer waits for ever | `SpeedLimits` |
| dispatcher (`kernel/xray/dispatcher.go`) | addresses of limited and unlimited users, links | checkDeviceLimit, addConn, delConn, UpdateLimits | Xray | admission and count in two sections, limits that change under links | a device with a link is counted | `LimitDispatcher` |
| machine mode (`internal/machine`, `controlplane/mailbox.go`) | node instances, backoffs, mailboxes with baseline and pending operations | Run, startNode, rediscover, Apply, DrainIfReady | panel, one service per node | late exits of old instances, restarts, bounded mailboxes | one live instance per assigned node; draining the mailbox equals applying every event | `Machine`, `Mailbox` |
| process (`cmd/tx-node`, `config/watcher.go`) | running services, reload channel, signals, health server | runWithReload, watcher | service | signals and edits during a reload, overlapping loads | the services run with the file as it is | `ConfigReload` |
| configuration (`internal/config`) | the file and what became of it: identities, directories, nodes | LoadRoot, defaults, validation, ExpandNodes, spool path | process, service | defaults that depend on other sections, collisions of state between services | a service keeps its own state across edits | `Layout` |
| certificates (`internal/cert`, `internal/certcoord`) | mode, PEM material, two files, renewed flag, ACME instance | Start, Reconfigure, ConsumeRenewal, ACME events | service, kernel | renewal racing reconfiguration, crash between two files | a certificate comes with its key; the kernel gets what is held | `Cert` |
| node operations (`internal/nodeops`, `service/ops_adapter.go`) | cache of answers | Handle | panel, kernel lifecycle | repeated requests, evicted answers | a request is carried out once | `NodeOps` |
| audit (`internal/audit`, `internal/auditcoord`) | rules, queue of events, batch in flight | Observe, Refresh, flush, requeue | sing-box kernel, panel | a batch that returns to a full queue | bounded, counted loss | `Audit` |
| runtime updates, TXBoard, node model, geo assets, monitor, logging | a request file; no state that outlives a call | parsing, conversion, I/O | | | out of scope, see section 19 | |

One goroutine per node runs `Service.Run`: a select loop over tickers, poll results, push
statuses, push events and the mailbox. Everything slow runs in goroutines beside it (a poll,
a report, the websocket client, ACME) and comes back through channels or atomic flags.
`PROJECT.json` lists the hazards found, at their lines, with the properties that cover them.

## 2. Plan

The order of the modules was that of their weight: what is billed, what is served, what keeps
the node in step, who runs it, then the parts around.

| Step | Module | Question |
|---|---|---|
| 1 | `TrafficLedger`, `Reporting`, `Reporting_proofs` | is traffic billed exactly as promised |
| 2 | `NodeSync`, `NodeSync_proofs`, checked through `MCNodeSync` | does a node follow its panel |
| 3 | `KernelUsers`, `KernelUsers_proofs` | do UserDiff, AddUsers, RemoveUsers and deltas leave the kernel with the desired accounts |
| 4 | `Mailbox`, `Mailbox_proofs` | does everything the shared connection brings reach the node, and in order |
| 5 | `Machine`, `Machine_proofs`, the registry whose mailboxes are those of `Mailbox` | one live instance per node, restarts, rediscovery |
| 6 | `ConnTracker`, `LimitDispatcher`, `DeviceReports` | connections, devices and counters of both kernels, and the devices on their way to the panel |
| 7 | `SpeedLimits` | speed limits against their updates |
| 8 | `PushLink` | replacement, reconnection and discovery of push clients |
| 9 | `ConfigReload`, `Layout` | reloads, signals and the watcher; what a file makes of a process and what an edit moves |
| 10 | `Cert`, `NodeOps`, `Audit` | renewal and persistence, idempotence, the bounded queue |
| 11 | `NodeParts`, checked through `MCParts` | the modules of steps 6 to 10, and `Reporting` with services replaced in the process, under one set of variables |
| 12 | `Connections_proofs`, `Panel_proofs`, `Process_proofs` | what step 11 checks, for every value of the constants |

Not begun: runtime updates; one composition of all cases of the select loop.

## 3. Reporting

`TrafficLedger` is the promise: metered units are tracked, some are sealed into a batch, a
batch is committed once, and only units not yet sealed may be lost.

`Reporting` is the code. Traffic is counted in units, a batch is an identifier with the amount
it carries. State: `tracker`, what the panel has settled and billed, the spool file as the
process sees it and as it may be found after a power loss, and the controller (`pending`, `calls`,
`skip`). Actions
follow `PushAsync` (save before send, replay of a pending batch), its goroutine, `PushSync`
at shutdown, and the process: crash, boot. Saving is write, fsync, rename, fsync of the
directory: `SaveOk` and `SaveFails` give the file contents that may be found for each way it
can end; `DirFaults` lets the directory fsync and the clean-up after it fail. `Restart` is the
reload inside the process (`runWithReload`): a new service starts while a report goroutine of
the old one may be alive, which `main.go` allows. It belongs to `ReloadSpec` only.

Properties: `NoDoubleBilling`, `SameTraffic`, `LosesOnlyUnflushed`, `CleanShutdown`,
`PendingDelivered` and the refinement `LedgerSpec`. With reloads (`ReloadKeepsBooks` in
`NodeParts`) nothing is billed twice, no batch's traffic changes and a shutdown flush that succeeds leaves
nothing behind; that a sealed batch may be lost is what `reporting_orphan` shows. Without directory
faults, that is: reloads and a failing fsync of the directory together can bill a unit twice. A
save that fails there puts its traffic back although its file may be found; so the shutdown
flush can leave two batches with the same traffic, one in the page cache and one on the disk.
The service that replaces this one in the process loads and delivers the first, and a power
loss brings back the other.

A batch here is its traffic. Its list of devices (`Alive`) is not: it aliases the tracker's buffer
(`tracker.go:198`), which the device tick rewrites while the batch waits, so that a replay carries
the same traffic but not always the same bytes. `DeviceReports` models that buffer.

Assumptions: the panel commits a batch ID at most once (that is what the ID is for); what is
found on disk after a process has ended stays there; at most one report goroutine outlives
its service; the last life of the process in the bounded runs is not shut down.

Fairness of `FairSpec` (run `reporting`): the report ticker fires for ever, the node is started again
after a crash, a started request ends, and a panel that is asked for ever answers some time
(strong fairness on success).

## 4. NodeSync

A configuration and a user list are version numbers: the number stands for content, hash and
ETag; 0 is nil. `panel` is the panel, `etag` the client's cache, `sync` the synchroniser,
`outbox` the poll goroutines between `pullActive.Store(false)` and the send, `results` the
one-place channel, `events` and `statuses` the push channels, `want` the desired state,
`kern` what the kernel runs. One iteration of the select loop is one action; a poll is two
actions, one per request, because pushes and edits come in between. `Push` drops what the
full channels drop. Kernel operations return the set of outcomes the kernels can leave
behind: `Reload` and `UpdateUsers` may fail after the inbound was removed, and a start that
fails keeps the old instance.

`judged` is a history variable: the versions the Service accepted or refused; `overtaken` of a
result says that the result of a later poll was sent before it.

`MCNodeSync` checks four regimes in one run. *push*: nothing fails, goroutines may publish
out of order (`FetchedIsAccounted`, `KernelFollows`). *faults*: push with requests and kernel
operations that fail (`AtomicDespiteFaults`: a pushed user list is applied, so that a running kernel
serves it behind an open inbound, or rolled back, so that the old list is desired again;
`ResyncEndsDespiteFaults`). A failed hot swap has removed the inbound; when the restart fails too
the node is dark, and the property says that it then wants its old users. *rest*: polls alone, with
renewals, published in order (`RestIsConsistent`). *slow*: the same with goroutines that overtake
one another, as nothing in `controller.go:103-107` prevents (`SlowGoesBackOnlyOvertaken`: only an
overtaken result takes the node back to an older version). The last three regimes are instances
over a second copy of the variables.

Fairness: the pull ticker fires again and again, Go's select picks a ready case
at random so that none is starved, goroutines run, and requests repeated for ever succeed
some time (strong fairness on the two requests). In the regimes with liveness goroutines
publish in the order they were started (`SlowPublish = FALSE`).

A poll that brings a configuration and users discards the snapshot that a failed kernel
operation could be rolled back to (`sync_adapter.go:78`); only a change of users alone is
rolled back, which is what `AtomicDespiteFaults` is about.

Left out: user deltas (in `KernelUsers`), the mailbox (in `Mailbox`), push discovery and the
life of clients (in `PushLink`), remote certificate settings (`applyRemoteOverrides`). The real channel capacities (16 and 4) are scaled down to 1 so that
they overflow; `MaxWaiting` bounds the goroutines that wait to publish.

## 5. KernelUsers

`NodeSync` has user lists as versions; here a list is a partial function from user ID to UUID
(`Nobody` is the empty one), so that deltas and reissued UUIDs can be told apart. `want` is
the desired list, `config` the configuration, `kern` the kernel: whether it runs, the accounts
its inbound admits, the list it believes it has (`book`), its configuration, configuration and
users of its last full start (`hashed`), and whether an operation of it ever failed. One action
per entry point of `internal/service`: a full list (`UserList`), deltas that add or remove
(`DeltaAdd`, `DeltaRemove`), a configuration, alone or together with users (`ConfigAndUsers`).
`Kinds` holds the kernels: sing-box swaps the inbound; Xray goes through its UserManager or,
for protocols without one, restarts. That Xray refuses an account whose e-mail exists is
external.

The history variable `reissued` says whether a full list or a delta ever gave a user a new
UUID: `UserDiff` never removes the old account, and the passing run excuses exactly the cases
this explains; `kernel_users_reissue` shows what becomes of them. `AccountsFollow` is about a
kernel none of whose operations failed; `ServedOrDark` about what failures leave behind: whoever
was taken out is out, and the others are served as desired or nobody is. It presumes that the
kernel's book was right before the step.

Left out: speed and device limits (in `SpeedLimits`, `LimitDispatcher`), certificates. Seen while modelling, and part of the model:
the kernel's book can revive users who were removed when a configuration and a user list fail
to load together and a later reload works; Xray's own configuration hash is not refreshed by
user operations; a delta that reissues the only user's UUID stops Xray.

## 6. Mailbox

One node of a machine. `wire` holds the events on the shared connection; `ApplySnapshot`,
`ApplyUsers`, `ApplyDelta` and `ApplyOps` are the branches of `NodeMailbox.Apply` under its
lock, and `Notify` is the token it leaves after the unlock (`waking` in between). `mb` is the
NodeMailbox. The Service boots (`Boot` is the REST snapshot of `Initial`), seeds the baseline,
marks the mailbox ready, drains once and then serves: `Wake` takes the token, `DrainIfReady`
drains under the lock and handles what came out. REST polls run beside it.

`lost` is a history variable: what broke with the connection and has not been made up for by a
full list, a snapshot of the same kind, or the REST snapshot of a node whose mailbox has no
list yet; a delta the mailbox cannot follow counts as lost. Properties are about what is not
lost, so that they say exactly what the mailbox itself guarantees. `Emptied` lets the panel
remove the last user; the run leaves it out because the Service ignores a list that became nil.

Fairness: the reader of the connection and the Service go on, select serves the token and poll
results some time, the pull ticker fires for ever. Nothing is assumed of the connection.

Bounds: two edits and three operations, four of them together at most (`MaxEvents`), against a queue
of two operations, so that the queue holds several, whose order can go wrong, and overflows.

Left out: failing and overlapping polls (`NodeSync` has them), configuration by REST (`node`
records only the snapshots that came through the mailbox), kernel failures, and the removal of
the mailbox with its node (`Machine`).

## 7. Machine

The registry of Services. A handle stands for one started Service with its cancel function,
`done` channel and mailbox; 0 is none. `nodes`, `mailboxes`, `statuses` and `failures` are the
maps of the Orchestrator, `mu` is `rediscoverMu`, `thr` the main loop and the goroutines of
`sync.nodes`, `inst` the Services. Every critical section of `o.mu` and `o.eventsMu` is one
action, and so are the wait for `done` and the start of the goroutine, so that everything may
come in between: `startNode` is `List`, `Box`, `Go`; `stopNode` is `Unlist`, `Unbox`, `Waited`;
`unregisterNode` is `UnregisterNode`, `UnregisterEvents`; `stopAll` is `StopAll`, `Stopped`.
`Discover` is the request together with the section that computes what to remove: the answer
may be old as soon as it is there. `recordFailure` and `clearFailure` are one action with the
return of `Service.Run`.

Time appears as `BackoffOver`: the retry of a parked node is due. How long a backoff is
(`backoffFor`, the reset after a stable run) is not told apart.

Two narrow races are left out of the run and can be put back by a constant: `EarlySync` lets
`sync.nodes` come before the first nodes are started, which that loop does without
`rediscoverMu`; then `OneService` fails. `SlowExit` lets a node be started between the two
sections of `unregisterNode` of its predecessor; then `Reachable` fails, because the second
section removes the new mailbox. The hazards at `machine.go:166` and `machine.go:611` describe
both. `Reachable` is about a Service that is not being cancelled.

Fairness: the discovery ticker fires for ever, select takes the end of the context and a
discovery gets the lock and an answer some time (strong fairness), goroutines go on, backoffs
end, and a cancelled Service returns. `Shutdown` claims no more: a Service started by a
discovery that was under way when `stopAll` took its list ends by itself, after `Run` did.

Left out: the health counts, status reports and runtime updates of the machine, the websocket
and its reconnection (`tryStartWS`), the automatic choice of the kernel.

## 8. ConnTracker

The sing-box kernel's connections. `trackers` holds one tracker per start of the kernel
(`current` is the one in use; older ones drain), each with its user map and, per user,
`userStats`: addresses with their counts, number of connections, bytes. A connection goroutine
goes through `Route` (lookup and the addresses connected here), `Gate` (the decision, outside the
lock), `Register` (addConn), `Transfer`, `Close`; in between the Service replaces the user map
(`SetUserMap`), starts the kernel anew (`Start`), learns devices of other nodes
(`UpdateGlobalDevices`, `ClearGlobalDevices`) and meters (`Track`: the difference to the last
tick with its guard against counters that were reset).

`PresenceIsExact` ties addresses and counts to the open connections, in every tracker.
`MeteredOnce`: nobody is charged for more than he transferred, and until the kernel is started
again nothing is forgotten. After a start it does not promise completeness: the counters of
connections that drain are not read any more, and a new counter that passes the old value between
two ticks hides its beginning. That two new devices pass the gate together is possible in the
model, as in the code.

## 9. SpeedLimits

`UpdateUsers` and `UpdateBuckets` are the two critical sections of an update; `Lookup`,
`ReadLimit`, `Install` the three of `GetLimiter`, so that an update may fall between any two.
`Move` and `Pay` are the limited reads, writes, packets and counting functions of tracked
connections: the size is fixed by an earlier look at the burst. Tokens are not counted.

`SharedBudget`: between two updates the connections served since the last one share one limiter,
at the user's speed; excepted is a limiter whose maker had read the limit before the last update
ended, which the next update repairs. A payer who asks a bucket for more than it holds waits until
his connection ends, since the timer of `ReserveN` never fires (`stranded`). `StrandedForCause`: that
happens only to a buffer above the floor of the burst, and if it was cut to the burst, only when an
update has ended since the cut. Both happen: packets and counting functions are not cut, and an
update may lower the burst between cut and payment. A connection that was opened without
a limit, or whose user lost it, keeps what it got: the properties speak of those served since.

## 10. LimitDispatcher

Xray's device limits. A link is checked under the read lock, counted under the write lock, and
released when its writer closes; users without a limit are counted in entries of a concurrent
map. `UpdateLimits` changes limits while links are open. A known address whose map was deleted
meanwhile makes the code panic (`panicked`); the runs go on with the other behaviours.

`DevicesAreCounted`: a device with a link is never forgotten, counts are exact for users who
always had a limit, and `connCount` is what drains wait for. `Released` is violated
(`dispatcher_released`): `delConn` looks among the unlimited first, whose entries no code removes.

## 11. DeviceReports

Alive addresses go to the panel by the report (REST) and by the device tick (WebSocket); both
draw on one change detector. The tracker hands out its own buffer, so that a batch that waits
shares it with the next flush, and the goroutine of a report may marshal it meanwhile (`Torn`).
`Hash` is a function in which two sets collide, as the hash without separators allows.

`LastFlushIsTold`: once nothing is on its way the panel knows the last devices flushed, unless
one of the sends since was lost, refused or overtaken (`settled`). In those cases nobody tells
it again: `RestoreAliveIPs` compares the buffer with itself, or adds the devices of a batch from the
spool to it, and the detector stays as it is.

## 12. PushLink

The goroutines of `WSClient.Run` (`clients`), the `pushsync.Controller` (`control`: client, whose
cancel function, disconnected), the two channels and the Service's loop. `Closes` and
`PanelCloses` are the wait for the reader after the close frame, which has no deadline: an old
client may speak long after a new one was installed; so may one that was cancelled while it dialled
and connects all the same. `Enable` and `Disable` are the two
outcomes of `Discover`.

`OneLink`: the one client that goes on connecting is installed, and the Service can cancel it.
`StatusFollows`: what the Service believes of the link is true once it has taken all statuses;
excepted is a last status that was dropped or another client's (`noise`).

## 13. ConfigReload

`runWithReload` as rounds: a round starts watcher, signal handler and services and ends with
them. The file is edited, the watcher's timer loads it in a goroutine of its own (loads may
overlap), the reload channel drops what finds it full, signals arrive at any time, services
fail, the watchdog of the second signal exits. `health` is the port served and the one recorded.

`RunsTheFile`: once nothing is in hand the services run with the file as it is, unless it
cannot be read or its last edit was `missed`: it came between two watchers, in a round that was
ending, or behind an older load that was still in the channel. Such an edit waits for the next.

## 14. Layout

What a file makes of a process: `LoadRoot` with inheritance, environment and defaults, identities
of instances, `ValidateStartupLayout`, the expansion into nodes and the spool path of
`service.New`. Files are sections that differ in what decides about identities, directories and
refusals; a path is a sequence of names; hashes are the values they hash. `Refuse` and `Reload`
are the outcomes of an edit, `Save` and `Replay` a batch that waits in a spool.

`StateIsOwn`: no two services of an accepted layout share a spool; directories only if somebody
named them, certificates only as nodes of one list or by name. `StateStays`: a node whose
section does not change keeps its state whatever becomes of the rest, as long as the file keeps
one instance, or several. `PendingIsReplayed` is violated (`layout_moved`).

## 15. Cert

`Begin` to `Finish` are `Reconfigure` and its modes (none, self-signed, content, files, ACME)
with their failures (ACME may fail after its material was stored); `Renew`, `Swap`, `Flag`, `Persist` are the goroutine of the ACME library,
which may outlive its instance; certificate and key go to two files one after the other, by both,
and `Crash` may come between. `kernel` is the material given to the kernel last.

`PairIsWhole`: no certificate is ever served with another's key. `KernelHasMaterial`: when
nothing is under way the kernel has what the manager holds, unless the renewal flag is up or a
poll took it and did not deliver (`sync_adapter.go:19` reads and clears it before it knows
whether the poll starts).

## 16. NodeOps and Audit

`NodeOps`: requests of the panel, repeated at will, through the mailbox's bounded queue to the
executor with its cache of answers. `OpsRunOnce`: a request is carried out once and has one
verdict, unless as many others as the cache holds came in between.

`Audit`: observations, the bounded queue, batches in flight whose answer may be lost, and
requeueing before what came meanwhile. `EventsAccounted`: every observation is exactly one of
waiting, reported, counted as dropped; they wait in order; what is reported the panel has, under
the native protocol once.

## 17. Runs

All bounds are small numbers of versions, units, users or events: every race found involves at
most two versions of one thing, one concurrent poll and one crash between two steps; the
bounds allow one more of each, or the smallest number that fills a queue. `CHECK_DEADLOCK
FALSE` is set where a bounded system that has used up its edits, units or lives may stop
(`reporting`, `nodesync`, `parts`), and in `machine` because `Run` ends; the other runs check
deadlock. In `machine` two nodes are exchanged up to three times, with two
threads and one failure: enough for a node to leave and come back while its first Service is
still shutting down, or parked.

`parts` checks the modules of sections 8 to 16, which share no state. `NodeParts` has their
`INSTANCE`s, the assumptions on their constants and the names of their properties, which the
proofs use too; `MCParts` gives the values, and a behaviour of it chooses a part and takes steps
of that part alone, each part under bounds of its own. Two connections or links of one user on two addresses against a limit of
one device: the smallest instance in which a second device, a second connection of a device and
a drain occur. Three updates and limiters, with speeds of nothing, below and above the floor of
the burst, and buffers that fit the floor and that do not. Two devices that the hash cannot tell apart. Two clients, statuses in a channel of two
and events in one of one. A queue of three events for batches of two and five observations.
Certificates with two contents and two issues. Four requests for a cache of two answers. Three
edits and two signals. Nine kinds of section, in lists of up to two, under two defaults; no
environment variables. Reporting with three units and batches and two ends of the process,
services replaced at any shutdown, without directory faults.

| Run | Shows |
|---|---|
| `reporting` | the safety properties, the refinement of `TrafficLedger` and delivery in the end, with crashes, directory faults and one service per process life |
| `reporting_orphan` (violation) | the report goroutine of a replaced service unlinks the new service's spool file |
| `nodesync` | the four regimes of section 4: kernel, resync and ETag cache stay right in races; pushed user lists are all or nothing under faults; polls in order end up consistent, and only overtaken ones go back |
| `nodesync_half_poll` (violation) | a poll that fails half-way loses a configuration behind its ETag |
| `kernel_users` | lists, deltas and configurations on both kernels, with failures: accounts follow, removed users are out. User IDs and UUIDs are symmetric |
| `kernel_users_reissue` (violation) | a UUID reissued by a full list never reaches Xray |
| `mailbox` | wake-ups, order, snapshots, the merged list, and the users in the end |
| `mailbox_missed` (violation) | a lost change of users is not made up for by polling |
| `machine` | one Service per node, each reachable, backoffs kept, convergence to the assignment, and shutdown |
| `parts` | the properties of sections 8 to 16 and reporting with services replaced in the process |
| `dispatcher_released` (violation) | a user who once had no device limit stays counted for ever when he gets one |
| `layout_moved` (violation) | an edit elsewhere in the file moves the spool of a node whose batch waits, and it is not replayed |

The violations are disagreements of the code with its own comments, documents and tests;
`PROJECT.json` quotes them. Others were seen and have no run of their own: a replay carries the
same traffic but, its devices aliasing the tracker's buffer, not the byte-identical payload of
`controller.go:55` and `docs/traffic-durable-replay.md:3`; a failed hot swap and a failed restart
leave the node dark, though `singbox.go:528` calls the replacement atomic; a payer is stranded
(section 9), though `Read` and `Write` cut their buffers to prevent it; with polls alone, a result
that a later poll's overtook is applied last, and 304s keep the node at the older version, contrary
to `service.go:195-197` (regime *slow*); a
poll result overtaken by a push event is applied after it and the node keeps the older
configuration behind 304s (`Pushed <- TRUE` in the regime *rest*); a renewal flag consumed by a
poll that is skipped; user lists that became empty and are ignored, in polls and in the mailbox
(`Emptied`); a health port that goes 8080, 0, 8080 and is not served again (`main.go:90`); the
nodes of a list without a certificate section share one directory of certificates
(`config.go:820`); one node bound twice under two spellings of the panel's URL is not refused
(`config.go:923`); a retry backoff that never grows (`BackoffIsShort`); and the two races of
section 7.

## 18. Proofs

Every invariant that a passing run checks, and every safety property about steps, is a theorem
for all values of the constants that the named assumptions (`ReportingAssumption`,
`PartsAssumption`, ...) allow; these rule out only constants that mean nothing. A hypothesis
beyond them is named with its theorem. Each proof has the same three parts: the inductive
invariant holds initially, every action keeps it (one step per action), and it implies the property.

`Reporting_proofs`:
- Of `ReloadSpec`, services replaced in the process included: `TypeCorrect`; `BackoffIsShort`;
  `ShutdownIsClean`, where `FlushInv` says that the batch `PushSync` reports is the only one
  that can be pending and that nobody fills the tracker behind it; `TrafficSurvivesReloads`; and
  `BilledOnceDespiteReloads`, assuming `~DirFaults` (section 3 says what happens otherwise).
  `BooksInv` is an account: each batch ID stands for one amount, and what is billed, what is
  sealed and not yet settled, and what is tracked are together no more than what was metered.
- Of `Spec`, without such replacements and with all faults: `BilledOnce`,
  `BatchTrafficIsImmutable`, `DeliveredStaysSpooled`, `OnlyUnflushedIsLost`, `ImplementsLedger`.
  `IndInv` ties them together: what is billed, what is tracked and what the pending batch still
  has to settle are no more than what was metered, and so with any batch the spool may
  turn up; while a batch is pending the spool holds it and nothing else until it is settled; and
  a call in progress carries the pending batch, or one already delivered and committed. Of `ReloadSpec` the last two are
  false, as run `reporting_orphan` shows.

`NodeSync_proofs`, with or without push, out-of-order publishing and refused configurations:
- `TypeCorrect`: channels stay within their capacity.
- `KernelIsFollowing`, assuming kernel operations succeed: a running kernel has a
  configuration, because `applyChanges` returns early without one.
- `ResyncIsAnswered`, assuming requests succeed.
- `NothingIsHidden`, assuming requests succeed and no user list is empty; without the first
  there is `nodesync_half_poll`, without the second a list that became empty is ignored and its
  ETag kept (section 17). `AccountInv` adds that a
  hash used for deduplication was judged when it was captured, and that only the second half of
  a poll carries a configuration.
- `UpdatesAreAtomic`, whatever fails: what `AtomicDespiteFaults` checks of one regime, dark nodes
  included.
- `OnlyOvertakenGoesBack`, assuming polls alone, whatever fails and in whatever order they publish:
  what `SlowGoesBackOnlyOvertaken` checks of one regime. `OrderInv` says that what polls bring,
  overtaken results aside, lies between the desired state and the ETag cache, in the order of the
  requests.

`KernelUsers_proofs`, for finitely many IDs, all kinds of kernel, with or without failures:
`UsersAreFollowed`, from `FollowInv` (`KernelInStep`: until an operation fails the kernel's book
is the desired list, and its configuration the service's), and `ChangesServeOrDarken`. They rest
on lemmas about what `UserDiff`, the kernels' additions and removals and deltas make of a list.

`Mailbox_proofs`, for every set of users, queue capacity and number of events:
- `TypeCorrect`, with the bound of the queue.
- `NothingSleeps` is inductive with the types: whoever makes the mailbox non-empty still has
  its notification to leave, and the token is taken only by who drains next.
- `SnapshotsArrive` adds that nothing is under way on a broken connection and that the last
  snapshot of a kind under way is the newest.
- `OperationsInOrder` adds that nothing is handled, waiting or under way that was not asked for.
- `BaselineIsPanels`: by `BaseInv` the last event under way that names a user gives what the
  panel has of him, and the mailbox's list, or the one it is about to be seeded with, is right
  about all users no event under way touches.

`Machine_proofs`, for any number of nodes and `sync.nodes` goroutines:
- `TypeCorrect`.
- `OneServicePerNode` and `BackoffIsKept`, assuming `~EarlySync`. Neither is inductive.
  `RegistryInv` adds that one thread at a time works on the registry (it holds `rediscoverMu`,
  or it is the initial loop and no other discovery has begun), that a listed handle is a held
  Service of that node, that a held Service is listed or in the hands of the thread that stops
  it, and that such a thread's node is not listed. Two Services of one node would both be
  listed, or both be in the hands of the one thread.
- `EveryServiceIsReachable`, assuming `~SlowExit` too: `IndInv` adds that no Service that is
  about to remove the events of a node has a successor, so that what it removes is its own.

`Connections_proofs`, for any users, and finitely many addresses, connections and links:
- `StrandingHasACause`, for buffers of any size: by `RoomInv` no burst is below the floor, and what
  was cut fits its bucket until an update ends; `SpeedTypeCorrect`.
- `BudgetIsShared`: `BudgetInv` adds that no two users share a bucket, so that an update reaches
  each, that a caller who read the limit since the last update read the one in force, and that
  whoever was served since then holds the bucket of his user.
- `NobodyPaysTwice`: by `MeterInv` what was metered and what the next tick would add are together
  no more than what was carried, and equal to it until the kernel is started again.
- `ConnectionsAreCounted`: `PresInv` adds that a user who may be admitted has his stats, in the
  tracker that will count him.
- `LinksAreCounted`: by `DeviceInv` a link that was not counted against a limit was counted among
  the unlimited, whose entry stays; a counter belongs to one address, and is no higher than the
  links that hold it, so that only the last one to leave deletes it.

`Panel_proofs`, for any capacity of channels, queues and caches:
- `OneClientRuns`, inductive with the types (`PushTypeCorrect`): a step of a client never makes a
  cancelled one run again, the Service launches one only when it holds no cancel function, and
  it forgets only whom it has cancelled.
- `ServiceKnowsLink`: by `FollowInv` the last status under way, or what the Service made of the
  last it took, is the truth about the installed client.
- `PanelKnowsLastFlush`: in the same way the last message tells what the change detector saw
  (`ToldInv`). All that is assumed of the hash is that it tells no devices from some.
- `EventsAreAccounted`, inductive with the types.
- `RequestsRunOnce`: by `OnceInv` the cache is the end of the list of what was run, and whoever
  was told something was run.

`Process_proofs`, for any files, edits, signals and certificates:
- `ServicesAreApart` and `ReloadsKeepState`, from `FleetOfLayout` (the services that run are
  those of the file accepted last) and from lemmas on paths: equal paths have equal ends, which
  are the node and its instance.
- `FileIsRun`: by `FileInv` the loop has the file or will get it, and no older one comes last,
  unless the last edit was missed.
- `PairStaysWhole` and `KernelGetsMaterial`: by `CertInv` whoever swaps the material still has to
  tell the kernel, or the flag that tells it.
- `BooksSurviveReloads`, assuming `~DirFaults`: the results about `ReloadSpec` under the names
  that `NodeParts` gives to the variables of `Reporting`.

Only model-checked: liveness (`PendingDelivered`, `ResyncEndsDespiteFaults`, `RestIsConsistent`,
`UsersSettle`, `Converges`, `Shutdown`), since the prover does not reason about fairness and
`ENABLED`. `MCNodeSync` and `MCParts` choose between regimes and parts; the theorems are about
the specifications of the modules they choose from.

## 19. Not modelled, and why

The translation of node configurations to kernel options and the validation of the node model
are sequential conversions of data with no state: tests reach them. Of the configuration file,
fields that only pass through and the fields of a standalone node are left out. The kernels
themselves (sing-box, Xray), certmagic and the panel are external and appear only as the outcomes
the code has to handle. A runtime update is one atomic rename of a request file whose consumer is
outside the repository; a later request replaces one not yet consumed. TXBoard and the local
control plane keep nothing beyond a connection. Logging, monitoring and geo downloads are I/O.

Of what is modelled, the following is left out: in the Service, one sequence over all cases of
the select loop; in the websocket client, frames, pings and node status reports; in machine mode,
health counts, status reports and the connection; in the connection tracker, zero-copy unwrapping;
in the Xray kernel, traffic counters; in certificates, the merging and validation of remote
settings; in the audit, the matching of one rule. Data races that Go leaves undefined
(`GetConnectionState` of the dispatcher, `writeCh` of the websocket client) have no property:
their outcomes are a crash or one of the values the models choose from.
