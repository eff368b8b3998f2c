------------------------------ MODULE NodeSync ------------------------------
(***************************************************************************)
(* How one node follows its panel: REST polls of internal/nodesync through *)
(* the ETag cache of internal/panel, push events through the channels of   *)
(* internal/controlplane and internal/pushsync, and the select loop of     *)
(* internal/service that applies both to the desired state and the kernel. *)
(*                                                                         *)
(* A configuration and a user list are version numbers: the number stands  *)
(* for the content, its hash and its ETag, 0 for nil.  Poll goroutines run *)
(* concurrently with the select loop; one handler of the loop is one step. *)
(***************************************************************************)
EXTENDS Integers, Sequences

CONSTANTS MaxCfg, MaxUsers, \* bounds: versions the panel goes through
          MaxCerts,         \* bound: certificates issued
          EventCap,         \* capacity of the push event channel
          StatusCap,        \* capacity of the push status channel
          MaxWaiting,       \* bound: poll goroutines with an unpublished result
          Pushed,           \* TRUE: push transport, FALSE: REST only
          FetchFaults,      \* TRUE: a poll may fail between its requests
          KernelFaults,     \* TRUE: kernel operations may fail
          SlowPublish,      \* TRUE: a goroutine may publish after a later one
          Refused,          \* configurations validateNodeRuntime refuses
          NoUsers           \* user lists that are empty

ASSUME NodeSyncAssumption ==
  /\ MaxCfg \in Nat \ {0} /\ MaxUsers \in Nat \ {0} /\ MaxCerts \in Nat
  /\ EventCap \in Nat \ {0} /\ StatusCap \in Nat \ {0} /\ MaxWaiting \in Nat \ {0}
  /\ {Pushed, FetchFaults, KernelFaults, SlowPublish} \subseteq BOOLEAN
  /\ Refused \subseteq 2..MaxCfg /\ NoUsers \subseteq 1..MaxUsers

VARIABLES panel,    \* the versions the panel holds
          link,     \* the push connection is up
          events,   \* pushsync.Controller.events
          statuses, \* pushsync.Controller.statuses
          etag,     \* panel.Client.configETag and userETag
          sync,     \* nodesync.Controller: poll in flight, backoff, resync flag
          outbox,   \* poll goroutines that have not yet sent their result
          results,  \* nodesync.Controller.results
          want,     \* Service.lastConfig(Hash) and userstate's user list
          kern,     \* the kernel: what it runs
          cert,     \* the certificate cert.Manager holds
          renewed,  \* cert.Manager.renewed
          judged    \* versions the Service has accepted or refused (history)

vars == <<panel, link, events, statuses, etag, sync, outbox, results, want,
          kern, cert, renewed, judged>>

pushVars == <<events, statuses>>
pollVars == <<etag, outbox, results>>
nodeVars == <<want, kern, judged>>
certVars == <<cert, renewed>>

-----------------------------------------------------------------------------
(* Values                                                                  *)

Cfgs == 0..MaxCfg
UserLists == 0..MaxUsers
Versions == [cfg : Cfgs, users : UserLists]
Empty(u) == u = 0 \/ u \in NoUsers

NoPull == [step |-> "none", hash |-> 0, cert |-> FALSE, cfg |-> 0]
\* overtaken is history: the result of a later poll was sent before this one.
Results == [cfg : Cfgs, users : UserLists, cert : BOOLEAN, overtaken : BOOLEAN]
Pulls == [step : {"none", "config", "users"}, hash : Cfgs, cert : BOOLEAN, cfg : Cfgs]
Events == [kind : {"cfg"}, v : 1..MaxCfg] \cup [kind : {"users"}, v : 1..MaxUsers]
Kernels == [run : BOOLEAN, inbound : BOOLEAN, cfg : Cfgs, users : UserLists,
            cert : 1..(MaxCerts + 1)]

Serving(c, u) == [run |-> TRUE, inbound |-> TRUE, cfg |-> c, users |-> u, cert |-> cert]
Stopped(k) == [k EXCEPT !.run = FALSE]

\* REST: Initial fetched everything and started the kernel.  Push: the first
\* snapshot is still to come.
Init ==
  /\ panel = [cfg |-> 1, users |-> 1]
  /\ link = Pushed /\ events = <<>> /\ statuses = <<>>
  /\ cert = 1 /\ renewed = FALSE
  /\ sync = [pull |-> NoPull, skip |-> 0, resync |-> FALSE]
  /\ outbox = <<>> /\ results = <<>>
  /\ etag = IF Pushed THEN [cfg |-> 0, users |-> 0] ELSE panel
  /\ want = etag
  /\ kern = IF Pushed \/ Empty(1) THEN Stopped(Serving(0, 0)) ELSE Serving(1, 1)
  /\ judged = IF Pushed THEN [cfg |-> {}, users |-> {}] ELSE [cfg |-> {1}, users |-> {1}]

-----------------------------------------------------------------------------
(* External: the panel, its push connection, the ACME renewal goroutine    *)

\* The push callbacks (newPushClient): an event that finds the channel full is
\* dropped and a resync is asked for, unless the status channel is full too.
Push(kind, v) ==
  IF Len(events) < EventCap
    THEN events' = Append(events, [kind |-> kind, v |-> v]) /\ UNCHANGED statuses
    ELSE /\ UNCHANGED events
         /\ statuses' = IF Len(statuses) < StatusCap THEN Append(statuses, "resync")
                                                     ELSE statuses

Edit(kind, v) ==
  /\ panel' = [panel EXCEPT ![kind] = v]
  /\ IF link THEN Push(kind, v) ELSE UNCHANGED pushVars
  /\ UNCHANGED <<link, pollVars, sync, nodeVars, certVars>>

EditConfig == panel.cfg < MaxCfg /\ Edit("cfg", panel.cfg + 1)
EditUsers == panel.users < MaxUsers /\ Edit("users", panel.users + 1)

\* The connection comes or goes; the status is dropped when nobody drains it.
LinkFlips ==
  /\ Pushed
  /\ link' = ~link
  /\ statuses' = IF Len(statuses) < StatusCap THEN Append(statuses, "plain") ELSE statuses
  /\ UNCHANGED <<panel, events, pollVars, sync, nodeVars, certVars>>

Renew ==
  /\ cert <= MaxCerts
  /\ cert' = cert + 1
  /\ renewed' = TRUE
  /\ UNCHANGED <<panel, link, pushVars, pollVars, sync, nodeVars>>

-----------------------------------------------------------------------------
(* nodesync.Controller.Poll and RequestResync, called by the select loop   *)

\* Poll: skipped while a pull is active or backed off; otherwise a goroutine
\* starts with the configuration hash of this moment.
Tried(s, renewal) ==
  IF s.pull # NoPull THEN s
  ELSE IF s.skip > 0 THEN [s EXCEPT !.skip = @ - 1]
  ELSE [s EXCEPT !.pull = [step |-> "config", hash |-> want.cfg,
                           cert |-> renewal, cfg |-> 0]]

\* RequestResync: the flag stays up only when this call started a poll.
Resynced(s, renewal) ==
  IF s.resync THEN s
  ELSE LET t == Tried(s, renewal) IN [t EXCEPT !.resync = s.pull = NoPull /\ t.pull # NoPull]

\* Not a guard of the code: the bound on unpublished results.
CanSchedule == Len(outbox) < MaxWaiting

\* The pull ticker; ConsumeRenewal is evaluated before Poll decides.
PullTick ==
  /\ CanSchedule
  /\ sync' = Tried(sync, renewed)
  /\ renewed' = FALSE
  /\ UNCHANGED <<panel, link, pushVars, pollVars, nodeVars, cert>>

\* handlePushStatus: a resync request, then a poll in any case.
HandleStatus ==
  /\ CanSchedule /\ statuses # <<>>
  /\ statuses' = Tail(statuses)
  /\ sync' = IF Head(statuses) = "resync" THEN Tried(Resynced(sync, renewed), FALSE)
                                         ELSE Tried(sync, renewed)
  /\ renewed' = FALSE
  /\ UNCHANGED <<panel, link, events, pollVars, nodeVars, cert>>

-----------------------------------------------------------------------------
(* The poll goroutine: GetConfig, GetUsers, then the result                *)

\* GetConfig and GetUsers remember the ETag as soon as the body is decoded.
Tag(kind) == etag' = [etag EXCEPT ![kind] = panel[kind]]
Modified(kind) == IF etag[kind] = panel[kind] THEN 0 ELSE panel[kind]

FetchConfig ==
  /\ sync.pull.step = "config"
  /\ Tag("cfg")
  /\ sync' = [sync EXCEPT !.pull.step = "users", !.pull.cfg = Modified("cfg")]
  /\ UNCHANGED <<panel, link, pushVars, outbox, results, nodeVars, certVars>>

\* Mutant: the configuration is dropped when it differs from the current one.
WrongDedup(c) == IF c # sync.pull.hash /\ ~sync.pull.cert THEN 0 ELSE c
\* Mutant: for a renewal without a new configuration, the one current at
\* scheduling is handed on.
KnownAtScheduling(c) ==
  IF sync.pull.cert /\ c = 0 THEN sync.pull.hash
  ELSE IF c = sync.pull.hash /\ ~sync.pull.cert THEN 0 ELSE c
\* The configuration is dropped when it is the one current at scheduling.
Dedup(c) == IF c = sync.pull.hash /\ ~sync.pull.cert THEN 0 ELSE c

\* Copying an empty list onto a nil slice gives a nil slice.
Copied(u) == IF u \in NoUsers THEN 0 ELSE u

\* The flag and the backoff are released before the result is sent.
FetchUsers ==
  /\ sync.pull.step = "users"
  /\ Tag("users")
  /\ outbox' = Append(outbox, [cfg |-> Dedup(sync.pull.cfg),
                               users |-> Copied(Modified("users")),
                               cert |-> sync.pull.cert,
                               overtaken |-> FALSE])
  /\ sync' = [sync EXCEPT !.pull = NoPull, !.skip = 0]
  /\ UNCHANGED <<panel, link, pushVars, results, nodeVars, certVars>>

\* A request fails, or the fetched configuration does not normalise.
FetchFails ==
  /\ FetchFaults /\ sync.pull # NoPull
  /\ UNCHANGED etag \/ (sync.pull.step = "users" /\ Tag("users"))
  /\ sync' = [sync EXCEPT !.pull = NoPull, !.skip = 1]
  /\ UNCHANGED <<panel, link, pushVars, outbox, results, nodeVars, certVars>>

\* What is left to send without the i-th result, which overtakes those before it.
Without(s, i) ==
  [j \in 1..(Len(s) - 1) |-> IF j < i THEN [s[j] EXCEPT !.overtaken = TRUE] ELSE s[j + 1]]

\* Nothing in the code orders the goroutines, a slow one is overtaken.  Without
\* SlowPublish they send in the order of their polls.
Senders == IF SlowPublish THEN DOMAIN outbox ELSE {1} \cap DOMAIN outbox

\* results <- result; the channel holds one.
Publish ==
  /\ results = <<>>
  /\ \E i \in Senders :
       /\ results' = <<outbox[i]>>
       /\ outbox' = Without(outbox, i)
  /\ UNCHANGED <<panel, link, pushVars, etag, sync, nodeVars, certVars>>

-----------------------------------------------------------------------------
(* Kernel operations as the Service calls them: what may come of each      *)

\* Both kernels keep the old instance when a new one does not start.
Start(k, c, u) ==
  {[ok |-> TRUE, k |-> Serving(c, u)]}
    \cup IF KernelFaults THEN {[ok |-> FALSE, k |-> k]} ELSE {}

\* A failed hot swap may have removed the old inbound already.
Broken(k) == IF KernelFaults THEN {k, [k EXCEPT !.inbound = FALSE]} ELSE {}

\* Reload, and startKernel when it fails.
Reload(k, c, u) == {Serving(c, u)} \cup {s.k : s \in UNION {Start(b, c, u) : b \in Broken(k)}}

\* UpdateUsers, and startKernel when it fails.  Without a difference in users
\* the inbound is left as it is.
UpdateUsers(k, c, u) ==
  {[ok |-> TRUE, k |-> [k EXCEPT !.users = u, !.inbound = @ \/ k.users # u]]}
    \cup IF k.users = u THEN {} ELSE UNION {Start(b, c, u) : b \in Broken(k)}

\* Mutant: a stopped kernel is not started.
NoStart(c, u) ==
  IF Empty(u) THEN kern' = Stopped(kern)
  ELSE IF c = 0 \/ ~kern.run THEN UNCHANGED kern
  ELSE kern' \in Reload(kern, c, u)

\* applyChanges after a new configuration or certificate.
ApplyChanges(c, u) ==
  IF Empty(u) THEN kern' = Stopped(kern)
  ELSE IF c = 0 THEN UNCHANGED kern
  ELSE IF kern.run THEN kern' \in Reload(kern, c, u)
  ELSE \E s \in Start(kern, c, u) : kern' = s.k

\* Mutant: the desired users are not rolled back when the kernel refuses them.
NoRollback(u) ==
  /\ want' = [want EXCEPT !.users = u]
  /\ IF ~kern.run /\ (Empty(u) \/ want.cfg = 0) THEN UNCHANGED kern
     ELSE \E s \in IF kern.run THEN UpdateUsers(kern, want.cfg, u)
                               ELSE Start(kern, want.cfg, u) : kern' = s.k

\* applyUserUpdate: the desired users change first and are rolled back when
\* the kernel can neither take them nor be restarted.
ApplyUserUpdate(u) ==
  IF ~kern.run /\ (Empty(u) \/ want.cfg = 0)
    THEN want' = [want EXCEPT !.users = u] /\ UNCHANGED kern
    ELSE \E s \in IF kern.run THEN UpdateUsers(kern, want.cfg, u)
                              ELSE Start(kern, want.cfg, u) :
           /\ kern' = s.k
           /\ want' = IF s.ok THEN [want EXCEPT !.users = u] ELSE want

-----------------------------------------------------------------------------
(* applySyncResult and handleWSEvent                                       *)

Judge(kind, v) == [judged EXCEPT ![kind] = @ \cup ({v} \ {0})]

\* Mutant: the flag is never lowered.
NeverCompleted == sync
CompleteResync == [sync EXCEPT !.resync = FALSE]

ApplyResult ==
  /\ results # <<>>
  /\ results' = <<>>
  /\ sync' = CompleteResync
  /\ LET r == Head(results)
         c == IF r.cfg = 0 \/ r.cfg \in Refused THEN want.cfg ELSE r.cfg
         u == IF r.users = 0 THEN want.users ELSE r.users
         configChanged == r.cert \/ (r.cfg # 0 /\ r.cfg \notin Refused)
     IN /\ judged' = [cfg |-> judged.cfg \cup ({r.cfg} \ {0}),
                      users |-> judged.users \cup ({r.users} \ {0})]
        /\ \/ /\ configChanged
              /\ want' = [cfg |-> c, users |-> u]
              /\ ApplyChanges(c, u)
           \/ /\ ~configChanged /\ u # want.users
              /\ ApplyUserUpdate(u)
           \/ /\ ~configChanged /\ u = want.users
              /\ UNCHANGED <<want, kern>>
  /\ UNCHANGED <<panel, link, pushVars, etag, outbox, certVars>>

HandleConfigEvent ==
  /\ events # <<>> /\ Head(events).kind = "cfg"
  /\ events' = Tail(events)
  /\ LET c == Head(events).v IN
       /\ judged' = Judge("cfg", c)
       /\ IF c = want.cfg \/ c \in Refused
            THEN UNCHANGED <<want, kern>>
            ELSE want' = [want EXCEPT !.cfg = c] /\ ApplyChanges(c, want.users)
  /\ UNCHANGED <<panel, link, statuses, pollVars, sync, certVars>>

HandleUsersEvent ==
  /\ events # <<>> /\ Head(events).kind = "users"
  /\ events' = Tail(events)
  /\ LET u == Head(events).v IN
       /\ judged' = Judge("users", u)
       /\ IF u = want.users THEN UNCHANGED <<want, kern>> ELSE ApplyUserUpdate(u)
  /\ UNCHANGED <<panel, link, statuses, pollVars, sync, certVars>>

-----------------------------------------------------------------------------
External == EditConfig \/ EditUsers \/ LinkFlips \/ Renew
Goroutine == FetchConfig \/ FetchUsers \/ FetchFails \/ Publish
SelectLoop == PullTick \/ HandleStatus \/ ApplyResult \/ HandleConfigEvent \/ HandleUsersEvent

Next == External \/ Goroutine \/ SelectLoop

Spec == Init /\ [][Next]_vars

\* The pull ticker fires again and again and select serves every ready channel
\* some time; goroutines run, and requests repeated for ever succeed some time.
Fairness ==
  /\ WF_vars(PullTick) /\ WF_vars(HandleStatus) /\ WF_vars(ApplyResult)
  /\ WF_vars(HandleConfigEvent \/ HandleUsersEvent)
  /\ SF_vars(FetchConfig) /\ SF_vars(FetchUsers) /\ WF_vars(Publish)

FairSpec == Spec /\ Fairness

-----------------------------------------------------------------------------
(* Properties                                                              *)

\* Every variable has its type.
TypeOK ==
  /\ panel \in Versions /\ etag \in Versions /\ want \in Versions
  /\ link \in BOOLEAN /\ renewed \in BOOLEAN
  /\ events \in Seq(Events) /\ Len(events) <= EventCap
  /\ statuses \in Seq({"plain", "resync"}) /\ Len(statuses) <= StatusCap
  /\ sync \in [pull : Pulls, skip : Nat, resync : BOOLEAN]
  /\ outbox \in Seq(Results) /\ results \in Seq(Results) /\ Len(results) <= 1
  /\ kern \in Kernels /\ cert \in 1..(MaxCerts + 1)
  /\ judged \in [cfg : SUBSET Cfgs, users : SUBSET UserLists]

\* A result of a poll that the Service has not applied yet.
Underway == {outbox[i] : i \in DOMAIN outbox} \cup {results[i] : i \in DOMAIN results}

\* What the ETag cache vouches for was decided on by the Service or is on its
\* way to it: a 304 answer never hides a version the node has not seen.  Holds
\* while no poll fails between its requests.
FetchedIsAccounted ==
  /\ etag.cfg \in judged.cfg \cup {0, sync.pull.cfg} \cup {r.cfg : r \in Underway}
  /\ etag.users \in judged.users \cup {0} \cup {r.users : r \in Underway}

\* While resync requests are coalesced, a poll that will answer them is under
\* way (RequestResync, CompleteResync).
ResyncHasPoll == sync.resync => sync.pull # NoPull \/ outbox # <<>> \/ results # <<>>

\* The kernel runs exactly the accepted configuration and users, and it rests
\* only while there is nothing to run, as long as kernel operations succeed.
KernelFollows ==
  IF kern.run THEN kern.inbound /\ kern.cfg = want.cfg /\ kern.users = want.users
              ELSE want.cfg = 0 \/ Empty(want.users)

\* The user update ended as it should: a running kernel serves the desired
\* users.  Without a difference the kernel is not touched at all.
Applied == kern'.run => kern'.users = want'.users /\ (kern'.inbound \/ kern' = kern)

\* Or it failed as a whole: the desired users are the old ones again, and the
\* kernel is as it was or has lost its inbound to the failed hot swap.
RolledBack == want' = want /\ kern' \in {kern, [kern EXCEPT !.inbound = FALSE]}

\* What applyUserUpdate leaves behind, whatever fails: the new users are desired
\* only when the kernel serves them behind an open inbound or has nothing to
\* run, and a node that has gone dark, as it does when the kernel refused both
\* the hot swap and the restart, still wants its old users.
UserUpdateIsAtomic == [][HandleUsersEvent => Applied \/ RolledBack]_vars

\* Without push a node goes back to an older version only by applying a result
\* that the result of a later poll has overtaken on its way to the Service.
GoesBackOnlyOvertaken ==
  [][ want'.cfg < want.cfg \/ want'.users < want.users
        => results # <<>> /\ Head(results).overtaken ]_vars

\* A requested resync is over some time, whatever becomes of its poll.
ResyncEnds == sync.resync ~> ~sync.resync

\* Once the panel stops changing and requests stop failing, the node ends up
\* with what the panel holds (Service.Run: periodic polling provides eventual
\* consistency).
EventualConsistency ==
  <>[][~FetchFails]_vars => <>[](want = panel /\ KernelFollows)
=============================================================================
