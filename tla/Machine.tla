------------------------------ MODULE Machine ------------------------------
(***************************************************************************)
(* Machine mode (internal/machine): the Orchestrator starts and stops one  *)
(* Service per node the panel assigns to the machine.  Its main loop       *)
(* starts the first nodes and then rediscovers at every tick; every        *)
(* sync.nodes event rediscovers in a goroutine of its own.                 *)
(*                                                                         *)
(* A handle stands for one started Service with its cancel function, its   *)
(* done channel and its mailbox; 0 is no handle.  Every critical section   *)
(* of o.mu and o.eventsMu is one action.                                   *)
(***************************************************************************)
EXTENDS Integers

CONSTANTS Nodes,      \* node IDs
          Assignments, \* the sets of nodes the panel assigns at some time
          MaxHandles, \* bound: handles in use at a time
          Syncs,      \* goroutines of sync.nodes events, at most so many at a time
          MaxEdits,   \* bound: changes of the assignment
          MaxFails,   \* bound: Services that end with an error
          EarlySync,  \* TRUE: sync.nodes may come before the first nodes are started
          SlowExit    \* TRUE: a node may be started between the two steps of unregisterNode

ASSUME MachineAssumption ==
  /\ Nodes \subseteq Nat \ {0} /\ Assignments \subseteq SUBSET Nodes
  /\ MaxHandles \in Nat /\ MaxEdits \in Nat /\ MaxFails \in Nat
  /\ {"loop", "free"} \cap Syncs = {} /\ {EarlySync, SlowExit} \subseteq BOOLEAN

VARIABLES panel,     \* the nodes the panel assigns to the machine
          edits,     \* changes so far (bounds the model)
          cancelled, \* the context of Run is cancelled
          mu,        \* who holds rediscoverMu
          thr,       \* the main loop and the goroutines of sync.nodes
          inst,      \* the Services, by handle
          nodes,     \* o.nodes
          mailboxes, \* o.mailboxes
          statuses,  \* o.statuses
          failures,  \* o.failures: nothing, parked, or the retry is due
          fails      \* errors so far (bounds the model)

vars == <<panel, edits, cancelled, mu, thr, inst, nodes, mailboxes, statuses, failures, fails>>

eventVars == <<mailboxes, statuses>>
externalVars == <<panel, edits, cancelled>>

-----------------------------------------------------------------------------
Threads == {"loop"} \cup Syncs
Handles == 1..MaxHandles

\* What a thread is doing: it works off the nodes to remove, then those to
\* start; n and h are the node and handle it has in hand.
Thread == [pc : {"idle", "lock", "work", "unbox", "wait", "clear", "box", "go",
                 "stopping", "ended"},
           remove : SUBSET Nodes, start : SUBSET Nodes, n : Nodes \cup {0}, h : Handles \cup {0},
           await : SUBSET Handles]

Idle == [pc |-> "idle", remove |-> {}, start |-> {}, n |-> 0, h |-> 0, await |-> {}]

\* A Service: listed in o.nodes before its goroutine exists, running, up once
\* it has taken its mailbox, returned from Run, unlisted, done.
Service == [node : Nodes \cup {0}, stop : BOOLEAN,
            st : {"listed", "run", "up", "returned", "unlisted", "done"}]

Init ==
  /\ panel \in Assignments /\ edits = 0 /\ cancelled = FALSE /\ mu = "free"
  /\ thr = [t \in Threads |-> IF t = "loop" THEN [Idle EXCEPT !.pc = "work", !.start = panel] ELSE Idle]
  /\ inst = [h \in Handles |-> [node |-> 0, stop |-> FALSE, st |-> "done"]]
  /\ nodes = [n \in Nodes |-> 0] /\ mailboxes = [n \in Nodes |-> 0] /\ statuses = [n \in Nodes |-> 0]
  /\ failures = [n \in Nodes |-> "none"] /\ fails = 0

\* Service.Run is being executed.
Live(h) == inst[h].st \in {"run", "up"}

-----------------------------------------------------------------------------
(* External: the panel, the signal that ends Run, time                     *)

Assign(s) ==
  /\ edits < MaxEdits /\ s # panel
  /\ panel' = s /\ edits' = edits + 1
  /\ UNCHANGED <<cancelled, mu, thr, inst, nodes, eventVars, failures, fails>>

Signal ==
  /\ ~cancelled /\ cancelled' = TRUE
  /\ UNCHANGED <<panel, edits, mu, thr, inst, nodes, eventVars, failures, fails>>

BackoffOver(n) ==
  /\ failures[n] = "parked"
  /\ failures' = [failures EXCEPT ![n] = "due"]
  /\ UNCHANGED <<externalVars, mu, thr, inst, nodes, eventVars, fails>>

-----------------------------------------------------------------------------
(* rediscover, by the ticker of the main loop and by sync.nodes            *)

Starting == thr["loop"].pc \in {"work", "box", "go"} /\ mu # "loop"

\* The connection is up before the first nodes are started, and ends with Run.
SyncNodes(t) ==
  /\ thr[t].pc = "idle" /\ (EarlySync \/ ~Starting) /\ thr["loop"].pc # "ended"
  /\ thr' = [thr EXCEPT ![t].pc = "lock"]
  /\ UNCHANGED <<externalVars, mu, inst, nodes, eventVars, failures, fails>>

Tick ==
  /\ thr["loop"].pc = "idle"
  /\ thr' = [thr EXCEPT !["loop"].pc = "lock"]
  /\ UNCHANGED <<externalVars, mu, inst, nodes, eventVars, failures, fails>>

\* What is running or parked and not assigned is to be removed.
Discover(t) ==
  /\ thr[t].pc = "lock" /\ mu = "free"
  /\ mu' = t
  /\ LET gone == {n \in Nodes \ panel : nodes[n] # 0 \/ failures[n] # "none"} IN
       thr' = [thr EXCEPT ![t] = [@ EXCEPT !.pc = "work", !.start = panel, !.remove = gone]]
  /\ UNCHANGED <<externalVars, inst, nodes, eventVars, failures, fails>>

Releases(t) == mu' = "free"

DiscoverFails(t) ==
  /\ thr[t].pc = "lock" /\ mu = "free"
  /\ Releases(t)
  /\ thr' = [thr EXCEPT ![t].pc = "idle"]
  /\ UNCHANGED <<externalVars, inst, nodes, eventVars, failures, fails>>

Finish(t) ==
  /\ thr[t].pc = "work" /\ thr[t].remove = {} /\ thr[t].start = {}
  /\ mu' = IF mu = t THEN "free" ELSE mu
  /\ thr' = [thr EXCEPT ![t] = Idle]
  /\ UNCHANGED <<externalVars, inst, nodes, eventVars, failures, fails>>

-----------------------------------------------------------------------------
(* stopNode and clearFailure                                               *)

\* A node that is only parked has no handle, and nothing to wait for.
Unlist(t, n) ==
  /\ thr[t].pc = "work" /\ n \in thr[t].remove
  /\ nodes' = [nodes EXCEPT ![n] = 0]
  /\ LET next == IF nodes[n] = 0 THEN "clear" ELSE "unbox" IN
       thr' = [thr EXCEPT ![t] = [@ EXCEPT !.pc = next, !.n = n, !.h = nodes[n]]]
  /\ UNCHANGED <<externalVars, mu, inst, eventVars, failures, fails>>

\* Mutant: nobody waits for the Service that was told to stop.
NoWait == "clear"
Wait == "wait"

\* The mailbox goes, then the context is cancelled.
Unbox(t) ==
  /\ thr[t].pc = "unbox"
  /\ mailboxes' = [mailboxes EXCEPT ![thr[t].n] = 0]
  /\ inst' = [inst EXCEPT ![thr[t].h].stop = TRUE]
  /\ thr' = [thr EXCEPT ![t].pc = Wait]
  /\ UNCHANGED <<externalVars, mu, nodes, statuses, failures, fails>>

Waited(t) ==
  /\ thr[t].pc = "wait" /\ inst[thr[t].h].st = "done"
  /\ thr' = [thr EXCEPT ![t].pc = "clear"]
  /\ UNCHANGED <<externalVars, mu, inst, nodes, eventVars, failures, fails>>

ClearFailure(t) ==
  /\ thr[t].pc = "clear"
  /\ failures' = [failures EXCEPT ![thr[t].n] = "none"]
  /\ LET rest == thr[t].remove \ {thr[t].n} IN
       thr' = [thr EXCEPT ![t] = [@ EXCEPT !.pc = "work", !.remove = rest, !.n = 0, !.h = 0]]
  /\ UNCHANGED <<externalVars, mu, inst, nodes, eventVars, fails>>

-----------------------------------------------------------------------------
(* startNode                                                               *)

\* Mutant: a parked node is started again at once.
Absent(n) == nodes[n] = 0
Startable(n) == nodes[n] = 0 /\ failures[n] # "parked"

\* A handle nobody refers to.  Not a guard of the code: the bound on handles.
Unused(h) ==
  /\ inst[h].st = "done"
  /\ \A t \in Threads : h # thr[t].h /\ h \notin thr[t].await

Skip(t, n) ==
  /\ thr[t].pc = "work" /\ thr[t].remove = {} /\ n \in thr[t].start
  /\ ~Startable(n)
  /\ thr' = [thr EXCEPT ![t].start = @ \ {n}]
  /\ UNCHANGED <<externalVars, mu, inst, nodes, eventVars, failures, fails>>

List(t, n) ==
  /\ thr[t].pc = "work" /\ thr[t].remove = {} /\ n \in thr[t].start
  /\ Startable(n)
  /\ SlowExit \/ \A h \in Handles : inst[h].node = n => inst[h].st # "unlisted"
  /\ \E h \in Handles :
       /\ Unused(h) /\ \A k \in 1..(h - 1) : ~Unused(k)
       /\ inst' = [inst EXCEPT ![h] = [node |-> n, stop |-> FALSE, st |-> "listed"]]
       /\ nodes' = [nodes EXCEPT ![n] = h]
       /\ thr' = [thr EXCEPT ![t] = [@ EXCEPT !.pc = "box", !.n = n, !.h = h]]
  /\ UNCHANGED <<externalVars, mu, eventVars, failures, fails>>

Box(t) ==
  /\ thr[t].pc = "box"
  /\ mailboxes' = [mailboxes EXCEPT ![thr[t].n] = thr[t].h]
  /\ thr' = [thr EXCEPT ![t].pc = "go"]
  /\ UNCHANGED <<externalVars, mu, inst, nodes, statuses, failures, fails>>

\* The goroutine of the Service starts after its configuration was looked at.
Go(t) ==
  /\ thr[t].pc = "go"
  /\ inst' = [inst EXCEPT ![thr[t].h].st = "run"]
  /\ LET rest == thr[t].start \ {thr[t].n} IN
       thr' = [thr EXCEPT ![t] = [@ EXCEPT !.pc = "work", !.start = rest, !.n = 0, !.h = 0]]
  /\ UNCHANGED <<externalVars, mu, nodes, eventVars, failures, fails>>

-----------------------------------------------------------------------------
(* The goroutine of a Service                                              *)

\* registerNode, called by Initial.
Register(h) ==
  /\ inst[h].st = "run"
  /\ inst' = [inst EXCEPT ![h].st = "up"]
  /\ statuses' = [statuses EXCEPT ![inst[h].node] = h]
  /\ UNCHANGED <<externalVars, mu, thr, nodes, mailboxes, failures, fails>>

\* Mutant: the node's context does not hang on that of Run.
ToldToStop(h) == inst[h].stop
Cancelled(h) == inst[h].stop \/ cancelled

Return(h, failure) ==
  /\ Live(h)
  /\ inst' = [inst EXCEPT ![h].st = "returned"]
  /\ failures' = [failures EXCEPT ![inst[h].node] = failure]
  /\ UNCHANGED <<externalVars, mu, thr, nodes, eventVars>>

\* Run returns an error, cancelled or not: recordFailure.
Fail(h) == fails < MaxFails /\ fails' = fails + 1 /\ Return(h, "parked")
\* A clean exit: clearFailure.
Exit(h) == Cancelled(h) /\ Return(h, "none") /\ UNCHANGED fails

\* Mutant: only stopNode cleans up o.nodes.
KeepsHandle(h) == nodes
Unlisted(h) == [nodes EXCEPT ![inst[h].node] = 0]

\* The two critical sections of unregisterNode; done is closed after them.
UnregisterNode(h) ==
  /\ inst[h].st = "returned"
  /\ inst' = [inst EXCEPT ![h].st = "unlisted"]
  /\ nodes' = Unlisted(h)
  /\ UNCHANGED <<externalVars, mu, thr, eventVars, failures, fails>>

UnregisterEvents(h) ==
  /\ inst[h].st = "unlisted"
  /\ inst' = [inst EXCEPT ![h] = [node |-> 0, stop |-> FALSE, st |-> "done"]]
  /\ mailboxes' = [mailboxes EXCEPT ![inst[h].node] = 0]
  /\ statuses' = [statuses EXCEPT ![inst[h].node] = 0]
  /\ UNCHANGED <<externalVars, mu, thr, nodes, failures, fails>>

-----------------------------------------------------------------------------
(* stopAll                                                                 *)

StopAll ==
  /\ cancelled /\ thr["loop"].pc = "idle"
  /\ LET handles == {nodes[n] : n \in Nodes} \ {0} IN
       /\ inst' = [h \in Handles |-> IF h \in handles THEN [inst[h] EXCEPT !.stop = TRUE] ELSE inst[h]]
       /\ thr' = [thr EXCEPT !["loop"] = [@ EXCEPT !.pc = "stopping", !.await = handles]]
  /\ UNCHANGED <<externalVars, mu, nodes, eventVars, failures, fails>>

Stopped ==
  /\ thr["loop"].pc = "stopping" /\ \A h \in thr["loop"].await : inst[h].st = "done"
  /\ thr' = [thr EXCEPT !["loop"] = [@ EXCEPT !.pc = "ended", !.await = {}]]
  /\ UNCHANGED <<externalVars, mu, inst, nodes, eventVars, failures, fails>>

-----------------------------------------------------------------------------
Works(t) ==
  \/ Finish(t)
  \/ \E n \in Nodes : Unlist(t, n) \/ Skip(t, n) \/ List(t, n)
  \/ Unbox(t) \/ Waited(t) \/ ClearFailure(t) \/ Box(t) \/ Go(t)

Ends(h) == Exit(h) \/ UnregisterNode(h) \/ UnregisterEvents(h)

Next ==
  \/ \E s \in Assignments : Assign(s)
  \/ Signal \/ Tick \/ StopAll \/ Stopped
  \/ \E n \in Nodes : BackoffOver(n)
  \/ \E t \in Syncs : SyncNodes(t)
  \/ \E t \in Threads : Discover(t) \/ DiscoverFails(t) \/ Works(t)
  \/ \E h \in Handles : Register(h) \/ Fail(h) \/ Ends(h)

Spec == Init /\ [][Next]_vars

\* The discovery ticker fires for ever and select takes the end of Run some
\* time; a discovery tried for ever succeeds, and gets the lock, some time;
\* goroutines go on and a Service that is cancelled returns.
Fairness ==
  /\ WF_vars(Tick) /\ SF_vars(StopAll) /\ WF_vars(Stopped)
  /\ \A n \in Nodes : WF_vars(BackoffOver(n))
  /\ \A t \in Threads : SF_vars(Discover(t)) /\ WF_vars(Works(t))
  /\ \A h \in Handles : WF_vars(Register(h)) /\ WF_vars(Ends(h))

FairSpec == Spec /\ Fairness

-----------------------------------------------------------------------------
(* Properties                                                              *)

\* Every variable has its type, and rediscoverMu is held by a discovery only.
TypeOK ==
  /\ panel \subseteq Nodes /\ edits \in Nat /\ fails \in Nat /\ cancelled \in BOOLEAN
  /\ thr \in [Threads -> Thread] /\ inst \in [Handles -> Service]
  /\ nodes \in [Nodes -> Handles \cup {0}]
  /\ mailboxes \in [Nodes -> Handles \cup {0}] /\ statuses \in [Nodes -> Handles \cup {0}]
  /\ failures \in [Nodes -> {"none", "parked", "due"}]
  /\ mu # "free" => mu \in Threads /\ thr[mu].pc \notin {"idle", "lock", "stopping", "ended"}

\* A node never has two Services at work, one of them being shut down
\* included: they would contend for its port and report its traffic.
OneService == \A h, k \in Handles : Live(h) /\ Live(k) /\ inst[h].node = inst[k].node => h = k

\* A Service that serves can be stopped and hears its events: it is listed and
\* has its own mailbox and status channel, unless it is being stopped.
Reachable ==
  \A h \in Handles : inst[h].st = "up" /\ ~Cancelled(h) =>
    LET n == inst[h].node IN
      /\ nodes[n] = h \/ \E t \in Threads : thr[t].h = h
      /\ mailboxes[n] = h /\ statuses[n] = h

\* A node that waits for its backoff has no Service at work.
ParkedRests == \A h \in Handles : Live(h) => failures[inst[h].node] # "parked"

Serving(n) ==
  LET h == nodes[n] IN
    h # 0 /\ inst[h].st = "up" /\ ~Cancelled(h) /\ mailboxes[n] = h /\ statuses[n] = h

\* Unless Run is cancelled, the machine ends up serving the assigned nodes and
\* no others, and no backoff of another node is left behind.
Converges ==
  []~cancelled =>
    <>[]\A n \in Nodes : IF n \in panel THEN Serving(n) ELSE nodes[n] = 0 /\ failures[n] = "none"

\* A cancelled Run ends, and no Service stays at work for good.
Shutdown == cancelled ~> [](thr["loop"].pc = "ended" /\ \A h \in Handles : ~Live(h))

-----------------------------------------------------------------------------
(* Why: the inductive invariant                                            *)

\* A thread that is at work on the registry.
Working(t) == thr[t].pc \notin {"idle", "lock", "stopping", "ended"}
\* A Service that is to be found in o.nodes, or in the hands of who stops it.
Held(h) == inst[h].st \in {"listed", "run", "up", "returned"}
Stops(t, h) == thr[t].pc \in {"unbox", "wait"} /\ thr[t].h = h /\ thr[t].n = inst[h].node

OneWorker ==
  \A t \in Threads : Working(t) =>
    \/ mu = t
    \/ t = "loop" /\ Starting /\ thr[t].remove = {} /\ \A s \in Syncs : thr[s].pc = "idle"

Listed == \A n \in Nodes : nodes[n] # 0 => Held(nodes[n]) /\ inst[nodes[n]].node = n

Owned ==
  \A h \in Handles : Held(h) =>
    /\ inst[h].node \in Nodes
    /\ nodes[inst[h].node] = h \/ \E t \in Threads : Stops(t, h)

InHand ==
  \A t \in Threads :
    /\ thr[t].pc \in {"box", "go"} =>
         /\ thr[t].n \in Nodes /\ thr[t].h \in Handles
         /\ inst[thr[t].h].st = "listed" /\ inst[thr[t].h].node = thr[t].n
         /\ nodes[thr[t].n] = thr[t].h
    /\ thr[t].pc \in {"unbox", "wait", "clear"} => thr[t].n \in Nodes /\ nodes[thr[t].n] = 0
    /\ thr[t].pc \in {"unbox", "wait"} => thr[t].h \in Handles

Rested ==
  \A h \in Handles : inst[h].st \in {"listed", "run", "up"} => failures[inst[h].node] # "parked"

\* What startNode, stopNode and unregisterNode rely on: one thread works on the
\* registry at a time, o.nodes and the threads agree with the Services on who is
\* listed, and no node that has a Service is parked.
RegistryInv == OneWorker /\ Listed /\ Owned /\ InHand /\ Rested

NoLateExit ==
  \A h, k \in Handles : Held(h) /\ inst[k].st = "unlisted" => inst[h].node # inst[k].node

Boxed ==
  \A h \in Handles : Held(h) /\ ~inst[h].stop =>
    mailboxes[inst[h].node] = h \/ \E t \in Threads : thr[t].pc = "box" /\ thr[t].h = h

Statused == \A h \in Handles : inst[h].st = "up" => statuses[inst[h].node] = h

\* With it, what the events rely on, which go by node ID: a Service that is not
\* being stopped has its mailbox and status channel, and no Service of the same
\* node is about to remove them.
IndInv == RegistryInv /\ NoLateExit /\ Boxed /\ Statused
=============================================================================
