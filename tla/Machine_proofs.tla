-------------------------- MODULE Machine_proofs --------------------------
(***************************************************************************)
(* What the run of Machine shows on a small instance, for every set of     *)
(* nodes, any number of goroutines, changes and failures.                  *)
(***************************************************************************)
EXTENDS Machine, TLAPS

\* Initially every variable has its type.
LEMMA InitType == Init => TypeOK
  <1> SUFFICES ASSUME Init PROVE TypeOK
    OBVIOUS
  <1>1. panel \subseteq Nodes
    BY MachineAssumption DEF Init
  <1>2. thr \in [Threads -> Thread]
    BY <1>1 DEF Init, Idle, Thread, Threads
  <1>3. inst \in [Handles -> Service]
    BY DEF Init, Service
  <1> QED  BY <1>1, <1>2, <1>3, MachineAssumption DEF Init, TypeOK, Threads

\* The environment.
LEMMA EnvironmentType ==
  ASSUME TypeOK,
         \/ \E s \in Assignments : Assign(s)
         \/ Signal
         \/ \E n \in Nodes : BackoffOver(n)
  PROVE  TypeOK'
  <1>1. ASSUME NEW s \in Assignments, Assign(s) PROVE TypeOK'
    BY <1>1, MachineAssumption DEF TypeOK, Assign, eventVars
  <1>2. CASE Signal
    BY <1>2 DEF TypeOK, Signal, eventVars
  <1>3. ASSUME NEW n \in Nodes, BackoffOver(n) PROVE TypeOK'
    BY <1>3 DEF TypeOK, BackoffOver, externalVars, eventVars
  <1> QED  BY <1>1, <1>2, <1>3

\* The registry lock is in order after a step of thread t, which becomes r.
LEMMA ThreadStep ==
  ASSUME TypeOK, NEW t \in Threads, NEW r \in Thread,
         thr' = [thr EXCEPT ![t] = r],
         mu' \in {mu, t, "free"},
         mu' = t => r.pc \notin {"idle", "lock", "stopping", "ended"}
  PROVE  /\ thr' \in [Threads -> Thread]
         /\ mu' # "free" => mu' \in Threads /\ thr'[mu'].pc \notin {"idle", "lock", "stopping", "ended"}
  <1>1. thr \in [Threads -> Thread]
    BY DEF TypeOK
  <1>2. thr' \in [Threads -> Thread] /\ thr'[t] = r /\ \A s \in Threads \ {t} : thr'[s] = thr[s]
    BY <1>1
  <1>3. mu # "free" => mu \in Threads /\ thr[mu].pc \notin {"idle", "lock", "stopping", "ended"}
    BY DEF TypeOK
  <1> QED  BY <1>2, <1>3

\* A service that is told to stop is a service.
LEMMA StopType ==
  ASSUME TypeOK, NEW h \in Handles
  PROVE  [inst[h] EXCEPT !.stop = TRUE] \in Service
  <1>1. inst[h] \in Service  BY DEF TypeOK
  <1> QED  BY <1>1 DEF Service

\* What the threads do outside stopNode and startNode.
LEMMA DiscoveryType ==
  ASSUME TypeOK, NEW t \in Threads,
         \/ t \in Syncs /\ SyncNodes(t)
         \/ Tick \/ StopAll \/ Stopped
         \/ Discover(t) \/ DiscoverFails(t)
  PROVE  TypeOK'
  <1> USE DEF eventVars, externalVars
  <1>0. "loop" \in Threads /\ "free" \notin Threads /\ thr["loop"] \in Thread /\ thr[t] \in Thread
    BY MachineAssumption DEF Threads, TypeOK
  <1>1. CASE t \in Syncs /\ SyncNodes(t)
    <2>1. [thr[t] EXCEPT !.pc = "lock"] \in Thread
      BY <1>0 DEF Thread
    <2>2. mu # t
      BY <1>0, <1>1 DEF SyncNodes, TypeOK
    <2> QED  BY <1>0, <1>1, <2>1, <2>2, ThreadStep DEF TypeOK, SyncNodes
  <1>2. CASE Tick
    <2>1. [thr["loop"] EXCEPT !.pc = "lock"] \in Thread
      BY <1>0 DEF Thread
    <2>2. mu # "loop"
      BY <1>0, <1>2 DEF Tick, TypeOK
    <2> QED  BY <1>0, <1>2, <2>1, <2>2, ThreadStep DEF TypeOK, Tick
  <1>3. CASE StopAll
    <2> DEFINE handles == {nodes[n] : n \in Nodes} \ {0}
    <2>1. handles \subseteq Handles
      <3>1. \A n \in Nodes : nodes[n] \in Handles \cup {0}  BY DEF TypeOK
      <3> QED  BY <3>1
    <2>2. [thr["loop"] EXCEPT !.pc = "stopping", !.await = handles] \in Thread
      BY <1>0, <2>1 DEF Thread
    <2>3. inst' \in [Handles -> Service]
      <3>1. \A h \in Handles : [inst[h] EXCEPT !.stop = TRUE] \in Service  BY StopType
      <3>2. inst \in [Handles -> Service]  BY DEF TypeOK
      <3>3. inst' = [h \in Handles |-> IF h \in handles THEN [inst[h] EXCEPT !.stop = TRUE] ELSE inst[h]]
        BY <1>3 DEF StopAll
      <3> QED  BY <3>1, <3>2, <3>3
    <2>4. mu # "loop"
      BY <1>0, <1>3 DEF StopAll, TypeOK
    <2>5. thr' = [thr EXCEPT !["loop"] = [thr["loop"] EXCEPT !.pc = "stopping", !.await = handles]]
      BY <1>3 DEF StopAll
    <2> HIDE DEF handles
    <2> QED  BY <1>0, <1>3, <2>2, <2>3, <2>4, <2>5, ThreadStep DEF TypeOK, StopAll
  <1>4. CASE Stopped
    <2>1. [thr["loop"] EXCEPT !.pc = "ended", !.await = {}] \in Thread
      BY <1>0 DEF Thread
    <2>2. mu # "loop"
      BY <1>0, <1>4 DEF Stopped, TypeOK
    <2> QED  BY <1>0, <1>4, <2>1, <2>2, ThreadStep DEF TypeOK, Stopped
  <1>5. CASE Discover(t)
    <2> DEFINE gone == {n \in Nodes \ panel : nodes[n] # 0 \/ failures[n] # "none"}
    <2>1. [thr[t] EXCEPT !.pc = "work", !.start = panel, !.remove = gone] \in Thread
      BY <1>0 DEF Thread, TypeOK
    <2>2. thr' = [thr EXCEPT ![t] = [thr[t] EXCEPT !.pc = "work", !.start = panel, !.remove = gone]]
      BY <1>5 DEF Discover
    <2>3. [thr[t] EXCEPT !.pc = "work", !.start = panel, !.remove = gone].pc = "work"
      BY <1>0 DEF Thread
    <2> HIDE DEF gone
    <2> QED  BY <1>0, <1>5, <2>1, <2>2, <2>3, ThreadStep DEF TypeOK, Discover
  <1>6. CASE DiscoverFails(t)
    <2>1. [thr[t] EXCEPT !.pc = "idle"] \in Thread
      BY <1>0 DEF Thread
    <2> QED  BY <1>0, <1>6, <2>1, ThreadStep DEF TypeOK, DiscoverFails, Releases
  <1> QED  BY <1>1, <1>2, <1>3, <1>4, <1>5, <1>6

\* stopNode, clearFailure and startNode.
LEMMA WorkType ==
  ASSUME TypeOK, NEW t \in Threads, Works(t)
  PROVE  TypeOK'
  <1> USE DEF eventVars, externalVars
  <1>0. thr[t] \in Thread
    BY DEF TypeOK
  <1>1. ASSUME NEW n \in Nodes, Unlist(t, n) PROVE TypeOK'
    <2> DEFINE next == IF nodes[n] = 0 THEN "clear" ELSE "unbox"
               r == [thr[t] EXCEPT !.pc = next, !.n = n, !.h = nodes[n]]
    <2>1. r \in Thread /\ r.pc \in {"clear", "unbox"}
      BY <1>0 DEF Thread, TypeOK
    <2>2. thr' = [thr EXCEPT ![t] = r]
      BY <1>1 DEF Unlist
    <2>3. nodes' \in [Nodes -> Handles \cup {0}]
      BY <1>1 DEF Unlist, TypeOK
    <2> HIDE DEF r
    <2> QED  BY <1>1, <2>1, <2>2, <2>3, ThreadStep DEF TypeOK, Unlist
  <1>2. CASE Unbox(t)
    <2> DEFINE r == [thr[t] EXCEPT !.pc = "wait"]
    <2>1. r \in Thread /\ r.pc = "wait"
      BY <1>0 DEF Thread
    <2>2. thr' = [thr EXCEPT ![t] = r]
      BY <1>2 DEF Unbox, Wait
    <2>3. inst' \in [Handles -> Service]
      <3>1. inst \in [Handles -> Service]  BY DEF TypeOK
      <3>2. inst' = [inst EXCEPT ![thr[t].h] = [inst[thr[t].h] EXCEPT !.stop = TRUE]]
        BY <1>2 DEF Unbox
      <3>3. \A h \in Handles : [inst[h] EXCEPT !.stop = TRUE] \in Service  BY StopType
      <3> QED  BY <3>1, <3>2, <3>3
    <2>4. mailboxes' \in [Nodes -> Handles \cup {0}]
      BY <1>2 DEF Unbox, TypeOK
    <2> HIDE DEF r
    <2> QED  BY <1>2, <2>1, <2>2, <2>3, <2>4, ThreadStep DEF TypeOK, Unbox
  <1>3. CASE Waited(t)
    <2> DEFINE r == [thr[t] EXCEPT !.pc = "clear"]
    <2>1. r \in Thread /\ r.pc = "clear"
      BY <1>0 DEF Thread
    <2>2. thr' = [thr EXCEPT ![t] = r]
      BY <1>3 DEF Waited
    <2> HIDE DEF r
    <2> QED  BY <1>3, <2>1, <2>2, ThreadStep DEF TypeOK, Waited
  <1>4. CASE ClearFailure(t)
    <2> DEFINE r == [thr[t] EXCEPT !.pc = "work", !.remove = thr[t].remove \ {thr[t].n}, !.n = 0, !.h = 0]
    <2>1. r \in Thread /\ r.pc = "work"
      BY <1>0 DEF Thread
    <2>2. thr' = [thr EXCEPT ![t] = r]
      BY <1>4 DEF ClearFailure
    <2>3. failures' \in [Nodes -> {"none", "parked", "due"}]
      BY <1>4 DEF ClearFailure, TypeOK
    <2> HIDE DEF r
    <2> QED  BY <1>4, <2>1, <2>2, <2>3, ThreadStep DEF TypeOK, ClearFailure
  <1>5. ASSUME NEW n \in Nodes, Skip(t, n) PROVE TypeOK'
    <2> DEFINE r == [thr[t] EXCEPT !.start = @ \ {n}]
    <2>1. r \in Thread /\ r.pc = "work"
      BY <1>0, <1>5 DEF Thread, Skip
    <2>2. thr' = [thr EXCEPT ![t] = r]
      BY <1>5 DEF Skip
    <2> HIDE DEF r
    <2> QED  BY <1>5, <2>1, <2>2, ThreadStep DEF TypeOK, Skip
  <1>6. ASSUME NEW n \in Nodes, List(t, n) PROVE TypeOK'
    <2>1. PICK h \in Handles :
             /\ inst' = [inst EXCEPT ![h] = [node |-> n, stop |-> FALSE, st |-> "listed"]]
             /\ nodes' = [nodes EXCEPT ![n] = h]
             /\ thr' = [thr EXCEPT ![t] = [@ EXCEPT !.pc = "box", !.n = n, !.h = h]]
      BY <1>6 DEF List
    <2> DEFINE r == [thr[t] EXCEPT !.pc = "box", !.n = n, !.h = h]
    <2>2. r \in Thread /\ r.pc = "box"
      BY <1>0 DEF Thread
    <2>3. thr' = [thr EXCEPT ![t] = r]
      BY <2>1
    <2>4. inst' \in [Handles -> Service] /\ nodes' \in [Nodes -> Handles \cup {0}]
      BY <2>1 DEF TypeOK, Service
    <2> HIDE DEF r
    <2> QED  BY <1>6, <2>2, <2>3, <2>4, ThreadStep DEF TypeOK, List
  <1>7. CASE Box(t)
    <2> DEFINE r == [thr[t] EXCEPT !.pc = "go"]
    <2>1. r \in Thread /\ r.pc = "go" /\ thr[t].h \in Handles \cup {0}
      BY <1>0 DEF Thread
    <2>2. thr' = [thr EXCEPT ![t] = r]
      BY <1>7 DEF Box
    <2>3. mailboxes' \in [Nodes -> Handles \cup {0}]
      BY <1>7, <2>1 DEF Box, TypeOK
    <2> HIDE DEF r
    <2> QED  BY <1>7, <2>1, <2>2, <2>3, ThreadStep DEF TypeOK, Box
  <1>8. CASE Go(t)
    <2> DEFINE r == [thr[t] EXCEPT !.pc = "work", !.start = thr[t].start \ {thr[t].n}, !.n = 0, !.h = 0]
    <2>1. r \in Thread /\ r.pc = "work"
      BY <1>0 DEF Thread
    <2>2. thr' = [thr EXCEPT ![t] = r]
      BY <1>8 DEF Go
    <2>3. inst' \in [Handles -> Service]
      <3>1. inst \in [Handles -> Service]  BY DEF TypeOK
      <3>2. inst' = [inst EXCEPT ![thr[t].h] = [inst[thr[t].h] EXCEPT !.st = "run"]]
        BY <1>8 DEF Go
      <3>3. \A h \in Handles : [inst[h] EXCEPT !.st = "run"] \in Service
        <4> SUFFICES ASSUME NEW h \in Handles PROVE [inst[h] EXCEPT !.st = "run"] \in Service
          OBVIOUS
        <4>1. inst[h] \in Service  BY <3>1
        <4> QED  BY <4>1 DEF Service
      <3> QED  BY <3>1, <3>2, <3>3
    <2> HIDE DEF r
    <2> QED  BY <1>8, <2>1, <2>2, <2>3, ThreadStep DEF TypeOK, Go
  <1>9. CASE Finish(t)
    <2>1. Idle \in Thread
      BY DEF Idle, Thread
    <2> QED  BY <1>9, <2>1, ThreadStep DEF TypeOK, Finish
  <1> QED  BY <1>1, <1>2, <1>3, <1>4, <1>5, <1>6, <1>7, <1>8, <1>9 DEF Works

\* The goroutine of a Service.
LEMMA ServiceType ==
  ASSUME TypeOK, NEW h \in Handles,
         Register(h) \/ Fail(h) \/ Exit(h) \/ UnregisterNode(h) \/ UnregisterEvents(h)
  PROVE  TypeOK'
  <1> USE DEF eventVars, externalVars, Service
  <1>0. inst[h] \in Service /\ inst[h].node \in Nodes \cup {0}
    BY DEF TypeOK
  <1>1. CASE Register(h)
    <2>1. statuses' \in [Nodes -> Handles \cup {0}]
      BY <1>1 DEF TypeOK, Register
    <2>2. inst' \in [Handles -> Service]
      BY <1>1 DEF TypeOK, Register
    <2> QED  BY <1>1, <2>1, <2>2 DEF TypeOK, Register
  <1>2. CASE Fail(h)
    <2>1. failures' \in [Nodes -> {"none", "parked", "due"}]
      BY <1>2 DEF TypeOK, Fail, Return
    <2>2. inst' \in [Handles -> Service]
      BY <1>2 DEF TypeOK, Fail, Return
    <2>3. fails' \in Nat
      BY <1>2 DEF TypeOK, Fail
    <2> QED  BY <1>2, <2>1, <2>2, <2>3 DEF TypeOK, Fail, Return
  <1>3. CASE Exit(h)
    BY <1>3 DEF TypeOK, Exit, Return
  <1>4. CASE UnregisterNode(h)
    BY <1>4 DEF TypeOK, UnregisterNode, Unlisted
  <1>5. CASE UnregisterEvents(h)
    BY <1>5 DEF TypeOK, UnregisterEvents
  <1> QED  BY <1>1, <1>2, <1>3, <1>4, <1>5

\* Every step keeps the types.
LEMMA TypeStep == TypeOK /\ [Next]_vars => TypeOK'
  <1> SUFFICES ASSUME TypeOK, [Next]_vars PROVE TypeOK'
    OBVIOUS
  <1>1. CASE UNCHANGED vars
    BY <1>1 DEF TypeOK, vars
  <1>2. CASE Next
    <2>1. "loop" \in Threads /\ Syncs \subseteq Threads
      BY DEF Threads
    <2>2. ASSUME NEW t \in Threads, Works(t) PROVE TypeOK'
      BY <2>2, WorkType
    <2>3. ASSUME NEW h \in Handles, Register(h) \/ Fail(h) \/ Ends(h) PROVE TypeOK'
      BY <2>3, ServiceType DEF Ends
    <2>4. ASSUME NEW t \in Threads, Discover(t) \/ DiscoverFails(t) PROVE TypeOK'
      BY <2>4, DiscoveryType
    <2>5. CASE Tick \/ StopAll \/ Stopped
      BY <2>1, <2>5, DiscoveryType
    <2>6. ASSUME NEW t \in Syncs, SyncNodes(t) PROVE TypeOK'
      BY <2>1, <2>6, DiscoveryType
    <2>7. CASE (\E s \in Assignments : Assign(s)) \/ Signal \/ (\E n \in Nodes : BackoffOver(n))
      BY <2>7, EnvironmentType
    <2> QED  BY <1>2, <2>2, <2>3, <2>4, <2>5, <2>6, <2>7 DEF Next
  <1> QED  BY <1>1, <1>2

\* Every variable keeps its type and only a discovery holds rediscoverMu, for
\* any number of nodes, goroutines of sync.nodes, changes and failures.
THEOREM TypeCorrect == Spec => []TypeOK
  <1> QED  BY InitType, TypeStep, PTL DEF Spec

-----------------------------------------------------------------------------
(* The registry                                                            *)

\* One thread works at a time, and a node has one held Service.
LEMMA Exclusion ==
  ASSUME TypeOK, RegistryInv
  PROVE  /\ \A s, t \in Threads : Working(s) /\ Working(t) => s = t
         /\ \A h, k \in Handles : Held(h) /\ Held(k) /\ inst[h].node = inst[k].node => h = k
  <1>1. ASSUME NEW s \in Threads, NEW t \in Threads, Working(s), Working(t) PROVE s = t
    <2>1. "free" \notin Threads /\ (mu # "free" => mu \in Threads)
      BY MachineAssumption DEF Threads, TypeOK
    <2>2. mu = s \/ (s = "loop" /\ \A r \in Syncs : ~Working(r))
      BY <1>1 DEF RegistryInv, OneWorker, Working
    <2>3. mu = t \/ (t = "loop" /\ \A r \in Syncs : ~Working(r))
      BY <1>1 DEF RegistryInv, OneWorker, Working
    <2> QED  BY <1>1, <2>1, <2>2, <2>3 DEF Threads
  <1>2. ASSUME NEW h \in Handles, NEW k \in Handles,
               Held(h), Held(k), inst[h].node = inst[k].node
        PROVE  h = k
    <2>1. inst[h].node \in Nodes
      BY <1>2 DEF RegistryInv, Owned
    <2>2. nodes[inst[h].node] = h \/ \E t \in Threads : Stops(t, h)
      BY <1>2 DEF RegistryInv, Owned
    <2>3. nodes[inst[h].node] = k \/ \E t \in Threads : Stops(t, k)
      BY <1>2 DEF RegistryInv, Owned
    <2>4. \A t \in Threads : Stops(t, h) \/ Stops(t, k) => Working(t) /\ nodes[inst[h].node] = 0
      BY <1>2 DEF RegistryInv, InHand, Stops, Working
    <2>5. h # 0 /\ k # 0
      BY DEF Handles
    <2>6. CASE nodes[inst[h].node] # 0
      BY <2>2, <2>3, <2>4, <2>6
    <2>7. CASE nodes[inst[h].node] = 0
      <3>1. PICK s \in Threads, t \in Threads : Stops(s, h) /\ Stops(t, k)
        BY <2>2, <2>3, <2>5, <2>7
      <3>2. s = t
        BY <1>1, <2>4, <3>1
      <3> QED  BY <3>1, <3>2 DEF Stops
    <2> QED  BY <2>6, <2>7
  <1> QED  BY <1>1, <1>2

\* The inductive invariant holds initially.
LEMMA InitRegistry == Init => IndInv
  <1> SUFFICES ASSUME Init PROVE IndInv
    OBVIOUS
  <1>1. \A t \in Threads : thr[t].pc = IF t = "loop" THEN "work" ELSE "idle"
    BY DEF Init, Idle
  <1>2. \A h \in Handles : inst[h].st = "done"
    BY DEF Init
  <1>3. "loop" \in Threads /\ "loop" \notin Syncs /\ Syncs \subseteq Threads
    BY MachineAssumption DEF Threads
  <1>4. OneWorker
    <2>1. Starting /\ thr["loop"].remove = {}
      BY <1>1, <1>3 DEF Init, Starting, Idle
    <2> QED  BY <1>1, <1>3, <2>1 DEF OneWorker, Working
  <1>5. Listed /\ Owned /\ Rested /\ NoLateExit /\ Boxed /\ Statused
    BY <1>2 DEF Init, Listed, Owned, Rested, NoLateExit, Boxed, Statused, Held
  <1>6. InHand
    BY <1>1 DEF InHand
  <1> QED  BY <1>4, <1>5, <1>6 DEF IndInv, RegistryInv

\* What a step of thread t changes.
LEMMA ThreadFacts ==
  ASSUME TypeOK, NEW t \in Threads, NEW r, thr' = [thr EXCEPT ![t] = r]
  PROVE  thr'[t] = r /\ \A s \in Threads \ {t} : thr'[s] = thr[s]
  BY DEF TypeOK

\* A step that leaves o.nodes and the Services' states alone keeps the registry
\* in order when the thread that makes it does.
LEMMA QuietStep ==
  ASSUME TypeOK, RegistryInv, NEW t \in Threads,
         \A s \in Threads \ {t} : thr'[s] = thr[s],
         UNCHANGED nodes,
         \A h \in Handles : inst'[h].st = inst[h].st /\ inst'[h].node = inst[h].node,
         \A n \in Nodes : failures'[n] = "parked" => failures[n] = "parked",
         OneWorker',
         \A h \in Handles : Held(h) /\ Stops(t, h) => Stops(t, h)',
         thr'[t].pc \in {"box", "go"} =>
           thr[t].pc \in {"box", "go"} /\ thr'[t].n = thr[t].n /\ thr'[t].h = thr[t].h,
         thr'[t].pc \in {"unbox", "wait", "clear"} =>
           thr[t].pc \in {"unbox", "wait", "clear"} /\ thr'[t].n = thr[t].n /\ thr'[t].h = thr[t].h,
         thr'[t].pc \in {"unbox", "wait"} => thr[t].pc \in {"unbox", "wait"}
  PROVE  RegistryInv'
  <1>1. \A h \in Handles : Held(h)' <=> Held(h)
    BY DEF Held
  <1>2. Listed'
    <2>1. ASSUME NEW n \in Nodes, nodes[n] # 0 PROVE Held(nodes[n])' /\ inst'[nodes[n]].node = n
      <3>1. nodes[n] \in Handles /\ Held(nodes[n]) /\ inst[nodes[n]].node = n
        BY <2>1 DEF TypeOK, RegistryInv, Listed
      <3> QED  BY <1>1, <3>1
    <2> QED  BY <2>1 DEF Listed
  <1>3. Owned'
    <2>1. ASSUME NEW h \in Handles, NEW s \in Threads, Held(h), Stops(s, h) PROVE Stops(s, h)'
      BY <2>1 DEF Stops
    <2> QED  BY <1>1, <2>1 DEF RegistryInv, Owned
  <1>4. InHand'
    BY DEF RegistryInv, InHand
  <1>5. Rested'
    <2>1. \A h \in Handles : inst[h].st \in {"listed", "run", "up"} => inst[h].node \in Nodes
      BY DEF RegistryInv, Owned, Held
    <2> QED  BY <2>1 DEF RegistryInv, Rested
  <1> QED  BY <1>2, <1>3, <1>4, <1>5 DEF RegistryInv

\* The environment does not disturb the registry.
LEMMA EnvironmentRegistry ==
  ASSUME TypeOK, RegistryInv,
         \/ \E s \in Assignments : Assign(s)
         \/ Signal
         \/ \E n \in Nodes : BackoffOver(n)
  PROVE  RegistryInv'
  <1> USE DEF RegistryInv, OneWorker, Listed, Owned, InHand, Working, Held, Stops, Starting
  <1>1. CASE (\E s \in Assignments : Assign(s)) \/ Signal
    BY <1>1 DEF Assign, Signal, Rested
  <1>2. ASSUME NEW n \in Nodes, BackoffOver(n) PROVE RegistryInv'
    <2>1. Rested'
      BY <1>2 DEF BackoffOver, Rested, TypeOK
    <2> QED  BY <1>2, <2>1 DEF BackoffOver
  <1> QED  BY <1>1, <1>2

\* A thread at work steps while the others do nothing: they are not at work.
LEMMA WorkerStep ==
  ASSUME TypeOK, RegistryInv, NEW t \in Threads, Working(t), UNCHANGED mu,
         \A s \in Threads \ {t} : thr'[s] = thr[s],
         thr[t].pc \in {"work", "box", "go"} /\ thr[t].remove = {} =>
           thr'[t].pc \in {"work", "box", "go"} /\ thr'[t].remove = {}
  PROVE  OneWorker'
  <1>1. \A s \in Threads \ {t} : ~Working(s)
    BY Exclusion
  <1>2. \A s \in Threads \ {t} : ~Working(s)'
    BY <1>1 DEF Working
  <1>3. CASE mu = t
    BY <1>2, <1>3 DEF OneWorker
  <1>4. CASE mu # t
    <2>1. t = "loop" /\ Starting /\ thr[t].remove = {} /\ \A s \in Syncs : thr[s].pc = "idle"
      BY <1>4 DEF RegistryInv, OneWorker
    <2>2. Starting' /\ thr'[t].remove = {}
      BY <1>4, <2>1 DEF Starting
    <2>3. "loop" \notin Syncs /\ Syncs \subseteq Threads
      BY MachineAssumption DEF Threads
    <2>4. \A s \in Syncs : thr'[s].pc = "idle"
      BY <2>1, <2>3
    <2> QED  BY <1>2, <2>1, <2>2, <2>4 DEF OneWorker
  <1> QED  BY <1>3, <1>4

\* Discoveries begin one at a time, and after the first nodes are started.
LEMMA DiscoveryRegistry ==
  ASSUME TypeOK, RegistryInv, ~EarlySync, NEW t \in Threads,
         \/ t \in Syncs /\ SyncNodes(t)
         \/ Tick \/ StopAll \/ Stopped
         \/ Discover(t) \/ DiscoverFails(t)
  PROVE  RegistryInv'
  <1>0. /\ "loop" \in Threads /\ "free" \notin Threads /\ "loop" \notin Syncs
        /\ Syncs \subseteq Threads /\ \A s \in Threads : thr[s] \in Thread
    BY MachineAssumption DEF Threads, TypeOK
  <1>1. CASE SyncNodes(t)
    <2> DEFINE r == [thr[t] EXCEPT !.pc = "lock"]
    <2>1. thr' = [thr EXCEPT ![t] = r]
      BY <1>1 DEF SyncNodes
    <2>2. r.pc = "lock" /\ thr[t].pc = "idle" /\ ~Starting
      BY <1>0, <1>1 DEF Thread, SyncNodes
    <2> HIDE DEF r
    <2>3. thr'[t] = r /\ \A s \in Threads \ {t} : thr'[s] = thr[s]
      BY <1>0, <2>1, ThreadFacts
    <2>4. OneWorker'
      BY <1>0, <1>1, <2>2, <2>3 DEF RegistryInv, OneWorker, Working, SyncNodes, Starting
    <2> QED  BY <1>1, <2>2, <2>3, <2>4, QuietStep DEF SyncNodes, Stops
  <1>2. CASE Tick
    <2> DEFINE r == [thr["loop"] EXCEPT !.pc = "lock"]
    <2>1. thr' = [thr EXCEPT !["loop"] = r]
      BY <1>2 DEF Tick
    <2>2. r.pc = "lock" /\ thr["loop"].pc = "idle"
      BY <1>0, <1>2 DEF Thread, Tick
    <2> HIDE DEF r
    <2>3. thr'["loop"] = r /\ \A s \in Threads \ {"loop"} : thr'[s] = thr[s]
      BY <1>0, <2>1, ThreadFacts
    <2>4. OneWorker'
      BY <1>0, <1>2, <2>2, <2>3 DEF RegistryInv, OneWorker, Working, Tick, Starting
    <2> QED  BY <1>0, <1>2, <2>2, <2>3, <2>4, QuietStep DEF Tick, Stops
  <1>3. CASE StopAll
    <2> DEFINE r == [thr["loop"] EXCEPT !.pc = "stopping", !.await = {nodes[n] : n \in Nodes} \ {0}]
    <2>1. thr' = [thr EXCEPT !["loop"] = r]
      BY <1>3 DEF StopAll
    <2>2. r.pc = "stopping" /\ thr["loop"].pc = "idle"
      BY <1>0, <1>3 DEF Thread, StopAll
    <2> HIDE DEF r
    <2>3. thr'["loop"] = r /\ \A s \in Threads \ {"loop"} : thr'[s] = thr[s]
      BY <1>0, <2>1, ThreadFacts
    <2>4. OneWorker'
      BY <1>0, <1>3, <2>2, <2>3 DEF RegistryInv, OneWorker, Working, StopAll, Starting
    <2>5. \A h \in Handles : inst'[h].st = inst[h].st /\ inst'[h].node = inst[h].node
      BY <1>3 DEF StopAll, TypeOK, Service
    <2> QED  BY <1>0, <1>3, <2>2, <2>3, <2>4, <2>5, QuietStep DEF StopAll, Stops
  <1>4. CASE Stopped
    <2> DEFINE r == [thr["loop"] EXCEPT !.pc = "ended", !.await = {}]
    <2>1. thr' = [thr EXCEPT !["loop"] = r]
      BY <1>4 DEF Stopped
    <2>2. r.pc = "ended" /\ thr["loop"].pc = "stopping"
      BY <1>0, <1>4 DEF Thread, Stopped
    <2> HIDE DEF r
    <2>3. thr'["loop"] = r /\ \A s \in Threads \ {"loop"} : thr'[s] = thr[s]
      BY <1>0, <2>1, ThreadFacts
    <2>4. OneWorker'
      BY <1>0, <1>4, <2>2, <2>3 DEF RegistryInv, OneWorker, Working, Stopped, Starting
    <2> QED  BY <1>0, <1>4, <2>2, <2>3, <2>4, QuietStep DEF Stopped, Stops
  <1>5. CASE Discover(t)
    <2> DEFINE gone == {n \in Nodes \ panel : nodes[n] # 0 \/ failures[n] # "none"}
               r == [thr[t] EXCEPT !.pc = "work", !.start = panel, !.remove = gone]
    <2>1. thr' = [thr EXCEPT ![t] = r]
      BY <1>5 DEF Discover
    <2>2. r.pc = "work" /\ thr[t].pc = "lock"
      BY <1>0, <1>5 DEF Thread, Discover
    <2> HIDE DEF r
    <2>3. thr'[t] = r /\ \A s \in Threads \ {t} : thr'[s] = thr[s]
      BY <1>0, <2>1, ThreadFacts
    <2>4. \A s \in Threads : ~Working(s)
      BY <1>0, <1>5, <2>2 DEF RegistryInv, OneWorker, Discover, Starting, Threads
    <2>5. OneWorker'
      BY <1>5, <2>3, <2>4 DEF OneWorker, Working, Discover
    <2> QED  BY <1>5, <2>2, <2>3, <2>5, QuietStep DEF Discover, Stops
  <1>6. CASE DiscoverFails(t)
    <2> DEFINE r == [thr[t] EXCEPT !.pc = "idle"]
    <2>1. thr' = [thr EXCEPT ![t] = r]
      BY <1>6 DEF DiscoverFails
    <2>2. r.pc = "idle" /\ thr[t].pc = "lock"
      BY <1>0, <1>6 DEF Thread, DiscoverFails
    <2> HIDE DEF r
    <2>3. thr'[t] = r /\ \A s \in Threads \ {t} : thr'[s] = thr[s]
      BY <1>0, <2>1, ThreadFacts
    <2>4. OneWorker'
      BY <1>0, <1>6, <2>2, <2>3 DEF RegistryInv, OneWorker, Working, DiscoverFails, Releases, Starting, Threads
    <2> QED  BY <1>6, <2>2, <2>3, <2>4, QuietStep DEF DiscoverFails, Stops
  <1> QED  BY <1>1, <1>2, <1>3, <1>4, <1>5, <1>6

\* stopNode, clearFailure and the end of a discovery.
LEMMA StopRegistry ==
  ASSUME TypeOK, RegistryInv, NEW t \in Threads,
         \/ Finish(t) \/ \E n \in Nodes : Unlist(t, n)
         \/ Unbox(t) \/ Waited(t) \/ ClearFailure(t)
  PROVE  RegistryInv'
  <1>0. thr[t] \in Thread /\ "free" \notin Threads /\ "loop" \notin Syncs
    BY MachineAssumption DEF Threads, TypeOK
  <1>1. CASE Finish(t)
    <2>1. thr'[t] = Idle /\ \A s \in Threads \ {t} : thr'[s] = thr[s]
      BY <1>1, ThreadFacts DEF Finish
    <2>2. Idle.pc = "idle" /\ thr[t].pc = "work"
      BY <1>1 DEF Idle, Finish
    <2>3. \A s \in Threads \ {t} : ~Working(s)
      BY <2>2, Exclusion DEF Working
    <2>4. OneWorker'
      BY <2>1, <2>2, <2>3 DEF OneWorker, Working
    <2> QED  BY <1>1, <2>1, <2>2, <2>4, QuietStep DEF Finish, Stops
  <1>2. ASSUME NEW n \in Nodes, Unlist(t, n) PROVE RegistryInv'
    <2> DEFINE next == IF nodes[n] = 0 THEN "clear" ELSE "unbox"
               r == [thr[t] EXCEPT !.pc = next, !.n = n, !.h = nodes[n]]
    <2>1. thr' = [thr EXCEPT ![t] = r]
      BY <1>2 DEF Unlist
    <2>2. /\ r.pc = (IF nodes[n] = 0 THEN "clear" ELSE "unbox") /\ r.n = n /\ r.h = nodes[n]
          /\ thr[t].pc = "work"
      BY <1>0, <1>2 DEF Thread, Unlist
    <2> HIDE DEF r
    <2>3. thr'[t] = r /\ \A s \in Threads \ {t} : thr'[s] = thr[s]
      BY <2>1, ThreadFacts
    <2>4. OneWorker'
      BY <1>2, <2>2, <2>3, WorkerStep DEF Working, Unlist
    <2>5. \A s \in Threads \ {t} : ~Working(s)
      BY <2>2, Exclusion DEF Working
    <2>6. /\ nodes'[n] = 0 /\ \A m \in Nodes \ {n} : nodes'[m] = nodes[m]
          /\ nodes[n] \in Handles \cup {0}
      BY <1>2 DEF Unlist, TypeOK
    <2>7. UNCHANGED inst /\ UNCHANGED failures
      BY <1>2 DEF Unlist
    <2>8. Listed'
      BY <2>6, <2>7 DEF RegistryInv, Listed, Held
    <2>9. Owned'
      <3>1. \A s \in Threads, h \in Handles : ~Stops(s, h)
        BY <2>2, <2>5 DEF Working, Stops
      <3>2. ASSUME NEW h \in Handles, Held(h)
            PROVE  inst[h].node \in Nodes /\ nodes[inst[h].node] = h
        BY <3>1, <3>2 DEF RegistryInv, Owned
      <3>3. 0 \notin Handles
        BY DEF Handles
      <3>4. ASSUME NEW h \in Handles, Held(h), inst[h].node = n PROVE Stops(t, h)'
        BY <2>2, <2>3, <2>7, <3>2, <3>3, <3>4 DEF Stops
      <3> QED  BY <2>6, <2>7, <3>2, <3>4 DEF Owned, Held
    <2>10. InHand'
      BY <2>2, <2>3, <2>5, <2>6, <2>7 DEF InHand, Working
    <2>11. Rested'
      BY <2>7 DEF RegistryInv, Rested
    <2> QED  BY <2>4, <2>8, <2>9, <2>10, <2>11 DEF RegistryInv
  <1>3. CASE Unbox(t)
    <2> DEFINE r == [thr[t] EXCEPT !.pc = "wait"]
    <2>1. thr' = [thr EXCEPT ![t] = r]
      BY <1>3 DEF Unbox, Wait
    <2>2. r.pc = "wait" /\ r.n = thr[t].n /\ r.h = thr[t].h /\ thr[t].pc = "unbox"
      BY <1>0, <1>3 DEF Thread, Unbox
    <2> HIDE DEF r
    <2>3. thr'[t] = r /\ \A s \in Threads \ {t} : thr'[s] = thr[s]
      BY <1>0, <2>1, ThreadFacts
    <2>4. OneWorker'
      BY <1>3, <2>2, <2>3, WorkerStep DEF Working, Unbox
    <2>5. \A h \in Handles : inst'[h].st = inst[h].st /\ inst'[h].node = inst[h].node
      BY <1>3 DEF Unbox, TypeOK, Service
    <2> QED  BY <1>3, <2>2, <2>3, <2>4, <2>5, QuietStep DEF Unbox, Stops
  <1>4. CASE Waited(t)
    <2> DEFINE r == [thr[t] EXCEPT !.pc = "clear"]
    <2>1. thr' = [thr EXCEPT ![t] = r]
      BY <1>4 DEF Waited
    <2>2. r.pc = "clear" /\ r.n = thr[t].n /\ r.h = thr[t].h /\ thr[t].pc = "wait"
      BY <1>0, <1>4 DEF Thread, Waited
    <2> HIDE DEF r
    <2>3. thr'[t] = r /\ \A s \in Threads \ {t} : thr'[s] = thr[s]
      BY <1>0, <2>1, ThreadFacts
    <2>4. OneWorker'
      BY <1>4, <2>2, <2>3, WorkerStep DEF Working, Waited
    <2>5. \A h \in Handles : Stops(t, h) => ~Held(h)
      BY <1>4 DEF Waited, Stops, Held
    <2> QED  BY <1>4, <2>2, <2>3, <2>4, <2>5, QuietStep DEF Waited
  <1>5. CASE ClearFailure(t)
    <2> DEFINE r == [thr[t] EXCEPT !.pc = "work", !.remove = thr[t].remove \ {thr[t].n}, !.n = 0, !.h = 0]
    <2>1. thr' = [thr EXCEPT ![t] = r]
      BY <1>5 DEF ClearFailure
    <2>2. r.pc = "work" /\ thr[t].pc = "clear"
      BY <1>0, <1>5 DEF Thread, ClearFailure
    <2> HIDE DEF r
    <2>3. thr'[t] = r /\ \A s \in Threads \ {t} : thr'[s] = thr[s]
      BY <1>0, <2>1, ThreadFacts
    <2>4. OneWorker'
      BY <1>5, <2>2, <2>3, WorkerStep DEF Working, ClearFailure
    <2>5. \A n \in Nodes : failures'[n] = "parked" => failures[n] = "parked"
      BY <1>5 DEF ClearFailure, TypeOK
    <2> QED  BY <1>5, <2>2, <2>3, <2>4, <2>5, QuietStep DEF ClearFailure, Stops
  <1> QED  BY <1>1, <1>2, <1>3, <1>4, <1>5

\* startNode.
LEMMA StartRegistry ==
  ASSUME TypeOK, RegistryInv, NEW t \in Threads,
         (\E n \in Nodes : Skip(t, n) \/ List(t, n)) \/ Box(t) \/ Go(t)
  PROVE  RegistryInv'
  <1>0. thr[t] \in Thread
    BY DEF TypeOK
  <1>1. ASSUME NEW n \in Nodes, Skip(t, n) PROVE RegistryInv'
    <2> DEFINE r == [thr[t] EXCEPT !.start = @ \ {n}]
    <2>1. thr' = [thr EXCEPT ![t] = r]
      BY <1>1 DEF Skip
    <2>2. r.pc = "work" /\ r.remove = thr[t].remove /\ thr[t].pc = "work"
      BY <1>0, <1>1 DEF Thread, Skip
    <2> HIDE DEF r
    <2>3. thr'[t] = r /\ \A s \in Threads \ {t} : thr'[s] = thr[s]
      BY <2>1, ThreadFacts
    <2>4. OneWorker'
      BY <1>1, <2>2, <2>3, WorkerStep DEF Working, Skip
    <2> QED  BY <1>1, <2>2, <2>3, <2>4, QuietStep DEF Skip, Stops
  <1>2. ASSUME NEW n \in Nodes, List(t, n) PROVE RegistryInv'
    <2>1. PICK h \in Handles :
             /\ Unused(h)
             /\ inst' = [inst EXCEPT ![h] = [node |-> n, stop |-> FALSE, st |-> "listed"]]
             /\ nodes' = [nodes EXCEPT ![n] = h]
             /\ thr' = [thr EXCEPT ![t] = [@ EXCEPT !.pc = "box", !.n = n, !.h = h]]
      BY <1>2 DEF List
    <2> DEFINE r == [thr[t] EXCEPT !.pc = "box", !.n = n, !.h = h]
    <2>2. r.pc = "box" /\ r.n = n /\ r.h = h /\ r.remove = thr[t].remove /\ thr[t].pc = "work"
      BY <1>0, <1>2 DEF Thread, List
    <2>3. thr'[t] = r /\ \A s \in Threads \ {t} : thr'[s] = thr[s]
      BY <2>1, ThreadFacts
    <2> HIDE DEF r
    <2>4. OneWorker'
      BY <1>2, <2>2, <2>3, WorkerStep DEF Working, List
    <2>5. \A s \in Threads \ {t} : ~Working(s)
      BY <2>2, Exclusion DEF Working
    <2>6. /\ inst'[h].st = "listed" /\ inst'[h].node = n
          /\ \A k \in Handles \ {h} : inst'[k] = inst[k]
          /\ inst[h].st = "done"
      BY <2>1 DEF TypeOK, Unused
    <2>7. nodes'[n] = h /\ nodes[n] = 0 /\ \A m \in Nodes \ {n} : nodes'[m] = nodes[m]
      BY <1>2, <2>1 DEF TypeOK, List, Startable
    <2>8. UNCHANGED failures /\ failures[n] # "parked"
      BY <1>2 DEF List, Startable
    <2>9. Listed'
      <3>1. ASSUME NEW m \in Nodes \ {n}, nodes[m] # 0
            PROVE  nodes[m] \in Handles \ {h} /\ Held(nodes[m]) /\ inst[nodes[m]].node = m
        BY <2>6, <3>1 DEF RegistryInv, Listed, Held, TypeOK
      <3> QED  BY <2>6, <2>7, <3>1 DEF Listed, Held
    <2>10. Owned'
      <3>1. \A s \in Threads, k \in Handles : ~Stops(s, k)
        BY <2>2, <2>5 DEF Working, Stops
      <3>2. 0 \notin Handles
        BY DEF Handles
      <3>3. ASSUME NEW k \in Handles \ {h}, Held(k)
            PROVE  inst[k].node \in Nodes \ {n} /\ nodes[inst[k].node] = k
        BY <2>7, <3>1, <3>2, <3>3 DEF RegistryInv, Owned
      <3> QED  BY <2>6, <2>7, <3>3 DEF Owned, Held
    <2>11. InHand'
      BY <2>2, <2>3, <2>5, <2>6, <2>7 DEF InHand, Working
    <2>12. Rested'
      BY <2>6, <2>8 DEF RegistryInv, Rested
    <2> QED  BY <2>4, <2>9, <2>10, <2>11, <2>12 DEF RegistryInv
  <1>3. CASE Box(t)
    <2> DEFINE r == [thr[t] EXCEPT !.pc = "go"]
    <2>1. thr' = [thr EXCEPT ![t] = r]
      BY <1>3 DEF Box
    <2>2. r.pc = "go" /\ r.n = thr[t].n /\ r.h = thr[t].h /\ r.remove = thr[t].remove /\ thr[t].pc = "box"
      BY <1>0, <1>3 DEF Thread, Box
    <2> HIDE DEF r
    <2>3. thr'[t] = r /\ \A s \in Threads \ {t} : thr'[s] = thr[s]
      BY <1>0, <2>1, ThreadFacts
    <2>4. OneWorker'
      BY <1>3, <2>2, <2>3, WorkerStep DEF Working, Box
    <2> QED  BY <1>3, <2>2, <2>3, <2>4, QuietStep DEF Box, Stops
  <1>4. CASE Go(t)
    <2> DEFINE r == [thr[t] EXCEPT !.pc = "work", !.start = thr[t].start \ {thr[t].n}, !.n = 0, !.h = 0]
    <2>1. thr' = [thr EXCEPT ![t] = r]
      BY <1>4 DEF Go
    <2>2. r.pc = "work" /\ r.remove = thr[t].remove /\ thr[t].pc = "go"
      BY <1>0, <1>4 DEF Thread, Go
    <2> HIDE DEF r
    <2>3. thr'[t] = r /\ \A s \in Threads \ {t} : thr'[s] = thr[s]
      BY <1>0, <2>1, ThreadFacts
    <2>4. OneWorker'
      BY <1>4, <2>2, <2>3, WorkerStep DEF Working, Go
    <2>5. PICK h \in Handles : h = thr[t].h /\ inst[h].st = "listed"
      BY <2>2 DEF RegistryInv, InHand
    <2>6. /\ inst'[h].st = "run" /\ inst'[h].node = inst[h].node
          /\ \A k \in Handles \ {h} : inst'[k] = inst[k]
      BY <1>4, <2>5 DEF Go, TypeOK, Service
    <2>7. UNCHANGED nodes /\ UNCHANGED failures
      BY <1>4 DEF Go
    <2>8. \A s \in Threads \ {t} : ~Working(s)
      BY <2>2, Exclusion DEF Working
    <2>9. \A k \in Handles : (Held(k)' <=> Held(k)) /\ inst'[k].node = inst[k].node
      BY <2>5, <2>6 DEF Held
    <2>10. Listed'
      BY <2>7, <2>9 DEF RegistryInv, Listed, TypeOK
    <2>11. Owned'
      <3>1. \A s \in Threads, k \in Handles : ~Stops(s, k)
        BY <2>2, <2>8 DEF Working, Stops
      <3> QED  BY <2>7, <2>9, <3>1 DEF RegistryInv, Owned
    <2>12. InHand'
      BY <2>2, <2>3, <2>8 DEF InHand, Working
    <2>13. Rested'
      BY <2>5, <2>6, <2>7 DEF RegistryInv, Rested
    <2> QED  BY <2>4, <2>10, <2>11, <2>12, <2>13 DEF RegistryInv
  <1> QED  BY <1>1, <1>2, <1>3, <1>4

\* The goroutine of a Service.
LEMMA ServiceRegistry ==
  ASSUME TypeOK, RegistryInv, NEW h \in Handles,
         Register(h) \/ Fail(h) \/ Exit(h) \/ UnregisterNode(h) \/ UnregisterEvents(h)
  PROVE  RegistryInv'
  <1>1. UNCHANGED <<thr, mu>>
    BY DEF Register, Fail, Exit, Return, UnregisterNode, UnregisterEvents
  <1>2. OneWorker'
    BY <1>1 DEF RegistryInv, OneWorker, Working, Starting
  <1>3. \A k \in Handles \ {h} : inst'[k] = inst[k]
    BY DEF Register, Fail, Exit, Return, UnregisterNode, UnregisterEvents, TypeOK
  <1>4. inst[h].st # "listed" /\ inst'[h].st # "listed"
    BY DEF Register, Fail, Exit, Return, UnregisterNode, UnregisterEvents, TypeOK, Service, Live
  <1>5. CASE Register(h) \/ Fail(h) \/ Exit(h)
    <2>1. UNCHANGED nodes /\ inst'[h].node = inst[h].node /\ Held(h) /\ Held(h)'
      BY <1>5 DEF Register, Fail, Exit, Return, TypeOK, Service, Live, Held
    <2>2. \A k \in Handles : (Held(k)' <=> Held(k)) /\ inst'[k].node = inst[k].node
      BY <1>3, <2>1 DEF Held
    <2>3. Listed'
      BY <2>1, <2>2 DEF RegistryInv, Listed, TypeOK
    <2>4. Owned'
      BY <1>1, <2>1, <2>2 DEF RegistryInv, Owned, Stops
    <2>5. InHand'
      BY <1>1, <1>3, <1>4, <2>1 DEF RegistryInv, InHand
    <2>6. Rested'
      <3>1. CASE Register(h)
        BY <1>3, <3>1, <2>1 DEF Register, RegistryInv, Rested
      <3>2. CASE Fail(h) \/ Exit(h)
        <4>1. inst'[h].st = "returned"
          BY <3>2 DEF Fail, Exit, Return, TypeOK, Service
        <4>2. \A k \in Handles \ {h} : Held(k) => inst[k].node # inst[h].node
          BY <2>1, Exclusion
        <4>3. \A n \in Nodes : n # inst[h].node => failures'[n] = failures[n]
          BY <3>2 DEF Fail, Exit, Return, TypeOK
        <4>4. \A k \in Handles : Held(k) => inst[k].node \in Nodes
          BY DEF RegistryInv, Owned
        <4> QED  BY <1>3, <4>1, <4>2, <4>3, <4>4 DEF RegistryInv, Rested, Held
      <3> QED  BY <1>5, <3>1, <3>2
    <2> QED  BY <1>2, <2>3, <2>4, <2>5, <2>6 DEF RegistryInv
  <1>6. CASE UnregisterNode(h)
    <2>1. /\ Held(h) /\ ~Held(h)' /\ inst'[h].node = inst[h].node /\ inst[h].node \in Nodes
          /\ inst'[h].st = "unlisted"
      BY <1>6 DEF UnregisterNode, TypeOK, Service, Held, RegistryInv, Owned
    <2>2. /\ nodes'[inst[h].node] = 0
          /\ \A n \in Nodes \ {inst[h].node} : nodes'[n] = nodes[n]
      BY <1>6, <2>1 DEF UnregisterNode, Unlisted, TypeOK
    <2>3. \A k \in Handles \ {h} : Held(k) => inst[k].node # inst[h].node
      BY <2>1, Exclusion
    <2>4. UNCHANGED failures
      BY <1>6 DEF UnregisterNode
    <2>5. Listed'
      <3>1. ASSUME NEW n \in Nodes \ {inst[h].node}, nodes[n] # 0
            PROVE  nodes[n] \in Handles \ {h} /\ Held(nodes[n]) /\ inst[nodes[n]].node = n
        BY <3>1 DEF RegistryInv, Listed, TypeOK
      <3> QED  BY <1>3, <2>2, <3>1 DEF Listed, Held
    <2>6. Owned'
      BY <1>1, <1>3, <2>1, <2>2, <2>3 DEF RegistryInv, Owned, Held, Stops
    <2>7. InHand'
      <3>1. ASSUME NEW t \in Threads, thr[t].pc \in {"box", "go"} PROVE thr[t].n # inst[h].node
        <4>1. /\ thr[t].h \in Handles /\ inst[thr[t].h].st = "listed"
              /\ inst[thr[t].h].node = thr[t].n
          BY <3>1 DEF RegistryInv, InHand
        <4> QED  BY <1>4, <2>3, <4>1 DEF Held
      <3> QED  BY <1>1, <1>3, <1>4, <2>2, <3>1 DEF RegistryInv, InHand
    <2>8. Rested'
      BY <1>3, <2>1, <2>4 DEF RegistryInv, Rested
    <2> QED  BY <1>2, <2>5, <2>6, <2>7, <2>8 DEF RegistryInv
  <1>7. CASE UnregisterEvents(h)
    <2>1. inst'[h].st = "done" /\ inst[h].st = "unlisted" /\ UNCHANGED <<nodes, failures>>
      BY <1>7 DEF UnregisterEvents, TypeOK
    <2>2. Listed' /\ Owned' /\ Rested'
      BY <1>1, <1>3, <2>1 DEF RegistryInv, Listed, Owned, Rested, Held, Stops, TypeOK
    <2>3. InHand'
      BY <1>1, <1>3, <1>4, <2>1 DEF RegistryInv, InHand
    <2> QED  BY <1>2, <2>2, <2>3 DEF RegistryInv
  <1> QED  BY <1>5, <1>6, <1>7

\* Every step keeps the registry in order.
LEMMA RegistryStep == ~EarlySync /\ TypeOK /\ RegistryInv /\ [Next]_vars => RegistryInv'
  <1> SUFFICES ASSUME ~EarlySync, TypeOK, RegistryInv, [Next]_vars PROVE RegistryInv'
    OBVIOUS
  <1>1. CASE UNCHANGED vars
    BY <1>1 DEF vars, RegistryInv, OneWorker, Listed, Owned, InHand, Rested, Working, Held, Stops, Starting
  <1>2. CASE Next
    <2>1. "loop" \in Threads /\ Syncs \subseteq Threads
      BY DEF Threads
    <2>2. ASSUME NEW t \in Threads, Works(t) PROVE RegistryInv'
      BY <2>2, StopRegistry, StartRegistry DEF Works
    <2>3. ASSUME NEW h \in Handles, Register(h) \/ Fail(h) \/ Ends(h) PROVE RegistryInv'
      BY <2>3, ServiceRegistry DEF Ends
    <2>4. ASSUME NEW t \in Threads, Discover(t) \/ DiscoverFails(t) PROVE RegistryInv'
      BY <2>4, DiscoveryRegistry
    <2>5. CASE Tick \/ StopAll \/ Stopped
      BY <2>1, <2>5, DiscoveryRegistry
    <2>6. ASSUME NEW t \in Syncs, SyncNodes(t) PROVE RegistryInv'
      BY <2>1, <2>6, DiscoveryRegistry
    <2>7. CASE (\E s \in Assignments : Assign(s)) \/ Signal \/ (\E n \in Nodes : BackoffOver(n))
      BY <2>7, EnvironmentRegistry
    <2> QED  BY <1>2, <2>2, <2>3, <2>4, <2>5, <2>6, <2>7 DEF Next
  <1> QED  BY <1>1, <1>2

\* Unless sync.nodes comes before the first nodes are started, no node ever has
\* two Services at work, for any number of nodes and goroutines, however slowly
\* a Service leaves.
THEOREM OneServicePerNode == ASSUME ~EarlySync PROVE Spec => []OneService
  <1>1. Init => TypeOK /\ RegistryInv
    BY InitType, InitRegistry DEF IndInv
  <1>2. TypeOK /\ RegistryInv /\ [Next]_vars => (TypeOK /\ RegistryInv)'
    BY TypeStep, RegistryStep
  <1>3. TypeOK /\ RegistryInv => OneService
    BY Exclusion DEF OneService, Live, Held
  <1> QED  BY <1>1, <1>2, <1>3, PTL DEF Spec

\* On the same condition no Service is at work while its node waits for the end
\* of a backoff.
THEOREM BackoffIsKept == ASSUME ~EarlySync PROVE Spec => []ParkedRests
  <1>1. Init => TypeOK /\ RegistryInv
    BY InitType, InitRegistry DEF IndInv
  <1>2. TypeOK /\ RegistryInv /\ [Next]_vars => (TypeOK /\ RegistryInv)'
    BY TypeStep, RegistryStep
  <1>3. TypeOK /\ RegistryInv => ParkedRests
    BY DEF RegistryInv, Rested, ParkedRests, Live
  <1> QED  BY <1>1, <1>2, <1>3, PTL DEF Spec

-----------------------------------------------------------------------------
(* The events, which go by node ID                                         *)

\* The part of IndInv about the events.
EventsInv == NoLateExit /\ Boxed /\ Statused

\* A step that leaves mailboxes and status channels alone.
LEMMA SilentStep ==
  ASSUME EventsInv, UNCHANGED <<mailboxes, statuses>>,
         \A s \in Threads : thr[s].pc = "box" => thr'[s] = thr[s],
         NEW H \in SUBSET Handles,
         \A k \in Handles \ H : inst'[k] = inst[k],
         \A h \in H : /\ inst'[h].node = inst[h].node
                      /\ Held(h)' => Held(h)
                      /\ inst[h].stop => inst'[h].stop
                      /\ inst[h].stop \in BOOLEAN /\ inst'[h].stop \in BOOLEAN
                      /\ inst'[h].st = "up" => inst[h].st = "up"
                      /\ inst'[h].st = "unlisted" => inst[h].st = "unlisted"
  PROVE  EventsInv'
  <1>1. \A h \in Handles : /\ Held(h)' => Held(h)
                           /\ inst'[h].node = inst[h].node
                           /\ Held(h)' /\ ~inst'[h].stop => ~inst[h].stop
    BY DEF Held
  <1>2. NoLateExit'
    BY <1>1 DEF EventsInv, NoLateExit
  <1>3. Boxed'
    BY <1>1 DEF EventsInv, Boxed
  <1>4. Statused'
    BY DEF EventsInv, Statused
  <1> QED  BY <1>2, <1>3, <1>4 DEF EventsInv

\* Steps of the threads that touch neither mailboxes nor status channels.
LEMMA ThreadEvents ==
  ASSUME TypeOK, RegistryInv, EventsInv, NEW t \in Threads,
         \/ t \in Syncs /\ SyncNodes(t)
         \/ Tick \/ StopAll \/ Stopped
         \/ Discover(t) \/ DiscoverFails(t) \/ Finish(t)
         \/ \E n \in Nodes : Unlist(t, n) \/ Skip(t, n)
         \/ Waited(t) \/ ClearFailure(t) \/ Go(t)
  PROVE  EventsInv'
  <1> USE DEF eventVars
  <1>0. thr \in [Threads -> Thread] /\ inst \in [Handles -> Service] /\ "loop" \in Threads
    BY DEF TypeOK, Threads
  <1>1. CASE StopAll
    <2>1. \A s \in Threads : thr[s].pc = "box" => thr'[s] = thr[s]
      BY <1>0, <1>1 DEF StopAll
    <2>2. \A h \in Handles : /\ inst'[h].node = inst[h].node /\ inst'[h].st = inst[h].st
                             /\ inst[h].stop => inst'[h].stop
                             /\ inst[h].stop \in BOOLEAN /\ inst'[h].stop \in BOOLEAN
      BY <1>0, <1>1 DEF StopAll, Service
    <2>3. UNCHANGED <<mailboxes, statuses>> /\ Handles \in SUBSET Handles
      BY <1>1 DEF StopAll
    <2> QED  BY <2>1, <2>2, <2>3, SilentStep DEF Held
  <1>2. CASE Go(t)
    <2>1. \A s \in Threads : thr[s].pc = "box" => thr'[s] = thr[s]
      BY <1>0, <1>2 DEF Go
    <2>2. PICK h \in Handles : h = thr[t].h /\ inst[h].st = "listed"
      BY <1>2 DEF Go, RegistryInv, InHand
    <2>3. /\ inst'[h].st = "run" /\ inst'[h].node = inst[h].node /\ inst'[h].stop = inst[h].stop
          /\ inst[h].stop \in BOOLEAN
          /\ \A k \in Handles \ {h} : inst'[k] = inst[k]
      BY <1>0, <1>2, <2>2 DEF Go, Service
    <2>4. UNCHANGED <<mailboxes, statuses>> /\ {h} \in SUBSET Handles
      BY <1>2 DEF Go
    <2> QED  BY <2>1, <2>2, <2>3, <2>4, SilentStep DEF Held
  <1>3. CASE \/ t \in Syncs /\ SyncNodes(t)
             \/ Tick \/ Stopped
             \/ Discover(t) \/ DiscoverFails(t) \/ Finish(t)
             \/ \E n \in Nodes : Unlist(t, n) \/ Skip(t, n)
             \/ Waited(t) \/ ClearFailure(t)
    <2>1. \A s \in Threads : thr[s].pc = "box" => thr'[s] = thr[s]
      BY <1>0, <1>3 DEF SyncNodes, Tick, Stopped, Discover, DiscoverFails, Finish, Unlist, Skip,
                        Waited, ClearFailure
    <2>2. UNCHANGED <<inst, mailboxes, statuses>> /\ {} \in SUBSET Handles
      BY <1>3 DEF SyncNodes, Tick, Stopped, Discover, DiscoverFails, Finish, Unlist, Skip,
                  Waited, ClearFailure
    <2> QED  BY <2>1, <2>2, SilentStep
  <1> QED  BY <1>1, <1>2, <1>3

\* stopNode and startNode on the mailboxes, and a new Service.
LEMMA MailboxEvents ==
  ASSUME TypeOK, RegistryInv, EventsInv, ~SlowExit, NEW t \in Threads,
         Unbox(t) \/ Box(t) \/ \E n \in Nodes : List(t, n)
  PROVE  EventsInv'
  <1> USE DEF eventVars
  <1>0. /\ thr[t] \in Thread /\ inst \in [Handles -> Service]
        /\ thr \in [Threads -> Thread] /\ mailboxes \in [Nodes -> Handles \cup {0}]
    BY DEF TypeOK
  <1>1. CASE Unbox(t)
    <2> DEFINE h == thr[t].h
               n == thr[t].n
    <2>1. h \in Handles /\ n \in Nodes /\ nodes[n] = 0 /\ Working(t)
      BY <1>1 DEF Unbox, RegistryInv, InHand, Working
    <2>2. /\ inst'[h].stop /\ inst'[h].st = inst[h].st /\ inst'[h].node = inst[h].node
          /\ \A k \in Handles \ {h} : inst'[k] = inst[k]
      BY <1>0, <1>1, <2>1 DEF Unbox, Service
    <2>3. \A m \in Nodes \ {n} : mailboxes'[m] = mailboxes[m]
      BY <1>0, <1>1 DEF Unbox
    <2>4. UNCHANGED statuses
      BY <1>1 DEF Unbox
    <2>5. \A s \in Threads : thr[s].pc = "box" => thr'[s] = thr[s]
      BY <1>0, <1>1 DEF Unbox
    <2> HIDE DEF h, n
    <2>6. \A k \in Handles \ {h} : Held(k) => inst[k].node \in Nodes \ {n}
      <3>1. ASSUME NEW k \in Handles, Held(k), inst[k].node = n PROVE k = h
        <4>1. PICK s \in Threads : Stops(s, k)
          BY <2>1, <3>1 DEF RegistryInv, Owned, Handles
        <4>2. s = t
          BY <2>1, <4>1, Exclusion DEF Stops, Working
        <4> QED  BY <4>1, <4>2 DEF Stops, h
      <3> QED  BY <3>1 DEF RegistryInv, Owned
    <2>7. NoLateExit'
      BY <2>1, <2>2 DEF EventsInv, NoLateExit, Held
    <2>8. Boxed'
      BY <2>1, <2>2, <2>3, <2>5, <2>6 DEF EventsInv, Boxed, Held
    <2>9. Statused'
      BY <2>1, <2>2, <2>4 DEF EventsInv, Statused
    <2> QED  BY <2>7, <2>8, <2>9 DEF EventsInv
  <1>2. CASE Box(t)
    <2> DEFINE h == thr[t].h
               n == thr[t].n
    <2>1. h \in Handles /\ n \in Nodes /\ Held(h) /\ inst[h].node = n /\ Working(t)
      BY <1>2 DEF Box, RegistryInv, InHand, Working, Held
    <2>2. mailboxes'[n] = h /\ \A m \in Nodes \ {n} : mailboxes'[m] = mailboxes[m]
      BY <1>0, <1>2, <2>1 DEF Box
    <2>3. UNCHANGED <<inst, statuses>>
      BY <1>2 DEF Box
    <2>4. \A s \in Threads \ {t} : thr[s].pc # "box"
      BY <2>1, Exclusion DEF Working
    <2>5. \A k \in Handles : Held(k) /\ k # h => inst[k].node \in Nodes \ {n}
      BY <2>1, Exclusion DEF RegistryInv, Owned
    <2>6. \A k \in Handles \ {h}, s \in Threads : thr[s].pc = "box" => thr[s].h # k
      BY <2>4
    <2> HIDE DEF h, n
    <2>7. Boxed'
      BY <2>1, <2>2, <2>3, <2>5, <2>6 DEF EventsInv, Boxed, Held
    <2> QED  BY <2>3, <2>7 DEF EventsInv, NoLateExit, Statused, Held
  <1>3. ASSUME NEW n \in Nodes, List(t, n) PROVE EventsInv'
    <2>1. PICK h \in Handles :
             /\ Unused(h)
             /\ inst' = [inst EXCEPT ![h] = [node |-> n, stop |-> FALSE, st |-> "listed"]]
             /\ thr' = [thr EXCEPT ![t] = [@ EXCEPT !.pc = "box", !.n = n, !.h = h]]
      BY <1>3 DEF List
    <2>2. thr'[t].pc = "box" /\ thr'[t].h = h /\ \A s \in Threads \ {t} : thr'[s] = thr[s]
      BY <1>0, <2>1 DEF Thread
    <2>3. /\ inst'[h].st = "listed" /\ inst'[h].node = n
          /\ \A k \in Handles \ {h} : inst'[k] = inst[k]
      BY <1>0, <2>1
    <2>4. thr[t].pc = "work" /\ UNCHANGED <<mailboxes, statuses>>
      BY <1>3 DEF List
    <2>5. \A k \in Handles : inst[k].node = n => inst[k].st # "unlisted"
      BY <1>3 DEF List
    <2>6. NoLateExit'
      BY <2>3, <2>5 DEF EventsInv, NoLateExit, Held
    <2>7. Boxed'
      BY <2>2, <2>3, <2>4 DEF EventsInv, Boxed, Held
    <2>8. Statused'
      BY <2>3, <2>4 DEF EventsInv, Statused
    <2> QED  BY <2>6, <2>7, <2>8 DEF EventsInv
  <1> QED  BY <1>1, <1>2, <1>3

\* The goroutine of a Service.
LEMMA ServiceEvents ==
  ASSUME TypeOK, RegistryInv, EventsInv, NEW h \in Handles,
         Register(h) \/ Fail(h) \/ Exit(h) \/ UnregisterNode(h) \/ UnregisterEvents(h)
  PROVE  EventsInv'
  <1> USE DEF eventVars
  <1>0. inst \in [Handles -> Service] /\ inst[h].stop \in BOOLEAN /\ UNCHANGED thr
    BY DEF TypeOK, Service, Register, Fail, Exit, Return, UnregisterNode, UnregisterEvents
  <1>1. \A k \in Handles \ {h} : inst'[k] = inst[k]
    BY <1>0 DEF Register, Fail, Exit, Return, UnregisterNode, UnregisterEvents
  <1>2. \A k \in Handles : Held(k) => inst[k].node \in Nodes
    BY DEF RegistryInv, Owned
  <1>3. CASE Register(h)
    <2>1. /\ inst[h].st = "run" /\ inst'[h].st = "up" /\ inst'[h].node = inst[h].node
          /\ inst'[h].stop = inst[h].stop /\ UNCHANGED mailboxes
      BY <1>0, <1>3 DEF Register, Service
    <2>2. /\ statuses'[inst[h].node] = h
          /\ \A n \in Nodes \ {inst[h].node} : statuses'[n] = statuses[n]
      BY <1>2, <1>3, <2>1 DEF Register, TypeOK, Held
    <2>3. \A k \in Handles \ {h} : Held(k) => inst[k].node # inst[h].node
      BY <2>1, Exclusion DEF Held
    <2>4. NoLateExit' /\ Boxed'
      BY <1>0, <1>1, <2>1 DEF EventsInv, NoLateExit, Boxed, Held
    <2>5. Statused'
      BY <1>1, <1>2, <2>1, <2>2, <2>3 DEF EventsInv, Statused, Held
    <2> QED  BY <2>4, <2>5 DEF EventsInv
  <1>4. CASE Fail(h) \/ Exit(h)
    <2>1. /\ inst'[h].st = "returned" /\ inst'[h].node = inst[h].node
          /\ inst'[h].stop = inst[h].stop /\ Held(h) /\ UNCHANGED <<mailboxes, statuses>>
      BY <1>0, <1>4 DEF Fail, Exit, Return, Service, Live, Held
    <2>2. {h} \in SUBSET Handles
      OBVIOUS
    <2> QED  BY <1>0, <1>1, <2>1, <2>2, SilentStep
  <1>5. CASE UnregisterNode(h)
    <2>1. /\ inst'[h].st = "unlisted" /\ inst'[h].node = inst[h].node /\ Held(h)
          /\ UNCHANGED <<mailboxes, statuses>>
      BY <1>0, <1>5 DEF UnregisterNode, Service, Held
    <2>2. \A k \in Handles \ {h} : Held(k) => inst[k].node # inst[h].node
      BY <2>1, Exclusion
    <2>3. NoLateExit'
      BY <1>1, <2>1, <2>2 DEF EventsInv, NoLateExit, Held
    <2>4. Boxed' /\ Statused'
      BY <1>0, <1>1, <2>1 DEF EventsInv, Boxed, Statused, Held
    <2> QED  BY <2>3, <2>4 DEF EventsInv
  <1>6. CASE UnregisterEvents(h)
    <2>1. inst'[h].st = "done" /\ inst[h].st = "unlisted"
      BY <1>0, <1>6 DEF UnregisterEvents
    <2>2. \A n \in Nodes \ {inst[h].node} : mailboxes'[n] = mailboxes[n] /\ statuses'[n] = statuses[n]
      BY <1>6 DEF UnregisterEvents, TypeOK
    <2>3. \A k \in Handles : Held(k) => inst[k].node # inst[h].node
      BY <2>1 DEF EventsInv, NoLateExit
    <2>4. NoLateExit'
      BY <1>1, <2>1 DEF EventsInv, NoLateExit, Held
    <2>5. Boxed' /\ Statused'
      BY <1>0, <1>1, <1>2, <2>1, <2>2, <2>3 DEF EventsInv, Boxed, Statused, Held
    <2> QED  BY <2>4, <2>5 DEF EventsInv
  <1> QED  BY <1>3, <1>4, <1>5, <1>6

\* Every step keeps the inductive invariant.
LEMMA IndStep == ~EarlySync /\ ~SlowExit /\ TypeOK /\ IndInv /\ [Next]_vars => IndInv'
  <1> SUFFICES ASSUME ~EarlySync, ~SlowExit, TypeOK, RegistryInv, EventsInv, [Next]_vars
               PROVE  IndInv'
    BY DEF IndInv, EventsInv
  <1>0. RegistryInv'
    BY RegistryStep
  <1>1. EventsInv'
    <2>1. CASE UNCHANGED vars
      BY <2>1 DEF vars, EventsInv, NoLateExit, Boxed, Statused, Held
    <2>2. CASE (\E s \in Assignments : Assign(s)) \/ Signal \/ (\E n \in Nodes : BackoffOver(n))
      BY <2>2 DEF Assign, Signal, BackoffOver, eventVars, EventsInv, NoLateExit, Boxed, Statused, Held
    <2>3. ASSUME NEW h \in Handles, Register(h) \/ Fail(h) \/ Ends(h) PROVE EventsInv'
      BY <2>3, ServiceEvents DEF Ends
    <2>4. ASSUME NEW t \in Threads, Works(t) PROVE EventsInv'
      BY <2>4, ThreadEvents, MailboxEvents DEF Works
    <2>5. ASSUME NEW t \in Threads, Discover(t) \/ DiscoverFails(t) PROVE EventsInv'
      BY <2>5, ThreadEvents
    <2>6. "loop" \in Threads /\ Syncs \subseteq Threads
      BY DEF Threads
    <2>7. CASE Tick \/ StopAll \/ Stopped
      BY <2>6, <2>7, ThreadEvents
    <2>8. ASSUME NEW t \in Syncs, SyncNodes(t) PROVE EventsInv'
      BY <2>6, <2>8, ThreadEvents
    <2> QED  BY <2>1, <2>2, <2>3, <2>4, <2>5, <2>7, <2>8 DEF Next
  <1> QED  BY <1>0, <1>1 DEF IndInv, EventsInv

\* Unless sync.nodes comes before the first nodes are started, or a node is
\* started between the two steps of unregisterNode, a Service that serves is
\* listed or in the hands of who stops it, and has its own mailbox and status
\* channel.
THEOREM EveryServiceIsReachable == ASSUME ~EarlySync, ~SlowExit PROVE Spec => []Reachable
  <1>1. Init => TypeOK /\ IndInv
    BY InitType, InitRegistry
  <1>2. TypeOK /\ IndInv /\ [Next]_vars => (TypeOK /\ IndInv)'
    BY TypeStep, IndStep
  <1>3. TypeOK /\ IndInv => Reachable
    <2> SUFFICES ASSUME TypeOK, IndInv, NEW h \in Handles, inst[h].st = "up", ~Cancelled(h)
                 PROVE  /\ \/ nodes[inst[h].node] = h
                           \/ \E t \in Threads : thr[t].h = h
                        /\ mailboxes[inst[h].node] = h /\ statuses[inst[h].node] = h
      BY DEF Reachable
    <2>1. Held(h) /\ ~inst[h].stop
      BY DEF Held, Cancelled
    <2>2. nodes[inst[h].node] = h \/ \E t \in Threads : thr[t].h = h
      BY <2>1 DEF IndInv, RegistryInv, Owned, Stops
    <2>3. ~ \E t \in Threads : thr[t].pc = "box" /\ thr[t].h = h
      BY DEF IndInv, RegistryInv, InHand
    <2> QED  BY <2>1, <2>2, <2>3 DEF IndInv, Boxed, Statused
  <1> QED  BY <1>1, <1>2, <1>3, PTL DEF Spec

=============================================================================
