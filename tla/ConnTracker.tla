----------------------------- MODULE ConnTracker -----------------------------
(***************************************************************************)
(* Connections of the sing-box kernel and what is metered of them:         *)
(* internal/kernel/singbox/conntracker.go, the life of a ConnTracker in    *)
(* singbox.go, and Process of internal/tracker.                            *)
(*                                                                         *)
(* Every connection is routed by a goroutine of its own; the Service       *)
(* replaces the user map, restarts the kernel and reads the counters in    *)
(* between.  Bytes are counted in units, addresses are numbers in the      *)
(* order of their texts.                                                   *)
(***************************************************************************)
EXTENDS Integers, FiniteSets

CONSTANTS Users, Addresses,
          Conns,        \* goroutines that route and serve connections
          UserMaps,     \* the user lists the kernel is given
          DeviceLimit,  \* Limiter.uuidDeviceLimit: 0 for none
          MaxTrackers,  \* bound: starts of the kernel
          MaxCarried    \* bound: units a user transfers

ConnTrackerAssumption ==
  /\ Addresses \subseteq Nat /\ IsFiniteSet(Addresses) /\ IsFiniteSet(Conns)
  /\ UserMaps \subseteq SUBSET Users /\ UserMaps # {}
  /\ DeviceLimit \in [Users -> Nat]
  /\ MaxTrackers \in Nat \ {0} /\ MaxCarried \in Nat

VARIABLES current,  \* SingBox.connTracker: number of the tracker in use
          trackers, \* every tracker made: uuidMap and users (userStats)
          conns,    \* what each goroutine serves
          global,   \* globalDevices of the tracker in use, and its freshness
          lastSeen, \* Tracker.lastSeen
          metered,  \* what Process has added to pendingTraffic
          carried   \* units transferred by tracked connections (history)

connVars == <<current, trackers, conns, global, lastSeen, metered, carried>>

Trackers == 1..MaxTrackers
Stats == [there : BOOLEAN, ips : [Addresses -> Nat], connCount : Nat, bytes : Nat]
NoStats == [there |-> FALSE, ips |-> [a \in Addresses |-> 0], connCount |-> 0, bytes |-> 0]
NoConn == [pc |-> "free", tracker |-> 1, user |-> "nobody", ip |-> 0, local |-> {}]
NoGlobal == [fresh |-> FALSE, ips |-> [u \in Users |-> {}]]

\* SetUserMap: users that are new get their stats, nobody loses his.
WithUserMap(t, m) ==
  [uuidMap |-> m,
   users |-> [u \in Users |-> IF u \in m THEN [t.users[u] EXCEPT !.there = TRUE] ELSE t.users[u]]]

FreshTracker(m) == WithUserMap([uuidMap |-> {}, users |-> [u \in Users |-> NoStats]], m)

Init ==
  /\ current = 1
  /\ \E m \in UserMaps : trackers = [t \in Trackers |-> FreshTracker(IF t = 1 THEN m ELSE {})]
  /\ conns = [c \in Conns |-> NoConn]
  /\ global = NoGlobal
  /\ lastSeen = [u \in Users |-> 0] /\ metered = [u \in Users |-> 0]
  /\ carried = [u \in Users |-> 0]

-----------------------------------------------------------------------------
(* A connection: RoutedConnection and RoutedPacketConnection               *)

StatsOf(c) == trackers[conns[c].tracker].users[conns[c].user]
Alive(s) == {a \in Addresses : s.ips[a] > 0}

\* The lookup and the first half of checkDeviceGate: the addresses connected
\* here.  A user outside the map has no stats; his connection is not tracked.
Route(c, u, a) ==
  /\ conns[c].pc = "free"
  /\ LET t == trackers[current] IN
       conns' = [conns EXCEPT ![c] =
                   [pc |-> IF u \in t.uuidMap THEN "gate" ELSE "untracked", tracker |-> current,
                    user |-> u, ip |-> a, local |-> Alive(t.users[u])]]
  /\ UNCHANGED <<current, trackers, global, lastSeen, metered, carried>>

\* What the tracker of the connection may know of the global devices: an older
\* one is left with whatever it had.
GlobalsOf(c) ==
  IF conns[c].tracker = current THEN {IF global.fresh THEN global.ips[conns[c].user] ELSE {}}
                                ELSE SUBSET Addresses

\* At the limit the lowest addresses are let in.
AmongLowest(a, others, n) == Cardinality({b \in others : b < a}) < n

Admitted(c, elsewhere) ==
  LET limit == DeviceLimit[conns[c].user]
      others == conns[c].local \cup elsewhere IN
    \/ limit = 0
    \/ conns[c].ip \in others
    \/ Cardinality(others) < limit
    \/ AmongLowest(conns[c].ip, others, limit)

\* The second half of checkDeviceGate.
Gate(c) ==
  /\ conns[c].pc = "gate"
  /\ \E elsewhere \in GlobalsOf(c) :
       conns' = [conns EXCEPT ![c] = IF Admitted(c, elsewhere) THEN [@ EXCEPT !.pc = "admitted"] ELSE NoConn]
  /\ UNCHANGED <<current, trackers, global, lastSeen, metered, carried>>

Change(c, s) == [trackers EXCEPT ![conns[c].tracker].users[conns[c].user] = s]

\* addConn, and the entry of connMap.
Register(c) ==
  /\ conns[c].pc = "admitted"
  /\ trackers' = Change(c, [StatsOf(c) EXCEPT !.ips[conns[c].ip] = @ + 1, !.connCount = @ + 1])
  /\ conns' = [conns EXCEPT ![c].pc = "open", ![c].local = {}]
  /\ UNCHANGED <<current, global, lastSeen, metered, carried>>

\* Read, Write, the packet calls and the counting functions handed to sing.
Transfer(c) ==
  /\ conns[c].pc = "open" /\ carried[conns[c].user] < MaxCarried
  /\ trackers' = Change(c, [StatsOf(c) EXCEPT !.bytes = @ + 1])
  /\ carried' = [carried EXCEPT ![conns[c].user] = @ + 1]
  /\ UNCHANGED <<current, conns, global, lastSeen, metered>>

\* Mutant: the last connection of a user clears his addresses.
ForgetsCount(s, a) == [s EXCEPT !.ips[a] = 0, !.connCount = @ - 1]
\* removeConn.
Released(s, a) == [s EXCEPT !.ips[a] = @ - 1, !.connCount = @ - 1]

\* Close, by the peer, CloseByID or the end of an old instance.
Close(c) ==
  /\ conns[c].pc \in {"open", "untracked"}
  /\ trackers' = IF conns[c].pc = "open" THEN Change(c, Released(StatsOf(c), conns[c].ip)) ELSE trackers
  /\ conns' = [conns EXCEPT ![c] = NoConn]
  /\ UNCHANGED <<current, global, lastSeen, metered, carried>>

-----------------------------------------------------------------------------
(* The Service and the panel                                               *)

\* Reload, UpdateUsers: the tracker stays.
SetUserMap(m) ==
  /\ trackers' = [trackers EXCEPT ![current] = WithUserMap(@, m)]
  /\ UNCHANGED <<current, conns, global, lastSeen, metered, carried>>

\* SingBox.Start over a running instance, whose connections drain.
Start(m) ==
  /\ current < MaxTrackers
  /\ current' = current + 1
  /\ trackers' = [trackers EXCEPT ![current + 1] = FreshTracker(m)]
  /\ global' = NoGlobal
  /\ UNCHANGED <<conns, lastSeen, metered, carried>>

UpdateGlobalDevices(u, s) ==
  /\ global' = [fresh |-> TRUE, ips |-> [v \in Users |-> IF v = u THEN s ELSE {}]]
  /\ UNCHANGED <<current, trackers, conns, lastSeen, metered, carried>>

\* The push link is lost, or a minute passes without an update.
ClearGlobalDevices ==
  /\ global.fresh /\ global' = NoGlobal
  /\ UNCHANGED <<current, trackers, conns, lastSeen, metered, carried>>

\* Mutant: a counter below the last value seen is taken for a difference.
DeltaUnguarded(cum, prev) == IF cum >= prev THEN cum - prev ELSE cum + prev
\* Process: the difference to the last tick, guarded against a reset.
Delta(cum, prev) == IF cum < prev THEN cum ELSE cum - prev

\* trackAndEnforce: GetUserTraffic leaves out users without traffic.
Track ==
  LET seen == {u \in Users : trackers[current].users[u].bytes > 0}
      cum(u) == trackers[current].users[u].bytes IN
    /\ metered' = [u \in Users |-> IF u \in seen THEN metered[u] + Delta(cum(u), lastSeen[u])
                                                 ELSE metered[u]]
    /\ lastSeen' = [u \in Users |-> IF u \in seen THEN cum(u) ELSE lastSeen[u]]
    /\ UNCHANGED <<current, trackers, conns, global, carried>>

Next ==
  \/ \E c \in Conns :
       \/ \E u \in Users, a \in Addresses : Route(c, u, a)
       \/ Gate(c) \/ Register(c) \/ Transfer(c) \/ Close(c)
  \/ \E m \in UserMaps : SetUserMap(m) \/ Start(m)
  \/ \E u \in Users, s \in SUBSET Addresses : UpdateGlobalDevices(u, s)
  \/ ClearGlobalDevices
  \/ Track

Spec == Init /\ [][Next]_connVars

-----------------------------------------------------------------------------
(* Properties                                                              *)

Serving(t, u) == {c \in Conns : conns[c].pc = "open" /\ conns[c].tracker = t /\ conns[c].user = u}

\* The addresses and connection counts the gate and the drain rely on are
\* exactly those of the open connections, in the tracker in use and in those
\* that drain, whatever happened to the user map in between: a user who has
\* left occupies no device, and an old instance is drained when it is empty.
PresenceIsExact ==
  \A t \in Trackers, u \in Users :
    LET s == trackers[t].users[u] IN
      /\ s.connCount = Cardinality(Serving(t, u))
      /\ \A a \in Addresses : s.ips[a] = Cardinality({c \in Serving(t, u) : conns[c].ip = a})
      /\ Serving(t, u) # {} => s.there

\* Nobody is charged for more than he transferred, across restarts of the
\* kernel that reset the counters; and as long as the kernel was not restarted
\* every unit is metered or will be at the next tick, those of users who were
\* removed included.
MeteredOnce ==
  \A u \in Users :
    /\ metered[u] <= carried[u]
    /\ current = 1 => metered[u] + (trackers[1].users[u].bytes - lastSeen[u]) = carried[u]
=============================================================================
