--------------------------- MODULE LimitDispatcher ---------------------------
(***************************************************************************)
(* Device limits of the Xray kernel: internal/kernel/xray/dispatcher.go    *)
(* and updateDispatcherLimits of xray.go.                                  *)
(*                                                                         *)
(* A link is checked, dispatched and closed by goroutines of xray-core.    *)
(* Users with a limit are counted in maps under a lock that is released    *)
(* between the check and the count; users without one in counters of a     *)
(* concurrent map, whose operations are single steps.  A user may get or   *)
(* lose his limit while he has links.                                      *)
(***************************************************************************)
EXTENDS Integers, Sequences, FiniteSets

CONSTANTS Emails, Addresses,  \* addresses are numbers in the order of their texts
          Links,              \* goroutines
          Limits,             \* device limits, 0 for none
          MaxCounters,        \* bound: counters made for users without a limit
          MaxCounted          \* bound: links counted for an address when another comes

LimitDispatcherAssumption ==
  /\ Addresses \subseteq Nat /\ IsFiniteSet(Addresses) /\ IsFiniteSet(Links)
  /\ Limits \subseteq Nat /\ {MaxCounters, MaxCounted} \subseteq Nat

VARIABLES deviceLimits,  \* 0 for an email that is not in the map
          limitedIPs,    \* per email: whether it has a map, and the map
          unlimitedIPs,  \* per email: whether it has an entry, and its counters
          counters,      \* the counters made, in order
          links,         \* what each goroutine does
          connCount,
          panicked

dispatcherVars == <<deviceLimits, limitedIPs, unlimitedIPs, counters, links, connCount, panicked>>

NoCounts == [a \in Addresses |-> 0]
NoLink == [pc |-> "free", email |-> "nobody", ip |-> 0, tcp |-> FALSE, limit |-> 0, counter |-> 0, counted |-> FALSE]

Init ==
  /\ deviceLimits \in [Emails -> Limits]
  /\ limitedIPs = [e \in Emails |-> [made |-> FALSE, ips |-> NoCounts]]
  /\ unlimitedIPs = [e \in Emails |-> [made |-> FALSE, ips |-> NoCounts]]
  /\ counters = << >>
  /\ links = [l \in Links |-> NoLink]
  /\ connCount = 0 /\ panicked = FALSE

Goto(l, pc) == links' = [links EXCEPT ![l].pc = pc]
Held(e) == {a \in Addresses : limitedIPs[e].ips[a] > 0}

-----------------------------------------------------------------------------
(* checkDeviceLimit                                                        *)

\* identifyAndCheck up to the reading of the limit.
Identify(l, e, a, tcp) ==
  /\ links[l].pc = "free" /\ limitedIPs[e].ips[a] < MaxCounted
  /\ links' = [links EXCEPT ![l] = [NoLink EXCEPT !.pc = IF deviceLimits[e] > 0 THEN "check"
                                                         ELSE IF tcp THEN "load" ELSE "admitted",
                                                  !.email = e, !.ip = a, !.tcp = tcp,
                                                  !.limit = deviceLimits[e]]]
  /\ UNCHANGED <<deviceLimits, limitedIPs, unlimitedIPs, counters, connCount, panicked>>

\* LoadOrStore of the user's entry and of the address's counter.
LoadCounter(l) ==
  LET e == links[l].email
      a == links[l].ip
      there == unlimitedIPs[e].ips[a] # 0
      id == IF there THEN unlimitedIPs[e].ips[a] ELSE Len(counters) + 1 IN
    /\ links[l].pc = "load" /\ id <= MaxCounters
    /\ counters' = IF there THEN counters ELSE Append(counters, 0)
    /\ unlimitedIPs' = [unlimitedIPs EXCEPT ![e].made = TRUE, ![e].ips[a] = id]
    /\ links' = [links EXCEPT ![l].pc = "add", ![l].counter = id]
    /\ UNCHANGED <<deviceLimits, limitedIPs, connCount, panicked>>

AddOne(l) ==
  /\ links[l].pc = "add"
  /\ counters' = [counters EXCEPT ![links[l].counter] = @ + 1]
  /\ Goto(l, "admitted")
  /\ UNCHANGED <<deviceLimits, limitedIPs, unlimitedIPs, connCount, panicked>>

\* Under the read lock: the address is known, there is room, or the slow path.
Check(l) ==
  LET e == links[l].email IN
    /\ links[l].pc = "check"
    /\ Goto(l, IF links[l].ip \in Held(e) THEN (IF links[l].tcp THEN "again" ELSE "admitted")
               ELSE IF limitedIPs[e].made /\ Cardinality(Held(e)) < links[l].limit
                 THEN (IF links[l].tcp THEN "room" ELSE "admitted")
               ELSE "slow")
    /\ UNCHANGED <<deviceLimits, limitedIPs, unlimitedIPs, counters, connCount, panicked>>

Counted(l) ==
  /\ limitedIPs' = [limitedIPs EXCEPT ![links[l].email].made = TRUE, ![links[l].email].ips[links[l].ip] = @ + 1]
  /\ links' = [links EXCEPT ![l].pc = "admitted", ![l].counted = TRUE]

\* The address was known under the read lock; under the write lock the map of
\* the user may be gone, and a nil map cannot be written to.
CountAgain(l) ==
  /\ links[l].pc = "again"
  /\ IF limitedIPs[links[l].email].made
     THEN Counted(l) /\ UNCHANGED panicked
     ELSE panicked' = TRUE /\ UNCHANGED <<limitedIPs, links>>
  /\ UNCHANGED <<deviceLimits, unlimitedIPs, counters, connCount>>

CountRoom(l) ==
  /\ links[l].pc = "room" /\ Counted(l)
  /\ UNCHANGED <<deviceLimits, unlimitedIPs, counters, connCount, panicked>>

\* At the limit the lowest addresses are let in.
Lowest(a, held, limit) == Cardinality({b \in held : b < a}) < limit

\* Checked again and counted under the write lock.
SlowPath(l) ==
  LET e == links[l].email
      a == links[l].ip
      admitted == \/ a \in Held(e) \/ Cardinality(Held(e)) < links[l].limit
                  \/ Lowest(a, Held(e), links[l].limit) IN
    /\ links[l].pc = "slow"
    /\ IF admitted /\ links[l].tcp
       THEN Counted(l)
       ELSE /\ limitedIPs' = [limitedIPs EXCEPT ![e].made = TRUE]
            /\ links' = IF admitted THEN [links EXCEPT ![l].pc = "admitted"] ELSE [links EXCEPT ![l] = NoLink]
    /\ UNCHANGED <<deviceLimits, unlimitedIPs, counters, connCount, panicked>>

-----------------------------------------------------------------------------
(* Dispatch, and the closing of a link                                     *)

\* DispatchLink, or Dispatch of the inner dispatcher succeeding: trackLink.
Dispatched(l) ==
  /\ links[l].pc = "admitted" /\ Goto(l, "open") /\ connCount' = connCount + 1
  /\ UNCHANGED <<deviceLimits, limitedIPs, unlimitedIPs, counters, panicked>>

DispatchFails(l) ==
  /\ links[l].pc = "admitted"
  /\ links' = [links EXCEPT ![l] = IF @.tcp THEN [@ EXCEPT !.pc = "failing"] ELSE NoLink]
  /\ UNCHANGED <<deviceLimits, limitedIPs, unlimitedIPs, counters, connCount, panicked>>

\* Close or Interrupt of the writer, the first of them.
Closed(l) ==
  /\ links[l].pc = "open"
  /\ Goto(l, IF links[l].tcp THEN "closing" ELSE "closed")
  /\ UNCHANGED <<deviceLimits, limitedIPs, unlimitedIPs, counters, connCount, panicked>>

\* Where delConn returns to.
Return(l) == IF links[l].pc \in {"failing", "failed"} THEN NoLink ELSE [links[l] EXCEPT !.pc = "closed"]

\* Mutant: the address goes with its first link.
WithoutAddress(m, a) == [made |-> m.made, ips |-> [m.ips EXCEPT ![a] = 0]]
\* An address goes with its last link, the user's map with the last address.
WithoutLink(m, a) ==
  LET ips == [m.ips EXCEPT ![a] = IF @ > 0 THEN @ - 1 ELSE 0] IN
    [made |-> m.made /\ \E b \in Addresses : ips[b] > 0, ips |-> ips]

\* delConn of a user without an entry among the unlimited.
DelLimited(l) ==
  LET e == links[l].email IN
    /\ links[l].pc \in {"closing", "failing"} /\ ~unlimitedIPs[e].made
    /\ limitedIPs' = [limitedIPs EXCEPT ![e] = WithoutLink(@, links[l].ip)]
    /\ links' = [links EXCEPT ![l] = Return(l)]
    /\ UNCHANGED <<deviceLimits, unlimitedIPs, counters, connCount, panicked>>

\* delConn of a user with one, whatever he was when the link was counted.
DelUnlimited(l) ==
  LET e == links[l].email
      id == unlimitedIPs[e].ips[links[l].ip] IN
    /\ links[l].pc \in {"closing", "failing"} /\ unlimitedIPs[e].made
    /\ IF id = 0
       THEN links' = [links EXCEPT ![l] = Return(l)] /\ UNCHANGED counters
       ELSE /\ counters' = [counters EXCEPT ![id] = @ - 1]
            /\ links' = [links EXCEPT ![l] =
                       IF counters[id] > 1 THEN Return(l)
                       ELSE [links[l] EXCEPT !.pc = IF links[l].pc = "failing" THEN "failed" ELSE "delete"]]
    /\ UNCHANGED <<deviceLimits, limitedIPs, unlimitedIPs, connCount, panicked>>

\* The counter that is deleted need not be the one that was decremented.
DeleteCounter(l) ==
  /\ links[l].pc \in {"delete", "failed"}
  /\ unlimitedIPs' = [unlimitedIPs EXCEPT ![links[l].email].ips[links[l].ip] = 0]
  /\ links' = [links EXCEPT ![l] = Return(l)]
  /\ UNCHANGED <<deviceLimits, limitedIPs, counters, connCount, panicked>>

Uncount(l) ==
  /\ links[l].pc = "closed"
  /\ connCount' = connCount - 1 /\ links' = [links EXCEPT ![l] = NoLink]
  /\ UNCHANGED <<deviceLimits, limitedIPs, unlimitedIPs, counters, panicked>>

\* updateDispatcherLimits: the counts stay as they are.
UpdateLimits(m) ==
  /\ deviceLimits' = m
  /\ UNCHANGED <<limitedIPs, unlimitedIPs, counters, links, connCount, panicked>>

LinkStep(l) ==
  \/ \E e \in Emails, a \in Addresses, tcp \in BOOLEAN : Identify(l, e, a, tcp)
  \/ LoadCounter(l) \/ AddOne(l)
  \/ Check(l) \/ CountAgain(l) \/ CountRoom(l) \/ SlowPath(l)
  \/ Dispatched(l) \/ DispatchFails(l) \/ Closed(l)
  \/ DelLimited(l) \/ DelUnlimited(l) \/ DeleteCounter(l) \/ Uncount(l)

Next ==
  /\ ~panicked
  /\ \/ \E l \in Links : LinkStep(l)
     \/ \E m \in [Emails -> Limits] : UpdateLimits(m)

Spec == Init /\ [][Next]_dispatcherVars

-----------------------------------------------------------------------------
(* Properties                                                              *)

\* The links that delConn has still to release.
Unreleased(e, a) ==
  {l \in Links : links[l].email = e /\ links[l].ip = a /\ links[l].tcp
                   /\ links[l].pc \in {"admitted", "open", "closing", "failing"}}
CountedLinks(e, a) == {l \in Unreleased(e, a) : links[l].counted}

\* A device with a link counted against a limit is never forgotten, whatever
\* became of the limit since, and for users who were always limited the counts
\* are exact; an address of a user without a limit is reported only while it
\* has a link; and the count the drain of an old instance waits for is that of
\* the links dispatched and not closed.
DevicesAreCounted ==
  /\ \A e \in Emails, a \in Addresses :
       /\ limitedIPs[e].ips[a] >= Cardinality(CountedLinks(e, a))
       /\ ~unlimitedIPs[e].made => limitedIPs[e].ips[a] = Cardinality(CountedLinks(e, a))
       /\ unlimitedIPs[e].ips[a] # 0 /\ counters[unlimitedIPs[e].ips[a]] > 0 => Unreleased(e, a) # {}
  /\ connCount = Cardinality({l \in Links : links[l].pc \in {"open", "closing", "delete", "closed"}})

\* dispatcher.go:157: closing a link releases its device-limit state.  Once a
\* user has an entry among the unlimited, delConn looks for his links there
\* and nowhere else.
Released == \A e \in Emails, a \in Addresses : limitedIPs[e].ips[a] > 0 => Unreleased(e, a) # {}
=============================================================================
