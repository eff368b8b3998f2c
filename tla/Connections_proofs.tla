------------------------- MODULE Connections_proofs --------------------------
(***************************************************************************)
(* Proofs about the connections of a kernel: SpeedLimits, ConnTracker and  *)
(* LimitDispatcher, for any users, addresses, connections and limits.      *)
(*                                                                         *)
(* Of a speed limit it matters what its maker knew: between two updates a  *)
(* caller that read the limit since the last one has read it as it is, a   *)
(* connection served since the last one holds the bucket of its user, and  *)
(* no two users share a bucket, so that an update reaches them all         *)
(* (BudgetInv).                                                            *)
(*                                                                         *)
(* Of a tracker, that every user who may be admitted has his stats, and    *)
(* that they count his open connections (PresInv); and what was metered    *)
(* together with what the next tick would add is no more than was carried  *)
(* (MeterInv).                                                             *)
(*                                                                         *)
(* Of the dispatcher, that a link which does not count against a limit has *)
(* its owner's entry made before it is counted there, that a counter       *)
(* belongs to one address, and that no counter is above the links that     *)
(* hold it (DeviceInv): then the last link to leave is the one that        *)
(* deletes it.                                                             *)
(***************************************************************************)
EXTENDS NodeParts, FiniteSetTheorems, TLAPS

-----------------------------------------------------------------------------
(* SpeedLimits                                                             *)

Limiters == [speed : Nat, burst : Nat, read : Nat, made : Nat]
CallerPcs == {"free", "missed", "limited", "open", "paying", "stranded"}
Dues == [size : Nat, cut : BOOLEAN, looked : Nat]
Callers == [pc : CallerPcs, user : Users \cup {"nobody"}, speed : Nat, limiter : Nat, since : Nat, due : Dues]

\* Who asks names a user, and a limiter that somebody holds has been made.
Fit(r) ==
  /\ r \in Callers
  /\ r.limiter <= Len(limiters)
  /\ r.pc # "free" => r.user \in Users
  /\ r.pc \in {"free", "missed", "limited"} => r.limiter = 0
  /\ r.pc \in {"paying", "stranded"} => r.limiter # 0

SpeedType ==
  /\ DOMAIN limits \subseteq Users /\ \A u \in DOMAIN limits : limits[u] \in Nat
  /\ indexed \subseteq Users
  /\ limiters \in Seq(Limiters)
  /\ buckets \in [Users -> 0..Len(limiters)]
  /\ updating \in BOOLEAN /\ epoch \in Nat
  /\ callers \in [Conns -> Callers]
  /\ \A c \in Conns : Fit(callers[c])

\* No bucket is smaller than the floor, and what was cut for a payment fits
\* the bucket it is paid from until an update ends.
RoomInv ==
  /\ \A i \in DOMAIN limiters : limiters[i].burst >= Floor
  /\ \A c \in Conns : callers[c].pc = "paying" /\ callers[c].due.cut =>
       \/ callers[c].due.looked < epoch
       \/ callers[c].due.looked = epoch /\ callers[c].due.size <= limiters[callers[c].limiter].burst
  /\ SL!StrandedForCause

BudgetInv ==
  /\ \A u, v \in Users : buckets[u] = buckets[v] /\ buckets[u] # 0 => u = v
  /\ \A c \in Conns :
       /\ callers[c].since <= epoch
       /\ callers[c].pc = "limited" /\ ~updating /\ callers[c].since = epoch =>
            SL!Limited(callers[c].user) /\ callers[c].speed = limits[callers[c].user]
       /\ callers[c].limiter # 0 /\ callers[c].since = epoch =>
            callers[c].limiter = buckets[callers[c].user]
  /\ ~updating =>
       \A u \in Users : buckets[u] # 0 =>
         LET l == limiters[buckets[u]] IN
           \/ SL!Limited(u) /\ l.speed = limits[u]
           \/ l.read < l.made /\ l.made = epoch

-----------------------------------------------------------------------------
(* The steps of a connection                                               *)

\* The burst of any speed is no smaller than the floor.
LEMMA BurstFits ==
  ASSUME SL!SpeedLimitsAssumption, NEW s \in Nat
  PROVE  SL!Burst(s) \in Nat /\ SL!Burst(s) >= Floor
BY DEF SL!Burst, SL!SpeedLimitsAssumption

\* What a step of c that installs nothing makes of its caller: it is served
\* the bucket of its user, or keeps what it has, or has nothing.
Becomes(c, r) ==
  /\ callers' = [callers EXCEPT ![c] = r]
  /\ Fit(r)
  /\ \/ r.since = epoch /\ (r.limiter # 0 => r.limiter = buckets[r.user])
     \/ r.limiter = callers[c].limiter /\ r.user = callers[c].user /\ r.since = callers[c].since
     \/ r.limiter = 0 /\ r.since = 0
  /\ r.pc = "limited" => SL!Limited(r.user) /\ r.speed = limits[r.user]
  /\ r.pc = "paying" /\ r.due.cut =>
       r.due.looked = epoch /\ r.due.size <= limiters[r.limiter].burst
  /\ r.pc = "stranded" =>
       /\ callers[c].pc = "paying" /\ r.limiter = callers[c].limiter /\ r.due = callers[c].due
       /\ r.due.size > limiters[r.limiter].burst

Tracked == <<limits, indexed, buckets, limiters, updating, epoch>>

\* A connection that has asked for nothing.
LEMMA IdleFits ==
  ASSUME SL!SpeedLimitsAssumption, SpeedType
  PROVE  /\ Fit(SL!Idle) /\ SL!Idle \in Callers /\ SL!Idle.pc = "free" /\ SL!Idle.limiter = 0
         /\ SL!Idle.since = 0
<1>1. Len(limiters) \in Nat
  BY DEF SpeedType
<1>2. SL!Nothing \in Dues
  BY DEF SL!Nothing, Dues
<1> QED BY <1>1, <1>2 DEF SL!Idle, Fit, Callers, CallerPcs

\* A caller that is served the bucket of its user, or goes without.
LEMMA ServedChange ==
  ASSUME SL!SpeedLimitsAssumption, SpeedType, NEW c \in Conns, NEW u \in Users,
         NEW l \in {0, buckets[u]}, callers' = SL!Served(c, u, l)
  PROVE  \E r : Becomes(c, r)
<1> DEFINE r == [SL!Idle EXCEPT !.pc = "open", !.user = u, !.limiter = l, !.since = epoch]
<1>1. l \in Nat /\ l <= Len(limiters) /\ epoch \in Nat
  BY DEF SpeedType
<1>2. r \in Callers /\ r.pc = "open" /\ r.user = u /\ r.limiter = l /\ r.since = epoch
  BY <1>1, IdleFits DEF Callers, CallerPcs
<1>3. Fit(r)
  <2> HIDE DEF r
  <2> QED BY <1>1, <1>2 DEF Fit
<1>4. callers' = [callers EXCEPT ![c] = r]
  BY DEF SL!Served
<1>5. Becomes(c, r)
  <2> HIDE DEF r
  <2> QED BY <1>2, <1>3, <1>4 DEF Becomes
<1> QED BY <1>5

\* A connection that goes on to another step.
LEMMA CallerSteps ==
  ASSUME SL!SpeedLimitsAssumption, SpeedType, NEW c \in Conns,
         \/ \E u \in Users : SL!Lookup(c, u)
         \/ SL!ReadLimit(c) \/ (SL!Install(c) /\ SL!Installed(callers[c].user))
         \/ \E size \in 1..MaxBuffer, cut \in BOOLEAN : SL!Move(c, size, cut)
         \/ SL!Pay(c) \/ SL!Leave(c)
  PROVE  UNCHANGED Tracked /\ \E r : Becomes(c, r)
<1>0. Fit(callers[c]) /\ epoch \in Nat /\ Len(limiters) \in Nat
  BY DEF SpeedType
<1>1. ASSUME NEW u \in Users, SL!Lookup(c, u)
      PROVE  UNCHANGED Tracked /\ \E r : Becomes(c, r)
  <2>1. UNCHANGED Tracked
    BY <1>1 DEF SL!Lookup, Tracked
  <2>2. CASE u \in indexed /\ buckets[u] = 0
    <3> DEFINE r == [SL!Idle EXCEPT !.pc = "missed", !.user = u]
    <3>1. r \in Callers /\ r.pc = "missed" /\ r.user = u /\ r.limiter = 0 /\ r.since = 0
      BY IdleFits DEF Callers, CallerPcs
    <3>2. Fit(r)
      <4> HIDE DEF r
      <4> QED BY <1>0, <3>1 DEF Fit
    <3>3. callers' = [callers EXCEPT ![c] = r]
      BY <1>1, <2>2 DEF SL!Lookup
    <3> HIDE DEF r
    <3>4. Becomes(c, r)
      BY <3>1, <3>2, <3>3 DEF Becomes
    <3> QED BY <2>1, <3>4
  <2>3. CASE ~(u \in indexed /\ buckets[u] = 0)
    <3>1. callers' = SL!Served(c, u, IF u \in indexed THEN buckets[u] ELSE 0)
      BY <1>1, <2>3 DEF SL!Lookup
    <3>2. (IF u \in indexed THEN buckets[u] ELSE 0) \in {0, buckets[u]}
      OBVIOUS
    <3> QED BY <2>1, <3>1, <3>2, ServedChange
  <2> QED BY <2>2, <2>3
<1>2. CASE SL!ReadLimit(c)
  <2> DEFINE u == callers[c].user
  <2>1. UNCHANGED Tracked /\ callers[c].pc = "missed" /\ u \in Users
    BY <1>0, <1>2 DEF SL!ReadLimit, Tracked, Fit
  <2>2. CASE SL!Limited(u)
    <3> DEFINE r == [callers[c] EXCEPT !.pc = "limited", !.speed = limits[u], !.since = epoch]
    <3>1. limits[u] \in Nat
      BY <2>2 DEF SL!Limited, SpeedType
    <3>2. Fit(r) /\ r.pc = "limited" /\ r.speed = limits[u] /\ r.since = epoch /\ r.limiter = 0
            /\ r.user = u
      BY <1>0, <2>1, <3>1 DEF Fit, Callers, CallerPcs
    <3>3. callers' = [callers EXCEPT ![c] = r]
      BY <1>2, <2>2 DEF SL!ReadLimit
    <3> HIDE DEF r
    <3>4. Becomes(c, r)
      BY <2>2, <3>2, <3>3 DEF Becomes
    <3> QED BY <2>1, <3>4
  <2>3. CASE ~SL!Limited(u)
    <3>1. callers' = SL!Served(c, u, 0)
      BY <1>2, <2>3 DEF SL!ReadLimit
    <3> QED BY <2>1, <3>1, ServedChange
  <2> QED BY <2>2, <2>3
<1>3. CASE SL!Install(c) /\ SL!Installed(callers[c].user)
  <2>1. UNCHANGED Tracked /\ callers' = SL!Served(c, callers[c].user, buckets[callers[c].user])
    BY <1>3 DEF SL!Install, Tracked
  <2>2. callers[c].user \in Users
    BY <1>0, <1>3 DEF SL!Install, Fit
  <2> QED BY <2>1, <2>2, ServedChange
<1>4. ASSUME NEW size \in 1..MaxBuffer, NEW cut \in BOOLEAN, SL!Move(c, size, cut)
      PROVE  UNCHANGED Tracked /\ \E r : Becomes(c, r)
  <2> DEFINE burst == SL!LimiterOf(c).burst
             n == IF cut /\ size > burst THEN burst ELSE size
             due == [size |-> n, cut |-> cut, looked |-> epoch]
             r == [callers[c] EXCEPT !.pc = "paying", !.due = due]
  <2>1. callers[c].pc = "open" /\ callers[c].limiter # 0 /\ UNCHANGED Tracked
        /\ callers' = [callers EXCEPT ![c] = r]
    BY <1>4 DEF SL!Move, Tracked
  <2>2. burst \in Nat /\ burst = limiters[callers[c].limiter].burst
    <3>1. callers[c].limiter \in 1..Len(limiters)
      BY <1>0, <2>1 DEF Fit, Callers
    <3>2. limiters[callers[c].limiter] \in Limiters
      BY <3>1 DEF SpeedType
    <3> QED BY <3>2 DEF SL!LimiterOf, Limiters
  <2>3. n \in Nat /\ (cut => n <= burst)
    <3> HIDE DEF burst
    <3> QED BY <1>0, <2>2
  <2>4. due \in Dues /\ (due.cut => due.looked = epoch /\ due.size <= burst)
    <3> HIDE DEF n, burst
    <3> QED BY <1>0, <2>3 DEF Dues
  <2>5. Fit(r) /\ r.pc = "paying" /\ r.limiter = callers[c].limiter /\ r.user = callers[c].user
        /\ r.since = callers[c].since /\ r.due = due
    <3> HIDE DEF due
    <3> QED BY <1>0, <2>1, <2>4 DEF Fit, Callers, CallerPcs
  <2> HIDE DEF r, due, burst
  <2>6. Becomes(c, r)
    BY <2>1, <2>2, <2>4, <2>5 DEF Becomes
  <2> QED BY <2>1, <2>6
<1>5. CASE SL!Pay(c)
  <2>1. callers[c].pc = "paying" /\ callers[c].limiter # 0 /\ UNCHANGED Tracked
        /\ callers[c] \in Callers
    BY <1>0, <1>5 DEF SL!Pay, Tracked, Fit
  <2>2. CASE callers[c].due.size <= SL!LimiterOf(c).burst
    <3> DEFINE r == [callers[c] EXCEPT !.pc = "open", !.due = SL!Nothing]
    <3>1. callers' = [callers EXCEPT ![c] = r]
      BY <1>5, <2>2 DEF SL!Pay
    <3>2. SL!Nothing \in Dues
      BY DEF SL!Nothing, Dues
    <3>3. Fit(r) /\ r.pc = "open" /\ r.limiter = callers[c].limiter /\ r.user = callers[c].user
          /\ r.since = callers[c].since
      BY <1>0, <2>1, <3>2 DEF Fit, Callers, CallerPcs
    <3> HIDE DEF r
    <3>4. Becomes(c, r)
      BY <3>1, <3>3 DEF Becomes
    <3> QED BY <2>1, <3>4
  <2>3. CASE ~(callers[c].due.size <= SL!LimiterOf(c).burst)
    <3> DEFINE r == [callers[c] EXCEPT !.pc = "stranded"]
    <3>1. callers' = [callers EXCEPT ![c] = r]
      BY <1>5, <2>3 DEF SL!Pay
    <3>2. Fit(r) /\ r.pc = "stranded" /\ r.limiter = callers[c].limiter /\ r.user = callers[c].user
          /\ r.since = callers[c].since /\ r.due = callers[c].due
      BY <1>0, <2>1 DEF Fit, Callers, CallerPcs
    <3>3. callers[c].due.size > limiters[callers[c].limiter].burst
      <4>1. callers[c].limiter \in 1..Len(limiters) /\ callers[c].due.size \in Nat
        BY <1>0, <2>1 DEF Fit, Callers, Dues
      <4>2. limiters[callers[c].limiter] \in Limiters
        BY <4>1 DEF SpeedType
      <4>3. limiters[callers[c].limiter].burst \in Nat
        BY <4>2 DEF Limiters
      <4> QED BY <2>3, <4>1, <4>3 DEF SL!LimiterOf
    <3> HIDE DEF r
    <3>4. Becomes(c, r)
      BY <2>1, <3>1, <3>2, <3>3 DEF Becomes
    <3> QED BY <2>1, <3>4
  <2> QED BY <2>2, <2>3
<1>6. CASE SL!Leave(c)
  <2>1. UNCHANGED Tracked /\ callers' = [callers EXCEPT ![c] = SL!Idle]
    BY <1>6 DEF SL!Leave, Tracked
  <2>2. Becomes(c, SL!Idle)
    BY <2>1, IdleFits DEF Becomes
  <2> QED BY <2>1, <2>2
<1> QED BY <1>1, <1>2, <1>3, <1>4, <1>5, <1>6

\* The step that does install: the next limiter is for the user of c.
Installs(c, u, l, r) ==
  /\ u = callers[c].user /\ u \in Users /\ callers[c].pc = "limited" /\ buckets[u] = 0
  /\ l \in Limiters /\ l.burst >= Floor
  /\ l.speed = callers[c].speed /\ l.read = callers[c].since /\ l.made = epoch
  /\ r \in Callers /\ r.pc = "open" /\ r.user = u /\ r.limiter = Len(limiters) + 1
  /\ r.since = epoch
  /\ limiters' = Append(limiters, l)
  /\ buckets' = [buckets EXCEPT ![u] = Len(limiters) + 1]
  /\ callers' = [callers EXCEPT ![c] = r]
  /\ UNCHANGED <<limits, indexed, updating, epoch>>

\* A limiter that is installed, or found to be there.
LEMMA InstallSteps ==
  ASSUME SL!SpeedLimitsAssumption, SpeedType, NEW c \in Conns, SL!Install(c), ~SL!Installed(callers[c].user)
  PROVE  \E u, l, r : Installs(c, u, l, r)
<1> DEFINE u == callers[c].user
           l == [speed |-> callers[c].speed, burst |-> SL!Burst(callers[c].speed),
                 read |-> callers[c].since, made |-> epoch]
           n == Len(limiters) + 1
           r == [SL!Idle EXCEPT !.pc = "open", !.user = u, !.limiter = n, !.since = epoch]
<1>1. Fit(callers[c]) /\ epoch \in Nat /\ n \in Nat /\ callers[c].pc = "limited"
      /\ u \in Users /\ buckets[u] = 0
  BY DEF SpeedType, SL!Install, Fit, SL!Installed
<1>2. l \in Limiters /\ l.burst >= Floor /\ l.speed = callers[c].speed
      /\ l.read = callers[c].since /\ l.made = epoch
  <2>1. callers[c].speed \in Nat /\ callers[c].since \in Nat
    BY <1>1 DEF Fit, Callers
  <2>2. SL!Burst(callers[c].speed) \in Nat /\ SL!Burst(callers[c].speed) >= Floor
    BY <2>1, BurstFits
  <2> QED BY <1>1, <2>1, <2>2 DEF Limiters
<1>3. r \in Callers /\ r.pc = "open" /\ r.user = u /\ r.limiter = n
      /\ r.since = epoch
  <2> HIDE DEF u, n
  <2> QED BY <1>1, IdleFits DEF Callers, CallerPcs
<1>4. limiters' = Append(limiters, l) /\ buckets' = [buckets EXCEPT ![u] = Len(limiters) + 1]
      /\ callers' = [callers EXCEPT ![c] = r] /\ UNCHANGED <<limits, indexed, updating, epoch>>
  BY DEF SL!Install, SL!Served
<1> HIDE DEF l, r
<1>5. Installs(c, u, l, r)
  BY <1>1, <1>2, <1>3, <1>4 DEF Installs
<1> QED BY <1>5

\* What an update makes of a limiter: it stays, or is set for the one user
\* whose bucket it is.
LEMMA UpdateSteps ==
  ASSUME SL!SpeedLimitsAssumption, SpeedType, SL!UpdateBuckets
  PROVE  /\ limiters' \in Seq(Limiters) /\ Len(limiters') = Len(limiters)
         /\ \A i \in DOMAIN limiters :
              \/ limiters'[i] = limiters[i] /\ \A u \in Users : buckets[u] = i => ~SL!Limited(u)
              \/ \E u \in Users : /\ buckets[u] = i /\ SL!Limited(u)
                                  /\ limiters'[i].speed = limits[u]
                                  /\ limiters'[i].burst = SL!Burst(limits[u])
<1> DEFINE mine(i) == {u \in Users : buckets[u] = i /\ SL!Limited(u)}
           ready(i) == IF mine(i) = {} THEN limiters[i]
                     ELSE SL!SetLimiter(limiters[i], CHOOSE u \in mine(i) : TRUE)
<1>1. limiters' = [i \in DOMAIN limiters |-> ready(i)]
  BY DEF SL!UpdateBuckets
<1>2. DOMAIN limiters = 1..Len(limiters) /\ Len(limiters) \in Nat
  BY DEF SpeedType
<1>3. ASSUME NEW i \in DOMAIN limiters
      PROVE  /\ ready(i) \in Limiters
             /\ \/ ready(i) = limiters[i] /\ \A u \in Users : buckets[u] = i => ~SL!Limited(u)
                \/ \E u \in Users : /\ buckets[u] = i /\ SL!Limited(u)
                                    /\ ready(i).speed = limits[u] /\ ready(i).burst = SL!Burst(limits[u])
  <2>0. limiters[i] \in Limiters
    BY <1>2, <1>3 DEF SpeedType
  <2>1. CASE mine(i) = {}
    BY <2>0, <2>1
  <2>2. CASE mine(i) # {}
    <3>1. PICK u \in mine(i) : u = (CHOOSE v \in mine(i) : TRUE)
      BY <2>2
    <3>2. ready(i) = [limiters[i] EXCEPT !.speed = limits[u], !.burst = SL!Burst(limits[u])]
      BY <2>2, <3>1 DEF SL!SetLimiter
    <3>3. limits[u] \in Nat
      BY <3>1 DEF SL!Limited, SpeedType
    <3>4. SL!Burst(limits[u]) \in Nat
      BY <3>3, BurstFits
    <3>5. ready(i) \in Limiters /\ ready(i).speed = limits[u] /\ ready(i).burst = SL!Burst(limits[u])
      <4> HIDE DEF ready
      <4> QED BY <2>0, <3>2, <3>3, <3>4 DEF Limiters
    <3> HIDE DEF ready
    <3> QED BY <3>1, <3>5
  <2> QED BY <2>1, <2>2
<1> HIDE DEF ready
<1>4. limiters' \in [1..Len(limiters) -> Limiters]
  BY <1>1, <1>2, <1>3
<1>5. limiters' \in Seq(Limiters) /\ Len(limiters') = Len(limiters)
  BY <1>2, <1>4
<1> QED BY <1>1, <1>3, <1>5

-----------------------------------------------------------------------------
(* Types                                                                   *)

\* No limits, no buckets.
LEMMA SpeedInitType == SL!SpeedLimitsAssumption /\ SL!Init => SpeedType
<1> SUFFICES ASSUME SL!SpeedLimitsAssumption, SL!Init PROVE SpeedType
  OBVIOUS
<1>1. DOMAIN limits \subseteq Users /\ \A u \in DOMAIN limits : limits[u] \in Nat
  BY DEF SL!Init
<1>2. limiters \in Seq(Limiters) /\ Len(limiters) = 0
  BY DEF SL!Init
<1>3. SL!Idle \in Callers /\ Fit(SL!Idle)
  <2>1. SL!Nothing \in Dues
    BY DEF SL!Nothing, Dues
  <2> QED BY <1>2, <2>1 DEF SL!Idle, Callers, CallerPcs, Fit
<1>4. callers \in [Conns -> Callers] /\ \A c \in Conns : Fit(callers[c])
  BY <1>3 DEF SL!Init
<1>5. indexed \subseteq Users /\ buckets \in [Users -> 0..Len(limiters)]
      /\ updating \in BOOLEAN /\ epoch \in Nat
  <2>1. indexed = {} /\ buckets = [u \in Users |-> 0] /\ updating = FALSE /\ epoch = 0
    BY DEF SL!Init
  <2>2. 0 \in 0..Len(limiters)
    BY <1>2
  <2> QED BY <2>1, <2>2
<1> QED BY <1>1, <1>2, <1>4, <1>5 DEF SpeedType

\* The steps of a connection, by their shape.
ConnStep(c) ==
  \/ UNCHANGED Tracked /\ \E r : Becomes(c, r)
  \/ \E u, l, r : Installs(c, u, l, r)

\* The steps of the connections and of an update.
LEMMA SpeedSteps ==
  ASSUME SL!SpeedLimitsAssumption, SpeedType, [SL!Next]_(SL!speedVars)
  PROVE  \/ \E t \in Tables : SL!UpdateUsers(t)
         \/ SL!UpdateBuckets
         \/ \E c \in Conns : ConnStep(c)
         \/ UNCHANGED SL!speedVars
<1> SUFFICES ASSUME NEW c \in Conns,
                    \/ \E u \in Users : SL!Lookup(c, u)
                    \/ SL!ReadLimit(c) \/ SL!Install(c)
                    \/ \E size \in 1..MaxBuffer, cut \in BOOLEAN : SL!Move(c, size, cut)
                    \/ SL!Pay(c) \/ SL!Leave(c)
             PROVE  ConnStep(c)
  BY DEF SL!Next
<1>1. CASE SL!Install(c) /\ ~SL!Installed(callers[c].user)
  BY <1>1, InstallSteps DEF ConnStep
<1>2. CASE ~(SL!Install(c) /\ ~SL!Installed(callers[c].user))
  BY <1>2, CallerSteps DEF ConnStep
<1> QED BY <1>1, <1>2

\* Every step keeps the types.
LEMMA SpeedNextType == SL!SpeedLimitsAssumption /\ SpeedType /\ [SL!Next]_(SL!speedVars) => SpeedType'
<1> SUFFICES ASSUME SL!SpeedLimitsAssumption, SpeedType, [SL!Next]_(SL!speedVars) PROVE SpeedType'
  OBVIOUS
<1>0. Len(limiters) \in Nat
  BY DEF SpeedType
<1>1. ASSUME NEW t \in Tables, SL!UpdateUsers(t)
      PROVE  SpeedType'
  <2>1. limits' = t /\ updating' = TRUE
        /\ UNCHANGED <<indexed, buckets, limiters, epoch, callers>>
    BY <1>1 DEF SL!UpdateUsers
  <2>2. \A c \in Conns : Fit(callers[c])'
    BY <2>1 DEF SpeedType, Fit
  <2> QED BY <2>1, <2>2 DEF SpeedType, SL!SpeedLimitsAssumption
<1>2. CASE SL!UpdateBuckets
  <2>1. limiters' \in Seq(Limiters) /\ Len(limiters') = Len(limiters)
    BY <1>2, UpdateSteps
  <2>2. UNCHANGED <<limits, callers>> /\ indexed' = DOMAIN limits /\ updating' = FALSE
        /\ epoch' = epoch + 1
    BY <1>2 DEF SL!UpdateBuckets
  <2>3. buckets' \in [Users -> 0..Len(limiters')]
    <3>1. buckets' = [u \in Users |-> IF SL!Limited(u) THEN buckets[u] ELSE 0]
      BY <1>2 DEF SL!UpdateBuckets
    <3> QED BY <1>0, <2>1, <3>1 DEF SpeedType
  <2>4. \A c \in Conns : Fit(callers[c])'
    BY <2>1, <2>2 DEF SpeedType, Fit
  <2>5. DOMAIN limits' \subseteq Users /\ indexed' \subseteq Users
        /\ \A u \in DOMAIN limits' : limits'[u] \in Nat
    BY <2>2 DEF SpeedType
  <2>6. updating' \in BOOLEAN /\ epoch' \in Nat /\ callers' \in [Conns -> Callers]
    <3>1. updating' \in BOOLEAN
      BY <2>2
    <3>2. epoch' \in Nat /\ callers' \in [Conns -> Callers]
      BY <2>2 DEF SpeedType
    <3> QED BY <3>1, <3>2
  <2> QED BY <2>1, <2>3, <2>4, <2>5, <2>6 DEF SpeedType
<1>3. ASSUME NEW c \in Conns, NEW r, UNCHANGED Tracked, Becomes(c, r)
      PROVE  SpeedType'
  <2>1. callers' = [callers EXCEPT ![c] = r] /\ Fit(r) /\ r \in Callers
    BY <1>3 DEF Becomes, Fit
  <2>2. callers' \in [Conns -> Callers] /\ \A d \in Conns : Fit(callers'[d])
    BY <2>1 DEF SpeedType
  <2>3. UNCHANGED <<limits, indexed, buckets, limiters, updating, epoch>>
    BY <1>3 DEF Tracked
  <2>4. \A d \in Conns : Fit(callers[d])'
    BY <2>2, <2>3 DEF Fit
  <2> QED BY <2>2, <2>3, <2>4 DEF SpeedType
<1>4. ASSUME NEW c \in Conns, NEW u, NEW l, NEW r, Installs(c, u, l, r)
      PROVE  SpeedType'
  <2>1. limiters' \in Seq(Limiters) /\ Len(limiters') = Len(limiters) + 1
    BY <1>4 DEF Installs, SpeedType
  <2>2. buckets' \in [Users -> 0..Len(limiters')]
    BY <1>0, <1>4, <2>1 DEF Installs, SpeedType
  <2>3. callers' = [callers EXCEPT ![c] = r] /\ r \in Callers /\ r.pc = "open" /\ r.user \in Users
        /\ r.limiter = Len(limiters) + 1
    BY <1>4 DEF Installs
  <2>4. callers' \in [Conns -> Callers]
    BY <2>3 DEF SpeedType
  <2>5. ASSUME NEW d \in Conns
        PROVE  Fit(callers[d])'
    <3>1. CASE d = c
      <4>1. callers'[d] = r
        BY <2>3, <3>1 DEF SpeedType
      <4> QED BY <1>0, <2>1, <2>3, <4>1 DEF Fit
    <3>2. CASE d # c
      <4>1. callers'[d] = callers[d] /\ Fit(callers[d]) /\ callers[d].limiter \in Nat
        BY <2>3, <3>2 DEF SpeedType, Fit, Callers
      <4> QED BY <1>0, <2>1, <4>1 DEF Fit
    <3> QED BY <3>1, <3>2
  <2>6. UNCHANGED <<limits, indexed, updating, epoch>>
    BY <1>4 DEF Installs
  <2> QED BY <2>1, <2>2, <2>4, <2>5, <2>6 DEF SpeedType
<1>5. CASE UNCHANGED SL!speedVars
  BY <1>5 DEF SL!speedVars, SpeedType, Fit
<1> QED BY <1>1, <1>2, <1>3, <1>4, <1>5, SpeedSteps DEF ConnStep

\* Every variable keeps its type, for any users, speeds and buffer sizes.
THEOREM SpeedTypeCorrect == SL!Spec => []SpeedType
<1>0. SL!SpeedLimitsAssumption
  BY PartsAssumption
<1>1. SL!Init => SpeedType
  BY <1>0, SpeedInitType
<1>2. SpeedType /\ [SL!Next]_(SL!speedVars) => SpeedType'
  BY <1>0, SpeedNextType
<1> QED BY <1>1, <1>2, PTL DEF SL!Spec

-----------------------------------------------------------------------------
(* Who is stranded                                                         *)

\* No bucket falls below the floor, and a cut holds until an update ends.
LEMMA SpeedRoom ==
  SL!SpeedLimitsAssumption /\ SpeedType /\ RoomInv /\ [SL!Next]_(SL!speedVars) => RoomInv'
<1> SUFFICES ASSUME SL!SpeedLimitsAssumption, SpeedType, RoomInv, [SL!Next]_(SL!speedVars) PROVE RoomInv'
  OBVIOUS
<1>0. DOMAIN limiters = 1..Len(limiters) /\ Len(limiters) \in Nat /\ Floor \in Nat /\ epoch \in Nat
  BY DEF SpeedType, SL!SpeedLimitsAssumption
<1>1. ASSUME NEW t \in Tables, SL!UpdateUsers(t)
      PROVE  RoomInv'
  BY <1>1 DEF SL!UpdateUsers, RoomInv, SL!StrandedForCause
<1>2. CASE SL!UpdateBuckets
  <2>1. DOMAIN limiters' = DOMAIN limiters
    BY <1>0, <1>2, UpdateSteps
  <2>2. ASSUME NEW i \in DOMAIN limiters'
        PROVE  limiters'[i].burst >= Floor
    <3>1. CASE limiters'[i] = limiters[i]
      BY <2>1, <2>2, <3>1 DEF RoomInv
    <3>2. ASSUME NEW u \in Users, SL!Limited(u), limiters'[i].burst = SL!Burst(limits[u])
          PROVE  limiters'[i].burst >= Floor
      <4>1. limits[u] \in Nat
        BY <3>2 DEF SL!Limited, SpeedType
      <4> QED BY <3>2, <4>1, BurstFits
    <3> QED BY <1>2, <2>1, <2>2, <3>1, <3>2, UpdateSteps
  <2>3. callers' = callers /\ epoch' = epoch + 1
    BY <1>2 DEF SL!UpdateBuckets
  <2>4. ASSUME NEW c \in Conns
        PROVE  callers[c].due.looked <= epoch => callers[c].due.looked < epoch'
    BY <1>0, <2>3 DEF SpeedType, Callers, Dues
  <2>5. ASSUME NEW c \in Conns, callers[c].pc = "paying", callers[c].due.cut
        PROVE  callers[c].due.looked < epoch'
    BY <1>0, <2>4, <2>5 DEF RoomInv, SpeedType, Callers, Dues
  <2>6. ASSUME NEW c \in Conns, callers[c].pc = "stranded"
        PROVE  callers[c].due.size > Floor /\ (callers[c].due.cut => callers[c].due.looked < epoch')
    BY <1>0, <2>4, <2>6 DEF RoomInv, SL!StrandedForCause, SpeedType, Callers, Dues
  <2> QED BY <2>2, <2>3, <2>5, <2>6 DEF RoomInv, SL!StrandedForCause
<1>3. ASSUME NEW c \in Conns, NEW r, UNCHANGED Tracked, Becomes(c, r)
      PROVE  RoomInv'
  <2>1. callers' = [callers EXCEPT ![c] = r] /\ limiters' = limiters /\ epoch' = epoch /\ Fit(r)
    BY <1>3 DEF Becomes, Tracked
  <2>2. r.pc = "paying" /\ r.due.cut =>
          r.due.looked = epoch /\ r.due.size <= limiters[r.limiter].burst
    BY <1>3 DEF Becomes
  <2>3. ASSUME r.pc = "stranded"
        PROVE  r.due.size > Floor /\ (r.due.cut => r.due.looked < epoch)
    <3>1. callers[c].pc = "paying" /\ r.limiter = callers[c].limiter /\ r.due = callers[c].due
          /\ r.due.size > limiters[r.limiter].burst
      BY <1>3, <2>3 DEF Becomes
    <3>2. r.limiter \in 1..Len(limiters) /\ r.due.size \in Nat
      BY <1>0, <2>1, <3>1 DEF SpeedType, Fit, Callers, Dues
    <3>3. limiters[r.limiter] \in Limiters /\ limiters[r.limiter].burst >= Floor
      BY <1>0, <3>2 DEF SpeedType, RoomInv
    <3>4. limiters[r.limiter].burst \in Nat
      BY <3>3 DEF Limiters
    <3>5. r.due.cut => r.due.looked < epoch
      BY <3>1, <3>2, <3>4 DEF RoomInv
    <3> QED BY <1>0, <3>1, <3>2, <3>3, <3>4, <3>5
  <2>4. callers'[c] = r /\ \A d \in Conns \ {c} : callers'[d] = callers[d]
    BY <2>1 DEF SpeedType
  <2> QED BY <2>1, <2>2, <2>3, <2>4 DEF RoomInv, SL!StrandedForCause
<1>4. ASSUME NEW c \in Conns, NEW u, NEW l, NEW r, Installs(c, u, l, r)
      PROVE  RoomInv'
  <2>1. limiters' = Append(limiters, l) /\ l.burst >= Floor /\ l \in Limiters
        /\ callers' = [callers EXCEPT ![c] = r] /\ r.pc = "open" /\ epoch' = epoch
    BY <1>4 DEF Installs
  <2>2. \A i \in DOMAIN limiters' : limiters'[i].burst >= Floor
    <3>1. ASSUME NEW i \in DOMAIN limiters'
          PROVE  limiters'[i] = l \/ (i \in DOMAIN limiters /\ limiters'[i] = limiters[i])
      BY <1>0, <2>1, <3>1 DEF SpeedType
    <3> QED BY <2>1, <3>1 DEF RoomInv
  <2>3. callers'[c] = r /\ \A d \in Conns \ {c} : callers'[d] = callers[d]
    BY <2>1 DEF SpeedType
  <2>4. ASSUME NEW d \in Conns, callers[d].pc = "paying"
        PROVE  limiters'[callers[d].limiter] = limiters[callers[d].limiter]
    <3>1. callers[d].limiter \in 1..Len(limiters)
      BY <1>0, <2>4 DEF SpeedType, Fit, Callers
    <3> QED BY <1>0, <2>1, <3>1 DEF SpeedType
  <2> QED BY <2>1, <2>2, <2>3, <2>4 DEF RoomInv, SL!StrandedForCause
<1>5. CASE UNCHANGED SL!speedVars
  BY <1>5 DEF SL!speedVars, RoomInv, SL!StrandedForCause
<1> QED BY <1>1, <1>2, <1>3, <1>4, <1>5, SpeedSteps DEF ConnStep

\* StrandedForCause: whatever the speeds and the sizes of the buffers, a payer waits
\* in vain only for a buffer above the floor, and, if it was cut to the burst, only
\* when an update has ended since.
THEOREM StrandingHasACause == SL!Spec => []StrandedForCause
<1>0. SL!SpeedLimitsAssumption
  BY PartsAssumption
<1>1. SL!Init => SpeedType /\ RoomInv
  <2> SUFFICES ASSUME SL!Init PROVE RoomInv
    BY <1>0, SpeedInitType
  <2>1. limiters = << >> /\ \A c \in Conns : callers[c] = SL!Idle
    BY DEF SL!Init
  <2>2. SL!Idle.pc = "free"
    BY DEF SL!Idle
  <2> QED BY <2>1, <2>2 DEF RoomInv, SL!StrandedForCause
<1>2. SpeedType /\ RoomInv /\ [SL!Next]_(SL!speedVars) => SpeedType' /\ RoomInv'
  BY <1>0, SpeedNextType, SpeedRoom
<1>3. RoomInv => StrandedForCause
  BY DEF RoomInv, StrandedForCause
<1> QED BY <1>1, <1>2, <1>3, PTL DEF SL!Spec

-----------------------------------------------------------------------------
(* One budget                                                              *)

\* One user: nothing is said of the limiters of others.
InBudget(u) ==
  buckets[u] # 0 =>
    LET l == limiters[buckets[u]] IN
      \/ SL!Limited(u) /\ l.speed = limits[u]
      \/ l.read < l.made /\ l.made = epoch

\* An update reaches the limiters of all it limits.
LEMMA UpdateBudget ==
  ASSUME SL!SpeedLimitsAssumption, SpeedType, BudgetInv, SL!UpdateBuckets
  PROVE  BudgetInv'
<1>1. /\ updating' = FALSE /\ epoch' = epoch + 1 /\ UNCHANGED <<limits, callers>>
      /\ buckets' = [u \in Users |-> IF SL!Limited(u) THEN buckets[u] ELSE 0]
  BY DEF SL!UpdateBuckets
<1>2. \A u \in Users : buckets'[u] # 0 => SL!Limited(u) /\ buckets'[u] = buckets[u]
  BY <1>1
<1>3. \A u, v \in Users : buckets'[u] = buckets'[v] /\ buckets'[u] # 0 => u = v
  BY <1>2 DEF BudgetInv
<1>4. ASSUME NEW c \in Conns
      PROVE  callers[c].since <= epoch' /\ callers[c].since # epoch'
  <2>1. callers[c].since \in Nat /\ epoch \in Nat /\ callers[c].since <= epoch
    BY DEF SpeedType, Callers, BudgetInv
  <2> QED BY <1>1, <2>1
<1>5. ASSUME NEW u \in Users, buckets'[u] # 0
      PROVE  SL!Limited(u)' /\ limiters'[buckets'[u]].speed = limits'[u]
  <2>1. SL!Limited(u) /\ buckets'[u] = buckets[u] /\ buckets[u] \in 1..Len(limiters)
    BY <1>2, <1>5 DEF SpeedType
  <2>2. buckets[u] \in DOMAIN limiters
    BY <2>1 DEF SpeedType
  <2>3. PICK v \in Users : buckets[v] = buckets[u] /\ limiters'[buckets[u]].speed = limits[v]
    BY <2>1, <2>2, UpdateSteps
  <2>4. v = u
    BY <1>5, <2>1, <2>3 DEF BudgetInv
  <2> QED BY <1>1, <2>1, <2>3, <2>4 DEF SL!Limited
<1> QED BY <1>1, <1>3, <1>4, <1>5 DEF BudgetInv

\* A step of a connection that installs nothing.
LEMMA ChangeBudget ==
  ASSUME SL!SpeedLimitsAssumption, SpeedType, BudgetInv, NEW c \in Conns, NEW r,
         UNCHANGED Tracked, Becomes(c, r)
  PROVE  BudgetInv'
<1>0. epoch \in Nat /\ r \in Callers
  BY DEF SpeedType, Becomes, Fit
<1>1. UNCHANGED <<limits, buckets, limiters, updating, epoch>>
  BY DEF Tracked
<1>2. callers'[c] = r /\ \A d \in Conns \ {c} : callers'[d] = callers[d]
  BY DEF Becomes, SpeedType
<1>3. /\ r.since <= epoch
      /\ r.limiter # 0 /\ r.since = epoch => r.limiter = buckets[r.user]
      /\ r.pc = "limited" => SL!Limited(r.user) /\ r.speed = limits[r.user]
  BY <1>0 DEF Becomes, BudgetInv
<1>4. ASSUME NEW d \in Conns
      PROVE  /\ callers'[d].since <= epoch
             /\ callers'[d].pc = "limited" /\ ~updating /\ callers'[d].since = epoch =>
                  SL!Limited(callers'[d].user) /\ callers'[d].speed = limits[callers'[d].user]
             /\ callers'[d].limiter # 0 /\ callers'[d].since = epoch =>
                  callers'[d].limiter = buckets[callers'[d].user]
  <2>1. CASE d = c
    BY <1>2, <1>3, <2>1
  <2>2. CASE d # c
    BY <1>2, <2>2 DEF BudgetInv
  <2> QED BY <2>1, <2>2
<1> QED BY <1>1, <1>4 DEF BudgetInv, SL!Limited

\* A limiter that is installed is the bucket of its user.
LEMMA InstallBudget ==
  ASSUME SL!SpeedLimitsAssumption, SpeedType, BudgetInv, NEW c \in Conns, NEW w, NEW l, NEW r,
         Installs(c, w, l, r)
  PROVE  BudgetInv'
<1> DEFINE n == Len(limiters) + 1
<1>0. Len(limiters) \in Nat /\ epoch \in Nat
  BY DEF SpeedType
<1>1. /\ w = callers[c].user /\ w \in Users /\ callers[c].pc = "limited" /\ buckets[w] = 0
      /\ l \in Limiters /\ l.speed = callers[c].speed /\ l.read = callers[c].since /\ l.made = epoch
      /\ r.pc = "open" /\ r.user = w /\ r.limiter = n /\ r.since = epoch
      /\ UNCHANGED <<limits, updating, epoch>>
  BY DEF Installs
<1>2. callers'[c] = r /\ \A d \in Conns \ {c} : callers'[d] = callers[d]
  BY DEF Installs, SpeedType
<1>3. buckets'[w] = n /\ \A u \in Users \ {w} : buckets'[u] = buckets[u] /\ buckets[u] <= Len(limiters)
                                                  /\ buckets[u] \in Nat
  BY <1>1 DEF Installs, SpeedType
<1>4. limiters'[n] = l /\ \A i \in 1..Len(limiters) : limiters'[i] = limiters[i]
  BY <1>0 DEF Installs, SpeedType
<1>5. \A u, v \in Users : buckets'[u] = buckets'[v] /\ buckets'[u] # 0 => u = v
  BY <1>0, <1>3 DEF BudgetInv
<1>6. ASSUME NEW d \in Conns
      PROVE  /\ callers'[d].since <= epoch
             /\ callers'[d].pc = "limited" /\ ~updating /\ callers'[d].since = epoch =>
                  SL!Limited(callers'[d].user) /\ callers'[d].speed = limits[callers'[d].user]
             /\ callers'[d].limiter # 0 /\ callers'[d].since = epoch =>
                  callers'[d].limiter = buckets'[callers'[d].user]
  <2>1. CASE d = c
    BY <1>0, <1>1, <1>2, <1>3, <2>1
  <2>2. CASE d # c
    <3>1. callers'[d] = callers[d] /\ Fit(callers[d])
      BY <1>2, <2>2 DEF SpeedType
    <3>2. ASSUME callers[d].limiter # 0, callers[d].since = epoch
          PROVE  callers[d].limiter = buckets'[callers[d].user]
      <4>1. callers[d].limiter = buckets[callers[d].user] /\ callers[d].user \in Users
        BY <3>1, <3>2 DEF BudgetInv, Fit, Callers, CallerPcs
      <4>2. callers[d].user # w
        BY <1>1, <3>2, <4>1
      <4> QED BY <1>3, <4>1, <4>2
    <3> QED BY <3>1, <3>2 DEF BudgetInv
  <2> QED BY <2>1, <2>2
<1>7. ASSUME ~updating, NEW u \in Users
      PROVE  InBudget(u)'
  <2>1. CASE u = w
    <3>1. callers[c].since = epoch => SL!Limited(w) /\ callers[c].speed = limits[w]
      BY <1>1, <1>7 DEF BudgetInv
    <3>2. callers[c].since # epoch => l.read < l.made
      BY <1>0, <1>1 DEF BudgetInv, SpeedType, Callers
    <3> QED BY <1>1, <1>3, <1>4, <2>1, <3>1, <3>2 DEF InBudget, SL!Limited
  <2>2. CASE u # w
    <3>1. InBudget(u)
      BY <1>7 DEF BudgetInv, InBudget
    <3>2. buckets[u] # 0 => limiters'[buckets'[u]] = limiters[buckets[u]]
      BY <1>0, <1>3, <1>4, <2>2
    <3> QED BY <1>1, <1>3, <2>2, <3>1, <3>2 DEF InBudget, SL!Limited
  <2> QED BY <2>1, <2>2
<1> QED BY <1>1, <1>5, <1>6, <1>7 DEF BudgetInv, InBudget, SL!Limited

\* Every step keeps the budgets.
LEMMA SpeedBudget ==
  SL!SpeedLimitsAssumption /\ SpeedType /\ BudgetInv /\ [SL!Next]_(SL!speedVars) => BudgetInv'
<1> SUFFICES ASSUME SL!SpeedLimitsAssumption, SpeedType, BudgetInv, [SL!Next]_(SL!speedVars) PROVE BudgetInv'
  OBVIOUS
<1>1. ASSUME NEW t \in Tables, SL!UpdateUsers(t)
      PROVE  BudgetInv'
  BY <1>1 DEF SL!UpdateUsers, BudgetInv
<1>2. CASE SL!UpdateBuckets
  BY <1>2, UpdateBudget
<1>3. CASE \E c \in Conns : ConnStep(c)
  BY <1>3, ChangeBudget, InstallBudget DEF ConnStep
<1>4. CASE UNCHANGED SL!speedVars
  BY <1>4 DEF SL!speedVars, BudgetInv, SL!Limited
<1> QED BY <1>1, <1>2, <1>3, <1>4, SpeedSteps

\* SharedBudget: the connections of a user that were served since the last update share
\* one limiter, and it runs at the user's speed unless its maker knew an older one.
THEOREM BudgetIsShared == SL!Spec => []SharedBudget
<1>0. SL!SpeedLimitsAssumption
  BY PartsAssumption
<1>1. SL!Init => SpeedType /\ BudgetInv
  <2> SUFFICES ASSUME SL!Init PROVE BudgetInv
    BY <1>0, SpeedInitType
  <2>1. (\A c \in Conns : callers[c] = SL!Idle) /\ (\A u \in Users : buckets[u] = 0) /\ epoch = 0
    BY DEF SL!Init
  <2>2. SL!Idle.pc = "free" /\ SL!Idle.limiter = 0 /\ SL!Idle.since = 0
    BY DEF SL!Idle
  <2> QED BY <2>1, <2>2 DEF BudgetInv
<1>2. SpeedType /\ BudgetInv /\ [SL!Next]_(SL!speedVars) => SpeedType' /\ BudgetInv'
  BY <1>0, SpeedNextType, SpeedBudget
<1>3. BudgetInv => SharedBudget
  BY DEF BudgetInv, SL!SharedBudget, SharedBudget
<1> QED BY <1>1, <1>2, <1>3, PTL DEF SL!Spec

-----------------------------------------------------------------------------
(* ConnTracker                                                             *)

ConnPcs == {"free", "untracked", "gate", "admitted", "open"}
ConnRecords ==
  [pc : ConnPcs, tracker : CT!Trackers, user : Users \cup {"nobody"}, ip : Addresses \cup {0},
   local : SUBSET Addresses]

\* Counts are integers here; that they are natural is a part of PresenceIsExact.
Counts == [there : BOOLEAN, ips : [Addresses -> Int], connCount : Int, bytes : Nat]

ConnType ==
  /\ current \in CT!Trackers
  /\ trackers \in [CT!Trackers -> [uuidMap : SUBSET Users, users : [Users -> Counts]]]
  /\ conns \in [Conns -> ConnRecords]
  /\ \A c \in Conns : /\ conns[c].tracker <= current
                      /\ conns[c].pc # "free" => conns[c].user \in Users /\ conns[c].ip \in Addresses
  /\ global \in [fresh : BOOLEAN, ips : [Users -> SUBSET Addresses]]
  /\ lastSeen \in [Users -> Nat] /\ metered \in [Users -> Nat] /\ carried \in [Users -> Nat]

\* A connection that nobody uses.
LEMMA NoConnType == CT!ConnTrackerAssumption => CT!NoConn \in ConnRecords /\ CT!NoConn.pc = "free" /\ CT!NoConn.tracker = 1
BY DEF CT!ConnTrackerAssumption, CT!NoConn, ConnRecords, ConnPcs, CT!Trackers

\* What SetUserMap does to the stats of a user.
LEMMA UserMapStats ==
  ASSUME NEW t, t.users \in [Users -> Counts], NEW m \in SUBSET Users
  PROVE  /\ CT!WithUserMap(t, m) \in [uuidMap : SUBSET Users, users : [Users -> Counts]]
         /\ CT!WithUserMap(t, m).uuidMap = m
         /\ \A u \in Users : LET s == CT!WithUserMap(t, m).users[u] IN
              /\ s.connCount = t.users[u].connCount /\ s.ips = t.users[u].ips /\ s.bytes = t.users[u].bytes
              /\ (u \in m \/ t.users[u].there => s.there)
<1>1. \A u \in Users : LET s == CT!WithUserMap(t, m).users[u] IN
        /\ s \in Counts
        /\ s.connCount = t.users[u].connCount /\ s.ips = t.users[u].ips /\ s.bytes = t.users[u].bytes
        /\ (u \in m \/ t.users[u].there => s.there)
  <2> TAKE u \in Users
  <2>1. CT!WithUserMap(t, m).users[u] = IF u \in m THEN [t.users[u] EXCEPT !.there = TRUE] ELSE t.users[u]
    BY DEF CT!WithUserMap
  <2>2. t.users[u] \in Counts
    OBVIOUS
  <2>3. [t.users[u] EXCEPT !.there = TRUE] \in Counts
    BY <2>2 DEF Counts
  <2> QED BY <2>1, <2>2, <2>3 DEF Counts
<1>2. CT!WithUserMap(t, m).users \in [Users -> Counts] /\ CT!WithUserMap(t, m).uuidMap = m
  BY <1>1 DEF CT!WithUserMap
<1>3. CT!WithUserMap(t, m) = [uuidMap |-> m, users |-> CT!WithUserMap(t, m).users]
  BY DEF CT!WithUserMap
<1> QED BY <1>1, <1>2, <1>3

\* The stats of a tracker that was just made.
LEMMA FreshStats ==
  ASSUME NEW m \in SUBSET Users
  PROVE  /\ CT!FreshTracker(m) \in [uuidMap : SUBSET Users, users : [Users -> Counts]]
         /\ CT!FreshTracker(m).uuidMap = m
         /\ \A u \in Users : LET s == CT!FreshTracker(m).users[u] IN
              /\ s.connCount = 0 /\ s.bytes = 0 /\ (u \in m => s.there)
              /\ \A a \in Addresses : s.ips[a] = 0
<1> DEFINE t == [uuidMap |-> {}, users |-> [u \in Users |-> CT!NoStats]]
<1>1. CT!NoStats \in Counts
  BY DEF CT!NoStats, Counts
<1>2. t.users \in [Users -> Counts] /\ \A u \in Users : t.users[u] = CT!NoStats
  BY <1>1
<1>3. CT!FreshTracker(m) = CT!WithUserMap(t, m)
  BY DEF CT!FreshTracker
<1> HIDE DEF t
<1>4. /\ CT!NoStats.connCount = 0 /\ CT!NoStats.bytes = 0 /\ CT!NoStats.there = FALSE
      /\ \A a \in Addresses : CT!NoStats.ips[a] = 0
  BY DEF CT!NoStats
<1> QED BY <1>2, <1>3, <1>4, UserMapStats

\* The first tracker and its tables.
LEMMA ConnInitType == CT!ConnTrackerAssumption /\ CT!Init => ConnType
<1> SUFFICES ASSUME CT!ConnTrackerAssumption, CT!Init PROVE ConnType
  OBVIOUS
<1>1. current \in CT!Trackers /\ current = 1
  BY DEF CT!Init, CT!ConnTrackerAssumption, CT!Trackers
<1>2. trackers \in [CT!Trackers -> [uuidMap : SUBSET Users, users : [Users -> Counts]]]
  <2>1. PICK m \in UserMaps : trackers = [t \in CT!Trackers |-> CT!FreshTracker(IF t = 1 THEN m ELSE {})]
    BY DEF CT!Init
  <2>2. m \in SUBSET Users /\ {} \in SUBSET Users
    BY DEF CT!ConnTrackerAssumption
  <2> QED BY <2>1, <2>2, FreshStats
<1>3. conns \in [Conns -> ConnRecords] /\ \A c \in Conns : conns[c].tracker <= current /\ conns[c].pc = "free"
  BY <1>1, NoConnType DEF CT!Init
<1>4. global \in [fresh : BOOLEAN, ips : [Users -> SUBSET Addresses]]
  BY DEF CT!Init, CT!NoGlobal
<1>5. lastSeen \in [Users -> Nat] /\ metered \in [Users -> Nat] /\ carried \in [Users -> Nat]
  BY DEF CT!Init
<1> QED BY <1>1, <1>2, <1>3, <1>4, <1>5 DEF ConnType

-----------------------------------------------------------------------------
(* What the steps change                                                   *)

\* A connection that has a user changes his stats, in its tracker, and nothing
\* else.
LEMMA ChangeStats ==
  ASSUME CT!ConnTrackerAssumption, ConnType, NEW c \in Conns, conns[c].pc # "free", NEW s \in Counts, trackers' = CT!Change(c, s)
  PROVE  /\ trackers' \in [CT!Trackers -> [uuidMap : SUBSET Users, users : [Users -> Counts]]]
         /\ \A t \in CT!Trackers : trackers'[t].uuidMap = trackers[t].uuidMap
         /\ \A t \in CT!Trackers, u \in Users :
              trackers'[t].users[u] = IF t = conns[c].tracker /\ u = conns[c].user THEN s ELSE trackers[t].users[u]
<1> DEFINE k == conns[c].tracker
           w == conns[c].user
<1>1. /\ k \in CT!Trackers /\ w \in Users
      /\ trackers \in [CT!Trackers -> [uuidMap : SUBSET Users, users : [Users -> Counts]]]
  BY DEF ConnType, ConnRecords
<1>2. trackers' = [trackers EXCEPT ![k] = [trackers[k] EXCEPT !.users = [trackers[k].users EXCEPT ![w] = s]]]
  BY DEF CT!Change
<1> HIDE DEF k, w
<1>3. [trackers[k].users EXCEPT ![w] = s] \in [Users -> Counts]
  BY <1>1
<1>4. [trackers[k] EXCEPT !.users = [trackers[k].users EXCEPT ![w] = s]] \in [uuidMap : SUBSET Users, users : [Users -> Counts]]
  BY <1>1, <1>3
<1>5. trackers' \in [CT!Trackers -> [uuidMap : SUBSET Users, users : [Users -> Counts]]]
  BY <1>1, <1>2, <1>4
<1>6. \A t \in CT!Trackers : t # k => trackers'[t] = trackers[t]
  BY <1>1, <1>2
<1>7. trackers'[k].uuidMap = trackers[k].uuidMap /\ trackers'[k].users = [trackers[k].users EXCEPT ![w] = s]
  BY <1>1, <1>2, <1>4
<1>8. \A u \in Users : trackers'[k].users[u] = IF u = w THEN s ELSE trackers[k].users[u]
  BY <1>1, <1>7
<1> QED BY <1>1, <1>5, <1>6, <1>7, <1>8 DEF k, w

\* The stats as a connection, or Register, Transfer and Close, find them.
LEMMA StatsFound ==
  ASSUME ConnType, NEW c \in Conns, conns[c].pc # "free"
  PROVE  /\ conns[c].tracker \in CT!Trackers /\ conns[c].user \in Users /\ conns[c].ip \in Addresses
         /\ CT!StatsOf(c) \in Counts /\ CT!StatsOf(c) = trackers[conns[c].tracker].users[conns[c].user]
BY DEF ConnType, ConnRecords, CT!StatsOf

\* A registered connection is counted, and nothing else changes.
LEMMA RegisterStats ==
  ASSUME NEW s \in Counts, NEW a \in Addresses
  PROVE  LET r == [s EXCEPT !.ips[a] = @ + 1, !.connCount = @ + 1] IN
           /\ r \in Counts /\ r.connCount = s.connCount + 1 /\ r.there = s.there /\ r.bytes = s.bytes
           /\ \A b \in Addresses : r.ips[b] = IF b = a THEN s.ips[b] + 1 ELSE s.ips[b]
<1> DEFINE i == [s.ips EXCEPT ![a] = s.ips[a] + 1]
<1>1. i \in [Addresses -> Int] /\ \A b \in Addresses : i[b] = IF b = a THEN s.ips[b] + 1 ELSE s.ips[b]
  BY DEF Counts
<1>2. [s EXCEPT !.ips[a] = @ + 1, !.connCount = @ + 1] = [s EXCEPT !.ips = i, !.connCount = s.connCount + 1]
  OBVIOUS
<1> DEFINE n == s.connCount + 1
           r == [s EXCEPT !.ips = i, !.connCount = n]
<1>3. n \in Int
  BY DEF Counts
<1> HIDE DEF i, n
<1>4. r \in Counts /\ r.ips = i /\ r.connCount = n /\ r.there = s.there /\ r.bytes = s.bytes
  BY <1>1, <1>3 DEF Counts
<1> HIDE DEF r
<1>5. [s EXCEPT !.ips[a] = @ + 1, !.connCount = @ + 1] = r
  BY <1>2 DEF r, n
<1> QED BY <1>1, <1>4, <1>5 DEF n

\* A closed connection is no longer counted.
LEMMA ReleasedStats ==
  ASSUME NEW s \in Counts, NEW a \in Addresses
  PROVE  LET r == CT!Released(s, a) IN
           /\ r \in Counts /\ r.connCount = s.connCount - 1 /\ r.there = s.there /\ r.bytes = s.bytes
           /\ \A b \in Addresses : r.ips[b] = IF b = a THEN s.ips[b] - 1 ELSE s.ips[b]
<1> DEFINE i == [s.ips EXCEPT ![a] = s.ips[a] - 1]
<1>1. i \in [Addresses -> Int] /\ \A b \in Addresses : i[b] = IF b = a THEN s.ips[b] - 1 ELSE s.ips[b]
  BY DEF Counts
<1>2. CT!Released(s, a) = [s EXCEPT !.ips = i, !.connCount = s.connCount - 1]
  BY DEF CT!Released
<1> DEFINE n == s.connCount - 1
           r == [s EXCEPT !.ips = i, !.connCount = n]
<1>3. n \in Int
  BY DEF Counts
<1> HIDE DEF i, n
<1>4. r \in Counts /\ r.ips = i /\ r.connCount = n /\ r.there = s.there /\ r.bytes = s.bytes
  BY <1>1, <1>3 DEF Counts
<1> HIDE DEF r
<1>5. CT!Released(s, a) = r
  BY <1>2 DEF r, n
<1> QED BY <1>1, <1>4, <1>5 DEF n

\* Bytes are added to the stats of one user.
LEMMA TransferStats ==
  ASSUME NEW s \in Counts
  PROVE  LET r == [s EXCEPT !.bytes = @ + 1] IN
           /\ r \in Counts /\ r.connCount = s.connCount /\ r.ips = s.ips /\ r.there = s.there
           /\ r.bytes = s.bytes + 1
BY DEF Counts

\* A goroutine takes another step.
LEMMA ConnChange ==
  ASSUME ConnType, NEW c \in Conns, NEW r \in ConnRecords, conns' = [conns EXCEPT ![c] = r],
         r.tracker <= current, r.pc # "free" => r.user \in Users /\ r.ip \in Addresses
  PROVE  /\ conns' \in [Conns -> ConnRecords]
         /\ conns'[c] = r /\ \A d \in Conns \ {c} : conns'[d] = conns[d]
         /\ \A d \in Conns : /\ conns'[d].tracker <= current
                             /\ conns'[d].pc # "free" => conns'[d].user \in Users /\ conns'[d].ip \in Addresses
BY DEF ConnType

\* The record each step of a connection leaves.
StepOf(c, r) ==
  /\ r \in ConnRecords /\ conns' = [conns EXCEPT ![c] = r] /\ r.tracker <= current
  /\ r.pc # "free" => r.user \in Users /\ r.ip \in Addresses

\* Step by step: a new connection, with or without a user.
LEMMA RouteStep ==
  ASSUME ConnType, NEW c \in Conns, NEW u \in Users, NEW a \in Addresses, CT!Route(c, u, a)
  PROVE  \E r : /\ StepOf(c, r) /\ conns[c].pc = "free" /\ r.tracker = current /\ r.user = u
                /\ \/ r.pc = "gate" /\ u \in trackers[current].uuidMap
                   \/ r.pc = "untracked"
                /\ UNCHANGED <<current, trackers, global, lastSeen, metered, carried>>
<1> DEFINE r == [pc |-> IF u \in trackers[current].uuidMap THEN "gate" ELSE "untracked", tracker |-> current,
                 user |-> u, ip |-> a, local |-> CT!Alive(trackers[current].users[u])]
<1>1. r \in ConnRecords
  BY DEF ConnType, ConnRecords, ConnPcs, CT!Alive
<1>2. r.tracker <= current
  BY DEF ConnType, CT!Trackers
<1>3. /\ conns[c].pc = "free" /\ conns' = [conns EXCEPT ![c] = r]
      /\ UNCHANGED <<current, trackers, global, lastSeen, metered, carried>>
  BY DEF CT!Route
<1>4. r.tracker = current /\ r.user = u /\ r.ip = a
        /\ r.pc = (IF u \in trackers[current].uuidMap THEN "gate" ELSE "untracked")
  OBVIOUS
<1> HIDE DEF r
<1>5. StepOf(c, r)
  BY <1>1, <1>2, <1>3, <1>4 DEF StepOf
<1> QED BY <1>3, <1>4, <1>5

\* The device gate admits it or does not.
LEMMA GateStep ==
  ASSUME CT!ConnTrackerAssumption, ConnType, NEW c \in Conns, CT!Gate(c)
  PROVE  \E r : /\ StepOf(c, r) /\ conns[c].pc = "gate"
                /\ \/ r.pc = "admitted" /\ r.tracker = conns[c].tracker /\ r.user = conns[c].user
                   \/ r = CT!NoConn
                /\ UNCHANGED <<current, trackers, global, lastSeen, metered, carried>>
<1>1. /\ conns[c].pc = "gate" /\ UNCHANGED <<current, trackers, global, lastSeen, metered, carried>>
      /\ \/ conns' = [conns EXCEPT ![c] = [conns[c] EXCEPT !.pc = "admitted"]]
         \/ conns' = [conns EXCEPT ![c] = CT!NoConn]
  BY DEF CT!Gate
<1>2. /\ [conns[c] EXCEPT !.pc = "admitted"] \in ConnRecords
      /\ [conns[c] EXCEPT !.pc = "admitted"].tracker = conns[c].tracker
      /\ [conns[c] EXCEPT !.pc = "admitted"].user = conns[c].user
      /\ [conns[c] EXCEPT !.pc = "admitted"].ip = conns[c].ip
      /\ [conns[c] EXCEPT !.pc = "admitted"].pc = "admitted"
  <2>1. conns[c] \in ConnRecords
    BY DEF ConnType
  <2> QED BY <2>1 DEF ConnRecords, ConnPcs
<1>3. conns[c].tracker <= current /\ conns[c].user \in Users /\ conns[c].ip \in Addresses
  BY <1>1 DEF ConnType
<1>4. 1 <= current
  BY DEF ConnType, CT!Trackers
<1>5. CASE conns' = [conns EXCEPT ![c] = [conns[c] EXCEPT !.pc = "admitted"]]
  <2>1. StepOf(c, [conns[c] EXCEPT !.pc = "admitted"])
    BY <1>2, <1>3, <1>5 DEF StepOf
  <2> QED BY <1>1, <1>2, <2>1
<1>6. CASE conns' = [conns EXCEPT ![c] = CT!NoConn]
  <2>1. StepOf(c, CT!NoConn)
    BY <1>4, <1>6, NoConnType DEF StepOf
  <2> QED BY <1>1, <2>1
<1> QED BY <1>1, <1>5, <1>6

\* It is counted.
LEMMA RegisterStep ==
  ASSUME CT!ConnTrackerAssumption, ConnType, NEW c \in Conns, CT!Register(c)
  PROVE  \E r : /\ StepOf(c, r) /\ conns[c].pc = "admitted" /\ r.pc = "open"
                /\ r.tracker = conns[c].tracker /\ r.user = conns[c].user /\ r.ip = conns[c].ip
                /\ trackers' = CT!Change(c, [CT!StatsOf(c) EXCEPT !.ips[conns[c].ip] = @ + 1, !.connCount = @ + 1])
                /\ UNCHANGED <<current, global, lastSeen, metered, carried>>
<1> DEFINE r == [conns[c] EXCEPT !.pc = "open", !.local = {}]
<1>1. /\ conns[c].pc = "admitted" /\ UNCHANGED <<current, global, lastSeen, metered, carried>>
      /\ trackers' = CT!Change(c, [CT!StatsOf(c) EXCEPT !.ips[conns[c].ip] = @ + 1, !.connCount = @ + 1])
  BY DEF CT!Register
<1>2. /\ r \in ConnRecords /\ r.pc = "open"
      /\ r.tracker = conns[c].tracker /\ r.user = conns[c].user /\ r.ip = conns[c].ip
  <2>1. conns[c] \in ConnRecords
    BY DEF ConnType
  <2> QED BY <2>1 DEF ConnRecords, ConnPcs
<1>3. conns' = [conns EXCEPT ![c] = r]
  BY DEF CT!Register, ConnType
<1> HIDE DEF r
<1>4. StepOf(c, r)
  BY <1>1, <1>2, <1>3 DEF StepOf, ConnType
<1> QED BY <1>1, <1>2, <1>4

\* It is closed.
LEMMA CloseStep ==
  ASSUME CT!ConnTrackerAssumption, ConnType, NEW c \in Conns, CT!Close(c)
  PROVE  /\ StepOf(c, CT!NoConn) /\ conns[c].pc \in {"open", "untracked"}
         /\ trackers' = IF conns[c].pc = "open" THEN CT!Change(c, CT!Released(CT!StatsOf(c), conns[c].ip)) ELSE trackers
         /\ UNCHANGED <<current, global, lastSeen, metered, carried>>
<1>1. 1 <= current
  BY DEF ConnType, CT!Trackers
<1>2. StepOf(c, CT!NoConn)
  BY <1>1, NoConnType DEF CT!Close, StepOf
<1> QED BY <1>2 DEF CT!Close

\* The Service replaces the user map, or the tracker.
LEMMA UserMapChanges ==
  ASSUME CT!ConnTrackerAssumption, ConnType, NEW m \in UserMaps, CT!SetUserMap(m)
  PROVE  /\ trackers' \in [CT!Trackers -> [uuidMap : SUBSET Users, users : [Users -> Counts]]]
         /\ \A t \in CT!Trackers : trackers'[t].uuidMap = IF t = current THEN m ELSE trackers[t].uuidMap
         /\ \A t \in CT!Trackers, u \in Users : LET s == trackers'[t].users[u] IN
              /\ s.connCount = trackers[t].users[u].connCount /\ s.ips = trackers[t].users[u].ips
              /\ s.bytes = trackers[t].users[u].bytes
              /\ ((t = current /\ u \in m) \/ trackers[t].users[u].there => s.there)
         /\ UNCHANGED <<current, conns, global, lastSeen, metered, carried>>
<1>1. /\ current \in CT!Trackers /\ m \in SUBSET Users /\ trackers[current].users \in [Users -> Counts]
      /\ trackers \in [CT!Trackers -> [uuidMap : SUBSET Users, users : [Users -> Counts]]]
  BY DEF ConnType, CT!ConnTrackerAssumption
<1>2. /\ trackers' = [trackers EXCEPT ![current] = CT!WithUserMap(trackers[current], m)]
      /\ UNCHANGED <<current, conns, global, lastSeen, metered, carried>>
  BY DEF CT!SetUserMap
<1>3. CT!WithUserMap(trackers[current], m) \in [uuidMap : SUBSET Users, users : [Users -> Counts]]
  BY <1>1, UserMapStats
<1>4. trackers' \in [CT!Trackers -> [uuidMap : SUBSET Users, users : [Users -> Counts]]]
  BY <1>1, <1>2, <1>3
<1>5. /\ trackers'[current] = CT!WithUserMap(trackers[current], m)
      /\ \A t \in CT!Trackers : t # current => trackers'[t] = trackers[t]
  BY <1>1, <1>2
<1>6. \A u \in Users : LET s == trackers'[current].users[u] IN
              /\ s.connCount = trackers[current].users[u].connCount /\ s.ips = trackers[current].users[u].ips
              /\ s.bytes = trackers[current].users[u].bytes
              /\ (u \in m \/ trackers[current].users[u].there => s.there)
  BY <1>1, <1>5, UserMapStats
<1>7. trackers'[current].uuidMap = m
  BY <1>1, <1>5, UserMapStats
<1>8. \A t \in CT!Trackers, u \in Users : trackers[t].users[u].there \in BOOLEAN
  BY <1>1 DEF Counts
<1> QED BY <1>2, <1>4, <1>5, <1>6, <1>7, <1>8

\* A kernel that restarts makes a new tracker and closes nothing of the old one.
LEMMA StartChanges ==
  ASSUME CT!ConnTrackerAssumption, ConnType, NEW m \in UserMaps, CT!Start(m)
  PROVE  /\ current' = current + 1 /\ current' \in CT!Trackers
         /\ trackers' \in [CT!Trackers -> [uuidMap : SUBSET Users, users : [Users -> Counts]]]
         /\ \A t \in CT!Trackers : t # current' => trackers'[t] = trackers[t]
         /\ trackers'[current'] = CT!FreshTracker(m) /\ m \in SUBSET Users
         /\ global' = CT!NoGlobal /\ UNCHANGED <<conns, lastSeen, metered, carried>>
<1>1. /\ current \in CT!Trackers /\ m \in SUBSET Users /\ MaxTrackers \in Nat
      /\ trackers \in [CT!Trackers -> [uuidMap : SUBSET Users, users : [Users -> Counts]]]
  BY DEF ConnType, CT!ConnTrackerAssumption
<1>2. /\ current < MaxTrackers /\ current' = current + 1 /\ global' = CT!NoGlobal
      /\ trackers' = [trackers EXCEPT ![current + 1] = CT!FreshTracker(m)]
      /\ UNCHANGED <<conns, lastSeen, metered, carried>>
  BY DEF CT!Start
<1>3. current + 1 \in CT!Trackers
  BY <1>1, <1>2 DEF CT!Trackers
<1>4. CT!FreshTracker(m) \in [uuidMap : SUBSET Users, users : [Users -> Counts]]
  BY <1>1, FreshStats
<1> QED BY <1>1, <1>2, <1>3, <1>4

\* Transfer counts a unit for its user, in the tracker of the connection.
LEMMA TransferStep ==
  ASSUME CT!ConnTrackerAssumption, ConnType, NEW c \in Conns, CT!Transfer(c)
  PROVE  /\ conns[c].pc = "open"
         /\ trackers' = CT!Change(c, [CT!StatsOf(c) EXCEPT !.bytes = @ + 1])
         /\ carried' \in [Users -> Nat]
         /\ \A u \in Users : carried'[u] = IF u = conns[c].user THEN carried[u] + 1 ELSE carried[u]
         /\ UNCHANGED <<current, conns, global, lastSeen, metered>>
<1>1. /\ conns[c].pc = "open" /\ carried' = [carried EXCEPT ![conns[c].user] = @ + 1]
      /\ trackers' = CT!Change(c, [CT!StatsOf(c) EXCEPT !.bytes = @ + 1])
      /\ UNCHANGED <<current, conns, global, lastSeen, metered>>
  BY DEF CT!Transfer
<1>2. carried \in [Users -> Nat] /\ conns[c].user \in Users
  BY <1>1 DEF ConnType
<1> QED BY <1>1, <1>2

\* What Track meters is never negative, and leaves nothing to be metered.
LEMMA DeltaCounts ==
  ASSUME NEW b \in Nat, NEW p \in Nat
  PROVE  /\ CT!Delta(b, p) \in Nat /\ CT!Delta(b, b) = 0 /\ CT!Delta(0, p) = 0
         /\ CT!Delta(b + 1, p) <= CT!Delta(b, p) + 1
         /\ p <= b => CT!Delta(b, p) = b - p
BY DEF CT!Delta

\* The tick that meters, and the snapshot of the addresses.
LEMMA TrackStep ==
  ASSUME ConnType, CT!Track
  PROVE  /\ metered' \in [Users -> Nat] /\ lastSeen' \in [Users -> Nat]
         /\ \A u \in Users : LET b == trackers[current].users[u].bytes IN
              /\ metered'[u] = metered[u] + CT!Delta(b, lastSeen[u])
              /\ lastSeen'[u] = b \/ (b = 0 /\ lastSeen'[u] = lastSeen[u])
         /\ UNCHANGED <<current, trackers, conns, global, carried>>
<1> DEFINE b(u) == trackers[current].users[u].bytes
<1>1. \A u \in Users : b(u) \in Nat /\ lastSeen[u] \in Nat /\ metered[u] \in Nat
  BY DEF ConnType, Counts
<1>2. /\ metered' = [u \in Users |-> IF u \in {v \in Users : b(v) > 0} THEN metered[u] + CT!Delta(b(u), lastSeen[u])
                                     ELSE metered[u]]
      /\ lastSeen' = [u \in Users |-> IF u \in {v \in Users : b(v) > 0} THEN b(u) ELSE lastSeen[u]]
      /\ UNCHANGED <<current, trackers, conns, global, carried>>
  BY DEF CT!Track
<1> HIDE DEF b
<1>3. ASSUME NEW u \in Users
      PROVE  /\ metered'[u] = metered[u] + CT!Delta(b(u), lastSeen[u]) /\ metered'[u] \in Nat
             /\ lastSeen'[u] = b(u) \/ (b(u) = 0 /\ lastSeen'[u] = lastSeen[u])
             /\ lastSeen'[u] \in Nat
  <2>1. /\ CT!Delta(b(u), lastSeen[u]) \in Nat
        /\ b(u) = 0 => CT!Delta(b(u), lastSeen[u]) = 0
    BY <1>1, DeltaCounts
  <2>2. CASE b(u) > 0
    BY <1>1, <1>2, <2>1, <2>2
  <2>3. CASE ~(b(u) > 0)
    BY <1>1, <1>2, <2>1, <2>3
  <2> QED BY <2>2, <2>3
<1>4. metered' \in [Users -> Nat] /\ lastSeen' \in [Users -> Nat]
  <2>1. metered' = [u \in Users |-> metered'[u]] /\ lastSeen' = [u \in Users |-> lastSeen'[u]]
    BY <1>2
  <2> QED BY <1>3, <2>1
<1> QED BY <1>2, <1>3, <1>4 DEF b

\* Every step keeps the types.
LEMMA ConnNextType == CT!ConnTrackerAssumption /\ ConnType /\ [CT!Next]_(CT!connVars) => ConnType'
<1> SUFFICES ASSUME CT!ConnTrackerAssumption, ConnType, [CT!Next]_(CT!connVars) PROVE ConnType'
  OBVIOUS
<1>1. ASSUME NEW c \in Conns, NEW r, StepOf(c, r),
             trackers' \in [CT!Trackers -> [uuidMap : SUBSET Users, users : [Users -> Counts]]],
             UNCHANGED <<current, global, lastSeen, metered, carried>>
      PROVE  ConnType'
  BY <1>1, ConnChange DEF StepOf, ConnType
<1>2. ASSUME NEW c \in Conns, NEW u \in Users, NEW a \in Addresses, CT!Route(c, u, a)
      PROVE  ConnType'
  BY <1>1, <1>2, RouteStep DEF ConnType
<1>3. ASSUME NEW c \in Conns, CT!Gate(c)
      PROVE  ConnType'
  BY <1>1, <1>3, GateStep DEF ConnType
<1>4. ASSUME NEW c \in Conns, CT!Register(c)
      PROVE  ConnType'
  <2>1. PICK r : /\ StepOf(c, r) /\ conns[c].pc = "admitted"
                 /\ trackers' = CT!Change(c, [CT!StatsOf(c) EXCEPT !.ips[conns[c].ip] = @ + 1, !.connCount = @ + 1])
                 /\ UNCHANGED <<current, global, lastSeen, metered, carried>>
    BY <1>4, RegisterStep
  <2>2. [CT!StatsOf(c) EXCEPT !.ips[conns[c].ip] = @ + 1, !.connCount = @ + 1] \in Counts
    BY <2>1, StatsFound, RegisterStats
  <2> QED BY <1>1, <2>1, <2>2, ChangeStats
<1>5. ASSUME NEW c \in Conns, CT!Transfer(c)
      PROVE  ConnType'
  <2>1. [CT!StatsOf(c) EXCEPT !.bytes = @ + 1] \in Counts /\ conns[c].pc # "free"
    BY <1>5, TransferStep, StatsFound, TransferStats
  <2>2. trackers' \in [CT!Trackers -> [uuidMap : SUBSET Users, users : [Users -> Counts]]]
    BY <1>5, <2>1, TransferStep, ChangeStats
  <2> QED BY <1>5, <2>2, TransferStep DEF ConnType
<1>6. ASSUME NEW c \in Conns, CT!Close(c)
      PROVE  ConnType'
  <2>1. CT!Released(CT!StatsOf(c), conns[c].ip) \in Counts /\ conns[c].pc # "free"
    BY <1>6, CloseStep, StatsFound, ReleasedStats
  <2>2. trackers' \in [CT!Trackers -> [uuidMap : SUBSET Users, users : [Users -> Counts]]]
    BY <1>6, <2>1, CloseStep, ChangeStats DEF ConnType
  <2> QED BY <1>1, <1>6, <2>2, CloseStep
<1>7. ASSUME NEW m \in UserMaps, CT!SetUserMap(m)
      PROVE  ConnType'
  BY <1>7, UserMapChanges DEF ConnType
<1>8. ASSUME NEW m \in UserMaps, CT!Start(m)
      PROVE  ConnType'
  <2>1. CT!NoGlobal \in [fresh : BOOLEAN, ips : [Users -> SUBSET Addresses]]
    BY DEF CT!NoGlobal
  <2>2. \A c \in Conns : conns[c].tracker \in CT!Trackers /\ conns[c].tracker <= current
    BY DEF ConnType, ConnRecords
  <2>3. \A c \in Conns : conns[c].tracker <= current + 1
    BY <2>2 DEF ConnType, CT!Trackers
  <2> QED BY <1>8, <2>1, <2>3, StartChanges DEF ConnType
<1>9. ASSUME NEW u \in Users, NEW s \in SUBSET Addresses, CT!UpdateGlobalDevices(u, s)
      PROVE  ConnType'
  BY <1>9 DEF CT!UpdateGlobalDevices, ConnType
<1>10. CASE CT!ClearGlobalDevices
  <2>1. CT!NoGlobal \in [fresh : BOOLEAN, ips : [Users -> SUBSET Addresses]]
    BY DEF CT!NoGlobal
  <2> QED BY <1>10, <2>1 DEF CT!ClearGlobalDevices, ConnType
<1>11. CASE CT!Track
  BY <1>11, TrackStep DEF ConnType
<1>12. CASE UNCHANGED CT!connVars
  BY <1>12 DEF CT!connVars, ConnType
<1> QED BY <1>2, <1>3, <1>4, <1>5, <1>6, <1>7, <1>8, <1>9, <1>10, <1>11, <1>12 DEF CT!Next

-----------------------------------------------------------------------------
(* Nobody is charged twice                                                 *)

\* What was metered of a user and what the next tick would add.
MeterInv ==
  \A u \in Users : LET b == trackers[current].users[u].bytes IN
    /\ metered[u] + CT!Delta(b, lastSeen[u]) <= carried[u]
    /\ current = 1 => lastSeen[u] <= b /\ metered[u] + (b - lastSeen[u]) = carried[u]

\* The counters of a user are numbers.
LEMMA MeterTypes ==
  ASSUME ConnType, NEW u \in Users
  PROVE  /\ \A t \in CT!Trackers : trackers[t].users[u].bytes \in Nat
         /\ lastSeen[u] \in Nat /\ metered[u] \in Nat /\ carried[u] \in Nat
         /\ current \in CT!Trackers /\ current \in Nat
<1>1. \A t \in CT!Trackers : trackers[t].users[u] \in Counts
  BY DEF ConnType
<1>2. \A t \in CT!Trackers : trackers[t].users[u].bytes \in Nat
  BY <1>1 DEF Counts
<1>3. lastSeen[u] \in Nat /\ metered[u] \in Nat /\ carried[u] \in Nat /\ current \in CT!Trackers
  BY DEF ConnType
<1> QED BY <1>2, <1>3 DEF CT!Trackers

\* As long as no counter, nor the tracker in use, changes.
LEMMA MeterSame ==
  ASSUME ConnType, MeterInv, UNCHANGED <<current, lastSeen, metered, carried>>,
         \A t \in CT!Trackers, u \in Users : trackers'[t].users[u].bytes = trackers[t].users[u].bytes
  PROVE  MeterInv'
BY DEF MeterInv, ConnType

\* A connection whose stats change keeps its bytes.
LEMMA ChangeKeepsBytes ==
  ASSUME CT!ConnTrackerAssumption, ConnType, NEW c \in Conns, conns[c].pc # "free", NEW s \in Counts,
         trackers' = CT!Change(c, s), s.bytes = CT!StatsOf(c).bytes
  PROVE  \A t \in CT!Trackers, u \in Users : trackers'[t].users[u].bytes = trackers[t].users[u].bytes
BY ChangeStats, StatsFound

\* Nothing is metered at first.
LEMMA MeterInit == CT!ConnTrackerAssumption /\ CT!Init => MeterInv
<1> SUFFICES ASSUME CT!ConnTrackerAssumption, CT!Init PROVE MeterInv
  OBVIOUS
<1>1. PICK m \in UserMaps : trackers = [t \in CT!Trackers |-> CT!FreshTracker(IF t = 1 THEN m ELSE {})]
  BY DEF CT!Init
<1>2. m \in SUBSET Users /\ current = 1 /\ current \in CT!Trackers
  BY DEF CT!Init, CT!ConnTrackerAssumption, CT!Trackers
<1>3. trackers[1] = CT!FreshTracker(m)
  BY <1>1, <1>2
<1>4. \A u \in Users : trackers[current].users[u].bytes = 0
  BY <1>2, <1>3, FreshStats
<1>5. \A u \in Users : lastSeen[u] = 0 /\ metered[u] = 0 /\ carried[u] = 0
  BY DEF CT!Init
<1> QED BY <1>2, <1>4, <1>5 DEF MeterInv, CT!Delta

\* Bytes of a connection of the tracker in use wait for the next tick; those of an
\* older one are never metered.
LEMMA MeterTransfers ==
  ASSUME CT!ConnTrackerAssumption, ConnType, MeterInv, NEW c \in Conns, CT!Transfer(c)
  PROVE  MeterInv'
<1> DEFINE w == conns[c].user
           k == conns[c].tracker
<1>1. k \in CT!Trackers /\ w \in Users /\ k <= current /\ CT!StatsOf(c) = trackers[k].users[w] /\ conns[c].pc # "free"
  BY TransferStep, StatsFound DEF ConnType
<1>2. \A t \in CT!Trackers, u \in Users : trackers'[t].users[u].bytes =
        IF t = k /\ u = w THEN trackers[t].users[u].bytes + 1 ELSE trackers[t].users[u].bytes
  <2> DEFINE s == [CT!StatsOf(c) EXCEPT !.bytes = @ + 1]
  <2>1. s \in Counts /\ s.bytes = CT!StatsOf(c).bytes + 1 /\ trackers' = CT!Change(c, s)
    BY <1>1, TransferStep, StatsFound, TransferStats
  <2> HIDE DEF s
  <2>2. \A t \in CT!Trackers, u \in Users :
          trackers'[t].users[u] = IF t = k /\ u = w THEN s ELSE trackers[t].users[u]
    BY <1>1, <2>1, ChangeStats
  <2> QED BY <1>1, <2>1, <2>2
<1>3. \A u \in Users : carried'[u] = IF u = w THEN carried[u] + 1 ELSE carried[u]
  BY TransferStep
<1>4. UNCHANGED <<current, conns, global, lastSeen, metered>>
  BY TransferStep
<1> HIDE DEF w, k
<1> SUFFICES ASSUME NEW u \in Users
             PROVE  LET b == trackers'[current].users[u].bytes IN
                      /\ metered[u] + CT!Delta(b, lastSeen[u]) <= carried'[u]
                      /\ current = 1 => lastSeen[u] <= b /\ metered[u] + (b - lastSeen[u]) = carried'[u]
  BY <1>4 DEF MeterInv
<1> DEFINE b == trackers[current].users[u].bytes
           b1 == trackers'[current].users[u].bytes
<1>5. /\ b \in Nat /\ lastSeen[u] \in Nat /\ metered[u] \in Nat /\ carried[u] \in Nat
      /\ current \in CT!Trackers /\ current \in Nat
  BY MeterTypes
<1>6. /\ metered[u] + CT!Delta(b, lastSeen[u]) <= carried[u]
      /\ current = 1 => lastSeen[u] <= b /\ metered[u] + (b - lastSeen[u]) = carried[u]
  BY DEF MeterInv
<1>7. b1 = IF current = k /\ u = w THEN b + 1 ELSE b
  BY <1>2, <1>5
<1>8. current = 1 => current = k
  BY <1>1, <1>5 DEF CT!Trackers
<1> HIDE DEF b, b1
<1>9. CT!Delta(b, lastSeen[u]) \in Nat /\ CT!Delta(b + 1, lastSeen[u]) <= CT!Delta(b, lastSeen[u]) + 1
        /\ CT!Delta(b + 1, lastSeen[u]) \in Nat
  <2>1. b + 1 \in Nat
    BY <1>5
  <2> QED BY <1>5, <2>1, DeltaCounts
<1>10. CASE u = w /\ current = k
  BY <1>3, <1>5, <1>6, <1>7, <1>9, <1>10 DEF b1
<1>11. CASE u = w /\ current # k
  BY <1>3, <1>5, <1>6, <1>7, <1>8, <1>9, <1>11 DEF b1
<1>12. CASE u # w
  BY <1>3, <1>5, <1>6, <1>7, <1>9, <1>12 DEF b1
<1> QED BY <1>10, <1>11, <1>12

\* A restart forgets what the old tracker had not metered yet.
LEMMA MeterStarts ==
  ASSUME CT!ConnTrackerAssumption, ConnType, MeterInv, NEW m \in UserMaps, CT!Start(m)
  PROVE  MeterInv'
<1> SUFFICES ASSUME NEW u \in Users
             PROVE  /\ metered[u] + CT!Delta(0, lastSeen[u]) <= carried[u]
                    /\ trackers'[current'].users[u].bytes = 0 /\ current' # 1
  BY StartChanges DEF MeterInv
<1>1. trackers'[current'].users[u].bytes = 0
  BY StartChanges, FreshStats
<1>2. current' # 1
  BY StartChanges DEF ConnType, CT!Trackers
<1>3. /\ metered[u] + CT!Delta(trackers[current].users[u].bytes, lastSeen[u]) <= carried[u]
      /\ CT!Delta(trackers[current].users[u].bytes, lastSeen[u]) \in Nat
      /\ CT!Delta(0, lastSeen[u]) = 0 /\ metered[u] \in Nat /\ carried[u] \in Nat
  BY MeterTypes, DeltaCounts DEF MeterInv
<1> QED BY <1>1, <1>2, <1>3

\* A tick meters what it adds.
LEMMA MeterTracks ==
  ASSUME ConnType, MeterInv, CT!Track
  PROVE  MeterInv'
<1> SUFFICES ASSUME NEW u \in Users
             PROVE  LET b == trackers[current].users[u].bytes IN
                      /\ metered'[u] + CT!Delta(b, lastSeen'[u]) <= carried[u]
                      /\ current = 1 => lastSeen'[u] <= b /\ metered'[u] + (b - lastSeen'[u]) = carried[u]
  BY TrackStep DEF MeterInv
<1> DEFINE b == trackers[current].users[u].bytes
<1>1. /\ b \in Nat /\ lastSeen[u] \in Nat /\ metered[u] \in Nat /\ carried[u] \in Nat
      /\ metered'[u] \in Nat /\ lastSeen'[u] \in Nat
  BY MeterTypes, TrackStep
<1>2. /\ metered[u] + CT!Delta(b, lastSeen[u]) <= carried[u]
      /\ current = 1 => lastSeen[u] <= b /\ metered[u] + (b - lastSeen[u]) = carried[u]
  BY DEF MeterInv
<1>3. /\ metered'[u] = metered[u] + CT!Delta(b, lastSeen[u])
      /\ lastSeen'[u] = b \/ (b = 0 /\ lastSeen'[u] = lastSeen[u])
  BY TrackStep
<1> HIDE DEF b
<1>4. CT!Delta(b, lastSeen'[u]) = 0
  BY <1>1, <1>3, DeltaCounts
<1>5. current = 1 => CT!Delta(b, lastSeen[u]) = b - lastSeen[u]
  BY <1>1, <1>2, DeltaCounts
<1>6. metered'[u] + CT!Delta(b, lastSeen'[u]) <= carried[u]
  BY <1>1, <1>2, <1>3, <1>4
<1>7. current = 1 => lastSeen'[u] <= b /\ metered'[u] + (b - lastSeen'[u]) = carried[u]
  BY <1>1, <1>2, <1>3, <1>5
<1> QED BY <1>6, <1>7 DEF b

\* Every step keeps the bound.
LEMMA MeterNext ==
  CT!ConnTrackerAssumption /\ ConnType /\ MeterInv /\ [CT!Next]_(CT!connVars) => MeterInv'
<1> SUFFICES ASSUME CT!ConnTrackerAssumption, ConnType, MeterInv, [CT!Next]_(CT!connVars) PROVE MeterInv'
  OBVIOUS
<1>0. UNCHANGED <<current, trackers, lastSeen, metered, carried>> => MeterInv'
  BY DEF MeterInv
<1>1. ASSUME NEW c \in Conns, NEW u \in Users, NEW a \in Addresses, CT!Route(c, u, a)
      PROVE  MeterInv'
  BY <1>0, <1>1 DEF CT!Route
<1>2. ASSUME NEW c \in Conns, CT!Gate(c)
      PROVE  MeterInv'
  BY <1>0, <1>2 DEF CT!Gate
<1>3. ASSUME NEW c \in Conns, CT!Register(c)
      PROVE  MeterInv'
  <2> DEFINE s == [CT!StatsOf(c) EXCEPT !.ips[conns[c].ip] = @ + 1, !.connCount = @ + 1]
  <2>1. conns[c].pc # "free" /\ trackers' = CT!Change(c, s) /\ UNCHANGED <<current, lastSeen, metered, carried>>
    BY <1>3 DEF CT!Register
  <2>2. s \in Counts /\ s.bytes = CT!StatsOf(c).bytes
    BY <2>1, StatsFound, RegisterStats
  <2> HIDE DEF s
  <2> QED BY <2>1, <2>2, ChangeKeepsBytes, MeterSame
<1>4. ASSUME NEW c \in Conns, CT!Transfer(c)
      PROVE  MeterInv'
  BY <1>4, MeterTransfers
<1>5. ASSUME NEW c \in Conns, CT!Close(c)
      PROVE  MeterInv'
  <2>1. conns[c].pc # "free" /\ UNCHANGED <<current, lastSeen, metered, carried>>
    BY <1>5, CloseStep
  <2>2. CT!Released(CT!StatsOf(c), conns[c].ip) \in Counts
          /\ CT!Released(CT!StatsOf(c), conns[c].ip).bytes = CT!StatsOf(c).bytes
    BY <2>1, StatsFound, ReleasedStats
  <2>3. CASE conns[c].pc = "open"
    BY <1>5, <2>1, <2>2, <2>3, CloseStep, ChangeKeepsBytes, MeterSame
  <2>4. CASE conns[c].pc # "open"
    BY <1>0, <1>5, <2>1, <2>4, CloseStep
  <2> QED BY <2>3, <2>4
<1>6. ASSUME NEW m \in UserMaps, CT!SetUserMap(m)
      PROVE  MeterInv'
  BY <1>6, UserMapChanges, MeterSame
<1>7. ASSUME NEW m \in UserMaps, CT!Start(m)
      PROVE  MeterInv'
  BY <1>7, MeterStarts
<1>8. ASSUME NEW u \in Users, NEW s \in SUBSET Addresses, CT!UpdateGlobalDevices(u, s)
      PROVE  MeterInv'
  BY <1>0, <1>8 DEF CT!UpdateGlobalDevices
<1>9. CASE CT!ClearGlobalDevices
  BY <1>0, <1>9 DEF CT!ClearGlobalDevices
<1>10. CASE CT!Track
  BY <1>10, MeterTracks
<1>11. CASE UNCHANGED CT!connVars
  BY <1>0, <1>11 DEF CT!connVars
<1> QED BY <1>1, <1>2, <1>3, <1>4, <1>5, <1>6, <1>7, <1>8, <1>9, <1>10, <1>11 DEF CT!Next

\* MeteredOnce: nobody is charged for more than he transferred, whatever restarts the
\* kernel goes through; without one everything is metered in the end.
THEOREM NobodyPaysTwice == CT!Spec => []MeteredOnce
<1>1. CT!Init => ConnType /\ MeterInv
  BY PartsAssumption, ConnInitType, MeterInit
<1>2. ConnType /\ MeterInv /\ [CT!Next]_(CT!connVars) => ConnType' /\ MeterInv'
  BY PartsAssumption, ConnNextType, MeterNext
<1>3. ConnType /\ MeterInv => MeteredOnce
  <2> SUFFICES ASSUME ConnType, MeterInv, NEW u \in Users
               PROVE  /\ metered[u] <= carried[u]
                      /\ current = 1 => metered[u] + (trackers[1].users[u].bytes - lastSeen[u]) = carried[u]
    BY DEF MeteredOnce, CT!MeteredOnce
  <2>1. /\ CT!Delta(trackers[current].users[u].bytes, lastSeen[u]) \in Nat
        /\ metered[u] \in Nat /\ carried[u] \in Nat
        /\ metered[u] + CT!Delta(trackers[current].users[u].bytes, lastSeen[u]) <= carried[u]
    BY MeterTypes, DeltaCounts DEF MeterInv
  <2> QED BY <2>1 DEF MeterInv
<1> QED BY <1>1, <1>2, <1>3, PTL DEF CT!Spec

-----------------------------------------------------------------------------
(* The presence of users                                                   *)

\* The module counts with operators of its own instance.
LEMMA SameCount == \A S : CT!Cardinality(S) = Cardinality(S) /\ CT!IsFiniteSet(S) = IsFiniteSet(S)
BY DEF CT!Cardinality, Cardinality, CT!IsFiniteSet, IsFiniteSet

At(t, u, a) == {c \in CT!Serving(t, u) : conns[c].ip = a}

\* What a counter of the tracker says of a user, and the connections.
CountsOf(t, u) ==
  /\ trackers[t].users[u].connCount = Cardinality(CT!Serving(t, u))
  /\ \A a \in Addresses : trackers[t].users[u].ips[a] = Cardinality(At(t, u, a))

\* Users who may be admitted, or are about to be, have their stats.
PresInv ==
  /\ \A t \in CT!Trackers, u \in Users : CountsOf(t, u)
  /\ \A t \in CT!Trackers, u \in Users : u \in trackers[t].uuidMap => trackers[t].users[u].there
  /\ \A c \in Conns : conns[c].pc \in {"gate", "admitted", "open"} =>
       trackers[conns[c].tracker].users[conns[c].user].there

\* A set of connections with one more and one less.
LEMMA CountOne ==
  ASSUME IsFiniteSet(Conns), NEW S \in SUBSET Conns, NEW c \in Conns
  PROVE  /\ Cardinality(S) \in Nat
         /\ c \notin S => Cardinality(S \cup {c}) = Cardinality(S) + 1
         /\ c \in S => Cardinality(S \ {c}) = Cardinality(S) - 1
<1>1. IsFiniteSet(S)
  BY FS_Subset
<1> QED BY <1>1, FS_AddElement, FS_RemoveElement, FS_CardinalityType

\* The connections that are open stay so.
LEMMA CountsSame ==
  ASSUME NEW t, NEW u, CountsOf(t, u),
         trackers'[t].users[u].connCount = trackers[t].users[u].connCount,
         trackers'[t].users[u].ips = trackers[t].users[u].ips,
         CT!Serving(t, u)' = CT!Serving(t, u),
         \A c \in CT!Serving(t, u) : conns'[c].ip = conns[c].ip
  PROVE  CountsOf(t, u)'
<1>1. \A a \in Addresses : At(t, u, a)' = At(t, u, a)
  BY DEF At
<1> QED BY <1>1 DEF CountsOf

\* A step of a connection that is not open, and does not become so.
LEMMA NobodyServes ==
  ASSUME ConnType, PresInv, NEW c \in Conns, NEW r, StepOf(c, r), conns[c].pc # "open", r.pc # "open",
         trackers' = trackers,
         r.pc \in {"gate", "admitted"} => trackers[r.tracker].users[r.user].there
  PROVE  PresInv'
<1>1. conns'[c] = r /\ \A d \in Conns : d # c => conns'[d] = conns[d]
  BY DEF StepOf, ConnType
<1>2. \A t \in CT!Trackers, u \in Users : CT!Serving(t, u)' = CT!Serving(t, u)
  BY <1>1 DEF CT!Serving
<1>3. \A t \in CT!Trackers, u \in Users : \A d \in CT!Serving(t, u) : conns'[d].ip = conns[d].ip
  BY <1>1 DEF CT!Serving
<1>4. \A t \in CT!Trackers, u \in Users : CountsOf(t, u)'
  <2> TAKE t \in CT!Trackers, u \in Users
  <2>1. CountsOf(t, u)
    BY DEF PresInv
  <2> QED BY <1>2, <1>3, <2>1, CountsSame
<1>5. \A d \in Conns : conns'[d].pc \in {"gate", "admitted", "open"} =>
        trackers'[conns'[d].tracker].users[conns'[d].user].there
  BY <1>1 DEF PresInv
<1> QED BY <1>4, <1>5 DEF PresInv

\* A registered connection is one more of its user and address.
LEMMA PresRegisters ==
  ASSUME CT!ConnTrackerAssumption, ConnType, PresInv, NEW c \in Conns, CT!Register(c)
  PROVE  PresInv'
<1> DEFINE k == conns[c].tracker
           w == conns[c].user
           i == conns[c].ip
           s == [CT!StatsOf(c) EXCEPT !.ips[conns[c].ip] = @ + 1, !.connCount = @ + 1]
<1>1. PICK r : /\ StepOf(c, r) /\ conns[c].pc = "admitted" /\ r.pc = "open"
               /\ r.tracker = k /\ r.user = w /\ r.ip = i /\ trackers' = CT!Change(c, s)
  BY RegisterStep
<1>2. /\ k \in CT!Trackers /\ w \in Users /\ i \in Addresses /\ CT!StatsOf(c) = trackers[k].users[w]
      /\ trackers[k].users[w] \in Counts
  BY <1>1, StatsFound
<1>3. /\ s \in Counts /\ s.connCount = trackers[k].users[w].connCount + 1 /\ s.there = trackers[k].users[w].there
      /\ \A a \in Addresses : s.ips[a] = IF a = i THEN trackers[k].users[w].ips[a] + 1 ELSE trackers[k].users[w].ips[a]
  <2> DEFINE o == CT!StatsOf(c)
  <2>1. o \in Counts /\ o = trackers[k].users[w] /\ conns[c].ip \in Addresses
    BY <1>2
  <2> HIDE DEF o, k, w
  <2> DEFINE x == [o EXCEPT !.ips[conns[c].ip] = @ + 1, !.connCount = @ + 1]
  <2>2. /\ x \in Counts /\ x.connCount = o.connCount + 1 /\ x.there = o.there
        /\ \A a \in Addresses : x.ips[a] = IF a = conns[c].ip THEN o.ips[a] + 1 ELSE o.ips[a]
    BY <2>1, RegisterStats
  <2>3. s = x
    BY DEF o
  <2> HIDE DEF x, s
  <2> QED BY <2>1, <2>2, <2>3 DEF i
<1> HIDE DEF s
<1>4. /\ \A t \in CT!Trackers : trackers'[t].uuidMap = trackers[t].uuidMap
      /\ \A t \in CT!Trackers, u \in Users :
           trackers'[t].users[u] = IF t = k /\ u = w THEN s ELSE trackers[t].users[u]
  BY <1>1, <1>3, ChangeStats
<1>5. conns'[c] = r /\ \A d \in Conns : d # c => conns'[d] = conns[d]
  BY <1>1 DEF StepOf, ConnType
<1> HIDE DEF k, w, i
<1>6. \A t \in CT!Trackers, u \in Users :
        /\ CT!Serving(t, u)' = IF t = k /\ u = w THEN CT!Serving(t, u) \cup {c} ELSE CT!Serving(t, u)
        /\ c \notin CT!Serving(t, u) /\ CT!Serving(t, u) \in SUBSET Conns
  BY <1>1, <1>5 DEF CT!Serving
<1>7. \A t \in CT!Trackers, u \in Users : CountsOf(t, u)'
  <2> TAKE t \in CT!Trackers, u \in Users
  <2>1. CountsOf(t, u)
    BY DEF PresInv
  <2>2. \A d \in CT!Serving(t, u) : conns'[d].ip = conns[d].ip
    BY <1>5, <1>6
  <2>3. CASE ~(t = k /\ u = w)
    BY <1>4, <1>6, <2>1, <2>2, <2>3, CountsSame
  <2>4. CASE t = k /\ u = w
    <3>1. \A a \in Addresses : At(t, u, a)' = IF a = i THEN At(t, u, a) \cup {c} ELSE At(t, u, a)
      BY <1>1, <1>5, <1>6, <2>2, <2>4 DEF At
    <3>2. \A a \in Addresses : c \notin At(t, u, a) /\ At(t, u, a) \in SUBSET Conns
      BY <1>6 DEF At
    <3>3. IsFiniteSet(Conns)
      BY SameCount DEF CT!ConnTrackerAssumption
    <3>4. \A a \in Addresses : Cardinality(At(t, u, a)') = IF a = i THEN Cardinality(At(t, u, a)) + 1 ELSE Cardinality(At(t, u, a))
      BY <3>1, <3>2, <3>3, CountOne
    <3>5. Cardinality(CT!Serving(t, u)') = Cardinality(CT!Serving(t, u)) + 1
      BY <1>6, <2>4, <3>3, CountOne
    <3>6. trackers'[t].users[u] = s /\ trackers[t].users[u] = trackers[k].users[w]
      BY <1>4, <2>4
    <3>7. trackers'[t].users[u].connCount = Cardinality(CT!Serving(t, u)')
      BY <1>3, <2>1, <3>5, <3>6 DEF CountsOf
    <3>8. \A a \in Addresses : trackers'[t].users[u].ips[a] = Cardinality(At(t, u, a)')
      BY <1>3, <2>1, <3>4, <3>6 DEF CountsOf
    <3> QED BY <3>7, <3>8 DEF CountsOf
  <2> QED BY <2>3, <2>4
<1>8. \A t \in CT!Trackers, u \in Users : trackers'[t].users[u].there = trackers[t].users[u].there
  BY <1>3, <1>4
<1>9. \A d \in Conns : conns'[d].pc \in {"gate", "admitted", "open"} =>
        trackers'[conns'[d].tracker].users[conns'[d].user].there
  <2> TAKE d \in Conns
  <2>1. CASE d = c
    <3>1. trackers[k].users[w].there
      BY <1>1 DEF PresInv, k, w
    <3> QED BY <1>1, <1>2, <1>5, <1>8, <2>1, <3>1
  <2>2. CASE d # c
    <3> SUFFICES ASSUME conns[d].pc \in {"gate", "admitted", "open"}
                 PROVE  trackers'[conns[d].tracker].users[conns[d].user].there
      BY <1>5, <2>2
    <3>1. trackers[conns[d].tracker].users[conns[d].user].there
      BY DEF PresInv
    <3>2. conns[d].tracker \in CT!Trackers /\ conns[d].user \in Users
      BY StatsFound
    <3> QED BY <1>8, <3>1, <3>2
  <2> QED BY <2>1, <2>2
<1> QED BY <1>4, <1>7, <1>8, <1>9 DEF PresInv

\* A closed one is one less.
LEMMA PresCloses ==
  ASSUME CT!ConnTrackerAssumption, ConnType, PresInv, NEW c \in Conns, CT!Close(c), conns[c].pc = "open"
  PROVE  PresInv'
<1> DEFINE k == conns[c].tracker
           w == conns[c].user
           i == conns[c].ip
           s == CT!Released(CT!StatsOf(c), i)
<1>1. StepOf(c, CT!NoConn) /\ trackers' = CT!Change(c, s) /\ CT!NoConn.pc = "free"
  BY CloseStep, NoConnType
<1>2. /\ k \in CT!Trackers /\ w \in Users /\ i \in Addresses /\ CT!StatsOf(c) = trackers[k].users[w]
      /\ trackers[k].users[w] \in Counts
  BY StatsFound
<1>3. /\ s \in Counts /\ s.connCount = trackers[k].users[w].connCount - 1 /\ s.there = trackers[k].users[w].there
      /\ \A a \in Addresses : s.ips[a] = IF a = i THEN trackers[k].users[w].ips[a] - 1 ELSE trackers[k].users[w].ips[a]
  BY <1>2, ReleasedStats
<1> HIDE DEF s
<1>4. /\ \A t \in CT!Trackers : trackers'[t].uuidMap = trackers[t].uuidMap
      /\ \A t \in CT!Trackers, u \in Users :
           trackers'[t].users[u] = IF t = k /\ u = w THEN s ELSE trackers[t].users[u]
  BY <1>1, <1>3, ChangeStats
<1>5. conns'[c].pc = "free" /\ \A d \in Conns : d # c => conns'[d] = conns[d]
  BY <1>1 DEF StepOf, ConnType
<1>6. c \in CT!Serving(k, w) /\ conns[c].ip = i
  BY DEF CT!Serving
<1>7. \A t, u : c \in CT!Serving(t, u) => t = k /\ u = w
  BY DEF CT!Serving
<1> HIDE DEF k, w, i
<1>8. \A t \in CT!Trackers, u \in Users :
        /\ CT!Serving(t, u)' = IF t = k /\ u = w THEN CT!Serving(t, u) \ {c} ELSE CT!Serving(t, u)
        /\ CT!Serving(t, u) \in SUBSET Conns
  <2> TAKE t \in CT!Trackers, u \in Users
  <2>1. CT!Serving(t, u)' = CT!Serving(t, u) \ {c}
    BY <1>5 DEF CT!Serving
  <2> QED BY <1>7, <2>1 DEF CT!Serving
<1>9. \A t \in CT!Trackers, u \in Users : CountsOf(t, u)'
  <2> TAKE t \in CT!Trackers, u \in Users
  <2>1. CountsOf(t, u)
    BY DEF PresInv
  <2>2. \A d \in CT!Serving(t, u) : d # c => conns'[d].ip = conns[d].ip
    BY <1>5, <1>8
  <2>3. CASE ~(t = k /\ u = w)
    BY <1>4, <1>7, <1>8, <2>1, <2>2, <2>3, CountsSame
  <2>4. CASE t = k /\ u = w
    <3>1. \A a \in Addresses : At(t, u, a)' = IF a = i THEN At(t, u, a) \ {c} ELSE At(t, u, a)
      BY <1>5, <1>6, <1>8, <2>2, <2>4 DEF At
    <3>2. \A a \in Addresses : At(t, u, a) \in SUBSET Conns /\ (a = i => c \in At(t, u, a))
      BY <1>6, <1>8, <2>4 DEF At
    <3>3. IsFiniteSet(Conns)
      BY SameCount DEF CT!ConnTrackerAssumption
    <3>4. \A a \in Addresses : Cardinality(At(t, u, a)') = IF a = i THEN Cardinality(At(t, u, a)) - 1 ELSE Cardinality(At(t, u, a))
      BY <3>1, <3>2, <3>3, CountOne
    <3>5. Cardinality(CT!Serving(t, u)') = Cardinality(CT!Serving(t, u)) - 1
      BY <1>6, <1>8, <2>4, <3>3, CountOne
    <3>6. trackers'[t].users[u] = s /\ trackers[t].users[u] = trackers[k].users[w]
      BY <1>4, <2>4
    <3>7. trackers'[t].users[u].connCount = Cardinality(CT!Serving(t, u)')
      BY <1>3, <2>1, <3>5, <3>6 DEF CountsOf
    <3>8. \A a \in Addresses : trackers'[t].users[u].ips[a] = Cardinality(At(t, u, a)')
      BY <1>3, <2>1, <3>4, <3>6 DEF CountsOf
    <3> QED BY <3>7, <3>8 DEF CountsOf
  <2> QED BY <2>3, <2>4
<1>10. \A t \in CT!Trackers, u \in Users : trackers'[t].users[u].there = trackers[t].users[u].there
  BY <1>3, <1>4
<1>11. \A d \in Conns : conns'[d].pc \in {"gate", "admitted", "open"} =>
         trackers'[conns'[d].tracker].users[conns'[d].user].there
  <2> SUFFICES ASSUME NEW d \in Conns, conns'[d].pc \in {"gate", "admitted", "open"}
               PROVE  trackers'[conns'[d].tracker].users[conns'[d].user].there
    OBVIOUS
  <2>1. conns'[d] = conns[d]
    BY <1>5
  <2>2. conns[d].tracker \in CT!Trackers /\ conns[d].user \in Users
    BY <2>1, StatsFound
  <2> QED BY <1>10, <2>1, <2>2 DEF PresInv
<1> QED BY <1>4, <1>9, <1>10, <1>11 DEF PresInv

\* A new tracker counts nobody, and nobody is routed through it yet.
LEMMA PresStarts ==
  ASSUME CT!ConnTrackerAssumption, ConnType, PresInv, NEW m \in UserMaps, CT!Start(m)
  PROVE  PresInv'
<1>1. /\ conns' = conns /\ current' \in CT!Trackers /\ m \in SUBSET Users
      /\ \A t \in CT!Trackers : t # current' => trackers'[t] = trackers[t]
      /\ trackers'[current'] = CT!FreshTracker(m)
  BY StartChanges
<1>2. \A c \in Conns : conns[c].tracker # current'
  <2>1. current' = current + 1 /\ current \in Nat
    BY StartChanges DEF ConnType, CT!Trackers
  <2>2. \A c \in Conns : conns[c].tracker <= current
    BY DEF ConnType
  <2>3. \A c \in Conns : conns[c].tracker \in Nat
    BY DEF ConnType, ConnRecords, CT!Trackers
  <2> QED BY <2>1, <2>2, <2>3
<1>3. \A t, u : CT!Serving(t, u)' = CT!Serving(t, u)
  BY <1>1 DEF CT!Serving
<1>4. \A u, a : CT!Serving(current', u) = {} /\ At(current', u, a) = {}
  BY <1>2 DEF CT!Serving, At
<1>5. \A t \in CT!Trackers, u \in Users : CountsOf(t, u)'
  <2> TAKE t \in CT!Trackers, u \in Users
  <2>1. CountsOf(t, u)
    BY DEF PresInv
  <2>2. CASE t = current'
    <3>1. trackers'[t].users[u].connCount = 0 /\ \A a \in Addresses : trackers'[t].users[u].ips[a] = 0
      BY <1>1, <2>2, FreshStats
    <3>2. \A a : At(t, u, a)' = At(t, u, a)
      BY <1>1, <1>3 DEF At
    <3> QED BY <1>3, <1>4, <2>2, <3>1, <3>2, FS_EmptySet DEF CountsOf
  <2>3. CASE t # current'
    BY <1>1, <1>3, <2>1, <2>3, CountsSame
  <2> QED BY <2>2, <2>3
<1>6. \A t \in CT!Trackers, u \in Users : u \in trackers'[t].uuidMap => trackers'[t].users[u].there
  <2> TAKE t \in CT!Trackers, u \in Users
  <2>1. CASE t = current'
    BY <1>1, <2>1, FreshStats
  <2>2. CASE t # current'
    BY <1>1, <2>2 DEF PresInv
  <2> QED BY <2>1, <2>2
<1>7. \A c \in Conns : conns[c].pc \in {"gate", "admitted", "open"} =>
        trackers'[conns[c].tracker].users[conns[c].user].there
  BY <1>1, <1>2, StatsFound DEF PresInv
<1> QED BY <1>1, <1>5, <1>6, <1>7 DEF PresInv

\* No connection, no presence.
LEMMA PresInit == CT!ConnTrackerAssumption /\ CT!Init => PresInv
<1> SUFFICES ASSUME CT!ConnTrackerAssumption, CT!Init PROVE PresInv
  OBVIOUS
<1>1. PICK m \in UserMaps : trackers = [t \in CT!Trackers |-> CT!FreshTracker(IF t = 1 THEN m ELSE {})]
  BY DEF CT!Init
<1>2. m \in SUBSET Users /\ {} \in SUBSET Users
  BY DEF CT!ConnTrackerAssumption
<1>3. \A t \in CT!Trackers, u \in Users :
        /\ trackers[t].users[u].connCount = 0 /\ (u \in trackers[t].uuidMap => trackers[t].users[u].there)
        /\ \A a \in Addresses : trackers[t].users[u].ips[a] = 0
  <2> TAKE t \in CT!Trackers, u \in Users
  <2>1. PICK n \in SUBSET Users : trackers[t] = CT!FreshTracker(n)
    BY <1>1, <1>2
  <2> QED BY <2>1, FreshStats
<1>4. \A c \in Conns : conns[c].pc = "free"
  BY NoConnType DEF CT!Init
<1>5. \A t, u, a : CT!Serving(t, u) = {} /\ At(t, u, a) = {}
  BY <1>4 DEF CT!Serving, At
<1>6. \A t \in CT!Trackers, u \in Users : CountsOf(t, u)
  BY <1>3, <1>5, FS_EmptySet DEF CountsOf
<1> QED BY <1>3, <1>4, <1>6 DEF PresInv

\* Every step keeps the counts.
LEMMA PresNext ==
  CT!ConnTrackerAssumption /\ ConnType /\ PresInv /\ [CT!Next]_(CT!connVars) => PresInv'
<1> SUFFICES ASSUME CT!ConnTrackerAssumption, ConnType, PresInv, [CT!Next]_(CT!connVars) PROVE PresInv'
  OBVIOUS
<1>0. conns' = conns /\ trackers' = trackers => PresInv'
  <2> HAVE conns' = conns /\ trackers' = trackers
  <2>1. \A t, u : CountsOf(t, u)' = CountsOf(t, u)
    BY DEF CountsOf, At, CT!Serving
  <2> QED BY <2>1 DEF PresInv
<1>1. ASSUME NEW c \in Conns, NEW u \in Users, NEW a \in Addresses, CT!Route(c, u, a)
      PROVE  PresInv'
  <2>1. PICK r : /\ StepOf(c, r) /\ conns[c].pc = "free" /\ r.tracker = current /\ r.user = u
                 /\ (r.pc = "gate" /\ u \in trackers[current].uuidMap) \/ r.pc = "untracked"
                 /\ trackers' = trackers
    BY <1>1, RouteStep
  <2>2. r.pc \in {"gate", "admitted"} => trackers[r.tracker].users[r.user].there
    BY <2>1 DEF PresInv, ConnType
  <2> QED BY <2>1, <2>2, NobodyServes
<1>2. ASSUME NEW c \in Conns, CT!Gate(c)
      PROVE  PresInv'
  <2>1. PICK r : /\ StepOf(c, r) /\ conns[c].pc = "gate"
                 /\ (r.pc = "admitted" /\ r.tracker = conns[c].tracker /\ r.user = conns[c].user) \/ r = CT!NoConn
                 /\ trackers' = trackers
    BY <1>2, GateStep
  <2>2. r.pc \in {"gate", "admitted"} => trackers[r.tracker].users[r.user].there
    BY <2>1, NoConnType DEF PresInv
  <2> QED BY <2>1, <2>2, NobodyServes, NoConnType
<1>3. ASSUME NEW c \in Conns, CT!Register(c)
      PROVE  PresInv'
  BY <1>3, PresRegisters
<1>4. ASSUME NEW c \in Conns, CT!Transfer(c)
      PROVE  PresInv'
  <2> DEFINE s == [CT!StatsOf(c) EXCEPT !.bytes = @ + 1]
  <2>1. conns[c].pc = "open" /\ trackers' = CT!Change(c, s) /\ conns' = conns
    BY <1>4, TransferStep
  <2>2. s \in Counts /\ s.connCount = CT!StatsOf(c).connCount /\ s.ips = CT!StatsOf(c).ips /\ s.there = CT!StatsOf(c).there
    BY <2>1, StatsFound, TransferStats
  <2> HIDE DEF s
  <2>3. /\ \A t \in CT!Trackers : trackers'[t].uuidMap = trackers[t].uuidMap
        /\ \A t \in CT!Trackers, u \in Users :
             trackers'[t].users[u] = IF t = conns[c].tracker /\ u = conns[c].user THEN s ELSE trackers[t].users[u]
    BY <2>1, <2>2, ChangeStats
  <2>4. \A t \in CT!Trackers, u \in Users :
          /\ trackers'[t].users[u].connCount = trackers[t].users[u].connCount
          /\ trackers'[t].users[u].ips = trackers[t].users[u].ips
          /\ trackers'[t].users[u].there = trackers[t].users[u].there
    BY <2>1, <2>2, <2>3, StatsFound
  <2>5. \A t \in CT!Trackers, u \in Users : CountsOf(t, u)'
    <3>1. \A t, u : CT!Serving(t, u)' = CT!Serving(t, u)
      BY <2>1 DEF CT!Serving
    <3>2. \A t \in CT!Trackers, u \in Users : CountsOf(t, u)
      BY DEF PresInv
    <3> QED BY <2>1, <2>4, <3>1, <3>2, CountsSame
  <2> QED BY <2>1, <2>3, <2>4, <2>5, StatsFound DEF PresInv
<1>5. ASSUME NEW c \in Conns, CT!Close(c)
      PROVE  PresInv'
  <2>1. CASE conns[c].pc = "open"
    BY <1>5, <2>1, PresCloses
  <2>2. CASE conns[c].pc # "open"
    BY <1>5, <2>2, CloseStep, NoConnType, NobodyServes
  <2> QED BY <2>1, <2>2
<1>6. ASSUME NEW m \in UserMaps, CT!SetUserMap(m)
      PROVE  PresInv'
  <2>1. \A t \in CT!Trackers, u \in Users : CountsOf(t, u)'
    <3>1. \A t, u : CT!Serving(t, u)' = CT!Serving(t, u)
      BY <1>6, UserMapChanges DEF CT!Serving
    <3>2. \A t \in CT!Trackers, u \in Users : CountsOf(t, u)
      BY DEF PresInv
    <3>3. /\ conns' = conns
          /\ \A t \in CT!Trackers, u \in Users :
               /\ trackers'[t].users[u].connCount = trackers[t].users[u].connCount
               /\ trackers'[t].users[u].ips = trackers[t].users[u].ips
      BY <1>6, UserMapChanges
    <3> QED BY <3>1, <3>2, <3>3, CountsSame
  <2>2. \A t \in CT!Trackers, u \in Users : u \in trackers'[t].uuidMap => trackers'[t].users[u].there
    BY <1>6, UserMapChanges DEF PresInv
  <2>3. \A c \in Conns : conns'[c].pc \in {"gate", "admitted", "open"} =>
          trackers'[conns'[c].tracker].users[conns'[c].user].there
    <3> SUFFICES ASSUME NEW c \in Conns, conns'[c].pc \in {"gate", "admitted", "open"}
                 PROVE  trackers'[conns'[c].tracker].users[conns'[c].user].there
      OBVIOUS
    <3>1. conns' = conns
      BY <1>6, UserMapChanges
    <3>2. conns[c].tracker \in CT!Trackers /\ conns[c].user \in Users
      BY <3>1, StatsFound
    <3>3. trackers[conns[c].tracker].users[conns[c].user].there
      BY <3>1 DEF PresInv
    <3> QED BY <1>6, <3>1, <3>2, <3>3, UserMapChanges
  <2> QED BY <2>1, <2>2, <2>3 DEF PresInv
<1>7. ASSUME NEW m \in UserMaps, CT!Start(m)
      PROVE  PresInv'
  BY <1>7, PresStarts
<1>8. ASSUME NEW u \in Users, NEW s \in SUBSET Addresses, CT!UpdateGlobalDevices(u, s)
      PROVE  PresInv'
  BY <1>0, <1>8 DEF CT!UpdateGlobalDevices
<1>9. CASE CT!ClearGlobalDevices
  BY <1>0, <1>9 DEF CT!ClearGlobalDevices
<1>10. CASE CT!Track
  BY <1>0, <1>10 DEF CT!Track
<1>11. CASE UNCHANGED CT!connVars
  BY <1>0, <1>11 DEF CT!connVars
<1> QED BY <1>1, <1>2, <1>3, <1>4, <1>5, <1>6, <1>7, <1>8, <1>9, <1>10, <1>11 DEF CT!Next

\* PresenceIsExact: the counts the gate and the drain rely on are those of the open
\* connections, in the tracker in use and in those that were replaced.
THEOREM ConnectionsAreCounted == CT!Spec => []PresenceIsExact
<1>1. CT!Init => ConnType /\ PresInv
  BY PartsAssumption, ConnInitType, PresInit
<1>2. ConnType /\ PresInv /\ [CT!Next]_(CT!connVars) => ConnType' /\ PresInv'
  BY PartsAssumption, ConnNextType, PresNext
<1>3. ConnType /\ PresInv => PresenceIsExact
  <2> SUFFICES ASSUME ConnType, PresInv, NEW t \in CT!Trackers, NEW u \in Users
               PROVE  /\ trackers[t].users[u].connCount = Cardinality(CT!Serving(t, u))
                      /\ \A a \in Addresses : trackers[t].users[u].ips[a] =
                           Cardinality({c \in CT!Serving(t, u) : conns[c].ip = a})
                      /\ CT!Serving(t, u) # {} => trackers[t].users[u].there
    BY SameCount DEF PresenceIsExact, CT!PresenceIsExact
  <2>1. CountsOf(t, u)
    BY DEF PresInv
  <2>2. CT!Serving(t, u) # {} => trackers[t].users[u].there
    BY DEF PresInv, CT!Serving
  <2> QED BY <2>1, <2>2 DEF CountsOf, At
<1> QED BY <1>1, <1>2, <1>3, PTL DEF CT!Spec

-----------------------------------------------------------------------------
(* LimitDispatcher                                                         *)

LinkPcs == {"free", "check", "load", "add", "again", "room", "slow", "admitted", "open", "closing", "failing",
            "delete", "failed", "closed"}
LinkRecords ==
  [pc : LinkPcs, email : Users \cup {"nobody"}, ip : Addresses \cup {0}, tcp : BOOLEAN,
   limit : Limits \cup {0}, counter : Nat, counted : BOOLEAN]
Books == [made : BOOLEAN, ips : [Addresses -> Nat]]

LinkType ==
  /\ deviceLimits \in [Users -> Limits]
  /\ limitedIPs \in [Users -> Books] /\ unlimitedIPs \in [Users -> Books]
  /\ counters \in Seq(Int) /\ connCount \in Int /\ panicked \in BOOLEAN
  /\ links \in [Links -> LinkRecords]
  /\ \A l \in Links : links[l].pc # "free" => links[l].email \in Users /\ links[l].ip \in Addresses

\* A goroutine takes a step.
Moves(l, r) ==
  /\ r \in LinkRecords /\ links' = [links EXCEPT ![l] = r]
  /\ r.pc # "free" => r.email \in Users /\ r.ip \in Addresses

\* The links that delConn has to release, and those among them that were
\* counted against a limit, and those the drain waits for.
Holds(r, e, a) == r.email = e /\ r.ip = a /\ r.tcp /\ r.pc \in {"admitted", "open", "closing", "failing"}
HoldsCounted(r, e, a) == Holds(r, e, a) /\ r.counted
Drains(r) == r.pc \in {"open", "closing", "delete", "closed"}
Draining == {l \in Links : Drains(links[l])}
One01(p) == IF p THEN 1 ELSE 0

\* The module counts with operators of its own instance.
LEMMA LinkCounts == \A S : LD!Cardinality(S) = Cardinality(S) /\ LD!IsFiniteSet(S) = IsFiniteSet(S)
BY DEF LD!Cardinality, Cardinality, LD!IsFiniteSet, IsFiniteSet

\* A link that nobody uses.
LEMMA NoLinkType == LD!NoLink \in LinkRecords /\ LD!NoLink.pc = "free" /\ ~LD!NoLink.counted
BY DEF LD!NoLink, LinkRecords, LinkPcs

\* Two sets of links that differ in one.
LEMMA OneDiffers ==
  ASSUME IsFiniteSet(Links), NEW S \in SUBSET Links, NEW T \in SUBSET Links, NEW l \in Links,
         \A m \in Links : m # l => (m \in T <=> m \in S)
  PROVE  /\ Cardinality(S) \in Nat /\ Cardinality(T) \in Nat
         /\ Cardinality(T) = Cardinality(S) + One01(l \in T) - One01(l \in S)
<1>1. IsFiniteSet(S) /\ IsFiniteSet(T)
  BY FS_Subset
<1>2. Cardinality(S) \in Nat /\ Cardinality(T) \in Nat
  BY <1>1, FS_CardinalityType
<1>3. CASE l \in S <=> l \in T
  <2>1. S = T
    BY <1>3
  <2> QED BY <1>2, <2>1 DEF One01
<1>4. CASE l \in S /\ l \notin T
  <2>1. T = S \ {l}
    BY <1>4
  <2>2. Cardinality(T) = Cardinality(S) - 1
    BY <1>1, <1>4, <2>1, FS_RemoveElement
  <2> QED BY <1>2, <1>4, <2>2 DEF One01
<1>5. CASE l \notin S /\ l \in T
  <2>1. T = S \cup {l}
    BY <1>5
  <2>2. Cardinality(T) = Cardinality(S) + 1
    BY <1>1, <1>5, <2>1, FS_AddElement
  <2> QED BY <1>2, <1>5, <2>2 DEF One01
<1> QED BY <1>3, <1>4, <1>5

\* The counts after a step of a link.
LEMMA CountsMove ==
  ASSUME LD!LimitDispatcherAssumption, LinkType, NEW l \in Links, NEW r, Moves(l, r)
  PROVE  /\ \A e, a :
              /\ Cardinality(LD!Unreleased(e, a)) \in Nat /\ Cardinality(LD!CountedLinks(e, a)) \in Nat
              /\ Cardinality(LD!Unreleased(e, a)') =
                   Cardinality(LD!Unreleased(e, a)) + One01(Holds(r, e, a)) - One01(Holds(links[l], e, a))
              /\ Cardinality(LD!CountedLinks(e, a)') =
                   Cardinality(LD!CountedLinks(e, a)) + One01(HoldsCounted(r, e, a)) - One01(HoldsCounted(links[l], e, a))
         /\ Cardinality(Draining) \in Nat
         /\ Cardinality(Draining') = Cardinality(Draining) + One01(Drains(r)) - One01(Drains(links[l]))
<1>1. IsFiniteSet(Links)
  BY LinkCounts DEF LD!LimitDispatcherAssumption
<1>2. links'[l] = r /\ \A m \in Links : m # l => links'[m] = links[m]
  BY DEF Moves, LinkType
<1>3. ASSUME NEW e, NEW a
      PROVE  /\ Cardinality(LD!Unreleased(e, a)) \in Nat
             /\ Cardinality(LD!Unreleased(e, a)') =
                  Cardinality(LD!Unreleased(e, a)) + One01(Holds(r, e, a)) - One01(Holds(links[l], e, a))
  <2> DEFINE S == LD!Unreleased(e, a)
             T == LD!Unreleased(e, a)'
  <2>1. /\ S \in SUBSET Links /\ T \in SUBSET Links
        /\ \A m \in Links : m # l => (m \in T <=> m \in S)
        /\ (l \in T) <=> Holds(r, e, a)
        /\ (l \in S) <=> Holds(links[l], e, a)
    BY <1>2 DEF LD!Unreleased, Holds
  <2> HIDE DEF S, T
  <2>2. Cardinality(S) \in Nat /\ Cardinality(T) = Cardinality(S) + One01(l \in T) - One01(l \in S)
    BY <1>1, <2>1, OneDiffers
  <2> QED BY <2>1, <2>2 DEF S, T, One01
<1>4. ASSUME NEW e, NEW a
      PROVE  /\ Cardinality(LD!CountedLinks(e, a)) \in Nat
             /\ Cardinality(LD!CountedLinks(e, a)') =
                  Cardinality(LD!CountedLinks(e, a)) + One01(HoldsCounted(r, e, a)) - One01(HoldsCounted(links[l], e, a))
  <2> DEFINE S == LD!CountedLinks(e, a)
             T == LD!CountedLinks(e, a)'
  <2>1. /\ S \in SUBSET Links /\ T \in SUBSET Links
        /\ \A m \in Links : m # l => (m \in T <=> m \in S)
        /\ (l \in T) <=> HoldsCounted(r, e, a)
        /\ (l \in S) <=> HoldsCounted(links[l], e, a)
    BY <1>2 DEF LD!CountedLinks, LD!Unreleased, HoldsCounted, Holds
  <2> HIDE DEF S, T
  <2>2. Cardinality(S) \in Nat /\ Cardinality(T) = Cardinality(S) + One01(l \in T) - One01(l \in S)
    BY <1>1, <2>1, OneDiffers
  <2> QED BY <2>1, <2>2 DEF S, T, One01
<1>5. /\ Cardinality(Draining) \in Nat
      /\ Cardinality(Draining') = Cardinality(Draining) + One01(Drains(r)) - One01(Drains(links[l]))
  <2> DEFINE S == Draining
             T == Draining'
  <2>1. /\ S \in SUBSET Links /\ T \in SUBSET Links
        /\ \A m \in Links : m # l => (m \in T <=> m \in S)
        /\ (l \in T) <=> Drains(r)
        /\ (l \in S) <=> Drains(links[l])
    BY <1>2 DEF Draining, Drains
  <2> HIDE DEF S, T
  <2>2. Cardinality(S) \in Nat /\ Cardinality(T) = Cardinality(S) + One01(l \in T) - One01(l \in S)
    BY <1>1, <2>1, OneDiffers
  <2> QED BY <2>1, <2>2 DEF S, T, One01
<1> QED BY <1>3, <1>4, <1>5

-----------------------------------------------------------------------------
(* What the steps change                                                   *)

\* The same connection, at another place of its goroutine.
SameLink(r, q) == r.email = q.email /\ r.ip = q.ip /\ r.tcp = q.tcp /\ r.counted = q.counted /\ r.counter = q.counter

\* Step by step, what moves: a link goes on,
LEMMA GotoMoves ==
  ASSUME LinkType, NEW l \in Links, links[l].pc # "free", NEW pc \in LinkPcs
  PROVE  LET r == [links[l] EXCEPT !.pc = pc] IN
           /\ r \in LinkRecords /\ r.pc = pc /\ SameLink(r, links[l])
           /\ r.email \in Users /\ r.ip \in Addresses
           /\ links' = [links EXCEPT ![l].pc = pc] => Moves(l, r)
<1>1. links[l] \in LinkRecords /\ links[l].email \in Users /\ links[l].ip \in Addresses
  BY DEF LinkType
<1>2. LET r == [links[l] EXCEPT !.pc = pc] IN r \in LinkRecords /\ r.pc = pc /\ SameLink(r, links[l])
  BY <1>1 DEF LinkRecords, SameLink
<1>3. links' = [links EXCEPT ![l].pc = pc] => links' = [links EXCEPT ![l] = [links[l] EXCEPT !.pc = pc]]
  OBVIOUS
<1> QED BY <1>1, <1>2, <1>3 DEF Moves, SameLink

\* it is opened by a user from an address,
LEMMA IdentifyStep ==
  ASSUME LinkType, LD!LimitDispatcherAssumption, NEW l \in Links, NEW e \in Users, NEW a \in Addresses, NEW tcp \in BOOLEAN,
         LD!Identify(l, e, a, tcp)
  PROVE  \E r : /\ Moves(l, r) /\ links[l].pc = "free" /\ ~r.counted /\ r.email = e /\ r.ip = a
                /\ \/ r.pc = "check"
                   \/ r.pc = "load" /\ r.tcp
                   \/ r.pc = "admitted" /\ ~r.tcp
                /\ UNCHANGED <<deviceLimits, limitedIPs, unlimitedIPs, counters, connCount, panicked>>
<1> DEFINE pc == IF deviceLimits[e] > 0 THEN "check" ELSE IF tcp THEN "load" ELSE "admitted"
           r == [LD!NoLink EXCEPT !.pc = pc, !.email = e, !.ip = a, !.tcp = tcp, !.limit = deviceLimits[e]]
<1>1. /\ links[l].pc = "free" /\ links' = [links EXCEPT ![l] = r]
      /\ UNCHANGED <<deviceLimits, limitedIPs, unlimitedIPs, counters, connCount, panicked>>
  BY DEF LD!Identify
<1>2. pc \in LinkPcs /\ pc # "free" /\ (pc = "check" \/ (pc = "load" /\ tcp) \/ (pc = "admitted" /\ ~tcp))
  BY DEF LinkPcs
<1> HIDE DEF pc
<1>3. LD!NoLink \in LinkRecords /\ ~LD!NoLink.counted
  BY NoLinkType
<1>4. deviceLimits[e] \in Limits
  BY DEF LinkType
<1>5. r \in LinkRecords /\ r.pc = pc /\ r.email = e /\ r.ip = a /\ r.tcp = tcp /\ ~r.counted
  BY <1>2, <1>3, <1>4 DEF LinkRecords
<1> HIDE DEF r
<1> QED BY <1>1, <1>2, <1>5 DEF Moves

\* it is checked against the limit of its user,
LEMMA CheckStep ==
  ASSUME LinkType, NEW l \in Links, LD!Check(l)
  PROVE  \E r : /\ Moves(l, r) /\ links[l].pc = "check" /\ SameLink(r, links[l])
                /\ \/ r.pc \in {"again", "room"} /\ r.tcp
                   \/ r.pc = "admitted" /\ ~r.tcp
                   \/ r.pc = "slow"
                /\ UNCHANGED <<deviceLimits, limitedIPs, unlimitedIPs, counters, connCount, panicked>>
<1> DEFINE pc == IF links[l].ip \in LD!Held(links[l].email) THEN (IF links[l].tcp THEN "again" ELSE "admitted")
                 ELSE IF limitedIPs[links[l].email].made /\ LD!Cardinality(LD!Held(links[l].email)) < links[l].limit
                   THEN (IF links[l].tcp THEN "room" ELSE "admitted")
                 ELSE "slow"
           r == [links[l] EXCEPT !.pc = pc]
<1>1. /\ links[l].pc = "check" /\ links' = [links EXCEPT ![l].pc = pc]
      /\ UNCHANGED <<deviceLimits, limitedIPs, unlimitedIPs, counters, connCount, panicked>>
  BY DEF LD!Check, LD!Goto
<1>2. \/ pc \in {"again", "room"} /\ links[l].tcp
      \/ pc = "admitted" /\ ~links[l].tcp
      \/ pc = "slow"
  OBVIOUS
<1> HIDE DEF pc
<1>3. pc \in LinkPcs
  BY <1>2 DEF LinkPcs
<1>4. Moves(l, r) /\ r.pc = pc /\ SameLink(r, links[l])
  BY <1>1, <1>3, GotoMoves
<1> HIDE DEF r
<1> QED BY <1>1, <1>2, <1>4 DEF SameLink

\* A link is counted against the limit.
LEMMA CountedStep ==
  ASSUME LinkType, NEW l \in Links, links[l].pc # "free", LD!Counted(l)
  PROVE  \E r : /\ Moves(l, r) /\ r.pc = "admitted" /\ r.counted
                /\ r.email = links[l].email /\ r.ip = links[l].ip /\ r.tcp = links[l].tcp
                /\ limitedIPs' \in [Users -> Books]
                /\ \A e \in Users, a \in Addresses :
                     limitedIPs'[e].ips[a] = IF e = r.email /\ a = r.ip THEN limitedIPs[e].ips[a] + 1 ELSE limitedIPs[e].ips[a]
<1> DEFINE r == [links[l] EXCEPT !.pc = "admitted", !.counted = TRUE]
           w == links[l].email
           i == links[l].ip
           m == limitedIPs[w]
           ips == [m.ips EXCEPT ![i] = m.ips[i] + 1]
<1>1. links[l] \in LinkRecords /\ w \in Users /\ i \in Addresses
  BY DEF LinkType
<1>2. r \in LinkRecords /\ r.pc = "admitted" /\ r.counted /\ r.email = w /\ r.ip = i /\ r.tcp = links[l].tcp
  BY <1>1 DEF LinkRecords, LinkPcs
<1>3. links' = [links EXCEPT ![l] = r]
  BY DEF LD!Counted, LinkType
<1>4. limitedIPs' = [limitedIPs EXCEPT ![w] = [m EXCEPT !.made = TRUE, !.ips = ips]]
  BY <1>1 DEF LD!Counted, LinkType
<1>5. m \in Books /\ limitedIPs \in [Users -> Books]
  BY <1>1 DEF LinkType
<1>6. ips \in [Addresses -> Nat] /\ \A a \in Addresses : ips[a] = IF a = i THEN m.ips[a] + 1 ELSE m.ips[a]
  BY <1>1, <1>5 DEF Books
<1>7. Moves(l, r)
  BY <1>1, <1>2, <1>3 DEF Moves
<1> HIDE DEF r, w, i, ips, m
<1>8. [m EXCEPT !.made = TRUE, !.ips = ips] \in Books /\ [m EXCEPT !.made = TRUE, !.ips = ips].ips = ips
  BY <1>5, <1>6 DEF Books
<1>9. limitedIPs' \in [Users -> Books]
  BY <1>4, <1>5, <1>8
<1>10. \A e \in Users, a \in Addresses :
         limitedIPs'[e].ips[a] = IF e = w /\ a = i THEN limitedIPs[e].ips[a] + 1 ELSE limitedIPs[e].ips[a]
  BY <1>1, <1>4, <1>5, <1>6, <1>8 DEF m
<1> QED BY <1>2, <1>7, <1>9, <1>10 DEF w, i

\* The slow path either counts the link or leaves the counts.
LEMMA SlowStep ==
  ASSUME LinkType, NEW l \in Links, LD!SlowPath(l)
  PROVE  /\ links[l].pc = "slow" /\ UNCHANGED <<deviceLimits, unlimitedIPs, counters, connCount, panicked>>
         /\ \/ links[l].tcp /\ LD!Counted(l)
            \/ /\ \E r : Moves(l, r) /\ (r = LD!NoLink \/ (r.pc = "admitted" /\ ~r.tcp /\ SameLink(r, links[l])))
               /\ limitedIPs' \in [Users -> Books]
               /\ \A e \in Users, a \in Addresses : limitedIPs'[e].ips[a] = limitedIPs[e].ips[a]
<1> DEFINE w == links[l].email
           m == limitedIPs[w]
<1>1. links[l].pc = "slow" /\ UNCHANGED <<deviceLimits, unlimitedIPs, counters, connCount, panicked>>
  BY DEF LD!SlowPath
<1>2. \/ links[l].tcp /\ LD!Counted(l)
      \/ /\ limitedIPs' = [limitedIPs EXCEPT ![w].made = TRUE]
         /\ \/ links' = [links EXCEPT ![l].pc = "admitted"] /\ ~links[l].tcp
            \/ links' = [links EXCEPT ![l] = LD!NoLink]
  BY DEF LD!SlowPath
<1>3. links' = [links EXCEPT ![l].pc = "admitted"] /\ ~links[l].tcp =>
        \E r : Moves(l, r) /\ r.pc = "admitted" /\ ~r.tcp /\ SameLink(r, links[l])
  <2> HAVE links' = [links EXCEPT ![l].pc = "admitted"] /\ ~links[l].tcp
  <2> DEFINE r == [links[l] EXCEPT !.pc = "admitted"]
  <2>1. "admitted" \in LinkPcs
    BY DEF LinkPcs
  <2>2. Moves(l, r) /\ r.pc = "admitted" /\ SameLink(r, links[l])
    BY <1>1, <2>1, GotoMoves
  <2> HIDE DEF r
  <2> QED BY <2>2 DEF SameLink
<1>4. links' = [links EXCEPT ![l] = LD!NoLink] => Moves(l, LD!NoLink)
  BY NoLinkType DEF Moves
<1>5. limitedIPs' = [limitedIPs EXCEPT ![w].made = TRUE] =>
        /\ limitedIPs' \in [Users -> Books]
        /\ \A e \in Users, a \in Addresses : limitedIPs'[e].ips[a] = limitedIPs[e].ips[a]
  <2> HAVE limitedIPs' = [limitedIPs EXCEPT ![w].made = TRUE]
  <2>1. w \in Users /\ m \in Books /\ limitedIPs \in [Users -> Books]
    BY <1>1 DEF LinkType
  <2>2. limitedIPs' = [limitedIPs EXCEPT ![w] = [m EXCEPT !.made = TRUE]]
    OBVIOUS
  <2> HIDE DEF w, m
  <2>3. [m EXCEPT !.made = TRUE] \in Books /\ [m EXCEPT !.made = TRUE].ips = m.ips
    BY <2>1 DEF Books
  <2> QED BY <2>1, <2>2, <2>3 DEF m
<1> QED BY <1>1, <1>2, <1>3, <1>4, <1>5

\* Where delConn leaves the goroutine.
LEMMA ReturnMoves ==
  ASSUME LinkType, NEW l \in Links, links[l].pc # "free"
  PROVE  LET r == LD!Return(l) IN
           /\ r \in LinkRecords /\ (r.pc # "free" => r.email \in Users /\ r.ip \in Addresses) /\ ~Holds(r, r.email, r.ip)
           /\ \/ r = LD!NoLink /\ links[l].pc \in {"failing", "failed"}
              \/ r.pc = "closed" /\ SameLink(r, links[l]) /\ links[l].pc \notin {"failing", "failed"}
<1>1. "closed" \in LinkPcs
  BY DEF LinkPcs
<1>2. CASE links[l].pc \in {"failing", "failed"}
  BY <1>2, NoLinkType DEF LD!Return, Holds
<1>3. CASE links[l].pc \notin {"failing", "failed"}
  <2> DEFINE r == [links[l] EXCEPT !.pc = "closed"]
  <2>1. r \in LinkRecords /\ r.pc = "closed" /\ SameLink(r, links[l]) /\ r.email \in Users /\ r.ip \in Addresses
    BY <1>1, GotoMoves
  <2>2. LD!Return(l) = r
    BY <1>3 DEF LD!Return
  <2> HIDE DEF r
  <2> QED BY <1>3, <2>1, <2>2 DEF Holds
<1> QED BY <1>2, <1>3

\* it finds the counter of its address or makes one,
LEMMA LoadStep ==
  ASSUME LinkType, NEW l \in Links, LD!LoadCounter(l)
  PROVE  LET e == links[l].email
             a == links[l].ip
             old == unlimitedIPs[e].ips[a] IN
           /\ links[l].pc = "load" /\ UNCHANGED <<deviceLimits, limitedIPs, connCount, panicked>>
           /\ \E id \in Nat : \E r :
                /\ Moves(l, r) /\ r.pc = "add" /\ r.counter = id /\ r.email = e /\ r.ip = a
                /\ r.tcp = links[l].tcp /\ r.counted = links[l].counted
                /\ \/ old # 0 /\ id = old /\ counters' = counters
                   \/ old = 0 /\ id = Len(counters) + 1 /\ counters' = Append(counters, 0)
                /\ unlimitedIPs' \in [Users -> Books] /\ unlimitedIPs'[e].made
                /\ \A f \in Users : f # e => unlimitedIPs'[f] = unlimitedIPs[f]
                /\ \A b \in Addresses : unlimitedIPs'[e].ips[b] = IF b = a THEN id ELSE unlimitedIPs[e].ips[b]
<1> DEFINE e == links[l].email
           a == links[l].ip
           m == unlimitedIPs[e]
           old == m.ips[a]
           id == IF old # 0 THEN old ELSE Len(counters) + 1
           ips == [m.ips EXCEPT ![a] = id]
           r == [links[l] EXCEPT !.pc = "add", !.counter = id]
<1>1. /\ links[l].pc = "load" /\ UNCHANGED <<deviceLimits, limitedIPs, connCount, panicked>>
      /\ counters' = IF old # 0 THEN counters ELSE Append(counters, 0)
      /\ unlimitedIPs' = [unlimitedIPs EXCEPT ![e].made = TRUE, ![e].ips[a] = id]
      /\ links' = [links EXCEPT ![l].pc = "add", ![l].counter = id]
  BY DEF LD!LoadCounter
<1>2. /\ links[l] \in LinkRecords /\ e \in Users /\ a \in Addresses /\ m \in Books
      /\ unlimitedIPs \in [Users -> Books] /\ links \in [Links -> LinkRecords] /\ Len(counters) \in Nat
  BY <1>1 DEF LinkType
<1>3. old \in Nat /\ id \in Nat
  BY <1>2 DEF Books
<1>4. links' = [links EXCEPT ![l] = r]
  BY <1>1, <1>2
<1>5. unlimitedIPs' = [unlimitedIPs EXCEPT ![e] = [m EXCEPT !.made = TRUE, !.ips = ips]]
  BY <1>1, <1>2
<1>6. (old # 0 /\ id = old /\ counters' = counters) \/ (old = 0 /\ id = Len(counters) + 1 /\ counters' = Append(counters, 0))
  BY <1>1
<1> HIDE DEF id, e, a, m, ips
<1>7. r \in LinkRecords /\ r.pc = "add" /\ r.counter = id /\ r.email = links[l].email /\ r.ip = links[l].ip
        /\ r.tcp = links[l].tcp /\ r.counted = links[l].counted
  BY <1>2, <1>3 DEF LinkRecords, LinkPcs
<1> HIDE DEF r
<1>8. Moves(l, r)
  BY <1>2, <1>4, <1>7 DEF Moves, e, a
<1>9. ips \in [Addresses -> Nat] /\ \A b \in Addresses : ips[b] = IF b = a THEN id ELSE m.ips[b]
  BY <1>2, <1>3 DEF Books, ips
<1>10. LET n == [m EXCEPT !.made = TRUE, !.ips = ips] IN n \in Books /\ n.made /\ n.ips = ips
  BY <1>2, <1>9 DEF Books
<1>11. /\ unlimitedIPs' \in [Users -> Books] /\ unlimitedIPs'[e].made /\ unlimitedIPs'[e].ips = ips
       /\ \A f \in Users : f # e => unlimitedIPs'[f] = unlimitedIPs[f]
  BY <1>2, <1>5, <1>10
<1>12. \A b \in Addresses : unlimitedIPs'[e].ips[b] = IF b = a THEN id ELSE unlimitedIPs[e].ips[b]
  BY <1>9, <1>11 DEF m
<1> QED BY <1>1, <1>3, <1>6, <1>7, <1>8, <1>11, <1>12 DEF e, a, m

\* and adds itself,
LEMMA AddStep ==
  ASSUME LinkType, NEW l \in Links, LD!AddOne(l)
  PROVE  \E r : /\ Moves(l, r) /\ links[l].pc = "add" /\ r.pc = "admitted" /\ SameLink(r, links[l])
                /\ counters' = [counters EXCEPT ![links[l].counter] = @ + 1]
                /\ UNCHANGED <<deviceLimits, limitedIPs, unlimitedIPs, connCount, panicked>>
<1> DEFINE r == [links[l] EXCEPT !.pc = "admitted"]
<1>1. /\ links[l].pc = "add" /\ links' = [links EXCEPT ![l].pc = "admitted"]
      /\ counters' = [counters EXCEPT ![links[l].counter] = @ + 1]
      /\ UNCHANGED <<deviceLimits, limitedIPs, unlimitedIPs, connCount, panicked>>
  BY DEF LD!AddOne, LD!Goto
<1>2. "admitted" \in LinkPcs
  BY DEF LinkPcs
<1>3. Moves(l, r) /\ r.pc = "admitted" /\ SameLink(r, links[l])
  BY <1>1, <1>2, GotoMoves
<1> HIDE DEF r
<1> QED BY <1>1, <1>3

\* it is dispatched,
LEMMA DispatchedStep ==
  ASSUME LinkType, NEW l \in Links, LD!Dispatched(l)
  PROVE  \E r : /\ Moves(l, r) /\ links[l].pc = "admitted" /\ r.pc = "open" /\ SameLink(r, links[l])
                /\ connCount' = connCount + 1
                /\ UNCHANGED <<deviceLimits, limitedIPs, unlimitedIPs, counters, panicked>>
<1> DEFINE r == [links[l] EXCEPT !.pc = "open"]
<1>1. /\ links[l].pc = "admitted" /\ links' = [links EXCEPT ![l].pc = "open"] /\ connCount' = connCount + 1
      /\ UNCHANGED <<deviceLimits, limitedIPs, unlimitedIPs, counters, panicked>>
  BY DEF LD!Dispatched, LD!Goto
<1>2. "open" \in LinkPcs
  BY DEF LinkPcs
<1>3. Moves(l, r) /\ r.pc = "open" /\ SameLink(r, links[l])
  BY <1>1, <1>2, GotoMoves
<1> HIDE DEF r
<1> QED BY <1>1, <1>3

\* or fails,
LEMMA FailsStep ==
  ASSUME LinkType, NEW l \in Links, LD!DispatchFails(l)
  PROVE  \E r : /\ Moves(l, r) /\ links[l].pc = "admitted"
                /\ \/ r.pc = "failing" /\ r.tcp /\ SameLink(r, links[l])
                   \/ r = LD!NoLink /\ ~links[l].tcp
                /\ UNCHANGED <<deviceLimits, limitedIPs, unlimitedIPs, counters, connCount, panicked>>
<1> DEFINE r == [links[l] EXCEPT !.pc = "failing"]
<1>1. /\ links[l].pc = "admitted"
      /\ \/ links[l].tcp /\ links' = [links EXCEPT ![l] = r]
         \/ ~links[l].tcp /\ links' = [links EXCEPT ![l] = LD!NoLink]
      /\ UNCHANGED <<deviceLimits, limitedIPs, unlimitedIPs, counters, connCount, panicked>>
  BY DEF LD!DispatchFails
<1>2. "failing" \in LinkPcs
  BY DEF LinkPcs
<1>3. r \in LinkRecords /\ r.pc = "failing" /\ SameLink(r, links[l]) /\ r.email \in Users /\ r.ip \in Addresses
  BY <1>1, <1>2, GotoMoves
<1> HIDE DEF r
<1>4. CASE links[l].tcp /\ links' = [links EXCEPT ![l] = r]
  BY <1>1, <1>3, <1>4 DEF Moves, SameLink
<1>5. CASE ~links[l].tcp /\ links' = [links EXCEPT ![l] = LD!NoLink]
  BY <1>1, <1>5, NoLinkType DEF Moves
<1> QED BY <1>1, <1>4, <1>5

\* it is closed,
LEMMA ClosedStep ==
  ASSUME LinkType, NEW l \in Links, LD!Closed(l)
  PROVE  \E r : /\ Moves(l, r) /\ links[l].pc = "open" /\ SameLink(r, links[l])
                /\ \/ r.pc = "closing" /\ r.tcp
                   \/ r.pc = "closed" /\ ~r.tcp
                /\ UNCHANGED <<deviceLimits, limitedIPs, unlimitedIPs, counters, connCount, panicked>>
<1> DEFINE pc == IF links[l].tcp THEN "closing" ELSE "closed"
           r == [links[l] EXCEPT !.pc = pc]
<1>1. /\ links[l].pc = "open" /\ links' = [links EXCEPT ![l].pc = pc]
      /\ UNCHANGED <<deviceLimits, limitedIPs, unlimitedIPs, counters, connCount, panicked>>
  BY DEF LD!Closed, LD!Goto
<1>2. (pc = "closing" /\ links[l].tcp) \/ (pc = "closed" /\ ~links[l].tcp)
  OBVIOUS
<1> HIDE DEF pc
<1>3. pc \in LinkPcs
  BY <1>2 DEF LinkPcs
<1>4. Moves(l, r) /\ r.pc = pc /\ SameLink(r, links[l])
  BY <1>1, <1>3, GotoMoves
<1> HIDE DEF r
<1> QED BY <1>1, <1>2, <1>4 DEF SameLink

\* it leaves the addresses that count against a limit,
LEMMA DelLimitedStep ==
  ASSUME LinkType, NEW l \in Links, LD!DelLimited(l)
  PROVE  /\ links[l].pc \in {"closing", "failing"} /\ ~unlimitedIPs[links[l].email].made
         /\ Moves(l, LD!Return(l))
         /\ limitedIPs' \in [Users -> Books]
         /\ \A e \in Users, a \in Addresses :
              limitedIPs'[e].ips[a] =
                IF e = links[l].email /\ a = links[l].ip /\ limitedIPs[e].ips[a] > 0
                THEN limitedIPs[e].ips[a] - 1 ELSE limitedIPs[e].ips[a]
         /\ UNCHANGED <<deviceLimits, unlimitedIPs, counters, connCount, panicked>>
<1> DEFINE w == links[l].email
           i == links[l].ip
           m == limitedIPs[w]
           ips == [m.ips EXCEPT ![i] = IF m.ips[i] > 0 THEN m.ips[i] - 1 ELSE 0]
<1>1. /\ links[l].pc \in {"closing", "failing"} /\ ~unlimitedIPs[w].made
      /\ links' = [links EXCEPT ![l] = LD!Return(l)]
      /\ limitedIPs' = [limitedIPs EXCEPT ![w] = LD!WithoutLink(m, i)]
      /\ UNCHANGED <<deviceLimits, unlimitedIPs, counters, connCount, panicked>>
  BY DEF LD!DelLimited
<1>2. w \in Users /\ i \in Addresses /\ m \in Books /\ limitedIPs \in [Users -> Books]
  BY <1>1 DEF LinkType
<1>3. Moves(l, LD!Return(l))
  BY <1>1, ReturnMoves DEF Moves
<1>4. LD!WithoutLink(m, i) = [made |-> m.made /\ \E b \in Addresses : ips[b] > 0, ips |-> ips]
  BY DEF LD!WithoutLink
<1>5. ips \in [Addresses -> Nat] /\ \A a \in Addresses : ips[a] = IF a = i /\ m.ips[a] > 0 THEN m.ips[a] - 1 ELSE m.ips[a]
  BY <1>2 DEF Books
<1> DEFINE kept == m.made /\ \E b \in Addresses : ips[b] > 0
<1>6. kept \in BOOLEAN
  OBVIOUS
<1> HIDE DEF ips, w, i, m, kept
<1>7. LD!WithoutLink(m, i) \in Books /\ LD!WithoutLink(m, i).ips = ips
  BY <1>4, <1>5, <1>6 DEF Books, kept
<1>8. limitedIPs' \in [Users -> Books]
  BY <1>1, <1>2, <1>7
<1>9. \A e \in Users, a \in Addresses :
        limitedIPs'[e].ips[a] = IF e = w /\ a = i /\ limitedIPs[e].ips[a] > 0
                                THEN limitedIPs[e].ips[a] - 1 ELSE limitedIPs[e].ips[a]
  BY <1>1, <1>2, <1>5, <1>7 DEF m
<1> QED BY <1>1, <1>3, <1>8, <1>9 DEF w, i

\* or its counter,
LEMMA DelUnlimitedStep ==
  ASSUME LinkType, NEW l \in Links, LD!DelUnlimited(l)
  PROVE  LET id == unlimitedIPs[links[l].email].ips[links[l].ip] IN
           /\ links[l].pc \in {"closing", "failing"} /\ unlimitedIPs[links[l].email].made
           /\ \E r : /\ Moves(l, r)
                     /\ \/ r = LD!NoLink /\ links[l].pc = "failing"
                        \/ r.pc = "failed" /\ links[l].pc = "failing"
                        \/ r.pc \in {"closed", "delete"} /\ links[l].pc = "closing"
           /\ \/ id = 0 /\ counters' = counters
              \/ id # 0 /\ counters' = [counters EXCEPT ![id] = @ - 1]
           /\ UNCHANGED <<deviceLimits, limitedIPs, unlimitedIPs, connCount, panicked>>
<1> DEFINE id == unlimitedIPs[links[l].email].ips[links[l].ip]
           pc == IF links[l].pc = "failing" THEN "failed" ELSE "delete"
           r == [links[l] EXCEPT !.pc = pc]
<1>1. /\ links[l].pc \in {"closing", "failing"} /\ unlimitedIPs[links[l].email].made
      /\ \/ id = 0 /\ counters' = counters /\ links' = [links EXCEPT ![l] = LD!Return(l)]
         \/ id # 0 /\ counters' = [counters EXCEPT ![id] = @ - 1] /\ links' = [links EXCEPT ![l] = LD!Return(l)]
         \/ id # 0 /\ counters' = [counters EXCEPT ![id] = @ - 1] /\ links' = [links EXCEPT ![l] = r]
      /\ UNCHANGED <<deviceLimits, limitedIPs, unlimitedIPs, connCount, panicked>>
  <2>1. /\ links[l].pc \in {"closing", "failing"} /\ unlimitedIPs[links[l].email].made
        /\ UNCHANGED <<deviceLimits, limitedIPs, unlimitedIPs, connCount, panicked>>
    BY DEF LD!DelUnlimited
  <2>2. CASE id = 0
    BY <2>1, <2>2 DEF LD!DelUnlimited
  <2>3. CASE id # 0
    <3>1. /\ counters' = [counters EXCEPT ![id] = @ - 1]
          /\ links' = [links EXCEPT ![l] = IF counters[id] > 1 THEN LD!Return(l) ELSE r]
      <4>1. counters' = [counters EXCEPT ![id] = @ - 1]
        BY <2>3 DEF LD!DelUnlimited
      <4>2. CASE counters[id] > 1
        BY <2>3, <4>1, <4>2 DEF LD!DelUnlimited
      <4>3. CASE ~(counters[id] > 1)
        BY <2>3, <4>1, <4>3 DEF LD!DelUnlimited
      <4> QED BY <4>2, <4>3
    <3> HIDE DEF r, id
    <3> QED BY <2>1, <2>3, <3>1
  <2> QED BY <2>2, <2>3
<1>2. pc \in LinkPcs /\ ((links[l].pc = "failing" /\ pc = "failed") \/ (links[l].pc = "closing" /\ pc = "delete"))
  BY <1>1 DEF LinkPcs
<1> HIDE DEF id, pc
<1>3. r \in LinkRecords /\ r.pc = pc /\ r.email \in Users /\ r.ip \in Addresses
  BY <1>1, <1>2, GotoMoves
<1> HIDE DEF r
<1>4. CASE links' = [links EXCEPT ![l] = r]
  BY <1>1, <1>2, <1>3, <1>4 DEF Moves, id
<1>5. CASE links' = [links EXCEPT ![l] = LD!Return(l)]
  <2>1. Moves(l, LD!Return(l))
    BY <1>1, <1>5, ReturnMoves DEF Moves
  <2>2. \/ LD!Return(l) = LD!NoLink /\ links[l].pc = "failing"
        \/ LD!Return(l).pc = "closed" /\ links[l].pc = "closing"
    BY <1>1, ReturnMoves
  <2> QED BY <1>1, <2>1, <2>2 DEF id
<1> QED BY <1>1, <1>4, <1>5

\* whose entry goes with the last,
LEMMA DeleteStep ==
  ASSUME LinkType, NEW l \in Links, LD!DeleteCounter(l)
  PROVE  /\ \/ LD!Return(l) = LD!NoLink /\ links[l].pc = "failed"
            \/ LD!Return(l).pc = "closed" /\ links[l].pc = "delete"
         /\ Moves(l, LD!Return(l))
         /\ unlimitedIPs' \in [Users -> Books]
         /\ \A e \in Users : /\ unlimitedIPs'[e].made <=> unlimitedIPs[e].made
                             /\ \A a \in Addresses : unlimitedIPs'[e].ips[a] \in {0, unlimitedIPs[e].ips[a]}
         /\ UNCHANGED <<deviceLimits, limitedIPs, counters, connCount, panicked>>
<1> DEFINE w == links[l].email
           i == links[l].ip
           m == unlimitedIPs[w]
           ips == [m.ips EXCEPT ![i] = 0]
<1>1. /\ links[l].pc \in {"delete", "failed"} /\ links' = [links EXCEPT ![l] = LD!Return(l)]
      /\ unlimitedIPs' = [unlimitedIPs EXCEPT ![w].ips[i] = 0]
      /\ UNCHANGED <<deviceLimits, limitedIPs, counters, connCount, panicked>>
  BY DEF LD!DeleteCounter
<1>2. w \in Users /\ i \in Addresses /\ m \in Books /\ unlimitedIPs \in [Users -> Books]
  BY <1>1 DEF LinkType
<1>3. Moves(l, LD!Return(l))
  BY <1>1, ReturnMoves DEF Moves
<1>4. \/ LD!Return(l) = LD!NoLink /\ links[l].pc = "failed"
      \/ LD!Return(l).pc = "closed" /\ links[l].pc = "delete"
  BY <1>1, ReturnMoves
<1>5. unlimitedIPs' = [unlimitedIPs EXCEPT ![w] = [m EXCEPT !.ips = ips]]
  BY <1>1, <1>2
<1>6. ips \in [Addresses -> Nat] /\ \A a \in Addresses : ips[a] \in {0, m.ips[a]}
  BY <1>2 DEF Books
<1> HIDE DEF w, i, m, ips
<1>7. LET n == [m EXCEPT !.ips = ips] IN n \in Books /\ n.ips = ips /\ n.made = m.made
  BY <1>2, <1>6 DEF Books
<1>8. unlimitedIPs' \in [Users -> Books]
  BY <1>2, <1>5, <1>7
<1>9. unlimitedIPs'[w].ips = ips /\ unlimitedIPs'[w].made = m.made /\ \A e \in Users : e # w => unlimitedIPs'[e] = unlimitedIPs[e]
  BY <1>2, <1>5, <1>7
<1> QED BY <1>1, <1>3, <1>4, <1>6, <1>8, <1>9 DEF m

\* and it no longer delays the drain.
LEMMA UncountStep ==
  ASSUME LinkType, NEW l \in Links, LD!Uncount(l)
  PROVE  /\ Moves(l, LD!NoLink) /\ links[l].pc = "closed" /\ connCount' = connCount - 1
         /\ UNCHANGED <<deviceLimits, limitedIPs, unlimitedIPs, counters, panicked>>
BY NoLinkType DEF LD!Uncount, Moves

-----------------------------------------------------------------------------
(* Types                                                                   *)

\* No link, no counts.
LEMMA LinkInitType == LD!Init => LinkType
<1> SUFFICES ASSUME LD!Init PROVE LinkType
  OBVIOUS
<1>1. LD!NoCounts \in [Addresses -> Nat]
  BY DEF LD!NoCounts
<1>2. [made |-> FALSE, ips |-> LD!NoCounts] \in Books
  BY <1>1 DEF Books
<1>3. limitedIPs \in [Users -> Books] /\ unlimitedIPs \in [Users -> Books]
  BY <1>2 DEF LD!Init
<1>4. links \in [Links -> LinkRecords] /\ \A l \in Links : links[l].pc = "free"
  BY NoLinkType DEF LD!Init
<1>5. deviceLimits \in [Users -> Limits] /\ connCount \in Int /\ panicked \in BOOLEAN
  <2>1. deviceLimits \in [Users -> Limits]
    BY DEF LD!Init
  <2>2. connCount \in Int
    BY DEF LD!Init
  <2>3. panicked \in BOOLEAN
    BY Zenon DEF LD!Init
  <2> QED BY <2>1, <2>2, <2>3
<1>6. counters \in Seq(Int)
  BY DEF LD!Init
<1> QED BY <1>3, <1>4, <1>5, <1>6 DEF LinkType

\* A step of a link keeps the types, whatever counters it touches.
LEMMA MoveTypes ==
  ASSUME LinkType, NEW l \in Links, NEW r, Moves(l, r)
  PROVE  /\ links' \in [Links -> LinkRecords] /\ links'[l] = r
         /\ \A m \in Links : m # l => links'[m] = links[m]
         /\ \A m \in Links : links'[m].pc # "free" => links'[m].email \in Users /\ links'[m].ip \in Addresses
BY DEF LinkType, Moves

\* A list of counters, one of them changed.
LEMMA CounterTypes ==
  ASSUME NEW s \in Seq(Int), NEW i, NEW v, i \in 1..Len(s) => v \in Int
  PROVE  /\ [s EXCEPT ![i] = v] \in Seq(Int) /\ Len([s EXCEPT ![i] = v]) = Len(s)
         /\ \A j \in 1..Len(s) : [s EXCEPT ![i] = v][j] = IF j = i THEN v ELSE s[j]
<1> DEFINE t == [s EXCEPT ![i] = v]
<1>1. DOMAIN t = 1..Len(s) /\ Len(s) \in Nat
  OBVIOUS
<1>2. \A j \in 1..Len(s) : t[j] = IF j = i THEN v ELSE s[j]
  BY <1>1
<1>3. t \in [1..Len(s) -> Int]
  <2>1. \A j \in 1..Len(s) : s[j] \in Int
    OBVIOUS
  <2>2. t = [j \in 1..Len(s) |-> t[j]]
    BY <1>1
  <2> HIDE DEF t
  <2> QED BY <1>2, <2>1, <2>2
<1> HIDE DEF t
<1>4. t \in Seq(Int) /\ Len(t) = Len(s)
  BY <1>1, <1>3
<1> QED BY <1>2, <1>4 DEF t

\* One more, or one less, in a counter.
LEMMA CounterRises ==
  ASSUME LinkType, NEW i, counters' = [counters EXCEPT ![i] = counters[i] + 1]
  PROVE  /\ counters' \in Seq(Int) /\ Len(counters') = Len(counters) /\ Len(counters) \in Nat
         /\ \A j \in 1..Len(counters) : /\ counters[j] \in Int
                                        /\ counters'[j] = IF j = i THEN counters[j] + 1 ELSE counters[j]
<1>1. counters \in Seq(Int) /\ Len(counters) \in Nat
  BY DEF LinkType
<1>2. \A j \in 1..Len(counters) : counters[j] \in Int
  BY <1>1
<1> DEFINE v == counters[i] + 1
<1>3. i \in 1..Len(counters) => v \in Int
  BY <1>2
<1> HIDE DEF v
<1>4. /\ [counters EXCEPT ![i] = v] \in Seq(Int) /\ Len([counters EXCEPT ![i] = v]) = Len(counters)
      /\ \A j \in 1..Len(counters) : [counters EXCEPT ![i] = v][j] = IF j = i THEN v ELSE counters[j]
  BY <1>1, <1>3, CounterTypes
<1> QED BY <1>1, <1>2, <1>4 DEF v

\* A counter that drops.
LEMMA CounterDrops ==
  ASSUME LinkType, NEW i, counters' = [counters EXCEPT ![i] = counters[i] - 1]
  PROVE  /\ counters' \in Seq(Int) /\ Len(counters') = Len(counters) /\ Len(counters) \in Nat
         /\ \A j \in 1..Len(counters) : /\ counters[j] \in Int
                                        /\ counters'[j] = IF j = i THEN counters[j] - 1 ELSE counters[j]
<1>1. counters \in Seq(Int) /\ Len(counters) \in Nat
  BY DEF LinkType
<1>2. \A j \in 1..Len(counters) : counters[j] \in Int
  BY <1>1
<1> DEFINE v == counters[i] - 1
<1>3. i \in 1..Len(counters) => v \in Int
  BY <1>2
<1> HIDE DEF v
<1>4. /\ [counters EXCEPT ![i] = v] \in Seq(Int) /\ Len([counters EXCEPT ![i] = v]) = Len(counters)
      /\ \A j \in 1..Len(counters) : [counters EXCEPT ![i] = v][j] = IF j = i THEN v ELSE counters[j]
  BY <1>1, <1>3, CounterTypes
<1> QED BY <1>1, <1>2, <1>4 DEF v

\* A counter is made.
LEMMA CounterMade ==
  ASSUME LinkType
  PROVE  /\ Append(counters, 0) \in Seq(Int) /\ Len(Append(counters, 0)) = Len(counters) + 1 /\ Len(counters) \in Nat
         /\ \A j \in 1..Len(counters) : counters[j] \in Int /\ Append(counters, 0)[j] = counters[j]
         /\ Append(counters, 0)[Len(counters) + 1] = 0
<1>1. counters \in Seq(Int)
  BY DEF LinkType
<1> QED BY <1>1

\* Every step of a link keeps the types.
LEMMA LinkStepType ==
  ASSUME LD!LimitDispatcherAssumption, LinkType, NEW l \in Links, LD!LinkStep(l)
  PROVE  LinkType'
<1>1. ASSUME NEW r, Moves(l, r), UNCHANGED <<deviceLimits, panicked>>,
             limitedIPs' \in [Users -> Books], unlimitedIPs' \in [Users -> Books],
             counters' \in Seq(Int), connCount' \in Int
      PROVE  LinkType'
  BY <1>1, MoveTypes DEF LinkType
<1>2. ASSUME NEW r, Moves(l, r),
             UNCHANGED <<deviceLimits, limitedIPs, unlimitedIPs, counters, connCount, panicked>>
      PROVE  LinkType'
  BY <1>1, <1>2 DEF LinkType
<1>3. ASSUME links[l].pc # "free", LD!Counted(l), UNCHANGED <<deviceLimits, unlimitedIPs, counters, connCount, panicked>>
      PROVE  LinkType'
  BY <1>1, <1>3, CountedStep DEF LinkType
<1>4. ASSUME NEW e \in Users, NEW a \in Addresses, NEW tcp \in BOOLEAN, LD!Identify(l, e, a, tcp)
      PROVE  LinkType'
  BY <1>2, <1>4, IdentifyStep
<1>5. CASE LD!LoadCounter(l)
  <2>1. counters' \in Seq(Int)
    <3>1. counters' = counters \/ counters' = Append(counters, 0)
      BY <1>5, LoadStep
    <3> QED BY <3>1, CounterMade DEF LinkType
  <2> QED BY <1>1, <1>5, <2>1, LoadStep DEF LinkType
<1>6. CASE LD!AddOne(l)
  <2>1. counters' \in Seq(Int)
    <3>1. counters' = [counters EXCEPT ![links[l].counter] = counters[links[l].counter] + 1]
      BY <1>6, AddStep
    <3> QED BY <3>1, CounterRises
  <2> QED BY <1>1, <1>6, <2>1, AddStep DEF LinkType
<1>7. CASE LD!Check(l)
  BY <1>2, <1>7, CheckStep
<1>8. CASE LD!CountAgain(l)
  <2>1. CASE limitedIPs[links[l].email].made
    BY <1>3, <1>8, <2>1 DEF LD!CountAgain
  <2>2. CASE ~limitedIPs[links[l].email].made
    BY <1>8, <2>2 DEF LD!CountAgain, LinkType
  <2> QED BY <2>1, <2>2
<1>9. CASE LD!CountRoom(l)
  BY <1>3, <1>9 DEF LD!CountRoom
<1>10. CASE LD!SlowPath(l)
  <2>1. CASE LD!Counted(l)
    BY <1>3, <1>10, <2>1, SlowStep
  <2>2. CASE ~LD!Counted(l)
    BY <1>1, <1>10, <2>2, SlowStep DEF LinkType
  <2> QED BY <2>1, <2>2
<1>11. CASE LD!Dispatched(l)
  <2>1. connCount' \in Int
    BY <1>11, DispatchedStep DEF LinkType
  <2> QED BY <1>1, <1>11, <2>1, DispatchedStep DEF LinkType
<1>12. CASE LD!DispatchFails(l)
  BY <1>2, <1>12, FailsStep
<1>13. CASE LD!Closed(l)
  BY <1>2, <1>13, ClosedStep
<1>14. CASE LD!DelLimited(l)
  BY <1>1, <1>14, DelLimitedStep DEF LinkType
<1>15. CASE LD!DelUnlimited(l)
  <2>1. counters' \in Seq(Int)
    <3> DEFINE id == unlimitedIPs[links[l].email].ips[links[l].ip]
    <3>1. counters' = counters \/ counters' = [counters EXCEPT ![id] = counters[id] - 1]
      BY <1>15, DelUnlimitedStep
    <3>2. CASE counters' = counters
      BY <3>2 DEF LinkType
    <3>3. CASE counters' = [counters EXCEPT ![id] = counters[id] - 1]
      BY <3>3, CounterDrops
    <3> QED BY <3>1, <3>2, <3>3
  <2> QED BY <1>1, <1>15, <2>1, DelUnlimitedStep DEF LinkType
<1>16. CASE LD!DeleteCounter(l)
  BY <1>1, <1>16, DeleteStep DEF LinkType
<1>17. CASE LD!Uncount(l)
  <2>1. connCount' \in Int
    BY <1>17, UncountStep DEF LinkType
  <2> QED BY <1>1, <1>17, <2>1, UncountStep DEF LinkType
<1> QED BY <1>4, <1>5, <1>6, <1>7, <1>8, <1>9, <1>10, <1>11, <1>12, <1>13, <1>14, <1>15, <1>16, <1>17 DEF LD!LinkStep

\* So does every step.
LEMMA LinkNextType == LD!LimitDispatcherAssumption /\ LinkType /\ [LD!Next]_(LD!dispatcherVars) => LinkType'
<1> SUFFICES ASSUME LD!LimitDispatcherAssumption, LinkType, [LD!Next]_(LD!dispatcherVars) PROVE LinkType'
  OBVIOUS
<1>1. ASSUME NEW m \in [Users -> Limits], LD!UpdateLimits(m)
      PROVE  LinkType'
  BY <1>1 DEF LD!UpdateLimits, LinkType
<1>2. CASE UNCHANGED LD!dispatcherVars
  BY <1>2 DEF LD!dispatcherVars, LinkType
<1> QED BY <1>1, <1>2, LinkStepType DEF LD!Next

-----------------------------------------------------------------------------
(* The inductive invariant                                                 *)

\* A link not counted against a limit was counted among the unlimited, and
\* from then on delConn looks there; a counter that is about to be raised
\* belongs to nobody else.
LinkOk(r) ==
  /\ r.pc \in {"check", "load", "add", "again", "room", "slow"} => ~r.counted
  /\ r.pc \in {"load", "add", "again", "room", "closing", "failing"} => r.tcp
  /\ r.pc \in {"add", "admitted", "open", "closing", "failing"} /\ r.tcp /\ ~r.counted => unlimitedIPs[r.email].made
  /\ r.pc = "add" => /\ r.counter \in 1..Len(counters)
                     /\ \A e \in Users, a \in Addresses : unlimitedIPs[e].ips[a] = r.counter => e = r.email /\ a = r.ip

LimitedOk(e, a) ==
  /\ limitedIPs[e].ips[a] >= Cardinality(LD!CountedLinks(e, a))
  /\ ~unlimitedIPs[e].made => limitedIPs[e].ips[a] = Cardinality(LD!CountedLinks(e, a))

CounterOk(e, a) ==
  unlimitedIPs[e].ips[a] # 0 =>
    /\ unlimitedIPs[e].made /\ unlimitedIPs[e].ips[a] \in 1..Len(counters)
    /\ counters[unlimitedIPs[e].ips[a]] <= Cardinality(LD!Unreleased(e, a))

OwnCounters ==
  \A e, f \in Users, a, b \in Addresses :
    unlimitedIPs[e].ips[a] # 0 /\ unlimitedIPs[e].ips[a] = unlimitedIPs[f].ips[b] => e = f /\ a = b

DeviceInv ==
  /\ \A l \in Links : LinkOk(links[l])
  /\ \A e \in Users, a \in Addresses : LimitedOk(e, a) /\ CounterOk(e, a)
  /\ OwnCounters
  /\ connCount = Cardinality(Draining)

\* A step that holds and counts nothing and lets nothing go; counters may be
\* forgotten.
LEMMA QuietMove ==
  ASSUME LD!LimitDispatcherAssumption, LinkType, DeviceInv, NEW l \in Links, NEW r, Moves(l, r),
         \A e, a : Holds(r, e, a) <=> Holds(links[l], e, a),
         \A e, a : HoldsCounted(r, e, a) <=> HoldsCounted(links[l], e, a),
         Drains(r) <=> Drains(links[l]),
         LinkOk(r), r.pc # "add",
         UNCHANGED <<counters, connCount>>,
         \A e \in Users, a \in Addresses : limitedIPs'[e].ips[a] = limitedIPs[e].ips[a],
         \A e \in Users : /\ unlimitedIPs'[e].made <=> unlimitedIPs[e].made
                          /\ \A a \in Addresses : unlimitedIPs'[e].ips[a] \in {0, unlimitedIPs[e].ips[a]}
  PROVE  DeviceInv'
<1>1. /\ \A e, a : /\ Cardinality(LD!Unreleased(e, a)') = Cardinality(LD!Unreleased(e, a))
                   /\ Cardinality(LD!CountedLinks(e, a)') = Cardinality(LD!CountedLinks(e, a))
      /\ Cardinality(Draining') = Cardinality(Draining)
  BY CountsMove DEF One01
<1>2. \A e \in Users, a \in Addresses : LimitedOk(e, a)' /\ CounterOk(e, a)'
  <2> TAKE e \in Users, a \in Addresses
  <2>1. LimitedOk(e, a) /\ CounterOk(e, a)
    BY DEF DeviceInv
  <2>2. LimitedOk(e, a)'
    BY <1>1, <2>1 DEF LimitedOk
  <2>3. CounterOk(e, a)'
    BY <1>1, <2>1 DEF CounterOk
  <2> QED BY <2>2, <2>3
<1>3. OwnCounters'
  BY DEF DeviceInv, OwnCounters
<1>4. ASSUME NEW m \in Links PROVE LinkOk(links[m])'
  <2>1. links'[m] = r \/ links'[m] = links[m]
    BY MoveTypes
  <2>2. LinkOk(links[m])
    BY DEF DeviceInv
  <2>3. links[m].pc = "add" => links[m].counter \in Nat \ {0}
    <3>1. Len(counters) \in Nat
      BY DEF LinkType
    <3> QED BY <2>2, <3>1 DEF LinkOk
  <2>4. CASE links'[m] = r
    <3>1. r.email \in Users \/ r.pc = "free"
      BY DEF Moves
    <3> QED BY <2>4, <3>1 DEF LinkOk
  <2>5. CASE links'[m] = links[m]
    <3>1. links[m].email \in Users \/ links[m].pc = "free"
      BY DEF LinkType
    <3> QED BY <2>2, <2>3, <2>5, <3>1 DEF LinkOk
  <2> QED BY <2>1, <2>4, <2>5
<1> QED BY <1>1, <1>2, <1>3, <1>4 DEF DeviceInv

\* A step that touches nothing of the links and counts.
LEMMA NothingMoves ==
  ASSUME DeviceInv, UNCHANGED <<links, limitedIPs, unlimitedIPs, counters, connCount>>
  PROVE  DeviceInv'
<1>1. \A e, a : LD!Unreleased(e, a)' = LD!Unreleased(e, a) /\ LD!CountedLinks(e, a)' = LD!CountedLinks(e, a)
  BY DEF LD!Unreleased, LD!CountedLinks
<1>2. Draining' = Draining
  BY DEF Draining
<1> QED BY <1>1, <1>2 DEF DeviceInv, LinkOk, LimitedOk, CounterOk, OwnCounters

\* What a step leaves of the other links.
LEMMA OthersOk ==
  ASSUME LinkType, DeviceInv, NEW l \in Links, NEW r, Moves(l, r), LinkOk(r)', UNCHANGED unlimitedIPs,
         Len(counters') = Len(counters)
  PROVE  \A m \in Links : LinkOk(links[m])'
<1> TAKE m \in Links
<1>1. CASE m = l
  BY <1>1, MoveTypes DEF LinkOk
<1>2. CASE m # l
  <2>1. links'[m] = links[m] /\ LinkOk(links[m])
    BY <1>2, MoveTypes DEF DeviceInv
  <2> QED BY <2>1 DEF LinkOk
<1> QED BY <1>1, <1>2

\* A counter that is found or made belongs to its address alone.
LEMMA LoadKeeps ==
  ASSUME LD!LimitDispatcherAssumption, LinkType, DeviceInv, NEW l \in Links, LD!LoadCounter(l)
  PROVE  DeviceInv'
<1> DEFINE e == links[l].email
           a == links[l].ip
           old == unlimitedIPs[e].ips[a]
<1>1. PICK id, r :
        /\ id \in Nat /\ Moves(l, r) /\ r.pc = "add" /\ r.counter = id /\ r.email = e /\ r.ip = a
        /\ r.tcp = links[l].tcp /\ r.counted = links[l].counted
        /\ \/ old # 0 /\ id = old /\ counters' = counters
           \/ old = 0 /\ id = Len(counters) + 1 /\ counters' = Append(counters, 0)
        /\ unlimitedIPs' \in [Users -> Books] /\ unlimitedIPs'[e].made
        /\ \A f \in Users : f # e => unlimitedIPs'[f] = unlimitedIPs[f]
        /\ \A b \in Addresses : unlimitedIPs'[e].ips[b] = IF b = a THEN id ELSE unlimitedIPs[e].ips[b]
  BY LoadStep
<1>2. links[l].pc = "load" /\ UNCHANGED <<limitedIPs, connCount>>
  BY LoadStep
<1>3. e \in Users /\ a \in Addresses
  BY <1>2 DEF LinkType
<1>4. /\ Len(counters) \in Nat /\ Len(counters') \in Nat /\ Len(counters) <= Len(counters')
      /\ \A j \in 1..Len(counters) : counters[j] \in Int /\ counters'[j] = counters[j]
      /\ old = 0 => Len(counters') = Len(counters) + 1 /\ counters'[Len(counters) + 1] = 0
  <2>1. CASE old # 0
    BY <1>1, <2>1, CounterMade
  <2>2. CASE old = 0
    BY <1>1, <2>2, CounterMade
  <2> QED BY <2>1, <2>2
<1> HIDE DEF e, a, old
<1>5. \A f \in Users, b \in Addresses :
        /\ unlimitedIPs[f].ips[b] \in 0..Len(counters)
        /\ unlimitedIPs[f].ips[b] # 0 => unlimitedIPs[f].made
  <2> TAKE f \in Users, b \in Addresses
  <2>1. CounterOk(f, b) /\ unlimitedIPs[f].ips[b] \in Nat
    BY DEF DeviceInv, LinkType, Books
  <2> QED BY <1>4, <2>1 DEF CounterOk
<1>6. id \in 1..Len(counters')
  BY <1>1, <1>3, <1>4, <1>5 DEF old
<1>7. \A f \in Users, b \in Addresses :
        unlimitedIPs'[f].ips[b] = IF f = e /\ b = a THEN id ELSE unlimitedIPs[f].ips[b]
  BY <1>1
<1>8. \A f \in Users, b \in Addresses : unlimitedIPs[f].ips[b] = id => f = e /\ b = a
  <2> SUFFICES ASSUME NEW f \in Users, NEW b \in Addresses, unlimitedIPs[f].ips[b] = id
               PROVE  f = e /\ b = a
    OBVIOUS
  <2>1. unlimitedIPs[f].ips[b] \in 0..Len(counters)
    BY <1>5
  <2>2. old # 0 /\ id = old
    BY <1>1, <1>4, <2>1
  <2> QED BY <1>3, <2>2 DEF DeviceInv, OwnCounters, old
<1>9. /\ \A f, b : /\ Cardinality(LD!Unreleased(f, b)) \in Nat
                   /\ Cardinality(LD!Unreleased(f, b)') = Cardinality(LD!Unreleased(f, b))
                   /\ Cardinality(LD!CountedLinks(f, b)') = Cardinality(LD!CountedLinks(f, b))
      /\ Cardinality(Draining') = Cardinality(Draining)
  <2>1. /\ \A f, b : /\ Holds(r, f, b) <=> Holds(links[l], f, b)
                     /\ HoldsCounted(r, f, b) <=> HoldsCounted(links[l], f, b)
        /\ Drains(r) <=> Drains(links[l])
    BY <1>1, <1>2 DEF Holds, HoldsCounted, Drains
  <2>2. \A A, B : (A <=> B) => \A n \in Nat : n + One01(A) - One01(B) = n
    BY DEF One01
  <2> QED BY <1>1, <2>1, <2>2, CountsMove
<1>10. \A f \in Users, b \in Addresses : LimitedOk(f, b)' /\ CounterOk(f, b)'
  <2> TAKE f \in Users, b \in Addresses
  <2>1. LimitedOk(f, b) /\ CounterOk(f, b)
    BY DEF DeviceInv
  <2>2. LimitedOk(f, b)'
    <3>1. unlimitedIPs[f].made => unlimitedIPs'[f].made
      BY <1>1
    <3> QED BY <1>2, <1>9, <2>1, <3>1 DEF LimitedOk
  <2>3. CASE ~(f = e /\ b = a)
    <3>1. unlimitedIPs'[f].ips[b] = unlimitedIPs[f].ips[b] /\ (unlimitedIPs[f].made => unlimitedIPs'[f].made)
      BY <1>1, <1>7, <2>3
    <3> QED BY <1>4, <1>9, <2>1, <2>2, <3>1 DEF CounterOk
  <2>4. CASE f = e /\ b = a /\ old # 0
    <3>1. unlimitedIPs'[f].ips[b] = unlimitedIPs[f].ips[b] /\ unlimitedIPs'[f].made
      BY <1>1, <1>7, <2>4 DEF old
    <3> QED BY <1>4, <1>9, <2>1, <2>2, <3>1 DEF CounterOk
  <2>5. CASE f = e /\ b = a /\ old = 0
    <3>1. unlimitedIPs'[f].ips[b] = id /\ unlimitedIPs'[f].made /\ counters'[id] = 0
      BY <1>1, <1>4, <1>7, <2>5
    <3> QED BY <1>6, <1>9, <2>2, <3>1 DEF CounterOk
  <2> QED BY <2>3, <2>4, <2>5
<1>11. OwnCounters'
  <2> SUFFICES ASSUME NEW f \in Users, NEW g \in Users, NEW b \in Addresses, NEW c \in Addresses,
                      unlimitedIPs'[f].ips[b] # 0, unlimitedIPs'[f].ips[b] = unlimitedIPs'[g].ips[c]
               PROVE  f = g /\ b = c
    BY DEF OwnCounters
  <2> QED BY <1>7, <1>8 DEF DeviceInv, OwnCounters
<1>12. ASSUME NEW m \in Links PROVE LinkOk(links[m])'
  <2>1. LinkOk(links[m]) /\ LinkOk(links[l])
    BY DEF DeviceInv
  <2>2. CASE m = l
    <3>1. links'[m] = r
      BY <1>1, <2>2, MoveTypes
    <3>2. \A f \in Users, b \in Addresses : unlimitedIPs'[f].ips[b] = id => f = e /\ b = a
      BY <1>7, <1>8
    <3> QED BY <1>1, <1>2, <1>6, <2>1, <3>1, <3>2 DEF LinkOk
  <2>3. CASE m # l
    <3>1. links'[m] = links[m] /\ (links[m].pc # "free" => links[m].email \in Users)
      BY <1>1, <2>3, MoveTypes DEF LinkType
    <3>2. links[m].pc # "free" /\ unlimitedIPs[links[m].email].made => unlimitedIPs'[links[m].email].made
      BY <1>1, <3>1
    <3>3. links[m].pc = "add" =>
            /\ links[m].counter \in 1..Len(counters')
            /\ \A f \in Users, b \in Addresses : unlimitedIPs'[f].ips[b] = links[m].counter =>
                 f = links[m].email /\ b = links[m].ip
      <4> HAVE links[m].pc = "add"
      <4>1. /\ links[m].counter \in 1..Len(counters)
            /\ \A f \in Users, b \in Addresses : unlimitedIPs[f].ips[b] = links[m].counter =>
                 f = links[m].email /\ b = links[m].ip
        BY <2>1 DEF LinkOk
      <4>2. CASE old # 0
        BY <1>1, <1>3, <1>4, <1>7, <4>1, <4>2 DEF old
      <4>3. CASE old = 0
        BY <1>1, <1>4, <1>7, <4>1, <4>3
      <4> QED BY <4>2, <4>3
    <3> QED BY <2>1, <3>1, <3>2, <3>3 DEF LinkOk
  <2> QED BY <2>2, <2>3
<1> QED BY <1>2, <1>9, <1>10, <1>11, <1>12 DEF DeviceInv

\* A counter is raised by a link that holds it.
LEMMA AddKeeps ==
  ASSUME LD!LimitDispatcherAssumption, LinkType, DeviceInv, NEW l \in Links, LD!AddOne(l)
  PROVE  DeviceInv'
<1>1. PICK r : /\ Moves(l, r) /\ links[l].pc = "add" /\ r.pc = "admitted" /\ SameLink(r, links[l])
               /\ counters' = [counters EXCEPT ![links[l].counter] = counters[links[l].counter] + 1]
               /\ UNCHANGED <<limitedIPs, unlimitedIPs, connCount>>
  BY AddStep
<1>2. /\ Len(counters') = Len(counters) /\ Len(counters) \in Nat
      /\ \A j \in 1..Len(counters) : /\ counters[j] \in Int
                                     /\ counters'[j] = IF j = links[l].counter THEN counters[j] + 1 ELSE counters[j]
  BY <1>1, CounterRises
<1>3. LinkOk(links[l])
  BY DEF DeviceInv
<1>4. r.tcp /\ ~r.counted /\ ~links[l].counted
  BY <1>1, <1>3 DEF LinkOk, SameLink
<1>5. /\ \A e, a : /\ Cardinality(LD!Unreleased(e, a)) \in Nat
                   /\ Cardinality(LD!Unreleased(e, a)') =
                        Cardinality(LD!Unreleased(e, a)) + One01(e = links[l].email /\ a = links[l].ip)
                   /\ Cardinality(LD!CountedLinks(e, a)') = Cardinality(LD!CountedLinks(e, a))
      /\ Cardinality(Draining') = Cardinality(Draining)
  <2>1. \A e, a : /\ Holds(r, e, a) <=> e = links[l].email /\ a = links[l].ip
                  /\ ~Holds(links[l], e, a) /\ ~HoldsCounted(r, e, a) /\ ~HoldsCounted(links[l], e, a)
    BY <1>1, <1>4 DEF Holds, HoldsCounted, SameLink
  <2>2. ~Drains(r) /\ ~Drains(links[l])
    BY <1>1 DEF Drains
  <2> QED BY <1>1, <2>1, <2>2, CountsMove DEF One01
<1>6. \A e \in Users, a \in Addresses : LimitedOk(e, a)' /\ CounterOk(e, a)'
  <2> TAKE e \in Users, a \in Addresses
  <2>1. LimitedOk(e, a) /\ CounterOk(e, a)
    BY DEF DeviceInv
  <2>2. LimitedOk(e, a)'
    BY <1>1, <1>5, <2>1 DEF LimitedOk
  <2>3. unlimitedIPs[e].ips[a] = links[l].counter => e = links[l].email /\ a = links[l].ip
    BY <1>1, <1>3 DEF LinkOk
  <2>4. CounterOk(e, a)'
    BY <1>1, <1>2, <1>5, <2>1, <2>3 DEF CounterOk, One01
  <2> QED BY <2>2, <2>4
<1>7. OwnCounters'
  BY <1>1 DEF DeviceInv, OwnCounters
<1>8. LinkOk(r)'
  BY <1>1, <1>3, <1>4 DEF LinkOk, SameLink
<1>9. \A m \in Links : LinkOk(links[m])'
  BY <1>1, <1>2, <1>8, OthersOk
<1> QED BY <1>1, <1>5, <1>6, <1>7, <1>9 DEF DeviceInv

\* A link that counts against the limit is one more of its address.
LEMMA CountKeeps ==
  ASSUME LD!LimitDispatcherAssumption, LinkType, DeviceInv, NEW l \in Links, LD!Counted(l),
         links[l].pc \in {"again", "room", "slow"}, links[l].tcp, UNCHANGED <<unlimitedIPs, counters, connCount>>
  PROVE  DeviceInv'
<1>1. PICK r : /\ Moves(l, r) /\ r.pc = "admitted" /\ r.counted
               /\ r.email = links[l].email /\ r.ip = links[l].ip /\ r.tcp = links[l].tcp
               /\ limitedIPs' \in [Users -> Books]
               /\ \A e \in Users, a \in Addresses :
                    limitedIPs'[e].ips[a] = IF e = r.email /\ a = r.ip THEN limitedIPs[e].ips[a] + 1 ELSE limitedIPs[e].ips[a]
  <2>1. links[l].pc # "free"
    OBVIOUS
  <2> QED BY <2>1, CountedStep
<1>2. /\ \A e, a : /\ Cardinality(LD!Unreleased(e, a)) \in Nat /\ Cardinality(LD!CountedLinks(e, a)) \in Nat
                   /\ Cardinality(LD!Unreleased(e, a)') =
                        Cardinality(LD!Unreleased(e, a)) + One01(e = r.email /\ a = r.ip)
                   /\ Cardinality(LD!CountedLinks(e, a)') =
                        Cardinality(LD!CountedLinks(e, a)) + One01(e = r.email /\ a = r.ip)
      /\ Cardinality(Draining') = Cardinality(Draining)
  <2>1. \A e, a : /\ Holds(r, e, a) <=> e = r.email /\ a = r.ip
                  /\ HoldsCounted(r, e, a) <=> e = r.email /\ a = r.ip
                  /\ ~Holds(links[l], e, a) /\ ~HoldsCounted(links[l], e, a)
    BY <1>1 DEF Holds, HoldsCounted
  <2>2. ~Drains(r) /\ ~Drains(links[l])
    BY <1>1 DEF Drains
  <2> QED BY <1>1, <2>1, <2>2, CountsMove DEF One01
<1>3. \A e \in Users, a \in Addresses : LimitedOk(e, a)' /\ CounterOk(e, a)'
  <2> TAKE e \in Users, a \in Addresses
  <2>1. LimitedOk(e, a) /\ CounterOk(e, a) /\ limitedIPs[e].ips[a] \in Nat
    BY DEF DeviceInv, LinkType, Books
  <2>2. LimitedOk(e, a)'
    BY <1>1, <1>2, <2>1 DEF LimitedOk, One01
  <2>3. unlimitedIPs[e].ips[a] \in 1..Len(counters) => counters[unlimitedIPs[e].ips[a]] \in Int
    BY DEF LinkType
  <2>4. CounterOk(e, a)'
    BY <1>2, <2>1, <2>3 DEF CounterOk, One01
  <2> QED BY <2>2, <2>4
<1>4. OwnCounters'
  BY DEF DeviceInv, OwnCounters
<1>5. LinkOk(r)'
  BY <1>1 DEF LinkOk
<1>6. \A m \in Links : LinkOk(links[m])'
  BY <1>1, <1>5, OthersOk
<1> QED BY <1>2, <1>3, <1>4, <1>6 DEF DeviceInv

\* A link that is dispatched delays the drain, one that was uncounted does not.
LEMMA DrainKeeps ==
  ASSUME LD!LimitDispatcherAssumption, LinkType, DeviceInv, NEW l \in Links, LD!Dispatched(l) \/ LD!Uncount(l)
  PROVE  DeviceInv'
<1>1. PICK r : /\ Moves(l, r) /\ UNCHANGED <<limitedIPs, unlimitedIPs, counters>>
               /\ \/ links[l].pc = "admitted" /\ r.pc = "open" /\ SameLink(r, links[l]) /\ connCount' = connCount + 1
                  \/ links[l].pc = "closed" /\ r = LD!NoLink /\ connCount' = connCount - 1
  BY DispatchedStep, UncountStep
<1>2. LinkOk(links[l]) /\ LD!NoLink.pc = "free" /\ connCount \in Int
  BY NoLinkType DEF DeviceInv, LinkType
<1>3. /\ \A e, a : /\ Cardinality(LD!Unreleased(e, a)') = Cardinality(LD!Unreleased(e, a))
                   /\ Cardinality(LD!CountedLinks(e, a)') = Cardinality(LD!CountedLinks(e, a))
      /\ connCount' = Cardinality(Draining')
  <2>1. \A e, a : /\ Holds(r, e, a) <=> Holds(links[l], e, a)
                  /\ HoldsCounted(r, e, a) <=> HoldsCounted(links[l], e, a)
    BY <1>1, <1>2 DEF Holds, HoldsCounted, SameLink
  <2>2. connCount' - connCount = One01(Drains(r)) - One01(Drains(links[l]))
    BY <1>1, <1>2 DEF Drains, One01
  <2>3. connCount' \in Int /\ One01(Drains(r)) \in Int /\ One01(Drains(links[l])) \in Int
    BY <1>1, <1>2 DEF One01
  <2>4. connCount = Cardinality(Draining)
    BY DEF DeviceInv
  <2>5. \A e, a : One01(Holds(r, e, a)) = One01(Holds(links[l], e, a))
                    /\ One01(HoldsCounted(r, e, a)) = One01(HoldsCounted(links[l], e, a))
                    /\ One01(Holds(r, e, a)) \in Int /\ One01(HoldsCounted(r, e, a)) \in Int
    BY <2>1 DEF One01
  <2> QED BY <1>1, <1>2, <2>2, <2>3, <2>4, <2>5, CountsMove
<1>4. \A e \in Users, a \in Addresses : LimitedOk(e, a)' /\ CounterOk(e, a)'
  BY <1>1, <1>3 DEF DeviceInv, LimitedOk, CounterOk
<1>5. OwnCounters'
  BY <1>1 DEF DeviceInv, OwnCounters
<1>6. LinkOk(r)'
  BY <1>1, <1>2 DEF LinkOk, SameLink
<1>7. \A m \in Links : LinkOk(links[m])'
  BY <1>1, <1>6, OthersOk
<1> QED BY <1>3, <1>4, <1>5, <1>7 DEF DeviceInv

\* A link that delConn releases among the limited was counted there.
LEMMA DelLimitedKeeps ==
  ASSUME LD!LimitDispatcherAssumption, LinkType, DeviceInv, NEW l \in Links, LD!DelLimited(l)
  PROVE  DeviceInv'
<1>0. PICK r : r = LD!Return(l)
  OBVIOUS
<1> DEFINE w == links[l].email
           i == links[l].ip
<1>1. /\ links[l].pc \in {"closing", "failing"} /\ ~unlimitedIPs[w].made /\ Moves(l, r)
      /\ \A e \in Users, a \in Addresses :
           limitedIPs'[e].ips[a] = IF e = w /\ a = i /\ limitedIPs[e].ips[a] > 0
                                   THEN limitedIPs[e].ips[a] - 1 ELSE limitedIPs[e].ips[a]
      /\ UNCHANGED <<unlimitedIPs, counters, connCount>>
  BY <1>0, DelLimitedStep
<1>2. /\ w \in Users /\ i \in Addresses /\ LinkOk(links[l])
      /\ \A e \in Users, a \in Addresses : limitedIPs[e].ips[a] \in Nat /\ unlimitedIPs[e].ips[a] \in Nat
  BY <1>1 DEF LinkType, DeviceInv, Books
<1>3. links[l].tcp /\ links[l].counted
  BY <1>1, <1>2 DEF LinkOk
<1>4. \/ r.pc = "free" /\ links[l].pc = "failing"
      \/ r.pc = "closed" /\ links[l].pc = "closing"
  BY <1>0, <1>1, ReturnMoves, NoLinkType
<1> HIDE DEF w, i
<1>5. /\ \A e, a : /\ Cardinality(LD!Unreleased(e, a)) \in Nat /\ Cardinality(LD!CountedLinks(e, a)) \in Nat
                   /\ Cardinality(LD!Unreleased(e, a)') = Cardinality(LD!Unreleased(e, a)) - One01(e = w /\ a = i)
                   /\ Cardinality(LD!CountedLinks(e, a)) = Cardinality(LD!CountedLinks(e, a)') + One01(e = w /\ a = i)
                   /\ Cardinality(LD!CountedLinks(e, a)') \in Nat
      /\ Cardinality(Draining') = Cardinality(Draining)
  <2>1. \A e, a : /\ Holds(links[l], e, a) <=> e = w /\ a = i
                  /\ HoldsCounted(links[l], e, a) <=> e = w /\ a = i
                  /\ ~Holds(r, e, a) /\ ~HoldsCounted(r, e, a)
    BY <1>1, <1>3, <1>4 DEF Holds, HoldsCounted, w, i
  <2>2. Drains(r) <=> Drains(links[l])
    BY <1>4 DEF Drains
  <2>3. \A e, a : Cardinality(LD!CountedLinks(e, a)') \in Nat
    <3>1. \A e, a : LD!CountedLinks(e, a)' \in SUBSET Links
      BY DEF LD!CountedLinks, LD!Unreleased
    <3>2. IsFiniteSet(Links)
      BY LinkCounts DEF LD!LimitDispatcherAssumption
    <3> QED BY <3>1, <3>2, FS_Subset, FS_CardinalityType
  <2> QED BY <1>1, <2>1, <2>2, <2>3, CountsMove DEF One01
<1>6. \A e \in Users, a \in Addresses : LimitedOk(e, a)' /\ CounterOk(e, a)'
  <2> TAKE e \in Users, a \in Addresses
  <2>1. LimitedOk(e, a) /\ CounterOk(e, a)
    BY DEF DeviceInv
  <2>2. CASE e = w /\ a = i
    <3>1. limitedIPs[e].ips[a] = Cardinality(LD!CountedLinks(e, a))
      BY <1>1, <2>1, <2>2 DEF LimitedOk
    <3>2. limitedIPs'[e].ips[a] = Cardinality(LD!CountedLinks(e, a)')
      BY <1>1, <1>2, <1>5, <2>2, <3>1 DEF One01
    <3>3. limitedIPs'[e].ips[a] \in Nat /\ unlimitedIPs[e].ips[a] = 0
      BY <1>1, <1>5, <2>1, <2>2, <3>2 DEF CounterOk
    <3> QED BY <1>1, <3>2, <3>3 DEF LimitedOk, CounterOk
  <2>3. CASE ~(e = w /\ a = i)
    <3>1. limitedIPs'[e].ips[a] = limitedIPs[e].ips[a]
      BY <1>1, <2>3
    <3>2. Cardinality(LD!CountedLinks(e, a)') = Cardinality(LD!CountedLinks(e, a))
            /\ Cardinality(LD!Unreleased(e, a)') = Cardinality(LD!Unreleased(e, a))
      BY <1>5, <2>3 DEF One01
    <3> QED BY <1>1, <2>1, <3>1, <3>2 DEF LimitedOk, CounterOk
  <2> QED BY <2>2, <2>3
<1>7. OwnCounters'
  BY <1>1 DEF DeviceInv, OwnCounters
<1>8. LinkOk(r)'
  BY <1>4 DEF LinkOk
<1>9. \A m \in Links : LinkOk(links[m])'
  BY <1>1, <1>8, OthersOk
<1> QED BY <1>1, <1>5, <1>6, <1>7, <1>9 DEF DeviceInv

\* A link that leaves its counter leaves it once.
LEMMA DelUnlimitedKeeps ==
  ASSUME LD!LimitDispatcherAssumption, LinkType, DeviceInv, NEW l \in Links, LD!DelUnlimited(l)
  PROVE  DeviceInv'
<1> DEFINE w == links[l].email
           i == links[l].ip
           id == unlimitedIPs[w].ips[i]
<1>1. /\ links[l].pc \in {"closing", "failing"} /\ unlimitedIPs[w].made
      /\ (id = 0 /\ counters' = counters) \/ (id # 0 /\ counters' = [counters EXCEPT ![id] = counters[id] - 1])
      /\ UNCHANGED <<limitedIPs, unlimitedIPs, connCount>>
  BY DelUnlimitedStep
<1>2. PICK r : Moves(l, r) /\ \/ r.pc \in {"free", "failed"} /\ links[l].pc = "failing"
                              \/ r.pc \in {"closed", "delete"} /\ links[l].pc = "closing"
  BY DelUnlimitedStep, NoLinkType
<1>3. w \in Users /\ i \in Addresses /\ LinkOk(links[l])
  BY <1>1 DEF LinkType, DeviceInv
<1>4. links[l].tcp
  BY <1>1, <1>3 DEF LinkOk
<1>5. /\ Len(counters') = Len(counters) /\ Len(counters) \in Nat
      /\ \A j \in 1..Len(counters) : /\ counters[j] \in Int
                                     /\ counters'[j] = IF id # 0 /\ j = id THEN counters[j] - 1 ELSE counters[j]
  <2>1. CASE id = 0
    BY <1>1, <2>1 DEF LinkType
  <2>2. CASE id # 0
    <3>1. counters' = [counters EXCEPT ![id] = counters[id] - 1]
      BY <1>1, <2>2
    <3> QED BY <2>2, <3>1, CounterDrops
  <2> QED BY <2>1, <2>2
<1> HIDE DEF w, i, id
<1>6. /\ \A e, a : /\ Cardinality(LD!Unreleased(e, a)) \in Nat /\ Cardinality(LD!CountedLinks(e, a)) \in Nat
                   /\ Cardinality(LD!Unreleased(e, a)') = Cardinality(LD!Unreleased(e, a)) - One01(e = w /\ a = i)
                   /\ Cardinality(LD!CountedLinks(e, a)') =
                        Cardinality(LD!CountedLinks(e, a)) - One01(HoldsCounted(links[l], e, a))
      /\ \A e, a : HoldsCounted(links[l], e, a) => e = w
      /\ Cardinality(Draining') = Cardinality(Draining)
  <2>1. \A e, a : /\ Holds(links[l], e, a) <=> e = w /\ a = i
                  /\ HoldsCounted(links[l], e, a) => e = w
                  /\ ~Holds(r, e, a) /\ ~HoldsCounted(r, e, a)
    BY <1>1, <1>2, <1>4 DEF Holds, HoldsCounted, w, i
  <2>2. Drains(r) <=> Drains(links[l])
    BY <1>2 DEF Drains
  <2> QED BY <1>2, <2>1, <2>2, CountsMove DEF One01
<1>7. \A e \in Users, a \in Addresses : LimitedOk(e, a)' /\ CounterOk(e, a)'
  <2> TAKE e \in Users, a \in Addresses
  <2>1. LimitedOk(e, a) /\ CounterOk(e, a) /\ limitedIPs[e].ips[a] \in Nat /\ unlimitedIPs[e].ips[a] \in Nat
    BY DEF DeviceInv, LinkType, Books
  <2>2. LimitedOk(e, a)'
    BY <1>1, <1>6, <2>1 DEF LimitedOk, One01
  <2>3. unlimitedIPs[e].ips[a] # 0 /\ unlimitedIPs[e].ips[a] = id => e = w /\ a = i
    BY <1>3 DEF DeviceInv, OwnCounters, id
  <2>4. e = w /\ a = i => unlimitedIPs[e].ips[a] = id
    BY DEF id
  <2>5. CounterOk(e, a)'
    BY <1>1, <1>5, <1>6, <2>1, <2>3, <2>4 DEF CounterOk, One01
  <2> QED BY <2>2, <2>5
<1>8. OwnCounters'
  BY <1>1 DEF DeviceInv, OwnCounters
<1>9. LinkOk(r)'
  BY <1>2 DEF LinkOk
<1>10. \A m \in Links : LinkOk(links[m])'
  BY <1>1, <1>2, <1>5, <1>9, OthersOk
<1> QED BY <1>1, <1>6, <1>7, <1>8, <1>10 DEF DeviceInv

\* Nothing counts at first.
LEMMA DeviceInit == LD!LimitDispatcherAssumption /\ LD!Init => DeviceInv
<1> SUFFICES ASSUME LD!LimitDispatcherAssumption, LD!Init PROVE DeviceInv
  OBVIOUS
<1>1. \A l \in Links : links[l].pc = "free"
  BY NoLinkType DEF LD!Init
<1>2. \A e, a : LD!Unreleased(e, a) = {} /\ LD!CountedLinks(e, a) = {}
  BY <1>1 DEF LD!Unreleased, LD!CountedLinks
<1>3. Draining = {}
  BY <1>1 DEF Draining, Drains
<1>4. \A e \in Users, a \in Addresses : limitedIPs[e].ips[a] = 0 /\ unlimitedIPs[e].ips[a] = 0
  BY DEF LD!Init, LD!NoCounts
<1>5. \A e \in Users, a \in Addresses : LimitedOk(e, a) /\ CounterOk(e, a)
  <2>1. \A e, a : Cardinality(LD!CountedLinks(e, a)) = 0
    BY <1>2, FS_EmptySet
  <2> QED BY <1>4, <2>1 DEF LimitedOk, CounterOk
<1>6. OwnCounters
  BY <1>4 DEF OwnCounters
<1>7. \A l \in Links : LinkOk(links[l])
  BY <1>1 DEF LinkOk
<1>8. connCount = Cardinality(Draining)
  BY <1>3, FS_EmptySet DEF LD!Init
<1> QED BY <1>5, <1>6, <1>7, <1>8 DEF DeviceInv

\* Every step of a link keeps the invariant.
LEMMA DeviceStep ==
  ASSUME LD!LimitDispatcherAssumption, LinkType, DeviceInv, NEW l \in Links, LD!LinkStep(l)
  PROVE  DeviceInv'
<1>0. LinkOk(links[l])
  BY DEF DeviceInv
<1>1. ASSUME NEW r, Moves(l, r), LinkOk(r), r.pc # "add",
             \A e, a : Holds(r, e, a) <=> Holds(links[l], e, a),
             \A e, a : HoldsCounted(r, e, a) <=> HoldsCounted(links[l], e, a),
             Drains(r) <=> Drains(links[l]),
             UNCHANGED <<limitedIPs, unlimitedIPs, counters, connCount>>
      PROVE  DeviceInv'
  BY <1>1, QuietMove
<1>2. ASSUME NEW e \in Users, NEW a \in Addresses, NEW tcp \in BOOLEAN, LD!Identify(l, e, a, tcp)
      PROVE  DeviceInv'
  <2>1. PICK r : /\ Moves(l, r) /\ links[l].pc = "free" /\ ~r.counted
                 /\ r.pc = "check" \/ (r.pc = "load" /\ r.tcp) \/ (r.pc = "admitted" /\ ~r.tcp)
                 /\ UNCHANGED <<limitedIPs, unlimitedIPs, counters, connCount>>
    BY <1>2, IdentifyStep
  <2>2. LinkOk(r) /\ r.pc # "add"
    BY <2>1 DEF LinkOk
  <2> QED BY <1>1, <2>1, <2>2 DEF Holds, HoldsCounted, Drains
<1>3. CASE LD!Check(l)
  <2>1. PICK r : /\ Moves(l, r) /\ links[l].pc = "check" /\ SameLink(r, links[l])
                 /\ (r.pc \in {"again", "room"} /\ r.tcp) \/ (r.pc = "admitted" /\ ~r.tcp) \/ r.pc = "slow"
                 /\ UNCHANGED <<limitedIPs, unlimitedIPs, counters, connCount>>
    BY <1>3, CheckStep
  <2>2. LinkOk(r) /\ r.pc # "add"
    BY <1>0, <2>1 DEF LinkOk, SameLink
  <2> QED BY <1>1, <2>1, <2>2 DEF Holds, HoldsCounted, Drains
<1>4. CASE LD!CountAgain(l)
  <2>1. CASE limitedIPs[links[l].email].made
    BY <1>0, <1>4, <2>1, CountKeeps DEF LD!CountAgain, LinkOk
  <2>2. CASE ~limitedIPs[links[l].email].made
    <3>1. UNCHANGED <<links, limitedIPs, unlimitedIPs, counters, connCount>>
      BY <1>4, <2>2 DEF LD!CountAgain
    <3> QED BY <3>1, NothingMoves
  <2> QED BY <2>1, <2>2
<1>5. CASE LD!CountRoom(l)
  BY <1>0, <1>5, CountKeeps DEF LD!CountRoom, LinkOk
<1>6. CASE LD!SlowPath(l)
  <2>1. CASE links[l].tcp /\ LD!Counted(l)
    BY <1>6, <2>1, SlowStep, CountKeeps
  <2>2. CASE ~(links[l].tcp /\ LD!Counted(l))
    <3>1. links[l].pc = "slow" /\ UNCHANGED <<unlimitedIPs, counters, connCount>>
      BY <1>6, SlowStep
    <3>2. PICK r : Moves(l, r) /\ (r.pc = "free" \/ (r.pc = "admitted" /\ ~r.tcp /\ SameLink(r, links[l])))
      BY <1>6, <2>2, SlowStep, NoLinkType
    <3>3. \A e \in Users, a \in Addresses : limitedIPs'[e].ips[a] = limitedIPs[e].ips[a]
      BY <1>6, <2>2, SlowStep
    <3>4. LinkOk(r) /\ r.pc # "add"
      BY <3>2 DEF LinkOk
    <3>5. /\ \A e, a : Holds(r, e, a) <=> Holds(links[l], e, a)
          /\ \A e, a : HoldsCounted(r, e, a) <=> HoldsCounted(links[l], e, a)
          /\ Drains(r) <=> Drains(links[l])
      BY <3>1, <3>2 DEF Holds, HoldsCounted, Drains
    <3> QED BY <3>1, <3>2, <3>3, <3>4, <3>5, QuietMove
  <2> QED BY <2>1, <2>2
<1>7. CASE LD!DispatchFails(l)
  <2>1. PICK r : /\ Moves(l, r) /\ links[l].pc = "admitted"
                 /\ (r.pc = "failing" /\ r.tcp /\ SameLink(r, links[l])) \/ (r.pc = "free" /\ ~links[l].tcp)
                 /\ UNCHANGED <<limitedIPs, unlimitedIPs, counters, connCount>>
    BY <1>7, FailsStep, NoLinkType
  <2>2. LinkOk(r) /\ r.pc # "add"
    BY <1>0, <2>1 DEF LinkOk, SameLink
  <2> QED BY <1>1, <2>1, <2>2 DEF Holds, HoldsCounted, Drains, SameLink
<1>8. CASE LD!Closed(l)
  <2>1. PICK r : /\ Moves(l, r) /\ links[l].pc = "open" /\ SameLink(r, links[l])
                 /\ (r.pc = "closing" /\ r.tcp) \/ (r.pc = "closed" /\ ~r.tcp)
                 /\ UNCHANGED <<limitedIPs, unlimitedIPs, counters, connCount>>
    BY <1>8, ClosedStep
  <2>2. LinkOk(r) /\ r.pc # "add"
    BY <1>0, <2>1 DEF LinkOk, SameLink
  <2> QED BY <1>1, <2>1, <2>2 DEF Holds, HoldsCounted, Drains, SameLink
<1>9. CASE LD!DeleteCounter(l)
  <2> DEFINE r == LD!Return(l)
  <2>1. /\ (r.pc = "free" /\ links[l].pc = "failed") \/ (r.pc = "closed" /\ links[l].pc = "delete")
        /\ Moves(l, r) /\ UNCHANGED <<limitedIPs, counters, connCount>>
        /\ \A e \in Users : /\ unlimitedIPs'[e].made <=> unlimitedIPs[e].made
                            /\ \A a \in Addresses : unlimitedIPs'[e].ips[a] \in {0, unlimitedIPs[e].ips[a]}
    BY <1>9, DeleteStep, NoLinkType
  <2> HIDE DEF r
  <2>2. LinkOk(r) /\ r.pc # "add"
    BY <2>1 DEF LinkOk
  <2>3. /\ \A e, a : Holds(r, e, a) <=> Holds(links[l], e, a)
        /\ \A e, a : HoldsCounted(r, e, a) <=> HoldsCounted(links[l], e, a)
        /\ Drains(r) <=> Drains(links[l])
    BY <2>1 DEF Holds, HoldsCounted, Drains
  <2> QED BY <2>1, <2>2, <2>3, QuietMove
<1> QED BY <1>2, <1>3, <1>4, <1>5, <1>6, <1>7, <1>8, <1>9, LoadKeeps, AddKeeps, DrainKeeps, DelLimitedKeeps,
           DelUnlimitedKeeps DEF LD!LinkStep

\* DevicesAreCounted: a device with a link is counted, whatever becomes of its owner's
\* limit, and the drain waits for the links that are open.
THEOREM LinksAreCounted == LD!Spec => []DevicesAreCounted
<1>1. LD!Init => LinkType /\ DeviceInv
  BY PartsAssumption, LinkInitType, DeviceInit
<1>2. LinkType /\ DeviceInv /\ [LD!Next]_(LD!dispatcherVars) => LinkType' /\ DeviceInv'
  <2> SUFFICES ASSUME LinkType, DeviceInv, [LD!Next]_(LD!dispatcherVars) PROVE LinkType' /\ DeviceInv'
    OBVIOUS
  <2>1. LinkType'
    BY PartsAssumption, LinkNextType
  <2>2. CASE \E l \in Links : LD!LinkStep(l)
    BY <2>1, <2>2, PartsAssumption, DeviceStep
  <2>3. CASE \E m \in [Users -> Limits] : LD!UpdateLimits(m)
    BY <2>1, <2>3, NothingMoves DEF LD!UpdateLimits
  <2>4. CASE UNCHANGED LD!dispatcherVars
    BY <2>1, <2>4, NothingMoves DEF LD!dispatcherVars
  <2> QED BY <2>2, <2>3, <2>4 DEF LD!Next
<1>3. LinkType /\ DeviceInv => DevicesAreCounted
  <2> SUFFICES ASSUME LinkType, DeviceInv PROVE DevicesAreCounted
    OBVIOUS
  <2>1. ASSUME NEW e \in Users, NEW a \in Addresses, unlimitedIPs[e].ips[a] # 0, counters[unlimitedIPs[e].ips[a]] > 0
        PROVE  LD!Unreleased(e, a) # {}
    <3>1. CounterOk(e, a) /\ counters \in Seq(Int)
      BY DEF DeviceInv, LinkType
    <3>2. counters[unlimitedIPs[e].ips[a]] <= Cardinality(LD!Unreleased(e, a)) /\ counters[unlimitedIPs[e].ips[a]] \in Int
      BY <2>1, <3>1 DEF CounterOk
    <3> QED BY <2>1, <3>2, FS_EmptySet
  <2>2. \A e \in Users, a \in Addresses : LimitedOk(e, a)
    BY DEF DeviceInv
  <2>3. Draining = {l \in Links : links[l].pc \in {"open", "closing", "delete", "closed"}}
    BY DEF Draining, Drains
  <2>4. connCount = Cardinality(Draining)
    BY DEF DeviceInv
  <2> QED BY <2>1, <2>2, <2>3, <2>4, LinkCounts DEF DevicesAreCounted, LD!DevicesAreCounted, LimitedOk
<1> QED BY <1>1, <1>2, <1>3, PTL DEF LD!Spec
==============================================================================
