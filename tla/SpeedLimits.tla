----------------------------- MODULE SpeedLimits -----------------------------
(***************************************************************************)
(* Speed limits: internal/limiter and the limited reads and writes of the  *)
(* sing-box kernel's tracked connections.                                  *)
(*                                                                         *)
(* The user controller replaces the limits in two critical sections, that  *)
(* of the Limiter and that of the SpeedTracker; connection goroutines ask  *)
(* for the bucket of their user in up to three (look up, read the limit,   *)
(* install) and keep what they got for life.  Tokens are not counted:      *)
(* whether a payer waits is chosen, how long is not a property; a unit of  *)
(* speed is what a bucket of one unit holds.                               *)
(***************************************************************************)
EXTENDS Integers, Sequences

CONSTANTS Users, Conns,
          Tables,       \* user lists: functions from their users to speeds, 0 for none
          Floor,        \* the least burst, 64 KiB in the code
          MaxBuffer,    \* largest buffer a connection moves (external)
          MaxEpochs,    \* bound: updates
          MaxLimiters   \* bound: limiters made

SpeedLimitsAssumption ==
  /\ \A t \in Tables : DOMAIN t \subseteq Users /\ \A u \in DOMAIN t : t[u] \in Nat
  /\ Floor \in Nat \ {0} /\ MaxBuffer \in Nat \ {0}
  /\ MaxEpochs \in Nat /\ MaxLimiters \in Nat

VARIABLES limits,    \* Limiter.users
          indexed,   \* domain of SpeedTracker.uuidMap
          buckets,   \* SpeedTracker.buckets: number of a limiter, 0 for none
          limiters,  \* the limiters installed, with the epochs of their making
          updating,  \* Replace has set the limits, not yet the buckets
          epoch,     \* updates completed (history)
          callers    \* the goroutines of connections

speedVars == <<limits, indexed, buckets, limiters, updating, epoch, callers>>

\* What a connection has to pay for: the size of a buffer, whether it was cut
\* to the burst, and the epoch of the look that cut it (history).
Nothing == [size |-> 0, cut |-> FALSE, looked |-> 0]
Idle == [pc |-> "free", user |-> "nobody", speed |-> 0, limiter |-> 0, since |-> 0, due |-> Nothing]

Init ==
  /\ limits = << >> /\ indexed = {} /\ buckets = [u \in Users |-> 0]
  /\ limiters = << >> /\ updating = FALSE /\ epoch = 0
  /\ callers = [c \in Conns |-> Idle]

-----------------------------------------------------------------------------
(* Replace and Restore of the user controller, under its lock              *)

UpdateUsers(t) ==
  /\ ~updating /\ epoch < MaxEpochs
  /\ limits' = t /\ updating' = TRUE
  /\ UNCHANGED <<indexed, buckets, limiters, epoch, callers>>

Burst(speed) == IF speed < Floor THEN Floor ELSE speed

Limited(u) == u \in DOMAIN limits /\ limits[u] > 0

\* Mutant: an update lowers the burst past the floor.
FloorForgotten(l, u) == [l EXCEPT !.speed = limits[u], !.burst = limits[u]]
SetLimiter(l, u) == [l EXCEPT !.speed = limits[u], !.burst = Burst(limits[u])]

\* Buckets of users that are still limited are set, the others dropped; a
\* limiter that was dropped stays as it is with the connections that have it.
UpdateBuckets ==
  /\ updating
  /\ limiters' = [i \in DOMAIN limiters |->
                    LET mine == {u \in Users : buckets[u] = i /\ Limited(u)} IN
                      IF mine = {} THEN limiters[i]
                      ELSE SetLimiter(limiters[i], CHOOSE u \in mine : TRUE)]
  /\ buckets' = [u \in Users |-> IF Limited(u) THEN buckets[u] ELSE 0]
  /\ indexed' = DOMAIN limits
  /\ updating' = FALSE /\ epoch' = epoch + 1
  /\ UNCHANGED <<limits, callers>>

-----------------------------------------------------------------------------
(* GetLimiter                                                              *)

Served(c, u, l) == [callers EXCEPT ![c] = [Idle EXCEPT !.pc = "open", !.user = u, !.limiter = l, !.since = epoch]]

\* Under the tracker's read lock.
Lookup(c, u) ==
  /\ callers[c].pc = "free"
  /\ callers' = IF u \in indexed /\ buckets[u] = 0
                THEN [callers EXCEPT ![c] = [Idle EXCEPT !.pc = "missed", !.user = u]]
                ELSE Served(c, u, IF u \in indexed THEN buckets[u] ELSE 0)
  /\ UNCHANGED <<limits, indexed, buckets, limiters, updating, epoch>>

\* Under the limiter's.
ReadLimit(c) ==
  /\ callers[c].pc = "missed"
  /\ LET u == callers[c].user IN
       callers' = IF Limited(u)
                  THEN [callers EXCEPT ![c] = [@ EXCEPT !.pc = "limited", !.speed = limits[u], !.since = epoch]]
                  ELSE Served(c, u, 0)
  /\ UNCHANGED <<limits, indexed, buckets, limiters, updating, epoch>>

\* Mutant: no second look under the write lock.
NeverThere(u) == FALSE
Installed(u) == buckets[u] # 0

\* Under the tracker's write lock.
Install(c) ==
  /\ callers[c].pc = "limited"
  /\ LET u == callers[c].user
         new == Len(limiters) + 1 IN
       IF Installed(u)
       THEN /\ callers' = Served(c, u, buckets[u])
            /\ UNCHANGED <<buckets, limiters>>
       ELSE /\ new <= MaxLimiters
            /\ limiters' = Append(limiters, [speed |-> callers[c].speed, burst |-> Burst(callers[c].speed),
                                             read |-> callers[c].since, made |-> epoch])
            /\ buckets' = [buckets EXCEPT ![u] = new]
            /\ callers' = Served(c, u, new)
  /\ UNCHANGED <<limits, indexed, updating, epoch>>

-----------------------------------------------------------------------------
(* Limited connections                                                     *)

LimiterOf(c) == limiters[callers[c].limiter]

\* Read and Write cut the buffer to the burst; packets and the counting
\* functions do not.  Reads are paid for after the data has moved, writes
\* before; either way the size was fixed by an earlier look at the burst, and
\* an update may come before the payment.
Move(c, size, cut) ==
  /\ callers[c].pc = "open" /\ callers[c].limiter # 0
  /\ callers' = [callers EXCEPT ![c].pc = "paying",
                   ![c].due = [size |-> IF cut /\ size > LimiterOf(c).burst THEN LimiterOf(c).burst ELSE size,
                               cut |-> cut, looked |-> epoch]]
  /\ UNCHANGED <<limits, indexed, buckets, limiters, updating, epoch>>

\* AllowN, or ReserveN and a timer, which never fires for what a full bucket
\* could not hold.
Pay(c) ==
  /\ callers[c].pc = "paying"
  /\ callers' = IF callers[c].due.size <= LimiterOf(c).burst
                THEN [callers EXCEPT ![c].pc = "open", ![c].due = Nothing]
                ELSE [callers EXCEPT ![c].pc = "stranded"]
  /\ UNCHANGED <<limits, indexed, buckets, limiters, updating, epoch>>

\* The connection ends, or its context.
Leave(c) ==
  /\ callers[c].pc \in {"open", "paying", "stranded"}
  /\ callers' = [callers EXCEPT ![c] = Idle]
  /\ UNCHANGED <<limits, indexed, buckets, limiters, updating, epoch>>

Next ==
  \/ \E t \in Tables : UpdateUsers(t)
  \/ UpdateBuckets
  \/ \E c \in Conns :
       \/ \E u \in Users : Lookup(c, u)
       \/ ReadLimit(c) \/ Install(c)
       \/ \E size \in 1..MaxBuffer, cut \in BOOLEAN : Move(c, size, cut)
       \/ Pay(c) \/ Leave(c)

Spec == Init /\ [][Next]_speedVars

-----------------------------------------------------------------------------
(* Properties                                                              *)

\* The connections of a user share one budget, and it is the user's.  Between
\* two updates all that are limited, however many asked at once, hold the same
\* limiter, the one the next update will change; and it runs at the speed of
\* the user, unless it was installed since the last update by a caller that
\* had read the limit before that update ended, which the next one repairs.
SharedBudget ==
  ~updating =>
    /\ \A c \in Conns :
         callers[c].pc = "open" /\ callers[c].limiter # 0 /\ callers[c].since = epoch =>
           callers[c].limiter = buckets[callers[c].user]
    /\ \A u \in Users : buckets[u] # 0 =>
         LET l == limiters[buckets[u]] IN
           \/ Limited(u) /\ l.speed = limits[u]
           \/ l.read < l.made /\ l.made = epoch

\* A payer that waits for more than his bucket holds, until his connection
\* ends, has no other cause than these: his buffer was above the floor of the
\* burst, and if it was cut to the burst, an update has ended since.  So what
\* fits the floor never waits in vain, whatever the updates, and between two
\* updates neither does a buffer that was cut.
StrandedForCause ==
  \A c \in Conns : callers[c].pc = "stranded" =>
    /\ callers[c].due.size > Floor
    /\ callers[c].due.cut => callers[c].due.looked < epoch
=============================================================================
