--------------------------- MODULE NodeSync_proofs ---------------------------
(***************************************************************************)
(* What the runs of NodeSync show on small instances, for every number of  *)
(* versions, every channel capacity and every bound on waiting goroutines. *)
(***************************************************************************)
EXTENDS NodeSync, TLAPS

(* Helpers *)

\* Without returns a sequence of results that is one shorter.
LEMMA WithoutSeq ==
  ASSUME NEW s \in Seq(Results), NEW i \in DOMAIN s
  PROVE  /\ Without(s, i) \in Seq(Results)
         /\ DOMAIN Without(s, i) = 1..(Len(s) - 1)
         /\ \A j \in DOMAIN Without(s, i) : Without(s, i)[j] \in Results
  <1>1. Len(s) - 1 \in Nat  OBVIOUS
  <1>2. \A r \in Results : [r EXCEPT !.overtaken = TRUE] \in Results
    BY DEF Results
  <1>3. \A j \in 1..(Len(s) - 1) :
          (IF j < i THEN [s[j] EXCEPT !.overtaken = TRUE] ELSE s[j + 1]) \in Results
    <2> SUFFICES ASSUME NEW j \in 1..(Len(s) - 1)
                 PROVE  (IF j < i THEN [s[j] EXCEPT !.overtaken = TRUE] ELSE s[j + 1]) \in Results
      OBVIOUS
    <2>1. s[j] \in Results /\ s[j + 1] \in Results  OBVIOUS
    <2> QED  BY <1>2, <2>1
  <1> QED  BY <1>1, <1>3 DEF Without

\* An element of what is left to send comes from an element of the same
\* versions, further back for those the i-th has overtaken and one place on for
\* the others.
LEMMA WithoutFrom ==
  ASSUME NEW s \in Seq(Results), NEW i \in DOMAIN s, NEW j \in DOMAIN Without(s, i)
  PROVE  LET k == IF j < i THEN j ELSE j + 1  w == Without(s, i)[j] IN
         /\ k \in DOMAIN s /\ k # i
         /\ w.cfg = s[k].cfg /\ w.users = s[k].users
         /\ w.overtaken = (s[k].overtaken \/ k < i)
  <1>1. j \in 1..(Len(s) - 1) /\ i \in 1..Len(s) /\ Len(s) \in Nat
    BY WithoutSeq
  <1>2. CASE j < i
    <2>1. s[j] \in Results /\ j \in DOMAIN s  BY <1>1
    <2>2. Without(s, i)[j] = [s[j] EXCEPT !.overtaken = TRUE]  BY <1>1, <1>2 DEF Without
    <2>3. \A r \in Results : LET x == [r EXCEPT !.overtaken = TRUE] IN
            x.cfg = r.cfg /\ x.users = r.users /\ x.overtaken = TRUE
      BY DEF Results
    <2>4. /\ Without(s, i)[j].cfg = s[j].cfg /\ Without(s, i)[j].users = s[j].users
          /\ Without(s, i)[j].overtaken = TRUE
      BY <2>1, <2>2, <2>3
    <2>5. Without(s, i)[j].overtaken = (s[j].overtaken \/ j < i)
      BY <1>2, <2>4
    <2>6. j # i  BY <1>1, <1>2
    <2> QED  BY <1>2, <2>1, <2>4, <2>5, <2>6
  <1>3. CASE ~(j < i)
    <2>1. s[j + 1] \in Results /\ j + 1 \in DOMAIN s /\ ~(j + 1 < i) /\ j + 1 # i
      BY <1>1, <1>3
    <2>2. Without(s, i)[j] = s[j + 1]  BY <1>1, <1>3 DEF Without
    <2> QED  BY <1>3, <2>1, <2>2 DEF Results
  <1> QED  BY <1>2, <1>3

\* Removing element i keeps the versions of every other element.
LEMMA WithoutKeeps ==
  ASSUME NEW s \in Seq(Results), NEW i \in DOMAIN s, NEW k \in DOMAIN s, k # i
  PROVE  \E j \in DOMAIN Without(s, i) :
           Without(s, i)[j].cfg = s[k].cfg /\ Without(s, i)[j].users = s[k].users
  <1>0. DOMAIN Without(s, i) = 1..(Len(s) - 1) /\ Len(s) \in Nat
    BY WithoutSeq
  <1>1. CASE k < i
    <2>1. k \in DOMAIN Without(s, i)  BY <1>0, <1>1
    <2> QED  BY <1>1, <2>1, WithoutFrom
  <1>2. CASE k > i
    <2>1. k - 1 \in DOMAIN Without(s, i)  BY <1>0, <1>2
    <2>2. ~(k - 1 < i) /\ (k - 1) + 1 = k  BY <1>2
    <2> QED  BY <2>1, <2>2, WithoutFrom
  <1> QED  BY <1>1, <1>2

\* The kernel operations return kernels.
LEMMA KernelType ==
  ASSUME TypeOK, NEW c \in Cfgs, NEW u \in UserLists
  PROVE  /\ Serving(c, u) \in Kernels
         /\ Stopped(kern) \in Kernels
         /\ Reload(kern, c, u) \subseteq Kernels
         /\ \A s \in Start(kern, c, u) \cup UpdateUsers(kern, c, u) : s.k \in Kernels
  <1>1. Serving(c, u) \in Kernels  BY DEF TypeOK, Serving, Kernels
  <1>2. Stopped(kern) \in Kernels  BY DEF TypeOK, Stopped, Kernels
  <1>3. Broken(kern) \subseteq Kernels  BY DEF TypeOK, Broken, Kernels
  <1>4. \A b \in Kernels : \A s \in Start(b, c, u) : s.k \in Kernels
    BY <1>1 DEF Start
  <1>5. kern \in Kernels /\ [kern EXCEPT !.users = u, !.inbound = @ \/ kern.users # u] \in Kernels
    BY DEF TypeOK, Kernels
  <1>6. Reload(kern, c, u) \subseteq Kernels
    BY <1>1, <1>3, <1>4 DEF Reload
  <1>7. \A s \in UpdateUsers(kern, c, u) : s.k \in Kernels
    <2> SUFFICES ASSUME NEW s \in UpdateUsers(kern, c, u) PROVE s.k \in Kernels
      OBVIOUS
    <2>1. CASE s.k = [kern EXCEPT !.users = u, !.inbound = @ \/ kern.users # u]
      BY <2>1, <1>5
    <2>2. CASE \E b \in Broken(kern) : s \in Start(b, c, u)
      BY <2>2, <1>3, <1>4
    <2> QED  BY <2>1, <2>2 DEF UpdateUsers
  <1> QED  BY <1>1, <1>2, <1>4, <1>5, <1>6, <1>7

\* Both ways of applying a change keep the types of the desired state and the
\* kernel.
LEMMA ApplyType ==
  ASSUME TypeOK, NEW c \in Cfgs, NEW u \in UserLists
  PROVE  /\ ApplyChanges(c, u) => kern' \in Kernels
         /\ ApplyUserUpdate(u) => kern' \in Kernels /\ want' \in Versions
  <1>1. ApplyChanges(c, u) => kern' \in Kernels
    BY KernelType DEF ApplyChanges, TypeOK
  <1>2. want \in Versions /\ want.cfg \in Cfgs /\ [want EXCEPT !.users = u] \in Versions
    BY DEF TypeOK, Versions
  <1>3. ApplyUserUpdate(u) => kern' \in Kernels /\ want' \in Versions
    <2> SUFFICES ASSUME ApplyUserUpdate(u) PROVE kern' \in Kernels /\ want' \in Versions
      OBVIOUS
    <2>1. CASE ~kern.run /\ (Empty(u) \/ want.cfg = 0)
      BY <2>1, <1>2 DEF ApplyUserUpdate, TypeOK
    <2>2. CASE ~(~kern.run /\ (Empty(u) \/ want.cfg = 0))
      <3>1. PICK s \in Start(kern, want.cfg, u) \cup UpdateUsers(kern, want.cfg, u) :
              /\ kern' = s.k
              /\ want' = IF s.ok THEN [want EXCEPT !.users = u] ELSE want
        BY <2>2 DEF ApplyUserUpdate
      <3> QED  BY <3>1, <1>2, KernelType
    <2> QED  BY <2>1, <2>2
  <1> QED  BY <1>1, <1>3

-----------------------------------------------------------------------------
(* Types *)

SyncType == [pull : Pulls, skip : Nat, resync : BOOLEAN]

\* Scheduling a poll keeps the type of the synchroniser.
LEMMA ScheduleType ==
  ASSUME TypeOK, NEW s \in SyncType, NEW b \in BOOLEAN
  PROVE  Tried(s, b) \in SyncType /\ Resynced(s, b) \in SyncType
  <1>1. Tried(s, b) \in SyncType
    <2>1. want.cfg \in Cfgs  BY DEF TypeOK, Versions
    <2>2. 0 \in Cfgs  BY NodeSyncAssumption DEF Cfgs
    <2> QED  BY <2>1, <2>2 DEF Tried, SyncType, Pulls
  <1>2. Resynced(s, b) \in SyncType
    BY <1>1 DEF Resynced, SyncType
  <1> QED  BY <1>1, <1>2

\* A push leaves both channels well typed and within their capacity.
LEMMA PushType ==
  ASSUME TypeOK, NEW kind, NEW v, [kind |-> kind, v |-> v] \in Events, Push(kind, v)
  PROVE  /\ events' \in Seq(Events) /\ Len(events') <= EventCap
         /\ statuses' \in Seq({"plain", "resync"}) /\ Len(statuses') <= StatusCap
  <1> DEFINE e == [kind |-> kind, v |-> v]
  <1>0. /\ events \in Seq(Events) /\ Len(events) <= EventCap /\ EventCap \in Nat
        /\ statuses \in Seq({"plain", "resync"}) /\ Len(statuses) <= StatusCap
        /\ StatusCap \in Nat
    BY NodeSyncAssumption DEF TypeOK
  <1>1. CASE Len(events) < EventCap
    <2>1. events' = Append(events, e) /\ statuses' = statuses  BY <1>1 DEF Push
    <2>2. e \in Events  OBVIOUS
    <2> HIDE DEF e
    <2> QED  BY <1>0, <1>1, <2>1, <2>2
  <1>2. CASE ~(Len(events) < EventCap)
    <2>1. events' = events
      BY <1>2 DEF Push
    <2>2. statuses' = IF Len(statuses) < StatusCap THEN Append(statuses, "resync") ELSE statuses
      BY <1>2 DEF Push
    <2> QED  BY <1>0, <2>1, <2>2
  <1> QED  BY <1>1, <1>2

\* The oldest event carries a version of its kind.
LEMMA HeadType ==
  ASSUME TypeOK, events # <<>>
  PROVE  /\ Head(events).kind = "cfg" => Head(events).v \in Cfgs
         /\ Head(events).kind = "users" => Head(events).v \in UserLists
  <1>1. Head(events) \in Events  BY DEF TypeOK
  <1>2. \A e \in Events :
           /\ e.kind = "cfg" => e.v \in Cfgs
           /\ e.kind = "users" => e.v \in UserLists
    BY DEF Events, Cfgs, UserLists
  <1> QED  BY <1>1, <1>2

\* Taking the oldest event leaves the channel well typed and within its capacity.
LEMMA TailType ==
  ASSUME TypeOK, events # <<>>, events' = Tail(events)
  PROVE  events' \in Seq(Events) /\ Len(events') <= EventCap
  <1>1. events \in Seq(Events) /\ Len(events) <= EventCap /\ EventCap \in Nat
    BY NodeSyncAssumption DEF TypeOK
  <1>2. Tail(events) \in Seq(Events) /\ Len(Tail(events)) = Len(events) - 1
    BY <1>1
  <1>3. Len(events) \in Nat  BY <1>1
  <1> QED  BY <1>1, <1>2, <1>3

\* The initial state has its type.
LEMMA InitType == Init => TypeOK
  <1> SUFFICES ASSUME Init PROVE TypeOK  OBVIOUS
  <1>1. 0 \in Cfgs /\ 1 \in Cfgs /\ 0 \in UserLists /\ 1 \in UserLists /\ 1 \in 1..(MaxCerts + 1)
    BY NodeSyncAssumption DEF Cfgs, UserLists
  <1>2. panel \in Versions /\ etag \in Versions /\ want \in Versions
    BY <1>1 DEF Init, Versions
  <1>3. sync \in [pull : Pulls, skip : Nat, resync : BOOLEAN]
    BY <1>1 DEF Init, NoPull, Pulls
  <1>4. kern \in Kernels
    BY <1>1 DEF Init, Stopped, Serving, Kernels
  <1>5. judged \in [cfg : SUBSET Cfgs, users : SUBSET UserLists]
    BY <1>1 DEF Init
  <1>6. events \in Seq(Events) /\ statuses \in Seq({"plain", "resync"})
          /\ outbox \in Seq(Results) /\ results \in Seq(Results) /\ Len(results) <= 1
          /\ Len(events) <= EventCap /\ Len(statuses) <= StatusCap
    BY NodeSyncAssumption DEF Init
  <1>7. link \in BOOLEAN /\ renewed \in BOOLEAN /\ cert \in 1..(MaxCerts + 1)
    BY <1>1, NodeSyncAssumption DEF Init
  <1> QED  BY <1>2, <1>3, <1>4, <1>5, <1>6, <1>7 DEF TypeOK

\* Every step keeps the types.
LEMMA NextType == TypeOK /\ [Next]_vars => TypeOK'
  <1> SUFFICES ASSUME TypeOK, [Next]_vars PROVE TypeOK'  OBVIOUS
  <1> USE NodeSyncAssumption
  <1>0. /\ panel \in Versions /\ panel.cfg \in Cfgs /\ panel.users \in UserLists
        /\ etag \in Versions /\ want \in Versions /\ want.cfg \in Cfgs
        /\ want.users \in UserLists /\ sync \in SyncType /\ sync.pull \in Pulls
        /\ sync.pull.cfg \in Cfgs /\ sync.pull.cert \in BOOLEAN /\ 0 \in Cfgs
        /\ 0 \in UserLists /\ NoPull \in Pulls
    <2>1. 0 \in Cfgs /\ 0 \in UserLists  BY DEF Cfgs, UserLists
    <2>2. NoPull \in Pulls  BY <2>1 DEF NoPull, Pulls
    <2>3. panel \in Versions /\ etag \in Versions /\ want \in Versions /\ sync \in SyncType
      BY DEF TypeOK, SyncType
    <2>4. /\ panel.cfg \in Cfgs /\ panel.users \in UserLists
          /\ want.cfg \in Cfgs /\ want.users \in UserLists
      BY <2>3 DEF Versions
    <2>5. sync.pull \in Pulls  BY <2>3 DEF SyncType
    <2>6. sync.pull.cfg \in Cfgs /\ sync.pull.cert \in BOOLEAN  BY <2>5 DEF Pulls
    <2> QED  BY <2>1, <2>2, <2>3, <2>4, <2>5, <2>6
  <1>1. CASE EditConfig
    <2>1. panel' \in Versions  BY <1>0, <1>1 DEF EditConfig, Edit, Versions, Cfgs
    <2>2. [kind |-> "cfg", v |-> panel.cfg + 1] \in Events
      BY <1>0, <1>1 DEF EditConfig, Events, Cfgs
    <2>3. /\ events' \in Seq(Events) /\ Len(events') <= EventCap
          /\ statuses' \in Seq({"plain", "resync"}) /\ Len(statuses') <= StatusCap
      BY <1>1, <2>2, PushType DEF EditConfig, Edit, pushVars, TypeOK
    <2> QED
      BY <1>1, <2>1, <2>3 DEF EditConfig, Edit, TypeOK, pollVars, nodeVars, certVars
  <1>2. CASE EditUsers
    <2>1. panel' \in Versions  BY <1>0, <1>2 DEF EditUsers, Edit, Versions, UserLists
    <2>2. [kind |-> "users", v |-> panel.users + 1] \in Events
      BY <1>0, <1>2 DEF EditUsers, Events, UserLists
    <2>3. /\ events' \in Seq(Events) /\ Len(events') <= EventCap
          /\ statuses' \in Seq({"plain", "resync"}) /\ Len(statuses') <= StatusCap
      BY <1>2, <2>2, PushType DEF EditUsers, Edit, pushVars, TypeOK
    <2> QED
      BY <1>2, <2>1, <2>3 DEF EditUsers, Edit, TypeOK, pollVars, nodeVars, certVars
  <1>3. CASE LinkFlips
    <2>1. statuses' \in Seq({"plain", "resync"}) /\ Len(statuses') <= StatusCap
      BY <1>3 DEF LinkFlips, TypeOK
    <2> QED  BY <1>3, <2>1 DEF LinkFlips, TypeOK, pollVars, nodeVars, certVars
  <1>4. CASE Renew
    BY <1>4 DEF Renew, TypeOK, pushVars, pollVars, nodeVars
  <1>5. CASE FetchConfig
    <2>1. Modified("cfg") \in Cfgs  BY <1>0 DEF Modified
    <2>2. etag' \in Versions  BY <1>0, <1>5 DEF FetchConfig, Tag, Versions
    <2>3. sync' \in SyncType  BY <1>0, <1>5, <2>1 DEF FetchConfig, SyncType, Pulls
    <2> QED
      BY <1>5, <2>2, <2>3 DEF FetchConfig, TypeOK, SyncType, pushVars, nodeVars, certVars
  <1>6. CASE FetchUsers
    <2>1. Copied(Modified("users")) \in UserLists /\ Dedup(sync.pull.cfg) \in Cfgs
      BY <1>0 DEF Modified, Copied, Dedup
    <2>2. etag' \in Versions  BY <1>0, <1>6 DEF FetchUsers, Tag, Versions
    <2>3. sync' \in SyncType  BY <1>0, <1>6 DEF FetchUsers, SyncType
    <2>4. outbox' \in Seq(Results)
      BY <1>0, <1>6, <2>1 DEF FetchUsers, TypeOK, Results
    <2> QED
      BY <1>6, <2>2, <2>3, <2>4 DEF FetchUsers, TypeOK, SyncType, pushVars, nodeVars, certVars
  <1>7. CASE FetchFails
    <2>1. etag' \in Versions  BY <1>0, <1>7 DEF FetchFails, Tag, Versions
    <2>2. sync' \in SyncType  BY <1>0, <1>7 DEF FetchFails, SyncType
    <2> QED
      BY <1>7, <2>1, <2>2 DEF FetchFails, TypeOK, SyncType, pushVars, nodeVars, certVars
  <1>8. CASE Publish
    <2>1. PICK i \in Senders : results' = <<outbox[i]>> /\ outbox' = Without(outbox, i)
      BY <1>8 DEF Publish
    <2>2. i \in DOMAIN outbox /\ outbox \in Seq(Results)
      BY <2>1 DEF Senders, TypeOK
    <2>3. outbox' \in Seq(Results) /\ results' \in Seq(Results) /\ Len(results') <= 1
      BY <2>1, <2>2, WithoutSeq
    <2> QED
      BY <1>8, <2>3 DEF Publish, TypeOK, pushVars, nodeVars, certVars
  <1>9. CASE PullTick
    <2>1. sync' \in SyncType  BY <1>0, <1>9, ScheduleType DEF PullTick, TypeOK
    <2> QED
      BY <1>9, <2>1 DEF PullTick, TypeOK, SyncType, pushVars, pollVars, nodeVars
  <1>10. CASE HandleStatus
    <2>1. Resynced(sync, renewed) \in SyncType /\ renewed \in BOOLEAN
      BY <1>0, ScheduleType DEF TypeOK
    <2>2. sync' \in SyncType  BY <1>0, <1>10, <2>1, ScheduleType DEF HandleStatus
    <2>3. statuses' \in Seq({"plain", "resync"}) /\ Len(statuses') <= StatusCap
      BY <1>10 DEF HandleStatus, TypeOK
    <2> QED
      BY <1>10, <2>2, <2>3 DEF HandleStatus, TypeOK, SyncType, pollVars, nodeVars
  <1>11. CASE ApplyResult
    <2> DEFINE r == Head(results)
               c == IF r.cfg = 0 \/ r.cfg \in Refused THEN want.cfg ELSE r.cfg
               u == IF r.users = 0 THEN want.users ELSE r.users
    <2>0. results \in Seq(Results) /\ results # <<>>  BY <1>11 DEF ApplyResult, TypeOK
    <2>1. r \in Results /\ r.cfg \in Cfgs /\ r.users \in UserLists
      <3>1. r \in Results  BY <2>0
      <3> HIDE DEF r
      <3> QED  BY <3>1 DEF Results
    <2>2. c \in Cfgs /\ u \in UserLists  BY <2>1, <1>0
    <2>3. judged' \in [cfg : SUBSET Cfgs, users : SUBSET UserLists]
      BY <1>11, <2>1 DEF ApplyResult, TypeOK
    <2> HIDE DEF c, u
    <2>4. \/ want' = [cfg |-> c, users |-> u] /\ ApplyChanges(c, u)
          \/ ApplyUserUpdate(u)
          \/ UNCHANGED <<want, kern>>
      BY <1>11 DEF ApplyResult, c, u
    <2>5. want' \in Versions /\ kern' \in Kernels
      BY <2>2, <2>4, ApplyType DEF TypeOK, Versions
    <2>6. sync' \in SyncType  BY <1>0, <1>11 DEF ApplyResult, CompleteResync, SyncType
    <2>7. results' = <<>> BY <1>11 DEF ApplyResult
    <2> QED
      BY <1>11, <2>3, <2>5, <2>6, <2>7 DEF ApplyResult, TypeOK, SyncType, pushVars, certVars
  <1>12. CASE HandleConfigEvent
    <2> DEFINE c == Head(events).v
    <2>0. events # <<>> /\ Head(events).kind = "cfg" /\ events' = Tail(events)
      BY <1>12 DEF HandleConfigEvent
    <2>1. c \in Cfgs /\ events' \in Seq(Events) /\ Len(events') <= EventCap
      BY <2>0, HeadType, TailType
    <2>2. judged' \in [cfg : SUBSET Cfgs, users : SUBSET UserLists]
      BY <1>12, <2>1 DEF HandleConfigEvent, Judge, TypeOK
    <2>3. want' \in Versions /\ kern' \in Kernels
      BY <1>0, <1>12, <2>1, ApplyType DEF HandleConfigEvent, TypeOK, Versions
    <2> QED
      BY <1>12, <2>1, <2>2, <2>3 DEF HandleConfigEvent, TypeOK, pollVars, certVars
  <1>13. CASE HandleUsersEvent
    <2> DEFINE u == Head(events).v
    <2>0. events # <<>> /\ Head(events).kind = "users" /\ events' = Tail(events)
      BY <1>13 DEF HandleUsersEvent
    <2>1. u \in UserLists /\ events' \in Seq(Events) /\ Len(events') <= EventCap
      BY <2>0, HeadType, TailType
    <2>2. judged' \in [cfg : SUBSET Cfgs, users : SUBSET UserLists]
      BY <1>13, <2>1 DEF HandleUsersEvent, Judge, TypeOK
    <2>3. want' \in Versions /\ kern' \in Kernels
      BY <1>0, <1>13, <2>1, ApplyType DEF HandleUsersEvent, TypeOK
    <2> QED
      BY <1>13, <2>1, <2>2, <2>3 DEF HandleUsersEvent, TypeOK, pollVars, certVars
  <1>14. CASE UNCHANGED vars
    BY <1>14 DEF vars, TypeOK
  <1> QED
    BY <1>1, <1>2, <1>3, <1>4, <1>5, <1>6, <1>7, <1>8, <1>9, <1>10, <1>11, <1>12,
       <1>13, <1>14 DEF Next, External, Goroutine, SelectLoop

\* Every variable keeps its type: in particular the event and status channels
\* never exceed their capacity, whatever the panel pushes.
THEOREM TypeCorrect == Spec => []TypeOK
  <1> QED  BY InitType, NextType, PTL DEF Spec

-----------------------------------------------------------------------------
(* The kernel follows the desired state                                    *)

\* KernelFollows is inductive once a running kernel is known to have a
\* configuration: applyChanges returns early without one.
KernelInv == TypeOK /\ KernelFollows /\ (kern.run => kern.cfg # 0)

\* Without kernel faults a start succeeds, and so does a reload.
LEMMA StartSucceeds ==
  ASSUME ~KernelFaults, NEW k, NEW c, NEW u
  PROVE  Start(k, c, u) = {[ok |-> TRUE, k |-> Serving(c, u)]}
BY DEF Start

LEMMA ReloadSucceeds ==
  ASSUME ~KernelFaults, NEW k, NEW c, NEW u
  PROVE  Reload(k, c, u) = {Serving(c, u)}
  <1>1. Broken(k) = {}  BY DEF Broken
  <1> QED  BY <1>1 DEF Reload

\* Without kernel faults each operation does what it is asked.
LEMMA NoFaults ==
  ASSUME ~KernelFaults, NEW c, NEW u
  PROVE  /\ Start(kern, c, u) = {[ok |-> TRUE, k |-> Serving(c, u)]}
         /\ Reload(kern, c, u) = {Serving(c, u)}
         /\ UpdateUsers(kern, c, u)
              = {[ok |-> TRUE, k |-> [kern EXCEPT !.users = u, !.inbound = @ \/ kern.users # u]]}
  <1>1. Broken(kern) = {}  BY DEF Broken
  <1>2. Start(kern, c, u) = {[ok |-> TRUE, k |-> Serving(c, u)]}  BY StartSucceeds
  <1>3. Reload(kern, c, u) = {Serving(c, u)}  BY ReloadSucceeds
  <1>4. UNION {Start(b, c, u) : b \in Broken(kern)} = {}  BY <1>1
  <1> QED  BY <1>2, <1>3, <1>4 DEF UpdateUsers

\* applyChanges brings the kernel to the configuration and users just accepted.
LEMMA ChangesFollow ==
  ASSUME ~KernelFaults, KernelInv, NEW c \in Cfgs, NEW u \in UserLists,
         c = 0 => want.cfg = 0, ApplyChanges(c, u), want' = [cfg |-> c, users |-> u]
  PROVE  KernelFollows' /\ (kern'.run => kern'.cfg # 0)
  <1> USE DEF KernelInv
  <1>0. kern \in Kernels  BY DEF TypeOK
  <1>1. CASE Empty(u)
    <2>1. kern'.run = FALSE /\ Empty(want'.users)
      BY <1>0, <1>1 DEF ApplyChanges, Stopped, Kernels
    <2> QED  BY <2>1 DEF KernelFollows, Empty
  <1>2. CASE ~Empty(u) /\ c = 0
    <2>1. ~kern.run /\ kern' = kern  BY <1>2 DEF ApplyChanges, KernelFollows
    <2> QED  BY <1>2, <2>1 DEF KernelFollows
  <1>3. CASE ~Empty(u) /\ c # 0
    <2>0. /\ Start(kern, c, u) = {[ok |-> TRUE, k |-> Serving(c, u)]}
          /\ Reload(kern, c, u) = {Serving(c, u)}
      BY <1>0, StartSucceeds, ReloadSucceeds
    <2>1. kern' = Serving(c, u)
      <3>1. CASE kern.run  BY <1>3, <2>0, <3>1 DEF ApplyChanges
      <3>2. CASE ~kern.run
        <4>1. PICK t \in Start(kern, c, u) : kern' = t.k  BY <1>3, <3>2 DEF ApplyChanges
        <4> QED  BY <2>0, <4>1
      <3> QED  BY <3>1, <3>2
    <2> QED  BY <1>3, <2>1 DEF KernelFollows, Serving
  <1> QED  BY <1>1, <1>2, <1>3

\* applyUserUpdate keeps the kernel in step with the desired users.
LEMMA UserUpdateFollows ==
  ASSUME ~KernelFaults, KernelInv, NEW u \in UserLists, ApplyUserUpdate(u)
  PROVE  KernelFollows' /\ (kern'.run => kern'.cfg # 0)
  <1> USE DEF KernelInv
  <1>0. kern \in Kernels /\ want \in Versions  BY DEF TypeOK
  <1>1. CASE ~kern.run /\ (Empty(u) \/ want.cfg = 0)
    <2>1. want' = [want EXCEPT !.users = u] /\ kern' = kern
      BY <1>1 DEF ApplyUserUpdate
    <2>2. want'.cfg = want.cfg /\ want'.users = u  BY <1>0, <2>1 DEF Versions
    <2> QED  BY <1>1, <2>1, <2>2 DEF KernelFollows, Empty
  <1>2. CASE kern.run
    <2>0. PICK t \in UpdateUsers(kern, want.cfg, u) :
            /\ kern' = t.k
            /\ want' = IF t.ok THEN [want EXCEPT !.users = u] ELSE want
      BY <1>2 DEF ApplyUserUpdate
    <2>1. /\ kern' = [kern EXCEPT !.users = u, !.inbound = @ \/ kern.users # u]
          /\ want' = [want EXCEPT !.users = u]
      <3>1. UpdateUsers(kern, want.cfg, u)
              = {[ok |-> TRUE, k |-> [kern EXCEPT !.users = u, !.inbound = @ \/ kern.users # u]]}
        BY NoFaults
      <3> QED  BY <2>0, <3>1
    <2> QED  BY <1>0, <1>2, <2>1 DEF KernelFollows, Kernels, Versions
  <1>3. CASE ~kern.run /\ ~(Empty(u) \/ want.cfg = 0)
    <2>0. PICK t \in Start(kern, want.cfg, u) :
            /\ kern' = t.k
            /\ want' = IF t.ok THEN [want EXCEPT !.users = u] ELSE want
      BY <1>3 DEF ApplyUserUpdate
    <2>1. kern' = Serving(want.cfg, u) /\ want' = [want EXCEPT !.users = u]
      <3>1. Start(kern, want.cfg, u) = {[ok |-> TRUE, k |-> Serving(want.cfg, u)]}
        BY DEF Start
      <3> QED  BY <2>0, <3>1
    <2> QED  BY <1>0, <1>3, <2>1 DEF KernelFollows, Serving, Versions
  <1> QED  BY <1>1, <1>2, <1>3

\* Every step keeps the kernel in step with the desired state.
LEMMA KernelNext ==
  ASSUME ~KernelFaults, KernelInv, [Next]_vars
  PROVE  KernelInv'
  <1>0. TypeOK /\ TypeOK' /\ 0 \in Cfgs
    BY NextType, NodeSyncAssumption DEF KernelInv, Cfgs
  <1>1. CASE UNCHANGED <<want, kern>>
    <2>1. KernelFollows' /\ (kern'.run => kern'.cfg # 0)
      BY <1>1 DEF KernelInv, KernelFollows, Empty
    <2> QED  BY <1>0, <2>1 DEF KernelInv
  <1>2. CASE ApplyResult
    <2> DEFINE r == Head(results)
               c == IF r.cfg = 0 \/ r.cfg \in Refused THEN want.cfg ELSE r.cfg
               u == IF r.users = 0 THEN want.users ELSE r.users
    <2>0. results \in Seq(Results) /\ results # <<>>  BY <1>0, <1>2 DEF ApplyResult, TypeOK
    <2>1. r.cfg \in Cfgs /\ r.users \in UserLists
      <3>1. r \in Results  BY <2>0
      <3> HIDE DEF r
      <3> QED  BY <3>1 DEF Results
    <2>2. c \in Cfgs /\ u \in UserLists /\ (c = 0 => want.cfg = 0)
      BY <1>0, <2>1 DEF TypeOK, Versions
    <2> HIDE DEF c, u
    <2>3. CASE want' = [cfg |-> c, users |-> u] /\ ApplyChanges(c, u)
      <3>1. KernelFollows' /\ (kern'.run => kern'.cfg # 0)  BY <2>2, <2>3, ChangesFollow
      <3> QED  BY <1>0, <3>1 DEF KernelInv
    <2>4. CASE ApplyUserUpdate(u)
      <3>1. KernelFollows' /\ (kern'.run => kern'.cfg # 0)  BY <2>2, <2>4, UserUpdateFollows
      <3> QED  BY <1>0, <3>1 DEF KernelInv
    <2> QED  BY <1>1, <1>2, <2>3, <2>4 DEF ApplyResult, c, u
  <1>3. CASE HandleConfigEvent
    <2> DEFINE c == Head(events).v
    <2>1. c \in Cfgs /\ c # 0
      BY <1>0, <1>3 DEF HandleConfigEvent, TypeOK, Events, Cfgs
    <2> HIDE DEF c
    <2>2. want \in Versions /\ want.users \in UserLists  BY <1>0 DEF TypeOK, Versions
    <2>3. CASE want' = [want EXCEPT !.cfg = c] /\ ApplyChanges(c, want.users)
      <3>1. want' = [cfg |-> c, users |-> want.users]  BY <2>2, <2>3 DEF Versions
      <3>2. KernelFollows' /\ (kern'.run => kern'.cfg # 0)
        BY <2>1, <2>2, <2>3, <3>1, ChangesFollow
      <3> QED  BY <1>0, <3>2 DEF KernelInv
    <2> QED  BY <1>1, <1>3, <2>3 DEF HandleConfigEvent, c
  <1>4. CASE HandleUsersEvent
    <2> DEFINE u == Head(events).v
    <2>1. u \in UserLists
      BY <1>0, <1>4 DEF HandleUsersEvent, TypeOK, Events, UserLists
    <2> HIDE DEF u
    <2>2. CASE ApplyUserUpdate(u)
      <3>1. KernelFollows' /\ (kern'.run => kern'.cfg # 0)  BY <2>1, <2>2, UserUpdateFollows
      <3> QED  BY <1>0, <3>1 DEF KernelInv
    <2> QED  BY <1>1, <1>4, <2>2 DEF HandleUsersEvent, u
  <1> QED
    BY <1>1, <1>2, <1>3, <1>4 DEF Next, External, Goroutine, SelectLoop, vars, nodeVars,
       EditConfig, EditUsers, Edit, LinkFlips, Renew, FetchConfig, FetchUsers, FetchFails,
       Publish, PullTick, HandleStatus

\* While kernel operations succeed, the kernel runs exactly what the Service
\* accepted last, and rests only when there is nothing to run: whatever order
\* pushes, poll results, resyncs and renewals come in (applyChanges,
\* applyUserUpdate).
THEOREM KernelIsFollowing ==
  ASSUME ~KernelFaults
  PROVE  Spec => []KernelFollows
  <1>1. Init => KernelInv
    <2> SUFFICES ASSUME Init PROVE KernelInv  OBVIOUS
    <2>1. TypeOK  BY InitType
    <2>2. CASE Pushed \/ Empty(1)
      <3>1. ~kern.run /\ (want.cfg = 0 \/ Empty(want.users))
        BY <2>2, NodeSyncAssumption DEF Init, Stopped, Serving
      <3> QED  BY <2>1, <3>1 DEF KernelInv, KernelFollows
    <2>3. CASE ~(Pushed \/ Empty(1))
      <3>1. kern = Serving(1, 1) /\ want = [cfg |-> 1, users |-> 1]
        BY <2>3, NodeSyncAssumption DEF Init
      <3> QED  BY <2>1, <3>1 DEF KernelInv, KernelFollows, Serving
    <2> QED  BY <2>2, <2>3
  <1>2. KernelInv /\ [Next]_vars => KernelInv'  BY KernelNext
  <1>3. KernelInv => KernelFollows  BY DEF KernelInv
  <1> QED  BY <1>1, <1>2, <1>3, PTL DEF Spec

-----------------------------------------------------------------------------
(* A coalesced resync is never forgotten                                   *)

\* Every step keeps a poll under way while resync requests are coalesced.
LEMMA ResyncNext ==
  ASSUME ~FetchFaults, TypeOK, ResyncHasPoll, [Next]_vars
  PROVE  ResyncHasPoll'
  <1>0. /\ sync \in SyncType /\ outbox \in Seq(Results) /\ results \in Seq(Results)
    BY DEF TypeOK, SyncType
  <1>1. CASE UNCHANGED <<sync, outbox, results>>
    BY <1>1 DEF ResyncHasPoll
  <1>2. CASE PullTick
    <2>1. sync' = Tried(sync, renewed) /\ outbox' = outbox /\ results' = results
      BY <1>2 DEF PullTick, pollVars
    <2>2. sync'.resync = sync.resync /\ (sync.pull # NoPull => sync'.pull # NoPull)
      BY <1>0, <2>1 DEF Tried, SyncType, NoPull
    <2> QED  BY <2>1, <2>2 DEF ResyncHasPoll
  <1>3. CASE HandleStatus
    <2>1. /\ outbox' = outbox /\ results' = results
          /\ \/ sync' = Tried(sync, renewed)
             \/ sync' = Tried(Resynced(sync, renewed), FALSE)
      BY <1>3 DEF HandleStatus, pollVars
    <2> DEFINE q == Resynced(sync, renewed)
    <2>2. /\ q \in SyncType
          /\ q.resync => sync.resync \/ q.pull # NoPull
          /\ sync.pull # NoPull => q.pull # NoPull
      <3>1. CASE sync.resync  BY <1>0, <3>1 DEF Resynced
      <3>2. CASE ~sync.resync
        <4> DEFINE t == Tried(sync, renewed)
        <4>1. t \in SyncType  BY <1>0, ScheduleType DEF TypeOK
        <4>2. q = [t EXCEPT !.resync = sync.pull = NoPull /\ t.pull # NoPull]
          BY <3>2 DEF Resynced
        <4>3. sync.pull # NoPull => t = sync  BY DEF Tried
        <4> HIDE DEF q, t
        <4> QED  BY <4>1, <4>2, <4>3 DEF SyncType
      <3> QED  BY <3>1, <3>2
    <2> HIDE DEF q
    <2>3. CASE sync' = Tried(sync, renewed)
      <3>1. sync'.resync = sync.resync /\ (sync.pull # NoPull => sync'.pull # NoPull)
        BY <1>0, <2>3 DEF Tried, SyncType, NoPull
      <3> QED  BY <2>1, <3>1 DEF ResyncHasPoll
    <2>4. CASE sync' = Tried(q, FALSE)
      <3>1. sync'.resync = q.resync /\ (q.pull # NoPull => sync'.pull # NoPull)
        BY <2>2, <2>4 DEF Tried, SyncType, NoPull
      <3> QED  BY <2>1, <2>2, <3>1 DEF ResyncHasPoll
    <2> QED  BY <2>1, <2>3, <2>4 DEF q
  <1>4. CASE FetchConfig
    <2>1. sync'.pull # NoPull
      BY <1>0, <1>4 DEF FetchConfig, SyncType, Pulls, NoPull
    <2> QED  BY <2>1 DEF ResyncHasPoll
  <1>5. CASE FetchUsers
    <2>1. outbox' # <<>>  BY <1>0, <1>5 DEF FetchUsers
    <2> QED  BY <2>1 DEF ResyncHasPoll
  <1>6. CASE Publish
    <2>1. results' # <<>>  BY <1>6 DEF Publish
    <2> QED  BY <2>1 DEF ResyncHasPoll
  <1>7. CASE ApplyResult
    <2>1. ~sync'.resync  BY <1>0, <1>7 DEF ApplyResult, CompleteResync, SyncType
    <2> QED  BY <2>1 DEF ResyncHasPoll
  <1> QED
    BY <1>1, <1>2, <1>3, <1>4, <1>5, <1>6, <1>7 DEF Next, External, Goroutine, SelectLoop,
       vars, pollVars, EditConfig, EditUsers, Edit, LinkFlips, Renew, FetchFails,
       HandleConfigEvent, HandleUsersEvent

\* While no request fails, the resync flag is up only while a poll that will
\* lower it is under way: coalescing never swallows a resync for good
\* (RequestResync, CompleteResync).
THEOREM ResyncIsAnswered ==
  ASSUME ~FetchFaults
  PROVE  Spec => []ResyncHasPoll
  <1>1. Init => TypeOK /\ ResyncHasPoll
    BY InitType DEF Init, ResyncHasPoll
  <1>2. TypeOK /\ ResyncHasPoll /\ [Next]_vars => (TypeOK /\ ResyncHasPoll)'
    BY NextType, ResyncNext
  <1> QED  BY <1>1, <1>2, PTL DEF Spec

-----------------------------------------------------------------------------
(* The ETag cache hides nothing                                            *)

\* FetchedIsAccounted is not inductive: the configuration dropped by the
\* deduplication must have been decided on when its poll was scheduled, and
\* only the second half of a poll carries a configuration.
AccountInv ==
  /\ TypeOK
  /\ FetchedIsAccounted
  /\ want.cfg \in judged.cfg \cup {0}
  /\ sync.pull.hash \in judged.cfg \cup {0}
  /\ sync.pull.step # "users" => sync.pull.cfg = 0

\* Sending a result does not lose what it carries.
LEMMA PublishKeeps ==
  ASSUME TypeOK, Publish, NEW r \in Underway
  PROVE  \E x \in Underway' : x.cfg = r.cfg /\ x.users = r.users
  <1>1. PICK i \in Senders : results' = <<outbox[i]>> /\ outbox' = Without(outbox, i)
    BY DEF Publish
  <1>2. i \in DOMAIN outbox /\ outbox \in Seq(Results) /\ results = <<>>
    BY <1>1 DEF Senders, TypeOK, Publish
  <1>3. PICK k \in DOMAIN outbox : r = outbox[k]  BY <1>2 DEF Underway
  <1>4. CASE k = i
    <2>1. 1 \in DOMAIN results' /\ results'[1] = r  BY <1>1, <1>3, <1>4
    <2> QED  BY <2>1 DEF Underway
  <1>5. CASE k # i
    <2>1. PICK j \in DOMAIN outbox' : outbox'[j].cfg = r.cfg /\ outbox'[j].users = r.users
      BY <1>1, <1>2, <1>3, <1>5, WithoutKeeps
    <2>2. outbox'[j] \in Underway'  BY <2>1 DEF Underway
    <2> QED  BY <2>1, <2>2
  <1> QED  BY <1>4, <1>5

\* The end of a poll adds its result and keeps the others.
LEMMA FetchUsersAdds ==
  ASSUME TypeOK, FetchUsers
  PROVE  /\ Underway \subseteq Underway'
         /\ [cfg |-> Dedup(sync.pull.cfg), users |-> Copied(Modified("users")),
             cert |-> sync.pull.cert, overtaken |-> FALSE] \in Underway'
  <1> DEFINE r == [cfg |-> Dedup(sync.pull.cfg), users |-> Copied(Modified("users")),
                   cert |-> sync.pull.cert, overtaken |-> FALSE]
  <1>1. outbox' = Append(outbox, r) /\ results' = results  BY DEF FetchUsers
  <1>2. outbox \in Seq(Results)  BY DEF TypeOK
  <1> HIDE DEF r
  <1>3. /\ DOMAIN outbox' = 1..(Len(outbox) + 1)
        /\ outbox'[Len(outbox) + 1] = r
        /\ \A j \in DOMAIN outbox : outbox'[j] = outbox[j] /\ j \in DOMAIN outbox'
    BY <1>1, <1>2
  <1>4. Underway \subseteq Underway'
    <2> SUFFICES ASSUME NEW x \in Underway PROVE x \in Underway'  OBVIOUS
    <2>1. CASE \E j \in DOMAIN outbox : x = outbox[j]
      <3>1. PICK j \in DOMAIN outbox : x = outbox[j]  BY <2>1
      <3>2. j \in DOMAIN outbox' /\ outbox'[j] = x  BY <1>3, <3>1
      <3> QED  BY <3>2 DEF Underway
    <2>2. CASE \E j \in DOMAIN results : x = results[j]
      BY <2>2, <1>1 DEF Underway
    <2> QED  BY <2>1, <2>2 DEF Underway
  <1>5. r \in Underway'
    <2>1. Len(outbox) + 1 \in DOMAIN outbox'  BY <1>2, <1>3
    <2> QED  BY <1>3, <2>1 DEF Underway
  <1> QED  BY <1>4, <1>5 DEF r

\* Applying a result takes that one away and no other.
LEMMA ApplyTakesOne ==
  ASSUME TypeOK, ApplyResult, NEW x \in Underway
  PROVE  x = Head(results) \/ x \in Underway'
  <1>1. results \in Seq(Results) /\ Len(results) <= 1 /\ results # <<>>
          /\ outbox' = outbox
    BY DEF TypeOK, ApplyResult
  <1>2. CASE \E j \in DOMAIN outbox : x = outbox[j]
    BY <1>1, <1>2 DEF Underway
  <1>3. CASE \E j \in DOMAIN results : x = results[j]
    <2>1. PICK j \in DOMAIN results : x = results[j]  BY <1>3
    <2>2. j \in 1..Len(results) /\ Len(results) \in Nat  BY <1>1, <2>1
    <2>3. j = 1  BY <1>1, <2>2
    <2>4. Head(results) = results[1]  BY <1>1
    <2> QED  BY <2>1, <2>3, <2>4
  <1> QED  BY <1>2, <1>3 DEF Underway

\* Scheduling a poll captures the current configuration's hash and carries no
\* configuration yet.
LEMMA TriedAccounts ==
  ASSUME TypeOK, NEW s \in SyncType, NEW b \in BOOLEAN, NEW J,
         want.cfg \in J \cup {0}, s.pull.hash \in J \cup {0},
         s.pull.step # "users" => s.pull.cfg = 0
  PROVE  LET t == Tried(s, b) IN
         /\ t.pull.hash \in J \cup {0}
         /\ t.pull.step # "users" => t.pull.cfg = 0
         /\ s.pull.cfg # 0 => t.pull.cfg = s.pull.cfg
  <1>1. CASE s.pull # NoPull  BY <1>1 DEF Tried
  <1>2. CASE s.pull = NoPull /\ s.skip > 0
    <2>1. Tried(s, b).pull = s.pull  BY <1>2 DEF Tried, SyncType
    <2> QED  BY <2>1
  <1>3. CASE s.pull = NoPull /\ ~(s.skip > 0)
    <2>1. Tried(s, b).pull = [step |-> "config", hash |-> want.cfg, cert |-> b, cfg |-> 0]
      BY <1>3 DEF Tried, SyncType
    <2>2. s.pull.cfg = 0  BY <1>3 DEF NoPull
    <2> QED  BY <2>1, <2>2
  <1> QED  BY <1>1, <1>2, <1>3

\* The same for a resync request.
LEMMA ResyncedAccounts ==
  ASSUME TypeOK, NEW s \in SyncType, NEW b \in BOOLEAN, NEW J,
         want.cfg \in J \cup {0}, s.pull.hash \in J \cup {0},
         s.pull.step # "users" => s.pull.cfg = 0
  PROVE  LET t == Resynced(s, b) IN
         /\ t.pull.hash \in J \cup {0}
         /\ t.pull.step # "users" => t.pull.cfg = 0
         /\ s.pull.cfg # 0 => t.pull.cfg = s.pull.cfg
  <1> DEFINE t == Tried(s, b)
  <1>1. /\ t.pull.hash \in J \cup {0}
        /\ t.pull.step # "users" => t.pull.cfg = 0
        /\ s.pull.cfg # 0 => t.pull.cfg = s.pull.cfg
    BY TriedAccounts
  <1>2. t \in SyncType  BY ScheduleType
  <1>3. Resynced(s, b).pull = s.pull \/ Resynced(s, b).pull = t.pull
    <2>1. Resynced(s, b) = IF s.resync THEN s
             ELSE [t EXCEPT !.resync = s.pull = NoPull /\ t.pull # NoPull]
      BY DEF Resynced
    <2> HIDE DEF t
    <2> QED  BY <1>2, <2>1 DEF SyncType
  <1> HIDE DEF t
  <1> QED  BY <1>1, <1>3

\* Steps that only schedule polls keep the account.
LEMMA ScheduleAccounts ==
  ASSUME AccountInv, TypeOK', PullTick \/ HandleStatus
  PROVE  AccountInv'
  <1> USE DEF AccountInv
  <1>0. sync \in SyncType /\ renewed \in BOOLEAN  BY DEF TypeOK, SyncType
  <1> DEFINE q == Resynced(sync, renewed)
             J == judged.cfg
             OK(t) == /\ t.pull.hash \in J \cup {0}
                      /\ t.pull.step # "users" => t.pull.cfg = 0
                      /\ sync.pull.cfg # 0 => t.pull.cfg = sync.pull.cfg
  <1>1. OK(Tried(sync, renewed))  BY <1>0, TriedAccounts
  <1>2. OK(q) /\ q \in SyncType  BY <1>0, ResyncedAccounts, ScheduleType
  <1>3. OK(Tried(q, FALSE))
    <2>1. /\ Tried(q, FALSE).pull.hash \in J \cup {0}
          /\ Tried(q, FALSE).pull.step # "users" => Tried(q, FALSE).pull.cfg = 0
          /\ q.pull.cfg # 0 => Tried(q, FALSE).pull.cfg = q.pull.cfg
      BY <1>2, TriedAccounts
    <2> HIDE DEF q
    <2> QED  BY <1>2, <2>1
  <1>4. \E t \in {Tried(sync, renewed), Tried(q, FALSE)} : sync' = t
    BY DEF PullTick, HandleStatus
  <1>5. OK(sync')  BY <1>1, <1>3, <1>4
  <1>6. UNCHANGED <<etag, outbox, results, want, judged>>
    BY DEF PullTick, HandleStatus, pollVars, nodeVars
  <1>7. Underway' = Underway  BY <1>6 DEF Underway
  <1> QED  BY <1>5, <1>6, <1>7 DEF FetchedIsAccounted

\* Every step keeps the account.
LEMMA AccountNext ==
  ASSUME ~FetchFaults, NoUsers = {}, AccountInv, [Next]_vars
  PROVE  AccountInv'
  <1>0. TypeOK /\ TypeOK'  BY NextType DEF AccountInv
  <1>t. sync \in SyncType /\ sync.pull \in Pulls /\ judged \in [cfg : SUBSET Cfgs, users : SUBSET UserLists]
    BY <1>0 DEF TypeOK, SyncType
  <1> USE DEF AccountInv
  <1>1. CASE UNCHANGED <<etag, sync, outbox, results, want, judged>>
    <2>1. Underway' = Underway  BY <1>1 DEF Underway
    <2> QED  BY <1>0, <1>1, <2>1 DEF FetchedIsAccounted
  <1>2. CASE PullTick \/ HandleStatus
    BY <1>0, <1>2, ScheduleAccounts
  <1>3. CASE FetchConfig
    <2>1. UNCHANGED <<outbox, results, want, judged>>  BY <1>3 DEF FetchConfig, nodeVars
    <2>2. Underway' = Underway  BY <2>1 DEF Underway
    <2>3. sync'.pull.step = "users" /\ sync'.pull.cfg = Modified("cfg")
            /\ sync'.pull.hash = sync.pull.hash /\ sync.pull.cfg = 0
      BY <1>t, <1>3 DEF FetchConfig, SyncType, Pulls
    <2>4. etag'.cfg = panel.cfg /\ etag'.users = etag.users
      BY <1>0, <1>3 DEF FetchConfig, Tag, TypeOK, Versions
    <2> QED  BY <1>0, <2>1, <2>2, <2>3, <2>4 DEF FetchedIsAccounted, Modified
  <1>4. CASE FetchUsers
    <2>1. UNCHANGED <<want, judged>>  BY <1>4 DEF FetchUsers, nodeVars
    <2>2. sync'.pull = NoPull  BY <1>t, <1>4 DEF FetchUsers, SyncType
    <2>3. etag'.users = panel.users /\ etag'.cfg = etag.cfg
      BY <1>0, <1>4 DEF FetchUsers, Tag, TypeOK, Versions
    <2> DEFINE r == [cfg |-> Dedup(sync.pull.cfg), users |-> Copied(Modified("users")),
                     cert |-> sync.pull.cert, overtaken |-> FALSE]
    <2>4. Underway \subseteq Underway' /\ r \in Underway'  BY <1>0, <1>4, FetchUsersAdds
    <2>5. r.cfg = sync.pull.cfg \/ sync.pull.cfg \in judged.cfg \cup {0}
      BY DEF Dedup
    <2>6. r.users = Modified("users")  BY DEF Copied
    <2>7. Modified("users") = panel.users \/ etag.users = panel.users  BY DEF Modified
    <2> HIDE DEF r
    <2>8. etag'.cfg \in judged'.cfg \cup {0} \cup {x.cfg : x \in Underway'}
      BY <2>1, <2>3, <2>4, <2>5 DEF FetchedIsAccounted
    <2>9. etag'.users \in judged'.users \cup {0} \cup {x.users : x \in Underway'}
      BY <2>1, <2>3, <2>4, <2>6, <2>7 DEF FetchedIsAccounted
    <2> QED  BY <1>0, <2>1, <2>2, <2>8, <2>9 DEF FetchedIsAccounted, NoPull
  <1>5. CASE Publish
    <2>1. UNCHANGED <<etag, sync, want, judged>>  BY <1>5 DEF Publish, nodeVars
    <2>2. \A x \in Underway : \E y \in Underway' : y.cfg = x.cfg /\ y.users = x.users
      BY <1>0, <1>5, PublishKeeps
    <2> QED  BY <1>0, <2>1, <2>2 DEF FetchedIsAccounted
  <1>6. CASE ApplyResult
    <2> DEFINE r == Head(results)
    <2>1. UNCHANGED etag /\ sync'.pull = sync.pull
      BY <1>t, <1>6 DEF ApplyResult, CompleteResync, SyncType
    <2>2. \A x \in Underway : x = r \/ x \in Underway'  BY <1>0, <1>6, ApplyTakesOne
    <2>3. judged'.cfg = judged.cfg \cup ({r.cfg} \ {0})
            /\ judged'.users = judged.users \cup ({r.users} \ {0})
      BY <1>6 DEF ApplyResult
    <2>4. want'.cfg = want.cfg \/ want'.cfg = r.cfg
      <3> DEFINE c == IF r.cfg = 0 \/ r.cfg \in Refused THEN want.cfg ELSE r.cfg
                 u == IF r.users = 0 THEN want.users ELSE r.users
      <3>1. want' = [cfg |-> c, users |-> u] \/ ApplyUserUpdate(u) \/ want' = want
        BY <1>6 DEF ApplyResult
      <3>2. ApplyUserUpdate(u) => want'.cfg = want.cfg
        BY <1>0 DEF ApplyUserUpdate, TypeOK, Versions
      <3> QED  BY <3>1, <3>2
    <2> HIDE DEF r
    <2>5. etag'.cfg \in judged'.cfg \cup {0, sync'.pull.cfg} \cup {x.cfg : x \in Underway'}
      BY <2>1, <2>2, <2>3 DEF FetchedIsAccounted
    <2>6. etag'.users \in judged'.users \cup {0} \cup {x.users : x \in Underway'}
      BY <2>1, <2>2, <2>3 DEF FetchedIsAccounted
    <2> QED  BY <1>0, <2>1, <2>3, <2>4, <2>5, <2>6 DEF FetchedIsAccounted
  <1>7. CASE HandleConfigEvent
    <2> DEFINE c == Head(events).v
    <2>1. UNCHANGED <<etag, sync, outbox, results>>  BY <1>7 DEF HandleConfigEvent, pollVars
    <2>2. judged' = Judge("cfg", c)
            /\ (want' = want \/ want' = [want EXCEPT !.cfg = c])
      BY <1>7 DEF HandleConfigEvent
    <2>3. /\ judged'.cfg = judged.cfg \cup ({c} \ {0})
          /\ judged'.users = judged.users
          /\ want'.cfg \in {want.cfg, c}
      BY <1>0, <1>t, <2>2 DEF Judge, TypeOK, Versions
    <2>4. Underway' = Underway  BY <2>1 DEF Underway
    <2> QED  BY <1>0, <2>1, <2>3, <2>4 DEF FetchedIsAccounted
  <1>8. CASE HandleUsersEvent
    <2> DEFINE u == Head(events).v
    <2>1. UNCHANGED <<etag, sync, outbox, results>>  BY <1>8 DEF HandleUsersEvent, pollVars
    <2>2. judged' = Judge("users", u) /\ (want' = want \/ ApplyUserUpdate(u))
      BY <1>8 DEF HandleUsersEvent
    <2>3. want'.cfg = want.cfg
      BY <1>0, <2>2 DEF ApplyUserUpdate, TypeOK, Versions
    <2>4. /\ judged'.cfg = judged.cfg
          /\ judged'.users = judged.users \cup ({u} \ {0})
      BY <1>t, <2>2 DEF Judge
    <2>5. Underway' = Underway  BY <2>1 DEF Underway
    <2> QED  BY <1>0, <2>1, <2>3, <2>4, <2>5 DEF FetchedIsAccounted
  <1> QED
    BY <1>1, <1>2, <1>3, <1>4, <1>5, <1>6, <1>7, <1>8 DEF Next, External, Goroutine,
       SelectLoop, vars, pollVars, nodeVars, EditConfig, EditUsers, Edit, LinkFlips,
       Renew, FetchFails

\* While no request fails and no user list is empty, a version the ETag cache
\* vouches for has been accepted or refused by the Service, or is on its way
\* to it: a 304 answer never hides what the node has not seen (GetConfig,
\* GetUsers, the deduplication by ConfigHash).
THEOREM NothingIsHidden ==
  ASSUME ~FetchFaults, NoUsers = {}
  PROVE  Spec => []FetchedIsAccounted
  <1>1. Init => AccountInv
    <2> SUFFICES ASSUME Init PROVE AccountInv  OBVIOUS
    <2>1. TypeOK  BY InitType
    <2>2. etag = want /\ sync.pull = NoPull  BY DEF Init
    <2>3. want.cfg \in judged.cfg \cup {0} /\ want.users \in judged.users \cup {0}
      BY DEF Init
    <2> QED  BY <2>1, <2>2, <2>3 DEF AccountInv, FetchedIsAccounted, NoPull
  <1>2. AccountInv /\ [Next]_vars => AccountInv'  BY AccountNext
  <1>3. AccountInv => FetchedIsAccounted  BY DEF AccountInv
  <1> QED  BY <1>1, <1>2, <1>3, PTL DEF Spec

-----------------------------------------------------------------------------
(* Changes of users alone                                                  *)

\* Whatever the kernel does with a change of users that comes alone, it is
\* applied as a whole, behind an open inbound, or rolled back: a node whose
\* inbound the failed hot swap took away wants its old users (applyUserUpdate).
THEOREM UpdatesAreAtomic == Spec => UserUpdateIsAtomic
  <1>1. TypeOK /\ HandleUsersEvent => Applied \/ RolledBack
    <2> SUFFICES ASSUME TypeOK, HandleUsersEvent PROVE Applied \/ RolledBack  OBVIOUS
    <2>0. kern \in Kernels /\ want \in Versions  BY DEF TypeOK
    <2>1. PICK u : \/ UNCHANGED <<want, kern>>
                   \/ ApplyUserUpdate(u)
      BY DEF HandleUsersEvent
    <2>2. CASE UNCHANGED <<want, kern>>  BY <2>2 DEF RolledBack
    <2>3. CASE ApplyUserUpdate(u)
      <3>1. CASE ~kern.run /\ (Empty(u) \/ want.cfg = 0)
        BY <2>3, <3>1 DEF ApplyUserUpdate, Applied
      <3>2. CASE ~(~kern.run /\ (Empty(u) \/ want.cfg = 0))
        <4>1. PICK s \in IF kern.run THEN UpdateUsers(kern, want.cfg, u)
                                     ELSE Start(kern, want.cfg, u) :
                kern' = s.k /\ want' = IF s.ok THEN [want EXCEPT !.users = u] ELSE want
          BY <2>3, <3>2 DEF ApplyUserUpdate
        <4> DEFINE Good(k) == k.users = u /\ (k.inbound \/ k = kern)
                   Bad(k) == k \in {kern, [kern EXCEPT !.inbound = FALSE]}
        <4>2. \A b : \A x \in Start(b, want.cfg, u) : IF x.ok THEN Good(x.k) ELSE x.k = b
          BY DEF Start, Serving
        <4>3. \A b \in Broken(kern) : Bad(b)
          BY DEF Broken
        <4>4. IF s.ok THEN Good(s.k) ELSE Bad(s.k)
          <5>1. CASE s \in Start(kern, want.cfg, u)
            <6>1. IF s.ok THEN Good(s.k) ELSE s.k = kern  BY <4>2, <5>1
            <6> QED  BY <6>1
          <5>2. CASE \E b \in Broken(kern) : s \in Start(b, want.cfg, u)
            <6>1. PICK b \in Broken(kern) : s \in Start(b, want.cfg, u)  BY <5>2
            <6>2. IF s.ok THEN Good(s.k) ELSE s.k = b  BY <4>2, <6>1
            <6>3. Bad(b)  BY <4>3, <6>1
            <6> HIDE DEF Good, Bad
            <6> QED  BY <6>2, <6>3
          <5>3. CASE s = [ok |-> TRUE, k |-> [kern EXCEPT !.users = u, !.inbound = @ \/ kern.users # u]]
            <6>1. s.ok /\ s.k = [kern EXCEPT !.users = u, !.inbound = @ \/ kern.users # u]
              BY <5>3
            <6>2. s.k.users = u /\ s.k.inbound = (kern.inbound \/ kern.users # u)
              BY <2>0, <6>1 DEF Kernels
            <6>3. CASE kern.inbound \/ kern.users # u
              BY <6>1, <6>2, <6>3
            <6>4. CASE ~(kern.inbound \/ kern.users # u)
              <7>1. s.k = kern  BY <2>0, <6>1, <6>4 DEF Kernels
              <7> QED  BY <6>1, <6>2, <7>1
            <6> QED  BY <6>3, <6>4
          <5> QED  BY <4>1, <5>1, <5>2, <5>3 DEF UpdateUsers
        <4>5. CASE s.ok
          <5>1. want'.users = u  BY <2>0, <4>1, <4>5 DEF Versions
          <5> QED  BY <4>1, <4>4, <4>5, <5>1 DEF Applied
        <4>6. CASE ~s.ok
          BY <4>1, <4>4, <4>6 DEF RolledBack
        <4> QED  BY <4>5, <4>6
      <3> QED  BY <3>1, <3>2
    <2> QED  BY <2>1, <2>2, <2>3
  <1>2. TypeOK => [HandleUsersEvent => Applied \/ RolledBack]_vars  BY <1>1
  <1> QED  BY <1>2, TypeCorrect, PTL DEF Spec, UserUpdateIsAtomic

-----------------------------------------------------------------------------
(* Polls alone, out of order                                                 *)

\* A version is not below another one, or it is no version.
After(r, v) == (r.cfg = 0 \/ v.cfg <= r.cfg) /\ (r.users = 0 \/ v.users <= r.users)
Within(r, v) == r.cfg <= v.cfg /\ r.users <= v.users

\* Nothing comes from elsewhere; the ETag cache is not ahead of the panel, and
\* nothing is ahead of the ETag cache.  Results wait in the order in which the
\* requests were answered, and one that no other has overtaken is not behind the
\* desired state, nor behind the result the Service is about to take.
OrderInv ==
  /\ TypeOK
  /\ ~link /\ events = <<>>
  /\ Within(etag, panel) /\ Within(want, etag)
  /\ sync.pull.cfg \in {0, etag.cfg}
  /\ \A r \in Underway : Within(r, etag) /\ (r.overtaken \/ After(r, want))
  /\ \A i \in DOMAIN results, j \in DOMAIN outbox :
        outbox[j].overtaken \/ After(outbox[j], results[i])
  /\ \A i, j \in DOMAIN outbox : i < j => After(outbox[j], outbox[i])

\* Versions are numbers.
Numbers ==
  /\ panel.cfg \in Nat /\ panel.users \in Nat /\ etag.cfg \in Nat /\ etag.users \in Nat
  /\ want.cfg \in Nat /\ want.users \in Nat /\ sync.pull.cfg \in Nat
  /\ \A r \in Underway : r.cfg \in Nat /\ r.users \in Nat
  /\ outbox \in Seq(Results) /\ results \in Seq(Results)

LEMMA VersionType == TypeOK => Numbers
  <1> SUFFICES ASSUME TypeOK PROVE Numbers  OBVIOUS
  <1> USE NodeSyncAssumption
  <1>1. /\ panel.cfg \in Nat /\ panel.users \in Nat /\ etag.cfg \in Nat /\ etag.users \in Nat
        /\ want.cfg \in Nat /\ want.users \in Nat
    BY DEF TypeOK, Versions, Cfgs, UserLists
  <1>2. sync.pull.cfg \in Nat
    BY DEF TypeOK, Pulls, Cfgs
  <1>3. outbox \in Seq(Results) /\ results \in Seq(Results)
    BY DEF TypeOK
  <1>4. ASSUME NEW r \in Underway PROVE r \in Results
    BY <1>3 DEF Underway
  <1>5. \A r \in Results : r.cfg \in Nat /\ r.users \in Nat
    BY DEF Results, Cfgs, UserLists
  <1> QED  BY <1>1, <1>2, <1>3, <1>4, <1>5 DEF Numbers

\* A step that moves neither results nor the desired state, and the panel and
\* the cache only forward.
LEMMA OrderKept ==
  ASSUME OrderInv, TypeOK', UNCHANGED <<outbox, results, want, link, events>>,
         Within(panel, panel'), Within(etag, etag'), Within(etag', panel'),
         sync'.pull.cfg \in {0, etag'.cfg}
  PROVE  OrderInv'
  <1>0. Numbers /\ Numbers'
    BY VersionType, PTL DEF OrderInv
  <1>1. Underway' = Underway  BY DEF Underway
  <1>2. /\ etag.cfg \in Nat /\ etag.users \in Nat /\ etag'.cfg \in Nat /\ etag'.users \in Nat
        /\ etag.cfg <= etag'.cfg /\ etag.users <= etag'.users
    BY <1>0 DEF Numbers, Within
  <1>3. ASSUME NEW x, x.cfg \in Nat, x.users \in Nat, Within(x, etag)
        PROVE  x.cfg <= etag'.cfg /\ x.users <= etag'.users
    BY <1>2, <1>3 DEF Within
  <1>4. want'.cfg <= etag'.cfg /\ want'.users <= etag'.users
    <2>1. want.cfg \in Nat /\ want.users \in Nat /\ Within(want, etag) /\ want' = want
      BY <1>0 DEF Numbers, OrderInv
    <2> QED  BY <1>3, <2>1
  <1>5. \A r \in Underway : r.cfg <= etag'.cfg /\ r.users <= etag'.users
    <2>1. \A r \in Underway : r.cfg \in Nat /\ r.users \in Nat /\ Within(r, etag)
      BY <1>0 DEF Numbers, OrderInv
    <2> QED  BY <1>3, <2>1
  <1> USE DEF OrderInv, Within
  <1>6. \A r \in Underway' : r.overtaken \/ After(r, want)'
    BY <1>1 DEF After
  <1>7. /\ \A i \in DOMAIN results', j \in DOMAIN outbox' :
             outbox[j].overtaken' \/ After(outbox[j], results[i])'
        /\ \A i, j \in DOMAIN outbox' : i < j => After(outbox[j], outbox[i])'
    BY DEF After
  <1> QED  BY <1>1, <1>4, <1>5, <1>6, <1>7

\* A poll is scheduled: it carries no configuration yet.
LEMMA OrderScheduled ==
  ASSUME OrderInv, TypeOK', PullTick \/ HandleStatus
  PROVE  OrderInv'
  <1>0. sync \in SyncType /\ renewed \in BOOLEAN  BY DEF OrderInv, TypeOK, SyncType
  <1>1. ASSUME NEW s \in SyncType, NEW b \in BOOLEAN
        PROVE  Tried(s, b) \in SyncType /\ Tried(s, b).pull.cfg \in {0, s.pull.cfg}
    <2>1. Tried(s, b) \in SyncType  BY ScheduleType DEF OrderInv
    <2>2. Tried(s, b).pull \in {s.pull, [step |-> "config", hash |-> want.cfg, cert |-> b, cfg |-> 0]}
      BY DEF Tried, SyncType
    <2> QED  BY <2>1, <2>2
  <1>2. Resynced(sync, renewed) \in SyncType  BY <1>0, ScheduleType DEF OrderInv
  <1>3. Resynced(sync, renewed).pull.cfg \in {0, sync.pull.cfg}
    <2> DEFINE t == Tried(sync, renewed)
    <2>1. t \in SyncType /\ t.pull.cfg \in {0, sync.pull.cfg}  BY <1>0, <1>1
    <2>2. Resynced(sync, renewed) = IF sync.resync THEN sync
             ELSE [t EXCEPT !.resync = sync.pull = NoPull /\ t.pull # NoPull]
      BY DEF Resynced
    <2> HIDE DEF t
    <2> QED  BY <2>1, <2>2 DEF SyncType
  <1>4. sync'.pull.cfg \in {0, sync.pull.cfg}
    <2>1. CASE sync' = Tried(sync, renewed)  BY <1>0, <1>1, <2>1
    <2>2. CASE sync' = Tried(Resynced(sync, renewed), FALSE)
      <3>1. PICK q \in SyncType : q = Resynced(sync, renewed)  BY <1>2
      <3>2. Tried(q, FALSE).pull.cfg \in {0, q.pull.cfg}  BY <1>1
      <3> QED  BY <1>3, <2>2, <3>1, <3>2
    <2> QED  BY <2>1, <2>2 DEF PullTick, HandleStatus
  <1>5. /\ UNCHANGED <<outbox, results, want, link, events, panel, etag>>
    BY DEF PullTick, HandleStatus, pollVars, nodeVars, pushVars, OrderInv
  <1>6. Numbers  BY VersionType DEF OrderInv
  <1> QED  BY <1>4, <1>5, <1>6, OrderKept DEF OrderInv, Within, Numbers

\* The panel goes forward, and nobody hears of it but who asks.
LEMMA OrderEdited ==
  ASSUME OrderInv, TypeOK', EditConfig \/ EditUsers \/ Renew
  PROVE  OrderInv'
  <1>1. /\ UNCHANGED <<outbox, results, want, link, events, etag, sync>>
    BY DEF EditConfig, EditUsers, Edit, Renew, pollVars, nodeVars, pushVars, OrderInv
  <1>2. Numbers /\ panel \in Versions  BY VersionType DEF OrderInv, TypeOK
  <1>3. Within(panel, panel')
    BY <1>2 DEF EditConfig, EditUsers, Edit, Renew, Within, Numbers, Versions
  <1>4. Numbers'  BY VersionType, PTL
  <1>5. Within(etag, etag') /\ Within(etag', panel')
    <2>1. etag' = etag /\ Within(etag, panel)
      BY <1>1 DEF OrderInv
    <2>2. /\ etag.cfg \in Nat /\ etag.users \in Nat /\ panel.cfg \in Nat /\ panel.users \in Nat
          /\ panel'.cfg \in Nat /\ panel'.users \in Nat
      BY <1>2, <1>4 DEF Numbers
    <2> QED  BY <1>3, <2>1, <2>2 DEF Within
  <1> QED  BY <1>1, <1>3, <1>5, OrderKept DEF OrderInv

\* A request is answered with what the panel has, or the poll fails.
LEMMA OrderFetched ==
  ASSUME OrderInv, TypeOK', FetchConfig \/ FetchFails
  PROVE  OrderInv'
  <1>0. Numbers /\ etag \in Versions /\ panel \in Versions /\ sync \in SyncType
    BY VersionType DEF OrderInv, TypeOK, SyncType
  <1>1. UNCHANGED <<outbox, results, want, link, events, panel>>
    BY DEF FetchConfig, FetchFails, nodeVars, pushVars
  <1>2. CASE FetchConfig
    <2>1. etag'.cfg = panel.cfg /\ etag'.users = etag.users
      BY <1>0, <1>2 DEF FetchConfig, Tag, Versions
    <2>2. sync'.pull.cfg = Modified("cfg")
      BY <1>0, <1>2 DEF FetchConfig, SyncType, Pulls
    <2>3. sync'.pull.cfg \in {0, panel.cfg}
      BY <2>2 DEF Modified
    <2> QED  BY <1>0, <1>1, <2>1, <2>3, OrderKept DEF OrderInv, Within, Numbers
  <1>3. CASE FetchFails
    <2>1. sync'.pull.cfg = 0
      BY <1>0, <1>3 DEF FetchFails, SyncType, NoPull
    <2>2. etag'.cfg = etag.cfg /\ etag'.users \in {etag.users, panel.users}
      BY <1>0, <1>3 DEF FetchFails, Tag, Versions
    <2> QED  BY <1>0, <1>1, <2>1, <2>2, OrderKept DEF OrderInv, Within, Numbers
  <1> QED  BY <1>2, <1>3

\* The end of a poll: its result is not older than any other under way.
LEMMA OrderPolled ==
  ASSUME OrderInv, TypeOK', FetchUsers
  PROVE  OrderInv'
  <1> DEFINE r == [cfg |-> Dedup(sync.pull.cfg), users |-> Copied(Modified("users")),
                   cert |-> sync.pull.cert, overtaken |-> FALSE]
  <1>0. Numbers /\ etag \in Versions /\ panel \in Versions /\ sync \in SyncType
    BY VersionType DEF OrderInv, TypeOK, SyncType
  <1>1. /\ UNCHANGED <<results, want, link, events, panel>> /\ outbox' = Append(outbox, r)
        /\ sync'.pull.cfg = 0
    BY <1>0 DEF FetchUsers, nodeVars, pushVars, SyncType, NoPull
  <1>2. etag'.cfg = etag.cfg /\ etag'.users = panel.users
    BY <1>0 DEF FetchUsers, Tag, Versions
  <1>3. r.cfg \in {0, etag.cfg} /\ r.users \in {0, panel.users}
    BY DEF OrderInv, Dedup, Copied, Modified
  <1> HIDE DEF r
  <1>4. /\ Len(outbox) \in Nat /\ DOMAIN outbox = 1..Len(outbox)
        /\ DOMAIN outbox' = 1..(Len(outbox) + 1)
        /\ outbox'[Len(outbox) + 1] = r
        /\ \A j \in DOMAIN outbox : outbox'[j] = outbox[j]
    BY <1>0, <1>1 DEF Numbers
  <1>5. /\ etag.cfg <= etag'.cfg /\ etag.users <= etag'.users
        /\ \A n \in Nat : n <= etag.cfg => n <= etag'.cfg
        /\ \A n \in Nat : n <= etag.users => n <= etag'.users
    BY <1>0, <1>2 DEF OrderInv, Within, Numbers
  <1>6. \A x : x.cfg \in Nat /\ x.users \in Nat /\ Within(x, etag) => After(r, x)
    BY <1>0, <1>2, <1>3, <1>5 DEF After, Within, Numbers
  <1>7. \A x \in Underway : Within(x, etag) /\ x.cfg \in Nat /\ x.users \in Nat
    BY <1>0 DEF OrderInv, Numbers
  <1>8. \A x \in Underway' : x = r \/ x \in Underway
    BY <1>1, <1>4 DEF Underway
  <1>9. Within(etag, panel)' /\ Within(want, etag)'
    BY <1>0, <1>1, <1>2, <1>5 DEF OrderInv, Within, Numbers
  <1>10. Within(r, etag') /\ After(r, want)
    <2>1. Within(r, etag')
      BY <1>0, <1>2, <1>3 DEF Within, Numbers
    <2>2. After(r, want)
      BY <1>0, <1>6 DEF OrderInv, Numbers
    <2> QED  BY <2>1, <2>2
  <1>11. \A x \in Underway' : Within(x, etag)' /\ (x.overtaken \/ After(x, want)')
    BY <1>1, <1>5, <1>7, <1>8, <1>10 DEF OrderInv, Within, After
  <1>12. \A i \in DOMAIN results', j \in DOMAIN outbox' :
           outbox[j].overtaken' \/ After(outbox[j], results[i])'
    <2> SUFFICES ASSUME NEW i \in DOMAIN results, NEW j \in DOMAIN outbox'
                 PROVE  outbox'[j].overtaken \/ After(outbox'[j], results[i])
      BY <1>1 DEF After
    <2>1. CASE j \in DOMAIN outbox
      BY <1>4, <2>1 DEF OrderInv
    <2>2. CASE j = Len(outbox) + 1
      <3>1. results[i] \in Underway  BY DEF Underway
      <3> QED  BY <1>4, <1>6, <1>7, <2>2, <3>1
    <2> QED  BY <1>4, <2>1, <2>2
  <1>13. \A i, j \in DOMAIN outbox' : i < j => After(outbox[j], outbox[i])'
    <2> SUFFICES ASSUME NEW i \in DOMAIN outbox', NEW j \in DOMAIN outbox', i < j
                 PROVE  After(outbox'[j], outbox'[i])
      BY DEF After
    <2>0. i \in DOMAIN outbox  BY <1>4
    <2>1. CASE j \in DOMAIN outbox
      BY <1>4, <2>0, <2>1 DEF OrderInv
    <2>2. CASE j = Len(outbox) + 1
      <3>1. outbox[i] \in Underway  BY <2>0 DEF Underway
      <3> QED  BY <1>4, <1>6, <1>7, <2>0, <2>2, <3>1
    <2> QED  BY <1>4, <2>1, <2>2
  <1> QED  BY <1>1, <1>9, <1>11, <1>12, <1>13 DEF OrderInv

\* Any result may be sent first: it overtakes the older ones, and the younger
\* ones are not behind it.
LEMMA OrderPublished ==
  ASSUME OrderInv, TypeOK', Publish
  PROVE  OrderInv'
  <1>0. outbox \in Seq(Results) /\ Len(outbox) \in Nat
    BY DEF OrderInv, TypeOK
  <1>1. PICK i \in DOMAIN outbox : results' = <<outbox[i]>> /\ outbox' = Without(outbox, i)
    BY <1>0 DEF Publish, Senders
  <1>2. UNCHANGED <<panel, link, events, etag, sync, want>>
    BY DEF Publish, pushVars, nodeVars
  <1> DEFINE From(j) == IF j < i THEN j ELSE j + 1
  <1>3. /\ DOMAIN outbox' = 1..(Len(outbox) - 1)
        /\ \A j \in DOMAIN outbox' :
             /\ From(j) \in DOMAIN outbox /\ From(j) # i
             /\ outbox'[j].cfg = outbox[From(j)].cfg /\ outbox'[j].users = outbox[From(j)].users
             /\ outbox'[j].overtaken = (outbox[From(j)].overtaken \/ From(j) < i)
    BY <1>0, <1>1, WithoutSeq, WithoutFrom
  <1>4. DOMAIN results' = {1} /\ results'[1] = outbox[i] /\ outbox[i] \in Underway
    BY <1>1 DEF Underway
  <1>5. \A x \in Underway' : \E y \in Underway :
          x.cfg = y.cfg /\ x.users = y.users /\ (y.overtaken => x.overtaken)
    <2> SUFFICES ASSUME NEW x \in Underway'
                 PROVE  \E y \in Underway :
                          x.cfg = y.cfg /\ x.users = y.users /\ (y.overtaken => x.overtaken)
      OBVIOUS
    <2>1. CASE x = outbox[i]  BY <1>4, <2>1
    <2>2. CASE \E j \in DOMAIN outbox' : x = outbox'[j]
      <3>1. PICK j \in DOMAIN outbox' : x = outbox'[j]  BY <2>2
      <3>2. outbox[From(j)] \in Underway  BY <1>3, <3>1 DEF Underway
      <3> QED  BY <1>3, <3>1, <3>2
    <2> QED  BY <1>4, <2>1, <2>2 DEF Underway
  <1>6. \A x \in Underway' : Within(x, etag)' /\ (x.overtaken \/ After(x, want)')
    BY <1>2, <1>5 DEF OrderInv, Within, After
  <1>7. \A k \in DOMAIN results', j \in DOMAIN outbox' :
          outbox[j].overtaken' \/ After(outbox[j], results[k])'
    <2> SUFFICES ASSUME NEW j \in DOMAIN outbox', ~outbox'[j].overtaken
                 PROVE  After(outbox'[j], outbox[i])
      BY <1>4 DEF After
    <2>0. From(j) \in DOMAIN outbox /\ From(j) # i /\ ~(From(j) < i)
      BY <1>3
    <2> HIDE DEF From
    <2>1. From(j) \in DOMAIN outbox /\ i < From(j)
      BY <1>0, <2>0
    <2>2. After(outbox[From(j)], outbox[i])
      BY <2>1 DEF OrderInv
    <2> QED  BY <1>3, <2>2 DEF After
  <1>8. \A h, j \in DOMAIN outbox' : h < j => After(outbox[j], outbox[h])'
    <2> SUFFICES ASSUME NEW h \in DOMAIN outbox', NEW j \in DOMAIN outbox', h < j
                 PROVE  After(outbox'[j], outbox'[h])
      BY DEF After
    <2>1. From(h) \in DOMAIN outbox /\ From(j) \in DOMAIN outbox /\ From(h) < From(j)
      BY <1>0, <1>3
    <2>2. After(outbox[From(j)], outbox[From(h)])
      BY <2>1 DEF OrderInv
    <2> QED  BY <1>3, <2>2 DEF After
  <1> QED  BY <1>2, <1>6, <1>7, <1>8 DEF OrderInv, Within

\* A result is applied, or refused, or rolled back: unless it was overtaken, the
\* desired state goes forward or stays.
LEMMA OrderApplied ==
  ASSUME OrderInv, TypeOK', ApplyResult
  PROVE  OrderInv' /\ (Within(want, want') \/ Head(results).overtaken)
  <1>0. Numbers /\ want \in Versions /\ results \in Seq(Results) /\ results # <<>>
    BY VersionType DEF OrderInv, TypeOK, ApplyResult
  <1> DEFINE r == Head(results)
  <1>1. 1 \in DOMAIN results /\ r = results[1] /\ r \in Underway
    BY <1>0 DEF Underway
  <1>2. /\ want'.cfg \in {want.cfg} \cup ({r.cfg} \ {0})
        /\ want'.users \in {want.users} \cup ({r.users} \ {0})
    <2>1. PICK c, u :
            /\ c = IF r.cfg = 0 \/ r.cfg \in Refused THEN want.cfg ELSE r.cfg
            /\ u = IF r.users = 0 THEN want.users ELSE r.users
            /\ \/ want' = [cfg |-> c, users |-> u]
               \/ ApplyUserUpdate(u)
               \/ want' = want
      BY DEF ApplyResult
    <2>2. want' \in {[cfg |-> c, users |-> u], [want EXCEPT !.users = u], want}
      BY <2>1 DEF ApplyUserUpdate
    <2> QED  BY <1>0, <2>1, <2>2 DEF Versions
  <1>3. /\ Within(r, etag) /\ (r.overtaken \/ After(r, want))
        /\ r.cfg \in Nat /\ r.users \in Nat
    BY <1>0, <1>1 DEF OrderInv, Numbers
  <1> HIDE DEF r
  <1>4. (Within(want, want') \/ r.overtaken) /\ Within(want', etag)
    BY <1>0, <1>2, <1>3 DEF OrderInv, Within, After, Numbers
  <1>5. UNCHANGED <<panel, link, events, etag, outbox>> /\ results' = <<>>
    BY DEF ApplyResult, pushVars
  <1>6. sync'.pull.cfg = sync.pull.cfg
    BY DEF ApplyResult, CompleteResync, OrderInv, TypeOK
  <1>7. \A x \in Underway' : x \in Underway /\ \E j \in DOMAIN outbox : x = outbox[j]
    BY <1>5 DEF Underway
  <1>8. ASSUME NEW x \in Underway', ~x.overtaken PROVE After(x, want')
    <2>1. PICK j \in DOMAIN outbox : x = outbox[j]  BY <1>7
    <2>2. After(x, r)  BY <1>1, <1>8, <2>1 DEF OrderInv
    <2>3. After(x, want) /\ x.cfg \in Nat /\ x.users \in Nat
      BY <1>0, <1>7, <1>8 DEF OrderInv, Numbers
    <2> QED  BY <1>2, <2>2, <2>3 DEF After
  <1>9. OrderInv'
    BY <1>4, <1>5, <1>6, <1>7, <1>8 DEF OrderInv, Within, After
  <1> QED  BY <1>4, <1>9 DEF r

\* Every step of a node without push keeps the order.
LEMMA OrderNext ==
  ASSUME ~Pushed, OrderInv, [Next]_vars
  PROVE  /\ OrderInv'
         /\ \/ want' = want \/ Within(want, want')
            \/ results # <<>> /\ Head(results).overtaken
  <1>0. TypeOK'  BY NextType DEF OrderInv
  <1>1. CASE EditConfig \/ EditUsers \/ Renew
    BY <1>0, <1>1, OrderEdited DEF EditConfig, EditUsers, Edit, Renew, nodeVars
  <1>2. CASE PullTick \/ HandleStatus
    BY <1>0, <1>2, OrderScheduled DEF PullTick, HandleStatus, nodeVars
  <1>3. CASE FetchConfig \/ FetchFails
    BY <1>0, <1>3, OrderFetched DEF FetchConfig, FetchFails, nodeVars
  <1>4. CASE FetchUsers
    BY <1>0, <1>4, OrderPolled DEF FetchUsers, nodeVars
  <1>5. CASE Publish
    BY <1>0, <1>5, OrderPublished DEF Publish, nodeVars
  <1>6. CASE ApplyResult
    BY <1>0, <1>6, OrderApplied DEF ApplyResult
  <1>7. CASE LinkFlips \/ HandleConfigEvent \/ HandleUsersEvent
    BY <1>7 DEF LinkFlips, HandleConfigEvent, HandleUsersEvent, OrderInv
  <1>8. CASE UNCHANGED vars
    BY <1>0, <1>8 DEF vars, OrderInv, Underway, Within, After
  <1> QED
    BY <1>1, <1>2, <1>3, <1>4, <1>5, <1>6, <1>7, <1>8
       DEF Next, External, Goroutine, SelectLoop

\* Without push, only a result that a later poll's has overtaken takes a node
\* back to an older version: no sequence of edits, renewals, failed requests,
\* refused configurations and failed kernel operations does it otherwise,
\* whatever order the goroutines publish in (Poll, FetchUsers, applySyncResult).
THEOREM OnlyOvertakenGoesBack ==
  ASSUME ~Pushed
  PROVE  Spec => GoesBackOnlyOvertaken
  <1>1. Init => OrderInv
    <2> SUFFICES ASSUME Init PROVE OrderInv  OBVIOUS
    <2>1. TypeOK  BY InitType
    <2>2. /\ etag = panel /\ want = etag /\ sync.pull = NoPull /\ ~link /\ events = <<>>
          /\ outbox = <<>> /\ results = <<>>
      BY DEF Init
    <2>3. Underway = {}  BY <2>2 DEF Underway
    <2>4. Numbers  BY <2>1, VersionType
    <2> QED  BY <2>1, <2>2, <2>3, <2>4 DEF OrderInv, Within, NoPull, Numbers
  <1>2. OrderInv /\ [Next]_vars => OrderInv'  BY OrderNext
  <1> DEFINE Back == want'.cfg < want.cfg \/ want'.users < want.users
             Late == results # <<>> /\ Head(results).overtaken
  <1>3. OrderInv /\ [Next]_vars => [Back => Late]_vars
    <2> SUFFICES ASSUME OrderInv, [Next]_vars, Back, ~Late PROVE FALSE
      OBVIOUS
    <2>1. Numbers /\ Numbers' /\ (want' = want \/ Within(want, want'))
      BY OrderNext, VersionType, PTL DEF OrderInv
    <2> QED  BY <2>1 DEF Within, Numbers
  <1>4. OrderInv /\ [Next]_vars => [Back => Late]_vars
    BY <1>3
  <1> QED  BY <1>1, <1>2, <1>4, PTL DEF Spec, GoesBackOnlyOvertaken
=============================================================================
