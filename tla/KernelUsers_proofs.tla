------------------------ MODULE KernelUsers_proofs ------------------------
(***************************************************************************)
(* Proofs about KernelUsers.tla: as long as no kernel call fails, the      *)
(* accounts of the running kernel follow the desired users through full    *)
(* lists, deltas and configuration changes; and whatever fails, a change   *)
(* admits nobody it takes out.                                             *)
(***************************************************************************)
EXTENDS KernelUsers, FiniteSetTheorems, WellFoundedInduction, TLAPS

-----------------------------------------------------------------------------
(* User lists                                                              *)

\* A user list is a function on some IDs to UUIDs.
LEMMA ListIs ==
  ASSUME NEW u
  PROVE  u \in UserLists <=> DOMAIN u \subseteq Ids /\ u \in [DOMAIN u -> Uuids]
BY DEF UserLists

LEMMA ListFacts ==
  ASSUME NEW u \in UserLists
  PROVE  /\ DOMAIN u \subseteq Ids
         /\ \A id \in DOMAIN u : u[id] \in Uuids
         /\ u = [id \in DOMAIN u |-> u[id]]
BY ListIs

\* Two lists with the same users and UUIDs are one.
LEMMA SameList ==
  ASSUME NEW u \in UserLists, NEW w \in UserLists,
         DOMAIN u = DOMAIN w, \A id \in DOMAIN u : u[id] = w[id]
  PROVE  u = w
BY ListFacts

LEMMA NobodyIs ==
  /\ Nobody \in UserLists
  /\ DOMAIN Nobody = {}
  /\ \A u \in UserLists : DOMAIN u = {} => u = Nobody
<1>1. Nobody \in UserLists /\ DOMAIN Nobody = {}
  <2>1. DOMAIN Nobody = {}
    BY DEF Nobody
  <2>2. Nobody \in [{} -> Uuids]
    BY DEF Nobody
  <2> QED BY <2>1, <2>2, ListIs
<1> QED BY <1>1, SameList

LEMMA MergedIs ==
  ASSUME NEW u \in UserLists, NEW w \in UserLists
  PROVE  /\ Merged(u, w) \in UserLists
         /\ DOMAIN Merged(u, w) = DOMAIN u \cup DOMAIN w
         /\ \A id \in DOMAIN u \cup DOMAIN w :
              Merged(u, w)[id] = IF id \in DOMAIN w THEN w[id] ELSE u[id]
<1>1. DOMAIN Merged(u, w) = DOMAIN u \cup DOMAIN w
  BY DEF Merged
<1>2. \A id \in DOMAIN u \cup DOMAIN w :
        Merged(u, w)[id] = IF id \in DOMAIN w THEN w[id] ELSE u[id]
  BY DEF Merged
<1>3. Merged(u, w) \in [DOMAIN u \cup DOMAIN w -> Uuids]
  BY ListFacts DEF Merged
<1> QED BY <1>1, <1>2, <1>3, ListFacts, ListIs

\* Merging a list into the empty one changes nothing.
LEMMA MergedNobody ==
  ASSUME NEW u \in UserLists
  PROVE  Merged(Nobody, u) = u
<1>1. Nobody \in UserLists /\ DOMAIN Nobody = {}
  BY NobodyIs
<1>2. /\ Merged(Nobody, u) \in UserLists
      /\ DOMAIN Merged(Nobody, u) = DOMAIN Nobody \cup DOMAIN u
      /\ \A id \in DOMAIN Nobody \cup DOMAIN u :
           Merged(Nobody, u)[id] = IF id \in DOMAIN u THEN u[id] ELSE Nobody[id]
  BY <1>1, MergedIs
<1>3. DOMAIN Nobody \cup DOMAIN u = DOMAIN u
  BY <1>1
<1> QED BY <1>2, <1>3, SameList

LEMMA RestrictIs ==
  ASSUME NEW u \in UserLists, NEW S \in SUBSET DOMAIN u
  PROVE  /\ Restrict(u, S) \in UserLists
         /\ DOMAIN Restrict(u, S) = S
         /\ \A id \in S : Restrict(u, S)[id] = u[id]
<1>1. Restrict(u, S) \in [S -> Uuids] /\ \A id \in S : Restrict(u, S)[id] = u[id]
  BY ListFacts DEF Restrict
<1> QED BY <1>1, ListFacts, ListIs

LEMMA WithoutIs ==
  ASSUME NEW u \in UserLists, NEW S
  PROVE  /\ Without(u, S) \in UserLists
         /\ DOMAIN Without(u, S) = DOMAIN u \ S
         /\ \A id \in DOMAIN u \ S : Without(u, S)[id] = u[id]
BY RestrictIs DEF Without

\* A list without the users of the empty set, or of none of it, is itself.
LEMMA WithoutNone ==
  ASSUME NEW u \in UserLists, NEW S, DOMAIN u \cap S = {}
  PROVE  Without(u, S) = u
<1>1. DOMAIN u \ S = DOMAIN u
  OBVIOUS
<1>2. /\ Without(u, S) \in UserLists
      /\ DOMAIN Without(u, S) = DOMAIN u
      /\ \A id \in DOMAIN u : Without(u, S)[id] = u[id]
  BY <1>1, WithoutIs
<1> QED BY <1>2, SameList

\* Leaving out two sets is leaving out their union.
LEMMA WithoutBoth ==
  ASSUME NEW u \in UserLists, NEW S, NEW T
  PROVE  Without(Without(u, S), T) = Without(u, S \cup T)
<1> DEFINE v == Without(u, S)  x == Without(u, S \cup T)  y == Without(v, T)
<1>1. v \in UserLists /\ DOMAIN v = DOMAIN u \ S /\ \A id \in DOMAIN u \ S : v[id] = u[id]
  BY WithoutIs
<1>2. /\ x \in UserLists
      /\ DOMAIN x = DOMAIN u \ (S \cup T)
      /\ \A id \in DOMAIN u \ (S \cup T) : x[id] = u[id]
  BY WithoutIs
<1> HIDE DEF v
<1>3. y \in UserLists /\ DOMAIN y = DOMAIN v \ T /\ \A id \in DOMAIN v \ T : y[id] = v[id]
  BY <1>1, WithoutIs
<1> HIDE DEF x, y
<1>4. y = x
  <2>1. DOMAIN y = DOMAIN x
    BY <1>1, <1>2, <1>3
  <2>2. \A id \in DOMAIN y : y[id] = x[id]
    BY <1>1, <1>2, <1>3
  <2> QED BY <1>2, <1>3, <2>1, <2>2, SameList
<1> QED BY <1>4 DEF v, x, y

LEMMA ToAddIs ==
  ASSUME NEW u \in UserLists, NEW w \in UserLists
  PROVE  /\ ToAdd(u, w) \in UserLists
         /\ DOMAIN ToAdd(u, w) = {id \in DOMAIN w : id \notin DOMAIN u \/ u[id] # w[id]}
         /\ \A id \in DOMAIN ToAdd(u, w) : ToAdd(u, w)[id] = w[id]
<1> DEFINE S == {id \in DOMAIN w : id \notin DOMAIN u \/ u[id] # w[id]}
<1>1. S \in SUBSET DOMAIN w /\ ToAdd(u, w) = Restrict(w, S)
  BY DEF ToAdd
<1> QED BY <1>1, RestrictIs

\* Adding what is new and removing what is gone turns one list into another,
\* when the list has no user with another UUID.
LEMMA DiffApplied ==
  ASSUME NEW u \in UserLists, NEW w \in UserLists, ~Reissues(u, w)
  PROVE  Merged(ToAdd(u, w), Without(u, ToRemove(u, w))) = w
<1> DEFINE a == ToAdd(u, w)  d == Without(u, ToRemove(u, w))
<1>1. /\ a \in UserLists
      /\ DOMAIN a = {id \in DOMAIN w : id \notin DOMAIN u \/ u[id] # w[id]}
      /\ \A id \in DOMAIN a : a[id] = w[id]
  BY ToAddIs
<1>2. /\ d \in UserLists
      /\ DOMAIN d = DOMAIN u \cap DOMAIN w
      /\ \A id \in DOMAIN d : d[id] = u[id]
  <2>1. /\ d \in UserLists
        /\ DOMAIN d = DOMAIN u \ ToRemove(u, w)
        /\ \A id \in DOMAIN u \ ToRemove(u, w) : d[id] = u[id]
    BY WithoutIs
  <2>2. DOMAIN u \ ToRemove(u, w) = DOMAIN u \cap DOMAIN w
    BY DEF ToRemove
  <2> HIDE DEF d
  <2> QED BY <2>1, <2>2
<1>3. \A id \in DOMAIN d : d[id] = w[id]
  BY <1>2 DEF Reissues
<1> HIDE DEF a, d
<1>4. /\ Merged(a, d) \in UserLists
      /\ DOMAIN Merged(a, d) = DOMAIN a \cup DOMAIN d
      /\ \A id \in DOMAIN a \cup DOMAIN d : Merged(a, d)[id] = w[id]
  BY <1>1, <1>2, <1>3, MergedIs
<1>5. DOMAIN a \cup DOMAIN d = DOMAIN w
  BY <1>1, <1>2
<1>6. Merged(a, d) = w
  BY <1>4, <1>5, SameList
<1> QED BY <1>6 DEF a, d

-----------------------------------------------------------------------------
(* Kernel calls                                                            *)

KernelRecords ==
  [run : BOOLEAN, accounts : UserLists, book : UserLists, cfg : Cfgs,
   hashed : Cfgs \X UserLists, failed : BOOLEAN]

\* A kernel record of its type; a kernel that does not run admits nobody.
Tidy(k) == k \in KernelRecords /\ (~k.run => k.accounts = Nobody)

\* A call on k refuses and changes nothing.
Refused(s, k) == ~s.ok /\ s.k = k

\* A call on k fails: the kernel keeps its accounts or admits nobody.
Broken(s, k) ==
  /\ ~s.ok /\ s.k.failed
  /\ Tidy(s.k)
  /\ s.k.run <=> k.run
  /\ s.k.accounts \in {k.accounts, Nobody}
  /\ s.k.book = k.book

\* A call on k works and leaves a kernel that runs with these accounts and book.
Leaves(s, k, accounts, book, c) ==
  /\ s.ok
  /\ Tidy(s.k)
  /\ s.k.failed <=> k.failed
  /\ s.k.run
  /\ s.k.accounts = accounts
  /\ s.k.book = book
  /\ s.k.cfg = c
  /\ s.k.hashed[1] \in {c, k.hashed[1]}

\* A call on k works and stops the kernel.
HasStopped(s, k) ==
  s.ok /\ Tidy(s.k) /\ (s.k.failed <=> k.failed) /\ ~s.k.run

LEMMA RecordFacts ==
  ASSUME NEW k \in KernelRecords
  PROVE  /\ k.run \in BOOLEAN /\ k.failed \in BOOLEAN
         /\ k.accounts \in UserLists /\ k.book \in UserLists
         /\ k.cfg \in Cfgs /\ k.hashed \in Cfgs \X UserLists /\ k.hashed[1] \in Cfgs
<1>1. k.hashed \in Cfgs \X UserLists
  BY DEF KernelRecords
<1>2. k.hashed[1] \in Cfgs
  BY <1>1
<1> QED BY <1>1, <1>2 DEF KernelRecords

LEMMA DoneIs ==
  ASSUME NEW k
  PROVE  \A s \in Done(k) : s.ok /\ s.k = k
BY DEF Done

LEMMA RefusesIs ==
  ASSUME NEW k
  PROVE  \A s \in Refuses(k) : Refused(s, k)
BY DEF Refuses, Refused

LEMMA DoneLeaves ==
  ASSUME NEW k, Tidy(k), k.run
  PROVE  \A s \in Done(k) : Leaves(s, k, k.accounts, k.book, k.cfg)
BY DoneIs DEF Leaves

LEMMA FailsAre ==
  ASSUME NEW k, Tidy(k)
  PROVE  \A s \in Fails(k) : Broken(s, k)
<1> DEFINE x == [k EXCEPT !.failed = TRUE]
<1>1. k \in KernelRecords
  BY DEF Tidy
<1>2. x \in KernelRecords
  BY <1>1 DEF KernelRecords
<1>3. x.failed /\ (x.run <=> k.run) /\ x.accounts = k.accounts /\ x.book = k.book
  BY <1>1 DEF KernelRecords
<1>4. Tidy(x)
  BY <1>2, <1>3 DEF Tidy
<1> HIDE DEF x
<1>5. \A s \in Fails(k) : Refused(s, x)
  BY RefusesIs DEF Fails, x
<1> QED BY <1>3, <1>4, <1>5 DEF Refused, Broken

LEMMA StartIs ==
  ASSUME NEW k, Tidy(k), NEW c \in Cfgs, NEW u \in UserLists
  PROVE  \A s \in Start(k, c, u) :
           \/ Leaves(s, k, u, u, c) /\ s.k.hashed[1] = c
           \/ Broken(s, k)
<1> DEFINE x == [k EXCEPT !.run = TRUE, !.accounts = u, !.book = u, !.cfg = c, !.hashed = <<c, u>>]
<1>1. k \in KernelRecords
  BY DEF Tidy
<1>2. <<c, u>> \in Cfgs \X UserLists /\ <<c, u>>[1] = c
  OBVIOUS
<1>3. x \in KernelRecords
  BY <1>1, <1>2 DEF KernelRecords
<1>4. /\ x.run /\ (x.failed <=> k.failed) /\ x.accounts = u /\ x.book = u /\ x.cfg = c
      /\ x.hashed = <<c, u>>
  BY <1>1 DEF KernelRecords
<1>5. Tidy(x) /\ x.hashed[1] = c
  BY <1>2, <1>3, <1>4 DEF Tidy
<1>6. Start(k, c, u) = Done(x) \cup Fails(k)
  BY DEF Start
<1> HIDE DEF x
<1>7. \A s \in Done(x) : Leaves(s, k, u, u, c) /\ s.k.hashed[1] = c
  BY <1>4, <1>5, DoneIs DEF Leaves
<1> QED BY <1>6, <1>7, FailsAre

LEMMA SwappedIs ==
  ASSUME NEW k, Tidy(k), k.run, NEW u \in UserLists
  PROVE  \A s \in Swapped(k, u) : Leaves(s, k, u, u, k.cfg) \/ Broken(s, k)
<1> DEFINE x == [k EXCEPT !.accounts = u, !.book = u]
           y == [k EXCEPT !.accounts = Nobody]
<1>1. k \in KernelRecords
  BY DEF Tidy
<1>2. x \in KernelRecords
  BY <1>1 DEF KernelRecords
<1>3. /\ x.run /\ (x.failed <=> k.failed) /\ x.accounts = u /\ x.book = u /\ x.cfg = k.cfg
      /\ x.hashed = k.hashed
  BY <1>1 DEF KernelRecords
<1>4. y \in KernelRecords
  BY <1>1, NobodyIs DEF KernelRecords
<1>5. y.run /\ y.accounts = Nobody /\ y.book = k.book
  BY <1>1 DEF KernelRecords
<1>6. Swapped(k, u) = Done(x) \cup Fails(k) \cup Fails(y)
  BY DEF Swapped
<1> HIDE DEF x, y
<1>7. Tidy(x) /\ Tidy(y)
  BY <1>2, <1>3, <1>4, <1>5 DEF Tidy
<1>8. \A s \in Done(x) : Leaves(s, k, u, u, k.cfg)
  BY <1>3, <1>7, DoneIs DEF Leaves
<1>9. \A s \in Fails(y) : Broken(s, k)
  BY <1>5, <1>7, FailsAre DEF Broken
<1> QED BY <1>6, <1>8, <1>9, FailsAre

LEMMA ManagedIs ==
  ASSUME NEW k, Tidy(k), k.run, NEW a \in UserLists, NEW gone, NEW book \in UserLists
  PROVE  \A s \in Managed(k, a, gone, book) :
           Leaves(s, k, Merged(a, Without(k.accounts, gone)), book, k.cfg)
<1> DEFINE m == Merged(a, Without(k.accounts, gone))
           x == [k EXCEPT !.accounts = m, !.book = book]
<1>1. k \in KernelRecords
  BY DEF Tidy
<1>2. m \in UserLists
  BY <1>1, RecordFacts, WithoutIs, MergedIs
<1>3. Managed(k, a, gone, book) = Done(x)
  BY DEF Managed
<1> HIDE DEF m
<1>4. x \in KernelRecords
  BY <1>1, <1>2 DEF KernelRecords
<1>5. /\ x.run /\ (x.failed <=> k.failed) /\ x.accounts = m /\ x.book = book /\ x.cfg = k.cfg
      /\ x.hashed = k.hashed
  BY <1>1 DEF KernelRecords
<1> HIDE DEF x
<1>6. Tidy(x)
  BY <1>4, <1>5 DEF Tidy
<1>7. \A s \in Done(x) : Leaves(s, k, m, book, k.cfg)
  BY <1>5, <1>6, DoneIs DEF Leaves
<1> QED BY <1>3, <1>7 DEF m

LEMMA StoppedIs ==
  ASSUME NEW k, Tidy(k)
  PROVE  Tidy(Stopped(k)) /\ ~Stopped(k).run /\ (Stopped(k).failed <=> k.failed)
<1>1. k \in KernelRecords
  BY DEF Tidy
<1>2. Stopped(k) \in KernelRecords
  BY <1>1, NobodyIs DEF KernelRecords, Stopped
<1>3. ~Stopped(k).run /\ (Stopped(k).failed <=> k.failed) /\ Stopped(k).accounts = Nobody
  BY <1>1 DEF KernelRecords, Stopped
<1> QED BY <1>2, <1>3 DEF Tidy

LEMMA UpdateUsersIs ==
  ASSUME kind \in Kinds, NEW k, Tidy(k), NEW u \in UserLists
  PROVE  \A s \in UpdateUsers(k, u) :
           \/ ~k.run /\ Refused(s, k)
           \/ k.run /\ k.book = u /\ Leaves(s, k, k.accounts, u, k.cfg)
           \/ k.run /\ Leaves(s, k, u, u, k.cfg)
           \/ /\ k.run /\ kind = "xray"
              /\ Leaves(s, k, Merged(ToAdd(k.book, u), Without(k.accounts, ToRemove(k.book, u))),
                        u, k.cfg)
           \/ k.run /\ k.book # u /\ Broken(s, k)
<1>1. k \in KernelRecords /\ k.book \in UserLists /\ k.cfg \in Cfgs
  BY RecordFacts DEF Tidy
<1> SUFFICES ASSUME NEW s \in UpdateUsers(k, u)
             PROVE  \/ ~k.run /\ Refused(s, k)
                    \/ k.run /\ k.book = u /\ Leaves(s, k, k.accounts, u, k.cfg)
                    \/ k.run /\ Leaves(s, k, u, u, k.cfg)
                    \/ /\ k.run /\ kind = "xray"
                       /\ Leaves(s, k, Merged(ToAdd(k.book, u), Without(k.accounts, ToRemove(k.book, u))),
                                 u, k.cfg)
                    \/ k.run /\ k.book # u /\ Broken(s, k)
  OBVIOUS
<1>2. CASE ~k.run
  <2>1. s \in Refuses(k)
    BY <1>2 DEF UpdateUsers
  <2> QED BY <1>2, <2>1, RefusesIs
<1>3. CASE k.run /\ k.book = u
  <2>1. s \in Done(k)
    BY <1>3 DEF UpdateUsers
  <2> QED BY <1>3, <2>1, DoneLeaves
<1>4. CASE k.run /\ k.book # u /\ kind = "singbox"
  <2>1. s \in Swapped(k, u)
    BY <1>4 DEF UpdateUsers
  <2> QED BY <1>4, <2>1, SwappedIs
<1>5. CASE k.run /\ k.book # u /\ kind = "xray"
  <2>1. s \in Managed(k, ToAdd(k.book, u), ToRemove(k.book, u), u)
    BY <1>5 DEF UpdateUsers
  <2>2. ToAdd(k.book, u) \in UserLists
    BY <1>1, ToAddIs
  <2>3. Leaves(s, k, Merged(ToAdd(k.book, u), Without(k.accounts, ToRemove(k.book, u))), u, k.cfg)
    BY <1>5, <2>1, <2>2, ManagedIs
  <2> QED BY <1>5, <2>3
<1>6. CASE k.run /\ k.book # u /\ kind = "xray-restart"
  <2>1. s \in Start(k, k.cfg, u)
    BY <1>6 DEF UpdateUsers
  <2> QED BY <1>1, <1>6, <2>1, StartIs
<1> QED BY <1>2, <1>3, <1>4, <1>5, <1>6 DEF Kinds

\* The users of a delta that the kernel's book does not have.
Fresh(k, delta) == Restrict(delta, DOMAIN delta \ DOMAIN k.book)

LEMMA FreshIs ==
  ASSUME NEW k, Tidy(k), NEW delta \in UserLists
  PROVE  /\ Fresh(k, delta) \in UserLists
         /\ DOMAIN Fresh(k, delta) = DOMAIN delta \ DOMAIN k.book
         /\ \A id \in DOMAIN delta \ DOMAIN k.book : Fresh(k, delta)[id] = delta[id]
<1>1. DOMAIN delta \ DOMAIN k.book \in SUBSET DOMAIN delta
  OBVIOUS
<1> QED BY <1>1, RestrictIs DEF Fresh

LEMMA AddUsersIs ==
  ASSUME kind \in Kinds, NEW k, Tidy(k), NEW delta \in UserLists
  PROVE  \A s \in AddUsers(k, delta) :
           \/ ~k.run /\ Refused(s, k)
           \/ /\ k.run /\ kind = "singbox" /\ Fresh(k, delta) = Nobody
              /\ Leaves(s, k, k.accounts, k.book, k.cfg)
           \/ /\ k.run /\ kind = "singbox"
              /\ Leaves(s, k, Merged(k.book, Fresh(k, delta)), Merged(k.book, Fresh(k, delta)), k.cfg)
           \/ /\ k.run /\ kind = "xray"
              /\ Leaves(s, k, Merged(Fresh(k, delta), Without(k.accounts, {})),
                        Merged(k.book, delta), k.cfg)
           \/ /\ k.run /\ kind = "xray-restart" /\ Fresh(k, delta) = Nobody
              /\ Leaves(s, k, k.accounts, Merged(k.book, delta), k.cfg)
           \/ k.run /\ Leaves(s, k, Merged(k.book, delta), Merged(k.book, delta), k.cfg)
           \/ k.run /\ kind # "xray" /\ Fresh(k, delta) # Nobody /\ Broken(s, k)
<1> DEFINE Goal(s) ==
           \/ ~k.run /\ Refused(s, k)
           \/ /\ k.run /\ kind = "singbox" /\ Fresh(k, delta) = Nobody
              /\ Leaves(s, k, k.accounts, k.book, k.cfg)
           \/ /\ k.run /\ kind = "singbox"
              /\ Leaves(s, k, Merged(k.book, Fresh(k, delta)), Merged(k.book, Fresh(k, delta)), k.cfg)
           \/ /\ k.run /\ kind = "xray"
              /\ Leaves(s, k, Merged(Fresh(k, delta), Without(k.accounts, {})),
                        Merged(k.book, delta), k.cfg)
           \/ /\ k.run /\ kind = "xray-restart" /\ Fresh(k, delta) = Nobody
              /\ Leaves(s, k, k.accounts, Merged(k.book, delta), k.cfg)
           \/ k.run /\ Leaves(s, k, Merged(k.book, delta), Merged(k.book, delta), k.cfg)
           \/ k.run /\ kind # "xray" /\ Fresh(k, delta) # Nobody /\ Broken(s, k)
<1>1. k \in KernelRecords /\ k.book \in UserLists /\ k.cfg \in Cfgs
  BY RecordFacts DEF Tidy
<1>2. Fresh(k, delta) \in UserLists
  BY FreshIs
<1>3. Merged(k.book, delta) \in UserLists /\ Merged(k.book, Fresh(k, delta)) \in UserLists
  BY <1>1, <1>2, MergedIs
<1> SUFFICES ASSUME NEW s \in AddUsers(k, delta) PROVE Goal(s)
  OBVIOUS
<1>4. CASE ~k.run
  <2>1. s \in Refuses(k)
    BY <1>4 DEF AddUsers
  <2> QED BY <1>4, <2>1, RefusesIs
<1>5. CASE k.run /\ kind = "singbox" /\ Fresh(k, delta) = Nobody
  <2>1. s \in Done(k)
    BY <1>5 DEF AddUsers, Fresh
  <2> QED BY <1>5, <2>1, DoneLeaves
<1>6. CASE k.run /\ kind = "singbox" /\ Fresh(k, delta) # Nobody
  <2>1. s \in Swapped(k, Merged(k.book, Fresh(k, delta)))
    BY <1>6 DEF AddUsers, Fresh
  <2> QED BY <1>3, <1>6, <2>1, SwappedIs
<1>7. CASE k.run /\ kind = "xray"
  <2>1. s \in Managed(k, Fresh(k, delta), {}, Merged(k.book, delta))
    BY <1>7 DEF AddUsers, Fresh
  <2>2. Leaves(s, k, Merged(Fresh(k, delta), Without(k.accounts, {})), Merged(k.book, delta), k.cfg)
    BY <1>2, <1>3, <1>7, <2>1, ManagedIs
  <2> QED BY <1>7, <2>2
<1>8. CASE k.run /\ kind = "xray-restart" /\ Fresh(k, delta) = Nobody
  <2> DEFINE x == [k EXCEPT !.book = Merged(k.book, delta)]
  <2>1. s \in Done(x)
    BY <1>8 DEF AddUsers, Fresh
  <2>2. x \in KernelRecords
    BY <1>1, <1>3 DEF KernelRecords
  <2>3. /\ x.run /\ (x.failed <=> k.failed) /\ x.accounts = k.accounts
        /\ x.book = Merged(k.book, delta) /\ x.cfg = k.cfg /\ x.hashed = k.hashed
    BY <1>1, <1>8 DEF KernelRecords
  <2> HIDE DEF x
  <2>4. Tidy(x)
    BY <2>2, <2>3 DEF Tidy
  <2>5. Leaves(s, k, k.accounts, Merged(k.book, delta), k.cfg)
    BY <2>1, <2>3, <2>4, DoneIs DEF Leaves
  <2> QED BY <1>8, <2>5
<1>9. CASE k.run /\ kind = "xray-restart" /\ Fresh(k, delta) # Nobody
  <2>1. s \in Start(k, k.cfg, Merged(k.book, delta))
    BY <1>9 DEF AddUsers, Fresh
  <2>2. Leaves(s, k, Merged(k.book, delta), Merged(k.book, delta), k.cfg) \/ Broken(s, k)
    BY <1>1, <1>3, <2>1, StartIs
  <2> QED BY <1>9, <2>2
<1> QED BY <1>4, <1>5, <1>6, <1>7, <1>8, <1>9 DEF Kinds

LEMMA RemoveUsersIs ==
  ASSUME kind \in Kinds, NEW k, Tidy(k), NEW ids
  PROVE  \A s \in RemoveUsers(k, ids) :
           \/ ~k.run /\ Refused(s, k)
           \/ k.run /\ Without(k.book, ids) = k.book /\ Leaves(s, k, k.accounts, k.book, k.cfg)
           \/ k.run /\ Leaves(s, k, Without(k.book, ids), Without(k.book, ids), k.cfg)
           \/ k.run /\ kind # "singbox" /\ Without(k.book, ids) = Nobody /\ HasStopped(s, k)
           \/ /\ k.run /\ kind = "xray"
              /\ Leaves(s, k, Merged(Nobody, Without(k.accounts, ids)), Without(k.book, ids), k.cfg)
           \/ k.run /\ kind # "xray" /\ Without(k.book, ids) # k.book /\ Broken(s, k)
<1> DEFINE kept == Without(k.book, ids)
           Goal(s) ==
           \/ ~k.run /\ Refused(s, k)
           \/ k.run /\ kept = k.book /\ Leaves(s, k, k.accounts, k.book, k.cfg)
           \/ k.run /\ Leaves(s, k, kept, kept, k.cfg)
           \/ k.run /\ kind # "singbox" /\ kept = Nobody /\ HasStopped(s, k)
           \/ /\ k.run /\ kind = "xray"
              /\ Leaves(s, k, Merged(Nobody, Without(k.accounts, ids)), kept, k.cfg)
           \/ k.run /\ kind # "xray" /\ kept # k.book /\ Broken(s, k)
<1>1. k \in KernelRecords /\ k.book \in UserLists /\ k.cfg \in Cfgs
  BY RecordFacts DEF Tidy
<1>2. kept \in UserLists
  BY <1>1, WithoutIs
<1> SUFFICES ASSUME NEW s \in RemoveUsers(k, ids) PROVE Goal(s)
  OBVIOUS
<1>3. CASE ~k.run
  <2>1. s \in Refuses(k)
    BY <1>3 DEF RemoveUsers
  <2> QED BY <1>3, <2>1, RefusesIs
<1>4. CASE k.run /\ kept = k.book
  <2>1. s \in Done(k)
    BY <1>4 DEF RemoveUsers
  <2> QED BY <1>4, <2>1, DoneLeaves
<1>5. CASE k.run /\ kept # k.book /\ kind = "singbox"
  <2>1. s \in Swapped(k, kept)
    BY <1>5 DEF RemoveUsers
  <2> HIDE DEF kept
  <2>2. Leaves(s, k, kept, kept, k.cfg) \/ Broken(s, k)
    BY <1>2, <1>5, <2>1, SwappedIs
  <2> QED BY <1>5, <2>2
<1>6. CASE k.run /\ kept # k.book /\ kind # "singbox" /\ kept = Nobody
  <2>1. s \in Done(Stopped(k))
    BY <1>6 DEF RemoveUsers
  <2>2. HasStopped(s, k)
    BY <2>1, DoneIs, StoppedIs DEF HasStopped
  <2> QED BY <1>6, <2>2
<1>7. CASE k.run /\ kept # k.book /\ kind = "xray" /\ kept # Nobody
  <2>1. s \in Managed(k, Nobody, ids, kept)
    BY <1>7 DEF RemoveUsers
  <2> HIDE DEF kept
  <2>2. Leaves(s, k, Merged(Nobody, Without(k.accounts, ids)), kept, k.cfg)
    BY <1>2, <1>7, <2>1, ManagedIs, NobodyIs
  <2> QED BY <1>7, <2>2
<1>8. CASE k.run /\ kept # k.book /\ kind = "xray-restart" /\ kept # Nobody
  <2>1. s \in Start(k, k.cfg, kept)
    BY <1>8 DEF RemoveUsers
  <2> HIDE DEF kept
  <2>2. Leaves(s, k, kept, kept, k.cfg) \/ Broken(s, k)
    BY <1>1, <1>2, <2>1, StartIs
  <2> QED BY <1>8, <2>2
<1> QED BY <1>3, <1>4, <1>5, <1>6, <1>7, <1>8 DEF Kinds

-----------------------------------------------------------------------------
(* Users taken out one by one                                              *)

\* What holds of 0 and is handed on holds of every number.
LEMMA Handed ==
  ASSUME NEW S \in SUBSET Nat, 0 \in S, \A n \in S : n + 1 \in S
  PROVE  S = Nat
<1> SUFFICES ASSUME Nat \ S # {} PROVE FALSE
  OBVIOUS
<1>1. PICK m \in Nat \ S : \A y \in Nat \ S : <<y, m>> \notin OpToRel(<, Nat)
  BY NatLessThanWellFounded, WFMin
<1>2. m # 0 /\ m - 1 \in Nat /\ m - 1 < m
  OBVIOUS
<1>3. <<m - 1, m>> \in OpToRel(<, Nat)
  BY <1>2 DEF OpToRel
<1>4. m - 1 \in S
  BY <1>1, <1>2, <1>3
<1>5. (m - 1) + 1 \in S /\ (m - 1) + 1 = m
  BY <1>2, <1>4
<1> QED BY <1>5

\* What taking users out, in the order of a sequence, leaves: a set of kernels
\* for each number of users.
Step(ks, id) == UNION {Ks(RemoveUsers(x, {id})) : x \in ks}
TakenOut(t, k, s, n) == t = [i \in 0..n |-> IF i = 0 THEN {k} ELSE Step(t[i - 1], s[i])]

LEMMA TakenExists ==
  ASSUME NEW k, NEW s, NEW n \in Nat
  PROVE  \E t : TakenOut(t, k, s, n)
<1> DEFINE S == {m \in Nat : \E t : TakenOut(t, k, s, m)}
<1>1. 0 \in S
  <2> DEFINE t == [i \in 0..0 |-> {k}]
  <2>1. TakenOut(t, k, s, 0)
    BY DEF TakenOut
  <2> QED BY <2>1
<1>2. ASSUME NEW m \in S PROVE m + 1 \in S
  <2>1. m \in Nat /\ 0..m \subseteq 0..(m + 1) /\ \A i \in 0..(m + 1) : i # 0 => i - 1 \in 0..m
    OBVIOUS
  <2>2. PICK t : TakenOut(t, k, s, m)
    OBVIOUS
  <2> DEFINE u == [i \in 0..(m + 1) |-> IF i = m + 1 THEN Step(t[m], s[m + 1]) ELSE t[i]]
  <2>3. \A i \in 0..m : u[i] = t[i] /\ t[i] = IF i = 0 THEN {k} ELSE Step(t[i - 1], s[i])
    <3> TAKE i \in 0..m
    <3>1. u[i] = t[i]
      BY <2>1
    <3>2. t[i] = IF i = 0 THEN {k} ELSE Step(t[i - 1], s[i])
      BY <2>2 DEF TakenOut
    <3> QED BY <3>1, <3>2
  <2>4. \A i \in 0..(m + 1) : u[i] = IF i = 0 THEN {k} ELSE Step(u[i - 1], s[i])
    <3> TAKE i \in 0..(m + 1)
    <3>1. CASE i = m + 1
      <4>1. u[i] = Step(t[m], s[i]) /\ i # 0 /\ i - 1 = m /\ u[m] = t[m]
        BY <2>1, <2>3, <3>1
      <4> QED BY <4>1
    <3>2. CASE i # m + 1
      <4>1. i \in 0..m
        BY <2>1, <3>2
      <4>2. i # 0 => i - 1 \in 0..m
        BY <2>1
      <4>3. i # 0 => u[i - 1] = t[i - 1]
        BY <2>3, <4>2
      <4>4. u[i] = IF i = 0 THEN {k} ELSE Step(t[i - 1], s[i])
        BY <2>3, <4>1
      <4> QED BY <4>3, <4>4
    <3> QED BY <3>1, <3>2
  <2>5. TakenOut(u, k, s, m + 1)
    <3>1. u = [i \in 0..(m + 1) |-> u[i]]
      OBVIOUS
    <3> HIDE DEF u
    <3> QED BY <2>4, <3>1 DEF TakenOut
  <2> QED BY <2>1, <2>5
<1>3. S = Nat
  BY <1>1, <1>2, Handed
<1> QED BY <1>3

\* The users whose UUID a delta changes.
Changed(delta) == {id \in DOMAIN delta \cap DOMAIN want : want[id] # delta[id]}


LEMMA OldTakenIs ==
  ASSUME NEW k, NEW delta
  PROVE  LET s == SetToSeq(Changed(delta)) IN
          Len(s) \in Nat => \E t : TakenOut(t, k, s, Len(s)) /\ OldTaken(k, delta) = t[Len(s)]
<1> DEFINE s == SetToSeq(Changed(delta))
           n == Len(s)
<1> SUFFICES ASSUME n \in Nat PROVE \E t : TakenOut(t, k, s, n) /\ OldTaken(k, delta) = t[n]
  OBVIOUS
<1> DEFINE c == CHOOSE t : t = [i \in 0..n |->
                   IF i = 0 THEN {k} ELSE UNION {Ks(RemoveUsers(x, {s[i]})) : x \in t[i - 1]}]
<1>1. OldTaken(k, delta) = c[n]
  BY DEF OldTaken, Changed
<1> HIDE DEF s, n
<1>2. \E t : t = [i \in 0..n |-> IF i = 0 THEN {k} ELSE UNION {Ks(RemoveUsers(x, {s[i]})) : x \in t[i - 1]}]
  <2>1. PICK t : TakenOut(t, k, s, n)
    BY TakenExists
  <2>2. t = [i \in 0..n |-> IF i = 0 THEN {k} ELSE Step(t[i - 1], s[i])]
    BY <2>1, Zenon DEF TakenOut
  <2>3. t = [i \in 0..n |-> IF i = 0 THEN {k} ELSE UNION {Ks(RemoveUsers(x, {s[i]})) : x \in t[i - 1]}]
    BY <2>2, Zenon DEF Step
  <2> QED BY <2>3, Zenon
<1>3. c = [i \in 0..n |-> IF i = 0 THEN {k} ELSE UNION {Ks(RemoveUsers(x, {s[i]})) : x \in c[i - 1]}]
  BY <1>2, Zenon
<1> HIDE DEF c
<1>4. TakenOut(c, k, s, n)
  BY <1>3, Zenon DEF TakenOut, Step
<1> QED BY <1>1, <1>4, Zenon

\* A finite set in a sequence has all its members there.
LEMMA SetToSeqIs ==
  ASSUME NEW S, IsFiniteSet(S)
  PROVE  /\ Len(SetToSeq(S)) = Cardinality(S)
         /\ Cardinality(S) \in Nat
         /\ S = {SetToSeq(S)[i] : i \in 1..Cardinality(S)}
<1> DEFINE n == Cardinality(S)  s == SetToSeq(S)
<1>1. n \in Nat /\ ExistsBijection(1..n, S)
  BY FS_CardinalityType
<1>2. \E f \in [1..n -> S] : IsInjective(f)
  BY <1>1 DEF ExistsBijection, Bijection, Injection
<1>3. s \in [1..n -> S] /\ IsInjective(s)
  BY <1>2, Zenon DEF SetToSeq
<1> HIDE DEF s, n
<1>4. s \in Injection(1..n, S)
  BY <1>3 DEF Injection
<1>5. IsFiniteSet(1..n) /\ Cardinality(1..n) = n
  BY <1>1, FS_Interval
<1>6. s \in Surjection(1..n, S)
  BY <1>4, <1>5, FS_Injection DEF n
<1>7. S = {s[i] : i \in 1..n}
  BY <1>3, <1>6 DEF Surjection
<1>8. Len(s) = n
  BY <1>1, <1>3
<1> QED BY <1>1, <1>7, <1>8 DEF s, n

\* A delta that changes no UUID takes nobody out.
LEMMA NoneChanged ==
  ASSUME NEW k, NEW delta, Changed(delta) = {}
  PROVE  OldTaken(k, delta) = {k}
<1> DEFINE s == SetToSeq(Changed(delta))
<1>1. Len(s) = 0
  BY FS_EmptySet, SetToSeqIs
<1>2. PICK t : TakenOut(t, k, s, Len(s)) /\ OldTaken(k, delta) = t[Len(s)]
  <2>1. Len(s) \in Nat
    BY <1>1
  <2> QED BY <2>1, OldTakenIs, Zenon
<1> HIDE DEF s
<1>3. t[0] = {k}
  BY <1>1, <1>2 DEF TakenOut
<1> QED BY <1>1, <1>2, <1>3

-----------------------------------------------------------------------------
(* The kernel follows the desired users                                    *)

\* The kernel k, unless a call failed on it, has the list w in its book, and
\* admits w, a list that a full list changed in Xray set aside; it runs the
\* configuration c, and does not run without users only, or because a delta
\* stopped Xray.
InStep(k, w, c, R) ==
  \/ k.failed
  \/ /\ k.run => /\ k.book = w
                 /\ k.accounts = w \/ (kind = "xray" /\ "full" \in R)
                 /\ kind # "singbox" => k.cfg = c /\ k.hashed[1] = c
     /\ (kind # "singbox" /\ "delta" \in R) \/ (w # Nobody => k.run)

\* The inductive invariant.
FollowInv ==
  /\ kind \in Kinds
  /\ Tidy(kern)
  /\ want \in UserLists
  /\ config \in Cfgs
  /\ reissued \subseteq {"full", "delta"}
  /\ InStep(kern, want, config, reissued)

\* A call that works on a kernel with the right configuration puts it in step.
LEMMA LeavesInStep ==
  ASSUME NEW k, NEW s, NEW acc, NEW w, NEW R, Leaves(s, k, acc, w, k.cfg),
         \/ k.failed
         \/ /\ acc = w \/ (kind = "xray" /\ "full" \in R)
            /\ kind # "singbox" => k.cfg = config /\ k.hashed[1] = config
  PROVE  Tidy(s.k) /\ InStep(s.k, w, config, R)
BY DEF Leaves, InStep

\* A failed call leaves nothing to ask for.
LEMMA BrokenInStep ==
  ASSUME NEW k, NEW s, NEW w, NEW R, Broken(s, k)
  PROVE  Tidy(s.k) /\ s.k.failed /\ InStep(s.k, w, config, R)
BY DEF Broken, InStep

\* The kernel after the users gone were taken out, one call each.
Taken(x, gone, R) ==
  /\ Tidy(x)
  /\ \/ x.failed
     \/ /\ x.run => /\ x.book = Without(want, gone)
                    /\ x.accounts = x.book \/ (kind = "xray" /\ "full" \in R)
                    /\ kind # "singbox" => x.cfg = config /\ x.hashed[1] = config
        /\ x.run \/ kind # "singbox"

LEMMA TakenFirst ==
  ASSUME FollowInv, kern.run, NEW R, reissued \subseteq R
  PROVE  Taken(kern, {}, R)
<1>1. Without(want, {}) = want
  BY WithoutNone DEF FollowInv
<1> QED BY <1>1 DEF FollowInv, InStep, Taken

LEMMA TakenNext ==
  ASSUME kind \in Kinds, want \in UserLists, NEW x, NEW gone, NEW R, Taken(x, gone, R),
         NEW id, NEW s \in RemoveUsers(x, {id})
  PROVE  Taken(s.k, gone \cup {id}, R)
<1> DEFINE kept == Without(x.book, {id})
<1>1. Tidy(x) /\ x \in KernelRecords /\ x.book \in UserLists /\ x.accounts \in UserLists
  BY RecordFacts DEF Taken, Tidy
<1>2. x.book = Without(want, gone) => kept = Without(want, gone \cup {id})
  BY WithoutBoth
<1>3. x.accounts = x.book => Merged(Nobody, Without(x.accounts, {id})) = kept
  BY <1>1, WithoutIs, MergedNobody
<1>4. \/ ~x.run /\ Refused(s, x)
      \/ x.run /\ kept = x.book /\ Leaves(s, x, x.accounts, x.book, x.cfg)
      \/ x.run /\ Leaves(s, x, kept, kept, x.cfg)
      \/ x.run /\ kind # "singbox" /\ kept = Nobody /\ HasStopped(s, x)
      \/ /\ x.run /\ kind = "xray"
         /\ Leaves(s, x, Merged(Nobody, Without(x.accounts, {id})), kept, x.cfg)
      \/ x.run /\ kept # x.book /\ Broken(s, x)
  BY <1>1, RemoveUsersIs
<1> HIDE DEF kept
<1>5. CASE ~x.run /\ Refused(s, x)
  BY <1>5 DEF Taken, Refused
<1>6. CASE x.run /\ kept = x.book /\ Leaves(s, x, x.accounts, x.book, x.cfg)
  BY <1>2, <1>6 DEF Taken, Leaves
<1>7. CASE x.run /\ Leaves(s, x, kept, kept, x.cfg)
  BY <1>2, <1>7 DEF Taken, Leaves
<1>8. CASE x.run /\ kind # "singbox" /\ kept = Nobody /\ HasStopped(s, x)
  BY <1>8 DEF Taken, HasStopped
<1>9. CASE x.run /\ kind = "xray" /\ Leaves(s, x, Merged(Nobody, Without(x.accounts, {id})), kept, x.cfg)
  BY <1>2, <1>3, <1>9 DEF Taken, Leaves
<1>10. CASE Broken(s, x)
  BY <1>10 DEF Taken, Broken
<1> QED BY <1>4, <1>5, <1>6, <1>7, <1>8, <1>9, <1>10

LEMMA TakenAll ==
  ASSUME FollowInv, kern.run, NEW R, reissued \subseteq R,
         NEW delta \in UserLists
  PROVE  \A x \in OldTaken(kern, delta) : Taken(x, Changed(delta), R)
<1> DEFINE s == SetToSeq(Changed(delta))
           n == Len(s)
<1>1. IsFiniteSet(Changed(delta))
  <2>1. Changed(delta) \in SUBSET Ids
    BY ListFacts DEF Changed
  <2> QED BY <2>1, KernelUsersAssumption, FS_Subset
<1>2. n \in Nat /\ Changed(delta) = {s[j] : j \in 1..n}
  BY <1>1, SetToSeqIs
<1>3. PICK t : TakenOut(t, kern, s, n) /\ OldTaken(kern, delta) = t[n]
  BY <1>2, OldTakenIs
<1> HIDE DEF s, n
<1> DEFINE S == {m \in Nat : m <= n => \A x \in t[m] : Taken(x, {s[j] : j \in 1..m}, R)}
<1>4. 0 \in S
  <2>1. t[0] = {kern} /\ {s[j] : j \in 1..0} = {}
    BY <1>2, <1>3 DEF TakenOut
  <2>2. Taken(kern, {s[j] : j \in 1..0}, R)
    BY <2>1, TakenFirst
  <2> QED BY <2>1, <2>2
<1>5. ASSUME NEW m \in S PROVE m + 1 \in S
  <2> SUFFICES ASSUME m + 1 <= n, NEW x \in t[m + 1]
               PROVE  Taken(x, {s[j] : j \in 1..(m + 1)}, R)
    OBVIOUS
  <2>1. m \in Nat /\ m + 1 \in 0..n /\ m + 1 # 0 /\ (m + 1) - 1 = m /\ m <= n
    BY <1>2
  <2>2. t[m + 1] = Step(t[m], s[m + 1])
    BY <1>3, <2>1 DEF TakenOut
  <2>3. PICK y \in t[m] : \E o \in RemoveUsers(y, {s[m + 1]}) : x = o.k
    BY <2>2 DEF Step, Ks
  <2>4. PICK o \in RemoveUsers(y, {s[m + 1]}) : x = o.k
    BY <2>3
  <2>5. Taken(y, {s[j] : j \in 1..m}, R)
    BY <2>1
  <2>6. {s[j] : j \in 1..m} \cup {s[m + 1]} = {s[j] : j \in 1..(m + 1)}
    BY <2>1
  <2>7. kind \in Kinds /\ want \in UserLists
    BY DEF FollowInv
  <2>8. Taken(o.k, {s[j] : j \in 1..m} \cup {s[m + 1]}, R)
    BY <2>5, <2>7, TakenNext
  <2> QED BY <2>4, <2>6, <2>8
<1>6. S = Nat
  BY <1>4, <1>5, Handed
<1>7. \A x \in t[n] : Taken(x, {s[j] : j \in 1..n}, R)
  BY <1>2, <1>6
<1> QED BY <1>2, <1>3, <1>7

-----------------------------------------------------------------------------
(* Events                                                                  *)

LEMMA StartInStep ==
  ASSUME NEW k, Tidy(k), NEW c \in Cfgs, NEW u \in UserLists, NEW R,
         NEW s \in Start(k, c, u)
  PROVE  /\ Tidy(s.k)
         /\ s.ok => InStep(s.k, u, c, R)
         /\ ~s.ok => s.k.failed
         /\ k.failed => s.k.failed
<1>1. (Leaves(s, k, u, u, c) /\ s.k.hashed[1] = c) \/ Broken(s, k)
  BY StartIs
<1> QED BY <1>1 DEF Leaves, Broken, InStep

LEMMA UpdateFailed ==
  ASSUME kind \in Kinds, NEW k, Tidy(k), k.failed, NEW u \in UserLists,
         NEW s \in UpdateUsers(k, u)
  PROVE  Tidy(s.k) /\ s.k.failed
<1>1. \/ ~k.run /\ Refused(s, k)
      \/ \E a, b : Leaves(s, k, a, b, k.cfg)
      \/ Broken(s, k)
  BY UpdateUsersIs
<1> QED BY <1>1 DEF Refused, Leaves, Broken

\* One kernel call for the list u, from a kernel in step with the desired users.
LEMMA UpdateInStep ==
  ASSUME FollowInv, kern.run, NEW u \in UserLists, NEW R, reissued \subseteq R,
         Reissues(want, u) => "full" \in R,
         NEW s \in UpdateUsers(kern, u)
  PROVE  Tidy(s.k) /\ InStep(s.k, u, config, R) /\ (~s.ok => s.k.failed)
<1>1. kind \in Kinds /\ Tidy(kern) /\ kern.accounts \in UserLists /\ want \in UserLists
  BY RecordFacts DEF FollowInv, Tidy
<1> DEFINE acc == Merged(ToAdd(kern.book, u), Without(kern.accounts, ToRemove(kern.book, u)))
<1>2. \/ kern.book = u /\ Leaves(s, kern, kern.accounts, u, kern.cfg)
      \/ Leaves(s, kern, u, u, kern.cfg)
      \/ kind = "xray" /\ Leaves(s, kern, acc, u, kern.cfg)
      \/ Broken(s, kern)
  BY <1>1, UpdateUsersIs
<1>3. \/ kern.failed
      \/ /\ kern.book = want
         /\ kern.accounts = want \/ (kind = "xray" /\ "full" \in reissued)
         /\ kind # "singbox" => kern.cfg = config /\ kern.hashed[1] = config
  BY DEF FollowInv, InStep
<1>4. kind = "xray" => kern.failed \/ acc = u \/ (kind = "xray" /\ "full" \in R)
  <2>1. kern.book = want /\ kern.accounts = want /\ ~Reissues(want, u) => acc = u
    BY <1>1, DiffApplied
  <2> QED BY <1>3, <2>1
<1> HIDE DEF acc
<1>5. CASE kern.book = u /\ Leaves(s, kern, kern.accounts, u, kern.cfg)
  BY <1>3, <1>5, LeavesInStep DEF Leaves
<1>6. CASE Leaves(s, kern, u, u, kern.cfg)
  BY <1>3, <1>6, LeavesInStep DEF Leaves
<1>7. CASE kind = "xray" /\ Leaves(s, kern, acc, u, kern.cfg)
  BY <1>3, <1>4, <1>7, LeavesInStep DEF Leaves
<1>8. CASE Broken(s, kern)
  BY <1>8, BrokenInStep
<1> QED BY <1>2, <1>5, <1>6, <1>7, <1>8

LEMMA UserListFollows ==
  ASSUME FollowInv, NEW u \in UserLists, UserList(u)
  PROVE  FollowInv'
<1>1. kind \in Kinds /\ Tidy(kern) /\ want \in UserLists /\ config \in Cfgs
      /\ kind' = kind /\ config' = config
  BY DEF FollowInv, UserList
<1>2. /\ reissued \subseteq reissued'
      /\ reissued' \subseteq {"full", "delta"}
      /\ Reissues(want, u) => "full" \in reissued'
  BY DEF FollowInv, UserList, Noted
<1> DEFINE O == IF kern.run
                  THEN {s \in UpdateUsers(kern, u) : s.ok}
                         \cup UNION {Start(t.k, config, u) : t \in {r \in UpdateUsers(kern, u) : ~r.ok}}
                  ELSE IF u = Nobody THEN Done(kern) ELSE Start(kern, config, u)
<1>3. PICK s \in O : kern' = s.k /\ want' = IF s.ok THEN u ELSE want
  <2>1. \E s \in O : kern' = s.k /\ want' = IF s.ok THEN u ELSE want
    BY DEF UserList, Commit, OrElse
  <2> QED BY <2>1
<1> DEFINE w == IF s.ok THEN u ELSE want
<1>4. Tidy(s.k) /\ InStep(s.k, w, config, reissued')
  <2>1. CASE kern.run /\ s \in UpdateUsers(kern, u) /\ s.ok
    BY <1>2, <2>1, UpdateInStep
  <2>2. CASE kern.run /\ \E r \in UpdateUsers(kern, u) : ~r.ok /\ s \in Start(r.k, config, u)
    <3>1. PICK r \in UpdateUsers(kern, u) : ~r.ok /\ s \in Start(r.k, config, u)
      BY <2>2
    <3>2. Tidy(r.k) /\ r.k.failed
      BY <1>2, <2>2, <3>1, UpdateInStep
    <3>3. Tidy(s.k) /\ s.k.failed
      BY <1>1, <3>1, <3>2, StartInStep
    <3> QED BY <3>3 DEF InStep
  <2>3. CASE ~kern.run /\ u = Nobody /\ s \in Done(kern)
    <3>1. s.ok /\ s.k = kern
      BY <2>3, DoneIs
    <3> QED BY <1>1, <2>3, <3>1 DEF InStep
  <2>4. CASE ~kern.run /\ u # Nobody /\ s \in Start(kern, config, u)
    <3>1. Tidy(s.k) /\ (s.ok => InStep(s.k, u, config, reissued')) /\ (~s.ok => s.k.failed)
      BY <1>1, <2>4, StartInStep
    <3> QED BY <3>1 DEF InStep
  <2> QED BY <2>1, <2>2, <2>3, <2>4
<1>5. w \in UserLists
  BY <1>1
<1>6. InStep(kern, want, config, reissued)' 
  <2>1. kern' = s.k /\ want' = w /\ kind' = kind /\ config' = config
    BY <1>1, <1>3
  <2> QED BY <1>4, <2>1 DEF InStep
<1>7. Tidy(kern)'
  BY <1>3, <1>4 DEF Tidy
<1> QED BY <1>1, <1>2, <1>3, <1>5, <1>6, <1>7 DEF FollowInv

\* Taking out the users a delta changes, and adding the delta, is merging it.
LEMMA AddedBack ==
  ASSUME want \in UserLists, NEW delta \in UserLists, NEW k, Tidy(k),
         k.book = Without(want, Changed(delta))
  PROVE  /\ Merged(k.book, Fresh(k, delta)) = Merged(want, delta)
         /\ Merged(k.book, delta) = Merged(want, delta)
         /\ Fresh(k, delta) = Nobody => k.book = Merged(want, delta)
         /\ k.accounts = k.book => Merged(Fresh(k, delta), Without(k.accounts, {})) = Merged(want, delta)
<1> DEFINE b == k.book  f == Fresh(k, delta)  m == Merged(want, delta)  ch == Changed(delta)
<1>1. /\ b \in UserLists
      /\ DOMAIN b = DOMAIN want \ ch
      /\ \A id \in DOMAIN want \ ch : b[id] = want[id]
  <2>1. b = Without(want, ch)
    OBVIOUS
  <2> HIDE DEF b, ch
  <2>2. /\ Without(want, ch) \in UserLists
        /\ DOMAIN Without(want, ch) = DOMAIN want \ ch
        /\ \A id \in DOMAIN want \ ch : Without(want, ch)[id] = want[id]
    BY WithoutIs
  <2> QED BY <2>1, <2>2
<1>2. /\ f \in UserLists
      /\ DOMAIN f = DOMAIN delta \ DOMAIN b
      /\ \A id \in DOMAIN delta \ DOMAIN b : f[id] = delta[id]
  BY FreshIs
<1>3. /\ m \in UserLists
      /\ DOMAIN m = DOMAIN want \cup DOMAIN delta
      /\ \A id \in DOMAIN want \cup DOMAIN delta :
           m[id] = IF id \in DOMAIN delta THEN delta[id] ELSE want[id]
  BY MergedIs
<1>4. /\ ch \subseteq DOMAIN want \cap DOMAIN delta
      /\ \A id \in DOMAIN want \cap DOMAIN delta : id \notin ch => want[id] = delta[id]
  BY DEF Changed
<1>5. b = k.book
  OBVIOUS
<1> HIDE DEF b, f, m, ch
<1>6. Merged(b, f) = m
  <2>1. /\ Merged(b, f) \in UserLists
        /\ DOMAIN Merged(b, f) = DOMAIN b \cup DOMAIN f
        /\ \A id \in DOMAIN b \cup DOMAIN f : Merged(b, f)[id] = IF id \in DOMAIN f THEN f[id] ELSE b[id]
    BY <1>1, <1>2, MergedIs
  <2>2. DOMAIN b \cup DOMAIN f = DOMAIN m
    BY <1>1, <1>2, <1>3, <1>4
  <2>3. \A id \in DOMAIN m : Merged(b, f)[id] = m[id]
    BY <1>1, <1>2, <1>3, <1>4, <2>1, <2>2
  <2> HIDE DEF Merged
  <2> QED BY <1>3, <2>1, <2>2, <2>3, SameList
<1>7. Merged(b, delta) = m
  <2>1. /\ Merged(b, delta) \in UserLists
        /\ DOMAIN Merged(b, delta) = DOMAIN b \cup DOMAIN delta
        /\ \A id \in DOMAIN b \cup DOMAIN delta :
             Merged(b, delta)[id] = IF id \in DOMAIN delta THEN delta[id] ELSE b[id]
    BY <1>1, MergedIs
  <2>2. DOMAIN b \cup DOMAIN delta = DOMAIN m
    BY <1>1, <1>3, <1>4
  <2>3. \A id \in DOMAIN m : Merged(b, delta)[id] = m[id]
    BY <1>1, <1>3, <1>4, <2>1, <2>2
  <2> QED BY <1>3, <2>1, <2>2, <2>3, SameList
<1>8. ASSUME f = Nobody PROVE b = m
  <2>1. DOMAIN delta \subseteq DOMAIN b
    BY <1>2, <1>8, NobodyIs
  <2>2. DOMAIN b = DOMAIN m /\ \A id \in DOMAIN b : b[id] = m[id]
    BY <1>1, <1>3, <1>4, <2>1
  <2> QED BY <1>1, <1>3, <2>2, SameList
<1>9. Merged(f, Without(b, {})) = m
  <2>1. Without(b, {}) = b
    BY <1>1, WithoutNone
  <2>2. /\ Merged(f, b) \in UserLists
        /\ DOMAIN Merged(f, b) = DOMAIN f \cup DOMAIN b
        /\ \A id \in DOMAIN f \cup DOMAIN b : Merged(f, b)[id] = IF id \in DOMAIN b THEN b[id] ELSE f[id]
    BY <1>1, <1>2, MergedIs
  <2>3. DOMAIN f \cup DOMAIN b = DOMAIN m
    BY <1>1, <1>2, <1>3, <1>4
  <2>4. \A id \in DOMAIN m : Merged(f, b)[id] = m[id]
    BY <1>1, <1>2, <1>3, <1>4, <2>2, <2>3
  <2>5. Merged(f, b) = m
    BY <1>3, <2>2, <2>3, <2>4, SameList
  <2> QED BY <2>1, <2>5
<1> QED BY <1>5, <1>6, <1>7, <1>8, <1>9 DEF f, m, ch

\* A delta reissues a UUID when it changes one.
LEMMA ReissuesIs ==
  ASSUME want \in UserLists, NEW delta \in UserLists
  PROVE  Reissues(want, Merged(want, delta)) <=> Changed(delta) # {}
<1> DEFINE m == Merged(want, delta)
<1>1. /\ DOMAIN m = DOMAIN want \cup DOMAIN delta
      /\ \A id \in DOMAIN want \cup DOMAIN delta :
           m[id] = IF id \in DOMAIN delta THEN delta[id] ELSE want[id]
  BY MergedIs
<1>2. Reissues(want, m) <=> \E id \in DOMAIN want \cap DOMAIN m : want[id] # m[id]
  BY DEF Reissues
<1> HIDE DEF m
<1>3. Changed(delta) # {} <=> \E id \in DOMAIN delta \cap DOMAIN want : want[id] # delta[id]
  BY DEF Changed
<1>4. Reissues(want, m) <=> Changed(delta) # {}
  BY <1>1, <1>2, <1>3
<1> QED BY <1>4 DEF m

\* One call for a delta, from a kernel that its changed users were taken out of.
LEMMA AddInStep ==
  ASSUME FollowInv, NEW delta \in UserLists, NEW R,
         Changed(delta) # {} => "delta" \in R,
         NEW x, Taken(x, Changed(delta), R), ~x.run => x.failed \/ Changed(delta) # {},
         NEW r \in AddUsers(x, delta)
  PROVE  /\ Tidy(r.k)
         /\ r.ok => InStep(r.k, Merged(want, delta), config, R)
         /\ ~r.ok => r.k.failed \/ (~r.k.run /\ kind # "singbox" /\ "delta" \in R)
<1> DEFINE m == Merged(want, delta)
           b1 == Merged(x.book, Fresh(x, delta))
           b2 == Merged(x.book, delta)
           a1 == Merged(Fresh(x, delta), Without(x.accounts, {}))
<1>1. kind \in Kinds /\ Tidy(x) /\ want \in UserLists
  BY DEF FollowInv, Taken
<1>2. \/ ~x.run /\ Refused(r, x)
      \/ /\ x.run /\ kind = "singbox" /\ Fresh(x, delta) = Nobody
         /\ Leaves(r, x, x.accounts, x.book, x.cfg)
      \/ x.run /\ kind = "singbox" /\ Leaves(r, x, b1, b1, x.cfg)
      \/ x.run /\ kind = "xray" /\ Leaves(r, x, a1, b2, x.cfg)
      \/ /\ x.run /\ kind = "xray-restart" /\ Fresh(x, delta) = Nobody
         /\ Leaves(r, x, x.accounts, b2, x.cfg)
      \/ x.run /\ Leaves(r, x, b2, b2, x.cfg)
      \/ x.run /\ Broken(r, x)
  BY <1>1, AddUsersIs
<1>3. x.book = Without(want, Changed(delta)) =>
        /\ b1 = m /\ b2 = m
        /\ Fresh(x, delta) = Nobody => x.book = m
        /\ x.accounts = x.book => a1 = m
  BY <1>1, AddedBack
<1>4. x.run => \/ x.failed
               \/ /\ x.book = Without(want, Changed(delta))
                  /\ x.accounts = x.book \/ (kind = "xray" /\ "full" \in R)
                  /\ kind # "singbox" => x.cfg = config /\ x.hashed[1] = config
  BY DEF Taken
<1>5. ~x.run => x.failed \/ kind # "singbox"
  BY DEF Taken
<1> HIDE DEF m, b1, b2, a1
<1>6. CASE ~x.run /\ Refused(r, x)
  BY <1>1, <1>5, <1>6 DEF Refused
<1>7. CASE /\ x.run /\ kind = "singbox" /\ Fresh(x, delta) = Nobody
           /\ Leaves(r, x, x.accounts, x.book, x.cfg)
  <2>1. x.failed \/ (x.book = m /\ x.accounts = m /\ Leaves(r, x, m, m, x.cfg))
    BY <1>3, <1>4, <1>7
  <2>2. r.ok /\ Tidy(r.k) /\ (x.failed => r.k.failed)
    BY <1>7 DEF Leaves
  <2>3. CASE x.failed
    BY <2>2, <2>3 DEF InStep
  <2>4. CASE ~x.failed
    <3>1. Leaves(r, x, m, m, x.cfg)
      BY <1>7, <2>1, <2>4
    <3>2. InStep(r.k, m, config, R)
      BY <1>4, <1>7, <2>4, <3>1, LeavesInStep
    <3> QED BY <2>2, <3>2 DEF m
  <2> QED BY <2>2, <2>3, <2>4 DEF m
<1>8. CASE x.run /\ kind = "singbox" /\ Leaves(r, x, b1, b1, x.cfg)
  <2>1. x.failed \/ b1 = m
    BY <1>3, <1>4, <1>8
  <2>2. r.ok /\ Tidy(r.k) /\ (x.failed => r.k.failed)
    BY <1>8 DEF Leaves
  <2>3. CASE x.failed
    BY <2>2, <2>3 DEF InStep
  <2>4. CASE ~x.failed
    <3>1. Leaves(r, x, m, m, x.cfg)
      BY <1>8, <2>1, <2>4
    <3>2. InStep(r.k, m, config, R)
      BY <1>4, <1>8, <2>4, <3>1, LeavesInStep
    <3> QED BY <2>2, <3>2 DEF m
  <2> QED BY <2>2, <2>3, <2>4 DEF m
<1>9. CASE x.run /\ kind = "xray" /\ Leaves(r, x, a1, b2, x.cfg)
  <2>1. x.failed \/ (b2 = m /\ (a1 = m \/ "full" \in R))
    BY <1>3, <1>4, <1>9
  <2>2. r.ok /\ Tidy(r.k) /\ (x.failed => r.k.failed)
    BY <1>9 DEF Leaves
  <2>3. CASE x.failed
    BY <2>2, <2>3 DEF InStep
  <2>4. CASE ~x.failed
    <3>1. Leaves(r, x, a1, m, x.cfg) /\ (a1 = m \/ (kind = "xray" /\ "full" \in R))
      BY <1>9, <2>1, <2>4
    <3>2. InStep(r.k, m, config, R)
      BY <1>4, <1>9, <2>4, <3>1, LeavesInStep
    <3> QED BY <2>2, <3>2 DEF m
  <2> QED BY <2>2, <2>3, <2>4 DEF m
<1>10. CASE /\ x.run /\ kind = "xray-restart" /\ Fresh(x, delta) = Nobody
            /\ Leaves(r, x, x.accounts, b2, x.cfg)
  <2>1. x.failed \/ (b2 = m /\ x.accounts = m)
    BY <1>3, <1>4, <1>10
  <2>2. r.ok /\ Tidy(r.k) /\ (x.failed => r.k.failed)
    BY <1>10 DEF Leaves
  <2>3. CASE x.failed
    BY <2>2, <2>3 DEF InStep
  <2>4. CASE ~x.failed
    <3>1. Leaves(r, x, x.accounts, m, x.cfg) /\ (x.accounts = m \/ (kind = "xray" /\ "full" \in R))
      BY <1>10, <2>1, <2>4
    <3>2. InStep(r.k, m, config, R)
      BY <1>4, <1>10, <2>4, <3>1, LeavesInStep
    <3> QED BY <2>2, <3>2 DEF m
  <2> QED BY <2>2, <2>3, <2>4 DEF m
<1>11. CASE x.run /\ Leaves(r, x, b2, b2, x.cfg)
  <2>1. x.failed \/ b2 = m
    BY <1>3, <1>4, <1>11
  <2>2. r.ok /\ Tidy(r.k) /\ (x.failed => r.k.failed)
    BY <1>11 DEF Leaves
  <2>3. CASE x.failed
    BY <2>2, <2>3 DEF InStep
  <2>4. CASE ~x.failed
    <3>1. Leaves(r, x, m, m, x.cfg)
      BY <1>11, <2>1, <2>4
    <3>2. InStep(r.k, m, config, R)
      BY <1>4, <1>11, <2>4, <3>1, LeavesInStep
    <3> QED BY <2>2, <3>2 DEF m
  <2> QED BY <2>2, <2>3, <2>4 DEF m
<1>12. CASE Broken(r, x)
  BY <1>12 DEF Broken
<1> QED BY <1>2, <1>6, <1>7, <1>8, <1>9, <1>10, <1>11, <1>12

\* What is left of a step when the kernel's call outcome is known.
LEMMA CommitFollows ==
  ASSUME FollowInv, NEW u \in UserLists, NEW s,
         kind' = kind, config' = config, kern' = s.k, want' = IF s.ok THEN u ELSE want,
         reissued' \subseteq {"full", "delta"},
         Tidy(s.k), InStep(s.k, IF s.ok THEN u ELSE want, config, reissued')
  PROVE  FollowInv'
<1>1. InStep(kern, want, config, reissued)'
  BY DEF InStep
<1>2. Tidy(kern)'
  BY DEF Tidy
<1>3. (kind \in Kinds /\ want \in UserLists /\ config \in Cfgs)'
  BY DEF FollowInv
<1> QED BY <1>1, <1>2, <1>3 DEF FollowInv

LEMMA DeltaAddFollows ==
  ASSUME FollowInv, NEW delta \in UserLists, DeltaAdd(delta)
  PROVE  FollowInv'
<1> DEFINE m == Merged(want, delta)
           R == reissued'
<1>1. kind \in Kinds /\ Tidy(kern) /\ want \in UserLists /\ config \in Cfgs
      /\ kind' = kind /\ config' = config /\ m \in UserLists
  BY MergedIs DEF FollowInv, DeltaAdd
<1>2. /\ reissued \subseteq R /\ R \subseteq {"full", "delta"}
      /\ Changed(delta) # {} => "delta" \in R
  BY <1>1, ReissuesIs DEF FollowInv, DeltaAdd, Noted
<1> DEFINE U == UNION {AddUsers(k, delta) : k \in OldTaken(kern, delta)}
           O == IF kern.run
                  THEN {s \in U : s.ok} \cup UNION {UpdateUsers(t.k, m) : t \in {r \in U : ~r.ok}}
                  ELSE Start(kern, config, m)
<1>3. PICK s \in O : kern' = s.k /\ want' = IF s.ok THEN m ELSE want
  BY DEF DeltaAdd, Commit, OrElse
<1>4. ASSUME kern.run, NEW r \in U
      PROVE  /\ Tidy(r.k)
             /\ r.ok => InStep(r.k, m, config, R)
             /\ ~r.ok => r.k.failed \/ (~r.k.run /\ kind # "singbox" /\ "delta" \in R)
  <2>1. PICK x \in OldTaken(kern, delta) : r \in AddUsers(x, delta)
    OBVIOUS
  <2>2. Taken(x, Changed(delta), R)
    BY <1>2, <1>4, <2>1, TakenAll
  <2>3. Changed(delta) = {} => x = kern
    BY <2>1, NoneChanged
  <2>4. ~x.run => x.failed \/ Changed(delta) # {}
    BY <1>4, <2>3
  <2> HIDE DEF U, O, R
  <2> QED BY <1>2, <2>1, <2>2, <2>4, AddInStep
<1>5. Tidy(s.k) /\ InStep(s.k, IF s.ok THEN m ELSE want, config, R)
  <2>1. CASE kern.run /\ s \in U /\ s.ok
    BY <1>4, <2>1
  <2>2. CASE kern.run /\ \E r \in U : ~r.ok /\ s \in UpdateUsers(r.k, m)
    <3>1. PICK r \in U : ~r.ok /\ s \in UpdateUsers(r.k, m)
      BY <2>2
    <3>2. Tidy(r.k) /\ (r.k.failed \/ (~r.k.run /\ kind # "singbox" /\ "delta" \in R))
      BY <1>4, <2>2, <3>1
    <3> HIDE DEF U, O, m, R
    <3>3. CASE r.k.failed
      <4>1. Tidy(s.k) /\ s.k.failed
        BY <1>1, <3>1, <3>2, <3>3, UpdateFailed
      <4> QED BY <4>1 DEF InStep
    <3>4. CASE ~r.k.run /\ kind # "singbox" /\ "delta" \in R
      <4>1. s \in Refuses(r.k)
        BY <3>1, <3>4 DEF UpdateUsers
      <4>2. ~s.ok /\ s.k = r.k
        BY <4>1, RefusesIs DEF Refused
      <4> QED BY <3>2, <3>4, <4>2 DEF InStep
    <3> QED BY <3>2, <3>3, <3>4
  <2>3. CASE ~kern.run /\ s \in Start(kern, config, m)
    <3> HIDE DEF m, R
    <3>1. Tidy(s.k) /\ (s.ok => InStep(s.k, m, config, R)) /\ (~s.ok => s.k.failed)
      BY <1>1, <2>3, StartInStep
    <3> QED BY <3>1 DEF InStep
  <2> QED BY <1>3, <2>1, <2>2, <2>3
<1> HIDE DEF m, O
<1> QED BY <1>1, <1>2, <1>3, <1>5, CommitFollows

LEMMA DeltaRemoveFollows ==
  ASSUME FollowInv, NEW ids, DeltaRemove(ids)
  PROVE  FollowInv'
<1> DEFINE f == Without(want, ids)
<1>1. kind \in Kinds /\ Tidy(kern) /\ want \in UserLists /\ config \in Cfgs
      /\ kind' = kind /\ config' = config /\ f \in UserLists
      /\ reissued' = reissued /\ reissued \subseteq {"full", "delta"}
  BY WithoutIs DEF FollowInv, DeltaRemove
<1> DEFINE O == IF kern.run
                  THEN {s \in RemoveUsers(kern, ids) : s.ok}
                         \cup UNION {UpdateUsers(t.k, f) : t \in {r \in RemoveUsers(kern, ids) : ~r.ok}}
                  ELSE Done(kern)
<1>2. PICK s \in O : kern' = s.k /\ want' = IF s.ok THEN f ELSE want
  BY DEF DeltaRemove, Commit, OrElse
<1>3. ASSUME kern.run, NEW r \in RemoveUsers(kern, ids)
      PROVE  /\ Tidy(r.k)
             /\ r.ok => InStep(r.k, f, config, reissued)
             /\ ~r.ok => r.k.failed
  <2> DEFINE kept == Without(kern.book, ids)
             acc == Merged(Nobody, Without(kern.accounts, ids))
  <2>1. \/ kept = kern.book /\ Leaves(r, kern, kern.accounts, kern.book, kern.cfg)
        \/ Leaves(r, kern, kept, kept, kern.cfg)
        \/ kind # "singbox" /\ kept = Nobody /\ HasStopped(r, kern)
        \/ kind = "xray" /\ Leaves(r, kern, acc, kept, kern.cfg)
        \/ Broken(r, kern)
    BY <1>1, <1>3, RemoveUsersIs
  <2>2. \/ kern.failed
        \/ /\ kern.book = want /\ kept = f
           /\ kern.accounts = want \/ (kind = "xray" /\ "full" \in reissued)
           /\ kind # "singbox" => kern.cfg = config /\ kern.hashed[1] = config
    BY <1>3 DEF FollowInv, InStep
  <2>3. kern.accounts = want => acc = f
    BY <1>1, MergedNobody
  <2> HIDE DEF f, kept, acc
  <2>4. CASE kept = kern.book /\ Leaves(r, kern, kern.accounts, kern.book, kern.cfg)
    <3>1. r.ok /\ Tidy(r.k) /\ (kern.failed => r.k.failed)
      BY <2>4 DEF Leaves
    <3>2. kern.failed \/ (f = want /\ kern.book = want)
      BY <2>2, <2>4
    <3>3. CASE kern.failed
      BY <3>1, <3>3 DEF InStep
    <3>4. CASE ~kern.failed
      <4>1. Leaves(r, kern, kern.accounts, f, kern.cfg) /\ (kern.accounts = f \/ (kind = "xray" /\ "full" \in reissued))
        BY <2>2, <2>4, <3>2, <3>4
      <4>2. InStep(r.k, f, config, reissued)
        BY <2>2, <3>4, <4>1, LeavesInStep
      <4> QED BY <3>1, <4>2
    <3> QED BY <3>3, <3>4
  <2>5. CASE Leaves(r, kern, kept, kept, kern.cfg)
    <3>1. r.ok /\ Tidy(r.k) /\ (kern.failed => r.k.failed)
      BY <2>5 DEF Leaves
    <3>2. CASE kern.failed
      BY <3>1, <3>2 DEF InStep
    <3>3. CASE ~kern.failed
      <4>1. Leaves(r, kern, f, f, kern.cfg)
        BY <2>2, <2>5, <3>3
      <4>2. InStep(r.k, f, config, reissued)
        BY <2>2, <3>3, <4>1, LeavesInStep
      <4> QED BY <3>1, <4>2
    <3> QED BY <3>2, <3>3
  <2>6. CASE kind # "singbox" /\ kept = Nobody /\ HasStopped(r, kern)
    BY <2>2, <2>6 DEF HasStopped, InStep
  <2>7. CASE kind = "xray" /\ Leaves(r, kern, acc, kept, kern.cfg)
    <3>1. r.ok /\ Tidy(r.k) /\ (kern.failed => r.k.failed)
      BY <2>7 DEF Leaves
    <3>2. CASE kern.failed
      BY <3>1, <3>2 DEF InStep
    <3>3. CASE ~kern.failed
      <4>1. Leaves(r, kern, acc, f, kern.cfg) /\ (acc = f \/ (kind = "xray" /\ "full" \in reissued))
        BY <2>2, <2>3, <2>7, <3>3
      <4>2. InStep(r.k, f, config, reissued)
        BY <2>2, <3>3, <4>1, LeavesInStep
      <4> QED BY <3>1, <4>2
    <3> QED BY <3>2, <3>3
  <2>8. CASE Broken(r, kern)
    BY <2>8 DEF Broken
  <2> QED BY <2>1, <2>4, <2>5, <2>6, <2>7, <2>8
<1>4. Tidy(s.k) /\ InStep(s.k, IF s.ok THEN f ELSE want, config, reissued)
  <2>1. CASE kern.run /\ s \in RemoveUsers(kern, ids) /\ s.ok
    BY <1>3, <2>1
  <2>2. CASE kern.run /\ \E r \in RemoveUsers(kern, ids) : ~r.ok /\ s \in UpdateUsers(r.k, f)
    <3>1. PICK r \in RemoveUsers(kern, ids) : ~r.ok /\ s \in UpdateUsers(r.k, f)
      BY <2>2
    <3>2. Tidy(r.k) /\ r.k.failed
      BY <1>3, <2>2, <3>1
    <3> HIDE DEF f
    <3>3. Tidy(s.k) /\ s.k.failed
      BY <1>1, <3>1, <3>2, UpdateFailed
    <3> QED BY <3>3 DEF InStep
  <2>3. CASE ~kern.run /\ s \in Done(kern)
    <3>1. s.ok /\ s.k = kern
      BY <2>3, DoneIs
    <3>2. want = Nobody => f = Nobody
      BY <1>1, NobodyIs, WithoutIs
    <3> QED BY <1>1, <2>3, <3>1, <3>2 DEF FollowInv, InStep
  <2> QED BY <1>2, <2>1, <2>2, <2>3
<1> HIDE DEF f, O
<1> QED BY <1>1, <1>2, <1>4, CommitFollows

LEMMA SwappedType ==
  ASSUME NEW k \in KernelRecords, NEW u \in UserLists
  PROVE  Swapped(k, u) \subseteq [ok : BOOLEAN, k : KernelRecords]
<1>1. [k EXCEPT !.accounts = u, !.book = u] \in KernelRecords
  BY DEF KernelRecords
<1>2. [k EXCEPT !.accounts = Nobody] \in KernelRecords
  BY NobodyIs DEF KernelRecords
<1>3. \A x \in KernelRecords : Done(x) \subseteq [ok : BOOLEAN, k : KernelRecords]
  BY DEF Done
<1>4. \A x \in KernelRecords : Fails(x) \subseteq [ok : BOOLEAN, k : KernelRecords]
  <2> SUFFICES ASSUME NEW x \in KernelRecords PROVE Fails(x) \subseteq [ok : BOOLEAN, k : KernelRecords]
    OBVIOUS
  <2> DEFINE y == [x EXCEPT !.failed = TRUE]
  <2>1. y \in KernelRecords
    BY DEF KernelRecords
  <2>2. Fails(x) \subseteq Refuses(y)
    BY DEF Fails
  <2> HIDE DEF y
  <2>3. Refuses(y) \subseteq [ok : BOOLEAN, k : KernelRecords]
    BY <2>1 DEF Refuses
  <2> QED BY <2>2, <2>3
<1> QED BY <1>1, <1>2, <1>3, <1>4 DEF Swapped

LEMMA ConfigFollows ==
  ASSUME FollowInv, NEW c \in Cfgs, NEW u \in UserLists, ConfigAndUsers(c, u)
  PROVE  FollowInv'
<1>1. /\ kind \in Kinds /\ Tidy(kern) /\ c # config /\ config \in Cfgs
      /\ kind' = kind /\ config' = c /\ want' = u
      /\ reissued' = reissued /\ reissued \subseteq {"full", "delta"}
  BY DEF FollowInv, ConfigAndUsers
<1>2. Tidy(kern') /\ InStep(kern', u, c, reissued)
  <2>1. CASE u = Nobody
    <3>1. kern' = Stopped(kern)
      BY <2>1 DEF ConfigAndUsers, ApplyChanges
    <3> QED BY <1>1, <2>1, <3>1, StoppedIs DEF InStep
  <2>2. CASE u # Nobody /\ kern.run
    <3> DEFINE O == Reload(kern, c, u)
    <3>1. PICK s \in {s \in O : s.ok} \cup UNION {Start(t.k, c, u) : t \in {r \in O : ~r.ok}} : kern' = s.k
      BY <2>2 DEF ConfigAndUsers, ApplyChanges, Ks, OrElse
    <3>2. ASSUME NEW r \in O
          PROVE  Tidy(r.k) /\ (r.ok => InStep(r.k, u, c, reissued)) /\ (~r.ok => r.k.failed)
      <4>1. CASE kind = "singbox"
        <5>1. PICK q \in Swapped(kern, u) : r = [q EXCEPT !.k.cfg = IF q.ok THEN c ELSE @]
          BY <3>2, <4>1 DEF Reload
        <5>2. Leaves(q, kern, u, u, kern.cfg) \/ Broken(q, kern)
          BY <1>1, <2>2, SwappedIs
        <5>3. q.k \in KernelRecords
          BY <5>2 DEF Leaves, Broken, Tidy
        <5>4. q \in [ok : BOOLEAN, k : KernelRecords]
          BY <1>1, <2>2, SwappedType DEF Tidy
        <5>5. (r.ok <=> q.ok) /\ r.k = [q.k EXCEPT !.cfg = IF q.ok THEN c ELSE @]
          BY <5>1, <5>4
        <5>6. r.k \in KernelRecords
          BY <5>3, <5>5 DEF KernelRecords
        <5>7. /\ (r.k.run <=> q.k.run) /\ (r.k.failed <=> q.k.failed)
              /\ r.k.accounts = q.k.accounts /\ r.k.book = q.k.book
          BY <5>3, <5>5 DEF KernelRecords
        <5>8. CASE Leaves(q, kern, u, u, kern.cfg)
          BY <4>1, <5>5, <5>6, <5>7, <5>8 DEF Leaves, InStep, Tidy
        <5>9. CASE Broken(q, kern)
          BY <5>5, <5>6, <5>7, <5>9 DEF Broken, Tidy
        <5> QED BY <5>2, <5>8, <5>9
      <4>2. CASE kind # "singbox" /\ kern.hashed = <<c, u>>
        <5>1. kern.hashed[1] = c
          BY <4>2
        <5>2. kern.failed
          BY <1>1, <2>2, <4>2, <5>1 DEF FollowInv, InStep
        <5> DEFINE x == [kern EXCEPT !.book = u]
        <5>3. r.ok /\ r.k = x
          BY <3>2, <4>2, DoneIs DEF Reload
        <5>4. kern \in KernelRecords
          BY <1>1 DEF Tidy
        <5>5. x \in KernelRecords
          BY <5>4 DEF KernelRecords
        <5>6. (x.run <=> kern.run) /\ x.failed /\ x.accounts = kern.accounts
          BY <5>2, <5>4 DEF KernelRecords
        <5> HIDE DEF x
        <5> QED BY <1>1, <5>3, <5>5, <5>6 DEF Tidy, InStep
      <4>3. CASE kind # "singbox" /\ kern.hashed # <<c, u>>
        <5>1. r \in Start(kern, c, u)
          BY <3>2, <4>3 DEF Reload
        <5> QED BY <1>1, <5>1, StartInStep
      <4> QED BY <4>1, <4>2, <4>3
    <3> HIDE DEF O
    <3>3. CASE s \in O /\ s.ok
      BY <3>1, <3>2, <3>3
    <3>4. CASE \E r \in O : ~r.ok /\ s \in Start(r.k, c, u)
      <4>1. PICK r \in O : ~r.ok /\ s \in Start(r.k, c, u)
        BY <3>4
      <4>2. Tidy(r.k) /\ r.k.failed
        BY <3>2, <4>1
      <4>3. Tidy(s.k) /\ s.k.failed
        BY <4>1, <4>2, StartInStep
      <4> QED BY <3>1, <4>3 DEF InStep
    <3> QED BY <3>1, <3>3, <3>4
  <2>3. CASE u # Nobody /\ ~kern.run
    <3>1. PICK s \in Start(kern, c, u) : kern' = s.k
      BY <2>3 DEF ConfigAndUsers, ApplyChanges, Ks
    <3>2. Tidy(s.k) /\ (s.ok => InStep(s.k, u, c, reissued)) /\ (~s.ok => s.k.failed)
      BY <1>1, StartInStep
    <3> QED BY <3>1, <3>2 DEF InStep
  <2> QED BY <2>1, <2>2, <2>3
<1>3. InStep(kern, want, config, reissued)' /\ Tidy(kern)'
  BY <1>1, <1>2 DEF InStep, Tidy
<1>4. (kind \in Kinds /\ want \in UserLists /\ config \in Cfgs /\ reissued \subseteq {"full", "delta"})'
  BY <1>1
<1> QED BY <1>3, <1>4 DEF FollowInv

-----------------------------------------------------------------------------
(* The theorems                                                            *)

LEMMA FollowInit ==
  Init => FollowInv
<1> SUFFICES ASSUME Init PROVE FollowInv
  OBVIOUS
<1>1. kind \in Kinds /\ config = FirstCfg /\ reissued = {} /\ want \in UserLists
  BY DEF Init
<1>2. kern = [run |-> want # Nobody, accounts |-> want, book |-> want, cfg |-> FirstCfg,
              hashed |-> <<FirstCfg, want>>, failed |-> FALSE]
  BY DEF Init
<1>3. FirstCfg \in Cfgs /\ <<FirstCfg, want>> \in Cfgs \X UserLists /\ <<FirstCfg, want>>[1] = FirstCfg
  BY <1>1, KernelUsersAssumption
<1>4. /\ (kern.run <=> want # Nobody) /\ kern.accounts = want /\ kern.book = want
      /\ kern.cfg = FirstCfg /\ kern.hashed = <<FirstCfg, want>> /\ ~kern.failed
  BY <1>2
<1>5. kern \in KernelRecords
  <2>1. (want # Nobody) \in BOOLEAN
    OBVIOUS
  <2> QED BY <1>1, <1>2, <1>3, <2>1 DEF KernelRecords
<1>6. Tidy(kern)
  BY <1>4, <1>5 DEF Tidy
<1>7. InStep(kern, want, config, reissued)
  BY <1>1, <1>3, <1>4 DEF InStep
<1> QED BY <1>1, <1>3, <1>6, <1>7 DEF FollowInv

LEMMA FollowNext ==
  FollowInv /\ [Next]_vars => FollowInv'
<1> SUFFICES ASSUME FollowInv, [Next]_vars PROVE FollowInv'
  OBVIOUS
<1>1. CASE \E u \in UserLists : UserList(u)
  BY <1>1, UserListFollows
<1>2. CASE \E u \in UserLists : DeltaAdd(u)
  BY <1>2, DeltaAddFollows
<1>3. CASE \E ids \in SUBSET Ids : DeltaRemove(ids)
  BY <1>3, DeltaRemoveFollows
<1>4. CASE \E c \in Cfgs, u \in UserLists : ConfigAndUsers(c, u)
  BY <1>4, ConfigFollows
<1>5. CASE UNCHANGED vars
  BY <1>5 DEF vars, FollowInv, InStep, Tidy
<1> QED BY <1>1, <1>2, <1>3, <1>4, <1>5 DEF Next, UserStep

\* The inductive invariant, stronger than AccountsFollow: until a call fails, the
\* list a running kernel believes it has is the list of desired users, the
\* configuration Xray was last started with is the service's, and a kernel that
\* does not run admits nobody (the update paths of internal/kernel).
THEOREM KernelInStep == Spec => []FollowInv
BY FollowInit, FollowNext, PTL DEF Spec

\* As long as no kernel call failed, the running kernel admits exactly the
\* desired users with their current UUIDs, but for Xray's refusal to replace an
\* account by a full list, and it runs whenever somebody should be served
\* (applyUserUpdate, applyUserDelta, applyChanges in internal/service).
THEOREM UsersAreFollowed == Spec => []AccountsFollow
<1>1. FollowInv => AccountsFollow
  BY DEF FollowInv, InStep, AccountsFollow, AccountsAreWanted
<1> QED BY <1>1, KernelInStep, PTL

-----------------------------------------------------------------------------
(* Whatever fails                                                          *)

\* The outcome s of the calls for the list u: nobody of those taken out is
\* admitted when it is committed; and without a reissue, a kernel that admitted
\* the desired users admits the committed ones or nobody.
Spared(s, u) ==
  /\ s.ok => DOMAIN s.k.accounts \cap (DOMAIN want \ DOMAIN u) = {}
  /\ kern.accounts = want /\ ~Reissues(want, u) =>
       s.k.accounts \in {IF s.ok THEN u ELSE want, Nobody}

LEMMA SparedByLeaving ==
  ASSUME NEW s, NEW k, NEW u, NEW c, NEW book, Leaves(s, k, u, book, c)
  PROVE  Spared(s, u)
BY DEF Leaves, Spared

LEMMA SparedByNobody ==
  ASSUME NEW s, NEW u, s.k.accounts = Nobody
  PROVE  Spared(s, u)
BY NobodyIs DEF Spared

LEMMA SparedByRefusal ==
  ASSUME NEW s, NEW u, ~s.ok, s.k.accounts \in {kern.accounts, Nobody}
  PROVE  Spared(s, u)
BY DEF Spared

\* A start after a failure, or of a kernel that does not run.
LEMMA StartSpares ==
  ASSUME NEW k, Tidy(k), k.accounts \in {kern.accounts, Nobody}, NEW c \in Cfgs, NEW u \in UserLists,
         NEW s \in Start(k, c, u)
  PROVE  Spared(s, u)
<1>1. Leaves(s, k, u, u, c) \/ Broken(s, k)
  BY StartIs
<1>2. CASE Leaves(s, k, u, u, c)
  BY <1>2, SparedByLeaving
<1>3. CASE Broken(s, k)
  <2>1. ~s.ok /\ s.k.accounts \in {kern.accounts, Nobody}
    BY <1>3 DEF Broken
  <2> QED BY <2>1, SparedByRefusal
<1> QED BY <1>1, <1>2, <1>3

\* A full list for a kernel whose book is right.
LEMMA UpdateSpares ==
  ASSUME kind \in Kinds, want \in UserLists, NEW k, Tidy(k), k.book = want,
         k.accounts = kern.accounts \/ (k.accounts = Nobody /\ kind # "xray"),
         NEW u \in UserLists, u # want, NEW s \in UpdateUsers(k, u)
  PROVE  Spared(s, u)
<1> DEFINE a == ToAdd(want, u)  d == Without(k.accounts, ToRemove(want, u))  acc == Merged(a, d)
<1>1. k.accounts \in UserLists
  BY RecordFacts DEF Tidy
<1>2. \/ Refused(s, k)
      \/ Leaves(s, k, u, u, k.cfg)
      \/ kind = "xray" /\ Leaves(s, k, acc, u, k.cfg)
      \/ Broken(s, k)
  BY UpdateUsersIs
<1>3. CASE Refused(s, k)
  BY <1>3, SparedByRefusal DEF Refused
<1>4. CASE Leaves(s, k, u, u, k.cfg)
  BY <1>4, SparedByLeaving
<1>5. CASE Broken(s, k)
  <2>1. ~s.ok /\ s.k.accounts \in {kern.accounts, Nobody}
    BY <1>5 DEF Broken
  <2> QED BY <2>1, SparedByRefusal
<1>6. CASE kind = "xray" /\ Leaves(s, k, acc, u, k.cfg)
  <2>1. a \in UserLists /\ DOMAIN a \subseteq DOMAIN u
    <3>1. a \in UserLists /\ DOMAIN a = {id \in DOMAIN u : id \notin DOMAIN want \/ want[id] # u[id]}
      BY ToAddIs
    <3> HIDE DEF a
    <3> QED BY <3>1
  <2>2. d \in UserLists /\ DOMAIN d = DOMAIN k.accounts \ ToRemove(want, u)
    BY <1>1, WithoutIs
  <2>3. ToRemove(want, u) = DOMAIN want \ DOMAIN u
    BY DEF ToRemove
  <2>4. DOMAIN acc = DOMAIN a \cup DOMAIN d
    <3> HIDE DEF a, d
    <3> QED BY <2>1, <2>2, MergedIs
  <2>5. k.accounts = want /\ ~Reissues(want, u) => acc = u
    BY DiffApplied
  <2>6. s.ok /\ s.k.accounts = acc
    BY <1>6 DEF Leaves
  <2> HIDE DEF a, d, acc
  <2> QED BY <1>6, <2>1, <2>2, <2>3, <2>4, <2>5, <2>6 DEF Spared
<1> QED BY <1>2, <1>3, <1>4, <1>5, <1>6

\* What a committed outcome means for the step.
LEMMA SparedStep ==
  ASSUME NEW s, NEW u, Spared(s, u), kern' = s.k, want' = IF s.ok THEN u ELSE want,
         reissued' = {} => ~Reissues(want, u)
  PROVE  /\ DOMAIN kern'.accounts \cap (DOMAIN want \ DOMAIN want') = {}
         /\ reissued' = {} /\ kern.accounts = want => kern'.accounts \in {want', Nobody}
BY DEF Spared

LEMMA UserListSpares ==
  ASSUME FollowInv, kern.book = want, NEW u \in UserLists, UserList(u)
  PROVE  /\ DOMAIN kern'.accounts \cap (DOMAIN want \ DOMAIN want') = {}
         /\ reissued' = {} /\ kern.accounts = want => kern'.accounts \in {want', Nobody}
<1>1. kind \in Kinds /\ Tidy(kern) /\ want \in UserLists /\ config \in Cfgs /\ u # want
  BY DEF FollowInv, UserList
<1>2. reissued' = {} => ~Reissues(want, u)
  BY DEF UserList, Noted
<1> DEFINE O == IF kern.run
                  THEN {s \in UpdateUsers(kern, u) : s.ok}
                         \cup UNION {Start(t.k, config, u) : t \in {r \in UpdateUsers(kern, u) : ~r.ok}}
                  ELSE IF u = Nobody THEN Done(kern) ELSE Start(kern, config, u)
<1>3. PICK s \in O : kern' = s.k /\ want' = IF s.ok THEN u ELSE want
  BY DEF UserList, Commit, OrElse
<1>4. Spared(s, u)
  <2>1. CASE kern.run /\ s \in UpdateUsers(kern, u) /\ s.ok
    BY <1>1, <2>1, UpdateSpares
  <2>2. CASE kern.run /\ \E r \in UpdateUsers(kern, u) : ~r.ok /\ s \in Start(r.k, config, u)
    <3>1. PICK r \in UpdateUsers(kern, u) : ~r.ok /\ s \in Start(r.k, config, u)
      BY <2>2
    <3>2. \/ Refused(r, kern)
          \/ \E a, b : Leaves(r, kern, a, b, kern.cfg)
          \/ Broken(r, kern)
      BY <1>1, UpdateUsersIs
    <3>3. Tidy(r.k) /\ r.k.accounts \in {kern.accounts, Nobody}
      BY <1>1, <3>1, <3>2 DEF Refused, Leaves, Broken
    <3> QED BY <1>1, <3>1, <3>3, StartSpares
  <2>3. CASE ~kern.run /\ u = Nobody /\ s \in Done(kern)
    <3>1. s.k.accounts = Nobody
      BY <1>1, <2>3, DoneIs DEF Tidy
    <3> QED BY <3>1, SparedByNobody
  <2>4. CASE ~kern.run /\ s \in Start(kern, config, u)
    BY <1>1, <2>4, StartSpares
  <2> QED BY <1>3, <2>1, <2>2, <2>3, <2>4
<1> QED BY <1>2, <1>3, <1>4, SparedStep

LEMMA DeltaAddSpares ==
  ASSUME FollowInv, kern.book = want, NEW delta \in UserLists, DeltaAdd(delta)
  PROVE  /\ DOMAIN kern'.accounts \cap (DOMAIN want \ DOMAIN want') = {}
         /\ reissued' = {} /\ kern.accounts = want => kern'.accounts \in {want', Nobody}
<1> DEFINE m == Merged(want, delta)
<1>1. /\ kind \in Kinds /\ Tidy(kern) /\ want \in UserLists /\ config \in Cfgs
      /\ m \in UserLists /\ DOMAIN m = DOMAIN want \cup DOMAIN delta
  BY MergedIs DEF FollowInv
<1>2. reissued' = {} => ~Reissues(want, m) /\ Changed(delta) = {}
  BY <1>1, ReissuesIs DEF DeltaAdd, Noted
<1> DEFINE U == UNION {AddUsers(k, delta) : k \in OldTaken(kern, delta)}
           O == IF kern.run
                  THEN {s \in U : s.ok} \cup UNION {UpdateUsers(t.k, m) : t \in {r \in U : ~r.ok}}
                  ELSE Start(kern, config, m)
<1>3. PICK s \in O : kern' = s.k /\ want' = IF s.ok THEN m ELSE want
  BY DEF DeltaAdd, Commit, OrElse
<1>4. DOMAIN want \ DOMAIN want' = {}
  BY <1>1, <1>3
<1>5. ASSUME reissued' = {}, kern.accounts = want
      PROVE  Spared(s, m)
  <2>1. OldTaken(kern, delta) = {kern}
    BY <1>2, <1>5, NoneChanged
  <2>2. U = AddUsers(kern, delta)
    BY <2>1
  <2>3. Without(want, Changed(delta)) = want
    BY <1>1, <1>2, <1>5, WithoutNone
  <2> DEFINE b1 == Merged(kern.book, Fresh(kern, delta))
             b2 == Merged(kern.book, delta)
             a1 == Merged(Fresh(kern, delta), Without(kern.accounts, {}))
  <2>4. /\ b1 = m /\ b2 = m /\ a1 = m
        /\ Fresh(kern, delta) = Nobody => kern.accounts = m
    BY <1>1, <1>5, <2>3, AddedBack
  <2>5. ASSUME kern.run, NEW r \in AddUsers(kern, delta)
        PROVE  \/ r.ok /\ Spared(r, m)
               \/ kind # "xray" /\ Fresh(kern, delta) # Nobody /\ Broken(r, kern)
    <3>1. \/ /\ kern.run /\ kind = "singbox" /\ Fresh(kern, delta) = Nobody
             /\ Leaves(r, kern, kern.accounts, kern.book, kern.cfg)
          \/ kern.run /\ kind = "singbox" /\ Leaves(r, kern, b1, b1, kern.cfg)
          \/ kern.run /\ kind = "xray" /\ Leaves(r, kern, a1, b2, kern.cfg)
          \/ /\ kern.run /\ kind = "xray-restart" /\ Fresh(kern, delta) = Nobody
             /\ Leaves(r, kern, kern.accounts, b2, kern.cfg)
          \/ kern.run /\ Leaves(r, kern, b2, b2, kern.cfg)
          \/ kern.run /\ kind # "xray" /\ Fresh(kern, delta) # Nobody /\ Broken(r, kern)
      BY <1>1, <2>5, AddUsersIs
    <3> HIDE DEF b1, b2, a1, m
    <3>2. \/ \E book : Leaves(r, kern, m, book, kern.cfg)
          \/ kind # "xray" /\ Fresh(kern, delta) # Nobody /\ Broken(r, kern)
      BY <2>4, <3>1
    <3>3. CASE \E book : Leaves(r, kern, m, book, kern.cfg)
      <4>1. PICK book : Leaves(r, kern, m, book, kern.cfg)
        BY <3>3
      <4> QED BY <4>1, SparedByLeaving DEF Leaves
    <3> QED BY <3>2, <3>3
  <2> HIDE DEF m, b1, b2, a1
  <2>6. CASE kern.run /\ s \in U /\ s.ok
    BY <2>2, <2>5, <2>6 DEF Broken
  <2>7. CASE kern.run /\ \E r \in U : ~r.ok /\ s \in UpdateUsers(r.k, m)
    <3>1. PICK r \in AddUsers(kern, delta) : ~r.ok /\ s \in UpdateUsers(r.k, m)
      BY <2>2, <2>7
    <3>2. kind # "xray" /\ Fresh(kern, delta) # Nobody /\ Broken(r, kern)
      BY <2>5, <2>7, <3>1
    <3>3. m # want
      <4>1. DOMAIN Fresh(kern, delta) = DOMAIN delta \ DOMAIN want /\ Fresh(kern, delta) \in UserLists
        BY <1>1, FreshIs
      <4>2. DOMAIN delta \ DOMAIN want # {}
        BY <3>2, <4>1, NobodyIs
      <4> QED BY <1>1, <4>2
    <3>4. /\ Tidy(r.k) /\ r.k.book = want
          /\ r.k.accounts = kern.accounts \/ (r.k.accounts = Nobody /\ kind # "xray")
      BY <3>2 DEF Broken
    <3> QED BY <1>1, <3>1, <3>3, <3>4, UpdateSpares
  <2>8. CASE ~kern.run /\ s \in Start(kern, config, m)
    BY <1>1, <2>8, StartSpares
  <2> QED BY <1>3, <2>6, <2>7, <2>8
<1>6. reissued' = {} /\ kern.accounts = want => kern'.accounts \in {want', Nobody}
  <2> HIDE DEF m, O
  <2> QED BY <1>2, <1>3, <1>5 DEF Spared
<1> QED BY <1>4, <1>6

LEMMA DeltaRemoveSpares ==
  ASSUME FollowInv, kern.book = want, NEW ids, DeltaRemove(ids)
  PROVE  /\ DOMAIN kern'.accounts \cap (DOMAIN want \ DOMAIN want') = {}
         /\ reissued' = {} /\ kern.accounts = want => kern'.accounts \in {want', Nobody}
<1> DEFINE f == Without(want, ids)
<1>1. /\ kind \in Kinds /\ Tidy(kern) /\ want \in UserLists
      /\ f \in UserLists /\ DOMAIN f = DOMAIN want \ ids
  BY WithoutIs DEF FollowInv
<1> DEFINE O == IF kern.run
                  THEN {s \in RemoveUsers(kern, ids) : s.ok}
                         \cup UNION {UpdateUsers(t.k, f) : t \in {r \in RemoveUsers(kern, ids) : ~r.ok}}
                  ELSE Done(kern)
<1>2. PICK s \in O : kern' = s.k /\ want' = IF s.ok THEN f ELSE want
  BY DEF DeltaRemove, Commit, OrElse
<1>3. ~Reissues(want, f)
  <2>1. \A id \in DOMAIN want \ ids : f[id] = want[id]
    BY <1>1, WithoutIs
  <2> HIDE DEF f
  <2> QED BY <1>1, <2>1 DEF Reissues
<1>4. ASSUME kern.run, NEW r \in RemoveUsers(kern, ids)
      PROVE  \/ r.ok /\ Spared(r, f)
             \/ kind # "xray" /\ f # want /\ Broken(r, kern)
  <2> DEFINE d == Without(kern.accounts, ids)
  <2>1. kern.accounts \in UserLists
    BY <1>1, RecordFacts DEF Tidy
  <2>2. /\ d \in UserLists /\ DOMAIN d = DOMAIN kern.accounts \ ids
        /\ Merged(Nobody, d) = d
    BY <2>1, WithoutIs, MergedNobody
  <2>3. \/ f = want /\ Leaves(r, kern, kern.accounts, kern.book, kern.cfg)
        \/ Leaves(r, kern, f, f, kern.cfg)
        \/ HasStopped(r, kern)
        \/ kind = "xray" /\ Leaves(r, kern, Merged(Nobody, d), f, kern.cfg)
        \/ kind # "xray" /\ f # want /\ Broken(r, kern)
    BY <1>1, <1>4, RemoveUsersIs
  <2>4. CASE f = want /\ Leaves(r, kern, kern.accounts, kern.book, kern.cfg)
    BY <2>4 DEF Leaves, Spared
  <2>5. CASE Leaves(r, kern, f, f, kern.cfg)
    <3> HIDE DEF f
    <3> QED BY <2>5, SparedByLeaving DEF Leaves
  <2>6. CASE HasStopped(r, kern)
    <3>1. r.ok /\ r.k.accounts = Nobody
      BY <2>6 DEF HasStopped, Tidy
    <3> QED BY <3>1, SparedByNobody
  <2>7. CASE kind = "xray" /\ Leaves(r, kern, Merged(Nobody, d), f, kern.cfg)
    <3>1. r.ok /\ r.k.accounts = d
      BY <2>2, <2>7 DEF Leaves
    <3>2. kern.accounts = want => d = f
      OBVIOUS
    <3>3. DOMAIN d \cap (DOMAIN want \ DOMAIN f) = {}
      BY <1>1, <2>2
    <3> HIDE DEF d, f
    <3> QED BY <3>1, <3>2, <3>3 DEF Spared
  <2> QED BY <2>3, <2>4, <2>5, <2>6, <2>7
<1> HIDE DEF f
<1>5. Spared(s, f)
  <2>1. CASE kern.run /\ s \in RemoveUsers(kern, ids) /\ s.ok
    BY <1>4, <2>1 DEF Broken
  <2>2. CASE kern.run /\ \E r \in RemoveUsers(kern, ids) : ~r.ok /\ s \in UpdateUsers(r.k, f)
    <3>1. PICK r \in RemoveUsers(kern, ids) : ~r.ok /\ s \in UpdateUsers(r.k, f)
      BY <2>2
    <3>2. kind # "xray" /\ f # want /\ Broken(r, kern)
      BY <1>4, <2>2, <3>1
    <3>3. /\ Tidy(r.k) /\ r.k.book = want
          /\ r.k.accounts = kern.accounts \/ (r.k.accounts = Nobody /\ kind # "xray")
      BY <3>2 DEF Broken
    <3> QED BY <1>1, <3>1, <3>2, <3>3, UpdateSpares
  <2>3. CASE ~kern.run /\ s \in Done(kern)
    <3>1. s.k.accounts = Nobody
      BY <1>1, <2>3, DoneIs DEF Tidy
    <3> QED BY <3>1, SparedByNobody
  <2> QED BY <1>2, <2>1, <2>2, <2>3
<1> QED BY <1>2, <1>3, <1>5, SparedStep

\* Whatever call fails, a change of users that finds the kernel's book right
\* admits nobody that it takes out of the desired list; and without a reissued
\* UUID a kernel that was in step admits the desired users or nobody
\* (applyUserUpdate and applyUserDelta in internal/service).
THEOREM ChangesServeOrDarken == Spec => ServedOrDark
<1>1. FollowInv /\ [Next]_vars =>
        [ UserStep /\ kern.book = want =>
            /\ DOMAIN kern'.accounts \cap (DOMAIN want \ DOMAIN want') = {}
            /\ reissued' = {} /\ kern.accounts = want => kern'.accounts \in {want', Nobody} ]_vars
  <2> SUFFICES ASSUME FollowInv, UserStep, kern.book = want
               PROVE  /\ DOMAIN kern'.accounts \cap (DOMAIN want \ DOMAIN want') = {}
                      /\ reissued' = {} /\ kern.accounts = want => kern'.accounts \in {want', Nobody}
    OBVIOUS
  <2>1. CASE \E u \in UserLists : UserList(u)
    BY <2>1, UserListSpares
  <2>2. CASE \E u \in UserLists : DeltaAdd(u)
    BY <2>2, DeltaAddSpares
  <2>3. CASE \E ids \in SUBSET Ids : DeltaRemove(ids)
    BY <2>3, DeltaRemoveSpares
  <2> QED BY <2>1, <2>2, <2>3 DEF UserStep
<1> QED BY <1>1, KernelInStep, PTL DEF Spec, ServedOrDark
=============================================================================
