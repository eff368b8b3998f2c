---------------------------- MODULE KernelUsers ----------------------------
(***************************************************************************)
(* Who a running kernel admits: full user lists, user deltas and           *)
(* configuration changes as internal/service turns them into kernel calls, *)
(* and what sing-box and Xray make of those calls (internal/kernel).       *)
(*                                                                         *)
(* A user list is a partial function from user IDs to UUIDs; limits are    *)
(* left out.  The select loop makes one call after the other, so one event *)
(* with all the kernel calls it leads to is one step.                      *)
(***************************************************************************)
EXTENDS Integers, Sequences, FiniteSets, Functions, SequencesExt, TLC

CONSTANTS Ids,          \* user IDs
          Uuids,        \* credentials
          Cfgs,         \* node configurations
          FirstCfg,     \* the configuration of the first snapshot
          KernelFaults  \* TRUE: starts and hot swaps may fail

ASSUME KernelUsersAssumption == IsFiniteSet(Ids) /\ FirstCfg \in Cfgs /\ KernelFaults \in BOOLEAN

VARIABLES kind,     \* the kernel and, for Xray, whether the protocol has a UserManager
          want,     \* userstate.Controller.users
          config,   \* Service.lastConfig
          kern,     \* the kernel
          reissued  \* kinds of user changes that ever reissued a UUID (history)

vars == <<kind, want, config, kern, reissued>>

-----------------------------------------------------------------------------
(* User lists                                                              *)

UserLists == UNION {[S -> Uuids] : S \in SUBSET Ids}
Nobody == [id \in {} |-> {}]

\* Merge: the delta wins.
Merged(base, delta) ==
  [id \in DOMAIN base \cup DOMAIN delta |->
     IF id \in DOMAIN delta THEN delta[id] ELSE base[id]]

\* Subtract.
Without(base, ids) == Restrict(base, DOMAIN base \ ids)

\* UserDiff: users to add, with a new ID or another UUID, and IDs to remove.
ToAdd(old, new) ==
  Restrict(new, {id \in DOMAIN new : id \notin DOMAIN old \/ old[id] # new[id]})
ToRemove(old, new) == DOMAIN old \ DOMAIN new

-----------------------------------------------------------------------------
(* Kernels: run, the accounts the inbound admits, the list the kernel      *)
(* believes it has, and the configuration and users of the last full start *)

Kinds == {"singbox", "xray", "xray-restart"}

Done(k) == {[ok |-> TRUE, k |-> k]}
Refuses(k) == {[ok |-> FALSE, k |-> k]}
Fails(k) == IF KernelFaults THEN Refuses([k EXCEPT !.failed = TRUE]) ELSE {}

Stopped(k) == [k EXCEPT !.run = FALSE, !.accounts = Nobody]

\* Both kernels keep the old instance when the new one does not start.
Start(k, c, u) ==
  Done([k EXCEPT !.run = TRUE, !.accounts = u, !.book = u, !.cfg = c, !.hashed = <<c, u>>])
    \cup Fails(k)

\* reloadInboundsLocked: every inbound takes the list or is created anew; a
\* failure comes before or after the old inbound is gone.
Swapped(k, u) ==
  Done([k EXCEPT !.accounts = u, !.book = u])
    \cup Fails(k) \cup Fails([k EXCEPT !.accounts = Nobody])

\* UserManager of Xray: an account whose e-mail (the ID) exists is refused,
\* and the call goes on.
Managed(k, added, removed, book) ==
  Done([k EXCEPT !.accounts = Merged(added, Without(@, removed)), !.book = book])

AddUsers(k, delta) ==
  LET new == Restrict(delta, DOMAIN delta \ DOMAIN k.book)
  IN CASE ~k.run -> Refuses(k)
       [] k.run /\ kind = "singbox" ->
            IF new = Nobody THEN Done(k) ELSE Swapped(k, Merged(k.book, new))
       [] k.run /\ kind = "xray" -> Managed(k, new, {}, Merged(k.book, delta))
       [] k.run /\ kind = "xray-restart" ->
            IF new = Nobody THEN Done([k EXCEPT !.book = Merged(k.book, delta)])
                            ELSE Start(k, k.cfg, Merged(k.book, delta))

\* Xray stops when the last user goes, and keeps its book.
RemoveUsers(k, ids) ==
  LET kept == Without(k.book, ids)
  IN CASE ~k.run -> Refuses(k)
       [] k.run /\ kept = k.book -> Done(k)
       [] k.run /\ kept # k.book /\ kind = "singbox" -> Swapped(k, kept)
       [] k.run /\ kept # k.book /\ kind # "singbox" /\ kept = Nobody -> Done(Stopped(k))
       [] k.run /\ kept # k.book /\ kind = "xray" /\ kept # Nobody ->
            Managed(k, Nobody, ids, kept)
       [] k.run /\ kept # k.book /\ kind = "xray-restart" /\ kept # Nobody ->
            Start(k, k.cfg, kept)

UpdateUsers(k, u) ==
  CASE ~k.run -> Refuses(k)
    [] k.run /\ k.book = u -> Done(k)
    [] k.run /\ k.book # u /\ kind = "singbox" -> Swapped(k, u)
    [] k.run /\ k.book # u /\ kind = "xray" ->
         Managed(k, ToAdd(k.book, u), ToRemove(k.book, u), u)
    [] k.run /\ k.book # u /\ kind = "xray-restart" -> Start(k, k.cfg, u)

\* sing-box swaps rules and inbounds; Xray restarts unless configuration and
\* users are those of its last start.
Reload(k, c, u) ==
  IF kind = "singbox" THEN {[s EXCEPT !.k.cfg = IF s.ok THEN c ELSE @] : s \in Swapped(k, u)}
  ELSE IF k.hashed = <<c, u>> THEN Done([k EXCEPT !.book = u])
  ELSE Start(k, c, u)

-----------------------------------------------------------------------------
(* Service: what follows from one event                                    *)

\* The kernels after calls whose failure is at most logged.
Ks(outcomes) == {s.k : s \in outcomes}

\* The outcomes of F on the kernels that failed calls left behind.
OrElse(outcomes, F(_)) ==
  {s \in outcomes : s.ok} \cup UNION {F(s.k) : s \in {t \in outcomes : ~t.ok}}

Init ==
  /\ kind \in Kinds /\ config = FirstCfg /\ reissued = {}
  /\ want \in UserLists
  /\ LET u == want IN
     kern = [run |-> u # Nobody, accounts |-> u, book |-> u, cfg |-> FirstCfg,
             hashed |-> <<FirstCfg, u>>, failed |-> FALSE]

Reissues(old, new) == \E id \in DOMAIN old \cap DOMAIN new : old[id] # new[id]
Noted(how, u) == reissued' = IF Reissues(want, u) THEN reissued \cup {how} ELSE reissued

\* Mutant: the desired users are not rolled back.
NeverRolledBack(outcomes, u) ==
  \E s \in outcomes : kern' = s.k /\ want' = u
\* The desired users are replaced first and restored when nothing worked.
Commit(outcomes, u) ==
  \E s \in outcomes : kern' = s.k /\ want' = IF s.ok THEN u ELSE want

\* handleWSEvent and applySyncResult without a new configuration: applyUserUpdate.
UserList(u) ==
  /\ u # want
  /\ Noted("full", u)
  /\ Commit(IF kern.run
              THEN LET F(k) == Start(k, config, u) IN OrElse(UpdateUsers(kern, u), F)
              ELSE IF u = Nobody THEN Done(kern) ELSE Start(kern, config, u), u)
  /\ UNCHANGED <<kind, config>>

\* Mutant: the old accounts of reissued users are left alone.
NoneTaken(k, delta) == {k}
\* Users of the delta whose UUID changes are taken out first, one call each;
\* a failed call is ignored.
OldTaken(k, delta) ==
  LET changed == SetToSeq({id \in DOMAIN delta \cap DOMAIN want : want[id] # delta[id]})
      taken[i \in 0..Len(changed)] ==
        IF i = 0 THEN {k} ELSE UNION {Ks(RemoveUsers(x, {changed[i]})) : x \in taken[i - 1]}
  IN taken[Len(changed)]

\* applyUserDelta "add".
DeltaAdd(delta) ==
  LET merged == Merged(want, delta)
      F(k) == UpdateUsers(k, merged)
  IN /\ delta # Nobody
     /\ Noted("delta", merged)
     /\ Commit(IF kern.run
                 THEN OrElse(UNION {AddUsers(k, delta) : k \in OldTaken(kern, delta)}, F)
                 ELSE Start(kern, config, merged), merged)
     /\ UNCHANGED <<kind, config>>

\* applyUserDelta "remove".
DeltaRemove(ids) ==
  LET filtered == Without(want, ids)
      F(k) == UpdateUsers(k, filtered)
  IN /\ ids # {}
     /\ Commit(IF kern.run THEN OrElse(RemoveUsers(kern, ids), F) ELSE Done(kern), filtered)
     /\ UNCHANGED <<kind, config, reissued>>

\* applyChanges: reload, and start when that fails; a failed start is only logged.
ApplyChanges(c, u) ==
  LET F(k) == Start(k, c, u)
  IN kern' \in IF u = Nobody THEN {Stopped(kern)}
               ELSE IF kern.run THEN Ks(OrElse(Reload(kern, c, u), F))
               ELSE Ks(Start(kern, c, u))

\* A configuration, alone by push or together with users by a poll.
ConfigAndUsers(c, u) ==
  /\ c # config
  /\ config' = c /\ want' = u
  /\ ApplyChanges(c, u)
  /\ UNCHANGED <<kind, reissued>>

UserStep ==
  \/ \E u \in UserLists : UserList(u) \/ DeltaAdd(u)
  \/ \E ids \in SUBSET Ids : DeltaRemove(ids)

Next == UserStep \/ \E c \in Cfgs, u \in UserLists : ConfigAndUsers(c, u)

Spec == Init /\ [][Next]_vars

Symmetry == Permutations(Ids) \cup Permutations(Uuids)

-----------------------------------------------------------------------------
(* Properties                                                              *)

\* The kernel admits exactly the desired users with their current UUIDs.
AccountsAreWanted == kern.run /\ ~kern.failed => kern.accounts = want

\* The same, Xray's refusal to replace an account by a full list set aside;
\* and the kernel runs whenever somebody should be served, but that an Xray
\* kernel stops when a delta reissues the UUID of its only user.
AccountsFollow ==
  /\ (kind = "xray" /\ "full" \in reissued) \/ AccountsAreWanted
  /\ kern.failed \/ (kind # "singbox" /\ "delta" \in reissued) \/ (want # Nobody => kern.run)

\* Whatever fails on the way, a change of users that finds the kernel's book
\* right admits nobody that it takes out of the desired list; and as long as no
\* UUID is reissued and the kernel was in step, it leaves the desired users or
\* nobody.
ServedOrDark ==
  [][ UserStep /\ kern.book = want =>
      /\ DOMAIN kern'.accounts \cap (DOMAIN want \ DOMAIN want') = {}
      /\ reissued' = {} /\ kern.accounts = want => kern'.accounts \in {want', Nobody} ]_vars
=============================================================================
