------------------------------ MODULE Mailbox ------------------------------
(***************************************************************************)
(* One node of a machine: the events of the shared push connection gather  *)
(* in its NodeMailbox (internal/controlplane) while the node boots from a  *)
(* REST snapshot and serves; internal/service drains the mailbox and polls *)
(* the panel beside it.                                                    *)
(*                                                                         *)
(* A user list gives every ID its properties, 0 for a user who is not in   *)
(* it.  Configuration and device snapshots are version numbers.  Polls     *)
(* succeed here and one is applied before the next is asked for; failing   *)
(* and overlapping polls are the subject of NodeSync.                      *)
(***************************************************************************)
EXTENDS Integers, Sequences, FiniteSetsExt

CONSTANTS Ids,       \* user IDs
          Props,     \* properties a user can have
          Actions,   \* actions of user deltas
          Slots,     \* what is pushed as a snapshot: configuration, devices
          QueueCap,  \* maxPendingOpsRequests
          MaxEdits,  \* bound: events the panel makes of users and snapshots
          MaxAsked,  \* bound: operations the panel asks for
          MaxEvents, \* bound: events of both sorts
          Drops,     \* TRUE: the connection may break
          Emptied    \* TRUE: the panel may remove the last user

ASSUME MailboxAssumption ==
  /\ Props \subseteq Nat \ {0} /\ Actions \subseteq {"add", "remove", "other"}
  /\ Slots \subseteq {"config", "devices"}
  /\ QueueCap \in Nat \ {0} /\ {MaxEdits, MaxAsked, MaxEvents} \subseteq Nat
  /\ {Drops, Emptied} \subseteq BOOLEAN

VARIABLES panel,   \* the panel: users, newest snapshots, operations asked for
          edits,   \* events made so far (bounds the model)
          link,    \* the shared connection is up
          wire,    \* events on their way through the connection
          waking,  \* the reader of the connection is about to notify
          mb,      \* the NodeMailbox
          notify,  \* notifyCh holds its one token
          node,    \* the Service: phase, users, and what the mailbox gave it:
                   \* the last snapshots and the operations
          poll,    \* the REST poll and the ETag of the users
          refused, \* operations answered "busy" (history)
          lost     \* what was lost with the connection or, of users, could not
                   \* be followed, and was not made up for (history)

vars == <<panel, edits, link, wire, waking, mb, notify, node, poll, refused, lost>>

panelVars == <<panel, edits, link>>
serviceVars == <<node, poll>>

-----------------------------------------------------------------------------
(* Values                                                                  *)

Lists == [Ids -> Props \cup {0}]
Nobody == [i \in Ids |-> 0]

SlotEvents == [kind : {"slot"}, slot : Slots, v : Nat]
FullEvents == [kind : {"full"}, users : Lists]
DeltaEvents == [kind : {"delta"}, action : Actions, users : Lists]
OpsEvents == [kind : {"ops"}, id : Nat]
Events == SlotEvents \cup FullEvents \cup DeltaEvents \cup OpsEvents

\* nil: the list is a nil slice, which a removal of the last user leaves.
Mailboxes == [ready : BOOLEAN, users : Lists, nil : BOOLEAN, full : BOOLEAN,
              dirty : BOOLEAN, slots : [Slots -> Nat], dirtySlots : SUBSET Slots,
              ops : Seq(Nat), reconcile : BOOLEAN]

Nodes == [phase : {"boot", "fetched", "seeded", "ready", "run", "awake"}, users : Lists,
          slots : [Slots -> Nat], done : Seq(Nat)]

Polls == [step : {"none", "asked", "answered"}, new : BOOLEAN, users : Lists, etag : Lists]

\* applyUserDelta of the mailbox; an action it does not know changes nothing.
After(users, action, delta) ==
  [i \in Ids |-> IF action = "other" \/ delta[i] = 0 THEN users[i]
                 ELSE IF action = "add" THEN delta[i] ELSE 0]

Init ==
  /\ panel \in [users : Lists \ {Nobody}, slots : {[s \in Slots |-> 0]}, asked : {0}]
  /\ edits = 0 /\ link = TRUE /\ wire = <<>> /\ waking = FALSE
  /\ mb = [ready |-> FALSE, users |-> Nobody, nil |-> TRUE, full |-> FALSE,
           dirty |-> FALSE, slots |-> [s \in Slots |-> 0], dirtySlots |-> {},
           ops |-> <<>>, reconcile |-> FALSE]
  /\ notify = FALSE
  /\ node = [phase |-> "boot", users |-> Nobody, slots |-> [s \in Slots |-> 0], done |-> <<>>]
  /\ poll = [step |-> "none", new |-> FALSE, users |-> Nobody, etag |-> Nobody]
  /\ refused = {} /\ lost = [users |-> FALSE, slots |-> {}, ops |-> {}]

-----------------------------------------------------------------------------
(* External: the panel and its connection                                  *)

\* What is lost with the events of w.
LostWith(w) ==
  [users |-> lost.users \/ \E i \in DOMAIN w : w[i].kind \in {"full", "delta"},
   slots |-> lost.slots \cup {w[i].slot : i \in {j \in DOMAIN w : w[j].kind = "slot"}},
   ops |-> lost.ops \cup {w[i].id : i \in {j \in DOMAIN w : w[j].kind = "ops"}}]

\* An event of the panel; while the connection is down nobody hears of it.
Tell(event) ==
  /\ wire' = IF link THEN Append(wire, event) ELSE wire
  /\ lost' = IF link THEN lost ELSE LostWith(<<event>>)
  /\ UNCHANGED <<link, waking, mb, notify, serviceVars, refused>>

MoreEvents == edits + panel.asked < MaxEvents

Edit == edits < MaxEdits /\ MoreEvents /\ edits' = edits + 1

\* The panel sends the full list, changed or not.
FullList(users) ==
  /\ Emptied \/ users # Nobody
  /\ panel' = [panel EXCEPT !.users = users]
  /\ Edit /\ Tell([kind |-> "full", users |-> users])

\* A delta; an action the node does not know may make any list of it.
Delta(action, delta) ==
  LET users == IF action = "other" THEN delta ELSE After(panel.users, action, delta) IN
    /\ delta # Nobody /\ (Emptied \/ users # Nobody)
    /\ panel' = [panel EXCEPT !.users = users]
    /\ Edit /\ Tell([kind |-> "delta", action |-> action, users |-> delta])

Snapshot(slot) ==
  /\ panel' = [panel EXCEPT !.slots[slot] = @ + 1]
  /\ Edit /\ Tell([kind |-> "slot", slot |-> slot, v |-> panel.slots[slot] + 1])

Ask ==
  /\ panel.asked < MaxAsked /\ MoreEvents
  /\ panel' = [panel EXCEPT !.asked = @ + 1]
  /\ UNCHANGED edits /\ Tell([kind |-> "ops", id |-> panel.asked + 1])

\* What is under way when the connection breaks is lost.
LinkDown ==
  /\ Drops /\ link
  /\ link' = FALSE /\ wire' = <<>>
  /\ lost' = LostWith(wire)
  /\ UNCHANGED <<panel, edits, waking, mb, notify, serviceVars, refused>>

LinkUp ==
  /\ ~link /\ link' = TRUE
  /\ UNCHANGED <<panel, edits, wire, waking, mb, notify, serviceVars, refused, lost>>

-----------------------------------------------------------------------------
(* NodeMailbox.Apply, called by the reader of the connection               *)

\* The oldest event under way, one of this kind, under the lock; the notification
\* follows after the unlock.
Receive(kind) ==
  /\ ~waking /\ wire # <<>> /\ Head(wire).kind = kind
  /\ wire' = Tail(wire)
  /\ UNCHANGED <<panelVars, notify, serviceVars>>

\* A snapshot makes up for lost ones of its kind.
ApplySnapshot ==
  /\ Receive("slot") /\ waking' = TRUE
  /\ LET e == Head(wire) IN
       /\ mb' = [mb EXCEPT !.slots[e.slot] = e.v, !.dirtySlots = @ \cup {e.slot}]
       /\ lost' = [lost EXCEPT !.slots = @ \ {e.slot}]
  /\ UNCHANGED refused

\* A full list makes up for lost changes of users.
ApplyUsers ==
  /\ Receive("full") /\ waking' = TRUE
  /\ mb' = [mb EXCEPT !.users = Head(wire).users, !.nil = FALSE, !.dirty = TRUE, !.full = TRUE]
  /\ lost' = [lost EXCEPT !.users = FALSE]
  /\ UNCHANGED refused

\* Mutant: the delta is merged into a copy that is thrown away.
MergedCopy(e) == [mb EXCEPT !.dirty = TRUE]
\* The mailbox with the delta, and with a reconciliation asked for instead.
Merged(e) ==
  LET users == After(mb.users, e.action, e.users) IN
    [mb EXCEPT !.users = users, !.dirty = TRUE, !.nil = e.action = "remove" /\ users = Nobody]
Reconciled == [mb EXCEPT !.reconcile = TRUE]

\* A delta without a list to change, or of an unknown action, is not followed.
Follows(e) == mb.full /\ e.action # "other"

\* Mutant: a delta that only asks for a reconciliation wakes nobody.
SilentDelta ==
  /\ Receive("delta")
  /\ waking' = Follows(Head(wire))
  /\ mb' = IF Follows(Head(wire)) THEN Merged(Head(wire)) ELSE Reconciled
  /\ lost' = [lost EXCEPT !.users = @ \/ ~Follows(Head(wire))]
  /\ UNCHANGED refused

ApplyDelta ==
  /\ Receive("delta") /\ waking' = TRUE
  /\ mb' = IF Follows(Head(wire)) THEN Merged(Head(wire)) ELSE Reconciled
  /\ lost' = [lost EXCEPT !.users = @ \/ ~Follows(Head(wire))]
  /\ UNCHANGED refused

HasRoom == Len(mb.ops) < QueueCap

\* Mutant: the request is put before those that wait.
Prepended(id) == <<id>> \o mb.ops
Queued(id) == Append(mb.ops, id)

ApplyOps ==
  /\ Receive("ops")
  /\ waking' = HasRoom
  /\ mb' = IF HasRoom THEN [mb EXCEPT !.ops = Queued(Head(wire).id)] ELSE mb
  /\ refused' = IF HasRoom THEN refused ELSE refused \cup {Head(wire).id}
  /\ UNCHANGED lost

Apply == ApplySnapshot \/ ApplyUsers \/ ApplyDelta \/ ApplyOps

\* notify: a token is left unless there is one.
Notify ==
  /\ waking /\ waking' = FALSE
  /\ notify' = TRUE
  /\ UNCHANGED <<panelVars, wire, mb, serviceVars, refused, lost>>

-----------------------------------------------------------------------------
(* Service: initialSetup, drainMachineMailbox, polls                       *)

\* Initial takes a REST snapshot: it makes up for what a mailbox without a full
\* list has missed before.
Boot ==
  /\ node.phase = "boot"
  /\ node' = [node EXCEPT !.phase = "fetched", !.users = panel.users]
  /\ poll' = [poll EXCEPT !.etag = panel.users]
  /\ lost' = [lost EXCEPT !.users = @ /\ mb.full]
  /\ UNCHANGED <<panelVars, wire, waking, mb, notify, refused>>

\* Mutant: a snapshot replaces what the connection brought.
SeedAlways ==
  [mb EXCEPT !.users = node.users, !.nil = FALSE, !.full = TRUE]
\* Mutant: the mailbox starts afresh.
SeedAfresh ==
  [mb EXCEPT !.users = node.users, !.nil = FALSE, !.full = TRUE, !.dirty = FALSE, !.dirtySlots = {}]
\* SeedBaseline: only a mailbox without a full list takes the users, and an
\* empty list is nil here.
Seeded ==
  IF mb.full \/ node.users = Nobody THEN mb
  ELSE [mb EXCEPT !.users = node.users, !.nil = FALSE, !.full = TRUE]

SeedBaseline ==
  /\ node.phase = "fetched"
  /\ node' = [node EXCEPT !.phase = "seeded"]
  /\ mb' = Seeded
  /\ UNCHANGED <<panelVars, wire, waking, notify, poll, refused, lost>>

\* MarkReady, with its notification.
MarkReady ==
  /\ node.phase = "seeded"
  /\ node' = [node EXCEPT !.phase = "ready"]
  /\ mb' = [mb EXCEPT !.ready = TRUE]
  /\ notify' = TRUE
  /\ UNCHANGED <<panelVars, wire, waking, poll, refused, lost>>

\* The mailbox that DrainIfReady leaves behind.
Drained == [mb EXCEPT !.dirtySlots = {}, !.dirty = FALSE, !.ops = <<>>, !.reconcile = FALSE]

\* What the Service makes of the drained state: handleWSEvent for each part (a
\* nil list of users is ignored), then a resync, unless a poll is under way.
Handled ==
  [node EXCEPT !.phase = "run",
               !.slots = [s \in Slots |-> IF s \in mb.dirtySlots THEN mb.slots[s] ELSE @[s]],
               !.users = IF mb.dirty /\ ~mb.nil THEN mb.users ELSE @,
               !.done = @ \o mb.ops]

DrainIfReady ==
  /\ node.phase \in {"ready", "awake"}
  /\ mb' = Drained
  /\ node' = Handled
  /\ poll' = IF mb.reconcile /\ poll.step = "none" THEN [poll EXCEPT !.step = "asked"] ELSE poll
  /\ UNCHANGED <<panelVars, wire, waking, notify, refused, lost>>

\* The select loop receives the token.
Wake ==
  /\ node.phase = "run" /\ notify
  /\ notify' = FALSE
  /\ node' = [node EXCEPT !.phase = "awake"]
  /\ UNCHANGED <<panelVars, wire, waking, mb, poll, refused, lost>>

PullTick ==
  /\ node.phase = "run" /\ poll.step = "none"
  /\ poll' = [poll EXCEPT !.step = "asked"]
  /\ UNCHANGED <<panelVars, wire, waking, mb, notify, node, refused, lost>>

\* GetUsers: nothing new behind the same ETag; an empty list turns into nil.
Fetch ==
  /\ poll.step = "asked"
  /\ LET new == panel.users \notin {poll.etag, Nobody} IN
       poll' = [step |-> "answered", new |-> new, etag |-> panel.users,
                users |-> IF new THEN panel.users ELSE Nobody]
  /\ UNCHANGED <<panelVars, wire, waking, mb, notify, node, refused, lost>>

\* applySyncResult; the mailbox does not hear of it.
ApplyResult ==
  /\ node.phase = "run" /\ poll.step = "answered"
  /\ node' = [node EXCEPT !.users = IF poll.new THEN poll.users ELSE @]
  /\ poll' = [poll EXCEPT !.step = "none", !.new = FALSE, !.users = Nobody]
  /\ UNCHANGED <<panelVars, wire, waking, mb, notify, refused, lost>>

-----------------------------------------------------------------------------
External ==
  \/ \E users \in Lists : FullList(users)
  \/ \E action \in Actions, delta \in Lists : Delta(action, delta)
  \/ \E slot \in Slots : Snapshot(slot)
  \/ Ask \/ LinkDown \/ LinkUp

Service ==
  \/ Boot \/ SeedBaseline \/ MarkReady
  \/ Wake \/ DrainIfReady \/ PullTick \/ Fetch \/ ApplyResult

Next == External \/ Apply \/ Notify \/ Service

Spec == Init /\ [][Next]_vars

\* The reader of the connection and the Service go on; select takes a token or
\* a poll result that is there some time, and the pull ticker fires for ever.
Fairness ==
  /\ WF_vars(Apply) /\ WF_vars(Notify)
  /\ WF_vars(Boot \/ SeedBaseline \/ MarkReady)
  /\ WF_vars(Wake) /\ WF_vars(DrainIfReady) /\ WF_vars(PullTick) /\ WF_vars(Fetch) /\ WF_vars(ApplyResult)

FairSpec == Spec /\ Fairness

-----------------------------------------------------------------------------
(* Properties                                                              *)

\* Every variable has its type; the queue of operations is bounded.
TypeOK ==
  /\ panel \in [users : Lists, slots : [Slots -> Nat], asked : Nat]
  /\ edits \in Nat /\ link \in BOOLEAN /\ waking \in BOOLEAN /\ notify \in BOOLEAN
  /\ wire \in Seq(Events)
  /\ mb \in Mailboxes /\ Len(mb.ops) <= QueueCap
  /\ node \in Nodes /\ poll \in Polls
  /\ refused \subseteq Nat
  /\ lost \in [users : BOOLEAN, slots : SUBSET Slots, ops : SUBSET Nat]

News == mb.dirty \/ mb.dirtySlots # {} \/ mb.ops # <<>> \/ mb.reconcile

\* No wake-up is lost: a mailbox that is ready and holds something has a token
\* in its channel, or the one who put it there is about to leave one, or the
\* Service is about to drain it.
NoLostWakeup == mb.ready /\ News => notify \/ waking \/ node.phase \in {"ready", "awake"}

\* Operations handled and waiting, oldest first, and those under way.
Trail == node.done \o mb.ops
WireOps == {i \in DOMAIN wire : wire[i].kind = "ops"}

\* Operations are handled in the order they were asked for, each at most once;
\* one that is not was refused or got lost with the connection, never in the
\* mailbox.
OpsInOrder ==
  /\ \A i, j \in DOMAIN Trail : i < j => Trail[i] < Trail[j]
  /\ \A i \in DOMAIN Trail, j \in WireOps : Trail[i] < wire[j].id
  /\ \A i, j \in WireOps : i < j => wire[i].id < wire[j].id
  /\ \A n \in 1..panel.asked :
       \/ n \in refused \cup lost.ops
       \/ \E i \in DOMAIN Trail : Trail[i] = n
       \/ \E i \in WireOps : wire[i].id = n

\* The newest snapshot of each kind has reached the node, waits in the mailbox
\* or is on its way, unless it was lost with the connection.
SnapshotNotLost ==
  \A s \in Slots \ lost.slots :
    \/ \E i \in DOMAIN wire : wire[i].kind = "slot" /\ wire[i].slot = s
    \/ panel.slots[s] = IF s \in mb.dirtySlots THEN mb.slots[s] ELSE node.slots[s]

\* The event gives user i properties, or takes them: which.
Names(e, i) == e.kind = "full" \/ (e.kind = "delta" /\ e.action # "other" /\ e.users[i] # 0)
Given(e, i) == IF e.kind = "delta" /\ e.action = "remove" THEN 0 ELSE e.users[i]

\* As long as no change of users is lost, the events on their way turn the
\* mailbox's baseline into the panel's list: the last one that names a user decides.
BaselineAddsUp ==
  mb.full /\ ~lost.users /\ (\A k \in DOMAIN wire : wire[k].kind = "delta" => wire[k].action # "other")
    => \A i \in Ids : LET naming == {k \in DOMAIN wire : Names(wire[k], i)} IN
         panel.users[i] = IF naming = {} THEN mb.users[i] ELSE Given(wire[Max(naming)], i)

\* The node ends up with the panel's users when lost changes are followed by a
\* full list.
UsersSettle == <>[]~lost.users => <>[](node.users = panel.users)

\* The same, counting on periodic polling alone (Service.Run: it provides
\* eventual consistency if a push event is missed).
PollingHeals == <>[](node.users = panel.users)
=============================================================================
