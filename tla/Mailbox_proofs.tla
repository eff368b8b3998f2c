-------------------------- MODULE Mailbox_proofs --------------------------
(***************************************************************************)
(* What the run of Mailbox shows on a small instance, for every set of     *)
(* users, every queue capacity and any number of events.                   *)
(***************************************************************************)
EXTENDS Mailbox, WellFoundedInduction, TLAPS

(* Helpers *)

\* Lists of users are closed under the merging of deltas.
LEMMA ListOperations ==
  /\ Nobody \in Lists
  /\ \A users, delta \in Lists, action \in Actions : After(users, action, delta) \in Lists
BY MailboxAssumption DEF Nobody, Lists, After

\* Merging and seeding give mailboxes.
LEMMA MailboxOperations ==
  ASSUME TypeOK
  PROVE  /\ \A e \in DeltaEvents : Merged(e) \in Mailboxes /\ Merged(e).ops = mb.ops
         /\ Reconciled \in Mailboxes /\ Reconciled.ops = mb.ops
         /\ Seeded \in Mailboxes /\ Seeded.ops = mb.ops
         /\ Drained \in Mailboxes /\ Drained.ops = <<>>
         /\ Handled \in Nodes
  <1>1. ASSUME NEW e \in DeltaEvents PROVE Merged(e) \in Mailboxes /\ Merged(e).ops = mb.ops
    <2>1. After(mb.users, e.action, e.users) \in Lists
      BY ListOperations DEF TypeOK, Mailboxes, DeltaEvents
    <2>2. (e.action = "remove" /\ After(mb.users, e.action, e.users) = Nobody) \in BOOLEAN
      OBVIOUS
    <2> HIDE DEF After
    <2> QED  BY <2>1, <2>2 DEF TypeOK, Mailboxes, Merged
  <1>2. Reconciled \in Mailboxes /\ Reconciled.ops = mb.ops
    BY DEF TypeOK, Mailboxes, Reconciled
  <1>3. Seeded \in Mailboxes /\ Seeded.ops = mb.ops
    BY DEF TypeOK, Mailboxes, Nodes, Seeded
  <1>4. Drained \in Mailboxes /\ Drained.ops = <<>>
    <2>1. mb \in Mailboxes /\ <<>> \in Seq(Nat) /\ {} \in SUBSET Slots
      BY DEF TypeOK
    <2> QED  BY <2>1 DEF Mailboxes, Drained
  <1>5. Handled \in Nodes
    <2>1. [s \in Slots |-> IF s \in mb.dirtySlots THEN mb.slots[s] ELSE node.slots[s]] \in [Slots -> Nat]
      BY DEF TypeOK, Mailboxes, Nodes
    <2>2. (IF mb.dirty /\ ~mb.nil THEN mb.users ELSE node.users) \in Lists
      BY DEF TypeOK, Mailboxes, Nodes
    <2>3. node.done \o mb.ops \in Seq(Nat)
      BY DEF TypeOK, Mailboxes, Nodes
    <2> QED  BY <2>1, <2>2, <2>3 DEF TypeOK, Nodes, Handled
  <1> QED  BY <1>1, <1>2, <1>3, <1>4, <1>5

\* What is lost with events has the type of what is lost.
LEMMA LostType ==
  ASSUME TypeOK, NEW w \in Seq(Events)
  PROVE  LostWith(w) \in [users : BOOLEAN, slots : SUBSET Slots, ops : SUBSET Nat]
  <1>1. \A i \in DOMAIN w : w[i] \in Events  OBVIOUS
  <1>2. {w[i].slot : i \in {j \in DOMAIN w : w[j].kind = "slot"}} \subseteq Slots
    BY <1>1 DEF Events, SlotEvents, FullEvents, DeltaEvents, OpsEvents
  <1>3. {w[i].id : i \in {j \in DOMAIN w : w[j].kind = "ops"}} \subseteq Nat
    BY <1>1 DEF Events, SlotEvents, FullEvents, DeltaEvents, OpsEvents
  <1>4. (lost.users \/ \E i \in DOMAIN w : w[i].kind \in {"full", "delta"}) \in BOOLEAN
    BY DEF TypeOK
  <1>5. lost.slots \subseteq Slots /\ lost.ops \subseteq Nat
    BY DEF TypeOK
  <1> QED  BY <1>2, <1>3, <1>4, <1>5 DEF LostWith

\* An event told by the panel keeps the types of what it touches.
LEMMA TellType ==
  ASSUME TypeOK, NEW e \in Events, Tell(e)
  PROVE  /\ wire' \in Seq(Events)
         /\ lost' \in [users : BOOLEAN, slots : SUBSET Slots, ops : SUBSET Nat]
  <1>1. wire \in Seq(Events) /\ Append(wire, e) \in Seq(Events)  BY DEF TypeOK
  <1>2. <<e>> \in Seq(Events)  OBVIOUS
  <1>3. LostWith(<<e>>) \in [users : BOOLEAN, slots : SUBSET Slots, ops : SUBSET Nat]
    BY <1>2, LostType
  <1>4. lost \in [users : BOOLEAN, slots : SUBSET Slots, ops : SUBSET Nat]  BY DEF TypeOK
  <1>5. wire' = (IF link THEN Append(wire, e) ELSE wire) /\ lost' = (IF link THEN lost ELSE LostWith(<<e>>))
    BY DEF Tell
  <1> QED  BY <1>1, <1>3, <1>4, <1>5

-----------------------------------------------------------------------------
(* Types                                                                   *)

LEMMA TypeInit == Init => TypeOK
  <1> SUFFICES ASSUME Init PROVE TypeOK  OBVIOUS
  <1>1. panel \in [users : Lists, slots : [Slots -> Nat], asked : Nat]  BY DEF Init
  <1>2. edits \in Nat /\ link \in BOOLEAN /\ waking \in BOOLEAN /\ notify \in BOOLEAN
    BY DEF Init
  <1>3. wire \in Seq(Events)  BY DEF Init
  <1>4. mb \in Mailboxes /\ Len(mb.ops) <= QueueCap
    <2>1. <<>> \in Seq(Nat) /\ [s \in Slots |-> 0] \in [Slots -> Nat] /\ {} \in SUBSET Slots
      OBVIOUS
    <2>2. mb \in Mailboxes  BY <2>1, ListOperations DEF Init, Mailboxes
    <2>3. Len(mb.ops) = 0  BY DEF Init
    <2> QED  BY <2>2, <2>3, MailboxAssumption
  <1>5. node \in Nodes
    <2>1. <<>> \in Seq(Nat) /\ [s \in Slots |-> 0] \in [Slots -> Nat]  OBVIOUS
    <2> QED  BY <2>1, ListOperations DEF Init, Nodes
  <1>6. poll \in Polls  BY ListOperations DEF Init, Polls
  <1>7. refused \subseteq Nat /\ lost \in [users : BOOLEAN, slots : SUBSET Slots, ops : SUBSET Nat]
    BY DEF Init
  <1> QED  BY <1>1, <1>2, <1>3, <1>4, <1>5, <1>6, <1>7 DEF TypeOK

LEMMA TypeExternal == TypeOK /\ External => TypeOK'
  <1> SUFFICES ASSUME TypeOK, External PROVE TypeOK'  OBVIOUS
  <1> USE DEF serviceVars
  <1>1. ASSUME NEW users \in Lists, FullList(users) PROVE TypeOK'
    <2>1. [kind |-> "full", users |-> users] \in Events  BY DEF Events, FullEvents
    <2>2. panel' \in [users : Lists, slots : [Slots -> Nat], asked : Nat]
      BY <1>1 DEF TypeOK, FullList
    <2>3. wire' \in Seq(Events) /\ lost' \in [users : BOOLEAN, slots : SUBSET Slots, ops : SUBSET Nat]
      BY <1>1, <2>1, TellType DEF FullList
    <2>5. edits' \in Nat  BY <1>1 DEF FullList, Edit, TypeOK
    <2> QED  BY <1>1, <2>2, <2>3, <2>5 DEF TypeOK, FullList, Tell
  <1>2. ASSUME NEW action \in Actions, NEW delta \in Lists, Delta(action, delta) PROVE TypeOK'
    <2>1. [kind |-> "delta", action |-> action, users |-> delta] \in Events
      BY DEF Events, DeltaEvents
    <2>2. panel' \in [users : Lists, slots : [Slots -> Nat], asked : Nat]
      <3>1. panel \in [users : Lists, slots : [Slots -> Nat], asked : Nat]  BY DEF TypeOK
      <3>2. panel' = [panel EXCEPT !.users = IF action = "other" THEN delta
                                             ELSE After(panel.users, action, delta)]
        BY <1>2 DEF Delta
      <3>3. (IF action = "other" THEN delta ELSE After(panel.users, action, delta)) \in Lists
        BY <3>1, ListOperations
      <3> QED  BY <3>1, <3>2, <3>3
    <2>3. wire' \in Seq(Events) /\ lost' \in [users : BOOLEAN, slots : SUBSET Slots, ops : SUBSET Nat]
      BY <1>2, <2>1, TellType DEF Delta
    <2>5. edits' \in Nat  BY <1>2 DEF Delta, Edit, TypeOK
    <2> QED  BY <1>2, <2>2, <2>3, <2>5 DEF TypeOK, Delta, Tell
  <1>3. ASSUME NEW slot \in Slots, Snapshot(slot) PROVE TypeOK'
    <2>1. panel.slots[slot] + 1 \in Nat  BY DEF TypeOK
    <2>2. [kind |-> "slot", slot |-> slot, v |-> panel.slots[slot] + 1] \in Events
      BY <2>1 DEF Events, SlotEvents
    <2>3. panel' \in [users : Lists, slots : [Slots -> Nat], asked : Nat]
      BY <1>3, <2>1 DEF TypeOK, Snapshot
    <2>4. wire' \in Seq(Events) /\ lost' \in [users : BOOLEAN, slots : SUBSET Slots, ops : SUBSET Nat]
      BY <1>3, <2>2, TellType DEF Snapshot
    <2>5. edits' \in Nat  BY <1>3 DEF Snapshot, Edit, TypeOK
    <2> QED  BY <1>3, <2>3, <2>4, <2>5 DEF TypeOK, Snapshot, Tell
  <1>4. ASSUME Ask PROVE TypeOK'
    <2>1. panel.asked + 1 \in Nat  BY DEF TypeOK
    <2>2. [kind |-> "ops", id |-> panel.asked + 1] \in Events  BY <2>1 DEF Events, OpsEvents
    <2>3. panel' \in [users : Lists, slots : [Slots -> Nat], asked : Nat]
      BY <1>4, <2>1 DEF TypeOK, Ask
    <2>4. wire' \in Seq(Events) /\ lost' \in [users : BOOLEAN, slots : SUBSET Slots, ops : SUBSET Nat]
      BY <1>4, <2>2, TellType DEF Ask
    <2> QED  BY <1>4, <2>3, <2>4 DEF TypeOK, Ask, Tell
  <1>5. ASSUME LinkDown PROVE TypeOK'
    <2>1. lost' \in [users : BOOLEAN, slots : SUBSET Slots, ops : SUBSET Nat]
      BY <1>5, LostType DEF TypeOK, LinkDown
    <2>2. wire' \in Seq(Events)  BY <1>5 DEF LinkDown
    <2> QED  BY <1>5, <2>1, <2>2 DEF TypeOK, LinkDown
  <1>6. ASSUME LinkUp PROVE TypeOK'
    BY <1>6 DEF TypeOK, LinkUp
  <1> QED  BY <1>1, <1>2, <1>3, <1>4, <1>5, <1>6 DEF External

LEMMA TypeApply == TypeOK /\ (Apply \/ Notify) => TypeOK'
  <1> SUFFICES ASSUME TypeOK, Apply \/ Notify PROVE TypeOK'  OBVIOUS
  <1> USE DEF panelVars, serviceVars
  <1>1. ASSUME NEW kind, Receive(kind) PROVE Head(wire) \in Events /\ Tail(wire) \in Seq(Events)
    BY <1>1 DEF TypeOK, Receive
  <1>2. CASE ApplySnapshot
    <2>1. Receive("slot")  BY <1>2 DEF ApplySnapshot
    <2>2. Head(wire) \in SlotEvents
      BY <1>1, <2>1 DEF Receive, Events, SlotEvents, FullEvents, DeltaEvents, OpsEvents
    <2>3. mb' \in Mailboxes /\ mb'.ops = mb.ops
      BY <1>2, <2>2 DEF ApplySnapshot, TypeOK, Mailboxes, SlotEvents
    <2>4. lost' \in [users : BOOLEAN, slots : SUBSET Slots, ops : SUBSET Nat]
      BY <1>2 DEF ApplySnapshot, TypeOK
    <2> QED  BY <1>2, <1>1, <2>1, <2>3, <2>4 DEF ApplySnapshot, Receive, TypeOK
  <1>3. CASE ApplyUsers
    <2>1. Receive("full")  BY <1>3 DEF ApplyUsers
    <2>2. Head(wire) \in FullEvents
      BY <1>1, <2>1 DEF Receive, Events, SlotEvents, FullEvents, DeltaEvents, OpsEvents
    <2>3. mb' \in Mailboxes /\ mb'.ops = mb.ops
      BY <1>3, <2>2 DEF ApplyUsers, TypeOK, Mailboxes, FullEvents
    <2>4. lost' \in [users : BOOLEAN, slots : SUBSET Slots, ops : SUBSET Nat]
      BY <1>3 DEF ApplyUsers, TypeOK
    <2> QED  BY <1>3, <1>1, <2>1, <2>3, <2>4 DEF ApplyUsers, Receive, TypeOK
  <1>4. CASE ApplyDelta
    <2>1. Receive("delta")  BY <1>4 DEF ApplyDelta
    <2>2. Head(wire) \in DeltaEvents
      BY <1>1, <2>1 DEF Receive, Events, SlotEvents, FullEvents, DeltaEvents, OpsEvents
    <2>3. mb' \in Mailboxes /\ mb'.ops = mb.ops
      BY <1>4, <2>2, MailboxOperations DEF ApplyDelta
    <2>4. lost' \in [users : BOOLEAN, slots : SUBSET Slots, ops : SUBSET Nat]
      BY <1>4 DEF ApplyDelta, TypeOK
    <2> QED  BY <1>4, <1>1, <2>1, <2>3, <2>4 DEF ApplyDelta, Receive, TypeOK
  <1>5. CASE ApplyOps
    <2>1. Receive("ops")  BY <1>5 DEF ApplyOps
    <2>2. Head(wire) \in OpsEvents
      BY <1>1, <2>1 DEF Receive, Events, SlotEvents, FullEvents, DeltaEvents, OpsEvents
    <2>3. Head(wire).id \in Nat  BY <2>2 DEF OpsEvents
    <2>4. mb' \in Mailboxes /\ Len(mb'.ops) <= QueueCap
      <3>1. CASE HasRoom
        <4>1. mb \in Mailboxes /\ mb.ops \in Seq(Nat)  BY DEF TypeOK, Mailboxes
        <4>2. /\ Append(mb.ops, Head(wire).id) \in Seq(Nat)
              /\ Len(Append(mb.ops, Head(wire).id)) = Len(mb.ops) + 1
          BY <2>3, <4>1
        <4>3. mb' = [mb EXCEPT !.ops = Append(mb.ops, Head(wire).id)]
          BY <1>5, <3>1 DEF ApplyOps, Queued
        <4>4. mb' \in Mailboxes /\ mb'.ops = Append(mb.ops, Head(wire).id)
          BY <4>1, <4>2, <4>3 DEF Mailboxes
        <4>5. Len(mb.ops) \in Nat /\ Len(mb.ops) < QueueCap
          BY <3>1, <4>1 DEF HasRoom
        <4> QED  BY <4>2, <4>4, <4>5, MailboxAssumption
      <3>2. CASE ~HasRoom
        BY <1>5, <3>2 DEF ApplyOps, TypeOK
      <3> QED  BY <3>1, <3>2
    <2>5. refused' \subseteq Nat  BY <1>5, <2>3 DEF ApplyOps, TypeOK
    <2>6. waking' \in BOOLEAN  BY <1>5 DEF ApplyOps, HasRoom
    <2> QED  BY <1>5, <1>1, <2>1, <2>4, <2>5, <2>6 DEF ApplyOps, Receive, TypeOK
  <1>6. CASE Notify
    BY <1>6 DEF TypeOK, Notify
  <1> QED  BY <1>2, <1>3, <1>4, <1>5, <1>6 DEF Apply

LEMMA TypeService == TypeOK /\ Service => TypeOK'
  <1> SUFFICES ASSUME TypeOK, Service PROVE TypeOK'  OBVIOUS
  <1> USE DEF panelVars
  <1>1. node \in Nodes /\ poll \in Polls /\ mb \in Mailboxes /\ panel.users \in Lists
    BY DEF TypeOK
  <1>2. CASE Boot
    <2>1. node' \in Nodes /\ poll' \in Polls  BY <1>1, <1>2 DEF Boot, Nodes, Polls
    <2>2. lost' \in [users : BOOLEAN, slots : SUBSET Slots, ops : SUBSET Nat]
      BY <1>2 DEF Boot, TypeOK, Mailboxes
    <2> QED  BY <1>2, <2>1, <2>2 DEF Boot, TypeOK
  <1>3. CASE SeedBaseline
    <2>1. node' \in Nodes  BY <1>1, <1>3 DEF SeedBaseline, Nodes
    <2>2. mb' \in Mailboxes /\ Len(mb'.ops) <= QueueCap
      BY <1>3, MailboxOperations DEF SeedBaseline, TypeOK
    <2> QED  BY <1>3, <2>1, <2>2 DEF SeedBaseline, TypeOK
  <1>4. CASE MarkReady
    <2>1. node' \in Nodes  BY <1>1, <1>4 DEF MarkReady, Nodes
    <2>2. mb' \in Mailboxes /\ mb'.ops = mb.ops  BY <1>1, <1>4 DEF MarkReady, Mailboxes
    <2> QED  BY <1>4, <2>1, <2>2 DEF MarkReady, TypeOK
  <1>5. CASE DrainIfReady
    <2>1. node' \in Nodes  BY <1>5, MailboxOperations DEF DrainIfReady
    <2>2. mb' \in Mailboxes /\ mb'.ops = <<>>
      BY <1>5, MailboxOperations DEF DrainIfReady
    <2>3. poll' \in Polls  BY <1>1, <1>5 DEF DrainIfReady, Polls
    <2>4. Len(mb'.ops) <= QueueCap  BY <2>2, MailboxAssumption
    <2> QED  BY <1>5, <2>1, <2>2, <2>3, <2>4 DEF DrainIfReady, TypeOK
  <1>6. CASE Wake
    <2>1. node' \in Nodes  BY <1>1, <1>6 DEF Wake, Nodes
    <2> QED  BY <1>6, <2>1 DEF Wake, TypeOK
  <1>7. CASE PullTick
    <2>1. poll' \in Polls  BY <1>1, <1>7 DEF PullTick, Polls
    <2> QED  BY <1>7, <2>1 DEF PullTick, TypeOK
  <1>8. CASE Fetch
    <2>1. poll' \in Polls  BY <1>1, <1>8, ListOperations DEF Fetch, Polls
    <2> QED  BY <1>8, <2>1 DEF Fetch, TypeOK
  <1>9. CASE ApplyResult
    <2>1. poll' \in Polls  BY <1>1, <1>9, ListOperations DEF ApplyResult, Polls
    <2>2. node' \in Nodes  BY <1>1, <1>9 DEF ApplyResult, Polls, Nodes
    <2> QED  BY <1>9, <2>1, <2>2 DEF ApplyResult, TypeOK
  <1> QED  BY <1>2, <1>3, <1>4, <1>5, <1>6, <1>7, <1>8, <1>9 DEF Service

\* Every variable keeps its type and the queue of operations its bound.
THEOREM TypeCorrect == Spec => []TypeOK
  <1>1. TypeOK /\ [Next]_vars => TypeOK'
    <2>1. TypeOK /\ UNCHANGED vars => TypeOK'
      BY DEF vars, TypeOK, Mailboxes
    <2> QED  BY <2>1, TypeExternal, TypeApply, TypeService DEF Next
  <1> QED  BY <1>1, TypeInit, PTL DEF Spec

-----------------------------------------------------------------------------
(* Wake-ups                                                                *)

LEMMA WakeupStep == TypeOK /\ NoLostWakeup /\ [Next]_vars => NoLostWakeup'
  <1> SUFFICES ASSUME TypeOK, NoLostWakeup, [Next]_vars PROVE NoLostWakeup'  OBVIOUS
  <1> USE DEF NoLostWakeup, News, panelVars, serviceVars
  <1>1. mb \in Mailboxes /\ node \in Nodes  BY DEF TypeOK
  <1>2. CASE External
    <2>1. UNCHANGED <<waking, mb, notify, node>>
      BY <1>2 DEF External, FullList, Delta, Snapshot, Ask, Tell, LinkDown, LinkUp
    <2> QED  BY <2>1
  <1>3. CASE ApplySnapshot \/ ApplyUsers \/ ApplyDelta
    BY <1>3 DEF ApplySnapshot, ApplyUsers, ApplyDelta
  <1>4. CASE ApplyOps
    BY <1>4 DEF ApplyOps, Receive
  <1>5. CASE Notify
    BY <1>5 DEF Notify
  <1>6. CASE Boot
    BY <1>1, <1>6 DEF Boot, Nodes
  <1>7. CASE SeedBaseline
    <2>1. /\ mb'.ready = mb.ready /\ mb'.dirty = mb.dirty /\ mb'.dirtySlots = mb.dirtySlots
          /\ mb'.ops = mb.ops /\ mb'.reconcile = mb.reconcile
      BY <1>1, <1>7 DEF SeedBaseline, Seeded, Mailboxes
    <2> QED  BY <1>7, <2>1 DEF SeedBaseline
  <1>8. CASE MarkReady
    BY <1>8 DEF MarkReady
  <1>9. CASE DrainIfReady
    BY <1>1, <1>9 DEF DrainIfReady, Drained, Mailboxes
  <1>10. CASE Wake
    BY <1>1, <1>10 DEF Wake, Nodes
  <1>11. CASE PullTick \/ Fetch
    BY <1>11 DEF PullTick, Fetch
  <1>12. CASE ApplyResult
    BY <1>1, <1>12 DEF ApplyResult, Nodes
  <1>13. CASE UNCHANGED vars
    BY <1>13 DEF vars
  <1> QED
    BY <1>2, <1>3, <1>4, <1>5, <1>6, <1>7, <1>8, <1>9, <1>10, <1>11, <1>12, <1>13
    DEF Next, Apply, Service

\* A ready mailbox that holds something always has a token in its channel, a
\* reader about to leave one, or a Service about to drain it.
THEOREM NothingSleeps == Spec => []NoLostWakeup
  <1>1. Init => NoLostWakeup  BY DEF Init, NoLostWakeup, News
  <1> QED  BY <1>1, WakeupStep, TypeCorrect, PTL DEF Spec

-----------------------------------------------------------------------------
(* Snapshots                                                               *)

\* Snapshots of a kind under way.
UnderWay(s) == {i \in DOMAIN wire : wire[i].kind = "slot" /\ wire[i].slot = s}

\* Nothing is under way on a broken connection, and the last snapshot of a kind
\* under way is the newest.
SnapshotInv ==
  /\ ~link => wire = <<>>
  /\ \A s \in Slots : \A i \in UnderWay(s) :
       (\A j \in UnderWay(s) : j <= i) => wire[i].v = panel.slots[s]
  /\ SnapshotNotLost

\* A step that leaves the panel's snapshots, the connection and the node's part
\* alone keeps the invariant.
LEMMA SnapshotFrame ==
  ASSUME SnapshotInv, UNCHANGED <<wire, link, panel, lost>>,
         mb'.dirtySlots = mb.dirtySlots, mb'.slots = mb.slots, node'.slots = node.slots
  PROVE  SnapshotInv'
BY DEF SnapshotInv, SnapshotNotLost, UnderWay

\* An event that is told does not disturb the snapshots of kinds it is not about.
LEMMA SnapshotTell ==
  ASSUME TypeOK, SnapshotInv, NEW e \in Events, Tell(e),
         \A s \in Slots : (e.kind = "slot" /\ e.slot = s /\ panel'.slots[s] = e.v)
                           \/ (~(e.kind = "slot" /\ e.slot = s) /\ panel'.slots[s] = panel.slots[s])
  PROVE  SnapshotInv'
  <1>1. UNCHANGED <<link, mb, node>>  BY DEF Tell, serviceVars
  <1>2. CASE link
    <2>1. wire' = Append(wire, e) /\ lost' = lost  BY <1>2 DEF Tell
    <2>2. wire \in Seq(Events)  BY DEF TypeOK
    <2>3. /\ Len(wire') = Len(wire) + 1 /\ DOMAIN wire' = 1..(Len(wire) + 1)
          /\ DOMAIN wire = 1..Len(wire) /\ Len(wire) \in Nat
          /\ \A i \in DOMAIN wire : wire'[i] = wire[i]
          /\ wire'[Len(wire) + 1] = e
      BY <2>1, <2>2
    <2>4. ASSUME NEW s \in Slots, e.kind = "slot", e.slot = s, panel'.slots[s] = e.v
          PROVE  /\ \A i \in UnderWay(s)' : (\A j \in UnderWay(s)' : j <= i) => wire'[i].v = panel'.slots[s]
                 /\ \E i \in DOMAIN wire' : wire'[i].kind = "slot" /\ wire'[i].slot = s
      <3>1. Len(wire) + 1 \in UnderWay(s)'  BY <2>3, <2>4 DEF UnderWay
      <3>2. \A i \in UnderWay(s)' : Len(wire) + 1 <= i => i = Len(wire) + 1
        BY <2>3 DEF UnderWay
      <3> QED  BY <2>3, <2>4, <3>1, <3>2
    <2>5. ASSUME NEW s \in Slots, ~(e.kind = "slot" /\ e.slot = s), panel'.slots[s] = panel.slots[s]
          PROVE  /\ \A i \in UnderWay(s)' : (\A j \in UnderWay(s)' : j <= i) => wire'[i].v = panel'.slots[s]
                 /\ UnderWay(s)' = UnderWay(s)
      <3>1. UnderWay(s)' = UnderWay(s)  BY <2>3, <2>5 DEF UnderWay
      <3>2. \A i \in UnderWay(s) : i \in DOMAIN wire  BY DEF UnderWay
      <3> QED  BY <2>3, <2>5, <3>1, <3>2 DEF SnapshotInv
    <2>6. SnapshotNotLost'
      <3> SUFFICES ASSUME NEW s \in Slots \ lost'.slots
                   PROVE \/ \E i \in DOMAIN wire' : wire'[i].kind = "slot" /\ wire'[i].slot = s
                         \/ panel'.slots[s] = IF s \in mb'.dirtySlots THEN mb'.slots[s] ELSE node'.slots[s]
        BY DEF SnapshotNotLost
      <3>1. CASE e.kind = "slot" /\ e.slot = s  BY <2>4, <3>1
      <3>2. CASE ~(e.kind = "slot" /\ e.slot = s)
        <4>1. panel'.slots[s] = panel.slots[s] /\ s \in Slots \ lost.slots  BY <3>2, <2>1
        <4>2. \/ \E i \in DOMAIN wire : wire[i].kind = "slot" /\ wire[i].slot = s
              \/ panel.slots[s] = IF s \in mb.dirtySlots THEN mb.slots[s] ELSE node.slots[s]
          BY <4>1 DEF SnapshotInv, SnapshotNotLost
        <4> QED  BY <1>1, <2>3, <4>1, <4>2
      <3> QED  BY <3>1, <3>2
    <2> QED  BY <1>1, <1>2, <2>4, <2>5, <2>6 DEF SnapshotInv
  <1>3. CASE ~link
    <2>1. wire = <<>> /\ wire' = <<>> /\ lost' = LostWith(<<e>>)
      BY <1>3 DEF Tell, SnapshotInv
    <2>2. \A s \in Slots : e.kind = "slot" /\ e.slot = s => s \in lost'.slots
      <3>1. <<e>>[1] = e /\ DOMAIN <<e>> = {1}  OBVIOUS
      <3>2. lost'.slots = lost.slots \cup {<<e>>[i].slot : i \in {j \in DOMAIN <<e>> : <<e>>[j].kind = "slot"}}
        BY <2>1 DEF LostWith
      <3> QED  BY <3>1, <3>2
    <2>3. lost.slots \subseteq lost'.slots  BY <2>1 DEF LostWith
    <2>4. SnapshotNotLost'
      BY <1>1, <2>1, <2>2, <2>3 DEF SnapshotInv, SnapshotNotLost
    <2> QED  BY <1>1, <2>1, <2>4 DEF SnapshotInv, UnderWay
  <1> QED  BY <1>2, <1>3

\* An event that is taken off the connection and is not a snapshot.
LEMMA SnapshotOther ==
  ASSUME TypeOK, SnapshotInv, NEW kind, kind # "slot", Receive(kind),
         mb'.dirtySlots = mb.dirtySlots, mb'.slots = mb.slots, lost'.slots = lost.slots
  PROVE  SnapshotInv'
  <1>1. /\ wire # <<>> /\ wire' = Tail(wire) /\ wire[1].kind # "slot" /\ wire \in Seq(Events)
        /\ UNCHANGED <<link, panel, node>>
    BY DEF Receive, TypeOK, panelVars, serviceVars
  <1>2. /\ DOMAIN wire = 1..Len(wire) /\ Len(wire) \in Nat \ {0} /\ DOMAIN wire' = 1..(Len(wire) - 1)
        /\ \A i \in DOMAIN wire' : i + 1 \in DOMAIN wire /\ wire'[i] = wire[i + 1]
    BY <1>1
  <1>3. \A i \in DOMAIN wire : wire[i].kind = "slot" => i - 1 \in DOMAIN wire' /\ wire'[i - 1] = wire[i]
    <2> SUFFICES ASSUME NEW i \in DOMAIN wire, wire[i].kind = "slot"
                 PROVE i - 1 \in DOMAIN wire' /\ wire'[i - 1] = wire[i]
      OBVIOUS
    <2>1. i # 1 /\ i \in 1..Len(wire)  BY <1>1, <1>2
    <2>2. i - 1 \in DOMAIN wire'  BY <1>2, <2>1
    <2>3. wire'[i - 1] = wire[(i - 1) + 1] /\ (i - 1) + 1 = i  BY <1>2, <2>1, <2>2
    <2> QED  BY <2>2, <2>3
  <1>4. ASSUME NEW s \in Slots, NEW i \in UnderWay(s)', \A j \in UnderWay(s)' : j <= i
        PROVE  wire'[i].v = panel'.slots[s]
    <2>1. i + 1 \in UnderWay(s) /\ wire'[i] = wire[i + 1] /\ i \in Int  BY <1>2, <1>4 DEF UnderWay
    <2>2. \A j \in UnderWay(s) : j \in Int /\ j - 1 \in UnderWay(s)'  BY <1>2, <1>3 DEF UnderWay
    <2>3. \A j \in UnderWay(s) : j <= i + 1  BY <1>4, <2>1, <2>2
    <2> QED  BY <1>1, <2>1, <2>3 DEF SnapshotInv
  <1>5. SnapshotNotLost'
    <2> SUFFICES ASSUME NEW s \in Slots \ lost'.slots
                 PROVE \/ \E i \in DOMAIN wire' : wire'[i].kind = "slot" /\ wire'[i].slot = s
                       \/ panel'.slots[s] = IF s \in mb'.dirtySlots THEN mb'.slots[s] ELSE node'.slots[s]
      BY DEF SnapshotNotLost
    <2>1. CASE \E i \in DOMAIN wire : wire[i].kind = "slot" /\ wire[i].slot = s
      BY <1>3, <2>1
    <2>2. CASE panel.slots[s] = IF s \in mb.dirtySlots THEN mb.slots[s] ELSE node.slots[s]
      BY <1>1, <2>2
    <2> QED  BY <2>1, <2>2 DEF SnapshotInv, SnapshotNotLost
  <1>6. ~link' => wire' = <<>>  BY <1>1 DEF SnapshotInv
  <1> QED  BY <1>4, <1>5, <1>6 DEF SnapshotInv

\* A snapshot reaches the mailbox.
LEMMA SnapshotApplied ==
  ASSUME TypeOK, SnapshotInv, ApplySnapshot
  PROVE  SnapshotInv'
  <1> DEFINE e == Head(wire)
  <1>1. /\ wire # <<>> /\ wire' = Tail(wire) /\ wire \in Seq(Events)
        /\ UNCHANGED <<link, panel, node>> /\ e = wire[1] /\ e.kind = "slot"
    BY DEF ApplySnapshot, Receive, TypeOK, panelVars, serviceVars
  <1>2. /\ DOMAIN wire = 1..Len(wire) /\ Len(wire) \in Nat \ {0} /\ DOMAIN wire' = 1..(Len(wire) - 1)
        /\ \A i \in DOMAIN wire' : i + 1 \in DOMAIN wire /\ wire'[i] = wire[i + 1]
    BY <1>1
  <1>3. \A i \in DOMAIN wire : i # 1 => i - 1 \in DOMAIN wire' /\ wire'[i - 1] = wire[i]
    BY <1>1, <1>2
  <1>4. e \in SlotEvents
    <2>1. wire[1] \in Events  BY <1>1
    <2> QED  BY <1>1, <2>1 DEF Events, SlotEvents, FullEvents, DeltaEvents, OpsEvents
  <1>5. /\ mb'.slots = [mb.slots EXCEPT ![e.slot] = e.v] /\ mb'.dirtySlots = mb.dirtySlots \cup {e.slot}
        /\ lost'.slots = lost.slots \ {e.slot} /\ mb.slots \in [Slots -> Nat] /\ e.slot \in Slots
    BY <1>4 DEF ApplySnapshot, TypeOK, Mailboxes, SlotEvents
  <1>6. ASSUME NEW s \in Slots, NEW i \in UnderWay(s)', \A j \in UnderWay(s)' : j <= i
        PROVE  wire'[i].v = panel'.slots[s]
    <2>1. i + 1 \in UnderWay(s) /\ wire'[i] = wire[i + 1] /\ i \in Int /\ i >= 1  BY <1>2, <1>6 DEF UnderWay
    <2>2. \A j \in UnderWay(s) : j \in Int /\ (j # 1 => j - 1 \in UnderWay(s)')
      BY <1>2, <1>3 DEF UnderWay
    <2>3. \A j \in UnderWay(s) : j <= i + 1  BY <1>6, <2>1, <2>2
    <2> QED  BY <1>1, <2>1, <2>3 DEF SnapshotInv
  <1>7. ASSUME NEW s \in Slots \ lost'.slots, UnderWay(s)' = {}
        PROVE  panel'.slots[s] = IF s \in mb'.dirtySlots THEN mb'.slots[s] ELSE node'.slots[s]
    <2>1. \A i \in UnderWay(s) : i = 1  BY <1>2, <1>3, <1>7 DEF UnderWay
    <2>2. CASE e.slot = s
      <3>1. 1 \in UnderWay(s)  BY <1>1, <1>2, <2>2 DEF UnderWay
      <3>2. wire[1].v = panel.slots[s]  BY <2>1, <3>1 DEF SnapshotInv
      <3> QED  BY <1>1, <1>5, <2>2, <3>2
    <2>3. CASE e.slot # s
      <3>1. UnderWay(s) = {} /\ s \in Slots \ lost.slots
        BY <1>1, <1>5, <1>7, <2>1, <2>3 DEF UnderWay
      <3>2. panel.slots[s] = IF s \in mb.dirtySlots THEN mb.slots[s] ELSE node.slots[s]
        BY <3>1 DEF SnapshotInv, SnapshotNotLost, UnderWay
      <3> QED  BY <1>1, <1>5, <2>3, <3>2
    <2> QED  BY <2>2, <2>3
  <1>8. SnapshotNotLost'  BY <1>7 DEF SnapshotNotLost, UnderWay
  <1>9. ~link' => wire' = <<>>  BY <1>1 DEF SnapshotInv
  <1> QED  BY <1>6, <1>8, <1>9 DEF SnapshotInv

LEMMA SnapshotExternal == TypeOK /\ SnapshotInv /\ External => SnapshotInv'
  <1> SUFFICES ASSUME TypeOK, SnapshotInv, External PROVE SnapshotInv'  OBVIOUS
  <1>1. ASSUME NEW users \in Lists, FullList(users) PROVE SnapshotInv'
    <2> DEFINE e == [kind |-> "full", users |-> users]
    <2>1. e \in Events /\ e.kind # "slot"  BY DEF Events, FullEvents
    <2>2. panel'.slots = panel.slots  BY <1>1 DEF FullList, TypeOK
    <2>3. Tell(e)  BY <1>1 DEF FullList
    <2> HIDE DEF e
    <2> QED  BY <2>1, <2>2, <2>3, SnapshotTell
  <1>2. ASSUME NEW action \in Actions, NEW delta \in Lists, Delta(action, delta) PROVE SnapshotInv'
    <2> DEFINE e == [kind |-> "delta", action |-> action, users |-> delta]
    <2>1. e \in Events /\ e.kind # "slot"  BY DEF Events, DeltaEvents
    <2>2. panel'.slots = panel.slots  BY <1>2 DEF Delta, TypeOK
    <2>3. Tell(e)  BY <1>2 DEF Delta
    <2> HIDE DEF e
    <2> QED  BY <2>1, <2>2, <2>3, SnapshotTell
  <1>3. ASSUME NEW slot \in Slots, Snapshot(slot) PROVE SnapshotInv'
    <2> DEFINE e == [kind |-> "slot", slot |-> slot, v |-> panel.slots[slot] + 1]
    <2>1. panel.slots[slot] + 1 \in Nat  BY DEF TypeOK
    <2>2. e \in Events /\ e.kind = "slot" /\ e.slot = slot  BY <2>1 DEF Events, SlotEvents
    <2>3. panel'.slots[slot] = e.v /\ \A s \in Slots : s # slot => panel'.slots[s] = panel.slots[s]
      BY <1>3 DEF Snapshot, TypeOK
    <2>4. Tell(e)  BY <1>3 DEF Snapshot
    <2> HIDE DEF e
    <2> QED  BY <2>2, <2>3, <2>4, SnapshotTell
  <1>4. ASSUME Ask PROVE SnapshotInv'
    <2> DEFINE e == [kind |-> "ops", id |-> panel.asked + 1]
    <2>1. panel.asked + 1 \in Nat  BY DEF TypeOK
    <2>2. e \in Events /\ e.kind # "slot"  BY <2>1 DEF Events, OpsEvents
    <2>3. panel'.slots = panel.slots  BY <1>4 DEF Ask, TypeOK
    <2>4. Tell(e)  BY <1>4 DEF Ask
    <2> HIDE DEF e
    <2> QED  BY <2>2, <2>3, <2>4, SnapshotTell
  <1>5. ASSUME LinkDown PROVE SnapshotInv'
    <2>1. /\ wire' = <<>> /\ UNCHANGED <<panel, mb, node>> /\ lost' = LostWith(wire)
      BY <1>5 DEF LinkDown, serviceVars
    <2>2. lost'.slots = lost.slots \cup {wire[i].slot : i \in {j \in DOMAIN wire : wire[j].kind = "slot"}}
      BY <2>1 DEF LostWith
    <2>3. SnapshotNotLost'  BY <2>1, <2>2 DEF SnapshotInv, SnapshotNotLost
    <2> QED  BY <2>1, <2>3 DEF SnapshotInv, UnderWay
  <1>6. ASSUME LinkUp PROVE SnapshotInv'
    <2>1. UNCHANGED <<wire, panel, lost, mb, node>> /\ link'  BY <1>6 DEF LinkUp, serviceVars
    <2> QED  BY <2>1 DEF SnapshotInv, SnapshotNotLost, UnderWay
  <1> QED  BY <1>1, <1>2, <1>3, <1>4, <1>5, <1>6 DEF External

LEMMA SnapshotApply == TypeOK /\ SnapshotInv /\ (Apply \/ Notify) => SnapshotInv'
  <1> SUFFICES ASSUME TypeOK, SnapshotInv, Apply \/ Notify PROVE SnapshotInv'  OBVIOUS
  <1>0. mb \in Mailboxes /\ lost \in [users : BOOLEAN, slots : SUBSET Slots, ops : SUBSET Nat]
    BY DEF TypeOK
  <1>1. CASE ApplyUsers
    <2>1. mb'.dirtySlots = mb.dirtySlots /\ mb'.slots = mb.slots /\ lost'.slots = lost.slots
      BY <1>0, <1>1 DEF ApplyUsers, Mailboxes
    <2>2. Receive("full")  BY <1>1 DEF ApplyUsers
    <2> QED  BY <2>1, <2>2, SnapshotOther
  <1>2. CASE ApplyDelta
    <2>1. mb'.dirtySlots = mb.dirtySlots /\ mb'.slots = mb.slots /\ lost'.slots = lost.slots
      BY <1>0, <1>2 DEF ApplyDelta, Merged, Reconciled, Mailboxes
    <2>2. Receive("delta")  BY <1>2 DEF ApplyDelta
    <2> QED  BY <2>1, <2>2, SnapshotOther
  <1>3. CASE ApplyOps
    <2>1. mb'.dirtySlots = mb.dirtySlots /\ mb'.slots = mb.slots /\ lost'.slots = lost.slots
      BY <1>0, <1>3 DEF ApplyOps, Queued, Mailboxes
    <2>2. Receive("ops")  BY <1>3 DEF ApplyOps
    <2> QED  BY <2>1, <2>2, SnapshotOther
  <1>4. CASE Notify
    BY <1>4, SnapshotFrame DEF Notify, panelVars, serviceVars
  <1> QED  BY <1>1, <1>2, <1>3, <1>4, SnapshotApplied DEF Apply

LEMMA SnapshotService == TypeOK /\ SnapshotInv /\ Service => SnapshotInv'
  <1> SUFFICES ASSUME TypeOK, SnapshotInv, Service PROVE SnapshotInv'  OBVIOUS
  <1> USE DEF panelVars
  <1>0. mb \in Mailboxes /\ node \in Nodes  BY DEF TypeOK
  <1>1. CASE Boot
    <2>1. /\ UNCHANGED <<wire, link, panel, mb>> /\ node'.slots = node.slots
          /\ lost'.slots = lost.slots
      BY <1>0, <1>1 DEF Boot, Nodes, TypeOK
    <2> QED  BY <2>1 DEF SnapshotInv, SnapshotNotLost, UnderWay
  <1>2. CASE SeedBaseline
    <2>1. /\ UNCHANGED <<wire, link, panel, lost>> /\ node'.slots = node.slots
          /\ mb'.dirtySlots = mb.dirtySlots /\ mb'.slots = mb.slots
      BY <1>0, <1>2 DEF SeedBaseline, Seeded, Nodes, Mailboxes
    <2> QED  BY <2>1, SnapshotFrame
  <1>3. CASE MarkReady
    <2>1. /\ UNCHANGED <<wire, link, panel, lost>> /\ node'.slots = node.slots
          /\ mb'.dirtySlots = mb.dirtySlots /\ mb'.slots = mb.slots
      BY <1>0, <1>3 DEF MarkReady, Nodes, Mailboxes
    <2> QED  BY <2>1, SnapshotFrame
  <1>4. CASE DrainIfReady
    <2>1. /\ UNCHANGED <<wire, link, panel, lost>> /\ mb'.dirtySlots = {}
          /\ node'.slots = [s \in Slots |-> IF s \in mb.dirtySlots THEN mb.slots[s] ELSE node.slots[s]]
      BY <1>0, <1>4 DEF DrainIfReady, Drained, Handled, Nodes, Mailboxes
    <2>2. SnapshotNotLost'  BY <2>1 DEF SnapshotInv, SnapshotNotLost
    <2> QED  BY <2>1, <2>2 DEF SnapshotInv, UnderWay
  <1>5. CASE Wake \/ PullTick \/ Fetch \/ ApplyResult
    <2>1. UNCHANGED <<wire, link, panel, lost, mb>> /\ node'.slots = node.slots
      BY <1>0, <1>5 DEF Wake, PullTick, Fetch, ApplyResult, Nodes
    <2> QED  BY <2>1, SnapshotFrame
  <1> QED  BY <1>1, <1>2, <1>3, <1>4, <1>5 DEF Service

\* The newest snapshot of each kind is with the node, in the mailbox or on its
\* way, unless it was lost with the connection.
THEOREM SnapshotsArrive == Spec => []SnapshotNotLost
  <1>1. Init => SnapshotInv
    BY DEF Init, SnapshotInv, SnapshotNotLost, UnderWay
  <1>2. TypeOK /\ SnapshotInv /\ [Next]_vars => SnapshotInv'
    <2>1. TypeOK /\ SnapshotInv /\ UNCHANGED vars => SnapshotInv'
      BY SnapshotFrame DEF vars
    <2> QED  BY <2>1, SnapshotExternal, SnapshotApply, SnapshotService DEF Next
  <1>3. SnapshotInv => SnapshotNotLost  BY DEF SnapshotInv
  <1> QED  BY <1>1, <1>2, <1>3, TypeCorrect, PTL DEF Spec

-----------------------------------------------------------------------------
(* Operations                                                              *)

\* Nothing is handled, waiting or under way that was not asked for.
OpsInv ==
  /\ \A i \in DOMAIN Trail : Trail[i] <= panel.asked
  /\ \A i \in WireOps : wire[i].id <= panel.asked
  /\ OpsInOrder

LEMMA TrailType == TypeOK => Trail \in Seq(Nat) /\ \A i \in WireOps : wire[i].id \in Nat
  <1> SUFFICES ASSUME TypeOK PROVE Trail \in Seq(Nat) /\ \A i \in WireOps : wire[i].id \in Nat
    OBVIOUS
  <1>1. node.done \in Seq(Nat) /\ mb.ops \in Seq(Nat) /\ wire \in Seq(Events)
    BY DEF TypeOK, Nodes, Mailboxes
  <1>2. ASSUME NEW i \in WireOps PROVE wire[i].id \in Nat
    <2>1. wire[i] \in Events /\ wire[i].kind = "ops"  BY <1>1, <1>2 DEF WireOps
    <2> QED  BY <2>1 DEF Events, SlotEvents, FullEvents, DeltaEvents, OpsEvents
  <1> QED  BY <1>1, <1>2 DEF Trail

\* Steps that leave the operations where they are, on the wire as well.
LEMMA OpsStay ==
  ASSUME OpsInv, WireOps' = WireOps, \A i \in WireOps : wire'[i].id = wire[i].id,
         refused' = refused, Trail' = Trail, panel'.asked = panel.asked,
         lost.ops \subseteq lost'.ops
  PROVE  OpsInv'
  <1>1. /\ \A i \in DOMAIN Trail' : Trail'[i] <= panel'.asked
        /\ \A i \in WireOps' : wire'[i].id <= panel'.asked
    BY DEF OpsInv
  <1>2. /\ \A i, j \in DOMAIN Trail' : i < j => Trail'[i] < Trail'[j]
        /\ \A i \in DOMAIN Trail', j \in WireOps' : Trail'[i] < wire'[j].id
        /\ \A i, j \in WireOps' : i < j => wire'[i].id < wire'[j].id
    BY DEF OpsInv, OpsInOrder
  <1>3. ASSUME NEW n \in 1..panel'.asked
        PROVE  \/ n \in refused' \cup lost'.ops
               \/ \E i \in DOMAIN Trail' : Trail'[i] = n
               \/ \E i \in WireOps' : wire'[i].id = n
    <2>1. \/ n \in refused \cup lost.ops
          \/ \E i \in DOMAIN Trail : Trail[i] = n
          \/ \E i \in WireOps : wire[i].id = n
      BY <1>3 DEF OpsInv, OpsInOrder
    <2> QED  BY <2>1
  <1> QED  BY <1>1, <1>2, <1>3 DEF OpsInv, OpsInOrder

LEMMA OpsFrame ==
  ASSUME OpsInv, UNCHANGED <<wire, refused>>, Trail' = Trail, panel'.asked = panel.asked,
         lost.ops \subseteq lost'.ops
  PROVE  OpsInv'
  <1>1. WireOps' = WireOps  BY DEF WireOps
  <1> QED  BY <1>1, OpsStay

\* An event is told: an operation is the youngest of all.
LEMMA OpsTold ==
  ASSUME TypeOK, OpsInv, NEW e \in Events, Tell(e),
         \/ e.kind # "ops" /\ panel'.asked = panel.asked
         \/ e.kind = "ops" /\ e.id = panel.asked + 1 /\ panel'.asked = panel.asked + 1
  PROVE  OpsInv'
  <1>1. UNCHANGED <<refused, mb, node>> /\ Trail' = Trail  BY DEF Tell, serviceVars, Trail
  <1>2. panel.asked \in Nat /\ wire \in Seq(Events)  BY DEF TypeOK
  <1>3. CASE link
    <2>1. wire' = Append(wire, e) /\ lost' = lost  BY <1>3 DEF Tell
    <2>2. /\ DOMAIN wire' = 1..(Len(wire) + 1) /\ DOMAIN wire = 1..Len(wire) /\ Len(wire) \in Nat
          /\ \A i \in DOMAIN wire : wire'[i] = wire[i]
          /\ wire'[Len(wire) + 1] = e
      BY <1>2, <2>1
    <2>3. CASE e.kind # "ops" /\ panel'.asked = panel.asked
      <3>1. WireOps' = WireOps /\ \A i \in WireOps : wire'[i].id = wire[i].id
        <4>1. \A i \in DOMAIN wire : i \in DOMAIN wire' /\ wire'[i].kind = wire[i].kind
          BY <2>2
        <4>2. \A i \in DOMAIN wire' : i \in DOMAIN wire \/ i = Len(wire) + 1
          BY <2>2
        <4>3. wire'[Len(wire) + 1].kind # "ops"
          BY <2>2, <2>3
        <4>4. \A i \in WireOps : i \in DOMAIN wire  BY DEF WireOps
        <4>5. WireOps' = WireOps  BY <4>1, <4>2, <4>3 DEF WireOps
        <4>6. \A i \in DOMAIN wire : wire'[i].id = wire[i].id  BY <2>2
        <4> QED  BY <4>4, <4>5, <4>6
      <3> QED  BY <1>1, <2>1, <2>3, <3>1, OpsStay
    <2>4. CASE e.kind = "ops" /\ e.id = panel.asked + 1 /\ panel'.asked = panel.asked + 1
      <3> DEFINE n == Len(wire) + 1
      <3>1. /\ WireOps' = WireOps \cup {n} /\ wire'[n].id = panel.asked + 1
            /\ \A i \in WireOps : wire'[i].id = wire[i].id /\ i < n /\ i \in Nat
        BY <2>2, <2>4 DEF WireOps
      <3>2. /\ \A i \in DOMAIN Trail : Trail[i] \in Nat /\ Trail[i] <= panel.asked
            /\ \A i \in WireOps : wire[i].id \in Nat /\ wire[i].id <= panel.asked
        BY TrailType DEF OpsInv
      <3>3. /\ \A i \in DOMAIN Trail : Trail[i] <= panel'.asked
            /\ \A i \in WireOps' : wire'[i].id <= panel'.asked
        BY <1>2, <2>4, <3>1, <3>2
      <3>4. /\ \A i, j \in DOMAIN Trail : i < j => Trail[i] < Trail[j]
            /\ \A i \in DOMAIN Trail, j \in WireOps : Trail[i] < wire[j].id
            /\ \A i, j \in WireOps : i < j => wire[i].id < wire[j].id
        BY DEF OpsInv, OpsInOrder
      <3>5. \A i \in DOMAIN Trail, j \in WireOps' : Trail[i] < wire'[j].id
        BY <1>2, <3>1, <3>2, <3>4
      <3>6. \A i, j \in WireOps' : i < j => wire'[i].id < wire'[j].id
        BY <1>2, <2>2, <3>1, <3>2, <3>4
      <3>7. ASSUME NEW k \in 1..panel'.asked
            PROVE  \/ k \in refused' \cup lost'.ops
                   \/ \E i \in DOMAIN Trail' : Trail'[i] = k
                   \/ \E i \in WireOps' : wire'[i].id = k
        <4>1. CASE k = panel.asked + 1  BY <3>1, <4>1
        <4>2. CASE k # panel.asked + 1
          <5>1. k \in 1..panel.asked  BY <1>2, <2>4, <4>2
          <5> QED  BY <1>1, <2>1, <3>1, <5>1 DEF OpsInv, OpsInOrder
        <4> QED  BY <4>1, <4>2
      <3> QED  BY <1>1, <3>3, <3>4, <3>5, <3>6, <3>7 DEF OpsInv, OpsInOrder
    <2> QED  BY <2>3, <2>4
  <1>4. CASE ~link
    <2>1. wire' = wire /\ lost' = LostWith(<<e>>)  BY <1>4 DEF Tell
    <2>2. lost.ops \subseteq lost'.ops /\ (e.kind = "ops" => e.id \in lost'.ops)
      <3>1. <<e>>[1] = e /\ DOMAIN <<e>> = {1}  OBVIOUS
      <3>2. lost'.ops = lost.ops \cup {<<e>>[i].id : i \in {j \in DOMAIN <<e>> : <<e>>[j].kind = "ops"}}
        BY <2>1 DEF LostWith
      <3> QED  BY <3>1, <3>2
    <2>3. CASE e.kind # "ops" /\ panel'.asked = panel.asked
      BY <1>1, <2>1, <2>2, <2>3, OpsFrame
    <2>4. CASE e.kind = "ops" /\ e.id = panel.asked + 1 /\ panel'.asked = panel.asked + 1
      <3>1. WireOps' = WireOps  BY <2>1 DEF WireOps
      <3>2. /\ \A i \in DOMAIN Trail : Trail[i] \in Nat /\ Trail[i] <= panel.asked
            /\ \A i \in WireOps : wire[i].id \in Nat /\ wire[i].id <= panel.asked
        BY TrailType DEF OpsInv
      <3>3. /\ \A i \in DOMAIN Trail : Trail[i] <= panel'.asked
            /\ \A i \in WireOps : wire[i].id <= panel'.asked
        BY <1>2, <2>4, <3>2
      <3>4. ASSUME NEW k \in 1..panel'.asked
            PROVE  \/ k \in refused' \cup lost'.ops
                   \/ \E i \in DOMAIN Trail : Trail[i] = k
                   \/ \E i \in WireOps : wire[i].id = k
        <4>1. CASE k = panel.asked + 1  BY <2>2, <2>4, <4>1
        <4>2. CASE k # panel.asked + 1
          <5>1. k \in 1..panel.asked  BY <1>2, <2>4, <4>2
          <5> QED  BY <1>1, <2>2, <5>1 DEF OpsInv, OpsInOrder
        <4> QED  BY <4>1, <4>2
      <3> QED  BY <1>1, <2>1, <3>1, <3>3, <3>4 DEF OpsInv, OpsInOrder
    <2> QED  BY <2>3, <2>4
  <1> QED  BY <1>3, <1>4

\* Taking the oldest event off the connection.
LEMMA Taken ==
  ASSUME TypeOK, NEW kind, Receive(kind)
  PROVE  /\ wire[1].kind = kind /\ 1 \in DOMAIN wire /\ Head(wire) = wire[1]
         /\ \A i \in WireOps' : i + 1 \in WireOps /\ wire'[i] = wire[i + 1] /\ i \in Nat
         /\ \A i \in WireOps : i \in Nat /\ i >= 1 /\ (i # 1 => i - 1 \in WireOps' /\ wire'[i - 1] = wire[i])
  <1>1. wire # <<>> /\ wire' = Tail(wire) /\ wire[1].kind = kind /\ wire \in Seq(Events) /\ Head(wire) = wire[1]
    BY DEF Receive, TypeOK
  <1>2. /\ DOMAIN wire = 1..Len(wire) /\ Len(wire) \in Nat \ {0} /\ DOMAIN wire' = 1..(Len(wire) - 1)
        /\ \A i \in DOMAIN wire' : i + 1 \in DOMAIN wire /\ wire'[i] = wire[i + 1]
    BY <1>1
  <1>3. ASSUME NEW i \in DOMAIN wire, i # 1
        PROVE  i - 1 \in DOMAIN wire' /\ wire'[i - 1] = wire[i]
    <2>1. i - 1 \in DOMAIN wire' /\ (i - 1) + 1 = i  BY <1>2, <1>3
    <2> QED  BY <1>2, <2>1
  <1>4. \A i \in WireOps' : i + 1 \in WireOps /\ wire'[i] = wire[i + 1] /\ i \in Nat
    BY <1>2 DEF WireOps
  <1>5. ASSUME NEW i \in WireOps
        PROVE  i \in Nat /\ i >= 1 /\ (i # 1 => i - 1 \in WireOps' /\ wire'[i - 1] = wire[i])
    <2>1. i \in DOMAIN wire /\ wire[i].kind = "ops"  BY <1>5 DEF WireOps
    <2>2. i # 1 => i - 1 \in DOMAIN wire' /\ wire'[i - 1] = wire[i]  BY <1>3, <2>1
    <2> QED  BY <1>2, <2>1, <2>2 DEF WireOps
  <1>6. 1 \in DOMAIN wire  BY <1>2
  <1> HIDE DEF WireOps
  <1> QED  BY <1>1, <1>4, <1>5, <1>6

\* Another kind of event is taken off the connection.
LEMMA OpsOther ==
  ASSUME TypeOK, OpsInv, NEW kind, kind # "ops", Receive(kind),
         Trail' = Trail, lost'.ops = lost.ops, refused' = refused
  PROVE  OpsInv'
  <1>1. panel' = panel  BY DEF Receive, panelVars
  <1>2. \A i \in WireOps : i # 1  BY Taken DEF WireOps
  <1>3. /\ \A i \in WireOps' : i + 1 \in WireOps /\ wire'[i] = wire[i + 1] /\ i \in Nat
        /\ \A i \in WireOps : i - 1 \in WireOps' /\ wire'[i - 1] = wire[i]
    BY <1>2, Taken
  <1>4. /\ \A i \in DOMAIN Trail, j \in WireOps' : Trail[i] < wire'[j].id
        /\ \A i \in WireOps' : wire'[i].id <= panel.asked
    BY <1>3 DEF OpsInv, OpsInOrder
  <1>5. ASSUME NEW i \in WireOps', NEW j \in WireOps', i < j PROVE wire'[i].id < wire'[j].id
    <2>1. i + 1 \in WireOps /\ j + 1 \in WireOps /\ i + 1 < j + 1  BY <1>3, <1>5
    <2> QED  BY <1>3, <2>1 DEF OpsInv, OpsInOrder
  <1>6. \A n : (\E i \in WireOps : wire[i].id = n) => \E i \in WireOps' : wire'[i].id = n
    BY <1>3
  <1> QED  BY <1>1, <1>4, <1>5, <1>6 DEF OpsInv, OpsInOrder

\* An operation moves from the connection to the mailbox, or is refused.
LEMMA OpsApplied ==
  ASSUME TypeOK, OpsInv, ApplyOps
  PROVE  OpsInv'
  <1> DEFINE x == wire[1].id
  <1>1. /\ Receive("ops") /\ UNCHANGED <<panel, node, lost>> /\ mb.ops \in Seq(Nat) /\ node.done \in Seq(Nat)
        /\ mb \in Mailboxes
    BY DEF ApplyOps, Receive, panelVars, serviceVars, TypeOK, Mailboxes, Nodes
  <1>2. 1 \in WireOps /\ x \in Nat /\ Head(wire) = wire[1] /\ Trail \in Seq(Nat)
    BY <1>1, Taken, TrailType DEF WireOps
  <1>3. \A i \in WireOps' : i + 1 \in WireOps /\ wire'[i] = wire[i + 1] /\ i \in Nat /\ i >= 1
    <2>1. \A i \in WireOps' : i + 1 \in WireOps /\ wire'[i] = wire[i + 1] /\ i \in Nat
      BY <1>1, Taken
    <2>2. \A i \in WireOps' : i \in DOMAIN wire'  BY DEF WireOps
    <2>3. wire' \in Seq(Events)  BY <1>1 DEF Receive, TypeOK
    <2> QED  BY <2>1, <2>2, <2>3
  <1>4. \A i \in WireOps : i \in Nat /\ (i # 1 => i - 1 \in WireOps' /\ wire'[i - 1] = wire[i])
    BY <1>1, Taken
  <1>5. \A i \in WireOps' : x < wire'[i].id /\ wire'[i].id <= panel.asked
    BY <1>2, <1>3 DEF OpsInv, OpsInOrder
  <1>6. \A i \in DOMAIN Trail, j \in WireOps' : Trail[i] < wire'[j].id
    BY <1>3 DEF OpsInv, OpsInOrder
  <1>7. ASSUME NEW i \in WireOps', NEW j \in WireOps', i < j PROVE wire'[i].id < wire'[j].id
    <2>1. i + 1 \in WireOps /\ j + 1 \in WireOps /\ i + 1 < j + 1  BY <1>3, <1>7
    <2> QED  BY <1>3, <2>1 DEF OpsInv, OpsInOrder
  <1>8. \A n : (\E i \in WireOps : wire[i].id = n) => n = x \/ \E i \in WireOps' : wire'[i].id = n
    BY <1>4
  <1>9. CASE HasRoom
    <2>1. mb'.ops = Append(mb.ops, x) /\ refused' = refused
      BY <1>1, <1>2, <1>9 DEF ApplyOps, Queued, Mailboxes
    <2>2. Trail' = Append(Trail, x)
      <3>1. Trail' = node.done \o Append(mb.ops, x)  BY <1>1, <2>1 DEF Trail
      <3>2. node.done \o Append(mb.ops, x) = Append(node.done \o mb.ops, x)
        <4>1. ASSUME NEW s \in Seq(Nat), NEW t \in Seq(Nat), NEW n \in Nat
              PROVE  s \o Append(t, n) = Append(s \o t, n)
          OBVIOUS
        <4> QED  BY <1>1, <1>2, <4>1
      <3> QED  BY <3>1, <3>2 DEF Trail
    <2>3. /\ DOMAIN Trail' = DOMAIN Trail \cup {Len(Trail) + 1} /\ Trail'[Len(Trail) + 1] = x
          /\ \A i \in DOMAIN Trail : Trail'[i] = Trail[i] /\ i < Len(Trail) + 1 /\ i \in Nat
      BY <1>2, <2>2
    <2>4. \A i \in DOMAIN Trail : Trail[i] < x /\ Trail[i] <= panel.asked
      BY <1>2 DEF OpsInv, OpsInOrder
    <2>5. x <= panel.asked  BY <1>2 DEF OpsInv
    <2>6. \A i, j \in DOMAIN Trail' : i < j => Trail'[i] < Trail'[j]
      BY <1>2, <2>3, <2>4 DEF OpsInv, OpsInOrder
    <2>7. \A i \in DOMAIN Trail' : Trail'[i] <= panel'.asked
      BY <1>1, <2>3, <2>4, <2>5
    <2>8. \A i \in DOMAIN Trail', j \in WireOps' : Trail'[i] < wire'[j].id
      BY <1>5, <1>6, <2>3
    <2>9. \A n \in 1..panel.asked : \/ n \in refused' \cup lost'.ops
                                    \/ \E i \in DOMAIN Trail' : Trail'[i] = n
                                    \/ \E i \in WireOps' : wire'[i].id = n
      BY <1>1, <1>8, <2>1, <2>3 DEF OpsInv, OpsInOrder
    <2>10. \A i \in WireOps' : wire'[i].id <= panel'.asked  BY <1>1, <1>5
    <2>11. panel'.asked = panel.asked  BY <1>1
    <2> QED  BY <1>7, <2>6, <2>7, <2>8, <2>9, <2>10, <2>11 DEF OpsInv, OpsInOrder
  <1>10. CASE ~HasRoom
    <2>1. mb' = mb /\ refused' = refused \cup {x}  BY <1>2, <1>10 DEF ApplyOps
    <2>2. Trail' = Trail  BY <1>1, <2>1 DEF Trail
    <2>3. \A n \in 1..panel.asked : \/ n \in refused' \cup lost'.ops
                                    \/ \E i \in DOMAIN Trail : Trail[i] = n
                                    \/ \E i \in WireOps' : wire'[i].id = n
      BY <1>1, <1>8, <2>1 DEF OpsInv, OpsInOrder
    <2> QED  BY <1>1, <1>5, <1>6, <1>7, <2>2, <2>3 DEF OpsInv, OpsInOrder
  <1> QED  BY <1>9, <1>10

LEMMA OpsExternal == TypeOK /\ OpsInv /\ External => OpsInv'
  <1> SUFFICES ASSUME TypeOK, OpsInv, External PROVE OpsInv'  OBVIOUS
  <1>1. ASSUME NEW users \in Lists, FullList(users) PROVE OpsInv'
    <2> DEFINE e == [kind |-> "full", users |-> users]
    <2>1. e \in Events /\ e.kind # "ops"  BY DEF Events, FullEvents
    <2>2. panel'.asked = panel.asked  BY <1>1 DEF FullList, TypeOK
    <2>3. Tell(e)  BY <1>1 DEF FullList
    <2> HIDE DEF e
    <2> QED  BY <2>1, <2>2, <2>3, OpsTold
  <1>2. ASSUME NEW action \in Actions, NEW delta \in Lists, Delta(action, delta) PROVE OpsInv'
    <2> DEFINE e == [kind |-> "delta", action |-> action, users |-> delta]
    <2>1. e \in Events /\ e.kind # "ops"  BY DEF Events, DeltaEvents
    <2>2. panel'.asked = panel.asked  BY <1>2 DEF Delta, TypeOK
    <2>3. Tell(e)  BY <1>2 DEF Delta
    <2> HIDE DEF e
    <2> QED  BY <2>1, <2>2, <2>3, OpsTold
  <1>3. ASSUME NEW slot \in Slots, Snapshot(slot) PROVE OpsInv'
    <2> DEFINE e == [kind |-> "slot", slot |-> slot, v |-> panel.slots[slot] + 1]
    <2>1. panel.slots[slot] + 1 \in Nat  BY DEF TypeOK
    <2>2. e \in Events /\ e.kind # "ops"  BY <2>1 DEF Events, SlotEvents
    <2>3. panel'.asked = panel.asked  BY <1>3 DEF Snapshot, TypeOK
    <2>4. Tell(e)  BY <1>3 DEF Snapshot
    <2> HIDE DEF e
    <2> QED  BY <2>2, <2>3, <2>4, OpsTold
  <1>4. ASSUME Ask PROVE OpsInv'
    <2> DEFINE e == [kind |-> "ops", id |-> panel.asked + 1]
    <2>1. panel.asked + 1 \in Nat  BY DEF TypeOK
    <2>2. e \in Events /\ e.kind = "ops" /\ e.id = panel.asked + 1
      BY <2>1 DEF Events, OpsEvents
    <2>3. panel'.asked = panel.asked + 1  BY <1>4 DEF Ask, TypeOK
    <2>4. Tell(e)  BY <1>4 DEF Ask
    <2> HIDE DEF e
    <2> QED  BY <2>2, <2>3, <2>4, OpsTold
  <1>5. ASSUME LinkDown PROVE OpsInv'
    <2>1. wire' = <<>> /\ UNCHANGED <<panel, mb, node, refused>> /\ lost' = LostWith(wire)
      BY <1>5 DEF LinkDown, serviceVars
    <2>2. /\ lost.ops \subseteq lost'.ops /\ \A i \in WireOps : wire[i].id \in lost'.ops
      BY <2>1 DEF LostWith, WireOps
    <2>3. WireOps' = {} /\ Trail' = Trail  BY <2>1 DEF WireOps, Trail
    <2> QED  BY <2>1, <2>2, <2>3 DEF OpsInv, OpsInOrder
  <1>6. ASSUME LinkUp PROVE OpsInv'
    BY <1>6, OpsFrame DEF LinkUp, serviceVars, Trail
  <1> QED  BY <1>1, <1>2, <1>3, <1>4, <1>5, <1>6 DEF External

LEMMA OpsApply == TypeOK /\ OpsInv /\ (Apply \/ Notify) => OpsInv'
  <1> SUFFICES ASSUME TypeOK, OpsInv, Apply \/ Notify PROVE OpsInv'  OBVIOUS
  <1>0. mb \in Mailboxes /\ lost \in [users : BOOLEAN, slots : SUBSET Slots, ops : SUBSET Nat]
    BY DEF TypeOK
  <1>1. CASE ApplySnapshot
    <2>1. mb'.ops = mb.ops /\ lost'.ops = lost.ops /\ node' = node /\ refused' = refused
      BY <1>0, <1>1 DEF ApplySnapshot, Receive, serviceVars, Mailboxes
    <2>2. Receive("slot") /\ Trail' = Trail  BY <1>1, <2>1 DEF ApplySnapshot, Trail
    <2> QED  BY <2>1, <2>2, OpsOther
  <1>2. CASE ApplyUsers
    <2>1. mb'.ops = mb.ops /\ lost'.ops = lost.ops /\ node' = node /\ refused' = refused
      BY <1>0, <1>2 DEF ApplyUsers, Receive, serviceVars, Mailboxes
    <2>2. Receive("full") /\ Trail' = Trail  BY <1>2, <2>1 DEF ApplyUsers, Trail
    <2> QED  BY <2>1, <2>2, OpsOther
  <1>3. CASE ApplyDelta
    <2>1. mb'.ops = mb.ops /\ lost'.ops = lost.ops /\ node' = node /\ refused' = refused
      BY <1>0, <1>3 DEF ApplyDelta, Merged, Reconciled, Receive, serviceVars, Mailboxes
    <2>2. Receive("delta") /\ Trail' = Trail  BY <1>3, <2>1 DEF ApplyDelta, Trail
    <2> QED  BY <2>1, <2>2, OpsOther
  <1>4. CASE Notify
    BY <1>4, OpsFrame DEF Notify, panelVars, serviceVars, Trail
  <1> QED  BY <1>1, <1>2, <1>3, <1>4, OpsApplied DEF Apply

LEMMA OpsService == TypeOK /\ OpsInv /\ Service => OpsInv'
  <1> SUFFICES ASSUME TypeOK, OpsInv, Service PROVE OpsInv'  OBVIOUS
  <1> USE DEF panelVars
  <1>0. mb \in Mailboxes /\ node \in Nodes /\ mb.ops \in Seq(Nat) /\ node.done \in Seq(Nat)
    BY DEF TypeOK, Mailboxes, Nodes
  <1>1. CASE Boot
    <2>1. UNCHANGED <<wire, panel, refused, mb>> /\ node'.done = node.done /\ lost'.ops = lost.ops
      <3>1. UNCHANGED <<wire, panel, refused, mb>> /\ node'.done = node.done
        BY <1>0, <1>1 DEF Boot, Nodes
      <3>2. lost'.ops = lost.ops  BY <1>1 DEF Boot, TypeOK
      <3> QED  BY <3>1, <3>2
    <2> QED  BY <2>1, OpsFrame DEF Trail
  <1>2. CASE SeedBaseline \/ MarkReady
    <2>1. UNCHANGED <<wire, panel, refused, lost>> /\ node'.done = node.done /\ mb'.ops = mb.ops
      <3>1. CASE SeedBaseline
        <4>1. UNCHANGED <<wire, panel, refused, lost>> /\ node'.done = node.done
          BY <1>0, <3>1 DEF SeedBaseline, Nodes
        <4>2. mb'.ops = mb.ops  BY <1>0, <3>1 DEF SeedBaseline, Seeded, Mailboxes
        <4> QED  BY <4>1, <4>2
      <3>2. CASE MarkReady
        <4>1. UNCHANGED <<wire, panel, refused, lost>> /\ node'.done = node.done
          BY <1>0, <3>2 DEF MarkReady, Nodes
        <4>2. mb'.ops = mb.ops  BY <1>0, <3>2 DEF MarkReady, Mailboxes
        <4> QED  BY <4>1, <4>2
      <3> QED  BY <1>2, <3>1, <3>2
    <2> QED  BY <2>1, OpsFrame DEF Trail
  <1>3. CASE DrainIfReady
    <2>1. UNCHANGED <<wire, panel, refused, lost>> /\ node'.done = node.done \o mb.ops /\ mb'.ops = <<>>
      BY <1>0, <1>3 DEF DrainIfReady, Drained, Handled, Nodes, Mailboxes
    <2>2. (node.done \o mb.ops) \o <<>> = node.done \o mb.ops  BY <1>0
    <2> QED  BY <2>1, <2>2, OpsFrame DEF Trail
  <1>4. CASE Wake \/ PullTick \/ Fetch \/ ApplyResult
    <2>1. UNCHANGED <<wire, panel, refused, lost, mb>> /\ node'.done = node.done
      BY <1>0, <1>4 DEF Wake, PullTick, Fetch, ApplyResult, Nodes
    <2> QED  BY <2>1, OpsFrame DEF Trail
  <1> QED  BY <1>1, <1>2, <1>3, <1>4 DEF Service

\* Operations are handled in order and at most once, and only refusal and the
\* connection lose them.
THEOREM OperationsInOrder == Spec => []OpsInOrder
  <1>1. Init => OpsInv
    <2> SUFFICES ASSUME Init PROVE OpsInv  OBVIOUS
    <2>1. Trail = <<>> /\ WireOps = {} /\ panel.asked = 0  BY DEF Init, Trail, WireOps
    <2> QED  BY <2>1 DEF OpsInv, OpsInOrder
  <1>2. TypeOK /\ OpsInv /\ [Next]_vars => OpsInv'
    <2>1. TypeOK /\ OpsInv /\ UNCHANGED vars => OpsInv'
      BY OpsFrame DEF vars, Trail
    <2> QED  BY <2>1, OpsExternal, OpsApply, OpsService DEF Next
  <1>3. OpsInv => OpsInOrder  BY DEF OpsInv
  <1> QED  BY <1>1, <1>2, <1>3, TypeCorrect, PTL DEF Spec

-----------------------------------------------------------------------------
(* The baseline                                                            *)

\* A delta of an unknown action may have changed anybody.
Unknown(e) == e.kind = "delta" /\ e.action = "other"
Touches(e, i) == Names(e, i) \/ Unknown(e)
Untouched(i) == \A k \in DOMAIN wire : ~Touches(wire[k], i)

\* The list u is right about every user whom no event under way touches.
RightAbout(u) == \A i \in Ids : Untouched(i) => u[i] = panel.users[i]

\* The inductive invariant: nothing is under way on a broken connection; the
\* last event that touches a user, if it names him, gives what the panel has;
\* and what the mailbox has, or is about to be seeded with, is right about all
\* the others.
BaseInv ==
  /\ ~link => wire = <<>>
  /\ \A i \in Ids, j \in DOMAIN wire :
       /\ Names(wire[j], i)
       /\ \A k \in DOMAIN wire : k > j => ~Touches(wire[k], i)
       => panel.users[i] = Given(wire[j], i)
  /\ mb.full /\ ~lost.users => RightAbout(mb.users)
  /\ node.phase = "fetched" /\ ~mb.full /\ ~lost.users => RightAbout(node.users)

\* A nonempty set of positions has a last one.
LEMMA LastOne ==
  ASSUME NEW n \in Nat, NEW S \in SUBSET (1..n), S # {}
  PROVE  Max(S) \in S /\ \A k \in S : k <= Max(S)
  <1> DEFINE D == {n - k : k \in S}
  <1>1. D # {} /\ D \subseteq Nat
    <2>1. \A k \in S : n - k \in Nat  OBVIOUS
    <2>2. PICK k \in S : TRUE  OBVIOUS
    <2> QED  BY <2>1, <2>2
  <1>2. PICK d \in D : \A y \in D : <<y, d>> \notin OpToRel(<, Nat)
    BY <1>1, NatLessThanWellFounded, WFMin
  <1>3. PICK m \in S : d = n - m  OBVIOUS
  <1>4. ASSUME NEW k \in S PROVE k <= m
    <2>1. n - k \in D /\ n - k \in Nat /\ d \in Nat  BY <1>1
    <2>2. ~(n - k < d)  BY <1>2, <2>1 DEF OpToRel
    <2> QED  BY <1>3, <2>2
  <1>5. \E x \in S : \A y \in S : x >= y  BY <1>4
  <1>6. Max(S) \in S /\ \A y \in S : Max(S) >= y  BY <1>5, Zenon DEF Max
  <1> QED  BY <1>6

\* The panel changes the list at most of the users that its event touches.
LEMMA BaseTold ==
  ASSUME TypeOK, BaseInv, NEW e \in Events, Tell(e), panel'.users \in Lists,
         \A i \in Ids : ~Touches(e, i) => panel'.users[i] = panel.users[i],
         \A i \in Ids : Names(e, i) => panel'.users[i] = Given(e, i),
         e.kind \notin {"full", "delta"} => panel'.users = panel.users
  PROVE  BaseInv'
  <1>1. UNCHANGED <<link, mb, node>> /\ wire \in Seq(Events)  BY DEF Tell, serviceVars, TypeOK
  <1>2. CASE link
    <2>1. wire' = Append(wire, e) /\ lost' = lost  BY <1>2 DEF Tell
    <2>2. /\ DOMAIN wire' = DOMAIN wire \cup {Len(wire) + 1} /\ wire'[Len(wire) + 1] = e
          /\ Len(wire) + 1 \in DOMAIN wire'
          /\ \A k \in DOMAIN wire : wire'[k] = wire[k] /\ k < Len(wire) + 1 /\ k \in Nat
      BY <1>1, <2>1
    <2>3. ASSUME NEW i \in Ids, Untouched(i)'
          PROVE  Untouched(i) /\ panel'.users[i] = panel.users[i]
      <3>1. ~Touches(wire'[Len(wire) + 1], i)  BY <2>2, <2>3 DEF Untouched
      <3>2. \A k \in DOMAIN wire : ~Touches(wire'[k], i)  BY <2>2, <2>3 DEF Untouched
      <3> QED  BY <2>2, <3>1, <3>2 DEF Untouched
    <2>4. \A u : RightAbout(u) => \A i \in Ids : Untouched(i)' => u[i] = panel'.users[i]
      BY <2>3 DEF RightAbout
    <2>5. ASSUME NEW i \in Ids, NEW j \in DOMAIN wire', Names(wire'[j], i),
                 \A k \in DOMAIN wire' : k > j => ~Touches(wire'[k], i)
          PROVE  panel'.users[i] = Given(wire'[j], i)
      <3>1. CASE j = Len(wire) + 1
        <4>1. wire'[j] = e  BY <2>2, <3>1
        <4> QED  BY <2>5, <4>1
      <3>2. CASE j # Len(wire) + 1
        <4>1. j \in DOMAIN wire /\ Len(wire) + 1 > j  BY <2>2, <3>2
        <4>2. ~Touches(e, i) /\ \A k \in DOMAIN wire : k > j => ~Touches(wire[k], i)
          BY <2>2, <2>5, <4>1
        <4>3. Names(wire[j], i)  BY <2>2, <2>5, <4>1
        <4>4. panel.users[i] = Given(wire[j], i)  BY <4>1, <4>2, <4>3 DEF BaseInv
        <4> QED  BY <2>2, <4>1, <4>2, <4>4
      <3> QED  BY <3>1, <3>2
    <2>6. (~link => wire = <<>>)'  BY <1>1, <1>2
    <2>7. (mb.full /\ ~lost.users => RightAbout(mb.users))'
      BY <1>1, <2>1, <2>4 DEF BaseInv, RightAbout
    <2>8. (node.phase = "fetched" /\ ~mb.full /\ ~lost.users => RightAbout(node.users))'
      BY <1>1, <2>1, <2>4 DEF BaseInv, RightAbout
    <2> QED  BY <2>5, <2>6, <2>7, <2>8 DEF BaseInv
  <1>3. CASE ~link
    <2>1. wire' = wire /\ wire = <<>> /\ lost' = LostWith(<<e>>)  BY <1>3 DEF Tell, BaseInv
    <2>2. lost.users \/ e.kind \in {"full", "delta"} => lost'.users
      <3>1. <<e>>[1] = e /\ 1 \in DOMAIN <<e>>  OBVIOUS
      <3> QED  BY <2>1, <3>1 DEF LostWith
    <2>3. ~lost'.users => ~lost.users /\ panel'.users = panel.users  BY <2>2
    <2>4. DOMAIN wire' = {}  BY <2>1
    <2>5. \A i : Untouched(i)' /\ Untouched(i)  BY <2>1, <2>4 DEF Untouched
    <2> QED  BY <1>1, <2>1, <2>3, <2>4, <2>5 DEF BaseInv, RightAbout
  <1> QED  BY <1>2, <1>3

\* Taking the oldest event off the connection.
LEMMA BaseTaken ==
  ASSUME TypeOK, BaseInv, NEW kind, Receive(kind)
  PROVE  /\ wire[1].kind = kind /\ Head(wire) = wire[1] /\ wire[1] \in Events
         /\ (~link => wire = <<>>)'
         /\ \A i \in Ids, j \in DOMAIN wire' :
              /\ Names(wire'[j], i)
              /\ \A k \in DOMAIN wire' : k > j => ~Touches(wire'[k], i)
              => panel'.users[i] = Given(wire'[j], i)
         /\ \A i \in Ids : Untouched(i)' /\ Names(wire[1], i) => panel.users[i] = Given(wire[1], i)
         /\ \A i \in Ids : Untouched(i)' /\ ~Touches(wire[1], i) => Untouched(i)
  <1>1. /\ wire # <<>> /\ wire' = Tail(wire) /\ wire[1].kind = kind /\ wire \in Seq(Events)
        /\ Head(wire) = wire[1] /\ UNCHANGED <<panel, link, node>>
    BY DEF Receive, TypeOK, panelVars, serviceVars
  <1>2. /\ DOMAIN wire = 1..Len(wire) /\ Len(wire) \in Nat \ {0} /\ DOMAIN wire' = 1..(Len(wire) - 1)
        /\ \A j \in DOMAIN wire' : j + 1 \in DOMAIN wire /\ wire'[j] = wire[j + 1]
        /\ 1 \in DOMAIN wire
    BY <1>1
  <1>3. ASSUME NEW k \in DOMAIN wire, k # 1
        PROVE  k - 1 \in DOMAIN wire' /\ wire'[k - 1] = wire[k] /\ k > 1
    <2>1. k - 1 \in DOMAIN wire' /\ (k - 1) + 1 = k /\ k > 1  BY <1>2, <1>3
    <2> QED  BY <1>2, <2>1
  <1>4. wire[1] \in Events  BY <1>1, <1>2
  <1>5. (~link => wire = <<>>)'
    <2>1. link  BY <1>1 DEF BaseInv
    <2> QED  BY <1>1, <2>1
  <1>6. ASSUME NEW i \in Ids, NEW j \in DOMAIN wire', Names(wire'[j], i),
               \A k \in DOMAIN wire' : k > j => ~Touches(wire'[k], i)
        PROVE  panel'.users[i] = Given(wire'[j], i)
    <2>1. j + 1 \in DOMAIN wire /\ wire'[j] = wire[j + 1] /\ j \in Nat  BY <1>2
    <2>2. ASSUME NEW k \in DOMAIN wire, k > j + 1 PROVE ~Touches(wire[k], i)
      <3>1. k # 1 /\ k - 1 > j  BY <1>2, <2>1, <2>2
      <3>2. k - 1 \in DOMAIN wire' /\ wire'[k - 1] = wire[k]  BY <1>3, <3>1
      <3>3. ~Touches(wire'[k - 1], i)  BY <1>6, <3>1, <3>2
      <3> QED  BY <3>2, <3>3
    <2>3. Names(wire[j + 1], i)  BY <1>6, <2>1
    <2>4. panel.users[i] = Given(wire[j + 1], i)  BY <2>1, <2>2, <2>3 DEF BaseInv
    <2> QED  BY <1>1, <2>1, <2>4
  <1>7. ASSUME NEW i \in Ids, Untouched(i)'
        PROVE  \A k \in DOMAIN wire : k # 1 => ~Touches(wire[k], i) /\ k > 1
    <2> SUFFICES ASSUME NEW k \in DOMAIN wire, k # 1 PROVE ~Touches(wire[k], i) /\ k > 1  OBVIOUS
    <2>1. k - 1 \in DOMAIN wire' /\ wire'[k - 1] = wire[k] /\ k > 1  BY <1>3
    <2>2. ~Touches(wire'[k - 1], i)  BY <1>7, <2>1 DEF Untouched
    <2> QED  BY <2>1, <2>2
  <1>8. \A i \in Ids : Untouched(i)' /\ Names(wire[1], i) => panel.users[i] = Given(wire[1], i)
    <2> SUFFICES ASSUME NEW i \in Ids, Untouched(i)', Names(wire[1], i)
                 PROVE  panel.users[i] = Given(wire[1], i)
      OBVIOUS
    <2>1. \A k \in DOMAIN wire : k > 1 => ~Touches(wire[k], i)
      <3>1. \A k \in DOMAIN wire : k > 1 => k # 1  BY <1>2
      <3> QED  BY <1>7, <3>1
    <2> QED  BY <1>2, <2>1 DEF BaseInv
  <1>9. \A i \in Ids : Untouched(i)' /\ ~Touches(wire[1], i) => Untouched(i)
    BY <1>7 DEF Untouched
  <1> QED  BY <1>1, <1>4, <1>5, <1>6, <1>8, <1>9

LEMMA BaseExternal == TypeOK /\ BaseInv /\ External => BaseInv'
  <1> SUFFICES ASSUME TypeOK, BaseInv, External PROVE BaseInv'  OBVIOUS
  <1>0. panel \in [users : Lists, slots : [Slots -> Nat], asked : Nat]  BY DEF TypeOK
  <1>1. ASSUME NEW users \in Lists, FullList(users) PROVE BaseInv'
    <2> DEFINE e == [kind |-> "full", users |-> users]
    <2>1. e \in Events  BY DEF Events, FullEvents
    <2>2. panel'.users = users  BY <1>0, <1>1 DEF FullList
    <2>3. Tell(e)  BY <1>1 DEF FullList
    <2>4. \A i \in Ids : Names(e, i) /\ Given(e, i) = users[i]  BY DEF Names, Given
    <2>5. e.kind = "full"  OBVIOUS
    <2> HIDE DEF e
    <2> QED  BY <2>1, <2>2, <2>3, <2>4, <2>5, BaseTold DEF Touches
  <1>2. ASSUME NEW action \in Actions, NEW delta \in Lists, Delta(action, delta) PROVE BaseInv'
    <2> DEFINE e == [kind |-> "delta", action |-> action, users |-> delta]
    <2>1. e \in Events  BY DEF Events, DeltaEvents
    <2>2. panel'.users = (IF action = "other" THEN delta ELSE After(panel.users, action, delta))
      BY <1>0, <1>2 DEF Delta
    <2>3. Tell(e)  BY <1>2 DEF Delta
    <2>4. panel'.users \in Lists  BY <1>0, <2>2, ListOperations
    <2>5. e.kind = "delta" /\ e.action = action /\ e.users = delta  OBVIOUS
    <2> HIDE DEF e
    <2>6. ASSUME NEW i \in Ids, ~Touches(e, i) PROVE panel'.users[i] = panel.users[i]
      <3>1. action # "other" /\ delta[i] = 0  BY <2>5, <2>6 DEF Touches, Names, Unknown
      <3>2. After(panel.users, action, delta)[i] = panel.users[i]  BY <3>1 DEF After
      <3> QED  BY <2>2, <3>1, <3>2
    <2>7. ASSUME NEW i \in Ids, Names(e, i) PROVE panel'.users[i] = Given(e, i)
      <3>1. action # "other" /\ delta[i] # 0  BY <2>5, <2>7 DEF Names
      <3>2. After(panel.users, action, delta)[i] = IF action = "add" THEN delta[i] ELSE 0
        BY <3>1 DEF After
      <3>3. action \in {"add", "remove"}  BY <3>1, MailboxAssumption
      <3>4. Given(e, i) = IF action = "remove" THEN 0 ELSE delta[i]  BY <2>5 DEF Given
      <3> QED  BY <2>2, <3>1, <3>2, <3>3, <3>4
    <2> QED  BY <2>1, <2>3, <2>4, <2>5, <2>6, <2>7, BaseTold
  <1>3. ASSUME NEW slot \in Slots, Snapshot(slot) PROVE BaseInv'
    <2> DEFINE e == [kind |-> "slot", slot |-> slot, v |-> panel.slots[slot] + 1]
    <2>1. panel.slots[slot] + 1 \in Nat  BY <1>0
    <2>2. e \in Events /\ e.kind = "slot"  BY <2>1 DEF Events, SlotEvents
    <2>3. panel'.users = panel.users  BY <1>0, <1>3 DEF Snapshot
    <2>4. Tell(e)  BY <1>3 DEF Snapshot
    <2> HIDE DEF e
    <2>5. \A i \in Ids : ~Names(e, i)  BY <2>2 DEF Names
    <2> QED  BY <1>0, <2>2, <2>3, <2>4, <2>5, BaseTold
  <1>4. ASSUME Ask PROVE BaseInv'
    <2> DEFINE e == [kind |-> "ops", id |-> panel.asked + 1]
    <2>1. panel.asked + 1 \in Nat  BY <1>0
    <2>2. e \in Events /\ e.kind = "ops"  BY <2>1 DEF Events, OpsEvents
    <2>3. panel'.users = panel.users  BY <1>0, <1>4 DEF Ask
    <2>4. Tell(e)  BY <1>4 DEF Ask
    <2> HIDE DEF e
    <2>5. \A i \in Ids : ~Names(e, i)  BY <2>2 DEF Names
    <2> QED  BY <1>0, <2>2, <2>3, <2>4, <2>5, BaseTold
  <1>5. ASSUME LinkDown PROVE BaseInv'
    <2>1. wire' = <<>> /\ UNCHANGED <<panel, mb, node>> /\ lost' = LostWith(wire)
      BY <1>5 DEF LinkDown, serviceVars
    <2>2. lost.users => lost'.users  BY <2>1 DEF LostWith
    <2>3. ~lost'.users => \A k \in DOMAIN wire : wire[k].kind \notin {"full", "delta"}
      BY <2>1 DEF LostWith
    <2>4. ~lost'.users => \A i : Untouched(i)
      BY <2>3 DEF Untouched, Touches, Names, Unknown
    <2>5. DOMAIN wire' = {}  BY <2>1
    <2> QED  BY <2>1, <2>2, <2>4, <2>5 DEF BaseInv, RightAbout
  <1>6. ASSUME LinkUp PROVE BaseInv'
    BY <1>6 DEF LinkUp, serviceVars, BaseInv, RightAbout, Untouched
  <1> QED  BY <1>1, <1>2, <1>3, <1>4, <1>5, <1>6 DEF External

LEMMA BaseApply == TypeOK /\ BaseInv /\ (Apply \/ Notify) => BaseInv'
  <1> SUFFICES ASSUME TypeOK, BaseInv, Apply \/ Notify PROVE BaseInv'  OBVIOUS
  <1>0. /\ mb \in Mailboxes /\ node \in Nodes
        /\ lost \in [users : BOOLEAN, slots : SUBSET Slots, ops : SUBSET Nat]
    BY DEF TypeOK
  <1>1. ASSUME NEW kind, kind \in {"slot", "ops"}, Receive(kind),
               mb'.full = mb.full, mb'.users = mb.users, lost'.users = lost.users
        PROVE  BaseInv'
    <2>1. UNCHANGED <<panel, link, node>>  BY <1>1 DEF Receive, panelVars, serviceVars
    <2>2. \A i \in Ids : ~Touches(wire[1], i)
      <3>1. wire[1].kind \in {"slot", "ops"}  BY <1>1, BaseTaken
      <3> QED  BY <3>1 DEF Touches, Names, Unknown
    <2>3. \A i \in Ids : Untouched(i)' => Untouched(i)  BY <1>1, <2>2, BaseTaken
    <2>4. \A u : RightAbout(u) => \A i \in Ids : Untouched(i)' => u[i] = panel'.users[i]
      BY <2>1, <2>3 DEF RightAbout
    <2>5. (mb.full /\ ~lost.users => RightAbout(mb.users))'
      BY <1>1, <2>4 DEF BaseInv, RightAbout
    <2>6. (node.phase = "fetched" /\ ~mb.full /\ ~lost.users => RightAbout(node.users))'
      BY <1>1, <2>1, <2>4 DEF BaseInv, RightAbout
    <2>7. /\ (~link => wire = <<>>)'
          /\ \A i \in Ids, j \in DOMAIN wire' :
               /\ Names(wire'[j], i)
               /\ \A k \in DOMAIN wire' : k > j => ~Touches(wire'[k], i)
               => panel'.users[i] = Given(wire'[j], i)
      BY <1>1, BaseTaken
    <2> QED  BY <2>5, <2>6, <2>7 DEF BaseInv
  <1>2. CASE ApplySnapshot
    <2>1. mb'.full = mb.full /\ mb'.users = mb.users /\ lost'.users = lost.users
      BY <1>0, <1>2 DEF ApplySnapshot, Mailboxes
    <2>2. Receive("slot")  BY <1>2 DEF ApplySnapshot
    <2> QED  BY <1>1, <2>1, <2>2
  <1>3. CASE ApplyOps
    <2>1. mb'.full = mb.full /\ mb'.users = mb.users /\ lost' = lost
      BY <1>0, <1>3 DEF ApplyOps, Queued, Mailboxes
    <2>2. Receive("ops")  BY <1>3 DEF ApplyOps
    <2> QED  BY <1>1, <2>1, <2>2
  <1>4. CASE ApplyUsers
    <2>1. Receive("full")  BY <1>4 DEF ApplyUsers
    <2>2. UNCHANGED <<panel, link, node>>  BY <2>1 DEF Receive, panelVars, serviceVars
    <2>3. mb'.full /\ mb'.users = wire[1].users
      BY <1>0, <1>4, <2>1, BaseTaken DEF ApplyUsers, Mailboxes
    <2>4. \A i \in Ids : Names(wire[1], i) /\ Given(wire[1], i) = wire[1].users[i]
      <3>1. wire[1].kind = "full"  BY <2>1, BaseTaken
      <3> QED  BY <3>1 DEF Names, Given
    <2>5. RightAbout(mb.users)'
      <3>1. \A i \in Ids : Untouched(i)' => panel.users[i] = Given(wire[1], i)
        BY <2>1, <2>4, BaseTaken
      <3> QED  BY <2>2, <2>3, <2>4, <3>1 DEF RightAbout
    <2>6. /\ (~link => wire = <<>>)'
          /\ \A i \in Ids, j \in DOMAIN wire' :
               /\ Names(wire'[j], i)
               /\ \A k \in DOMAIN wire' : k > j => ~Touches(wire'[k], i)
               => panel'.users[i] = Given(wire'[j], i)
      BY <2>1, BaseTaken
    <2> QED  BY <2>3, <2>5, <2>6 DEF BaseInv
  <1>5. CASE ApplyDelta
    <2> DEFINE e == wire[1]
    <2>1. Receive("delta")  BY <1>5 DEF ApplyDelta
    <2>2. UNCHANGED <<panel, link, node>>  BY <2>1 DEF Receive, panelVars, serviceVars
    <2>3. Head(wire) = e /\ e.kind = "delta" /\ e \in Events  BY <2>1, BaseTaken
    <2>4. e \in DeltaEvents
      BY <2>3 DEF Events, SlotEvents, FullEvents, DeltaEvents, OpsEvents
    <2>5. lost'.users = (lost.users \/ ~Follows(e))  BY <1>0, <1>5, <2>3 DEF ApplyDelta
    <2>6. CASE ~Follows(e)
      <3>1. lost'.users  BY <2>5, <2>6
      <3>2. /\ (~link => wire = <<>>)'
            /\ \A i \in Ids, j \in DOMAIN wire' :
                 /\ Names(wire'[j], i)
                 /\ \A k \in DOMAIN wire' : k > j => ~Touches(wire'[k], i)
                 => panel'.users[i] = Given(wire'[j], i)
        BY <2>1, BaseTaken
      <3> QED  BY <3>1, <3>2 DEF BaseInv
    <2>7. CASE Follows(e)
      <3>1. mb.full /\ e.action # "other"  BY <2>7 DEF Follows
      <3>2. mb' = Merged(e)  BY <1>5, <2>3, <2>7 DEF ApplyDelta
      <3>3. mb'.full /\ mb'.users = After(mb.users, e.action, e.users)
        BY <1>0, <3>1, <3>2 DEF Merged, Mailboxes
      <3>4. ASSUME ~lost'.users, NEW i \in Ids, Untouched(i)' PROVE mb'.users[i] = panel'.users[i]
        <4>1. mb'.users[i] = IF e.users[i] = 0 THEN mb.users[i]
                             ELSE IF e.action = "add" THEN e.users[i] ELSE 0
          BY <3>1, <3>3 DEF After
        <4>2. CASE e.users[i] = 0
          <5>1. ~Touches(e, i)  BY <2>3, <3>1, <4>2 DEF Touches, Names, Unknown
          <5>2. Untouched(i)  BY <2>1, <3>4, <5>1, BaseTaken
          <5>3. ~lost.users  BY <1>0, <2>5, <3>4
          <5>4. RightAbout(mb.users)  BY <3>1, <5>3 DEF BaseInv
          <5> QED  BY <2>2, <4>1, <4>2, <5>2, <5>4 DEF RightAbout
        <4>3. CASE e.users[i] # 0
          <5>1. Names(e, i)  BY <2>3, <3>1, <4>3 DEF Names
          <5>2. panel.users[i] = Given(e, i)  BY <2>1, <3>4, <5>1, BaseTaken
          <5>3. e.action \in {"add", "remove"}  BY <2>4, <3>1, MailboxAssumption DEF DeltaEvents
          <5>4. Given(e, i) = IF e.action = "remove" THEN 0 ELSE e.users[i]
            BY <2>3 DEF Given
          <5> QED  BY <2>2, <4>1, <4>3, <5>2, <5>3, <5>4
        <4> QED  BY <4>2, <4>3
      <3>5. (mb.full /\ ~lost.users => RightAbout(mb.users))'  BY <3>4 DEF RightAbout
      <3>6. /\ (~link => wire = <<>>)'
            /\ \A i \in Ids, j \in DOMAIN wire' :
                 /\ Names(wire'[j], i)
                 /\ \A k \in DOMAIN wire' : k > j => ~Touches(wire'[k], i)
                 => panel'.users[i] = Given(wire'[j], i)
        BY <2>1, BaseTaken
      <3> QED  BY <3>3, <3>5, <3>6 DEF BaseInv
    <2> QED  BY <2>6, <2>7
  <1>6. CASE Notify
    BY <1>6 DEF Notify, panelVars, serviceVars, BaseInv, RightAbout, Untouched
  <1> QED  BY <1>2, <1>3, <1>4, <1>5, <1>6 DEF Apply

LEMMA BaseService == TypeOK /\ BaseInv /\ Service => BaseInv'
  <1> SUFFICES ASSUME TypeOK, BaseInv, Service PROVE BaseInv'  OBVIOUS
  <1> USE DEF panelVars
  <1>0. /\ mb \in Mailboxes /\ node \in Nodes
        /\ lost \in [users : BOOLEAN, slots : SUBSET Slots, ops : SUBSET Nat]
    BY DEF TypeOK
  <1>1. UNCHANGED <<wire, link>> /\ panel'.users = panel.users
    BY DEF Service, Boot, SeedBaseline, MarkReady, Wake, DrainIfReady, PullTick, Fetch, ApplyResult
  <1>2. \A i : Untouched(i)' <=> Untouched(i)  BY <1>1 DEF Untouched
  <1>3. \A u : RightAbout(u) <=> \A i \in Ids : Untouched(i)' => u[i] = panel'.users[i]
    BY <1>1, <1>2 DEF RightAbout
  <1>4. /\ (~link => wire = <<>>)'
        /\ \A i \in Ids, j \in DOMAIN wire' :
             /\ Names(wire'[j], i)
             /\ \A k \in DOMAIN wire' : k > j => ~Touches(wire'[k], i)
             => panel'.users[i] = Given(wire'[j], i)
    BY <1>1 DEF BaseInv
  <1>5. CASE Boot
    <2>1. mb' = mb /\ node'.users = panel.users /\ (~lost'.users => ~lost.users \/ ~mb.full)
      BY <1>0, <1>5 DEF Boot, Nodes
    <2> QED  BY <1>1, <1>3, <1>4, <2>1 DEF BaseInv, RightAbout
  <1>6. CASE SeedBaseline
    <2>1. node.phase = "fetched" /\ lost' = lost /\ mb' = Seeded /\ node'.phase = "seeded"
      BY <1>0, <1>6 DEF SeedBaseline, Nodes
    <2>2. CASE Seeded = mb
      BY <1>3, <1>4, <2>1, <2>2 DEF BaseInv, RightAbout
    <2>3. CASE ~mb.full /\ Seeded = [mb EXCEPT !.users = node.users, !.nil = FALSE, !.full = TRUE]
      <3>1. mb'.users = node.users  BY <1>0, <2>1, <2>3 DEF Mailboxes
      <3> QED  BY <1>3, <1>4, <2>1, <2>3, <3>1 DEF BaseInv, RightAbout
    <2> QED  BY <2>2, <2>3 DEF Seeded
  <1>7. CASE MarkReady \/ DrainIfReady
    <2>1. mb'.full = mb.full /\ mb'.users = mb.users /\ lost' = lost /\ node'.phase # "fetched"
      BY <1>0, <1>7 DEF MarkReady, DrainIfReady, Drained, Handled, Mailboxes, Nodes
    <2> QED  BY <1>3, <1>4, <2>1 DEF BaseInv, RightAbout
  <1>8. CASE Wake \/ PullTick \/ Fetch \/ ApplyResult
    <2>1. mb' = mb /\ lost' = lost /\ (node'.phase = "fetched" => node' = node)
      BY <1>0, <1>8 DEF Wake, PullTick, Fetch, ApplyResult, Nodes
    <2> QED  BY <1>3, <1>4, <2>1 DEF BaseInv, RightAbout
  <1> QED  BY <1>5, <1>6, <1>7, <1>8 DEF Service

\* As long as no change of users is lost the mailbox's list, with the events
\* under way, is the panel's: through the REST snapshot that races with the first
\* pushes, the seeding of the mailbox, merged deltas and broken connections
\* (NodeMailbox.Apply and SeedBaseline in internal/controlplane).
THEOREM BaselineIsPanels == Spec => []BaselineAddsUp
  <1>1. Init => BaseInv
    <2> SUFFICES ASSUME Init PROVE BaseInv  OBVIOUS
    <2>1. link /\ wire = <<>> /\ ~mb.full /\ node.phase = "boot"  BY DEF Init
    <2>2. DOMAIN wire = {}  BY <2>1
    <2> QED  BY <2>1, <2>2 DEF BaseInv
  <1>2. TypeOK /\ BaseInv /\ [Next]_vars => BaseInv'
    <2>1. TypeOK /\ BaseInv /\ UNCHANGED vars => BaseInv'
      BY DEF vars, BaseInv, RightAbout, Untouched
    <2> QED  BY <2>1, BaseExternal, BaseApply, BaseService DEF Next
  <1>3. TypeOK /\ BaseInv => BaselineAddsUp
    <2> SUFFICES ASSUME TypeOK, BaseInv, mb.full, ~lost.users,
                        \A k \in DOMAIN wire : wire[k].kind = "delta" => wire[k].action # "other",
                        NEW i \in Ids
                 PROVE  panel.users[i] = IF {k \in DOMAIN wire : Names(wire[k], i)} = {}
                                         THEN mb.users[i]
                                         ELSE Given(wire[Max({k \in DOMAIN wire : Names(wire[k], i)})], i)
      BY DEF BaselineAddsUp
    <2> DEFINE S == {k \in DOMAIN wire : Names(wire[k], i)}
    <2>1. \A k \in DOMAIN wire : Touches(wire[k], i) => k \in S
      BY DEF Touches, Unknown
    <2>2. DOMAIN wire = 1..Len(wire) /\ Len(wire) \in Nat  BY DEF TypeOK
    <2>3. CASE S = {}
      <3>1. Untouched(i)  BY <2>1, <2>3 DEF Untouched
      <3>2. RightAbout(mb.users)  BY DEF BaseInv
      <3> QED  BY <2>3, <3>1, <3>2 DEF RightAbout
    <2>4. CASE S # {}
      <3>1. S \in SUBSET (1..Len(wire))  BY <2>2
      <3>2. \A k \in S : k \in DOMAIN wire /\ Names(wire[k], i)  OBVIOUS
      <3> DEFINE j == Max(S)
      <3> HIDE DEF S
      <3>3. j \in S /\ \A k \in S : k <= j  BY <2>2, <2>4, <3>1, LastOne
      <3>4. j \in DOMAIN wire /\ Names(wire[j], i)  BY <3>2, <3>3
      <3> HIDE DEF j
      <3>5. \A k \in DOMAIN wire : k > j => ~Touches(wire[k], i)
        BY <2>1, <2>2, <3>3, <3>4
      <3>6. panel.users[i] = Given(wire[j], i)  BY <3>4, <3>5 DEF BaseInv
      <3> QED  BY <2>4, <3>6 DEF S, j
    <2> QED  BY <2>3, <2>4
  <1> QED  BY <1>1, <1>2, <1>3, TypeCorrect, PTL DEF Spec
=============================================================================
