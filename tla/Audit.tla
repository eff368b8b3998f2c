-------------------------------- MODULE Audit --------------------------------
(***************************************************************************)
(* The access audit: internal/audit, attached to the sing-box kernel by    *)
(* internal/auditcoord.                                                    *)
(*                                                                         *)
(* Connection goroutines observe targets and queue those a rule matches;   *)
(* one goroutine pulls rules and flushes the queue in batches, whose fate  *)
(* it learns from an answer that may be lost.  An event is its number in   *)
(* the order of observation, a rule set the set of targets it matches.     *)
(***************************************************************************)
EXTENDS Integers, Sequences, FiniteSets

CONSTANTS Targets, RuleSets,
          ReportAll,      \* events are queued whether a rule matches or not
          Native,         \* TXBoard: events carry their identity
          BatchMax, QueueCap,
          MaxBatches,     \* maxBatchesPerFlush
          MaxEvents       \* bound: observations

AuditAssumption ==
  /\ RuleSets \subseteq SUBSET Targets /\ {ReportAll, Native} \subseteq BOOLEAN
  /\ {BatchMax, QueueCap, MaxBatches} \subseteq Nat \ {0} /\ MaxEvents \in Nat

VARIABLES panelRules, rules,  \* at the panel, and Reporter.rules
          queue,     \* Reporter.queue
          flush,     \* flushAll: batches left, and the batch in flight
          events,    \* observations queued or dropped
          dropped, reported,  \* the events the counters count
          received   \* the events the panel stored, one entry each time (history)

auditVars == <<panelRules, rules, queue, flush, events, dropped, reported, received>>

NoFlush == [left |-> 0, batch |-> << >>]

\* Nothing is matched before the first refresh.
Init ==
  /\ panelRules \in RuleSets /\ rules = {}
  /\ queue = << >> /\ flush = NoFlush /\ events = 0
  /\ dropped = {} /\ reported = {} /\ received = [e \in 1..MaxEvents |-> 0]

Elements(s) == {s[i] : i \in DOMAIN s}

\* ObserveWithTargetIP: a full queue drops the event.
Observe(t) ==
  /\ events < MaxEvents /\ (ReportAll \/ t \in rules)
  /\ events' = events + 1
  /\ IF Len(queue) < QueueCap
     THEN queue' = Append(queue, events') /\ UNCHANGED dropped
     ELSE dropped' = dropped \cup {events'} /\ UNCHANGED queue
  /\ UNCHANGED <<panelRules, rules, flush, reported, received>>

EditRules(r) ==
  /\ panelRules' = r
  /\ UNCHANGED <<rules, queue, flush, events, dropped, reported, received>>

\* A refresh that fails keeps the snapshot.
RefreshRules ==
  /\ flush = NoFlush
  /\ rules' = panelRules
  /\ UNCHANGED <<panelRules, queue, flush, events, dropped, reported, received>>

-----------------------------------------------------------------------------
(* flushAll and flushOnce                                                  *)

Taken == IF Len(queue) < BatchMax THEN Len(queue) ELSE BatchMax

\* A flush tick finds something to send, or the next round of one does.
Take ==
  /\ flush.batch = << >> /\ queue # << >>
  /\ flush' = [left |-> IF flush.left = 0 THEN MaxBatches ELSE flush.left, batch |-> SubSeq(queue, 1, Taken)]
  /\ queue' = SubSeq(queue, Taken + 1, Len(queue))
  /\ UNCHANGED <<panelRules, rules, events, dropped, reported, received>>

\* The queue is empty, or the time budget spent.
EndFlush ==
  /\ flush.left > 0 /\ flush.batch = << >>
  /\ flush' = NoFlush
  /\ UNCHANGED <<panelRules, rules, queue, events, dropped, reported, received>>

\* The panel stores a batch; native events it knows already it does not.
Stored(batch) ==
  [e \in 1..MaxEvents |->
     IF e \in Elements(batch) /\ ~(Native /\ received[e] > 0) THEN received[e] + 1 ELSE received[e]]

Delivered ==
  /\ flush.batch # << >>
  /\ received' = Stored(flush.batch)
  /\ reported' = reported \cup Elements(flush.batch)
  /\ flush' = [left |-> flush.left - 1, batch |-> << >>]
  /\ UNCHANGED <<panelRules, rules, queue, events, dropped>>

\* Mutant: a batch goes back whole, however full the queue.
RequeuedWhole(batch) == batch \o queue
\* requeue: before what came meanwhile; what has no room is dropped, oldest
\* first.
Requeued(batch) ==
  LET room == QueueCap - Len(queue)
      lost == IF room >= Len(batch) THEN 0 ELSE Len(batch) - room IN
    SubSeq(batch, lost + 1, Len(batch)) \o queue

Fails(stored) ==
  /\ flush.batch # << >>
  /\ received' = IF stored THEN Stored(flush.batch) ELSE received
  /\ queue' = Requeued(flush.batch)
  /\ dropped' = dropped \cup (Elements(flush.batch) \ Elements(queue'))
  /\ flush' = NoFlush
  /\ UNCHANGED <<panelRules, rules, events, reported>>

Next ==
  \/ \E t \in Targets : Observe(t)
  \/ \E r \in RuleSets : EditRules(r)
  \/ RefreshRules \/ Take \/ EndFlush \/ Delivered
  \/ \E stored \in BOOLEAN : Fails(stored)

Spec == Init /\ [][Next]_auditVars

-----------------------------------------------------------------------------
(* Properties                                                              *)

Waiting == flush.batch \o queue

\* Every observation is exactly one of waiting, reported and counted as
\* dropped, through failed batches that go back to a queue that has filled
\* meanwhile; they wait in the order of observation; the queue keeps its
\* bound; what is reported the panel has, under the native protocol once.
EventsAccounted ==
  /\ 1..events = Elements(Waiting) \cup reported \cup dropped
  /\ Elements(Waiting) \cap (reported \cup dropped) = {} /\ reported \cap dropped = {}
  /\ \A i, j \in DOMAIN Waiting : i < j => Waiting[i] < Waiting[j]
  /\ Len(queue) <= QueueCap
  /\ \A e \in 1..MaxEvents : (e \in reported => received[e] > 0) /\ (Native => received[e] <= 1)
=============================================================================
