-------------------------- MODULE Reporting_proofs --------------------------
(***************************************************************************)
(* Proofs about module Reporting, for all values of its constants.         *)
(***************************************************************************)
EXTENDS Reporting, TLAPS

\* What a step needs to keep the types: the tracker holds metered units only.
TypeInv == TypeOK /\ tracker <= used

\* The values that stand for "nothing" are well typed.
LEMMA NothingType == NoBatch \in Batches /\ Idle \in Calls
BY DEF NoBatch, Batches, Idle, Calls

\* A call in progress carries a batch and one of the three phases.
LEMMA CallType ==
  ASSUME NEW b \in Batches, NEW p \in {"idle", "ready", "sent"}
  PROVE  [batch |-> b, phase |-> p] \in Calls
BY DEF Calls

\* Launching a report keeps the type of the calls.
LEMMA LaunchType ==
  ASSUME calls \in [Callers -> Calls], NEW c \in Callers, NEW b \in Batches, Launch(c, b)
  PROVE  calls' \in [Callers -> Calls]
BY CallType DEF Launch

\* The tagged batch a fresh flush builds is a batch.
LEMMA FreshType ==
  ASSUME TypeInv, CanSeal
  PROVE  Fresh \in Batches /\ Fresh # NoBatch /\ Fresh.id = nextId
BY ReportingAssumption DEF TypeInv, TypeOK, CanSeal, Fresh, Batches, NoBatch

\* Where a caller goes when Report returns keeps the types.
LEMMA ReturnType ==
  ASSUME TypeInv, NEW c \in Callers, NEW ok \in BOOLEAN, Return(c, ok)
  PROVE  calls' \in [Callers -> Calls] /\ mode' \in Modes /\ skip' \in Nat
<1>1. calls' \in [Callers -> Calls]
  BY NothingType DEF TypeInv, TypeOK, Return
<1>2. mode' \in Modes
  BY DEF TypeInv, TypeOK, Return, Modes
<1>3. skip' \in Nat
  <2>1. Backoff(skip) \in Nat
    BY DEF TypeInv, TypeOK, Backoff
  <2> QED BY <2>1 DEF TypeInv, TypeOK, Return
<1> QED BY <1>1, <1>2, <1>3

\* The initial state is well typed.
LEMMA TypeInit ==
  ASSUME Init
  PROVE  TypeInv
<1> USE ReportingAssumption, NothingType DEF Init
<1>1. used \in 0..MaxUsed /\ tracker \in 0..MaxUsed /\ billed \in Nat /\ tracker <= used
  OBVIOUS
<1>2. pending \in [{"live", "old"} -> Batches]
  OBVIOUS
<1>3. disk \in Batches /\ afterLoss \in SUBSET Batches
  OBVIOUS
<1>4. skip \in Nat /\ hadPending \in BOOLEAN /\ mode \in Modes
  BY DEF Modes
<1>5. nextId \in 1..(MaxBatches + 1) /\ stops \in 0..MaxStops
  OBVIOUS
<1>6. calls \in [Callers -> Calls]
  OBVIOUS
<1>7. sent \in SUBSET (Batches \ {NoBatch}) /\ settled \in SUBSET (1..MaxBatches)
  OBVIOUS
<1> QED BY <1>1, <1>2, <1>3, <1>4, <1>5, <1>6, <1>7 DEF TypeInv, TypeOK

\* Every step keeps the types.
LEMMA TypeStep ==
  ASSUME TypeInv, [Next \/ Restart]_vars
  PROVE  TypeInv'
<1> USE ReportingAssumption
<1>1. CASE Track
  BY <1>1 DEF TypeInv, TypeOK, Track, spoolVars, panelVars
<1>2. CASE AsyncSkips
  BY <1>2 DEF TypeInv, TypeOK, AsyncSkips, spoolVars, panelVars
<1>3. CASE AsyncReplays \/ SyncReplays
  <2>1. calls' \in [Callers -> Calls]
    BY <1>3, LaunchType
       DEF TypeInv, TypeOK, AsyncReplays, SyncReplays, Replayed, Callers
  <2> QED
    BY <1>3, <2>1 DEF TypeInv, TypeOK, AsyncReplays, SyncReplays, SyncAdvance, Modes,
       spoolVars, panelVars
<1>4. CASE AsyncEmpty \/ SyncEmpty
  <2>1. calls' \in [Callers -> Calls]
    BY <1>4, LaunchType, NothingType DEF TypeInv, TypeOK, AsyncEmpty, SyncEmpty, Callers
  <2> QED
    BY <1>4, <2>1 DEF TypeInv, TypeOK, AsyncEmpty, SyncEmpty, SyncAdvance, Modes,
       spoolVars, panelVars
<1>5. CASE AsyncFresh \/ SyncFresh
  <2>1. Fresh \in Batches
    BY <1>5, FreshType DEF AsyncFresh, SyncFresh
  <2>2. calls' \in [Callers -> Calls]
    BY <1>5, <2>1, LaunchType DEF TypeInv, TypeOK, AsyncFresh, SyncFresh, Callers
  <2>3. /\ pending' \in [{"live", "old"} -> Batches]
        /\ disk' \in Batches /\ afterLoss' \in SUBSET Batches
    BY <1>5, <2>1 DEF TypeInv, TypeOK, AsyncFresh, SyncFresh, Seal, SaveOk
  <2>4. nextId' \in 1..(MaxBatches + 1)
    BY <1>5 DEF TypeInv, TypeOK, AsyncFresh, SyncFresh, CanSeal
  <2>5. tracker' \in 0..MaxUsed /\ used' \in 0..MaxUsed /\ tracker' <= used'
    BY <1>5 DEF TypeInv, TypeOK, AsyncFresh, SyncFresh, Flush
  <2>6. mode' \in Modes
    BY <1>5 DEF TypeInv, TypeOK, AsyncFresh, SyncFresh, SyncAdvance, Modes
  <2> QED
    BY <1>5, <2>2, <2>3, <2>4, <2>5, <2>6 DEF TypeInv, TypeOK, AsyncFresh, SyncFresh,
       panelVars
<1>6. CASE AsyncSaveFails \/ SyncSaveFails
  <2>1. Fresh \in Batches /\ NoBatch \in Batches
    BY <1>6, FreshType, NothingType DEF AsyncSaveFails, SyncSaveFails
  <2>2. disk' \in Batches /\ afterLoss' \in SUBSET Batches
    BY <1>6, <2>1 DEF TypeInv, TypeOK, AsyncSaveFails, SyncSaveFails, SaveFails, spoolVars
  <2>3. Backoff(skip) \in Nat
    BY DEF TypeInv, TypeOK, Backoff
  <2>4. nextId' \in 1..(MaxBatches + 1)
    BY <1>6 DEF TypeInv, TypeOK, AsyncSaveFails, SyncSaveFails, CanSeal
  <2>5. tracker' \in 0..MaxUsed /\ used' \in 0..MaxUsed /\ tracker' <= used'
    BY <1>6 DEF TypeInv, TypeOK, AsyncSaveFails, SyncSaveFails, Restore
  <2>6. mode' \in Modes
    BY <1>6 DEF TypeInv, TypeOK, AsyncSaveFails, SyncSaveFails, Modes
  <2> QED
    BY <1>6, <2>2, <2>3, <2>4, <2>5, <2>6 DEF TypeInv, TypeOK, AsyncSaveFails,
       SyncSaveFails, panelVars
<1>7. ASSUME NEW c \in Callers, Send(c) PROVE TypeInv'
  <2>1. calls' \in [Callers -> Calls] /\ calls[c].batch \in Batches
    BY <1>7 DEF TypeInv, TypeOK, Send, Calls
  <2> QED BY <1>7, <2>1 DEF TypeInv, TypeOK, Send, spoolVars, panelVars
<1>8. ASSUME NEW c \in Callers, AckClears(c) PROVE TypeInv'
  <2>1. pending' \in [{"live", "old"} -> Batches]
    BY <1>8, NothingType DEF TypeInv, TypeOK, AckClears
  <2>2. disk' \in Batches /\ afterLoss' \in SUBSET Batches
    BY <1>8, NothingType DEF AckClears, ClearOk
  <2>3. /\ calls' \in [Callers -> Calls] /\ mode' \in Modes /\ skip' \in Nat
    BY <1>8, ReturnType DEF AckClears
  <2> QED BY <1>8, <2>1, <2>2, <2>3 DEF TypeInv, TypeOK, AckClears, panelVars
<1>9. ASSUME NEW c \in Callers, AckClearFails(c) PROVE TypeInv'
  <2>1. disk' \in Batches /\ afterLoss' \in SUBSET Batches
    BY <1>9, NothingType DEF TypeInv, TypeOK, AckClearFails, ClearFails, spoolVars
  <2>2. /\ calls' \in [Callers -> Calls] /\ mode' \in Modes /\ skip' \in Nat
    BY <1>9, ReturnType DEF AckClearFails
  <2> QED BY <1>9, <2>1, <2>2 DEF TypeInv, TypeOK, AckClearFails, panelVars
<1>10. ASSUME NEW c \in Callers, AckIgnored(c) \/ ReportFails(c) PROVE TypeInv'
  <2>1. PICK ok \in BOOLEAN : Return(c, ok)
    BY <1>10 DEF AckIgnored, ReportFails
  <2>2. /\ calls' \in [Callers -> Calls] /\ mode' \in Modes /\ skip' \in Nat
    BY <2>1, ReturnType
  <2> QED
    BY <1>10, <2>2 DEF TypeInv, TypeOK, AckIgnored, ReportFails, spoolVars, panelVars
<1>11. ASSUME NEW b \in sent, PanelCommit(b) PROVE TypeInv'
  <2>1. b \in Batches /\ b # NoBatch
    BY DEF TypeInv, TypeOK
  <2>2. b.id \in 1..MaxBatches /\ b.n \in Nat
    BY <2>1 DEF Batches
  <2>3. settled' \in SUBSET (1..MaxBatches)
    BY <1>11, <2>2 DEF TypeInv, TypeOK, PanelCommit
  <2>4. billed \in Nat /\ billed' = billed + b.n
    BY <1>11 DEF TypeInv, TypeOK, PanelCommit
  <2>5. billed' \in Nat
    BY <2>2, <2>4
  <2> QED BY <1>11, <2>3, <2>5 DEF TypeInv, TypeOK, PanelCommit, spoolVars
<1>12. CASE Shutdown
  BY <1>12 DEF TypeInv, TypeOK, Shutdown, Modes, spoolVars, panelVars
<1>13. CASE ProcessEnds
  <2>1. calls' \in [Callers -> Calls] /\ pending' \in [{"live", "old"} -> Batches]
    BY <1>13, NothingType DEF ProcessEnds
  <2>2. disk' \in Batches /\ afterLoss' \in SUBSET Batches
    BY <1>13 DEF TypeInv, TypeOK, ProcessEnds
  <2>3. stops' \in 0..MaxStops
    BY <1>13 DEF TypeInv, TypeOK, ProcessEnds
  <2>4. /\ tracker' \in 0..MaxUsed /\ used' \in 0..MaxUsed /\ tracker' <= used'
        /\ skip' \in Nat
    <3>1. tracker' = 0 /\ skip' = 0 /\ used' = used
      BY <1>13 DEF ProcessEnds
    <3> QED BY <3>1 DEF TypeInv, TypeOK
  <2>6. hadPending' \in BOOLEAN /\ mode' \in Modes
    BY <1>13 DEF ProcessEnds, Modes
  <2>5. /\ nextId' \in 1..(MaxBatches + 1) /\ sent' \in SUBSET (Batches \ {NoBatch})
        /\ settled' \in SUBSET (1..MaxBatches) /\ billed' \in Nat
    BY <1>13 DEF TypeInv, TypeOK, ProcessEnds, panelVars
  <2> QED BY <2>1, <2>2, <2>3, <2>4, <2>5, <2>6 DEF TypeInv, TypeOK
<1>14. CASE Boot
  BY <1>14 DEF TypeInv, TypeOK, Boot, Loaded, Modes, spoolVars, panelVars
<1>15. CASE Restart
  <2>1. calls' \in [Callers -> Calls]
    BY <1>15, NothingType DEF TypeInv, TypeOK, Restart, Callers
  <2>2. pending' \in [{"live", "old"} -> Batches]
    BY <1>15 DEF TypeInv, TypeOK, Restart
  <2>3. /\ tracker' \in 0..MaxUsed /\ used' \in 0..MaxUsed /\ tracker' <= used'
        /\ skip' \in Nat
    <3>1. tracker' = 0 /\ skip' = 0 /\ used' = used
      BY <1>15 DEF Restart
    <3> QED BY <3>1 DEF TypeInv, TypeOK
  <2>6. hadPending' \in BOOLEAN /\ mode' \in Modes
    BY <1>15 DEF Restart, Modes
  <2>4. disk' \in Batches /\ afterLoss' \in SUBSET Batches /\ stops' \in 0..MaxStops
    BY <1>15 DEF TypeInv, TypeOK, Restart, spoolVars
  <2>5. /\ nextId' \in 1..(MaxBatches + 1) /\ sent' \in SUBSET (Batches \ {NoBatch})
        /\ settled' \in SUBSET (1..MaxBatches) /\ billed' \in Nat
    BY <1>15 DEF TypeInv, TypeOK, Restart, panelVars
  <2> QED BY <2>1, <2>2, <2>3, <2>4, <2>5, <2>6 DEF TypeInv, TypeOK
<1>16. CASE UNCHANGED vars
  BY <1>16 DEF TypeInv, TypeOK, vars, spoolVars, panelVars
<1> QED
  BY <1>1, <1>2, <1>3, <1>4, <1>5, <1>6, <1>7, <1>8, <1>9, <1>10, <1>11, <1>12,
     <1>13, <1>14, <1>15, <1>16 DEF Next, PushAsync, PushSync, Report

\* Type correctness of the reporting controller, with or without in-process
\* restarts: in particular no batch is tagged, saved or sent without traffic.
THEOREM TypeCorrect == ReloadSpec => []TypeOK
<1>1. Init => TypeInv
  BY TypeInit
<1>2. TypeInv /\ [Next \/ Restart]_vars => TypeInv'
  BY TypeStep
<1>3. TypeInv => TypeOK
  BY DEF TypeInv
<1> QED BY <1>1, <1>2, <1>3, PTL DEF ReloadSpec

\* The retry backoff skips at most one report tick, and a report is in progress
\* only when nothing is left to skip, with or without in-process restarts.
THEOREM BackoffIsShort == ReloadSpec => []BackoffIsOneTick
<1>1. Init => BackoffIsOneTick
  BY DEF Init, BackoffIsOneTick
<1>2. ASSUME TypeInv, BackoffIsOneTick, [Next \/ Restart]_vars
      PROVE  BackoffIsOneTick'
  <2> USE <1>2 DEF BackoffIsOneTick
  <2>1. skip \in Nat /\ calls \in [Callers -> Calls]
    BY DEF TypeInv, TypeOK
  <2>2. CASE AsyncSkips
    BY <2>1, <2>2 DEF AsyncSkips
  <2>3. CASE AsyncReplays \/ AsyncEmpty \/ AsyncFresh
    BY <2>1, <2>3 DEF AsyncReplays, AsyncEmpty, AsyncFresh
  <2>4. CASE AsyncSaveFails
    BY <2>4 DEF AsyncSaveFails, AsyncIdle, Backoff
  <2>5. CASE SyncReplays \/ SyncEmpty \/ SyncFresh
    BY <2>1, <2>5 DEF SyncReplays, SyncEmpty, SyncFresh, Launch, Callers
  <2>6. CASE \E c \in Callers : Send(c)
    BY <2>1, <2>6 DEF Send, Callers, Idle
  <2>7. ASSUME NEW c \in Callers, NEW ok \in BOOLEAN, Return(c, ok), calls[c] # Idle
        PROVE  BackoffIsOneTick'
    BY <2>1, <2>7 DEF Return, Backoff, Callers
  <2>8. CASE \E c \in Callers : AckClears(c) \/ AckClearFails(c) \/ AckIgnored(c)
                                \/ ReportFails(c)
    <3>1. PICK c \in Callers : \/ AckClears(c) \/ AckClearFails(c) \/ AckIgnored(c)
                               \/ ReportFails(c)
      BY <2>8
    <3>2. calls[c] # Idle
      <4>1. calls[c].phase # "idle"
        BY <3>1 DEF AckClears, AckClearFails, AckIgnored, ReportFails, Acked, Answered
      <4> QED BY <4>1 DEF Idle
    <3>3. Return(c, TRUE) \/ Return(c, FALSE)
      BY <3>1 DEF AckClears, AckClearFails, AckIgnored, ReportFails
    <3> QED BY <2>7, <3>2, <3>3
  <2>9. CASE Track \/ (\E b \in sent : PanelCommit(b)) \/ Shutdown \/ SyncSaveFails \/ Boot
             \/ vars' = vars
    BY <2>9 DEF Track, PanelCommit, Shutdown, SyncSaveFails, Boot, vars
  <2>10. CASE ProcessEnds \/ Restart
    BY <2>10 DEF ProcessEnds, Restart
  <2> QED
    BY <2>2, <2>3, <2>4, <2>5, <2>6, <2>8, <2>9, <2>10
       DEF Next, PushAsync, PushSync, Report
<1>3. ReloadSpec => []TypeInv
  BY TypeInit, TypeStep, PTL DEF ReloadSpec
<1> QED BY <1>1, <1>2, <1>3, PTL DEF ReloadSpec

-----------------------------------------------------------------------------
(* Exactly-once billing, in a deployment without in-process restarts.      *)
(* Each lemma below shows that one kind of step preserves IndInv.          *)

\* What the panel has not settled of a batch is between nothing and all.
LEMMA UnsettledType ==
  ASSUME TypeInv, NEW b \in Batches
  PROVE  Unsettled(b) \in Nat /\ Unsettled(b) <= b.n /\ b.n \in Nat
BY ReportingAssumption DEF TypeInv, TypeOK, Unsettled, Batches, NoBatch

\* Only NoBatch has no ID.
LEMMA IdZero ==
  ASSUME NEW b \in Batches
  PROVE  b.id \in Nat /\ (b.id = 0 <=> b = NoBatch)
BY ReportingAssumption DEF Batches, NoBatch

\* Nothing but the tracker and the used total, the backoff or the mode moves.
LEMMA QuietStep ==
  ASSUME TypeInv, IndInv, AsyncSkips \/ Shutdown \/ Track \/ UNCHANGED vars
  PROVE  IndInv'
<1>1. /\ UNCHANGED <<pending, disk, afterLoss, calls, nextId, sent, settled, billed>>
      /\ mode' = "down" => mode = "down" /\ tracker' = tracker
      /\ mode = "down" => mode' = "down"
  BY DEF AsyncSkips, Shutdown, Track, vars, spoolVars, panelVars
<1>2. \/ used' = used /\ tracker' = tracker
      \/ used' = used + 1 /\ tracker' = tracker + 1
  BY DEF AsyncSkips, Shutdown, Track, vars
<1>3. \A b : Unsettled(b)' = Unsettled(b)
  BY <1>1 DEF Unsettled
<1>4. Carrier' = Carrier
  BY <1>1 DEF Carrier
<1>5. IdsBelowNext' /\ PendingIsSaved' /\ CallsCarryPending' /\ SameTraffic'
  BY <1>1 DEF IndInv, IdsBelowNext, PendingIsSaved, CallsCarryPending, SameTraffic
<1>6. DiskShape' /\ DeliveredIsSpooled'
  BY <1>1, <1>4 DEF IndInv, DiskShape, DeliveredIsSpooled
<1>7. SurvivorsUnbilled'
  <2> SUFFICES ASSUME NEW b \in afterLoss PROVE billed + Unsettled(b) <= used'
    BY <1>1, <1>3 DEF SurvivorsUnbilled
  <2> QED
    BY <1>2, UnsettledType DEF IndInv, SurvivorsUnbilled, TypeInv, TypeOK
<1>8. NoDoubleBilling'
  <2>1. Unsettled(Carrier)' = Unsettled(Carrier) /\ billed' = billed
    BY <1>1, <1>3, <1>4
  <2>2. Carrier \in Batches
    BY DEF Carrier, TypeInv, TypeOK
  <2> QED
    BY <1>2, <2>1, <2>2, UnsettledType DEF IndInv, NoDoubleBilling, TypeInv, TypeOK
<1> QED BY <1>5, <1>6, <1>7, <1>8 DEF IndInv

\* A process that is down has no report in progress.
LEMMA BusyMeansUp ==
  ASSUME TypeInv, IndInv, NEW c \in Callers, calls[c].phase # "idle"
  PROVE  mode # "down"
BY DEF IndInv, DiskShape, Idle

\* Return leaves or enters no down mode.
LEMMA ReturnUp ==
  ASSUME mode # "down", NEW c \in Callers, NEW ok \in BOOLEAN, Return(c, ok)
  PROVE  mode' # "down"
BY DEF Return

\* Only the calls in progress (and the mode or the backoff) change.
LEMMA CallStep ==
  ASSUME TypeInv, IndInv, mode # "down", mode' # "down",
         UNCHANGED <<used, tracker, pending, spoolVars, nextId, sent, panelVars>>,
         calls'["orphan"] = Idle,
         \A c \in Callers : calls'[c].batch \in {calls[c].batch, pending["live"], NoBatch}
  PROVE  IndInv'
<1>1. UNCHANGED <<used, tracker, pending, disk, afterLoss, nextId, sent, settled, billed>>
  BY DEF spoolVars, panelVars
<1>2. \A b : Unsettled(b)' = Unsettled(b)
  BY <1>1 DEF Unsettled
<1>3. Carrier' = Carrier
  BY <1>1 DEF Carrier
<1>4. IdsBelowNext' /\ PendingIsSaved' /\ SameTraffic' /\ DiskShape'
  BY <1>1 DEF IndInv, IdsBelowNext, PendingIsSaved, SameTraffic, DiskShape
<1>5. CallsCarryPending'
  BY <1>1 DEF IndInv, CallsCarryPending
<1>6. DeliveredIsSpooled' /\ SurvivorsUnbilled' /\ NoDoubleBilling'
  BY <1>1, <1>2, <1>3 DEF IndInv, DeliveredIsSpooled, SurvivorsUnbilled, NoDoubleBilling
<1> QED BY <1>4, <1>5, <1>6 DEF IndInv

\* Replays, empty reports, reports that fail or have nothing to acknowledge.
LEMMA ReplayStep ==
  ASSUME TypeInv, IndInv,
         \/ AsyncReplays \/ SyncReplays \/ AsyncEmpty \/ SyncEmpty
         \/ \E c \in Callers : AckIgnored(c) \/ ReportFails(c)
  PROVE  IndInv'
<1>0. calls \in [Callers -> Calls] /\ calls["orphan"] = Idle
  BY DEF TypeInv, TypeOK, IndInv, CallsCarryPending
<1>1. CASE AsyncReplays \/ SyncReplays \/ AsyncEmpty \/ SyncEmpty
  <2>1. /\ mode # "down" /\ mode' # "down"
        /\ UNCHANGED <<used, tracker, pending, spoolVars, nextId, sent, panelVars>>
    BY <1>1 DEF AsyncReplays, SyncReplays, AsyncEmpty, SyncEmpty, AsyncIdle,
       SyncNextBatch, SyncAdvance
  <2>2. PICK c \in {"async", "sync"}, b \in {pending["live"], NoBatch} : Launch(c, b)
    BY <1>1 DEF AsyncReplays, SyncReplays, AsyncEmpty, SyncEmpty, Replayed
  <2>3. calls'["orphan"] = Idle
    BY <1>0, <2>2 DEF Launch, Callers
  <2>4. \A d \in Callers : calls'[d].batch \in {calls[d].batch, pending["live"], NoBatch}
    BY <1>0, <2>2 DEF Launch, Callers
  <2> QED BY <2>1, <2>3, <2>4, CallStep
<1>2. ASSUME NEW c \in Callers, AckIgnored(c) \/ ReportFails(c) PROVE IndInv'
  <2>1. calls[c].phase # "idle"
    BY <1>2 DEF AckIgnored, ReportFails, Acked, Answered
  <2>2. PICK ok \in BOOLEAN : Return(c, ok)
    BY <1>2 DEF AckIgnored, ReportFails
  <2>3. mode # "down" /\ mode' # "down"
    BY <2>1, <2>2, BusyMeansUp, ReturnUp
  <2>4. UNCHANGED <<used, tracker, pending, spoolVars, nextId, sent, panelVars>>
    BY <1>2 DEF AckIgnored, ReportFails
  <2>5. calls'["orphan"] = Idle
    BY <1>0, <2>2 DEF Return, Callers
  <2>6. \A d \in Callers : calls'[d].batch \in {calls[d].batch, pending["live"], NoBatch}
    BY <1>0, <2>2 DEF Return, Idle
  <2> QED BY <2>3, <2>4, <2>5, <2>6, CallStep
<1> QED BY <1>1, <1>2

\* The acknowledged batch is the pending one, it was delivered, and the panel
\* has committed it.
LEMMA AckedIsPending ==
  ASSUME TypeInv, IndInv, NEW c \in Callers, Acked(c), Matches(c)
  PROVE  /\ pending["live"] # NoBatch /\ pending["live"] \in sent
         /\ pending["live"].id \in settled
         /\ c # "orphan" /\ mode # "down" /\ calls[c].batch = pending["live"]
<1> DEFINE p == pending["live"]
<1>1. calls[c].phase = "sent" /\ calls[c].batch.id \in settled \cup {0}
  BY DEF Acked, Answered
<1>2. c # "orphan" /\ mode # "down"
  BY <1>1, BusyMeansUp DEF IndInv, CallsCarryPending, Idle
<1>3. calls[c].batch.id # 0 /\ p.id = calls[c].batch.id
  BY <1>2 DEF Matches, Owner
<1>4. p \in Batches /\ p # NoBatch /\ p.id \in settled
  BY <1>1, <1>3 DEF TypeInv, TypeOK, NoBatch
<1>5. PICK s \in sent : s.id = p.id
  BY <1>4 DEF IndInv, IdsBelowNext
<1>6. s = p
  BY <1>5 DEF IndInv, SameTraffic
<1>7. calls[c].batch # NoBatch
  BY <1>3 DEF NoBatch
<1>8. calls[c].batch = p
  <2>1. CASE calls[c].batch = p
    BY <2>1
  <2>2. CASE calls[c].batch \in sent
    BY <2>2, <1>3 DEF IndInv, SameTraffic
  <2> QED BY <2>1, <2>2, <1>7 DEF IndInv, CallsCarryPending
<1> QED BY <1>2, <1>4, <1>5, <1>6, <1>8

\* Return makes one caller idle and touches no other.
LEMMA ReturnCalls ==
  ASSUME TypeInv, NEW c \in Callers, NEW ok \in BOOLEAN, Return(c, ok),
         calls["orphan"] = Idle
  PROVE  /\ calls'["orphan"] = Idle
         /\ \A d \in Callers : calls'[d] = calls[d] \/ calls'[d].batch = NoBatch
BY DEF TypeInv, TypeOK, Return, Idle, Callers

\* The acknowledged batch is cleared from memory and disk.
LEMMA AckClearsStep ==
  ASSUME TypeInv, IndInv, NEW c \in Callers, AckClears(c)
  PROVE  IndInv'
<1> DEFINE p == pending["live"]
<1>1. /\ p # NoBatch /\ p \in sent /\ p.id \in settled
      /\ c # "orphan" /\ mode # "down"
  BY AckedIsPending DEF AckClears
<1>2. /\ pending'["live"] = NoBatch /\ disk' = NoBatch /\ afterLoss' = {NoBatch}
      /\ UNCHANGED <<used, tracker, nextId, sent, settled, billed>>
  BY <1>1 DEF AckClears, ClearOk, Owner, TypeInv, TypeOK, panelVars
<1>3. mode' # "down" /\ Return(c, TRUE)
  BY <1>1, ReturnUp DEF AckClears
<1>4. calls["orphan"] = Idle
  BY DEF IndInv, CallsCarryPending
<1>5. NoBatch.id = 0 /\ NoBatch.n = 0 /\ nextId \in Nat \ {0}
  BY DEF NoBatch, TypeInv, TypeOK
<1>6. \A b : Unsettled(b)' = Unsettled(b)
  BY <1>2 DEF Unsettled
<1>7. Unsettled(NoBatch) = 0 /\ Unsettled(p) = 0
  BY <1>1, <1>5 DEF Unsettled
<1>8. IdsBelowNext' /\ PendingIsSaved' /\ DiskShape'
  BY <1>2, <1>3, <1>5 DEF IndInv, IdsBelowNext, PendingIsSaved, DiskShape
<1>9. CallsCarryPending'
  <2>1. /\ calls'["orphan"] = Idle
        /\ \A d \in Callers : calls'[d] = calls[d] \/ calls'[d].batch = NoBatch
    BY <1>3, <1>4, ReturnCalls
  <2>2. \A d \in Callers :
          calls[d].batch # NoBatch => calls[d].batch \in sent /\ calls[d].batch.id \in settled
    BY <1>1 DEF IndInv, CallsCarryPending
  <2> QED BY <1>2, <2>1, <2>2 DEF CallsCarryPending
<1>10. SameTraffic'
  <2>1. sent \subseteq Batches \ {NoBatch}
    BY DEF TypeInv, TypeOK
  <2>2. \A b \in sent : b.id # 0
    BY <2>1, IdZero
  <2> QED BY <1>2, <1>5, <2>2 DEF IndInv, SameTraffic
<1>11. DeliveredIsSpooled'
  <2>1. \A b \in sent : b.id \in settled
    BY <1>1 DEF IndInv, DeliveredIsSpooled, Carrier
  <2> QED BY <1>2, <2>1 DEF DeliveredIsSpooled
<1>12. Carrier = p /\ Carrier' = NoBatch
  BY <1>1, <1>2, <1>3 DEF Carrier
<1>13. NoDoubleBilling'
  BY <1>2, <1>6, <1>7, <1>12 DEF IndInv, NoDoubleBilling
<1>14. SurvivorsUnbilled'
  <2>1. billed <= used
    BY <1>7, <1>12 DEF IndInv, NoDoubleBilling, TypeInv, TypeOK
  <2> QED BY <1>2, <1>6, <1>7, <2>1 DEF SurvivorsUnbilled, TypeInv, TypeOK
<1> QED BY <1>8, <1>9, <1>10, <1>11, <1>13, <1>14 DEF IndInv

\* A failed unlink or directory fsync keeps the committed batch pending.
LEMMA AckClearFailsStep ==
  ASSUME TypeInv, IndInv, NEW c \in Callers, AckClearFails(c)
  PROVE  IndInv'
<1> DEFINE p == pending["live"]
<1>1. /\ p # NoBatch /\ p \in sent /\ p.id \in settled
      /\ c # "orphan" /\ mode # "down"
  BY AckedIsPending DEF AckClearFails
<1>2. /\ UNCHANGED <<used, tracker, pending, nextId, sent, settled, billed>>
      /\ disk' \in afterLoss' /\ afterLoss' \subseteq afterLoss \cup {NoBatch}
  BY DEF AckClearFails, ClearFails, spoolVars, panelVars, IndInv, DiskShape
<1>3. mode' # "down" /\ Return(c, FALSE)
  BY <1>1, ReturnUp DEF AckClearFails
<1>5. NoBatch.id = 0 /\ NoBatch.n = 0 /\ nextId \in Nat \ {0}
  BY DEF NoBatch, TypeInv, TypeOK
<1>6. \A b : Unsettled(b)' = Unsettled(b)
  BY <1>2 DEF Unsettled
<1>7. Unsettled(NoBatch) = 0 /\ Unsettled(p) = 0
  BY <1>1, <1>5 DEF Unsettled
<1>8. IdsBelowNext' /\ PendingIsSaved' /\ DiskShape'
  BY <1>1, <1>2, <1>3, <1>5 DEF IndInv, IdsBelowNext, PendingIsSaved, DiskShape
<1>9. CallsCarryPending'
  <2>1. /\ calls'["orphan"] = Idle
        /\ \A d \in Callers : calls'[d] = calls[d] \/ calls'[d].batch = NoBatch
    BY <1>3, ReturnCalls DEF IndInv, CallsCarryPending
  <2> QED BY <1>2, <2>1 DEF IndInv, CallsCarryPending
<1>10. SameTraffic'
  <2>1. \A b \in sent \cup afterLoss \cup {p} : b \in Batches
    BY DEF TypeInv, TypeOK
  <2>2. \A b \in sent \cup afterLoss \cup {p} : b.id = 0 => b = NoBatch
    BY <2>1, IdZero
  <2>3. \A b \in (sent \cup afterLoss \cup {p})' :
           b \in sent \cup afterLoss \cup {p} \/ b = NoBatch
    BY <1>2
  <2> QED BY <1>5, <2>2, <2>3 DEF IndInv, SameTraffic
<1>11. DeliveredIsSpooled'
  <2>1. \A b \in sent : b.id \in settled
    BY <1>1 DEF IndInv, DeliveredIsSpooled, Carrier
  <2> QED BY <1>2, <2>1 DEF DeliveredIsSpooled
<1>12. Carrier = p /\ Carrier' = p
  BY <1>1, <1>2, <1>3 DEF Carrier
<1>13. NoDoubleBilling'
  BY <1>2, <1>6, <1>12 DEF IndInv, NoDoubleBilling
<1>14. SurvivorsUnbilled'
  <2>1. billed + Unsettled(NoBatch) <= used
    BY <1>7, <1>12 DEF IndInv, NoDoubleBilling, TypeInv, TypeOK
  <2> QED BY <1>2, <1>6, <2>1 DEF IndInv, SurvivorsUnbilled
<1> QED BY <1>8, <1>9, <1>10, <1>11, <1>13, <1>14 DEF IndInv

\* The request of a call leaves the process: what it carries is on disk.
LEMMA SendStep ==
  ASSUME TypeInv, IndInv, NEW c \in Callers, Send(c)
  PROVE  IndInv'
<1> DEFINE p == pending["live"]
           b == calls[c].batch
<1>1. c # "orphan" /\ mode # "down"
  BY BusyMeansUp DEF Send, IndInv, CallsCarryPending, Idle
<1>2. /\ UNCHANGED <<used, tracker, pending, disk, afterLoss, nextId, mode, settled, billed>>
      /\ sent' = sent \cup ({b} \ {NoBatch})
  BY DEF Send, spoolVars, panelVars
<1>3. b # NoBatch => b = p \/ (b \in sent /\ b.id \in settled)
  BY DEF IndInv, CallsCarryPending
<1>4. Carrier' = Carrier /\ Carrier = p /\ \A x : Unsettled(x)' = Unsettled(x)
  BY <1>1, <1>2 DEF Carrier, Unsettled
<1>5. IdsBelowNext'
  BY <1>2, <1>3 DEF IndInv, IdsBelowNext
<1>6. PendingIsSaved' /\ DiskShape'
  BY <1>1, <1>2 DEF IndInv, PendingIsSaved, DiskShape
<1>7. CallsCarryPending'
  <2>1. /\ calls'["orphan"] = calls["orphan"]
        /\ \A d \in Callers : calls'[d].batch = calls[d].batch
    BY <1>1 DEF Send, TypeInv, TypeOK, Calls, Callers
  <2> QED BY <1>2, <2>1 DEF IndInv, CallsCarryPending
<1>8. SameTraffic'
  BY <1>2, <1>3 DEF IndInv, SameTraffic
<1>9. DeliveredIsSpooled'
  BY <1>2, <1>3, <1>4 DEF IndInv, DeliveredIsSpooled, PendingIsSaved
<1>10. SurvivorsUnbilled' /\ NoDoubleBilling'
  BY <1>2, <1>4 DEF IndInv, SurvivorsUnbilled, NoDoubleBilling
<1> QED BY <1>5, <1>6, <1>7, <1>8, <1>9, <1>10 DEF IndInv

\* The panel commits a delivered batch: it was the one to be replayed.
LEMMA PanelCommitStep ==
  ASSUME TypeInv, IndInv, NEW b \in sent, PanelCommit(b)
  PROVE  IndInv'
<1>1. /\ Carrier = b /\ afterLoss = {b} /\ b.id \notin settled
      /\ b \in Batches /\ b # NoBatch
  BY DEF PanelCommit, IndInv, DeliveredIsSpooled, TypeInv, TypeOK
<1>2. /\ UNCHANGED <<used, tracker, pending, disk, afterLoss, nextId, mode, calls, sent>>
      /\ settled' = settled \cup {b.id} /\ billed' = billed + b.n
  BY DEF PanelCommit, spoolVars
<1>3. b.n \in Nat /\ billed \in Nat /\ tracker \in Nat /\ used \in Nat
  BY <1>1, UnsettledType DEF TypeInv, TypeOK
<1>4. Carrier' = b /\ Unsettled(b) = b.n /\ Unsettled(b)' = 0
  BY <1>1, <1>2 DEF Carrier, Unsettled
<1>5. IdsBelowNext'
  BY <1>2 DEF IndInv, IdsBelowNext
<1>6. PendingIsSaved' /\ CallsCarryPending' /\ DiskShape' /\ SameTraffic'
  BY <1>2 DEF IndInv, PendingIsSaved, CallsCarryPending, DiskShape, SameTraffic
<1>7. DeliveredIsSpooled'
  <2>1. \A a \in sent : a.id \notin settled => a = b
    BY <1>1 DEF IndInv, DeliveredIsSpooled
  <2> QED BY <1>2, <2>1 DEF DeliveredIsSpooled
<1>8. NoDoubleBilling'
  BY <1>1, <1>2, <1>3, <1>4 DEF IndInv, NoDoubleBilling
<1>9. SurvivorsUnbilled'
  <2>1. billed + b.n <= used
    BY <1>1, <1>4 DEF IndInv, SurvivorsUnbilled
  <2> QED BY <1>1, <1>2, <1>3, <1>4, <2>1 DEF SurvivorsUnbilled
<1> QED BY <1>5, <1>6, <1>7, <1>8, <1>9 DEF IndInv

\* A fresh ID is unknown to everything that carries one.
LEMMA FreshIsNew ==
  ASSUME TypeInv, IndInv, CanSeal
  PROVE  /\ Fresh.id \notin settled /\ Unsettled(Fresh) = tracker
         /\ \A b \in sent \cup afterLoss \cup {pending["live"]} : b.id # Fresh.id
<1>1. Fresh.id = nextId /\ Fresh.n = tracker /\ nextId \in Nat
  BY DEF Fresh, TypeInv, TypeOK
<1>2. \A i \in settled : i \in Nat
  BY DEF TypeInv, TypeOK
<1>3. \A b \in sent \cup afterLoss \cup {pending["live"]} : b.id \in Nat
  BY IdZero DEF TypeInv, TypeOK
<1>4. Fresh.id \notin settled
  BY <1>1, <1>2 DEF IndInv, IdsBelowNext
<1>5. \A b \in sent \cup afterLoss \cup {pending["live"]} : b.id # Fresh.id
  BY <1>1, <1>3 DEF IndInv, IdsBelowNext
<1> QED BY <1>1, <1>4, <1>5 DEF Unsettled

\* With no batch pending every delivered batch is committed.
LEMMA NothingOwed ==
  ASSUME TypeInv, IndInv, mode # "down", pending["live"] = NoBatch
  PROVE  /\ \A b \in sent : b.id \in settled
         /\ Unsettled(Carrier) = 0 /\ billed + tracker <= used
<1>1. Carrier = NoBatch
  BY DEF Carrier
<1>2. Unsettled(NoBatch) = 0
  BY DEF Unsettled, NoBatch
<1>3. \A b \in sent : b # NoBatch
  BY DEF TypeInv, TypeOK
<1> QED BY <1>1, <1>2, <1>3 DEF IndInv, DeliveredIsSpooled, NoDoubleBilling, TypeInv, TypeOK

\* A fresh batch is flushed, saved, remembered and launched.
LEMMA FreshStep ==
  ASSUME TypeInv, IndInv, AsyncFresh \/ SyncFresh
  PROVE  IndInv'
<1>1. CanSeal /\ mode # "down" /\ mode' # "down" /\ pending["live"] = NoBatch
  BY DEF AsyncFresh, SyncFresh, AsyncIdle, SyncNextBatch, SyncAdvance, CanSeal
<1>2. /\ tracker' = 0 /\ nextId' = nextId + 1 /\ pending'["live"] = Fresh
      /\ disk' = Fresh /\ afterLoss' = {Fresh}
      /\ UNCHANGED <<used, sent, settled, billed>>
  BY DEF AsyncFresh, SyncFresh, Flush, Seal, SaveOk, panelVars, TypeInv, TypeOK
<1>3. /\ Fresh \in Batches /\ Fresh # NoBatch /\ Fresh.id = nextId /\ nextId \in Nat
  BY <1>1, FreshType DEF TypeInv, TypeOK
<1>4. /\ Fresh.id \notin settled /\ Unsettled(Fresh) = tracker
      /\ \A b \in sent : b.id # Fresh.id
  BY <1>1, FreshIsNew
<1>5. /\ \A b \in sent : b.id \in settled
      /\ billed + tracker <= used
  BY <1>1, NothingOwed
<1>6. \A b : Unsettled(b)' = Unsettled(b)
  BY <1>2 DEF Unsettled
<1>7. IdsBelowNext'
  <2>1. \A i \in settled : i \in Nat /\ i < nextId
    BY DEF IndInv, IdsBelowNext, TypeInv, TypeOK
  <2>2. \A b \in sent : b.id \in Nat /\ b.id < nextId
    BY IdZero DEF IndInv, IdsBelowNext, TypeInv, TypeOK
  <2>3. \A b \in sent' \cup afterLoss' \cup {pending'["live"]} : b.id < nextId'
    BY <1>2, <1>3, <2>2
  <2>4. \A i \in settled' : i < nextId' /\ \E b \in sent' : b.id = i
    BY <1>2, <1>3, <2>1 DEF IndInv, IdsBelowNext
  <2> QED BY <2>3, <2>4 DEF IdsBelowNext
<1>8. PendingIsSaved' /\ DiskShape'
  BY <1>1, <1>2 DEF PendingIsSaved, DiskShape
<1>9. CallsCarryPending'
  <2>1. \A c \in Callers : calls[c].batch # NoBatch =>
          calls[c].batch \in sent /\ calls[c].batch.id \in settled
    BY <1>1 DEF IndInv, CallsCarryPending
  <2>2. PICK c \in {"async", "sync"} : Launch(c, Fresh)
    BY DEF AsyncFresh, SyncFresh
  <2>3. /\ calls'["orphan"] = Idle
        /\ \A d \in Callers : calls'[d].batch \in {calls[d].batch, Fresh}
    BY <2>2 DEF Launch, Callers, TypeInv, TypeOK, IndInv, CallsCarryPending
  <2> QED BY <1>2, <2>1, <2>3 DEF CallsCarryPending
<1>10. SameTraffic'
  BY <1>2, <1>4 DEF IndInv, SameTraffic
<1>11. DeliveredIsSpooled'
  BY <1>2, <1>5 DEF DeliveredIsSpooled
<1>12. Carrier' = Fresh
  BY <1>1, <1>2 DEF Carrier
<1>13. NoDoubleBilling'
  BY <1>2, <1>4, <1>5, <1>6, <1>12 DEF NoDoubleBilling, TypeInv, TypeOK
<1>14. SurvivorsUnbilled'
  BY <1>2, <1>4, <1>5, <1>6 DEF SurvivorsUnbilled
<1> QED BY <1>7, <1>8, <1>9, <1>10, <1>11, <1>13, <1>14 DEF IndInv

\* A save that fails, wherever it fails, leaves only unbilled units behind.
LEMMA SaveFailsStep ==
  ASSUME TypeInv, IndInv, AsyncSaveFails \/ SyncSaveFails
  PROVE  IndInv'
<1>1. CanSeal /\ mode # "down" /\ mode' # "down" /\ pending["live"] = NoBatch
  BY DEF AsyncSaveFails, SyncSaveFails, AsyncIdle, SyncNextBatch, CanSeal
<1>2. /\ tracker' \in {0, tracker} /\ nextId' = nextId + 1
      /\ disk' \in afterLoss' /\ afterLoss' \subseteq afterLoss \cup {Fresh, NoBatch}
      /\ UNCHANGED <<used, pending, calls, sent, settled, billed>>
  BY DEF AsyncSaveFails, SyncSaveFails, SaveFails, Restore, spoolVars, panelVars, IndInv, DiskShape
<1>3. /\ Fresh \in Batches /\ Fresh # NoBatch /\ Fresh.id = nextId /\ nextId \in Nat \ {0}
      /\ NoBatch.id = 0
  BY <1>1, FreshType DEF TypeInv, TypeOK, NoBatch
<1>4. /\ Fresh.id \notin settled /\ Unsettled(Fresh) = tracker /\ Unsettled(NoBatch) = 0
      /\ \A b \in sent \cup afterLoss \cup {pending["live"]} : b.id # Fresh.id
  BY <1>1, FreshIsNew DEF Unsettled, NoBatch
<1>5. /\ \A b \in sent : b.id \in settled
      /\ billed + tracker <= used
  BY <1>1, NothingOwed
<1>6. \A b : Unsettled(b)' = Unsettled(b)
  BY <1>2 DEF Unsettled
<1>7. IdsBelowNext'
  <2>1. \A i \in settled : i \in Nat /\ i < nextId
    BY DEF IndInv, IdsBelowNext, TypeInv, TypeOK
  <2>2. \A b \in sent \cup afterLoss \cup {pending["live"]} : b.id \in Nat /\ b.id < nextId
    BY IdZero DEF IndInv, IdsBelowNext, TypeInv, TypeOK
  <2>3. \A b \in sent' \cup afterLoss' \cup {pending'["live"]} : b.id < nextId'
    BY <1>2, <1>3, <2>2
  <2>4. \A i \in settled' : i < nextId' /\ \E b \in sent' : b.id = i
    BY <1>2, <1>3, <2>1 DEF IndInv, IdsBelowNext
  <2> QED BY <2>3, <2>4 DEF IdsBelowNext
<1>8. PendingIsSaved' /\ CallsCarryPending' /\ DiskShape'
  BY <1>1, <1>2 DEF IndInv, PendingIsSaved, CallsCarryPending, DiskShape
<1>9. SameTraffic'
  <2>1. \A b \in sent \cup afterLoss \cup {pending["live"]} : b.id = 0 => b = NoBatch
    BY IdZero DEF TypeInv, TypeOK
  <2> QED BY <1>2, <1>3, <1>4, <2>1 DEF IndInv, SameTraffic
<1>10. DeliveredIsSpooled'
  BY <1>2, <1>5 DEF DeliveredIsSpooled
<1>11. Carrier' = NoBatch
  BY <1>1, <1>2 DEF Carrier
<1>12. NoDoubleBilling'
  BY <1>2, <1>4, <1>5, <1>6, <1>11 DEF NoDoubleBilling, TypeInv, TypeOK
<1>13. SurvivorsUnbilled'
  BY <1>2, <1>4, <1>5, <1>6 DEF IndInv, SurvivorsUnbilled, TypeInv, TypeOK
<1> QED BY <1>7, <1>8, <1>9, <1>10, <1>12, <1>13 DEF IndInv

\* The process ends: the file is one of its possible contents.
LEMMA ProcessEndsStep ==
  ASSUME TypeInv, IndInv, ProcessEnds
  PROVE  IndInv'
<1>1. /\ mode' = "down" /\ disk' \in afterLoss /\ afterLoss' = {disk'} /\ tracker' = 0
      /\ pending'["live"] = NoBatch /\ \A c \in Callers : calls'[c] = Idle
      /\ UNCHANGED <<used, nextId, sent, settled, billed>>
  BY DEF ProcessEnds, panelVars
<1>2. NoBatch.id = 0 /\ nextId \in Nat \ {0}
  BY DEF NoBatch, TypeInv, TypeOK
<1>3. Carrier' = disk' /\ \A b : Unsettled(b)' = Unsettled(b)
  BY <1>1 DEF Carrier, Unsettled
<1>4. IdsBelowNext'
  BY <1>1, <1>2 DEF IndInv, IdsBelowNext
<1>5. PendingIsSaved' /\ CallsCarryPending' /\ DiskShape'
  BY <1>1 DEF PendingIsSaved, CallsCarryPending, DiskShape, Idle, Callers
<1>6. SameTraffic'
  <2>1. \A b \in sent \cup afterLoss : b.id = 0 => b = NoBatch
    BY IdZero DEF TypeInv, TypeOK
  <2> QED BY <1>1, <1>2, <2>1 DEF IndInv, SameTraffic
<1>7. DeliveredIsSpooled'
  BY <1>1, <1>3 DEF IndInv, DeliveredIsSpooled
<1>8. SurvivorsUnbilled'
  BY <1>1, <1>3 DEF IndInv, SurvivorsUnbilled
<1>9. NoDoubleBilling'
  <2>1. disk' \in Batches
    BY <1>1 DEF TypeInv, TypeOK
  <2>2. billed + Unsettled(disk') <= used /\ Unsettled(disk') \in Nat
    BY <1>1, <2>1, UnsettledType DEF IndInv, SurvivorsUnbilled
  <2> QED BY <1>1, <1>3, <2>2 DEF NoDoubleBilling, TypeInv, TypeOK
<1> QED BY <1>4, <1>5, <1>6, <1>7, <1>8, <1>9 DEF IndInv

\* A new process takes over the batch found on disk.
LEMMA BootStep ==
  ASSUME TypeInv, IndInv, Boot
  PROVE  IndInv'
<1>1. /\ mode = "down" /\ mode' = "run" /\ pending'["live"] = disk
      /\ UNCHANGED <<used, tracker, disk, afterLoss, calls, nextId, sent, settled, billed>>
  BY DEF Boot, Loaded, spoolVars, panelVars, TypeInv, TypeOK
<1>2. afterLoss = {disk} /\ tracker = 0 /\ \A c \in Callers : calls[c] = Idle
  BY <1>1 DEF IndInv, DiskShape
<1>3. Carrier = disk /\ Carrier' = disk /\ \A b : Unsettled(b)' = Unsettled(b)
  BY <1>1 DEF Carrier, Unsettled
<1>4. IdsBelowNext' /\ SameTraffic'
  BY <1>1, <1>2 DEF IndInv, IdsBelowNext, SameTraffic
<1>5. PendingIsSaved' /\ CallsCarryPending' /\ DiskShape'
  BY <1>1, <1>2 DEF PendingIsSaved, CallsCarryPending, DiskShape, Idle, Callers
<1>6. DeliveredIsSpooled' /\ SurvivorsUnbilled' /\ NoDoubleBilling'
  BY <1>1, <1>3 DEF IndInv, DeliveredIsSpooled, SurvivorsUnbilled, NoDoubleBilling
<1> QED BY <1>4, <1>5, <1>6 DEF IndInv

\* Initially there is nothing to account for.
LEMMA SafetyInit ==
  ASSUME Init
  PROVE  IndInv
<1>1. NoBatch.id = 0 /\ NoBatch.n = 0
  BY DEF NoBatch
<1>2. Carrier = NoBatch /\ Unsettled(NoBatch) = 0
  BY <1>1 DEF Init, Carrier, Unsettled
<1>3. calls = [c \in Callers |-> Idle] /\ pending["live"] = NoBatch
  BY DEF Init
<1>4. IdsBelowNext /\ PendingIsSaved /\ SameTraffic /\ DeliveredIsSpooled
  BY <1>1, <1>3 DEF Init, IdsBelowNext, PendingIsSaved, SameTraffic, DeliveredIsSpooled
<1>5. CallsCarryPending
  BY <1>3 DEF CallsCarryPending, Idle, Callers
<1>6. DiskShape /\ SurvivorsUnbilled /\ NoDoubleBilling
  BY <1>2 DEF Init, DiskShape, SurvivorsUnbilled, NoDoubleBilling
<1> QED BY <1>4, <1>5, <1>6 DEF IndInv

\* Every step of a deployment without in-process restarts preserves IndInv.
LEMMA SafetyStep ==
  ASSUME TypeInv, IndInv, [Next]_vars
  PROVE  IndInv'
<1>1. ASSUME NEW c \in Callers, Report(c) PROVE IndInv'
  BY <1>1, SendStep, AckClearsStep, AckClearFailsStep, ReplayStep DEF Report
<1>2. CASE PushAsync
  BY <1>2, QuietStep, ReplayStep, FreshStep, SaveFailsStep DEF PushAsync
<1>3. CASE PushSync
  BY <1>3, QuietStep, ReplayStep, FreshStep, SaveFailsStep DEF PushSync
<1>4. ASSUME NEW b \in sent, PanelCommit(b) PROVE IndInv'
  BY <1>4, PanelCommitStep
<1>5. CASE Track \/ UNCHANGED vars
  BY <1>5, QuietStep
<1>6. CASE ProcessEnds \/ Boot
  BY <1>6, ProcessEndsStep, BootStep
<1> QED BY <1>1, <1>2, <1>3, <1>4, <1>5, <1>6 DEF Next

\* The inductive invariant holds throughout.
LEMMA Invariance == Spec => [](TypeInv /\ IndInv)
<1>1. Init => TypeInv /\ IndInv
  BY TypeInit, SafetyInit
<1>2. TypeInv /\ IndInv /\ [Next]_vars => (TypeInv /\ IndInv)'
  BY TypeStep, SafetyStep
<1> QED BY <1>1, <1>2, PTL DEF Spec

\* Exactly-once accounting: whatever fails, is replayed, half saved, or lost
\* in a crash, the panel never bills a metered unit twice.
THEOREM BilledOnce == Spec => []NoDoubleBilling
<1>1. TypeInv /\ IndInv => NoDoubleBilling
  BY DEF IndInv
<1> QED BY <1>1, Invariance, PTL

\* A batch ID always stands for the same traffic, in memory, on the disk and at
\* the panel (nextBatch, batchSpool).
THEOREM BatchTrafficIsImmutable == Spec => []SameTraffic
<1>1. TypeInv /\ IndInv => SameTraffic
  BY DEF IndInv
<1> QED BY <1>1, Invariance, PTL

\* A delivered batch stays durably spooled until the panel has committed it,
\* and it is the one that will be replayed.
THEOREM DeliveredStaysSpooled == Spec => []DeliveredIsSpooled
<1>1. TypeInv /\ IndInv => DeliveredIsSpooled
  BY DEF IndInv
<1> QED BY <1>1, Invariance, PTL

-----------------------------------------------------------------------------
(* The controller implements the ledger.                                   *)

owed == Unsettled(Carrier)

\* Moments of a run at which nothing of the ledger moves.
LedgerStutter == UNCHANGED <<used, tracker, owed, billed>>

\* The service or its process stops: only the tracker is lost.
LedgerStop ==
  /\ StopStep
  /\ tracker' = 0 /\ UNCHANGED <<used, billed>>
  /\ owed' \in IF owed > 0 THEN {owed} ELSE 0..(used - billed)

\* The carrier has a well-typed unsettled rest.
LEMMA OwedType ==
  ASSUME TypeInv
  PROVE  owed \in Nat /\ used \in Nat /\ tracker \in Nat /\ billed \in Nat
<1>1. Carrier \in Batches
  BY DEF Carrier, TypeInv, TypeOK
<1> QED BY <1>1, UnsettledType DEF owed, TypeInv, TypeOK

\* Reports, answers and quiet steps do not move the ledger.
LEMMA StutterSteps ==
  ASSUME TypeInv, IndInv,
         \/ AsyncSkips \/ Shutdown \/ Boot \/ UNCHANGED vars \/ AsyncSaveFails
         \/ AsyncReplays \/ SyncReplays \/ AsyncEmpty \/ SyncEmpty
         \/ \E c \in Callers : Report(c)
  PROVE  LedgerStutter
<1>1. CASE \/ AsyncSkips \/ Shutdown \/ UNCHANGED vars \/ AsyncSaveFails
           \/ AsyncReplays \/ SyncReplays \/ AsyncEmpty \/ SyncEmpty
  <2>1. UNCHANGED <<used, tracker, billed, settled, pending>>
    BY <1>1 DEF AsyncSkips, Shutdown, vars, AsyncSaveFails, Restore, AsyncReplays,
       SyncReplays, AsyncEmpty, SyncEmpty, panelVars
  <2>2. mode' = mode \/ (mode # "down" /\ mode' # "down")
    BY <1>1 DEF AsyncSkips, Shutdown, vars, AsyncSaveFails, AsyncIdle, AsyncReplays,
       SyncReplays, AsyncEmpty, SyncEmpty, SyncNextBatch, SyncAdvance
  <2>3. mode = "down" => disk' = disk
    BY <1>1 DEF AsyncSkips, Shutdown, vars, AsyncSaveFails, AsyncIdle, AsyncReplays,
       SyncReplays, AsyncEmpty, SyncEmpty, SyncNextBatch, spoolVars
  <2>4. Carrier' = Carrier
    BY <2>1, <2>2, <2>3 DEF Carrier
  <2> QED BY <2>1, <2>4 DEF LedgerStutter, owed, Unsettled
<1>2. CASE Boot
  <2>1. /\ UNCHANGED <<used, tracker, billed, settled>> /\ mode = "down" /\ mode' = "run"
        /\ pending'["live"] = disk
    BY <1>2 DEF Boot, Loaded, panelVars, TypeInv, TypeOK
  <2>2. Carrier' = Carrier
    BY <2>1 DEF Carrier
  <2> QED BY <2>1, <2>2 DEF LedgerStutter, owed, Unsettled
<1>3. ASSUME NEW c \in Callers, Report(c) PROVE LedgerStutter
  <2>1. UNCHANGED <<used, tracker, billed, settled>>
    BY <1>3 DEF Report, Send, AckClears, AckClearFails, AckIgnored, ReportFails, panelVars
  <2>2. calls[c].phase # "idle" /\ mode # "down"
    <3>1. calls[c].phase # "idle"
      BY <1>3 DEF Report, Send, AckClears, AckClearFails, AckIgnored, ReportFails,
         Acked, Answered
    <3> QED BY <3>1, BusyMeansUp
  <2>3. mode' # "down"
    BY <1>3, <2>2, ReturnUp
       DEF Report, Send, AckClears, AckClearFails, AckIgnored, ReportFails
  <2>4. CASE AckClears(c)
    <3>1. pending["live"].id \in settled /\ c # "orphan"
      BY <2>4, AckedIsPending DEF AckClears
    <3>2. pending'["live"] = NoBatch
      BY <2>4, <3>1 DEF AckClears, Owner, TypeInv, TypeOK
    <3>3. Unsettled(pending["live"]) = 0 /\ Unsettled(NoBatch)' = 0
      BY <2>1, <3>1 DEF Unsettled, NoBatch
    <3> QED BY <2>1, <2>2, <2>3, <3>2, <3>3 DEF LedgerStutter, owed, Carrier, Unsettled
  <2>5. CASE ~AckClears(c)
    <3>1. pending' = pending
      BY <1>3, <2>5 DEF Report, Send, AckClearFails, AckIgnored, ReportFails
    <3> QED BY <2>1, <2>2, <2>3, <3>1 DEF LedgerStutter, owed, Carrier, Unsettled
  <2> QED BY <2>4, <2>5
<1> QED BY <1>1, <1>2, <1>3

\* A fresh batch seals the whole tracker.
LEMMA FreshSeals ==
  ASSUME TypeInv, IndInv, AsyncFresh \/ SyncFresh
  PROVE  /\ owed = 0 /\ tracker > 0 /\ owed' = tracker /\ tracker' = 0
         /\ UNCHANGED <<used, billed>>
<1>1. CanSeal /\ mode # "down" /\ mode' # "down" /\ pending["live"] = NoBatch
  BY DEF AsyncFresh, SyncFresh, AsyncIdle, SyncNextBatch, SyncAdvance, CanSeal
<1>2. /\ tracker' = 0 /\ pending'["live"] = Fresh /\ UNCHANGED <<used, settled, billed>>
  BY DEF AsyncFresh, SyncFresh, Flush, Seal, panelVars, TypeInv, TypeOK
<1>3. Unsettled(Fresh) = tracker /\ Unsettled(Carrier) = 0
  BY <1>1, FreshIsNew, NothingOwed
<1>4. Carrier' = Fresh
  BY <1>1, <1>2 DEF Carrier
<1>5. owed' = tracker
  BY <1>2, <1>3, <1>4 DEF owed, Unsettled
<1> QED BY <1>1, <1>2, <1>3, <1>5 DEF owed, CanSeal

\* A commit bills exactly what was owed.
LEMMA CommitSettles ==
  ASSUME TypeInv, IndInv, NEW b \in sent, PanelCommit(b)
  PROVE  /\ owed > 0 /\ owed' = 0 /\ billed' = billed + owed
         /\ UNCHANGED <<used, tracker>>
<1>1. Carrier = b /\ b \in Batches /\ b # NoBatch /\ b.id \notin settled
  BY DEF PanelCommit, IndInv, DeliveredIsSpooled, TypeInv, TypeOK
<1>2. b.n > 0
  BY <1>1, ReportingAssumption DEF Batches
<1>3. /\ UNCHANGED <<used, tracker, pending, disk, mode>>
      /\ settled' = settled \cup {b.id} /\ billed' = billed + b.n
  BY DEF PanelCommit, spoolVars
<1>4. owed = b.n
  BY <1>1 DEF owed, Unsettled
<1>5. Carrier' = b
  BY <1>1, <1>3 DEF Carrier
<1>6. owed' = 0
  BY <1>3, <1>5 DEF owed, Unsettled
<1> QED BY <1>2, <1>3, <1>4, <1>6

\* Stopping loses the tracker and nothing that is owed.
LEMMA StopSteps ==
  ASSUME TypeInv, IndInv, ProcessEnds \/ SyncSaveFails
  PROVE  LedgerStop
<1>0. owed \in Nat
  BY OwedType
<1>1. CASE ProcessEnds
  <2>1. /\ mode' = "down" /\ disk' \in afterLoss /\ tracker' = 0
        /\ UNCHANGED <<used, settled, billed>>
    BY <1>1 DEF ProcessEnds, panelVars
  <2>2. owed' = Unsettled(disk')
    BY <2>1 DEF owed, Carrier, Unsettled
  <2>3. CASE owed > 0
    <3>1. afterLoss = {Carrier}
      <4>1. CASE mode = "down"
        BY <4>1 DEF IndInv, DiskShape, Carrier
      <4>2. CASE mode # "down"
        <5>1. Carrier = pending["live"]
          BY <4>2 DEF Carrier
        <5>2. Carrier.id \notin settled /\ Carrier # NoBatch
          BY <2>3 DEF owed, Unsettled, NoBatch
        <5> QED BY <5>1, <5>2 DEF IndInv, PendingIsSaved
      <4> QED BY <4>1, <4>2
    <3> QED BY <2>1, <2>2, <2>3, <3>1 DEF LedgerStop, StopStep, owed
  <2>4. CASE ~(owed > 0)
    <3>1. disk' \in Batches
      BY <2>1 DEF TypeInv, TypeOK
    <3>2. billed + owed' <= used /\ owed' \in Nat
      BY <2>1, <2>2, <3>1, UnsettledType DEF IndInv, SurvivorsUnbilled
    <3>3. owed' \in 0..(used - billed)
      BY <3>2, OwedType
    <3> QED BY <2>1, <2>4, <3>3 DEF LedgerStop, StopStep
  <2> QED BY <2>3, <2>4
<1>2. CASE SyncSaveFails
  <2>1. /\ mode # "down" /\ mode' = "exited" /\ tracker' = 0 /\ pending["live"] = NoBatch
        /\ UNCHANGED <<used, pending, settled, billed>>
    BY <1>2 DEF SyncSaveFails, SyncNextBatch, CanSeal, panelVars
  <2>2. owed' = owed
    BY <2>1 DEF owed, Carrier, Unsettled
  <2>3. owed = 0 /\ billed <= used
    BY <2>1, NothingOwed, OwedType DEF owed
  <2>4. owed' \in 0..(used - billed)
    BY <2>2, <2>3, OwedType
  <2> QED BY <2>1, <2>3, <2>4 DEF LedgerStop, StopStep
<1> QED BY <1>1, <1>2

\* Every step of the controller is a step of the ledger.
LEMMA StepEffect ==
  ASSUME TypeInv, IndInv, [Next]_vars
  PROVE  \/ LedgerStutter
         \/ LedgerStop
         \/ used' = used + 1 /\ tracker' = tracker + 1 /\ UNCHANGED <<owed, billed>>
         \/ /\ owed = 0 /\ tracker > 0 /\ owed' = tracker /\ tracker' = 0
            /\ UNCHANGED <<used, billed>>
         \/ /\ owed > 0 /\ owed' = 0 /\ billed' = billed + owed
            /\ UNCHANGED <<used, tracker>>
<1>1. CASE Track
  <2>1. /\ used' = used + 1 /\ tracker' = tracker + 1
        /\ UNCHANGED <<pending, disk, mode, settled, billed>>
    BY <1>1 DEF Track, spoolVars, panelVars
  <2> QED BY <2>1 DEF owed, Carrier, Unsettled
<1>2. ASSUME NEW b \in sent, PanelCommit(b)
      PROVE  /\ owed > 0 /\ owed' = 0 /\ billed' = billed + owed
             /\ UNCHANGED <<used, tracker>>
  BY <1>2, CommitSettles
<1>3. CASE PushAsync
  BY <1>3, StutterSteps, FreshSeals DEF PushAsync
<1>4. CASE PushSync
  BY <1>4, StutterSteps, FreshSeals, StopSteps DEF PushSync
<1>5. CASE (\E c \in Callers : Report(c)) \/ Boot \/ UNCHANGED vars
  BY <1>5, StutterSteps
<1>6. CASE ProcessEnds
  BY <1>6, StopSteps
<1> QED BY <1>1, <1>2, <1>3, <1>4, <1>5, <1>6 DEF Next

\* Units go missing only when the service or its process stops, and never
\* more than the tracker holds at that moment (the limitation stated in
\* docs/traffic-durable-replay.md, and no other).
THEOREM OnlyUnflushedIsLost == Spec => LosesOnlyUnflushed
<1>1. TypeInv /\ IndInv /\ [Next]_vars
      => [Missing' <= Missing + (IF StopStep THEN tracker ELSE 0)]_vars
  <2> SUFFICES ASSUME TypeInv, IndInv, [Next]_vars
               PROVE  Missing' <= Missing + (IF StopStep THEN tracker ELSE 0)
    OBVIOUS
  <2>1. /\ owed \in Nat /\ used \in Nat /\ tracker \in Nat /\ billed \in Nat
        /\ Missing = used - (billed + owed + tracker)
        /\ Missing' = used' - (billed' + owed' + tracker')
    BY OwedType DEF Missing, owed
  <2>2. Missing \in Int /\ (IF StopStep THEN tracker ELSE 0) \in Nat
    BY <2>1
  <2>3. CASE LedgerStop
    <3>1. owed' \in Nat /\ owed' >= owed
      BY <2>1, <2>3 DEF LedgerStop
    <3>2. StopStep /\ tracker' = 0 /\ used' = used /\ billed' = billed
      BY <2>3 DEF LedgerStop
    <3>3. Missing' <= Missing + tracker
      <4>1. Missing' = used - (billed + owed' + 0)
        BY <2>1, <3>2
      <4>2. used - (billed + owed' + 0) <= used - (billed + owed + tracker) + tracker
        <5>1. \A u, b, o, t, x \in Nat :
                 x >= o => u - (b + x + 0) <= u - (b + o + t) + t
          OBVIOUS
        <5>2. /\ used \in Nat /\ billed \in Nat /\ owed \in Nat
              /\ tracker \in Nat /\ owed' \in Nat /\ owed' >= owed
          BY <2>1, <3>1
        <5> QED BY <5>1, <5>2
      <4>3. Missing + tracker = used - (billed + owed + tracker) + tracker
        BY <2>1
      <4> QED BY <4>1, <4>2, <4>3
    <3>4. (IF StopStep THEN tracker ELSE 0) = tracker
      BY <3>2
    <3> QED BY <3>3, <3>4
  <2>4. CASE ~LedgerStop
    <3>1. Missing' = Missing
      BY <2>1, <2>4, StepEffect DEF LedgerStutter
    <3> QED BY <2>2, <3>1
  <2> QED BY <2>3, <2>4
<1> QED BY <1>1, Invariance, PTL DEF Spec, LosesOnlyUnflushed

\* The reporting controller implements the traffic ledger: every metered unit
\* is buffered, sealed into one claim at a time, and billed once.
THEOREM ImplementsLedger == Spec => LedgerSpec
<1>1. Init => Ledger!Init
  <2>1. Init => Unsettled(Carrier) = 0
    BY DEF Init, Carrier, Unsettled, NoBatch
  <2> QED BY <2>1 DEF Init, Ledger!Init
<1>2. TypeInv /\ IndInv /\ [Next]_vars => [Ledger!Next]_(Ledger!ledger)
  <2> SUFFICES ASSUME TypeInv, IndInv, [Next]_vars
               PROVE  [Ledger!Next]_(Ledger!ledger)
    OBVIOUS
  <2> USE DEF owed
  <2>1. CASE LedgerStutter
    BY <2>1 DEF LedgerStutter, Ledger!ledger
  <2>2. CASE LedgerStop
    BY <2>2 DEF LedgerStop, Ledger!Next, Ledger!Stop
  <2>3. CASE used' = used + 1 /\ tracker' = tracker + 1 /\ UNCHANGED <<owed, billed>>
    BY <2>3 DEF Ledger!Next, Ledger!Meter
  <2>4. CASE /\ owed = 0 /\ tracker > 0 /\ owed' = tracker /\ tracker' = 0
             /\ UNCHANGED <<used, billed>>
    BY <2>4 DEF Ledger!Next, Ledger!Seal
  <2>5. CASE /\ owed > 0 /\ owed' = 0 /\ billed' = billed + owed
             /\ UNCHANGED <<used, tracker>>
    BY <2>5 DEF Ledger!Next, Ledger!Settle
  <2> QED BY <2>1, <2>2, <2>3, <2>4, <2>5, StepEffect
<1> QED BY <1>1, <1>2, Invariance, PTL DEF Spec, LedgerSpec, Ledger!Spec

-----------------------------------------------------------------------------
(* The shutdown flush, with or without in-process restarts.                *)

\* What PushSync has reached: the batch it reports is the only one that can be
\* pending, and once the tracker was flushed nobody fills it again.
FlushInv ==
  /\ calls["sync"] # Idle =>
       /\ mode \in {"first", "last"}
       /\ pending["live"] \in {NoBatch, calls["sync"].batch}
  /\ mode = "stop" /\ ~hadPending => pending["live"] = NoBatch
  /\ mode = "first" /\ ~hadPending => tracker = 0
  /\ mode = "next" => pending["live"] = NoBatch
  /\ mode = "last" => tracker = 0

\* The answer of a report leaves the batch pending or clears it, and PushSync
\* goes on to its second batch only when the first is acknowledged.
LEMMA FlushAnswered ==
  ASSUME TypeInv, FlushInv, NEW c \in Callers, NEW ok \in BOOLEAN, Return(c, ok),
         calls[c] # Idle,
         UNCHANGED <<tracker, hadPending>>,
         pending'["live"] \in {pending["live"], NoBatch},
         c = "sync" /\ ok => pending'["live"] = NoBatch
  PROVE  FlushInv'
<1> USE DEF FlushInv
<1>1. CASE c = "sync"
  <2>1. calls'["sync"] = Idle /\ mode' \in {"next", "exited"}
    BY <1>1 DEF Return, TypeInv, TypeOK, Callers
  <2>2. mode' = "next" => ok
    BY <1>1 DEF Return
  <2> QED BY <1>1, <2>1, <2>2
<1>2. CASE c # "sync"
  BY <1>2 DEF Return, TypeInv, TypeOK, Callers
<1> QED BY <1>1, <1>2

\* What acknowledge finds and leaves, if it succeeds: nothing is pending.
LEMMA AckedFlush ==
  ASSUME TypeInv, FlushInv, AckClears("sync") \/ AckIgnored("sync")
  PROVE  pending'["live"] = NoBatch /\ Return("sync", TRUE) /\ tracker' = tracker
<1>1. CASE AckClears("sync")
  BY <1>1 DEF AckClears, Owner, TypeInv, TypeOK
<1>2. CASE AckIgnored("sync")
  <2> DEFINE b == calls["sync"].batch
  <2>1. calls["sync"] # Idle /\ ~Matches("sync") /\ pending' = pending
    BY <1>2 DEF AckIgnored, Acked, Answered, Idle
  <2>2. pending["live"] \in {NoBatch, b} /\ b \in Batches
    BY <2>1 DEF FlushInv, TypeInv, TypeOK, Calls, Callers
  <2>3. b.id = 0 \/ pending["live"].id # b.id
    BY <2>1 DEF Matches, Owner
  <2>4. b.id = 0 => b = NoBatch
    BY <2>2, IdZero
  <2>5. pending["live"] = NoBatch
    BY <2>2, <2>3, <2>4
  <2> QED BY <1>2, <2>1, <2>5 DEF AckIgnored
<1> QED BY <1>1, <1>2

\* Every step, in-process restarts included, preserves FlushInv.
LEMMA FlushStep ==
  ASSUME TypeInv, FlushInv, [Next \/ Restart]_vars
  PROVE  FlushInv'
<1>0. /\ pending \in [{"live", "old"} -> Batches] /\ calls \in [Callers -> Calls]
      /\ "sync" \in Callers /\ "async" \in Callers
  BY DEF TypeInv, TypeOK, Callers
<1>1. CASE Track \/ AsyncSkips \/ AsyncSaveFails
  <2>1. UNCHANGED <<pending, calls, hadPending, mode>> /\ mode = "run"
    BY <1>1 DEF Track, AsyncSkips, AsyncSaveFails, AsyncIdle
  <2> QED BY <2>1 DEF FlushInv
<1>2. CASE AsyncReplays \/ AsyncEmpty \/ AsyncFresh
  <2>1. calls'["sync"] = calls["sync"] /\ mode' = mode /\ mode = "run"
    BY <1>0, <1>2 DEF AsyncReplays, AsyncEmpty, AsyncFresh, AsyncIdle, Launch
  <2> QED BY <2>1 DEF FlushInv
<1>3. CASE Shutdown
  BY <1>3 DEF Shutdown, FlushInv
<1>4. CASE SyncReplays \/ SyncEmpty \/ SyncFresh
  <2>1. /\ mode \in {"stop", "next"} /\ mode' = (IF mode = "stop" THEN "first" ELSE "last")
        /\ hadPending' = hadPending
    BY <1>4 DEF SyncReplays, SyncEmpty, SyncFresh, SyncNextBatch, SyncAdvance
  <2>2. pending'["live"] \in {NoBatch, calls'["sync"].batch}
    BY <1>0, <1>4 DEF SyncReplays, SyncEmpty, SyncFresh, Launch, Seal
  <2>3. CASE SyncReplays
    <3>1. pending["live"] # NoBatch
      BY <2>3 DEF SyncReplays
    <3>2. mode = "stop" /\ hadPending
      BY <2>1, <3>1 DEF FlushInv
    <3> QED BY <2>1, <2>2, <3>2 DEF FlushInv
  <2>4. CASE SyncEmpty \/ SyncFresh
    <3>1. tracker' = 0
      BY <2>4 DEF SyncEmpty, SyncFresh, Flush
    <3> QED BY <2>1, <2>2, <3>1 DEF FlushInv
  <2> QED BY <1>4, <2>3, <2>4
<1>5. CASE SyncSaveFails
  <2>1. mode \in {"stop", "next"} /\ mode' = "exited" /\ calls' = calls
    BY <1>5 DEF SyncSaveFails, SyncNextBatch
  <2> QED BY <2>1 DEF FlushInv
<1>6. ASSUME NEW c \in Callers, Send(c) PROVE FlushInv'
  <2>1. UNCHANGED <<pending, hadPending, mode, tracker>>
    BY <1>6 DEF Send
  <2>2. calls'["sync"].batch = calls["sync"].batch /\ (calls["sync"] = Idle => calls'["sync"] = Idle)
    BY <1>0, <1>6 DEF Send, Idle, Calls
  <2> QED BY <2>1, <2>2 DEF FlushInv
<1>7. ASSUME NEW c \in Callers,
             AckClears(c) \/ AckClearFails(c) \/ AckIgnored(c) \/ ReportFails(c)
      PROVE  FlushInv'
  <2>1. calls[c] # Idle
    <3>1. calls[c].phase # "idle"
      BY <1>7 DEF AckClears, AckClearFails, AckIgnored, ReportFails, Acked, Answered
    <3> QED BY <3>1 DEF Idle
  <2>2. /\ UNCHANGED <<tracker, hadPending>>
        /\ pending'["live"] \in {pending["live"], NoBatch}
    BY <1>0, <1>7 DEF AckClears, AckClearFails, AckIgnored, ReportFails, Owner
  <2>3. CASE AckClears(c) \/ AckIgnored(c)
    <3>1. Return(c, TRUE)
      BY <2>3 DEF AckClears, AckIgnored
    <3>2. c = "sync" => pending'["live"] = NoBatch
      BY <2>3, AckedFlush
    <3> QED BY <2>1, <2>2, <3>1, <3>2, FlushAnswered
  <2>4. CASE AckClearFails(c) \/ ReportFails(c)
    <3>1. Return(c, FALSE)
      BY <2>4 DEF AckClearFails, ReportFails
    <3> QED BY <2>1, <2>2, <3>1, FlushAnswered
  <2> QED BY <1>7, <2>3, <2>4
<1>8. ASSUME NEW b \in sent, PanelCommit(b) PROVE FlushInv'
  BY <1>8 DEF PanelCommit, FlushInv
<1>9. CASE ProcessEnds
  BY <1>9, <1>0 DEF ProcessEnds, FlushInv
<1>10. CASE Boot
  <2>1. calls' = calls /\ mode = "down" /\ mode' = "run"
    BY <1>10 DEF Boot
  <2> QED BY <2>1 DEF FlushInv
<1>11. CASE Restart
  <2>1. mode = "exited" /\ mode' = "run" /\ calls'["sync"] = calls["sync"]
    BY <1>0, <1>11 DEF Restart
  <2> QED BY <2>1 DEF FlushInv
<1>12. CASE UNCHANGED vars
  BY <1>12 DEF vars, FlushInv
<1> QED
  BY <1>1, <1>2, <1>3, <1>4, <1>5, <1>6, <1>7, <1>8, <1>9, <1>10, <1>11, <1>12
     DEF Next, PushAsync, PushSync, Report

\* A shutdown flush that succeeds leaves neither a pending batch nor traffic in
\* the tracker, whatever the report goroutine of this service or of a replaced
\* one does meanwhile.
THEOREM ShutdownIsClean == ReloadSpec => CleanShutdown
<1>1. Init => TypeInv /\ FlushInv
  BY TypeInit DEF Init, FlushInv, Callers
<1>2. TypeInv /\ FlushInv /\ [Next \/ Restart]_vars => (TypeInv /\ FlushInv)'
  BY TypeStep, FlushStep
<1>3. TypeInv /\ FlushInv /\ [Next \/ Restart]_vars
      => [ (AckClears("sync") \/ AckIgnored("sync")) /\ mode' = "exited"
           => pending'["live"] = NoBatch /\ tracker' = 0 ]_vars
  <2> SUFFICES ASSUME TypeInv, FlushInv, AckClears("sync") \/ AckIgnored("sync"),
                      mode' = "exited"
               PROVE  pending'["live"] = NoBatch /\ tracker' = 0
    OBVIOUS
  <2>1. pending'["live"] = NoBatch /\ Return("sync", TRUE) /\ tracker' = tracker
    BY AckedFlush
  <2>2. calls["sync"] # Idle
    <3>1. calls["sync"].phase # "idle"
      BY DEF AckClears, AckIgnored, Acked, Answered
    <3> QED BY <3>1 DEF Idle
  <2>3. mode = "last" \/ (mode = "first" /\ ~hadPending)
    BY <2>1, <2>2 DEF FlushInv, Return
  <2> QED BY <2>1, <2>3 DEF FlushInv
<1> QED BY <1>1, <1>2, <1>3, PTL DEF ReloadSpec, CleanShutdown

-----------------------------------------------------------------------------
(* The books when services are replaced inside the process.  IndInv does   *)
(* not survive that: several batches may be delivered and unsettled, and   *)
(* the file of one may be gone.  What remains is an account of batch IDs.  *)

\* Every batch that anybody holds, stores or has sent.
Known ==
  sent \cup afterLoss \cup {disk, pending["live"], pending["old"]}
    \cup {calls[c].batch : c \in Callers}

\* N gives the amount that was sealed under each ID given out so far.
SealedAs(N) ==
  /\ \A b \in Known : b # NoBatch => b.id < nextId /\ b.n = N[b.id]
  /\ \A i \in settled : i < nextId

\* u adds up, ID by ID, what is not settled; with what is billed and what the
\* tracker holds it does not exceed what was metered.
Open(N, u) ==
  /\ \A k \in 1..MaxBatches : u[k] = u[k - 1] + (IF k \in settled THEN 0 ELSE N[k])
  /\ \A j, k \in 0..MaxBatches : j <= k => u[j] <= u[k]
  /\ \A k \in 1..MaxBatches : k >= nextId => N[k] = 0
  /\ billed + u[MaxBatches] + tracker <= used

Amounts == [1..MaxBatches -> Nat]
Sums == [0..MaxBatches -> Nat]

\* The account holds; the sum only as long as a save that fails leaves nothing
\* behind, for the traffic of a failed save is put back and sealed again.
BooksInv ==
  \E N \in Amounts : SealedAs(N) /\ (~DirFaults => \E u \in Sums : Open(N, u))

\* A step that seals and settles nothing keeps the account.
LEMMA BooksStand ==
  ASSUME TypeInv, TypeInv', BooksInv,
         Known' \subseteq Known \cup {NoBatch},
         nextId' \in {nextId, nextId + 1}, UNCHANGED <<settled, billed>>,
         \/ used' = used /\ tracker' <= tracker
         \/ used' = used + 1 /\ tracker' = tracker + 1
  PROVE  BooksInv'
<1>1. PICK N \in Amounts : SealedAs(N) /\ (~DirFaults => \E u \in Sums : Open(N, u))
  BY DEF BooksInv
<1>2. nextId \in Nat /\ used \in Nat /\ tracker \in Nat /\ tracker' \in Nat /\ billed \in Nat
  BY DEF TypeInv, TypeOK
<1>3. SealedAs(N)'
  <2>1. ASSUME NEW b \in Known', b # NoBatch PROVE b.id < nextId' /\ b.n = N[b.id]
    <3>1. b \in Known /\ b \in Batches
      BY <2>1 DEF Known, TypeInv, TypeOK, Callers, Calls
    <3>2. b.id < nextId /\ b.n = N[b.id] /\ b.id \in Nat
      BY <1>1, <2>1, <3>1, IdZero DEF SealedAs
    <3> QED BY <1>2, <3>2
  <2>2. \A i \in settled : i < nextId' /\ i \in Nat
    BY <1>1, <1>2 DEF SealedAs, TypeInv, TypeOK
  <2> QED BY <2>1, <2>2 DEF SealedAs
<1>4. ASSUME NEW u \in Sums, Open(N, u) PROVE Open(N, u)'
  <2>1. \A k \in 1..MaxBatches : k >= nextId' => N[k] = 0
    BY <1>2, <1>4 DEF Open
  <2>2. billed + u[MaxBatches] + tracker' <= used'
    BY <1>2, <1>4, ReportingAssumption DEF Open, Sums
  <2> QED BY <1>4, <2>1, <2>2 DEF Open
<1>5. ~DirFaults => \E u \in Sums : Open(N, u)'
  BY <1>1, <1>4
<1> QED BY <1>1, <1>3, <1>5 DEF BooksInv

\* A step that seals the tracker under a fresh ID, or fails to and leaves a
\* file of it behind.
LEMMA BooksSeal ==
  ASSUME TypeInv, TypeInv', BooksInv, CanSeal,
         Known' \subseteq Known \cup {NoBatch, Fresh},
         nextId' = nextId + 1, UNCHANGED <<used, settled, billed>>,
         ~DirFaults => tracker' = 0
  PROVE  BooksInv'
<1>1. PICK N \in Amounts : SealedAs(N) /\ (~DirFaults => \E u \in Sums : Open(N, u))
  BY DEF BooksInv
<1>2. /\ nextId \in 1..MaxBatches /\ used \in Nat /\ tracker \in Nat /\ billed \in Nat
      /\ MaxBatches \in Nat
  BY ReportingAssumption DEF TypeInv, TypeOK, CanSeal
<1> DEFINE M == [N EXCEPT ![nextId] = tracker]
<1>3. M \in Amounts /\ M[nextId] = tracker
      /\ \A i \in 1..MaxBatches : i # nextId => M[i] = N[i]
  BY <1>2 DEF Amounts
<1>4. PICK A \in Amounts : A = M
  BY <1>3
<1>5. SealedAs(A)'
  <2>1. ASSUME NEW b \in Known', b # NoBatch PROVE b.id < nextId' /\ b.n = A[b.id]
    <3>1. CASE b = Fresh
      BY <1>2, <1>3, <1>4, <3>1 DEF Fresh
    <3>2. CASE b # Fresh
      <4>1. b \in Known /\ b \in Batches
        BY <2>1, <3>2 DEF Known, TypeInv, TypeOK, Callers, Calls
      <4>2. b.id < nextId /\ b.n = N[b.id] /\ b.id \in 1..MaxBatches
        BY <1>1, <2>1, <4>1 DEF SealedAs, Batches
      <4> QED BY <1>2, <1>3, <1>4, <4>2
    <3> QED BY <3>1, <3>2
  <2>2. \A i \in settled : i < nextId' /\ i \in Nat
    BY <1>1, <1>2 DEF SealedAs, TypeInv, TypeOK
  <2> QED BY <2>1, <2>2 DEF SealedAs
<1>6. ASSUME ~DirFaults PROVE \E v \in Sums : Open(A, v)'
  <2>1. PICK u \in Sums : Open(N, u)
    BY <1>1, <1>6
  <2> DEFINE w == [k \in 0..MaxBatches |-> IF k >= nextId THEN u[k] + tracker ELSE u[k]]
  <2>2. w \in Sums
    BY <1>2 DEF Sums
  <2>3. PICK v \in Sums : v = w
    BY <2>2
  <2>4. \A k \in 0..MaxBatches : v[k] = IF k >= nextId THEN u[k] + tracker ELSE u[k]
    BY <2>3
  <2> HIDE DEF w, M
  <2>5. \A k \in 0..MaxBatches : u[k] \in Nat
    BY DEF Sums
  <2>6. nextId \notin settled
    BY <1>1, <1>2 DEF SealedAs
  <2>7. ASSUME NEW k \in 1..MaxBatches
        PROVE  v[k] = v[k - 1] + (IF k \in settled THEN 0 ELSE A[k])
    <3>0. k \in 0..MaxBatches /\ k - 1 \in 0..MaxBatches
      BY <1>2
    <3>1. u[k] = u[k - 1] + (IF k \in settled THEN 0 ELSE N[k])
      BY <2>1 DEF Open
    <3>2. CASE k = nextId
      <4>1. N[k] = 0 /\ A[k] = tracker
        BY <1>2, <1>3, <1>4, <2>1, <3>2 DEF Open, M
      <4>2. u[k] = u[k - 1]
        BY <2>5, <3>0, <3>1, <4>1
      <4>3. v[k] = u[k] + tracker /\ v[k - 1] = u[k - 1]
        BY <1>2, <2>4, <3>0, <3>2
      <4> QED BY <2>5, <2>6, <3>0, <3>2, <4>1, <4>2, <4>3
    <3>3. CASE k # nextId
      <4>1. A[k] = N[k] /\ N[k] \in Nat
        BY <1>3, <1>4, <3>3 DEF M, Amounts
      <4>2. k - 1 >= nextId <=> k >= nextId
        BY <1>2, <3>3
      <4> QED BY <1>2, <2>4, <2>5, <3>0, <3>1, <4>1, <4>2
    <3> QED BY <3>2, <3>3
  <2>8. \A j, k \in 0..MaxBatches : j <= k => v[j] <= v[k]
    BY <1>2, <2>1, <2>4, <2>5 DEF Open
  <2>9. \A k \in 1..MaxBatches : k >= nextId' => A[k] = 0
    BY <1>2, <1>3, <1>4, <2>1 DEF Open, M
  <2>10. billed + v[MaxBatches] + tracker' <= used
    <3>1. v[MaxBatches] = u[MaxBatches] + tracker /\ u[MaxBatches] \in Nat /\ tracker' = 0
      BY <1>2, <1>6, <2>4, <2>5
    <3>2. billed + u[MaxBatches] + tracker <= used
      BY <2>1 DEF Open
    <3> QED BY <1>2, <3>1, <3>2
  <2>11. Open(A, v)'
    BY <2>7, <2>8, <2>9, <2>10 DEF Open
  <2> QED BY <2>11
<1> QED BY <1>5, <1>6 DEF BooksInv

\* A commit moves the amount of its ID from what is not settled to what is
\* billed.
LEMMA BooksSettle ==
  ASSUME TypeInv, BooksInv, NEW b \in sent, PanelCommit(b)
  PROVE  BooksInv'
<1>1. PICK N \in Amounts : SealedAs(N) /\ (~DirFaults => \E u \in Sums : Open(N, u))
  BY DEF BooksInv
<1>2. /\ used \in Nat /\ tracker \in Nat /\ billed \in Nat /\ MaxBatches \in Nat
      /\ b \in Batches /\ b # NoBatch /\ b \in Known
  BY ReportingAssumption DEF TypeInv, TypeOK, Known
<1>3. b.id \in 1..MaxBatches /\ b.id < nextId /\ b.n = N[b.id] /\ b.n \in Nat
  BY <1>1, <1>2 DEF SealedAs, Batches
<1>4. /\ b.id \notin settled /\ settled' = settled \cup {b.id} /\ billed' = billed + b.n
      /\ UNCHANGED <<used, tracker, nextId>> /\ Known' = Known
  BY DEF PanelCommit, spoolVars, Known
<1>5. SealedAs(N)'
  BY <1>1, <1>3, <1>4 DEF SealedAs
<1>6. ASSUME ~DirFaults PROVE \E v \in Sums : Open(N, v)'
  <2> DEFINE i == b.id
  <2>1. PICK u \in Sums : Open(N, u)
    BY <1>1, <1>6
  <2>2. \A k \in 0..MaxBatches : u[k] \in Nat
    BY DEF Sums
  <2>3. i \in 1..MaxBatches /\ i - 1 \in 0..MaxBatches /\ i \in 0..MaxBatches /\ N[i] \in Nat
    BY <1>2, <1>3
  <2>4. u[i] = u[i - 1] + N[i]
    BY <1>4, <2>1, <2>3 DEF Open
  <2>5. \A k \in 0..MaxBatches : k >= i => u[k] >= u[i - 1] + N[i]
    BY <2>1, <2>3, <2>4 DEF Open
  <2> DEFINE w == [k \in 0..MaxBatches |-> IF k >= i THEN u[k] - N[i] ELSE u[k]]
  <2>6. w \in Sums
    <3>1. \A k \in 0..MaxBatches : k >= i => u[k] - N[i] \in Nat
      BY <2>2, <2>3, <2>5
    <3> QED BY <2>2, <3>1 DEF Sums
  <2>7. PICK v \in Sums : v = w
    BY <2>6
  <2>8. \A k \in 0..MaxBatches : v[k] = IF k >= i THEN u[k] - N[i] ELSE u[k]
    BY <2>7
  <2> HIDE DEF w
  <2>9. ASSUME NEW k \in 1..MaxBatches
        PROVE  v[k] = v[k - 1] + (IF k \in settled' THEN 0 ELSE N[k])
    <3>0. k \in 0..MaxBatches /\ k - 1 \in 0..MaxBatches /\ N[k] \in Nat
      BY <1>2 DEF Amounts
    <3>1. u[k] = u[k - 1] + (IF k \in settled THEN 0 ELSE N[k])
      BY <2>1 DEF Open
    <3>2. CASE k = i
      <4>1. v[k] = u[k] - N[i] /\ v[k - 1] = u[k - 1] /\ k \in settled'
        BY <1>4, <2>3, <2>8, <3>0, <3>2
      <4> QED BY <2>2, <2>3, <2>4, <3>0, <3>2, <4>1
    <3>3. CASE k # i
      <4>1. k - 1 >= i <=> k >= i
        BY <2>3, <3>3
      <4>2. k \in settled' <=> k \in settled
        BY <1>4, <3>3
      <4> QED BY <2>2, <2>3, <2>8, <3>0, <3>1, <4>1, <4>2
    <3> QED BY <3>2, <3>3
  <2>10. ASSUME NEW j \in 0..MaxBatches, NEW k \in 0..MaxBatches, j <= k
         PROVE  v[j] <= v[k]
    <3>1. u[j] <= u[k] /\ u[j] \in Nat /\ u[k] \in Nat /\ u[i - 1] \in Nat
      BY <2>1, <2>2, <2>3, <2>10 DEF Open
    <3>2. CASE j < i /\ k >= i
      <4>1. u[j] <= u[i - 1]
        BY <2>1, <2>3, <3>2 DEF Open
      <4>2. u[k] >= u[i - 1] + N[i] /\ v[k] = u[k] - N[i] /\ v[j] = u[j]
        BY <2>3, <2>5, <2>8, <3>2
      <4> QED BY <2>3, <3>1, <4>1, <4>2
    <3>3. CASE ~(j < i /\ k >= i)
      BY <2>3, <2>8, <2>10, <3>1, <3>3
    <3> QED BY <3>2, <3>3
  <2>11. billed' + v[MaxBatches] + tracker <= used
    <3>1. v[MaxBatches] = u[MaxBatches] - N[i] /\ u[MaxBatches] \in Nat
      BY <1>2, <2>2, <2>3, <2>8
    <3>2. billed + u[MaxBatches] + tracker <= used
      BY <2>1 DEF Open
    <3> QED BY <1>2, <1>3, <1>4, <2>3, <3>1, <3>2
  <2>12. \A k \in 1..MaxBatches : k >= nextId' => N[k] = 0
    BY <1>4, <2>1 DEF Open
  <2>13. Open(N, v)'
    BY <1>4, <2>9, <2>10, <2>11, <2>12 DEF Open
  <2> QED BY <2>13
<1> QED BY <1>1, <1>5, <1>6 DEF BooksInv

\* Every step, in-process restarts included, keeps the account.
LEMMA BooksStep ==
  ASSUME TypeInv, TypeInv', BooksInv, [Next \/ Restart]_vars
  PROVE  BooksInv'
<1>0. /\ pending \in [{"live", "old"} -> Batches] /\ calls \in [Callers -> Calls]
      /\ nextId \in Nat /\ tracker \in Nat
  BY DEF TypeInv, TypeOK
<1>1. CASE Track \/ AsyncSkips \/ Shutdown \/ UNCHANGED vars
  <2>1. /\ UNCHANGED <<sent, afterLoss, disk, pending, calls, nextId, settled, billed>>
        /\ (used' = used /\ tracker' = tracker) \/ (used' = used + 1 /\ tracker' = tracker + 1)
    BY <1>1 DEF Track, AsyncSkips, Shutdown, vars, spoolVars, panelVars
  <2>2. Known' = Known
    BY <2>1 DEF Known
  <2> QED BY <1>0, <2>1, <2>2, BooksStand
<1>2. CASE AsyncReplays \/ AsyncEmpty \/ SyncReplays \/ SyncEmpty
  <2>1. UNCHANGED <<sent, afterLoss, disk, pending, nextId, settled, billed, used, tracker>>
    BY <1>2 DEF AsyncReplays, AsyncEmpty, SyncReplays, SyncEmpty, spoolVars, panelVars
  <2>2. \A c \in Callers : calls'[c].batch \in {calls[c].batch, pending["live"], NoBatch}
    BY <1>0, <1>2 DEF AsyncReplays, AsyncEmpty, SyncReplays, SyncEmpty, Launch, Replayed
  <2>3. Known' \subseteq Known \cup {NoBatch}
    BY <2>1, <2>2 DEF Known
  <2> QED BY <1>0, <2>1, <2>3, BooksStand
<1>3. CASE AsyncFresh \/ SyncFresh
  <2>1. /\ CanSeal /\ tracker' = 0 /\ nextId' = nextId + 1
        /\ disk' = Fresh /\ afterLoss' = {Fresh} /\ pending' = [pending EXCEPT !["live"] = Fresh]
        /\ UNCHANGED <<sent, settled, billed, used>>
    BY <1>3 DEF AsyncFresh, SyncFresh, Flush, Seal, SaveOk, panelVars
  <2>2. \A c \in Callers : calls'[c].batch \in {calls[c].batch, Fresh}
    BY <1>0, <1>3 DEF AsyncFresh, SyncFresh, Launch
  <2>3. pending'["live"] = Fresh /\ pending'["old"] = pending["old"]
    BY <1>0, <2>1
  <2>4. Known' \subseteq Known \cup {NoBatch, Fresh}
    BY <2>1, <2>2, <2>3 DEF Known
  <2> QED BY <2>1, <2>4, BooksSeal
<1>4. CASE AsyncSaveFails \/ SyncSaveFails
  <2>1. /\ CanSeal /\ nextId' = nextId + 1 /\ SaveFails(Fresh) /\ tracker' \in {0, tracker}
        /\ UNCHANGED <<sent, pending, calls, settled, billed, used>>
    BY <1>4 DEF AsyncSaveFails, SyncSaveFails, Restore, panelVars
  <2>2. CASE UNCHANGED spoolVars
    <3>1. Known' = Known
      BY <2>1, <2>2 DEF Known, spoolVars
    <3> QED BY <1>0, <2>1, <3>1, BooksStand
  <2>3. CASE ~UNCHANGED spoolVars
    <3>1. DirFaults /\ disk' \in {NoBatch, Fresh} /\ afterLoss' \subseteq afterLoss \cup {NoBatch, Fresh}
      BY <2>1, <2>3 DEF SaveFails
    <3>2. Known' \subseteq Known \cup {NoBatch, Fresh}
      BY <2>1, <3>1 DEF Known
    <3> QED BY <2>1, <3>1, <3>2, BooksSeal
  <2> QED BY <2>2, <2>3
<1>5. ASSUME NEW c \in Callers, Send(c) PROVE BooksInv'
  <2>1. /\ UNCHANGED <<afterLoss, disk, pending, nextId, settled, billed, used, tracker>>
        /\ sent' \subseteq sent \cup {calls[c].batch}
    BY <1>5 DEF Send, spoolVars, panelVars
  <2>2. \A d \in Callers : calls'[d].batch = calls[d].batch
    BY <1>0, <1>5 DEF Send, Calls
  <2>3. Known' \subseteq Known \cup {NoBatch}
    BY <2>1, <2>2 DEF Known
  <2> QED BY <1>0, <2>1, <2>3, BooksStand
<1>6. ASSUME NEW c \in Callers,
             AckClears(c) \/ AckClearFails(c) \/ AckIgnored(c) \/ ReportFails(c)
      PROVE  BooksInv'
  <2>1. UNCHANGED <<sent, nextId, settled, billed, used, tracker>>
    BY <1>6 DEF AckClears, AckClearFails, AckIgnored, ReportFails, panelVars
  <2>2. disk' \in {disk, NoBatch} /\ afterLoss' \subseteq afterLoss \cup {NoBatch}
    BY <1>6 DEF AckClears, AckClearFails, AckIgnored, ReportFails, ClearOk, ClearFails, spoolVars
  <2>3. \A o \in {"live", "old"} : pending'[o] \in {pending[o], NoBatch}
    BY <1>0, <1>6 DEF AckClears, AckClearFails, AckIgnored, ReportFails
  <2>4. \A d \in Callers : calls'[d].batch \in {calls[d].batch, NoBatch}
    BY <1>0, <1>6 DEF AckClears, AckClearFails, AckIgnored, ReportFails, Return, Idle
  <2>5. Known' \subseteq Known \cup {NoBatch}
    BY <2>1, <2>2, <2>3, <2>4 DEF Known
  <2> QED BY <1>0, <2>1, <2>5, BooksStand
<1>7. ASSUME NEW b \in sent, PanelCommit(b) PROVE BooksInv'
  BY <1>7, BooksSettle
<1>8. CASE ProcessEnds
  <2>1. /\ disk' \in afterLoss /\ afterLoss' = {disk'} /\ tracker' = 0
        /\ UNCHANGED <<sent, nextId, settled, billed, used>>
    BY <1>8 DEF ProcessEnds, panelVars
  <2>2. /\ \A o \in {"live", "old"} : pending'[o] = NoBatch
        /\ \A c \in Callers : calls'[c].batch = NoBatch
    BY <1>8 DEF ProcessEnds, Idle
  <2>3. Known' \subseteq Known \cup {NoBatch}
    BY <2>1, <2>2 DEF Known
  <2> QED BY <1>0, <2>1, <2>3, BooksStand
<1>9. CASE Boot
  <2>1. UNCHANGED <<sent, afterLoss, disk, calls, nextId, settled, billed, used, tracker>>
    BY <1>9 DEF Boot, spoolVars, panelVars
  <2>2. pending'["live"] = disk /\ pending'["old"] = pending["old"]
    BY <1>0, <1>9 DEF Boot, Loaded
  <2>3. Known' \subseteq Known \cup {NoBatch}
    BY <2>1, <2>2 DEF Known
  <2> QED BY <1>0, <2>1, <2>3, BooksStand
<1>10. CASE Restart
  <2>1. UNCHANGED <<sent, afterLoss, disk, nextId, settled, billed, used>> /\ tracker' = 0
    BY <1>10 DEF Restart, spoolVars, panelVars
  <2>2. pending'["live"] = disk /\ pending'["old"] = pending["live"]
    BY <1>10 DEF Restart
  <2>3. \A c \in Callers : calls'[c].batch \in {calls[c].batch, calls["async"].batch, NoBatch}
    BY <1>0, <1>10 DEF Restart, Idle
  <2>4. Known' \subseteq Known \cup {NoBatch}
    BY <2>1, <2>2, <2>3 DEF Known, Callers
  <2> QED BY <1>0, <2>1, <2>4, BooksStand
<1> QED
  BY <1>1, <1>2, <1>3, <1>4, <1>5, <1>6, <1>7, <1>8, <1>9, <1>10
     DEF Next, PushAsync, PushSync, Report

\* The account is balanced at the beginning.
LEMMA BooksInit ==
  ASSUME Init
  PROVE  BooksInv
<1>1. Known = {NoBatch}
  BY DEF Init, Known, Callers, Idle
<1>2. PICK N \in Amounts : N = [i \in 1..MaxBatches |-> 0]
  BY DEF Amounts
<1>3. SealedAs(N)
  BY <1>1 DEF SealedAs, Init
<1>4. PICK u \in Sums : u = [i \in 0..MaxBatches |-> 0]
  BY DEF Sums
<1>5. Open(N, u)
  BY <1>2, <1>4, ReportingAssumption DEF Open, Init
<1> QED BY <1>3, <1>5 DEF BooksInv

\* With services replaced inside the process a batch ID still stands for the same
\* traffic, also after saves that failed.
THEOREM TrafficSurvivesReloads == ReloadSpec => []SameTraffic
<1>1. Init => TypeInv /\ BooksInv
  BY TypeInit, BooksInit
<1>2. TypeInv /\ BooksInv /\ [Next \/ Restart]_vars => (TypeInv /\ BooksInv)'
  BY TypeStep, BooksStep
<1>3. TypeInv /\ BooksInv => SameTraffic
  <2> SUFFICES ASSUME TypeInv, BooksInv,
                      NEW a \in sent \cup afterLoss \cup {pending["live"]},
                      NEW b \in sent \cup afterLoss \cup {pending["live"]}, a.id = b.id
               PROVE  a = b
    BY DEF SameTraffic
  <2>1. a \in Batches /\ b \in Batches /\ a \in Known /\ b \in Known
    BY DEF TypeInv, TypeOK, Known
  <2>2. CASE a.id = 0
    <3>1. a = NoBatch /\ b = NoBatch
      BY <2>1, <2>2, IdZero
    <3> QED BY <3>1
  <2>3. CASE a.id # 0
    <3>1. PICK N \in Amounts : SealedAs(N)
      BY DEF BooksInv
    <3>2. a # NoBatch /\ b # NoBatch
      BY <2>1, <2>3, IdZero
    <3>3. a.n = b.n
      BY <2>1, <3>1, <3>2 DEF SealedAs
    <3> QED BY <2>1, <3>2, <3>3 DEF Batches
  <2> QED BY <2>2, <2>3
<1> QED BY <1>1, <1>2, <1>3, PTL DEF ReloadSpec

\* Nor is a unit billed twice, however many report goroutines outlive the
\* services they belong to, provided that no directory fsync fails: a file left
\* behind by a save that failed holds units that are sealed once more.
THEOREM BilledOnceDespiteReloads ==
  ASSUME ~DirFaults
  PROVE  ReloadSpec => []NoDoubleBilling
<1>1. Init => TypeInv /\ BooksInv
  BY TypeInit, BooksInit
<1>2. TypeInv /\ BooksInv /\ [Next \/ Restart]_vars => (TypeInv /\ BooksInv)'
  BY TypeStep, BooksStep
<1>3. TypeInv /\ BooksInv => NoDoubleBilling
  <2> SUFFICES ASSUME TypeInv, BooksInv PROVE NoDoubleBilling
    OBVIOUS
  <2>1. PICK N \in Amounts : SealedAs(N) /\ \E u \in Sums : Open(N, u)
    BY DEF BooksInv
  <2>2. PICK u \in Sums : Open(N, u)
    BY <2>1
  <2>3. Carrier \in Batches /\ Carrier \in Known
    BY DEF Carrier, Known, TypeInv, TypeOK
  <2>4. \A k \in 0..MaxBatches : u[k] \in Nat
    BY DEF Sums
  <2>5. /\ billed \in Nat /\ tracker \in Nat /\ used \in Nat /\ MaxBatches \in 0..MaxBatches
        /\ billed + u[MaxBatches] + tracker <= used
    BY <2>2, ReportingAssumption DEF TypeInv, TypeOK, Open
  <2>6. Unsettled(Carrier) \in Nat /\ Unsettled(Carrier) <= u[MaxBatches]
    <3>1. CASE Unsettled(Carrier) = 0
      BY <2>4, <2>5, <3>1
    <3>2. CASE Unsettled(Carrier) # 0
      <4> DEFINE i == Carrier.id
      <4>1. Carrier # NoBatch /\ i \notin settled /\ Unsettled(Carrier) = Carrier.n
        BY <3>2 DEF Unsettled, NoBatch
      <4>2. i \in 1..MaxBatches /\ Unsettled(Carrier) = N[i] /\ N[i] \in Nat
        BY <2>1, <2>3, <4>1 DEF SealedAs, Batches, Amounts
      <4> HIDE DEF i
      <4>3. u[i] = u[i - 1] + N[i] /\ u[i] <= u[MaxBatches]
        BY <2>2, <2>5, <4>1, <4>2 DEF Open, i
      <4>4. u[i] \in Nat /\ u[i - 1] \in Nat
        BY <2>4, <4>2, ReportingAssumption
      <4> QED BY <2>4, <2>5, <4>2, <4>3, <4>4
    <3> QED BY <3>1, <3>2
  <2> QED BY <2>4, <2>5, <2>6 DEF NoDoubleBilling
<1> QED BY <1>1, <1>2, <1>3, PTL DEF ReloadSpec
=============================================================================
