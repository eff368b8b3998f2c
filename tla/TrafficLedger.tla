--------------------------- MODULE TrafficLedger ---------------------------
(***************************************************************************)
(* What durable traffic reporting promises (docs/traffic-durable-replay.md)*)
(* independently of how it is done: every metered unit is buffered, then   *)
(* sealed into at most one unacknowledged claim, then billed once.  Only   *)
(* the end of a process may lose units, and only buffered ones.            *)
(***************************************************************************)
EXTENDS Integers

VARIABLES metered, \* units metered so far
          buffer,  \* units held in memory only
          claim,   \* units of the sealed batch that is not billed yet
          billed   \* units billed

ledger == <<metered, buffer, claim, billed>>

Init == metered = 0 /\ buffer = 0 /\ claim = 0 /\ billed = 0

Meter ==
  /\ metered' = metered + 1
  /\ buffer' = buffer + 1
  /\ UNCHANGED <<claim, billed>>

\* A batch is sealed only when the previous one is billed, and whole.
Seal ==
  /\ claim = 0 /\ buffer > 0
  /\ claim' = buffer
  /\ buffer' = 0
  /\ UNCHANGED <<metered, billed>>

Settle ==
  /\ claim > 0
  /\ billed' = billed + claim
  /\ claim' = 0
  /\ UNCHANGED <<metered, buffer>>

\* The process ends: the buffer is gone, a sealed claim survives.  When there
\* was none, the next start may find a batch whose sealing was under way; its
\* units were metered and never billed.
Stop ==
  /\ buffer' = 0
  /\ claim' \in IF claim > 0 THEN {claim} ELSE 0..(metered - billed)
  /\ UNCHANGED <<metered, billed>>

Next == Meter \/ Seal \/ Settle \/ Stop

Spec == Init /\ [][Next]_ledger
=============================================================================
