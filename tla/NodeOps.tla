------------------------------- MODULE NodeOps -------------------------------
(***************************************************************************)
(* Node operations: internal/nodeops under ops_adapter.go, with the queue  *)
(* that a machine's mailbox keeps for them.                                *)
(*                                                                         *)
(* The panel repeats a request it has no answer to under the same identity *)
(* and in any order; requests and answers may be lost.  The loop of the    *)
(* Service carries one out at a time.  Diagnostics (status, DNS, ports,    *)
(* logs) are one operation that may fail.                                  *)
(***************************************************************************)
EXTENDS Integers, Sequences

CONSTANTS Requests,  \* identities
          Op,        \* what each asks for
          QueueCap,  \* maxPendingOpsRequests
          CacheCap,  \* maxResultCache
          MaxRuns    \* bound: requests carried out

NodeOpsAssumption ==
  /\ Op \in [Requests -> {"restart", "reload", "validate", "diagnose"}]
  /\ {QueueCap, CacheCap} \subseteq Nat \ {0} /\ MaxRuns \in Nat

VARIABLES config,   \* Service.lastConfig: "none", "bad" (it would be refused now) or "good"
          running,  \* the kernel
          queue,    \* Mailbox.opsRequests
          drained,  \* what the loop has taken of them and not yet carried out
          cache,    \* Executor.results in the order of Executor.order
          runs,     \* requests carried out since the executor was made (history)
          told      \* answers given to each request since then (history)

opsVars == <<config, running, queue, drained, cache, runs, told>>

Init ==
  /\ config = "none" /\ running = FALSE
  /\ queue = << >> /\ drained = << >> /\ cache = << >> /\ runs = << >>
  /\ told = [r \in Requests |-> {}]

Answered(r, answer) == told' = [told EXCEPT ![r] = @ \cup {answer}]

\* What the executor does not do: configurations, certificates that make one
\* invalid, and a kernel that stops or starts.
Environment ==
  /\ config' \in (IF config = "none" THEN {"none", "good"} ELSE {"bad", "good"})
  /\ running' \in BOOLEAN
  /\ UNCHANGED <<queue, drained, cache, runs, told>>

\* Mailbox.Apply.  When the queue is full onMachineEvent answers so, which the
\* panel does not take for a verdict.
Arrive(r) ==
  /\ Len(queue) < QueueCap
  /\ queue' = Append(queue, r)
  /\ UNCHANGED <<config, running, drained, cache, runs, told>>

\* DrainIfReady takes the queue as it is.
Drain ==
  /\ drained = << >> /\ queue # << >>
  /\ drained' = queue /\ queue' = << >>
  /\ UNCHANGED <<config, running, cache, runs, told>>

Cached(r) == \E i \in DOMAIN cache : cache[i].id = r
ResultOf(r) == cache[CHOOSE i \in DOMAIN cache : cache[i].id = r].ok

\* Mutant: the latest answer makes room.
EvictedLatest(c) == IF Len(c) > CacheCap THEN SubSeq(c, 1, CacheCap) ELSE c
\* The oldest answer does.
Evicted(c) == IF Len(c) > CacheCap THEN Tail(c) ELSE c

\* completeResult.
Complete(r, ok) ==
  /\ cache' = Evicted(Append(cache, [id |-> r, ok |-> ok]))
  /\ runs' = Append(runs, r)
  /\ Answered(r, IF ok THEN "ok" ELSE "failed")

Taken(r) == drained # << >> /\ r = Head(drained) /\ drained' = Tail(drained) /\ UNCHANGED <<config, queue>>
Executable(r) == ~Cached(r) /\ Len(runs) < MaxRuns

\* A replay: the answer is sent again.
Replay(r) ==
  /\ Taken(r) /\ Cached(r)
  /\ Answered(r, IF ResultOf(r) THEN "ok" ELSE "failed")
  /\ UNCHANGED <<running, cache, runs>>

Diagnose(r) ==
  /\ Taken(r) /\ Executable(r) /\ Op[r] = "diagnose"
  /\ \E ok \in BOOLEAN : Complete(r, ok)
  /\ UNCHANGED running

\* Everything else needs a configuration that is still valid.
Refuse(r) ==
  /\ Taken(r) /\ Executable(r) /\ Op[r] # "diagnose" /\ config # "good"
  /\ Complete(r, FALSE)
  /\ UNCHANGED running

Validate(r) ==
  /\ Taken(r) /\ Executable(r) /\ Op[r] = "validate" /\ config = "good"
  /\ Complete(r, TRUE)
  /\ UNCHANGED running

\* A start that fails leaves the kernel as it is; there need be no users.
Restart(r) ==
  /\ Taken(r) /\ Executable(r) /\ Op[r] = "restart" /\ config = "good"
  /\ \/ running' = TRUE /\ Complete(r, TRUE)
     \/ UNCHANGED running /\ Complete(r, FALSE)

\* sing-box reloads only what runs, Xray starts again.
Reload(r) ==
  /\ Taken(r) /\ Executable(r) /\ Op[r] = "reload" /\ config = "good"
  /\ \/ running' \in {running, TRUE} /\ Complete(r, TRUE)
     \/ UNCHANGED running /\ Complete(r, FALSE)

\* The Service ends, and the next has a mailbox and an executor of its own.
Renew ==
  /\ queue' = << >> /\ drained' = << >> /\ cache' = << >> /\ runs' = << >> /\ running' = FALSE
  /\ told' = [r \in Requests |-> {}]
  /\ UNCHANGED config

Next ==
  \/ Environment \/ Drain \/ Renew
  \/ \E r \in Requests :
       \/ Arrive(r) \/ Replay(r) \/ Diagnose(r) \/ Refuse(r) \/ Validate(r)
       \/ Restart(r) \/ Reload(r)

Spec == Init /\ [][Next]_opsVars

-----------------------------------------------------------------------------
(* Properties                                                              *)

Again(r) == \E i, j \in DOMAIN runs : i < j /\ runs[i] = r /\ runs[j] = r

\* However often the panel repeats a request, while other copies of it wait or
\* have been refused for a full queue, one executor carries it out once and
\* gives it one verdict, unless as many others as the cache holds were carried
\* out in between.
OpsRunOnce ==
  /\ \A i, j \in DOMAIN runs : i < j /\ runs[i] = runs[j] => j - i > CacheCap
  /\ \A r \in Requests : {"ok", "failed"} \subseteq told[r] => Again(r)
=============================================================================
