----------------------------- MODULE MCNodeSync ------------------------------
(***************************************************************************)
(* Model checking of NodeSync in four regimes: push and polls together,    *)
(* with the constants of the configuration; a push link, requests and a    *)
(* kernel that fail; polls alone, with certificate renewals; and the same  *)
(* with goroutines that overtake one another.  The last three share a      *)
(* second copy of the variables.                                           *)
(***************************************************************************)
EXTENDS NodeSync

VARIABLES regime,
          panel2, link2, events2, statuses2, etag2, sync2, outbox2, results2, want2,
          kern2, cert2, renewed2, judged2

vars2 == <<panel2, link2, events2, statuses2, etag2, sync2, outbox2, results2, want2,
           kern2, cert2, renewed2, judged2>>

Faults == INSTANCE NodeSync WITH
            MaxCfg <- 2, MaxUsers <- 2, MaxCerts <- 0, EventCap <- 1, StatusCap <- 1,
            MaxWaiting <- 1, Pushed <- TRUE, FetchFaults <- TRUE, KernelFaults <- TRUE,
            SlowPublish <- FALSE, Refused <- {2}, NoUsers <- {2},
            panel <- panel2, link <- link2, events <- events2, statuses <- statuses2,
            etag <- etag2, sync <- sync2, outbox <- outbox2, results <- results2,
            want <- want2, kern <- kern2, cert <- cert2, renewed <- renewed2, judged <- judged2

Rest == INSTANCE NodeSync WITH
            MaxCfg <- 3, MaxUsers <- 2, MaxCerts <- 1, EventCap <- 1, StatusCap <- 1,
            MaxWaiting <- 2, Pushed <- FALSE, FetchFaults <- FALSE, KernelFaults <- FALSE,
            SlowPublish <- FALSE, Refused <- {}, NoUsers <- {1},
            panel <- panel2, link <- link2, events <- events2, statuses <- statuses2,
            etag <- etag2, sync <- sync2, outbox <- outbox2, results <- results2,
            want <- want2, kern <- kern2, cert <- cert2, renewed <- renewed2, judged <- judged2

Slow == INSTANCE NodeSync WITH
            MaxCfg <- 3, MaxUsers <- 2, MaxCerts <- 1, EventCap <- 1, StatusCap <- 1,
            MaxWaiting <- 2, Pushed <- FALSE, FetchFaults <- FALSE, KernelFaults <- FALSE,
            SlowPublish <- TRUE, Refused <- {}, NoUsers <- {1},
            panel <- panel2, link <- link2, events <- events2, statuses <- statuses2,
            etag <- etag2, sync <- sync2, outbox <- outbox2, results <- results2,
            want <- want2, kern <- kern2, cert <- cert2, renewed <- renewed2, judged <- judged2

MCInit ==
  /\ Init
  /\ \/ regime \in {"push", "faults"} /\ Faults!Init
     \/ regime = "rest" /\ Rest!Init
     \/ regime = "slow" /\ Slow!Init

MCNext ==
  /\ UNCHANGED regime
  /\ IF regime = "push" THEN Next /\ UNCHANGED vars2
     ELSE /\ UNCHANGED vars
          /\ \/ regime = "faults" /\ Faults!Next
             \/ regime = "rest" /\ Rest!Next
             \/ regime = "slow" /\ Slow!Next

\* One of two actions, as the regime is.
Either(f, r) == (regime = "faults" /\ f) \/ (regime = "rest" /\ r)

MCFairness ==
  /\ WF_vars2(Either(Faults!PullTick, Rest!PullTick))
  /\ WF_vars2(Either(Faults!HandleStatus, Rest!HandleStatus))
  /\ WF_vars2(Either(Faults!ApplyResult, Rest!ApplyResult))
  /\ WF_vars2(Either(Faults!HandleConfigEvent \/ Faults!HandleUsersEvent,
                     Rest!HandleConfigEvent \/ Rest!HandleUsersEvent))
  /\ SF_vars2(Either(Faults!FetchConfig, Rest!FetchConfig))
  /\ SF_vars2(Either(Faults!FetchUsers, Rest!FetchUsers))
  /\ WF_vars2(Either(Faults!Publish, Rest!Publish))

MCSpec == MCInit /\ [][MCNext]_<<regime, vars, vars2>> /\ MCFairness

-----------------------------------------------------------------------------
(* Properties of the regimes that have the second copy                     *)

\* A change of users alone is applied or rolled back as a whole, whatever fails.
AtomicDespiteFaults ==
  [][ regime = "faults" /\ Faults!HandleUsersEvent
        => Faults!Applied \/ Faults!RolledBack ]_vars2

\* A requested resync is over some time, whatever becomes of its poll.
ResyncEndsDespiteFaults == Faults!ResyncEnds

\* Polls alone take the node back only by a result that was overtaken.
SlowGoesBackOnlyOvertaken ==
  [][ regime = "slow" /\ (want2'.cfg < want2.cfg \/ want2'.users < want2.users)
        => results2 # <<>> /\ Head(results2).overtaken ]_vars2

\* Polls in order end up with what the panel holds.
RestIsConsistent == regime = "rest" => Rest!EventualConsistency
=============================================================================
