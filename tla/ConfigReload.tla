---------------------------- MODULE ConfigReload -----------------------------
(***************************************************************************)
(* The life of the process: runWithReload of cmd/tx-node/main.go and the   *)
(* watcher of internal/config.                                             *)
(*                                                                         *)
(* One round of the loop starts a watcher, a signal handler and the        *)
(* services of a configuration, and ends with them.  The file is edited,   *)
(* signals arrive and services fail at any moment; the watcher's timer     *)
(* loads the file in a goroutine of its own, so that loads may overlap.    *)
(***************************************************************************)
EXTENDS Integers, Sequences, FiniteSets

CONSTANTS Contents,   \* of the file: kind and health_port
          MaxEdits,   \* bound: edits of the file
          MaxSignals  \* bound: signals

ConfigReloadAssumption ==
  /\ \A c \in Contents : c.kind \in {"good", "unreadable", "conflict"} /\ c.port \in Nat
  /\ MaxEdits \in Nat /\ MaxSignals \in Nat

VARIABLES file, edits,  \* the file, and how often it was edited
          root,         \* the configuration of this round
          main,         \* runWithReload
          live,         \* the context of this round
          services,     \* of this round
          failed,       \* errCh holds an error
          watcher,      \* the goroutine, an event for it, its timer
          loads,        \* loads of the file under way
          reloadCh, new,
          signals,      \* signals sent
          sigCh,        \* a signal waits in the channel
          handler,      \* the signal goroutine of this round
          watchdog,     \* 15 seconds from a signal taken in any round
          health,       \* the port healthSrv listens on, and healthPort
          missed        \* the last edit never reached the loop (history)

reloadVars == <<file, edits, root, main, live, services, failed, watcher, loads, reloadCh,
                new, signals, sigCh, handler, watchdog, health, missed>>

Quiet == [on |-> FALSE, event |-> FALSE, timer |-> FALSE]
Nobody == [kind |-> "none", port |-> 0]
Over == {"stopped", "exit", "killed"}

\* The first configuration was read and its health server started.
Init ==
  /\ file \in {c \in Contents : c.kind # "unreadable"} /\ edits = 0
  /\ root = file /\ main = "round" /\ live = FALSE /\ services = "none"
  /\ watcher = Quiet /\ loads = {} /\ reloadCh = << >> /\ new = Nobody
  /\ failed = FALSE /\ signals = 0 /\ sigCh = FALSE /\ handler = "none" /\ watchdog = FALSE
  /\ health = [open |-> root.port, healthPort |-> root.port]
  /\ missed = FALSE

Exits(how) == main' = how
outside == <<file, edits>>

-----------------------------------------------------------------------------
(* A round                                                                 *)

\* startHealth, after the server of another port was closed.
Started(h, port) == [open |-> port, healthPort |-> IF port > 0 THEN port ELSE h.healthPort]

\* The watcher may be unavailable; a conflict between instances, or a port in
\* use, ends the process.
Round(watching) ==
  /\ main = "round"
  /\ watcher' = [Quiet EXCEPT !.on = watching]
  /\ live' = TRUE /\ handler' = "waiting" /\ sigCh' = FALSE /\ loads' = {} /\ reloadCh' = << >>
  /\ new' = Nobody /\ failed' = FALSE
  /\ IF root.kind = "conflict"
     THEN Exits("exit") /\ UNCHANGED <<health, services>>
     ELSE /\ health' = IF root.port = health.healthPort THEN health ELSE Started(health, root.port)
          /\ \/ Exits("serve") /\ services' = "up"
             \/ root.port # health.healthPort /\ root.port > 0 /\ Exits("exit") /\ UNCHANGED services
  /\ UNCHANGED <<outside, root, signals, watchdog, missed>>

\* A service fails: the others are cancelled.
ServiceFails ==
  /\ services = "up" /\ live /\ live' = FALSE /\ failed' = TRUE
  /\ UNCHANGED <<outside, root, main, services, watcher, loads, reloadCh, new, signals, sigCh,
                 handler, watchdog, health, missed>>

ServicesStop ==
  /\ services = "up" /\ ~live /\ services' = "down"
  /\ UNCHANGED <<outside, root, main, live, failed, watcher, loads, reloadCh, new, signals, sigCh,
                 handler, watchdog, health, missed>>

TakeReload ==
  /\ main = "serve" /\ reloadCh # << >>
  /\ new' = Head(reloadCh) /\ reloadCh' = << >>
  /\ live' = FALSE /\ main' = "draining"
  /\ UNCHANGED <<outside, root, services, failed, watcher, loads, signals, sigCh, handler, watchdog,
                 health, missed>>

\* The services are down, with or without a configuration to go on with.
Drained ==
  /\ main \in {"serve", "draining"} /\ services = "down" /\ main' = "ending"
  /\ UNCHANGED <<outside, root, live, services, failed, watcher, loads, reloadCh, new, signals, sigCh,
                 handler, watchdog, health, missed>>

\* What the watcher, a load or the channel still holds is of a round that is
\* over.
Unseen == watcher.event \/ watcher.timer \/ file \in loads \/ reloadCh = <<file>>

End ==
  /\ main = "ending"
  /\ watcher' = Quiet /\ loads' = {} /\ reloadCh' = << >> /\ handler' = "none" /\ sigCh' = FALSE
  /\ services' = "none"
  /\ IF new = Nobody
     THEN main' = (IF failed THEN "exit" ELSE "stopped") /\ UNCHANGED <<root, missed>>
     ELSE main' = "round" /\ root' = new /\ missed' = (new # file /\ (missed \/ Unseen))
  /\ UNCHANGED <<outside, live, failed, new, signals, watchdog, health>>

-----------------------------------------------------------------------------
(* The watcher                                                             *)

Edit(c) ==
  /\ main \notin Over /\ edits < MaxEdits
  /\ file' = c /\ edits' = edits + 1
  /\ watcher' = [watcher EXCEPT !.event = watcher.on]
  /\ missed' = (missed \/ ~watcher.on)
  /\ UNCHANGED <<root, main, live, services, failed, loads, reloadCh, new, signals, sigCh, handler,
                 watchdog, health>>

\* The timer is set, or set again.
TakeEvent ==
  /\ watcher.on /\ watcher.event
  /\ watcher' = [watcher EXCEPT !.event = FALSE, !.timer = TRUE]
  /\ UNCHANGED <<outside, root, main, live, services, failed, loads, reloadCh, new, signals, sigCh, handler,
                 watchdog, health, missed>>

\* The context of the round is over: the goroutine takes its timer with it.
WatcherEnds ==
  /\ watcher.on /\ ~live
  /\ watcher' = Quiet
  /\ missed' = (missed \/ watcher.event \/ watcher.timer)
  /\ UNCHANGED <<outside, root, main, live, services, failed, loads, reloadCh, new, signals, sigCh, handler,
                 watchdog, health>>

\* Mutant: a load that is under way is thought to do.
LoadedOnce(c) == IF c.kind = "unreadable" \/ loads # {} THEN loads ELSE loads \cup {c}
\* LoadRoot: what cannot be read is logged and ignored.
Load(c) == IF c.kind = "unreadable" THEN loads ELSE loads \cup {c}

Fire ==
  /\ watcher.timer
  /\ watcher' = [watcher EXCEPT !.timer = FALSE]
  /\ loads' = Load(file)
  /\ UNCHANGED <<outside, root, main, live, services, failed, reloadCh, new, signals, sigCh, handler,
                 watchdog, health, missed>>

\* A full channel drops it.
Deliver(c) ==
  /\ c \in loads /\ loads' = loads \ {c}
  /\ IF reloadCh = << >>
     THEN reloadCh' = <<c>> /\ UNCHANGED missed
     ELSE missed' = (missed \/ (c = file /\ reloadCh # <<file>>)) /\ UNCHANGED reloadCh
  /\ UNCHANGED <<outside, root, main, live, services, failed, watcher, new, signals, sigCh, handler,
                 watchdog, health>>

-----------------------------------------------------------------------------
(* Signals                                                                 *)

\* Between two rounds nobody is notified and a signal has its default effect.
Signal ==
  /\ main \notin Over /\ signals < MaxSignals /\ signals' = signals + 1
  /\ IF main = "round"
     THEN Exits("killed") /\ UNCHANGED sigCh
     ELSE sigCh' = TRUE /\ UNCHANGED main
  /\ UNCHANGED <<outside, root, live, services, failed, watcher, loads, reloadCh, new, handler,
                 watchdog, health, missed>>

\* The first cancels the round and starts the clock, the second exits.
TakeSignal ==
  /\ main \notin Over /\ sigCh /\ sigCh' = FALSE
  /\ \/ /\ handler = "waiting" /\ handler' = "armed"
        /\ watchdog' = TRUE /\ live' = FALSE /\ UNCHANGED main
     \/ handler = "armed" /\ Exits("exit") /\ UNCHANGED <<handler, watchdog, live>>
  /\ UNCHANGED <<outside, root, services, failed, watcher, loads, reloadCh, new, signals, health, missed>>

\* The round is over, by whatever: a signal that waits or comes later is taken
\* by nobody.
HandlerEnds ==
  /\ handler = "waiting" /\ ~live /\ main \notin Over
  /\ handler' = "gone"
  /\ UNCHANGED <<outside, root, main, live, services, failed, watcher, loads, reloadCh, new, signals,
                 sigCh, watchdog, health, missed>>

\* Whatever round it is by then.
TimesOut ==
  /\ watchdog /\ main \notin Over /\ Exits("exit")
  /\ UNCHANGED <<outside, root, live, services, failed, watcher, loads, reloadCh, new, signals, sigCh,
                 handler, watchdog, health, missed>>

Next ==
  \/ \E watching \in BOOLEAN : Round(watching)
  \/ ServiceFails \/ ServicesStop \/ TakeReload \/ Drained \/ End
  \/ \E c \in Contents : Edit(c) \/ Deliver(c)
  \/ TakeEvent \/ WatcherEnds \/ Fire
  \/ Signal \/ TakeSignal \/ HandlerEnds \/ TimesOut

Spec == Init /\ [][Next]_reloadVars

-----------------------------------------------------------------------------
(* Properties                                                              *)

\* Once the watcher and the loop have nothing in hand, the services run with
\* the file as it is, whatever edits, overlapping loads and reloads went
\* before; unless the file cannot be read, or its last edit came between two
\* watchers, to a round that was ending, or behind an older load that was
\* still in the channel.
RunsTheFile ==
  main = "serve" /\ live /\ ~missed /\ ~watcher.event /\ ~watcher.timer /\ loads = {} /\ reloadCh = << >> =>
    file.kind = "unreadable" \/ root = file
=============================================================================
