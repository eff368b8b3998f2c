------------------------------ MODULE PushLink -------------------------------
(***************************************************************************)
(* The push connection of a node: the goroutines of internal/panel/ws.go,  *)
(* the lifecycle that internal/pushsync keeps of them and push_adapter.go, *)
(* by which the Service follows it.                                        *)
(*                                                                         *)
(* A client is a goroutine that connects and reconnects until its context  *)
(* is cancelled.  It speaks to the Service through two channels, statuses  *)
(* and events, of which the select loop takes in any order.  Of the events *)
(* only device snapshots are here: what the others do is in NodeSync.      *)
(***************************************************************************)
EXTENDS Integers, Sequences

CONSTANTS StatusCap,   \* capacity of the status channel
          EventCap,    \* capacity of the event channel
          MaxClients   \* bound: clients made

PushLinkAssumption ==
  StatusCap \in Nat \ {0} /\ EventCap \in Nat \ {0} /\ MaxClients \in Nat \ {0}

VARIABLES offered,   \* the panel offers push
          clients,   \* the goroutines of WSClient.Run
          made,      \* clients made
          control,   \* pushsync.Controller: client, cancel (whose) and disconnectedAt
          statuses, events,
          devices,   \* the kernel has global devices
          serving,   \* the Service: "setup", "loop" or "over"
          noise      \* the last status was lost, or not that of the installed client (history)

pushLinkVars == <<offered, clients, made, control, statuses, events, devices, serving, noise>>

Clients == 1..MaxClients
NoClient == [pc |-> "none", cancelled |-> FALSE, spoke |-> FALSE, late |-> FALSE]

\* SetBootstrapClient, or not; Start comes with the loop.
Init ==
  /\ offered \in BOOLEAN
  /\ clients = [c \in Clients |-> IF c = 1 /\ offered THEN [NoClient EXCEPT !.pc = "made"] ELSE NoClient]
  /\ made = IF offered THEN 1 ELSE 0
  /\ control = [client |-> made, cancel |-> 0, disconnected |-> FALSE]
  /\ statuses = << >> /\ events = << >> /\ devices = FALSE /\ serving = "setup" /\ noise = FALSE

-----------------------------------------------------------------------------
(* WSClient.Run                                                            *)

\* The status callback: a full channel drops it.
Notify(c, connected) ==
  IF Len(statuses) < StatusCap
  THEN /\ statuses' = Append(statuses, connected)
       /\ noise' = (c # control.client)
  ELSE noise' = TRUE /\ UNCHANGED statuses

Becomes(c, pc) == clients' = [clients EXCEPT ![c].pc = pc, ![c].spoke = TRUE]

\* connect succeeds up to the first message; nobody looks at the context
\* between the dial and the report of it.
Connects(c) ==
  /\ clients[c].pc = "dialing"
  /\ Becomes(c, "up") /\ Notify(c, TRUE)
  /\ UNCHANGED <<offered, made, control, events, devices, serving>>

\* The dial or the authentication fails, cancelled or not; so does the read or
\* the write of a connection that is up.  A failed write does not wait for the
\* reader, which may have a message in hand.
Fails(c, late) ==
  /\ clients[c].pc \in {"dialing", "up"} /\ (late => clients[c].pc = "up")
  /\ clients' = [clients EXCEPT ![c].pc = "waiting", ![c].spoke = TRUE, ![c].late = late]
  /\ Notify(c, FALSE)
  /\ UNCHANGED <<offered, made, control, events, devices, serving>>

\* The backoff is over, or the context is.
Retries(c) ==
  /\ clients[c].pc = "waiting"
  /\ clients' = [clients EXCEPT ![c].pc = IF clients[c].cancelled THEN "ended" ELSE "dialing"]
  /\ UNCHANGED <<offered, made, control, statuses, events, devices, serving, noise>>

\* The context is cancelled: a close frame, and the wait for the reader, which
\* has no deadline: until the panel answers, messages are still handled.
Closes(c) ==
  /\ clients[c].pc = "up" /\ clients[c].cancelled
  /\ Becomes(c, "closing")
  /\ UNCHANGED <<offered, made, control, statuses, events, devices, serving, noise>>

PanelCloses(c) ==
  /\ clients[c].pc = "closing"
  /\ Becomes(c, "ended") /\ Notify(c, FALSE)
  /\ UNCHANGED <<offered, made, control, events, devices, serving>>

\* A device snapshot is read: by the reader, or late by one left behind.  A
\* full channel drops it and asks for a resync, on the status channel, where
\* it counts as a connection.
Receives(c) ==
  /\ clients[c].pc \in {"up", "closing"} \/ clients[c].late
  /\ clients' = [clients EXCEPT ![c].late = FALSE]
  /\ IF Len(events) < EventCap
     THEN events' = Append(events, TRUE) /\ UNCHANGED <<statuses, noise>>
     ELSE /\ UNCHANGED events
          /\ IF Len(statuses) < StatusCap
             THEN /\ statuses' = Append(statuses, TRUE)
                  /\ noise' = (noise \/ c # control.client \/ clients[c].pc # "up")
             ELSE UNCHANGED <<statuses, noise>>
  /\ UNCHANGED <<offered, made, control, devices, serving>>

-----------------------------------------------------------------------------
(* The Service's loop                                                      *)

Launched(c) == [clients EXCEPT ![c] = [NoClient EXCEPT !.pc = "dialing"]]

Start ==
  /\ serving = "setup" /\ serving' = "loop"
  /\ IF control.client # 0 /\ control.cancel = 0
     THEN clients' = Launched(control.client) /\ control' = [control EXCEPT !.cancel = control.client]
     ELSE UNCHANGED <<clients, control>>
  /\ UNCHANGED <<offered, made, statuses, events, devices, noise>>

\* Mutant: a disconnection is never forgotten.
Remembered(connected) == control.disconnected \/ ~connected
\* ObserveStatus.
Observed(connected) == ~connected

\* handlePushStatus.
HandleStatus ==
  /\ serving = "loop" /\ statuses # << >>
  /\ statuses' = Tail(statuses)
  /\ control' = [control EXCEPT !.disconnected = Observed(Head(statuses))]
  /\ devices' = (devices /\ Head(statuses))
  /\ UNCHANGED <<offered, clients, made, events, serving, noise>>

HandleEvent ==
  /\ serving = "loop" /\ events # << >>
  /\ events' = Tail(events) /\ devices' = TRUE
  /\ UNCHANGED <<offered, clients, made, control, statuses, serving, noise>>

\* needsDiscovery: ten minutes are a possibility at any time.
NeedsDiscovery == control.client = 0 \/ control.disconnected

\* Discover, the panel offering push where there was none.
Enable ==
  /\ serving = "loop" /\ NeedsDiscovery /\ offered /\ control.client = 0 /\ made < MaxClients
  /\ made' = made + 1
  /\ control' = [client |-> made', cancel |-> made', disconnected |-> FALSE]
  /\ clients' = Launched(made')
  /\ UNCHANGED <<offered, statuses, events, devices, serving, noise>>

\* Mutant: the goroutine is left to its own.
LeftRunning(c) == clients
Cancelled(c) == IF c = 0 THEN clients ELSE [clients EXCEPT ![c].cancelled = TRUE]

\* Discover, the panel no longer offering it.
Disable ==
  /\ serving = "loop" /\ NeedsDiscovery /\ ~offered /\ control.client # 0
  /\ clients' = Cancelled(control.cancel)
  /\ control' = [client |-> 0, cancel |-> 0, disconnected |-> FALSE]
  /\ UNCHANGED <<offered, made, statuses, events, devices, serving, noise>>

\* The loop returns: Stop, and the context every client descends from.
Stop ==
  /\ serving = "loop"
  /\ serving' = "over"
  /\ clients' = [c \in Clients |-> IF clients[c].pc = "none" THEN clients[c]
                                   ELSE [clients[c] EXCEPT !.cancelled = TRUE]]
  /\ control' = [control EXCEPT !.cancel = 0]
  /\ UNCHANGED <<offered, made, statuses, events, devices, noise>>

Offer ==
  /\ offered' = ~offered
  /\ UNCHANGED <<clients, made, control, statuses, events, devices, serving, noise>>

Next ==
  \/ \E c \in Clients :
       \/ Connects(c) \/ Retries(c) \/ Closes(c) \/ PanelCloses(c) \/ Receives(c)
       \/ \E late \in BOOLEAN : Fails(c, late)
  \/ Start \/ HandleStatus \/ HandleEvent \/ Enable \/ Disable \/ Stop \/ Offer

Spec == Init /\ [][Next]_pushLinkVars

-----------------------------------------------------------------------------
(* Properties                                                              *)

Running(c) == clients[c].pc \notin {"none", "made", "ended"} /\ ~clients[c].cancelled

\* However often the panel takes push away and gives it back, and however long
\* an old connection takes to close, the one client that goes on connecting is
\* the installed one, and the Service can cancel it.
OneLink == \A c \in Clients : Running(c) => c = control.client /\ c = control.cancel

\* What the Service believes of the link is true once it has taken all
\* statuses, unless the last were dropped or another client's: it may then
\* look for push again, or never.
StatusFollows ==
  serving = "loop" /\ control.client # 0 /\ statuses = << >> /\ ~noise /\ clients[control.client].spoke =>
    control.disconnected = (clients[control.client].pc # "up")
=============================================================================
