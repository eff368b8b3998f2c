---------------------------- MODULE Panel_proofs -----------------------------
(***************************************************************************)
(* Proofs about what a node tells the panel and what the panel tells it:   *)
(* PushLink, DeviceReports, Audit and NodeOps, for any capacity of the     *)
(* channels, queues and caches.                                            *)
(*                                                                         *)
(* OneLink is inductive with the types: no step of a client makes it run   *)
(* again once it was cancelled, and the Service launches one only when it  *)
(* has none that it could cancel.  What the Service believes is the last   *)
(* status under way, or what it made of the last it took (FollowInv); in   *)
(* the same way the last message on the wire tells what the change         *)
(* detector saw (ToldInv).  EventsAccounted is inductive with the types.   *)
(* The cache of results is the end of the list of what was run (OnceInv).  *)
(***************************************************************************)
EXTENDS NodeParts, SequenceTheorems, TLAPS

-----------------------------------------------------------------------------
(* PushLink                                                                *)

PushSteps == {"none", "made", "dialing", "up", "waiting", "closing", "ended"}

PushRecords == [pc : PushSteps, cancelled : BOOLEAN, spoke : BOOLEAN, late : BOOLEAN]

PushType ==
  /\ offered \in BOOLEAN
  /\ clients \in [PL!Clients -> PushRecords]
  /\ made \in 0..MaxClients
  /\ control \in [client : 0..MaxClients, cancel : 0..MaxClients, disconnected : BOOLEAN]
  /\ statuses \in Seq(BOOLEAN) /\ Len(statuses) <= StatusCap
  /\ events \in Seq({TRUE}) /\ Len(events) <= EventCap
  /\ devices \in BOOLEAN /\ serving \in {"setup", "loop", "over"} /\ noise \in BOOLEAN

\* What a bounded channel of any messages makes of a send and of a receive.
LEMMA SendFits ==
  ASSUME NEW S, NEW s \in Seq(S), NEW m \in S, NEW n \in Nat, Len(s) < n
  PROVE  Append(s, m) \in Seq(S) /\ Len(Append(s, m)) <= n
OBVIOUS

\* A receive leaves room.
LEMMA ReceiveFits ==
  ASSUME NEW S, NEW s \in Seq(S), NEW n \in Nat, Len(s) <= n, s # << >>
  PROVE  Head(s) \in S /\ Tail(s) \in Seq(S) /\ Len(Tail(s)) <= n
OBVIOUS

\* A goroutine as it is made and as the Service launches it.
LEMMA NoClientType == PL!NoClient \in PushRecords /\ [PL!NoClient EXCEPT !.pc = "made"] \in PushRecords
                        /\ [PL!NoClient EXCEPT !.pc = "dialing"] \in PushRecords
BY DEF PL!NoClient, PushRecords, PushSteps

\* The status callback keeps the channel within its capacity.
LEMMA NotifyType ==
  ASSUME PL!PushLinkAssumption, PushType, NEW c \in PL!Clients, NEW b \in BOOLEAN, PL!Notify(c, b)
  PROVE  statuses' \in Seq(BOOLEAN) /\ Len(statuses') <= StatusCap /\ noise' \in BOOLEAN
<1>1. CASE Len(statuses) < StatusCap
  <2>1. statuses' = Append(statuses, b) /\ noise' \in BOOLEAN
    BY <1>1 DEF PL!Notify
  <2>2. statuses \in Seq(BOOLEAN) /\ StatusCap \in Nat
    BY DEF PushType, PL!PushLinkAssumption
  <2> QED BY <1>1, <2>1, <2>2, SendFits
<1>2. CASE ~(Len(statuses) < StatusCap)
  BY <1>2 DEF PL!Notify, PushType
<1> QED BY <1>1, <1>2

\* No client at first.
LEMMA PushInitType == PL!PushLinkAssumption /\ PL!Init => PushType
<1> SUFFICES ASSUME PL!PushLinkAssumption, PL!Init PROVE PushType
  OBVIOUS
<1>1. clients \in [PL!Clients -> PushRecords]
  BY NoClientType DEF PL!Init
<1>2. made \in 0..MaxClients /\ control \in [client : 0..MaxClients, cancel : 0..MaxClients, disconnected : BOOLEAN]
  <2>1. made \in 0..MaxClients /\ 0 \in 0..MaxClients
    BY DEF PL!Init, PL!PushLinkAssumption
  <2> QED BY <2>1 DEF PL!Init
<1>3. /\ statuses \in Seq(BOOLEAN) /\ Len(statuses) <= StatusCap
      /\ events \in Seq({TRUE}) /\ Len(events) <= EventCap
  BY DEF PL!Init, PL!PushLinkAssumption
<1> QED BY <1>1, <1>2, <1>3 DEF PL!Init, PushType

\* A client that goes on to another step of its loop.
LEMMA BecomesType ==
  ASSUME PushType, NEW c \in PL!Clients, NEW pc \in PushSteps, PL!Becomes(c, pc)
  PROVE  clients' \in [PL!Clients -> PushRecords]
<1>1. clients' = [clients EXCEPT ![c] = [@ EXCEPT !.pc = pc, !.spoke = TRUE]]
  BY DEF PL!Becomes
<1>2. clients \in [PL!Clients -> PushRecords]
  BY DEF PushType
<1>3. [clients[c] EXCEPT !.pc = pc, !.spoke = TRUE] \in PushRecords
  BY <1>2 DEF PushRecords
<1> QED BY <1>1, <1>2, <1>3

\* The steps of one client.
LEMMA ClientType ==
  ASSUME PL!PushLinkAssumption, PushType, NEW c \in PL!Clients,
         \/ PL!Connects(c) \/ PL!Retries(c) \/ PL!Closes(c) \/ PL!PanelCloses(c)
         \/ \E late \in BOOLEAN : PL!Fails(c, late)
  PROVE  PushType'
<1>1. CASE PL!Connects(c)
  <2>1. statuses' \in Seq(BOOLEAN) /\ Len(statuses') <= StatusCap /\ noise' \in BOOLEAN
    BY <1>1, NotifyType DEF PL!Connects
  <2>2. clients' \in [PL!Clients -> PushRecords]
    BY <1>1, BecomesType DEF PL!Connects, PushSteps
  <2> QED BY <1>1, <2>1, <2>2 DEF PL!Connects, PushType
<1>2. CASE PL!Retries(c)
  BY <1>2 DEF PL!Retries, PushType, PushRecords, PushSteps
<1>3. CASE PL!Closes(c)
  <2>1. clients' \in [PL!Clients -> PushRecords]
    BY <1>3, BecomesType DEF PL!Closes, PushSteps
  <2> QED BY <1>3, <2>1 DEF PL!Closes, PushType
<1>4. CASE PL!PanelCloses(c)
  <2>1. statuses' \in Seq(BOOLEAN) /\ Len(statuses') <= StatusCap /\ noise' \in BOOLEAN
    BY <1>4, NotifyType DEF PL!PanelCloses
  <2>2. clients' \in [PL!Clients -> PushRecords]
    BY <1>4, BecomesType DEF PL!PanelCloses, PushSteps
  <2> QED BY <1>4, <2>1, <2>2 DEF PL!PanelCloses, PushType
<1>5. ASSUME NEW late \in BOOLEAN, PL!Fails(c, late)
      PROVE  PushType'
  <2>1. statuses' \in Seq(BOOLEAN) /\ Len(statuses') <= StatusCap /\ noise' \in BOOLEAN
    BY <1>5, NotifyType DEF PL!Fails
  <2>2. clients' \in [PL!Clients -> PushRecords]
    <3>1. clients' = [clients EXCEPT ![c] = [@ EXCEPT !.pc = "waiting", !.spoke = TRUE, !.late = late]]
      BY <1>5 DEF PL!Fails
    <3>2. clients \in [PL!Clients -> PushRecords]
      BY DEF PushType
    <3>3. [clients[c] EXCEPT !.pc = "waiting", !.spoke = TRUE, !.late = late] \in PushRecords
      BY <3>2 DEF PushRecords, PushSteps
    <3> QED BY <3>1, <3>2, <3>3
  <2> QED BY <1>5, <2>1, <2>2 DEF PL!Fails, PushType
<1> QED BY <1>1, <1>2, <1>3, <1>4, <1>5

\* A snapshot that is read goes into the channel, or asks for a resync.
LEMMA ReceivesType ==
  ASSUME PL!PushLinkAssumption, PushType, NEW c \in PL!Clients, PL!Receives(c)
  PROVE  PushType'
<1>1. clients' \in [PL!Clients -> PushRecords]
  BY DEF PL!Receives, PushType, PushRecords
<1>2. events' \in Seq({TRUE}) /\ Len(events') <= EventCap
  <2>1. CASE Len(events) < EventCap
    <3>1. events' = Append(events, TRUE)
      BY <2>1 DEF PL!Receives
    <3> QED BY <2>1, <3>1, SendFits DEF PushType, PL!PushLinkAssumption
  <2>2. CASE ~(Len(events) < EventCap)
    BY <2>2 DEF PL!Receives, PushType
  <2> QED BY <2>1, <2>2
<1>3. statuses' \in Seq(BOOLEAN) /\ Len(statuses') <= StatusCap /\ noise' \in BOOLEAN
  <2>1. CASE Len(events) < EventCap
    BY <2>1 DEF PL!Receives, PushType
  <2>2. CASE ~(Len(events) < EventCap) /\ Len(statuses) < StatusCap
    <3>1. statuses' = Append(statuses, TRUE) /\ noise' = (noise \/ c # control.client \/ clients[c].pc # "up")
      BY <2>2 DEF PL!Receives
    <3>2. statuses' \in Seq(BOOLEAN) /\ Len(statuses') <= StatusCap
      BY <2>2, <3>1, SendFits DEF PushType, PL!PushLinkAssumption
    <3> QED BY <3>1, <3>2
  <2>3. CASE ~(Len(events) < EventCap) /\ ~(Len(statuses) < StatusCap)
    BY <2>3 DEF PL!Receives, PushType
  <2> QED BY <2>1, <2>2, <2>3
<1> QED BY <1>1, <1>2, <1>3 DEF PL!Receives, PushType

\* The steps of the Service.
LEMMA PushServiceType ==
  ASSUME PL!PushLinkAssumption, PushType,
         PL!Start \/ PL!HandleStatus \/ PL!HandleEvent \/ PL!Enable \/ PL!Disable \/ PL!Stop \/ PL!Offer
  PROVE  PushType'
<1>1. CASE PL!Start
  <2>1. clients' \in [PL!Clients -> PushRecords]
    BY <1>1, NoClientType DEF PL!Start, PL!Launched, PushType
  <2>2. control' \in [client : 0..MaxClients, cancel : 0..MaxClients, disconnected : BOOLEAN]
    BY <1>1 DEF PL!Start, PushType
  <2> QED BY <1>1, <2>1, <2>2 DEF PL!Start, PushType
<1>2. CASE PL!HandleStatus
  <2>1. Head(statuses) \in BOOLEAN /\ statuses' \in Seq(BOOLEAN) /\ Len(statuses') <= StatusCap
    BY <1>2, ReceiveFits DEF PL!HandleStatus, PushType, PL!PushLinkAssumption
  <2>2. control' \in [client : 0..MaxClients, cancel : 0..MaxClients, disconnected : BOOLEAN]
    BY <1>2 DEF PL!HandleStatus, PL!Observed, PushType
  <2>3. devices' \in BOOLEAN
    BY <1>2 DEF PL!HandleStatus
  <2> QED BY <1>2, <2>1, <2>2, <2>3 DEF PL!HandleStatus, PushType
<1>3. CASE PL!HandleEvent
  <2>1. events' \in Seq({TRUE}) /\ Len(events') <= EventCap
    BY <1>3, ReceiveFits DEF PL!HandleEvent, PushType, PL!PushLinkAssumption
  <2> QED BY <1>3, <2>1 DEF PL!HandleEvent, PushType
<1>4. CASE PL!Enable
  <2>1. clients' \in [PL!Clients -> PushRecords]
    BY <1>4, NoClientType DEF PL!Enable, PL!Launched, PushType
  <2>2. made' \in 0..MaxClients
    BY <1>4 DEF PL!Enable, PushType, PL!PushLinkAssumption
  <2>3. control' \in [client : 0..MaxClients, cancel : 0..MaxClients, disconnected : BOOLEAN]
    BY <1>4, <2>2 DEF PL!Enable
  <2> QED BY <1>4, <2>1, <2>2, <2>3 DEF PL!Enable, PushType
<1>5. CASE PL!Disable
  <2>1. clients' \in [PL!Clients -> PushRecords]
    BY <1>5 DEF PL!Disable, PL!Cancelled, PushType, PushRecords
  <2>2. control' \in [client : 0..MaxClients, cancel : 0..MaxClients, disconnected : BOOLEAN]
    BY <1>5 DEF PL!Disable, PL!PushLinkAssumption
  <2> QED BY <1>5, <2>1, <2>2 DEF PL!Disable, PushType
<1>6. CASE PL!Stop
  <2>1. clients' \in [PL!Clients -> PushRecords]
    BY <1>6 DEF PL!Stop, PushType, PushRecords
  <2>2. control' \in [client : 0..MaxClients, cancel : 0..MaxClients, disconnected : BOOLEAN]
    <3>1. control' = [control EXCEPT !.cancel = 0] /\ 0 \in 0..MaxClients
      BY <1>6 DEF PL!Stop, PL!PushLinkAssumption
    <3>2. control \in [client : 0..MaxClients, cancel : 0..MaxClients, disconnected : BOOLEAN]
      BY DEF PushType
    <3> QED BY <3>1, <3>2
  <2> QED BY <1>6, <2>1, <2>2 DEF PL!Stop, PushType
<1>7. CASE PL!Offer
  BY <1>7 DEF PL!Offer, PushType
<1> QED BY <1>1, <1>2, <1>3, <1>4, <1>5, <1>6, <1>7

\* Every step keeps the types.
LEMMA PushNextType == PL!PushLinkAssumption /\ PushType /\ [PL!Next]_(PL!pushLinkVars) => PushType'
<1> SUFFICES ASSUME PL!PushLinkAssumption, PushType, [PL!Next]_(PL!pushLinkVars) PROVE PushType'
  OBVIOUS
<1>1. CASE \E c \in PL!Clients : \/ PL!Connects(c) \/ PL!Retries(c) \/ PL!Closes(c) \/ PL!PanelCloses(c)
                              \/ \E late \in BOOLEAN : PL!Fails(c, late)
  BY <1>1, ClientType
<1>2. CASE \E c \in PL!Clients : PL!Receives(c)
  BY <1>2, ReceivesType
<1>3. CASE PL!Start \/ PL!HandleStatus \/ PL!HandleEvent \/ PL!Enable \/ PL!Disable \/ PL!Stop \/ PL!Offer
  BY <1>3, PushServiceType
<1>4. CASE UNCHANGED PL!pushLinkVars
  BY <1>4 DEF PL!pushLinkVars, PushType
<1> QED BY <1>1, <1>2, <1>3, <1>4 DEF PL!Next

-----------------------------------------------------------------------------
(* Push clients: one goes on connecting                                    *)

\* The Service may start with a client.
LEMMA InitOneLink == PL!PushLinkAssumption /\ PL!Init => PL!OneLink
BY DEF PL!PushLinkAssumption, PL!Init, PL!OneLink, PL!Running, PL!Clients, PL!NoClient

\* A step of a client cancels nothing and revives nobody.
LEMMA ClientOneLink ==
  ASSUME PushType, PL!OneLink, NEW c \in PL!Clients,
         \/ PL!Connects(c) \/ PL!Retries(c) \/ PL!Closes(c) \/ PL!PanelCloses(c) \/ PL!Receives(c)
         \/ \E late \in BOOLEAN : PL!Fails(c, late)
  PROVE  PL!OneLink'
<1>1. control' = control
  BY DEF PL!Connects, PL!Retries, PL!Closes, PL!PanelCloses, PL!Receives, PL!Fails
<1>2. \A d \in PL!Clients : PL!Running(d)' => PL!Running(d)
  <2> SUFFICES ASSUME NEW d \in PL!Clients, PL!Running(d)' PROVE PL!Running(d)
    OBVIOUS
  <2>1. CASE PL!Connects(c)
    BY <2>1 DEF PL!Connects, PL!Becomes, PL!Running, PushRecords, PushType
  <2>2. CASE PL!Retries(c)
    BY <2>2 DEF PL!Retries, PL!Running, PushRecords, PushType
  <2>3. CASE PL!Closes(c)
    BY <2>3 DEF PL!Closes, PL!Becomes, PL!Running, PushRecords, PushType
  <2>4. CASE PL!PanelCloses(c)
    BY <2>4 DEF PL!PanelCloses, PL!Becomes, PL!Running, PushRecords, PushType
  <2>5. CASE PL!Receives(c)
    BY <2>5 DEF PL!Receives, PL!Running, PushRecords, PushType
  <2>6. ASSUME NEW late \in BOOLEAN, PL!Fails(c, late)
        PROVE  PL!Running(d)
    <3>1. clients[c].pc \in {"dialing", "up"} /\ clients'[d].cancelled = clients[d].cancelled
            /\ (d # c => clients'[d] = clients[d])
      <4>1. clients' = [clients EXCEPT ![c] = [@ EXCEPT !.pc = "waiting", !.spoke = TRUE, !.late = late]]
        BY <2>6 DEF PL!Fails
      <4>2. clients \in [PL!Clients -> PushRecords] /\ clients[c].pc \in {"dialing", "up"}
        BY <2>6 DEF PL!Fails, PushType
      <4> QED BY <4>1, <4>2 DEF PushRecords
    <3> QED BY <3>1 DEF PL!Running
  <2> QED BY <2>1, <2>2, <2>3, <2>4, <2>5, <2>6
<1> QED BY <1>1, <1>2 DEF PL!OneLink

\* The Service launches a client only when none runs, and whom it forgets it
\* has cancelled.
LEMMA ServiceOneLink ==
  ASSUME PL!PushLinkAssumption, PushType, PL!OneLink,
         PL!Start \/ PL!HandleStatus \/ PL!HandleEvent \/ PL!Enable \/ PL!Disable \/ PL!Stop \/ PL!Offer
  PROVE  PL!OneLink'
<1>1. CASE PL!Start
  <2>1. CASE control.client # 0 /\ control.cancel = 0
    <3>1. \A d \in PL!Clients : ~PL!Running(d)
      BY <2>1 DEF PL!OneLink, PL!Clients
    <3> QED BY <1>1, <2>1, <3>1 DEF PL!Start, PL!Launched, PL!OneLink, PL!Running, PushRecords, PushType
  <2>2. CASE ~(control.client # 0 /\ control.cancel = 0)
    BY <1>1, <2>2 DEF PL!Start, PL!OneLink, PL!Running
  <2> QED BY <2>1, <2>2
<1>2. CASE PL!HandleStatus
  BY <1>2 DEF PL!HandleStatus, PL!OneLink, PL!Running, PushRecords, PushType
<1>3. CASE PL!HandleEvent
  BY <1>3 DEF PL!HandleEvent, PL!OneLink, PL!Running
<1>4. CASE PL!Enable
  <2>1. \A d \in PL!Clients : ~PL!Running(d)
    BY <1>4 DEF PL!Enable, PL!OneLink, PL!Clients
  <2> QED BY <1>4, <2>1 DEF PL!Enable, PL!Launched, PL!OneLink, PL!Running, PushRecords, PushType
<1>5. CASE PL!Disable
  <2>1. \A d \in PL!Clients : ~PL!Running(d)'
    BY <1>5 DEF PL!Disable, PL!Cancelled, PL!OneLink, PL!Running, PL!Clients, PushType
  <2> QED BY <2>1 DEF PL!OneLink
<1>6. CASE PL!Stop
  <2>1. \A d \in PL!Clients : ~PL!Running(d)'
    BY <1>6 DEF PL!Stop, PL!Running, PushRecords, PushType
  <2> QED BY <2>1 DEF PL!OneLink
<1>7. CASE PL!Offer
  BY <1>7 DEF PL!Offer, PL!OneLink, PL!Running
<1> QED BY <1>1, <1>2, <1>3, <1>4, <1>5, <1>6, <1>7

\* Every step keeps one client.
LEMMA NextOneLink == PL!PushLinkAssumption /\ PushType /\ PL!OneLink /\ [PL!Next]_(PL!pushLinkVars) => PL!OneLink'
<1> SUFFICES ASSUME PL!PushLinkAssumption, PushType, PL!OneLink, [PL!Next]_(PL!pushLinkVars) PROVE PL!OneLink'
  OBVIOUS
<1>1. CASE \E c \in PL!Clients : \/ PL!Connects(c) \/ PL!Retries(c) \/ PL!Closes(c) \/ PL!PanelCloses(c) \/ PL!Receives(c)
                              \/ \E late \in BOOLEAN : PL!Fails(c, late)
  BY <1>1, ClientOneLink
<1>2. CASE PL!Start \/ PL!HandleStatus \/ PL!HandleEvent \/ PL!Enable \/ PL!Disable \/ PL!Stop \/ PL!Offer
  BY <1>2, ServiceOneLink
<1>3. CASE UNCHANGED PL!pushLinkVars
  BY <1>3 DEF PL!pushLinkVars, PL!OneLink, PL!Running
<1> QED BY <1>1, <1>2, <1>3 DEF PL!Next

\* Every variable keeps its type; the channels stay within their capacity.
THEOREM PushTypeCorrect == PL!Spec => []PushType
<1>1. PL!Init => PushType
  BY PartsAssumption, PushInitType
<1>2. PushType /\ [PL!Next]_(PL!pushLinkVars) => PushType'
  BY PartsAssumption, PushNextType
<1> QED BY <1>1, <1>2, PTL DEF PL!Spec

\* OneLink: however often push is taken away and given back, and however late
\* cancelled clients close, the one that goes on connecting is installed and can be
\* cancelled.
THEOREM OneClientRuns == PL!Spec => []OneLink
<1>1. PL!Init => PushType /\ PL!OneLink
  BY PartsAssumption, PushInitType, InitOneLink
<1>2. PushType /\ PL!OneLink /\ [PL!Next]_(PL!pushLinkVars) => PushType' /\ PL!OneLink'
  BY PartsAssumption, PushNextType, NextOneLink
<1> QED BY <1>1, <1>2, PTL DEF PL!Spec, OneLink

-----------------------------------------------------------------------------
(* Push clients: what the Service believes                                 *)

\* The last word under way, or what was made of it when there is none.
Believed == IF Len(statuses) = 0 THEN ~control.disconnected ELSE statuses[Len(statuses)]

\* The installed client is cancelled only when the loop returns, and since its
\* first status the last word is the truth, unless it was lost or another's.
FollowInv ==
  serving # "over" /\ control.client # 0 =>
    /\ ~clients[control.client].cancelled
    /\ ~noise /\ clients[control.client].spoke => Believed = (clients[control.client].pc = "up")

\* The last of a channel after a send, and after a receive.
LEMMA LastSent ==
  ASSUME NEW S, NEW s \in Seq(S), NEW m \in S
  PROVE  Len(Append(s, m)) # 0 /\ Append(s, m)[Len(Append(s, m))] = m
OBVIOUS

\* After a receive the last is the last.
LEMMA LastReceived ==
  ASSUME NEW S, NEW s \in Seq(S), s # << >>
  PROVE  IF Len(Tail(s)) = 0 THEN Head(s) = s[Len(s)] ELSE Tail(s)[Len(Tail(s))] = s[Len(s)]
<1>1. /\ Len(s) \in Nat \ {0} /\ Len(Tail(s)) = Len(s) - 1 /\ Head(s) = s[1]
      /\ \A i \in 1..Len(s) - 1 : Tail(s)[i] = s[i + 1]
  OBVIOUS
<1>2. CASE Len(s) = 1
  BY <1>1, <1>2
<1>3. CASE Len(s) # 1
  <2>1. Len(s) - 1 \in 1..Len(s) - 1
    BY <1>1, <1>3
  <2>2. Tail(s)[Len(s) - 1] = s[Len(s) - 1 + 1]
    BY <1>1, <2>1
  <2> QED BY <1>1, <1>3, <2>2
<1> QED BY <1>2, <1>3

\* What the callback of a client leaves to be believed.
LEMMA NotifyFollows ==
  ASSUME PL!PushLinkAssumption, PushType, NEW c \in PL!Clients, NEW b \in BOOLEAN, PL!Notify(c, b), control' = control
  PROVE  noise' \/ (c = control.client /\ Believed' = b)
<1>1. CASE Len(statuses) < StatusCap
  <2>1. statuses' = Append(statuses, b) /\ noise' = (c # control.client) /\ statuses \in Seq(BOOLEAN)
    BY <1>1 DEF PL!Notify, PushType
  <2> QED BY <2>1, LastSent DEF Believed
<1>2. CASE ~(Len(statuses) < StatusCap)
  BY <1>2 DEF PL!Notify
<1> QED BY <1>1, <1>2

\* Before its first status nothing is believed of a client.
LEMMA InitFollows == PL!PushLinkAssumption /\ PL!Init => FollowInv
BY DEF PL!PushLinkAssumption, PL!Init, FollowInv, PL!Clients, PL!NoClient

\* A step of another client that says nothing, or of this one.
LEMMA ClientFollows ==
  ASSUME PL!PushLinkAssumption, PushType, FollowInv, NEW c \in PL!Clients,
         \/ PL!Connects(c) \/ PL!Retries(c) \/ PL!Closes(c) \/ PL!PanelCloses(c) \/ PL!Receives(c)
         \/ \E late \in BOOLEAN : PL!Fails(c, late)
  PROVE  FollowInv'
<1> SUFFICES ASSUME serving # "over", control.client # 0
             PROVE  /\ ~clients'[control.client].cancelled
                    /\ ~noise' /\ clients'[control.client].spoke =>
                         Believed' = (clients'[control.client].pc = "up")
  BY DEF PL!Connects, PL!Retries, PL!Closes, PL!PanelCloses, PL!Receives, PL!Fails, FollowInv
<1> DEFINE cc == control.client
<1>0. /\ control' = control /\ cc \in PL!Clients /\ clients \in [PL!Clients -> PushRecords]
      /\ ~clients[cc].cancelled
      /\ ~noise /\ clients[cc].spoke => Believed = (clients[cc].pc = "up")
  <2>1. control' = control
    BY DEF PL!Connects, PL!Retries, PL!Closes, PL!PanelCloses, PL!Receives, PL!Fails
  <2>2. cc \in PL!Clients /\ clients \in [PL!Clients -> PushRecords]
    BY DEF PushType, PL!Clients
  <2> QED BY <2>1, <2>2 DEF FollowInv
<1> HIDE DEF cc
<1>1. CASE PL!Connects(c)
  <2>1. noise' \/ (c = cc /\ Believed' = TRUE)
    BY <1>0, <1>1, NotifyFollows DEF PL!Connects, cc
  <2> QED BY <1>0, <1>1, <2>1 DEF PL!Connects, PL!Becomes, PushRecords, cc
<1>2. CASE PL!Retries(c)
  BY <1>0, <1>2 DEF PL!Retries, PushRecords, Believed, cc
<1>3. CASE PL!Closes(c)
  <2>1. c # cc
    BY <1>0, <1>3 DEF PL!Closes
  <2> QED BY <1>0, <1>3, <2>1 DEF PL!Closes, PL!Becomes, PushRecords, Believed, cc
<1>4. CASE PL!PanelCloses(c)
  <2>1. noise' \/ (c = cc /\ Believed' = FALSE)
    BY <1>0, <1>4, NotifyFollows DEF PL!PanelCloses, cc
  <2> QED BY <1>0, <1>4, <2>1 DEF PL!PanelCloses, PL!Becomes, PushRecords, cc
<1>5. CASE PL!Receives(c)
  <2>1. /\ clients'[cc].cancelled = clients[cc].cancelled
        /\ clients'[cc].spoke = clients[cc].spoke /\ clients'[cc].pc = clients[cc].pc
    BY <1>0, <1>5 DEF PL!Receives, PushRecords
  <2>2. CASE UNCHANGED <<statuses, noise>>
    BY <1>0, <2>1, <2>2 DEF Believed, cc
  <2>3. CASE statuses' = Append(statuses, TRUE) /\ noise' = (noise \/ c # cc \/ clients[c].pc # "up")
    <3>1. statuses \in Seq(BOOLEAN)
      BY DEF PushType
    <3>2. Believed' = TRUE
      BY <2>3, <3>1, LastSent DEF Believed
    <3> QED BY <1>0, <2>1, <2>3, <3>2 DEF cc
  <2> QED BY <1>5, <2>2, <2>3 DEF PL!Receives, cc
<1>6. ASSUME NEW late \in BOOLEAN, PL!Fails(c, late)
      PROVE  /\ ~clients'[cc].cancelled
             /\ ~noise' /\ clients'[cc].spoke => Believed' = (clients'[cc].pc = "up")
  <2>1. noise' \/ (c = cc /\ Believed' = FALSE)
    BY <1>0, <1>6, NotifyFollows DEF PL!Fails, cc
  <2>2. clients' = [clients EXCEPT ![c] = [@ EXCEPT !.pc = "waiting", !.spoke = TRUE, !.late = late]]
    BY <1>6 DEF PL!Fails
  <2> QED BY <1>0, <2>1, <2>2 DEF PushRecords
<1> QED BY <1>1, <1>2, <1>3, <1>4, <1>5, <1>6 DEF cc

\* What the Service makes of a status.
LEMMA ServiceFollows ==
  ASSUME PL!PushLinkAssumption, PushType, FollowInv,
         PL!Start \/ PL!HandleStatus \/ PL!HandleEvent \/ PL!Enable \/ PL!Disable \/ PL!Stop \/ PL!Offer
  PROVE  FollowInv'
<1>1. CASE PL!Start
  <2>1. CASE control.client # 0 /\ control.cancel = 0
    <3>1. clients' = PL!Launched(control.client) /\ control'.client = control.client
      BY <1>1, <2>1 DEF PL!Start, PushType
    <3>2. control.client \in PL!Clients /\ clients \in [PL!Clients -> PushRecords]
      BY <2>1 DEF PushType, PL!Clients
    <3>3. ~clients'[control.client].cancelled /\ ~clients'[control.client].spoke
      BY <3>1, <3>2 DEF PL!Launched, PL!NoClient
    <3> QED BY <3>1, <3>3 DEF FollowInv
  <2>2. CASE ~(control.client # 0 /\ control.cancel = 0)
    BY <1>1, <2>2 DEF PL!Start, FollowInv, Believed
  <2> QED BY <2>1, <2>2
<1>2. CASE PL!HandleStatus
  <2>1. statuses \in Seq(BOOLEAN) /\ statuses # << >> /\ statuses' = Tail(statuses) /\ Head(statuses) \in BOOLEAN
    BY <1>2, ReceiveFits DEF PL!HandleStatus, PushType, PL!PushLinkAssumption
  <2>2. control'.disconnected = ~Head(statuses) /\ control'.client = control.client
    BY <1>2 DEF PL!HandleStatus, PL!Observed, PushType
  <2>3. Len(statuses) # 0
    BY <2>1
  <2>4. IF Len(Tail(statuses)) = 0 THEN Head(statuses) = statuses[Len(statuses)]
          ELSE Tail(statuses)[Len(Tail(statuses))] = statuses[Len(statuses)]
    BY <2>1, LastReceived
  <2>5. Believed' = Believed
    BY <2>1, <2>2, <2>3, <2>4 DEF Believed
  <2> QED BY <1>2, <2>2, <2>5 DEF PL!HandleStatus, FollowInv
<1>3. CASE PL!HandleEvent
  BY <1>3 DEF PL!HandleEvent, FollowInv, Believed
<1>4. CASE PL!Enable
  <2>1. clients' = PL!Launched(made') /\ control'.client = made' /\ made' \in PL!Clients
    BY <1>4 DEF PL!Enable, PushType, PL!Clients, PL!PushLinkAssumption
  <2>2. ~clients'[made'].cancelled /\ ~clients'[made'].spoke
    BY <2>1 DEF PL!Launched, PL!NoClient, PushType
  <2> QED BY <2>1, <2>2 DEF FollowInv
<1>5. CASE PL!Disable
  BY <1>5 DEF PL!Disable, FollowInv
<1>6. CASE PL!Stop
  BY <1>6 DEF PL!Stop, FollowInv
<1>7. CASE PL!Offer
  BY <1>7 DEF PL!Offer, FollowInv, Believed
<1> QED BY <1>1, <1>2, <1>3, <1>4, <1>5, <1>6, <1>7

\* Every step keeps what is believed.
LEMMA NextFollows == PL!PushLinkAssumption /\ PushType /\ FollowInv /\ [PL!Next]_(PL!pushLinkVars) => FollowInv'
<1> SUFFICES ASSUME PL!PushLinkAssumption, PushType, FollowInv, [PL!Next]_(PL!pushLinkVars) PROVE FollowInv'
  OBVIOUS
<1>1. CASE UNCHANGED PL!pushLinkVars
  BY <1>1 DEF PL!pushLinkVars, FollowInv, Believed
<1> QED BY <1>1, ClientFollows, ServiceFollows DEF PL!Next

\* StatusFollows: once it has taken all statuses the Service believes of the link
\* what is true, unless the last were dropped or another client's.
THEOREM ServiceKnowsLink == PL!Spec => []StatusFollows
<1>1. PL!Init => PushType /\ FollowInv
  BY PartsAssumption, PushInitType, InitFollows
<1>2. PushType /\ FollowInv /\ [PL!Next]_(PL!pushLinkVars) => PushType' /\ FollowInv'
  BY PartsAssumption, PushNextType, NextFollows
<1>3. PushType /\ FollowInv => StatusFollows
  BY DEF PushType, PushRecords, FollowInv, Believed, StatusFollows, PL!StatusFollows, PL!Clients
<1> QED BY <1>1, <1>2, <1>3, PTL DEF PL!Spec

-----------------------------------------------------------------------------
(* DeviceReports                                                           *)

DeviceType ==
  /\ live \subseteq Devices /\ buffer \subseteq Devices /\ panel \subseteq Devices
  /\ \E s \in SUBSET Devices : lastHash = Hash[s]
  /\ connected \in BOOLEAN /\ settled \in BOOLEAN /\ stopped \in BOOLEAN
  /\ wire \in Seq(SUBSET Devices) /\ Len(wire) <= WireCap
  /\ report \in [pc : {"idle", "reading", "flight"}, shared : BOOLEAN, alive : SUBSET Devices]
  /\ pending \in [source : {"none", "own", "buffer"}, alive : SUBSET Devices]

\* What the panel will know of, once the wire is empty.
Told == IF Len(wire) = 0 THEN panel ELSE wire[Len(wire)]

\* A batch with devices of its own is reported as it is.  Unless something was
\* lost or overtaken the buffer is what the change detector saw, and the last
\* message, of whichever transport, tells it.
ToldInv ==
  /\ report.pc # "idle" /\ pending.source = "own" => ~report.shared /\ report.alive = pending.alive
  /\ settled =>
       /\ Hash[buffer] = lastHash
       /\ IF report.pc = "idle" \/ report.alive = {} THEN Told = buffer
          ELSE report.alive = buffer /\ Len(wire) = 0

\* A message at the end of the wire.
LEMMA WireSends ==
  ASSUME NEW s \in Seq(SUBSET Devices), NEW m \in SUBSET Devices
  PROVE  /\ Append(s, m) \in Seq(SUBSET Devices) /\ Len(Append(s, m)) = Len(s) + 1
         /\ Len(s) \in Nat /\ Append(s, m)[Len(s) + 1] = m
OBVIOUS

\* The last message is the last whoever reads the first.
LEMMA WireReads ==
  ASSUME NEW s \in Seq(SUBSET Devices), s # << >>
  PROVE  /\ Head(s) \in SUBSET Devices /\ Tail(s) \in Seq(SUBSET Devices) /\ Len(s) \in Nat \ {0}
         /\ Len(Tail(s)) = Len(s) - 1
         /\ (IF Len(Tail(s)) = 0 THEN Head(s) ELSE Tail(s)[Len(Tail(s))]) = s[Len(s)]
<1>1. /\ Len(s) \in Nat \ {0} /\ Len(Tail(s)) = Len(s) - 1 /\ Head(s) = s[1]
      /\ Head(s) \in SUBSET Devices /\ Tail(s) \in Seq(SUBSET Devices)
      /\ \A i \in 1..Len(s) - 1 : Tail(s)[i] = s[i + 1]
  OBVIOUS
<1>2. CASE Len(s) = 1
  BY <1>1, <1>2
<1>3. CASE Len(s) # 1
  <2>1. Len(s) - 1 \in 1..Len(s) - 1
    BY <1>1, <1>3
  <2>2. Tail(s)[Len(s) - 1] = s[Len(s) - 1 + 1]
    BY <1>1, <2>1
  <2> QED BY <1>1, <1>3, <2>2
<1> QED BY <1>2, <1>3

\* The panel knows of nobody, and there is nobody.
LEMMA DeviceInit == DR!DeviceReportsAssumption /\ DR!Init => DeviceType /\ ToldInv
<1> SUFFICES ASSUME DR!DeviceReportsAssumption, DR!Init PROVE DeviceType /\ ToldInv
  OBVIOUS
<1>1. wire \in Seq(SUBSET Devices) /\ Len(wire) = 0 /\ WireCap \in Nat
  BY DEF DR!Init, DR!DeviceReportsAssumption
<1>2. report = [pc |-> "idle", shared |-> FALSE, alive |-> {}]
  BY DEF DR!Init, DR!Free
<1>3. pending \in [source : {"none", "own", "buffer"}, alive : SUBSET Devices]
  BY DEF DR!Init, DR!NoBatch
<1>4. DeviceType
  <2>1. lastHash = Hash[{}] /\ {} \in SUBSET Devices
    BY DEF DR!Init
  <2>2. report \in [pc : {"idle", "reading", "flight"}, shared : BOOLEAN, alive : SUBSET Devices]
    BY <1>2
  <2>3. /\ live = {} /\ buffer = {} /\ panel = {}
        /\ connected \in BOOLEAN /\ settled \in BOOLEAN /\ stopped \in BOOLEAN
    BY DEF DR!Init
  <2> QED BY <1>1, <1>3, <2>1, <2>2, <2>3 DEF DeviceType
<1>5. ToldInv
  BY <1>1, <1>2 DEF DR!Init, ToldInv, Told
<1> QED BY <1>4, <1>5

\* The change detector puts what it saw in the buffer and on the wire.
LEMMA DeviceTicks ==
  ASSUME DR!DeviceReportsAssumption, DeviceType, ToldInv, DR!DeviceTick
  PROVE  DeviceType' /\ ToldInv'
<1>1. /\ UNCHANGED <<live, connected, pending, panel>> /\ lastHash' = Hash[live] /\ buffer' = live
      /\ wire' = (IF Len(wire) < WireCap THEN Append(wire, live) ELSE wire)
      /\ settled' = (Len(wire) < WireCap /\ ~DR!Overtakes)
  BY DEF DR!DeviceTick, DR!Flush, DR!Refilled
<1>2. wire \in Seq(SUBSET Devices) /\ Len(wire) <= WireCap /\ live \in SUBSET Devices /\ WireCap \in Nat
  BY DEF DeviceType, DR!DeviceReportsAssumption
<1>3. wire' \in Seq(SUBSET Devices) /\ Len(wire') <= WireCap
  BY <1>1, <1>2, WireSends
<1>4. /\ report' \in [pc : {"idle", "reading", "flight"}, shared : BOOLEAN, alive : SUBSET Devices]
      /\ stopped' \in BOOLEAN
  <2>1. CASE report.pc = "reading" /\ report.shared
    <3>1. PICK s \in SUBSET (buffer \cup live) : report' = [report EXCEPT !.alive = s]
      BY <2>1 DEF DR!DeviceTick, DR!Torn
    <3>2. s \in SUBSET Devices
      BY DEF DeviceType
    <3> QED BY <2>1, <3>1, <3>2 DEF DR!DeviceTick, DR!Torn, DeviceType
  <2>2. CASE ~(report.pc = "reading" /\ report.shared)
    BY <2>2 DEF DR!DeviceTick, DR!Torn, DeviceType
  <2> QED BY <2>1, <2>2
<1>5. DeviceType'
  BY <1>1, <1>2, <1>3, <1>4 DEF DeviceType
<1>6. ToldInv'
  <2>0. report'.pc # "idle" /\ pending'.source = "own" =>
          ~report'.shared /\ report'.alive = pending'.alive
    <3>1. CASE report.pc = "reading" /\ report.shared
      BY <1>1, <3>1 DEF ToldInv
    <3>2. CASE ~(report.pc = "reading" /\ report.shared)
      BY <1>1, <3>2 DEF ToldInv, DR!DeviceTick, DR!Torn
    <3> QED BY <3>1, <3>2
  <2> SUFFICES ASSUME settled'
               PROVE  /\ Hash[buffer'] = lastHash' /\ Told' = buffer'
                      /\ report'.pc = "idle" \/ report'.alive = {}
    BY <2>0 DEF ToldInv
  <2>1. Len(wire) < WireCap /\ (report.pc = "idle" \/ (~report.shared /\ report.alive = {}))
    BY <1>1 DEF DR!Overtakes
  <2>2. report' = report
    BY <2>1 DEF DR!DeviceTick, DR!Torn
  <2>3. wire' = Append(wire, live)
    BY <1>1, <2>1
  <2>4. Told' = live
    BY <1>2, <2>3, WireSends DEF Told
  <2> QED BY <1>1, <2>1, <2>2, <2>4
<1> QED BY <1>5, <1>6

\* The report tick takes the buffer when there is no connection.
LEMMA DeviceReportTicks ==
  ASSUME DR!DeviceReportsAssumption, DeviceType, ToldInv, NEW traffic \in BOOLEAN, DR!ReportTick(traffic)
  PROVE  DeviceType' /\ ToldInv'
<1>1. /\ UNCHANGED <<live, connected, wire, panel, stopped>> /\ report.pc = "idle"
      /\ report' = [pc |-> "reading", shared |-> DR!Changed, alive |-> IF DR!Changed THEN live ELSE {}]
  BY DEF DR!ReportTick
<1>2. DR!Changed \in BOOLEAN
  BY DEF DR!Changed
<1>3. pending' \in [source : {"none", "own", "buffer"}, alive : SUBSET Devices]
  BY DEF DR!ReportTick, DR!NoBatch
<1>4. live \in SUBSET Devices
  BY DEF DeviceType
<1>5. report' \in [pc : {"idle", "reading", "flight"}, shared : BOOLEAN, alive : SUBSET Devices]
  BY <1>1, <1>2, <1>4
<1>6. CASE DR!Changed
  <2>1. lastHash' = Hash[live] /\ buffer' = live /\ settled' = (live # {} /\ wire = << >>)
    BY <1>6 DEF DR!ReportTick, DR!Flush, DR!Refilled
  <2>2. DeviceType'
    BY <1>1, <1>3, <1>4, <1>5, <2>1 DEF DeviceType
  <2>3. settled' => Len(wire') = 0 /\ report'.alive = live
    BY <1>1, <1>6, <2>1
  <2>4. pending'.source # "own"
    BY <1>6 DEF DR!ReportTick, DR!NoBatch
  <2> QED BY <1>1, <2>1, <2>2, <2>3, <2>4 DEF ToldInv
<1>7. CASE ~DR!Changed
  <2>1. UNCHANGED <<lastHash, buffer, settled>>
    BY <1>7 DEF DR!ReportTick
  <2>2. DeviceType'
    BY <1>1, <1>3, <1>5, <2>1 DEF DeviceType
  <2>3. report'.alive = {} /\ ~report'.shared
    BY <1>1, <1>7
  <2>4. pending'.alive = {}
    BY <1>7 DEF DR!ReportTick, DR!NoBatch
  <2> QED BY <1>1, <2>1, <2>2, <2>3, <2>4 DEF ToldInv, Told
<1> QED BY <1>6, <1>7

\* A report that failed is put back.
LEMMA DeviceReplays ==
  ASSUME DR!DeviceReportsAssumption, DeviceType, ToldInv, DR!ReplayTick
  PROVE  DeviceType' /\ ToldInv'
<1> DEFINE alive == IF pending.source = "buffer" THEN buffer ELSE pending.alive
<1>1. /\ report.pc = "idle" /\ UNCHANGED <<live, lastHash, buffer, connected, wire, pending, panel, stopped>>
      /\ report' = [pc |-> "reading", shared |-> pending.source = "buffer", alive |-> alive]
      /\ settled' = (settled /\ alive \in {{}, buffer} /\ wire = << >>)
  BY DEF DR!ReplayTick
<1>2. alive \in SUBSET Devices /\ (pending.source = "buffer") \in BOOLEAN
  BY DEF DeviceType
<1> HIDE DEF alive
<1>3. report' \in [pc : {"idle", "reading", "flight"}, shared : BOOLEAN, alive : SUBSET Devices]
  BY <1>1, <1>2
<1>4. DeviceType'
  BY <1>1, <1>3 DEF DeviceType
<1>5. settled' => settled /\ report'.alive \in {{}, buffer} /\ Len(wire') = 0
  BY <1>1
<1>6. pending' = pending /\ (pending.source = "own" => ~report'.shared /\ report'.alive = pending.alive)
  BY <1>1 DEF alive
<1> QED BY <1>1, <1>4, <1>5, <1>6 DEF ToldInv, Told

\* A report reaches the panel, or does not.
LEMMA DeviceReportEnds ==
  ASSUME DR!DeviceReportsAssumption, DeviceType, ToldInv,
         DR!Lost \/ \E answered \in BOOLEAN : DR!Received(answered)
  PROVE  DeviceType' /\ ToldInv'
<1>1. /\ report.pc = "flight" /\ UNCHANGED <<live, lastHash, connected, wire, stopped>>
      /\ report' = [pc |-> "idle", shared |-> FALSE, alive |-> {}]
      /\ pending' \in {pending, DR!NoBatch}
  BY DEF DR!Lost, DR!Received, DR!Free
<1>2. pending' \in [source : {"none", "own", "buffer"}, alive : SUBSET Devices]
  BY <1>1 DEF DeviceType, DR!NoBatch
<1>3. CASE DR!Lost
  <2>1. /\ panel' = panel /\ settled' = (report.alive = {} /\ pending.source # "own" /\ settled)
        /\ buffer' = IF pending.source = "own" THEN buffer \cup pending.alive ELSE buffer
    BY <1>3 DEF DR!Lost, DR!Restored
  <2>2. buffer' \in SUBSET Devices /\ settled' \in BOOLEAN
    BY <2>1 DEF DeviceType
  <2>3. DeviceType'
    BY <1>1, <1>2, <2>1, <2>2 DEF DeviceType
  <2> QED BY <1>1, <2>1, <2>3 DEF ToldInv, Told
<1>4. CASE \E answered \in BOOLEAN : DR!Received(answered)
  <2>1. /\ settled' = settled /\ panel' = IF report.alive = {} THEN panel ELSE report.alive
        /\ buffer' = buffer \/ (pending.source = "own" /\ buffer' = buffer \cup pending.alive)
    BY <1>4 DEF DR!Received, DR!Restored
  <2>2. DeviceType'
    BY <1>1, <1>2, <2>1 DEF DeviceType
  <2>3. settled => buffer' = buffer
    BY <1>1, <2>1 DEF ToldInv
  <2> QED BY <1>1, <2>1, <2>2, <2>3 DEF ToldInv, Told
<1> QED BY <1>3, <1>4

\* Every step keeps the invariant.
LEMMA DeviceNext ==
  DR!DeviceReportsAssumption /\ DeviceType /\ ToldInv /\ [DR!Next]_(DR!deviceVars) => DeviceType' /\ ToldInv'
<1> SUFFICES ASSUME DR!DeviceReportsAssumption, DeviceType, ToldInv, [DR!Next]_(DR!deviceVars)
             PROVE  DeviceType' /\ ToldInv'
  OBVIOUS
<1>1. CASE \E s \in SUBSET Devices : DR!Process(s)
  BY <1>1 DEF DR!Process, DeviceType, ToldInv, Told
<1>2. CASE DR!Arrives
  <2>1. /\ wire # << >> /\ panel' = Head(wire) /\ wire' = Tail(wire) /\ wire \in Seq(SUBSET Devices)
        /\ UNCHANGED <<live, lastHash, buffer, connected, report, pending, settled, stopped>>
    BY <1>2 DEF DR!Arrives, DeviceType
  <2>2. /\ panel' \in SUBSET Devices /\ wire' \in Seq(SUBSET Devices) /\ Len(wire) \in Nat \ {0}
        /\ Len(wire') = Len(wire) - 1
        /\ (IF Len(wire') = 0 THEN panel' ELSE wire'[Len(wire')]) = wire[Len(wire)]
    BY <2>1, WireReads
  <2>3. DeviceType'
    BY <2>1, <2>2 DEF DeviceType, DR!DeviceReportsAssumption
  <2> QED BY <2>1, <2>2, <2>3 DEF ToldInv, Told
<1>3. CASE DR!Link
  <2>1. /\ wire' = << >> /\ settled' = (settled /\ wire = << >>) /\ connected' = ~connected
        /\ UNCHANGED <<live, lastHash, buffer, report, pending, panel, stopped>>
    BY <1>3 DEF DR!Link
  <2>2. wire' \in Seq(SUBSET Devices) /\ Len(wire') = 0 /\ WireCap \in Nat
    BY <2>1 DEF DR!DeviceReportsAssumption
  <2>3. DeviceType'
    BY <2>1, <2>2 DEF DeviceType
  <2> QED BY <2>1, <2>2, <2>3 DEF ToldInv, Told
<1>4. CASE DR!SaveFails
  <2>1. /\ ~settled' /\ lastHash' = Hash[live] /\ buffer' = live
        /\ UNCHANGED <<live, connected, wire, report, pending, panel, stopped>>
    BY <1>4 DEF DR!SaveFails, DR!Flush, DR!Refilled
  <2>2. settled' \in BOOLEAN
    BY <1>4 DEF DR!SaveFails
  <2> QED BY <2>1, <2>2 DEF DeviceType, ToldInv
<1>5. CASE DR!Marshalled
  BY <1>5 DEF DR!Marshalled, DeviceType, ToldInv, Told
<1>6. CASE UNCHANGED DR!deviceVars
  BY <1>6 DEF DR!deviceVars, DeviceType, ToldInv, Told
<1> QED BY <1>1, <1>2, <1>3, <1>4, <1>5, <1>6, DeviceTicks, DeviceReportTicks, DeviceReplays, DeviceReportEnds
      DEF DR!Next

\* LastFlushIsTold: when nothing is under way and nothing was lost, what the panel
\* knows is what the change detector saw last, whichever transport carried it.
THEOREM PanelKnowsLastFlush == DR!Spec => []LastFlushIsTold
<1>1. DR!Init => DeviceType /\ ToldInv
  BY PartsAssumption, DeviceInit
<1>2. DeviceType /\ ToldInv /\ [DR!Next]_(DR!deviceVars) => DeviceType' /\ ToldInv'
  BY PartsAssumption, DeviceNext
<1>3. ToldInv => LastFlushIsTold
  <2>1. wire = << >> => Len(wire) = 0
    OBVIOUS
  <2> QED BY <2>1 DEF ToldInv, Told, LastFlushIsTold, DR!LastFlushIsTold
<1> QED BY <1>1, <1>2, <1>3, PTL DEF DR!Spec

-----------------------------------------------------------------------------
(* Audit                                                                   *)

Numbers == 1..MaxEvents

AuditType ==
  /\ panelRules \in RuleSets /\ rules \in RuleSets \cup {{}}
  /\ waiting \in Seq(Numbers) /\ flush \in [left : 0..AuditBatches, batch : Seq(Numbers)]
  /\ flush.batch # << >> => flush.left > 0
  /\ observed \in 0..MaxEvents
  /\ dropped \subseteq Numbers /\ reported \subseteq Numbers /\ received \in [Numbers -> Nat]

Ascending(s) == \A i, j \in DOMAIN s : i < j => s[i] < s[j]

\* The elements of two queues put together.
LEMMA Joins ==
  ASSUME NEW S, NEW s \in Seq(S), NEW t \in Seq(S)
  PROVE  /\ s \o t \in Seq(S) /\ AU!Elements(s \o t) = AU!Elements(s) \cup AU!Elements(t)
         /\ AU!Elements(s) \subseteq S
<1>1. s \o t \in Seq(S) /\ AU!Elements(s) \subseteq S
  BY DEF AU!Elements
<1>2. AU!Elements(s \o t) = AU!Elements(s) \cup AU!Elements(t)
  <2>1. \A u \in Seq(S) : Range(u) = AU!Elements(u)
    BY DEF Range, AU!Elements
  <2>2. Range(s \o t) = Range(s) \cup Range(t)
    BY RangeConcatenation
  <2> QED BY <1>1, <2>1, <2>2
<1> QED BY <1>1, <1>2

\* What comes later in an ascending sequence is another number.
LEMMA AscendingParts ==
  ASSUME NEW s \in Seq(Numbers), NEW t \in Seq(Numbers), Ascending(s \o t)
  PROVE  Ascending(t) /\ AU!Elements(s) \cap AU!Elements(t) = {}
<1>1. /\ Len(s) \in Nat /\ Len(t) \in Nat /\ DOMAIN s = 1..Len(s) /\ DOMAIN t = 1..Len(t)
      /\ DOMAIN (s \o t) = 1..(Len(s) + Len(t))
      /\ \A i \in 1..(Len(s) + Len(t)) : (s \o t)[i] = IF i <= Len(s) THEN s[i] ELSE t[i - Len(s)]
  BY ConcatProperties, LenProperties
<1>2. \A i \in 1..Len(s), j \in 1..Len(t) : s[i] < t[j]
  <2> TAKE i \in 1..Len(s), j \in 1..Len(t)
  <2>1. /\ i \in 1..(Len(s) + Len(t)) /\ j + Len(s) \in 1..(Len(s) + Len(t)) /\ i < j + Len(s)
        /\ i <= Len(s) /\ ~(j + Len(s) <= Len(s)) /\ (j + Len(s)) - Len(s) = j
    BY <1>1
  <2>2. (s \o t)[i] < (s \o t)[j + Len(s)]
    BY <1>1, <2>1 DEF Ascending
  <2> QED BY <1>1, <2>1, <2>2
<1>3. \A i, j \in 1..Len(t) : i < j => t[i] < t[j]
  <2> SUFFICES ASSUME NEW i \in 1..Len(t), NEW j \in 1..Len(t), i < j PROVE t[i] < t[j]
    OBVIOUS
  <2>1. /\ i + Len(s) \in 1..(Len(s) + Len(t)) /\ j + Len(s) \in 1..(Len(s) + Len(t))
        /\ i + Len(s) < j + Len(s)
        /\ ~(i + Len(s) <= Len(s)) /\ ~(j + Len(s) <= Len(s))
        /\ (j + Len(s)) - Len(s) = j /\ (i + Len(s)) - Len(s) = i
    BY <1>1
  <2>2. (s \o t)[i + Len(s)] < (s \o t)[j + Len(s)]
    BY <1>1, <2>1 DEF Ascending
  <2> QED BY <1>1, <2>1, <2>2
<1>4. AU!Elements(s) \cap AU!Elements(t) = {}
  <2> SUFFICES ASSUME NEW x \in AU!Elements(s), x \in AU!Elements(t) PROVE FALSE
    OBVIOUS
  <2>1. PICK i \in 1..Len(s) : x = s[i]
    BY <1>1 DEF AU!Elements
  <2>2. PICK j \in 1..Len(t) : x = t[j]
    BY <1>1 DEF AU!Elements
  <2>3. s[i] < t[j]
    BY <1>2
  <2>4. s[i] \in Numbers
    BY ElementOfSeq
  <2> QED BY <2>1, <2>2, <2>3, <2>4 DEF Numbers
<1> QED BY <1>1, <1>3, <1>4 DEF Ascending

\* What is left of the first part still comes before the second.
LEMMA AscendingRest ==
  ASSUME NEW s \in Seq(Numbers), NEW t \in Seq(Numbers), Ascending(s \o t), NEW m \in 0..Len(s)
  PROVE  LET r == SubSeq(s, m + 1, Len(s)) IN
           /\ r \in Seq(Numbers) /\ Len(r) = Len(s) - m
           /\ AU!Elements(r) \subseteq AU!Elements(s) /\ Ascending(r \o t)
<1> DEFINE r == SubSeq(s, m + 1, Len(s))
<1>1. /\ Len(s) \in Nat /\ Len(t) \in Nat /\ DOMAIN s = 1..Len(s)
      /\ DOMAIN (s \o t) = 1..(Len(s) + Len(t))
      /\ \A i \in 1..(Len(s) + Len(t)) : (s \o t)[i] = IF i <= Len(s) THEN s[i] ELSE t[i - Len(s)]
  BY ConcatProperties, LenProperties
<1>2. \A i \in (m + 1)..Len(s) : s[i] \in Numbers
  BY <1>1, ElementOfSeq
<1>3. /\ r \in Seq(Numbers)
      /\ Len(r) = IF m + 1 <= Len(s) THEN Len(s) - (m + 1) + 1 ELSE 0
      /\ \A i \in 1..(Len(s) - (m + 1) + 1) : r[i] = s[(m + 1) + i - 1]
  BY <1>1, <1>2, SubSeqProperties
<1> HIDE DEF r
<1>4. Len(r) = Len(s) - m /\ Len(r) \in Nat /\ \A i \in 1..Len(r) : r[i] = s[m + i]
  <2>1. Len(r) = Len(s) - m /\ Len(r) \in Nat /\ Len(s) - (m + 1) + 1 = Len(r)
    <3>1. m \in Int /\ 0 <= m /\ m <= Len(s) /\ Len(s) \in Int
      BY <1>1
    <3>2. CASE m + 1 <= Len(s)
      BY <1>3, <3>1, <3>2
    <3>3. CASE ~(m + 1 <= Len(s))
      BY <1>3, <3>1, <3>3
    <3> QED BY <3>2, <3>3
  <2>2. \A i \in 1..Len(r) : (m + 1) + i - 1 = m + i
    BY <1>1, <2>1
  <2> QED BY <1>3, <2>1, <2>2
<1>5. /\ DOMAIN r = 1..Len(r)
      /\ DOMAIN (r \o t) = 1..(Len(r) + Len(t))
      /\ \A i \in 1..(Len(r) + Len(t)) : (r \o t)[i] = IF i <= Len(r) THEN r[i] ELSE t[i - Len(r)]
  <2>1. /\ r \o t \in Seq(Numbers) /\ Len(r \o t) = Len(r) + Len(t)
        /\ \A i \in 1..(Len(r) + Len(t)) : (r \o t)[i] = IF i <= Len(r) THEN r[i] ELSE t[i - Len(r)]
    BY <1>3, ConcatProperties
  <2>2. \A u \in Seq(Numbers) : DOMAIN u = 1..Len(u)
    BY LenProperties
  <2> QED BY <1>3, <2>1, <2>2
<1>6. AU!Elements(r) \subseteq AU!Elements(s)
  <2> SUFFICES ASSUME NEW i \in 1..Len(r) PROVE r[i] \in AU!Elements(s)
    BY <1>5 DEF AU!Elements
  <2>1. r[i] = s[m + i] /\ m + i \in 1..Len(s)
    BY <1>1, <1>4
  <2> QED BY <1>1, <2>1 DEF AU!Elements
<1>7. \A i \in 1..(Len(r) + Len(t)) : (r \o t)[i] = (s \o t)[m + i] /\ m + i \in 1..(Len(s) + Len(t))
  <2> TAKE i \in 1..(Len(r) + Len(t))
  <2>1. m + i \in 1..(Len(s) + Len(t)) /\ (m + i <= Len(s) <=> i <= Len(r)) /\ (m + i) - Len(s) = i - Len(r)
    BY <1>1, <1>4
  <2>2. CASE i <= Len(r)
    BY <1>1, <1>4, <1>5, <2>1, <2>2
  <2>3. CASE ~(i <= Len(r))
    BY <1>1, <1>5, <2>1, <2>3
  <2> QED BY <2>2, <2>3
<1>8. Ascending(r \o t)
  <2> SUFFICES ASSUME NEW i \in 1..(Len(r) + Len(t)), NEW j \in 1..(Len(r) + Len(t)), i < j
               PROVE  (r \o t)[i] < (r \o t)[j]
    BY <1>5 DEF Ascending
  <2>1. m + i < m + j
    BY <1>1, <1>4
  <2> QED BY <1>1, <1>7, <2>1 DEF Ascending
<1> QED BY <1>3, <1>4, <1>6, <1>8 DEF r

\* A number larger than all before goes last.
LEMMA AscendingMore ==
  ASSUME NEW s \in Seq(Numbers), Ascending(s), NEW n \in Numbers, \A x \in AU!Elements(s) : x < n
  PROVE  Ascending(Append(s, n)) /\ AU!Elements(Append(s, n)) = AU!Elements(s) \cup {n}
<1>1. /\ Len(s) \in Nat /\ DOMAIN s = 1..Len(s) /\ DOMAIN Append(s, n) = 1..(Len(s) + 1)
      /\ \A i \in 1..Len(s) : Append(s, n)[i] = s[i]
      /\ Append(s, n)[Len(s) + 1] = n
  BY AppendProperties, LenProperties
<1>2. \A i \in 1..Len(s) : s[i] < n
  BY <1>1 DEF AU!Elements
<1>3. \A i \in 1..(Len(s) + 1) : i \in 1..Len(s) \/ i = Len(s) + 1
  BY <1>1
<1>4. Ascending(Append(s, n))
  <2> SUFFICES ASSUME NEW i \in 1..(Len(s) + 1), NEW j \in 1..(Len(s) + 1), i < j
               PROVE  Append(s, n)[i] < Append(s, n)[j]
    BY <1>1 DEF Ascending
  <2>1. i \in 1..Len(s)
    BY <1>1
  <2> QED BY <1>1, <1>2, <1>3, <2>1 DEF Ascending
<1>5. AU!Elements(Append(s, n)) = AU!Elements(s) \cup {n}
  <2>1. AU!Elements(Append(s, n)) \subseteq AU!Elements(s) \cup {n}
    BY <1>1, <1>3 DEF AU!Elements
  <2>2. AU!Elements(s) \cup {n} \subseteq AU!Elements(Append(s, n))
    <3>1. n \in AU!Elements(Append(s, n))
      BY <1>1 DEF AU!Elements
    <3>2. ASSUME NEW i \in 1..Len(s) PROVE s[i] \in AU!Elements(Append(s, n))
      BY <1>1 DEF AU!Elements
    <3> QED BY <1>1, <3>1, <3>2 DEF AU!Elements
  <2> QED BY <2>1, <2>2
<1> QED BY <1>4, <1>5

\* No observation, nothing to account for.
LEMMA AuditInit == AU!AuditAssumption /\ AU!Init => AuditType /\ AU!EventsAccounted
<1> SUFFICES ASSUME AU!AuditAssumption, AU!Init PROVE AuditType /\ AU!EventsAccounted
  OBVIOUS
<1>1. AuditCap \in Nat /\ AuditBatches \in Nat /\ MaxEvents \in Nat
  BY DEF AU!AuditAssumption
<1>2. AuditType
  <2>1. flush \in [left : 0..AuditBatches, batch : Seq(Numbers)] /\ flush.batch = << >>
    BY <1>1 DEF AU!Init, AU!NoFlush
  <2>2. received \in [Numbers -> Nat] /\ observed \in 0..MaxEvents
    BY <1>1 DEF AU!Init, Numbers
  <2> QED BY <2>1, <2>2 DEF AU!Init, AuditType
<1>3. AU!Waiting = << >>
  BY DEF AU!Init, AU!NoFlush, AU!Waiting
<1>4. AU!Elements(AU!Waiting) = {} /\ DOMAIN AU!Waiting = {}
  BY <1>3 DEF AU!Elements
<1>5. Len(waiting) <= AuditCap /\ \A e \in 1..MaxEvents : received[e] = 0
  BY <1>1 DEF AU!Init
<1>6. 1..observed = {}
  BY DEF AU!Init
<1> QED BY <1>2, <1>4, <1>5, <1>6 DEF AU!Init, AU!EventsAccounted

\* What the books say of the sequence that waits.
LEMMA Accounts ==
  AU!EventsAccounted <=>
    /\ 1..observed = AU!Elements(AU!Waiting) \cup reported \cup dropped
    /\ AU!Elements(AU!Waiting) \cap (reported \cup dropped) = {} /\ reported \cap dropped = {}
    /\ Ascending(AU!Waiting)
    /\ Len(waiting) <= AuditCap
    /\ \A e \in Numbers : (e \in reported => received[e] > 0) /\ (Native => received[e] <= 1)
BY DEF AU!EventsAccounted, Ascending, Numbers

\* An observation goes to the end of the queue or is counted as dropped.
LEMMA AuditObserves ==
  ASSUME AU!AuditAssumption, AuditType, AU!EventsAccounted, NEW t \in Targets, AU!Observe(t)
  PROVE  AuditType' /\ AU!EventsAccounted'
<1> DEFINE n == observed + 1
<1>1. n \in Numbers /\ observed' = n /\ 1..n = 1..observed \cup {n} /\ n \notin 1..observed
  <2>1. observed \in Nat /\ observed < MaxEvents /\ MaxEvents \in Nat /\ observed' = n
    BY DEF AuditType, AU!Observe, AU!AuditAssumption
  <2> QED BY <2>1 DEF Numbers
<1>2. UNCHANGED <<panelRules, rules, flush, reported, received>>
  BY DEF AU!Observe
<1>3. waiting \in Seq(Numbers) /\ flush.batch \in Seq(Numbers)
  BY DEF AuditType
<1>4. CASE Len(waiting) < AuditCap
  <2>1. waiting' = Append(waiting, n) /\ dropped' = dropped
    BY <1>1, <1>4 DEF AU!Observe
  <2>2. waiting' \in Seq(Numbers) /\ Len(waiting') = Len(waiting) + 1
    BY <1>1, <1>3, <2>1
  <2>3. AuditType'
    BY <1>1, <1>2, <2>1, <2>2 DEF AuditType, Numbers
  <2>4. AU!Waiting' = Append(AU!Waiting, n)
    <3>1. <<n>> \in Seq(Numbers) /\ flush.batch \o waiting \in Seq(Numbers)
      BY <1>1, <1>3, Joins
    <3>2. /\ Append(waiting, n) = waiting \o <<n>>
          /\ Append(flush.batch \o waiting, n) = (flush.batch \o waiting) \o <<n>>
      BY <1>1, <1>3, <3>1, AppendIsConcat
    <3>3. (flush.batch \o waiting) \o <<n>> = flush.batch \o (waiting \o <<n>>)
      <4>1. \A u, v, w \in Seq(Numbers) : (u \o v) \o w = u \o (v \o w)
        BY ConcatAssociative
      <4> QED BY <1>3, <3>1, <4>1
    <3> QED BY <1>2, <2>1, <3>2, <3>3 DEF AU!Waiting
  <2>5. AU!Waiting \in Seq(Numbers)
    BY <1>3, Joins DEF AU!Waiting
  <2>6. \A x \in AU!Elements(AU!Waiting) : x < n
    BY <1>1, Accounts DEF AuditType
  <2>7. Ascending(AU!Waiting') /\ AU!Elements(AU!Waiting') = AU!Elements(AU!Waiting) \cup {n}
    BY <1>1, <2>4, <2>5, <2>6, AscendingMore, Accounts
  <2>8. Len(waiting') <= AuditCap
    BY <1>3, <1>4, <2>2 DEF AU!AuditAssumption
  <2>9. 1..observed' = AU!Elements(AU!Waiting') \cup reported' \cup dropped'
    BY <1>1, <1>2, <2>1, <2>7, Accounts
  <2>10. AU!Elements(AU!Waiting') \cap (reported' \cup dropped') = {}
    BY <1>1, <1>2, <2>1, <2>7, Accounts
  <2> QED BY <1>1, <1>2, <2>1, <2>3, <2>7, <2>8, <2>9, <2>10, Accounts DEF AU!EventsAccounted, Ascending, AU!Waiting, Numbers
<1>5. CASE ~(Len(waiting) < AuditCap)
  <2>1. dropped' = dropped \cup {n} /\ waiting' = waiting
    BY <1>1, <1>5 DEF AU!Observe
  <2>2. AuditType'
    <3>1. observed' \in 0..MaxEvents /\ dropped' \subseteq Numbers
      BY <1>1, <2>1 DEF AuditType, Numbers
    <3> QED BY <1>2, <2>1, <3>1 DEF AuditType
  <2>3. AU!Waiting' = AU!Waiting
    BY <1>2, <2>1 DEF AU!Waiting
  <2>4. 1..observed' = AU!Elements(AU!Waiting) \cup reported' \cup dropped'
    BY <1>1, <1>2, <2>1, Accounts
  <2>5. AU!Elements(AU!Waiting) \cap (reported' \cup dropped') = {} /\ reported' \cap dropped' = {}
    BY <1>1, <1>2, <2>1, Accounts
  <2> QED BY <1>2, <2>1, <2>2, <2>3, <2>4, <2>5 DEF AU!EventsAccounted
<1> QED BY <1>4, <1>5

\* A flush takes its batch from the front of the queue.
LEMMA AuditTakes ==
  ASSUME AU!AuditAssumption, AuditType, AU!EventsAccounted, AU!Take
  PROVE  AuditType' /\ AU!EventsAccounted'
<1> DEFINE k == AU!Taken
<1>1. waiting \in Seq(Numbers) /\ waiting # << >> /\ Len(waiting) \in Nat \ {0} /\ flush.batch = << >>
  BY EmptySeq DEF AuditType, AU!Take
<1>2. BatchMax \in Nat \ {0} /\ AuditBatches \in Nat \ {0}
  BY DEF AU!AuditAssumption
<1>3. k \in 1..Len(waiting) /\ k <= BatchMax
  BY <1>1, <1>2 DEF AU!Taken
<1>4. /\ flush'.batch = SubSeq(waiting, 1, k) /\ waiting' = SubSeq(waiting, k + 1, Len(waiting))
      /\ flush'.left = (IF flush.left = 0 THEN AuditBatches ELSE flush.left)
      /\ flush' = [left |-> flush'.left, batch |-> flush'.batch]
      /\ UNCHANGED <<panelRules, rules, observed, dropped, reported, received>>
  BY DEF AU!Take
<1> HIDE DEF k
<1>5. \A i \in 1..Len(waiting) : waiting[i] \in Numbers
  BY <1>1, ElementOfSeq
<1>6. SubSeq(waiting, 1, k) \in Seq(Numbers) /\ Len(SubSeq(waiting, 1, k)) = k
  <2>1. \A i \in 1..k : waiting[i] \in Numbers
    BY <1>1, <1>3, <1>5
  <2> QED BY <1>1, <1>3, <2>1, SubSeqProperties
<1>7. waiting' \in Seq(Numbers) /\ Len(waiting') = Len(waiting) - k
  <2>1. \A i \in (k + 1)..Len(waiting) : waiting[i] \in Numbers
    BY <1>1, <1>3, <1>5
  <2> QED BY <1>1, <1>3, <1>4, <2>1, SubSeqProperties
<1>8. AuditType'
  <2>1. flush' \in [left : 0..AuditBatches, batch : Seq(Numbers)] /\ flush'.left > 0
    <3>1. flush'.left \in 0..AuditBatches /\ flush'.left > 0
      BY <1>2, <1>4 DEF AuditType
    <3>2. flush'.batch \in Seq(Numbers)
      BY <1>4, <1>6
    <3> QED BY <1>4, <3>1, <3>2
  <2> QED BY <1>4, <1>7, <2>1 DEF AuditType
<1>9. AU!Waiting' = SubSeq(waiting, 1, k) \o SubSeq(waiting, k + 1, Len(waiting))
  BY <1>4 DEF AU!Waiting
<1>10. AU!Waiting' = waiting
  <2>1. 1 \in 1..Len(waiting) + 1 /\ k \in 1 - 1..Len(waiting) /\ Len(waiting) \in k..Len(waiting)
    BY <1>1, <1>3
  <2>2. SubSeq(waiting, 1, k) \o SubSeq(waiting, k + 1, Len(waiting)) = SubSeq(waiting, 1, Len(waiting))
    BY <1>1, <2>1, ConcatAdjacentSubSeq
  <2> QED BY <1>1, <1>9, <2>2, SubSeqFull
<1>11. AU!Waiting = waiting
  BY <1>1, ConcatEmptySeq DEF AU!Waiting
<1>12. Len(waiting') <= AuditCap
  BY <1>1, <1>3, <1>7, Accounts DEF AU!AuditAssumption
<1>13. AU!Waiting' = AU!Waiting
  BY <1>10, <1>11
<1> QED BY <1>4, <1>8, <1>12, <1>13 DEF AU!EventsAccounted

\* What the panel has after it stores a batch.
LEMMA StoresOnce ==
  ASSUME AuditType, AU!EventsAccounted
  PROVE  /\ AU!Stored(flush.batch) \in [Numbers -> Nat]
         /\ \A e \in Numbers : /\ AU!Stored(flush.batch)[e] >= received[e]
                               /\ e \in AU!Elements(flush.batch) => AU!Stored(flush.batch)[e] > 0
                               /\ Native => AU!Stored(flush.batch)[e] <= 1
<1>1. ASSUME NEW e \in Numbers
      PROVE  /\ AU!Stored(flush.batch)[e] \in Nat /\ AU!Stored(flush.batch)[e] >= received[e]
             /\ e \in AU!Elements(flush.batch) => AU!Stored(flush.batch)[e] > 0
             /\ Native => AU!Stored(flush.batch)[e] <= 1
  <2>1. received[e] \in Nat /\ (Native => received[e] <= 1)
    BY Accounts DEF AuditType
  <2>2. AU!Stored(flush.batch)[e] =
          IF e \in AU!Elements(flush.batch) /\ ~(Native /\ received[e] > 0) THEN received[e] + 1 ELSE received[e]
    BY DEF AU!Stored, Numbers
  <2> QED BY <2>1, <2>2
<1>2. DOMAIN AU!Stored(flush.batch) = Numbers /\ AU!Stored(flush.batch) = [e \in Numbers |-> AU!Stored(flush.batch)[e]]
  BY DEF AU!Stored, Numbers
<1> QED BY <1>1, <1>2

\* A batch that arrives was waiting until now.
LEMMA AuditDelivers ==
  ASSUME AU!AuditAssumption, AuditType, AU!EventsAccounted, AU!Delivered
  PROVE  AuditType' /\ AU!EventsAccounted'
<1>1. waiting \in Seq(Numbers) /\ flush.batch \in Seq(Numbers) /\ flush.left \in 1..AuditBatches
  BY DEF AuditType, AU!Delivered, AU!AuditAssumption
<1>2. /\ received' = AU!Stored(flush.batch) /\ reported' = reported \cup AU!Elements(flush.batch)
      /\ flush' = [left |-> flush.left - 1, batch |-> << >>]
      /\ UNCHANGED <<panelRules, rules, waiting, observed, dropped>>
  BY DEF AU!Delivered
<1>3. AU!Elements(flush.batch) \subseteq Numbers
  BY <1>1, Joins
<1>4. AuditType'
  <2>1. flush' \in [left : 0..AuditBatches, batch : Seq(Numbers)] /\ flush'.batch = << >>
    <3>1. flush.left - 1 \in 0..AuditBatches
      BY <1>1 DEF AU!AuditAssumption
    <3> QED BY <1>2, <3>1
  <2>2. received' \in [Numbers -> Nat]
    BY <1>2, StoresOnce
  <2> QED BY <1>2, <1>3, <2>1, <2>2 DEF AuditType
<1>5. AU!Waiting' = waiting
  BY <1>1, <1>2, ConcatEmptySeq DEF AU!Waiting
<1>6. /\ AU!Elements(AU!Waiting) = AU!Elements(flush.batch) \cup AU!Elements(waiting)
      /\ AU!Elements(flush.batch) \cap AU!Elements(waiting) = {} /\ Ascending(waiting)
  BY <1>1, Joins, AscendingParts, Accounts DEF AU!Waiting
<1>7. /\ 1..observed' = AU!Elements(AU!Waiting') \cup reported' \cup dropped'
      /\ AU!Elements(AU!Waiting') \cap (reported' \cup dropped') = {} /\ reported' \cap dropped' = {}
  BY <1>2, <1>5, <1>6, Accounts
<1>8. \A e \in Numbers : (e \in reported' => received'[e] > 0) /\ (Native => received'[e] <= 1)
  <2> TAKE e \in Numbers
  <2>1. received[e] \in Nat /\ received'[e] \in Nat
    BY <1>4 DEF AuditType
  <2> QED BY <1>2, <2>1, StoresOnce, Accounts
<1>9. Ascending(AU!Waiting') /\ Len(waiting') <= AuditCap
  BY <1>2, <1>5, <1>6, Accounts
<1> QED BY <1>4, <1>7, <1>8, <1>9 DEF AU!EventsAccounted, Ascending, Numbers

\* A batch that fails goes back to the front, and what has no room is dropped.
LEMMA AuditFails ==
  ASSUME AU!AuditAssumption, AuditType, AU!EventsAccounted, NEW stored \in BOOLEAN, AU!Fails(stored)
  PROVE  AuditType' /\ AU!EventsAccounted'
<1> DEFINE b == flush.batch
           room == AuditCap - Len(waiting)
           lost == IF room >= Len(b) THEN 0 ELSE Len(b) - room
           r == SubSeq(b, lost + 1, Len(b))
<1>1. /\ waiting \in Seq(Numbers) /\ b \in Seq(Numbers) /\ Len(waiting) \in Nat /\ Len(b) \in Nat
      /\ AuditCap \in Nat /\ AuditBatches \in Nat /\ Len(waiting) <= AuditCap
  BY Accounts DEF AuditType, AU!AuditAssumption
<1>2. /\ received' \in {received, AU!Stored(b)} /\ waiting' = r \o waiting
      /\ dropped' = dropped \cup (AU!Elements(b) \ AU!Elements(waiting'))
      /\ flush' = AU!NoFlush /\ UNCHANGED <<panelRules, rules, observed, reported>>
  BY DEF AU!Fails, AU!Requeued
<1>3. lost \in 0..Len(b) /\ Len(b) - lost + Len(waiting) <= AuditCap
  BY <1>1
<1>4. Ascending(b \o waiting)
  BY Accounts DEF AU!Waiting
<1>5. /\ r \in Seq(Numbers) /\ Len(r) = Len(b) - lost
      /\ AU!Elements(r) \subseteq AU!Elements(b) /\ Ascending(r \o waiting)
  <2> HIDE DEF lost, b
  <2> QED BY <1>1, <1>3, <1>4, AscendingRest
<1> HIDE DEF r, lost, b
<1>6. waiting' \in Seq(Numbers) /\ Len(waiting') <= AuditCap
  BY <1>1, <1>2, <1>3, <1>5, ConcatProperties
<1>7. AU!Waiting' = waiting'
  BY <1>2, <1>6, ConcatEmptySeq DEF AU!Waiting, AU!NoFlush
<1>8. /\ AU!Elements(waiting') = AU!Elements(r) \cup AU!Elements(waiting)
      /\ AU!Elements(AU!Waiting) = AU!Elements(b) \cup AU!Elements(waiting)
      /\ AU!Elements(b) \subseteq Numbers
  BY <1>1, <1>2, <1>5, Joins DEF AU!Waiting, b
<1>9. \A e \in Numbers : /\ e \in reported' => received'[e] > 0
                         /\ Native => received'[e] <= 1
  <2> TAKE e \in Numbers
  <2>1. received[e] \in Nat /\ AU!Stored(b)[e] \in Nat
    BY StoresOnce DEF AuditType, b
  <2>2. AU!Stored(b)[e] >= received[e] /\ (Native => AU!Stored(b)[e] <= 1)
    BY StoresOnce DEF b
  <2>3. (e \in reported => received[e] > 0) /\ (Native => received[e] <= 1)
    BY Accounts
  <2> QED BY <1>2, <2>1, <2>2, <2>3
<1>10. AuditType'
  <2>1. flush' \in [left : 0..AuditBatches, batch : Seq(Numbers)] /\ flush'.batch = << >>
    BY <1>1, <1>2 DEF AU!NoFlush
  <2>2. received' \in [Numbers -> Nat]
    BY <1>2, StoresOnce DEF AuditType, b
  <2> QED BY <1>2, <1>6, <1>8, <2>1, <2>2 DEF AuditType
<1>11. /\ 1..observed' = AU!Elements(waiting') \cup reported' \cup dropped'
       /\ AU!Elements(waiting') \cap (reported' \cup dropped') = {} /\ reported' \cap dropped' = {}
  <2>1. /\ 1..observed = AU!Elements(b) \cup AU!Elements(waiting) \cup reported \cup dropped
        /\ (AU!Elements(b) \cup AU!Elements(waiting)) \cap (reported \cup dropped) = {} /\ reported \cap dropped = {}
    BY <1>8, Accounts
  <2> QED BY <1>2, <1>5, <1>8, <2>1
<1>12. Ascending(waiting')
  BY <1>2, <1>5
<1> QED BY <1>6, <1>7, <1>9, <1>10, <1>11, <1>12 DEF AU!EventsAccounted, Ascending, Numbers

\* Every step accounts for every observation.
LEMMA AuditNext ==
  AU!AuditAssumption /\ AuditType /\ AU!EventsAccounted /\ [AU!Next]_(AU!auditVars) => AuditType' /\ AU!EventsAccounted'
<1> SUFFICES ASSUME AU!AuditAssumption, AuditType, AU!EventsAccounted, [AU!Next]_(AU!auditVars)
             PROVE  AuditType' /\ AU!EventsAccounted'
  OBVIOUS
<1>1. CASE \E r \in RuleSets : AU!EditRules(r)
  BY <1>1 DEF AU!EditRules, AuditType, AU!EventsAccounted, AU!Waiting
<1>2. CASE AU!RefreshRules
  BY <1>2 DEF AU!RefreshRules, AuditType, AU!EventsAccounted, AU!Waiting
<1>3. CASE AU!EndFlush
  <2>1. flush' = AU!NoFlush /\ flush.batch = << >> /\ UNCHANGED <<panelRules, rules, waiting, observed, dropped, reported, received>>
    BY <1>3 DEF AU!EndFlush
  <2>2. flush'.batch = << >> /\ flush' \in [left : 0..AuditBatches, batch : Seq(Numbers)]
    BY <2>1 DEF AU!NoFlush, AU!AuditAssumption
  <2> QED BY <2>1, <2>2 DEF AuditType, AU!EventsAccounted, AU!Waiting
<1>4. CASE UNCHANGED AU!auditVars
  BY <1>4 DEF AU!auditVars, AuditType, AU!EventsAccounted, AU!Waiting
<1> QED BY <1>1, <1>2, <1>3, <1>4, AuditObserves, AuditTakes, AuditDelivers, AuditFails DEF AU!Next

\* EventsAccounted: every observation waits in order, was reported or is counted as
\* dropped, exactly one of them, for queues and batches of any size.
THEOREM EventsAreAccounted == AU!Spec => []EventsAccounted
<1>1. AU!Init => AuditType /\ AU!EventsAccounted
  BY PartsAssumption, AuditInit
<1>2. AuditType /\ AU!EventsAccounted /\ [AU!Next]_(AU!auditVars) => AuditType' /\ AU!EventsAccounted'
  BY PartsAssumption, AuditNext
<1> QED BY <1>1, <1>2, PTL DEF AU!Spec, EventsAccounted

-----------------------------------------------------------------------------
(* NodeOps                                                                 *)

Verdicts == {"ok", "failed"}
Results == [id : Requests, ok : BOOLEAN]

OpsType ==
  /\ config \in {"none", "bad", "good"} /\ running \in BOOLEAN
  /\ requests \in Seq(Requests) /\ Len(requests) <= OpsCap
  /\ drained \in Seq(Requests) /\ Len(drained) <= OpsCap
  /\ cache \in Seq(Results) /\ Len(cache) <= CacheCap
  /\ runs \in Seq(Requests)
  /\ told \in [Requests -> SUBSET Verdicts]

Verdict(ok) == IF ok THEN "ok" ELSE "failed"

\* The cache holds the results of the last runs; whoever was told something
\* was run, and when only once was told what the cache, while it has the
\* result, would tell him again.
OnceInv ==
  /\ Len(cache) = CacheCap \/ Len(cache) = Len(runs)
  /\ Len(cache) <= Len(runs)
  /\ \A i \in 1..Len(cache) : cache[i].id = runs[i + (Len(runs) - Len(cache))]
  /\ \A i, j \in 1..Len(runs) : i < j /\ runs[i] = runs[j] => j - i > CacheCap
  /\ \A r \in Requests :
       /\ told[r] # {} => \E i \in 1..Len(runs) : runs[i] = r
       /\ Verdicts \subseteq told[r] => NO!Again(r)
       /\ \A i \in 1..Len(cache) : cache[i].id = r => NO!Again(r) \/ told[r] \subseteq {Verdict(cache[i].ok)}

\* The cache keeps the last results.
LEMMA Evicts ==
  ASSUME CacheCap \in Nat \ {0}, NEW S, NEW s \in Seq(S), Len(s) <= CacheCap, NEW e \in S
  PROVE  LET c == NO!Evicted(Append(s, e)) IN
           /\ c \in Seq(S) /\ Len(c) = (IF Len(s) < CacheCap THEN Len(s) + 1 ELSE CacheCap)
           /\ c[Len(c)] = e
           /\ \A i \in 1..Len(c) - 1 : c[i] = s[i + (Len(s) + 1 - Len(c))]
<1> DEFINE a == Append(s, e)
           c == NO!Evicted(a)
<1>1. /\ a \in Seq(S) /\ Len(a) = Len(s) + 1 /\ a[Len(a)] = e /\ Len(s) \in Nat
      /\ \A i \in 1..Len(s) : a[i] = s[i]
  OBVIOUS
<1>2. CASE Len(s) < CacheCap
  <2>1. c = a
    BY <1>1, <1>2 DEF NO!Evicted
  <2> QED BY <1>1, <1>2, <2>1
<1>3. CASE Len(s) = CacheCap
  <2>1. c = Tail(a)
    BY <1>1, <1>3 DEF NO!Evicted
  <2> HIDE DEF c, a
  <2>2. c \in Seq(S) /\ Len(c) = Len(a) - 1 /\ \A i \in 1..Len(a) - 1 : c[i] = a[i + 1]
    BY <1>1, <2>1
  <2>3. Len(c) = Len(s) /\ Len(c) \in 1..Len(a) - 1
    BY <1>1, <1>3, <2>2
  <2>4. c[Len(c)] = e
    BY <1>1, <2>2, <2>3
  <2>5. \A i \in 1..Len(c) - 1 : c[i] = s[i + (Len(s) + 1 - Len(c))]
    <3> TAKE i \in 1..Len(c) - 1
    <3>1. i + 1 \in 1..Len(s) /\ i \in 1..Len(a) - 1 /\ i + (Len(s) + 1 - Len(c)) = i + 1
      BY <1>1, <2>3
    <3> QED BY <1>1, <2>2, <3>1
  <2> QED BY <1>3, <2>2, <2>3, <2>4, <2>5 DEF c, a
<1> QED BY <1>1, <1>2, <1>3

\* Nothing was run.
LEMMA OpsInit == NO!NodeOpsAssumption /\ NO!Init => OpsType /\ OnceInv
<1> SUFFICES ASSUME NO!NodeOpsAssumption, NO!Init PROVE OpsType /\ OnceInv
  OBVIOUS
<1>1. told = [r \in Requests |-> {}] /\ Len(cache) = 0 /\ Len(runs) = 0
  BY DEF NO!Init
<1>2. OnceInv
  BY <1>1 DEF OnceInv, Verdicts
<1>3. OpsCap \in Nat /\ CacheCap \in Nat
  BY DEF NO!NodeOpsAssumption
<1>4. told \in [Requests -> SUBSET Verdicts]
  BY <1>1
<1>5. OpsType
  <2>1. /\ requests \in Seq(Requests) /\ drained \in Seq(Requests) /\ cache \in Seq(Results) /\ runs \in Seq(Requests)
        /\ Len(requests) = 0 /\ Len(drained) = 0
    BY DEF NO!Init
  <2>2. config \in {"none", "bad", "good"} /\ running \in BOOLEAN
      BY DEF NO!Init
  <2>3. Len(requests) <= OpsCap /\ Len(drained) <= OpsCap /\ Len(cache) <= CacheCap
      BY <1>1, <1>3, <2>1
  <2> QED BY <1>4, <2>1, <2>2, <2>3 DEF OpsType
<1> QED BY <1>2, <1>5

\* One more run, whose result the cache did not have.
LEMMA OpsCompletes ==
  ASSUME NO!NodeOpsAssumption, OpsType, OnceInv, NEW r \in Requests, NEW ok \in BOOLEAN,
         ~NO!Cached(r), NO!Complete(r, ok)
  PROVE  /\ cache' \in Seq(Results) /\ Len(cache') <= CacheCap
         /\ runs' \in Seq(Requests) /\ told' \in [Requests -> SUBSET Verdicts]
         /\ OnceInv'
<1> DEFINE e == [id |-> r, ok |-> ok]
           n == Len(runs)
           k == Len(cache)
<1>1. CacheCap \in Nat \ {0} /\ cache \in Seq(Results) /\ k \in 0..CacheCap /\ e \in Results /\ n \in Nat
  BY DEF NO!NodeOpsAssumption, OpsType, Results
<1>2. /\ cache' \in Seq(Results) /\ Len(cache') = (IF k < CacheCap THEN k + 1 ELSE CacheCap)
      /\ cache'[Len(cache')] = e
      /\ \A i \in 1..Len(cache') - 1 : cache'[i] = cache[i + (k + 1 - Len(cache'))]
  BY <1>1, Evicts DEF NO!Complete
<1>3. /\ runs' \in Seq(Requests) /\ Len(runs') = n + 1 /\ runs'[n + 1] = r
      /\ \A i \in 1..n : runs'[i] = runs[i]
  BY DEF NO!Complete, OpsType
<1>4. told' = [told EXCEPT ![r] = @ \cup {Verdict(ok)}] /\ Verdict(ok) \in Verdicts
  BY DEF NO!Complete, NO!Answered, Verdict, Verdicts
<1>5. told' \in [Requests -> SUBSET Verdicts]
  BY <1>4 DEF OpsType
<1>6. \A i \in 1..k : cache[i].id # r
  BY <1>1 DEF NO!Cached
<1>7. (k = CacheCap \/ k = n) /\ k <= n
  BY DEF OnceInv
<1> HIDE DEF e, n, k
<1>8. /\ Len(cache') = CacheCap \/ Len(cache') = Len(runs')
      /\ Len(cache') <= Len(runs') /\ Len(cache') <= CacheCap
  BY <1>1, <1>2, <1>3, <1>7
<1>9. \A i \in 1..Len(cache') : cache'[i].id = runs'[i + (Len(runs') - Len(cache'))]
  <2> TAKE i \in 1..Len(cache')
  <2>1. CASE i = Len(cache')
    BY <1>1, <1>2, <1>3, <1>8, <2>1 DEF e
  <2>2. CASE i # Len(cache')
    <3> DEFINE j == i + (k + 1 - Len(cache'))
    <3>1. j \in 1..k /\ i \in 1..Len(cache') - 1
      BY <1>1, <1>2, <2>2
    <3>2. cache'[i] = cache[j] /\ cache[j].id = runs[j + (n - k)]
      BY <1>2, <3>1 DEF OnceInv, n, k
    <3>3. j + (n - k) = i + (Len(runs') - Len(cache')) /\ j + (n - k) \in 1..n
      BY <1>1, <1>2, <1>3, <1>7, <3>1
    <3> QED BY <1>3, <3>2, <3>3
  <2> QED BY <2>1, <2>2
<1>10. \A i \in 1..n : runs[i] = r => n + 1 - i > CacheCap
  <2> SUFFICES ASSUME NEW i \in 1..n, runs[i] = r, i > n - k PROVE FALSE
    BY <1>1, <1>7
  <2>1. i - (n - k) \in 1..k /\ i - (n - k) + (n - k) = i
    BY <1>1, <1>7
  <2>2. cache[i - (n - k)].id = runs[i - (n - k) + (n - k)]
    BY <2>1 DEF OnceInv, n, k
  <2> QED BY <1>6, <2>1, <2>2
<1>11. \A i, j \in 1..Len(runs') : i < j /\ runs'[i] = runs'[j] => j - i > CacheCap
  <2> SUFFICES ASSUME NEW i \in 1..n + 1, NEW j \in 1..n + 1, i < j, runs'[i] = runs'[j] PROVE j - i > CacheCap
    BY <1>3
  <2>1. CASE j = n + 1
    <3>1. i \in 1..n
      BY <1>1, <2>1
    <3>2. runs[i] = r
      BY <1>3, <2>1, <3>1
    <3>3. n + 1 - i > CacheCap
      BY <1>10, <3>1, <3>2
    <3> QED BY <1>1, <2>1, <3>3
  <2>2. CASE j # n + 1
    <3>1. i \in 1..n /\ j \in 1..n
      BY <1>1, <2>2
    <3>2. \A x, y \in 1..n : x < y /\ runs[x] = runs[y] => y - x > CacheCap
      BY DEF OnceInv, n
    <3> QED BY <1>3, <3>1, <3>2
  <2> QED BY <2>1, <2>2
<1>12. \A q \in Requests : NO!Again(q) => NO!Again(q)'
  <2> SUFFICES ASSUME NEW q \in Requests, NO!Again(q) PROVE NO!Again(q)'
    OBVIOUS
  <2>1. DOMAIN runs = 1..n /\ DOMAIN runs' = 1..n + 1
    BY <1>3 DEF n, OpsType
  <2>2. PICK i \in 1..n, j \in 1..n : i < j /\ runs[i] = q /\ runs[j] = q
    BY <2>1 DEF NO!Again
  <2>3. i \in 1..n + 1 /\ j \in 1..n + 1 /\ runs'[i] = q /\ runs'[j] = q
    BY <1>1, <1>3, <2>2
  <2> QED BY <2>1, <2>2, <2>3 DEF NO!Again
<1>13. (\E i \in 1..n : runs[i] = r) => NO!Again(r)'
  BY <1>1, <1>3 DEF NO!Again, n
<1>14. ASSUME NEW q \in Requests
       PROVE  /\ told'[q] # {} => \E i \in 1..Len(runs') : runs'[i] = q
              /\ Verdicts \subseteq told'[q] => NO!Again(q)'
              /\ \A i \in 1..Len(cache') : cache'[i].id = q =>
                   NO!Again(q)' \/ told'[q] \subseteq {Verdict(cache'[i].ok)}
  <2>0. /\ told[q] # {} => \E i \in 1..n : runs[i] = q
        /\ Verdicts \subseteq told[q] => NO!Again(q)
        /\ \A i \in 1..k : cache[i].id = q => NO!Again(q) \/ told[q] \subseteq {Verdict(cache[i].ok)}
    BY DEF OnceInv, n, k
  <2>1. CASE q = r
    <3>1. \E i \in 1..Len(runs') : runs'[i] = q
      BY <1>1, <1>3, <2>1
    <3>2. CASE \E i \in 1..n : runs[i] = r
      BY <1>13, <2>1, <3>1, <3>2
    <3>3. CASE ~\E i \in 1..n : runs[i] = r
      <4>1. told'[q] = {Verdict(ok)}
        BY <1>4, <2>0, <2>1, <3>3 DEF OpsType
      <4>2. ~(Verdicts \subseteq told'[q])
        BY <4>1 DEF Verdicts, Verdict
      <4>3. \A i \in 1..Len(cache') - 1 : cache'[i].id # r
        <5> TAKE i \in 1..Len(cache') - 1
        <5>1. i + (k + 1 - Len(cache')) \in 1..k
          BY <1>1, <1>2
        <5> QED BY <1>2, <1>6, <5>1
      <4>4. \A i \in 1..Len(cache') : cache'[i].id = q => told'[q] \subseteq {Verdict(cache'[i].ok)}
        <5> SUFFICES ASSUME NEW i \in 1..Len(cache'), cache'[i].id = q
                     PROVE  told'[q] \subseteq {Verdict(cache'[i].ok)}
          OBVIOUS
        <5>1. i = Len(cache')
          BY <1>2, <2>1, <4>3
        <5> QED BY <1>2, <4>1, <5>1 DEF e
      <4> QED BY <3>1, <4>2, <4>4
    <3> QED BY <3>2, <3>3
  <2>2. CASE q # r
    <3>1. told'[q] = told[q]
      BY <1>4, <2>2 DEF OpsType
    <3>2. told'[q] # {} => \E i \in 1..Len(runs') : runs'[i] = q
      BY <1>1, <1>3, <2>0, <3>1
    <3>3. Verdicts \subseteq told'[q] => NO!Again(q)'
      BY <1>12, <2>0, <3>1
    <3>4. \A i \in 1..Len(cache') : cache'[i].id = q =>
            NO!Again(q)' \/ told'[q] \subseteq {Verdict(cache'[i].ok)}
      <4> SUFFICES ASSUME NEW i \in 1..Len(cache'), cache'[i].id = q
                   PROVE  NO!Again(q)' \/ told'[q] \subseteq {Verdict(cache'[i].ok)}
        OBVIOUS
      <4>1. i # Len(cache')
        BY <1>2, <2>2 DEF e
      <4>2. i + (k + 1 - Len(cache')) \in 1..k /\ i \in 1..Len(cache') - 1
        BY <1>1, <1>2, <4>1
      <4>3. cache'[i] = cache[i + (k + 1 - Len(cache'))]
        BY <1>2, <4>2
      <4> QED BY <1>12, <2>0, <3>1, <4>2, <4>3
    <3> QED BY <3>2, <3>3, <3>4
  <2> QED BY <2>1, <2>2
<1> QED BY <1>2, <1>3, <1>5, <1>8, <1>9, <1>11, <1>14 DEF OnceInv

\* An answer that is sent again says what the first said.
LEMMA OpsReplays ==
  ASSUME NO!NodeOpsAssumption, OpsType, OnceInv, NEW r \in Requests, NO!Replay(r)
  PROVE  told' \in [Requests -> SUBSET Verdicts] /\ OnceInv'
<1> DEFINE k == CHOOSE i \in DOMAIN cache : cache[i].id = r
           n == Len(runs)
<1>1. k \in 1..Len(cache) /\ cache[k].id = r /\ cache \in Seq(Results) /\ runs \in Seq(Requests)
  BY DEF NO!Replay, NO!Cached, OpsType
<1>2. told' = [told EXCEPT ![r] = @ \cup {Verdict(cache[k].ok)}] /\ UNCHANGED <<cache, runs>>
  BY DEF NO!Replay, NO!Answered, NO!ResultOf, Verdict
<1>3. Verdict(cache[k].ok) \in Verdicts
  BY DEF Verdict, Verdicts
<1> HIDE DEF k
<1>4. told' \in [Requests -> SUBSET Verdicts]
  BY <1>2, <1>3 DEF OpsType
<1>5. \A q \in Requests : NO!Again(q)' <=> NO!Again(q)
  BY <1>2 DEF NO!Again
<1>6. NO!Again(r) \/ told[r] \subseteq {Verdict(cache[k].ok)}
  BY <1>1 DEF OnceInv
<1>7. told'[r] = told[r] \cup {Verdict(cache[k].ok)} /\ \A q \in Requests : q # r => told'[q] = told[q]
  BY <1>2 DEF OpsType
<1>8. NO!Again(r) \/ (told'[r] = {Verdict(cache[k].ok)} /\ ~(Verdicts \subseteq told'[r]))
  BY <1>6, <1>7 DEF Verdict, Verdicts
<1>9. \A i \in 1..Len(cache) : cache[i].id = r => NO!Again(r) \/ i = k
  <2> SUFFICES ASSUME NEW i \in 1..Len(cache), cache[i].id = r, i # k PROVE NO!Again(r)
    OBVIOUS
  <2>1. Len(cache) \in Nat /\ n \in Nat /\ Len(cache) <= n /\ DOMAIN runs = 1..n
    BY <1>1 DEF OnceInv
  <2>2. runs[i + (n - Len(cache))] = r /\ runs[k + (n - Len(cache))] = r
    BY <1>1 DEF OnceInv
  <2>3. i + (n - Len(cache)) \in 1..n /\ k + (n - Len(cache)) \in 1..n
          /\ (i + (n - Len(cache)) < k + (n - Len(cache)) \/ k + (n - Len(cache)) < i + (n - Len(cache)))
    BY <1>1, <2>1
  <2> HIDE DEF n
  <2> QED BY <2>1, <2>2, <2>3 DEF NO!Again
<1>10. \E i \in 1..Len(runs) : runs[i] = r
  <2>1. k + (n - Len(cache)) \in 1..n
    BY <1>1 DEF OnceInv
  <2>2. runs[k + (n - Len(cache))] = r
    BY <1>1 DEF OnceInv
  <2> QED BY <2>1, <2>2
<1>11. ASSUME NEW q \in Requests
       PROVE  /\ told'[q] # {} => \E i \in 1..Len(runs) : runs[i] = q
              /\ Verdicts \subseteq told'[q] => NO!Again(q)
              /\ \A i \in 1..Len(cache) : cache[i].id = q => NO!Again(q) \/ told'[q] \subseteq {Verdict(cache[i].ok)}
  <2>1. CASE q = r
    BY <1>8, <1>9, <1>10, <2>1
  <2>2. CASE q # r
    BY <1>7, <2>2 DEF OnceInv
  <2> QED BY <2>1, <2>2
<1> QED BY <1>2, <1>4, <1>5, <1>11 DEF OnceInv

\* A request that was taken from the queue.
LEMMA OpsTaken ==
  ASSUME NO!NodeOpsAssumption, OpsType, NEW r \in Requests, NO!Taken(r)
  PROVE  drained' \in Seq(Requests) /\ Len(drained') <= OpsCap
<1>1. /\ drained \in Seq(Requests) /\ drained # << >> /\ drained' = Tail(drained)
      /\ Len(drained) \in Nat /\ Len(drained) <= OpsCap
  BY DEF OpsType, NO!Taken
<1>2. \A s \in Seq(Requests) : s # << >> => Len(Tail(s)) = Len(s) - 1 /\ Tail(s) \in Seq(Requests)
  OBVIOUS
<1>3. Len(drained') = Len(drained) - 1 /\ drained' \in Seq(Requests)
  BY <1>1, <1>2
<1> QED BY <1>1, <1>3 DEF NO!NodeOpsAssumption

\* Every step keeps the invariant.
LEMMA OpsNext == NO!NodeOpsAssumption /\ OpsType /\ OnceInv /\ [NO!Next]_(NO!opsVars) => OpsType' /\ OnceInv'
<1> SUFFICES ASSUME NO!NodeOpsAssumption, OpsType, OnceInv, [NO!Next]_(NO!opsVars) PROVE OpsType' /\ OnceInv'
  OBVIOUS
<1>0. UNCHANGED <<cache, runs, told>> => OnceInv'
  BY DEF OnceInv, NO!Again
<1>1. CASE NO!Environment \/ NO!Drain \/ NO!Renew
  <2>1. CASE NO!Environment
    BY <1>0, <2>1 DEF NO!Environment, OpsType
  <2>2. CASE NO!Drain
    BY <1>0, <2>2 DEF NO!Drain, OpsType, NO!NodeOpsAssumption
  <2>3. CASE NO!Renew
    <3>1. told' = [r \in Requests |-> {}] /\ Len(cache') = 0 /\ Len(runs') = 0
      BY <2>3 DEF NO!Renew
    <3>2. OnceInv'
      BY <3>1 DEF OnceInv, Verdicts
    <3>3. OpsCap \in Nat /\ CacheCap \in Nat
      BY DEF NO!NodeOpsAssumption
    <3>4. told' \in [Requests -> SUBSET Verdicts]
      BY <3>1
    <3>5. /\ requests' \in Seq(Requests) /\ drained' \in Seq(Requests)
          /\ cache' \in Seq(Results) /\ runs' \in Seq(Requests)
          /\ Len(requests') = 0 /\ Len(drained') = 0
      BY <2>3 DEF NO!Renew
    <3>6. config' \in {"none", "bad", "good"} /\ running' \in BOOLEAN
      BY <2>3 DEF NO!Renew, OpsType
    <3>7. Len(requests') <= OpsCap /\ Len(drained') <= OpsCap /\ Len(cache') <= CacheCap
      BY <3>1, <3>3, <3>5
    <3>8. OpsType'
      BY <3>4, <3>5, <3>6, <3>7 DEF OpsType
    <3> QED BY <3>2, <3>8
  <2> QED BY <1>1, <2>1, <2>2, <2>3
<1>2. ASSUME NEW r \in Requests, NO!Arrive(r)
      PROVE  OpsType' /\ OnceInv'
  BY <1>0, <1>2 DEF NO!Arrive, OpsType, NO!NodeOpsAssumption
<1>3. ASSUME NEW r \in Requests, NO!Replay(r)
      PROVE  OpsType' /\ OnceInv'
  <2>1. drained' \in Seq(Requests) /\ Len(drained') <= OpsCap
    BY <1>3, OpsTaken DEF NO!Replay
  <2> QED BY <1>3, <2>1, OpsReplays DEF NO!Replay, NO!Taken, OpsType
<1>4. ASSUME NEW r \in Requests,
             NO!Diagnose(r) \/ NO!Refuse(r) \/ NO!Validate(r) \/ NO!Restart(r) \/ NO!Reload(r)
      PROVE  OpsType' /\ OnceInv'
  <2>1. NO!Taken(r) /\ ~NO!Cached(r) /\ running' \in BOOLEAN
    BY <1>4 DEF NO!Diagnose, NO!Refuse, NO!Validate, NO!Restart, NO!Reload, NO!Executable, OpsType
  <2>2. PICK ok \in BOOLEAN : NO!Complete(r, ok)
    BY <1>4 DEF NO!Diagnose, NO!Refuse, NO!Validate, NO!Restart, NO!Reload
  <2>3. drained' \in Seq(Requests) /\ Len(drained') <= OpsCap
    BY <2>1, OpsTaken
  <2> QED BY <2>1, <2>2, <2>3, OpsCompletes DEF NO!Taken, OpsType
<1>5. CASE UNCHANGED NO!opsVars
  BY <1>0, <1>5 DEF NO!opsVars, OpsType
<1> QED BY <1>1, <1>2, <1>3, <1>4, <1>5 DEF NO!Next

\* OpsRunOnce: a request is carried out once and has one verdict, unless as many others
\* as the cache holds were carried out in between, for a cache of any size.
THEOREM RequestsRunOnce == NO!Spec => []OpsRunOnce
<1>1. NO!Init => OpsType /\ OnceInv
  BY PartsAssumption, OpsInit
<1>2. OpsType /\ OnceInv /\ [NO!Next]_(NO!opsVars) => OpsType' /\ OnceInv'
  BY PartsAssumption, OpsNext
<1>3. OpsType /\ OnceInv => OpsRunOnce
  <2> SUFFICES ASSUME OpsType, OnceInv PROVE NO!OpsRunOnce
    BY DEF OpsRunOnce
  <2>1. DOMAIN runs = 1..Len(runs)
    BY DEF OpsType
  <2>2. \A r \in Requests : {"ok", "failed"} \subseteq told[r] => NO!Again(r)
    BY DEF OnceInv, Verdicts
  <2> QED BY <2>1, <2>2 DEF OnceInv, NO!OpsRunOnce
<1> QED BY <1>1, <1>2, <1>3, PTL DEF NO!Spec
==============================================================================
