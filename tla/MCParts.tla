------------------------------- MODULE MCParts -------------------------------
(***************************************************************************)
(* Model checking of the parts of a node that share no state with each     *)
(* other, each under bounds of its own.  A behaviour is one of a single    *)
(* part; the others stay as they begin.                                    *)
(***************************************************************************)
EXTENDS NodeParts

CONSTANT Parts  \* the parts to check

VARIABLE part

partVars == <<part, layoutVars, connectionVars, speedVars, linkVars, deviceVars, pushVars, auditVars,
              certVars, opsVars, reloadVars, reportVars>>

-----------------------------------------------------------------------------
(* Values of the constants                                                 *)

\* One section, and others that differ in what Layout tells apart: two nodes,
\* lists of nodes, another spelling of the URL, a machine, named directories,
\* no control plane.
One == [url |-> "P", token |-> TRUE, standalone |-> FALSE, machine |-> 0, node |-> 5, nodes |-> << >>,
        dir |-> << >>, geo |-> << >>, certDir |-> << >>, cert |-> "", domain |-> FALSE, tls |-> FALSE,
        kernel |-> "", pull |-> 0, health |-> 0]
Plain(n) == [id |-> n, over |-> FALSE, dir |-> << >>, geo |-> << >>, cert |-> FALSE, certDir |-> << >>]
Over(n) == [Plain(n) EXCEPT !.over = TRUE]
MCSections ==
  { [One EXCEPT !.health = 8080],
    [One EXCEPT !.node = 6, !.tls = TRUE],
    [One EXCEPT !.nodes = <<Plain(5), [Plain(6) EXCEPT !.cert = TRUE]>>],
    [One EXCEPT !.nodes = <<Plain(5), Plain(5)>>],
    [One EXCEPT !.url = "p", !.nodes = <<Plain(5)>>],
    [One EXCEPT !.machine = 3],
    [One EXCEPT !.node = 7, !.dir = In(Base, <<"node", 5>>), !.health = 8080],
    [One EXCEPT !.nodes = <<Over(5), Over(6)>>, !.dir = Base],
    [One EXCEPT !.standalone = TRUE, !.domain = TRUE] }
MCTops == {One, [One EXCEPT !.dir = << <<"top">> >>, !.domain = TRUE, !.tls = TRUE]}
MCLists == {<<a>> : a \in MCSections} \cup {<<a, b>> : a \in MCSections, b \in MCSections}
MCFiles ==
  {[list |-> l, top |-> t] : l \in MCLists, t \in MCTops}
    \cup {[list |-> << >>, top |-> t] : t \in MCSections}
MCEnv == [url |-> "", node |-> 0, machine |-> 0, domain |-> FALSE]
MCNorm == [P |-> "P", p |-> "P"]

\* One user, who comes and goes, with two addresses for one device.
MCUserMaps == {{}, Users}
MCDeviceLimit == [u \in Users |-> 1]

\* No limit, one below the floor of the burst and one above it.
MCTables == UNION {[S -> {0, 1, 3}] : S \in SUBSET Users}

\* Two devices that the hash cannot tell apart.
MCHash == [s \in SUBSET Devices |-> IF s = {2} THEN {1} ELSE s]

\* Content 0 is content that was not pushed again.
MCConfigs ==
  {[mode |-> m, id |-> 0] : m \in {"none", "self", "content"}}
    \cup {[mode |-> m, id |-> i] : m \in {"content", "acme"}, i \in {1, 2}}
    \cup {[mode |-> "file", id |-> 1]}

MCOp == [r1 |-> "restart", r2 |-> "reload", r3 |-> "validate", r4 |-> "diagnose"]

MCContents ==
  {[kind |-> "good", port |-> p] : p \in {0, 8080}}
    \cup {[kind |-> k, port |-> 0] : k \in {"unreadable", "conflict"}}

-----------------------------------------------------------------------------
(* One of them at work; a part that rests has one initial state            *)

MCInit ==
  /\ part \in Parts
  /\ Init
  /\ CT!Init /\ SL!Init /\ LD!Init /\ DR!Init /\ PL!Init
  /\ AU!Init /\ CE!Init /\ NO!Init /\ CR!Init /\ RE!Init
  /\ part # "connections" => trackers[1].uuidMap = {}
  /\ part # "links" => deviceLimits = [u \in Users |-> 0]
  /\ part # "devices" => pending = DR!NoBatch
  /\ part # "push" => ~offered
  /\ part # "audit" => panelRules = {}
  /\ part # "cert" => disk = CE!NoPair
  /\ part # "layout" => layout = [list |-> << >>, top |-> [One EXCEPT !.health = 8080]]
  /\ part # "reload" => root = [kind |-> "good", port |-> 0]

MCNext ==
  /\ UNCHANGED part
  /\ IF part = "layout" THEN Next ELSE UNCHANGED layoutVars
  /\ IF part = "connections" THEN CT!Next ELSE UNCHANGED connectionVars
  /\ IF part = "speed" THEN SL!Next ELSE UNCHANGED speedVars
  /\ IF part = "links" THEN LD!Next ELSE UNCHANGED linkVars
  /\ IF part = "devices" THEN DR!Next ELSE UNCHANGED deviceVars
  /\ IF part = "push" THEN PL!Next ELSE UNCHANGED pushVars
  /\ IF part = "audit" THEN AU!Next ELSE UNCHANGED auditVars
  /\ IF part = "cert" THEN CE!Next ELSE UNCHANGED certVars
  /\ IF part = "ops" THEN NO!Next ELSE UNCHANGED opsVars
  /\ IF part = "reload" THEN CR!Next ELSE UNCHANGED reloadVars
  /\ IF part = "reporting" THEN RE!Next \/ RE!Restart ELSE UNCHANGED reportVars

MCSpec == MCInit /\ [][MCNext]_partVars
=============================================================================
