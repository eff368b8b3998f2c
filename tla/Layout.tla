------------------------------- MODULE Layout --------------------------------
(***************************************************************************)
(* What a configuration file makes of a process: internal/config and the   *)
(* spool path of service.New.  A file is one configuration, or a list of   *)
(* instances with defaults; LoadRoot gives every instance an identity and  *)
(* directories, ValidateStartupLayout refuses conflicts, and every node    *)
(* gets a service with directories and a spool file of its own.            *)
(*                                                                         *)
(* A path is a sequence of names, empty for one not set; a name is a tuple *)
(* that begins with its kind.  Hashes are the values they hash.            *)
(***************************************************************************)
EXTENDS Integers, Sequences, FiniteSets, Functions

CONSTANTS Files,     \* [list |-> sequence of sections, top |-> section]
          Env,       \* what the environment overrides, "" and 0 for nothing
          Norm,      \* from URLs as written to the panels they name, "" for none
          Assigned   \* nodes the panel assigns to a machine

Fields == {"url", "token", "standalone", "machine", "node", "nodes", "dir", "geo", "certDir",
           "cert", "domain", "tls", "kernel", "pull", "health"}

ASSUME LayoutAssumption ==
  /\ \A f \in Files :
       /\ f.list \in Seq(Range(f.list))
       /\ \A c \in Range(f.list) \cup {f.top} :
            /\ DOMAIN c = Fields /\ \A g \in {"dir", "certDir", "nodes"} : c[g] \in Seq(Range(c[g]))
            /\ \A e \in Range(c.nodes) : e.dir \in Seq(Range(e.dir))
  /\ DOMAIN Env = {"url", "node", "machine", "domain"}

VARIABLES layout,   \* the file that was accepted last
          fleet,    \* its services
          unacked   \* a batch not acknowledged yet: the service that saved it

layoutVars == <<layout, fleet, unacked>>

Base == << <<"base">> >>
In(dir, name) == Append(dir, name)
Or(given, default) == IF given = << >> THEN default ELSE given

-----------------------------------------------------------------------------
(* LoadRoot                                                                *)

\* Fields that pass from the defaults to an instance that does not set them;
\* "cert" stands for its mode, file and content.
Inherited == [geo |-> << >>, cert |-> "", domain |-> FALSE, kernel |-> "", pull |-> 0]

InheritFrom(c, top) ==
  LET taken == [f \in Fields |-> IF f \in DOMAIN Inherited /\ c[f] = Inherited[f] THEN top[f] ELSE c[f]]
  IN [taken EXCEPT !.tls = c.tls \/ (taken.cert = "" /\ top.tls)]

ApplyEnv(c) ==
  [c EXCEPT !.url = IF Env.url = "" THEN @ ELSE Env.url,
            !.node = IF Env.node = 0 THEN @ ELSE Env.node,
            !.machine = IF Env.machine = 0 THEN @ ELSE Env.machine,
            !.domain = @ \/ Env.domain,
            !.tls = @ \/ Env.domain]

NodeIds(c) == {c.nodes[i].id : i \in DOMAIN c.nodes}

\* Mode and target: the list of nodes counts however it is ordered.
Target(c) ==
  CASE c.standalone -> <<"standalone", << >> >>
    [] ~c.standalone /\ c.machine > 0 -> <<"machine", <<c.machine>> >>
    [] ~c.standalone /\ c.machine <= 0 /\ c.nodes # << >> ->
         <<"node", [n \in NodeIds(c) |-> Cardinality({i \in DOMAIN c.nodes : c.nodes[i].id = n})]>>
    [] OTHER -> <<"node", [n \in {c.node} |-> 1]>>

Panel(c) == IF c.standalone THEN "standalone" ELSE Norm[c.url]
InstanceID(c) == <<"id", Panel(c)>> \o Target(c)

\* Mutant: the directory of an instance goes by its place in the list.
ByPosition(cs, i) == IF Len(cs) > 1 /\ cs[i].dir = << >> THEN In(Base, <<"place", i>>) ELSE Base
\* Several instances get a directory each.
InstanceBase(cs, i) == IF Len(cs) > 1 /\ cs[i].dir = << >> THEN In(Base, InstanceID(cs[i])) ELSE Base

SetDefaults(c, base) ==
  LET dir == Or(c.dir, base)
  IN [c EXCEPT !.dir = dir, !.geo = Or(@, dir), !.certDir = Or(@, In(dir, <<"certs">>)),
               !.kernel = IF @ = "" THEN "singbox" ELSE @]

Valid(c) ==
  /\ ~c.standalone => c.url # "" /\ c.token
  /\ ~c.standalone /\ c.machine <= 0 =>
       /\ c.nodes = << >> => c.node > 0
       /\ \A n \in NodeIds(c) : n > 0
  /\ c.standalone \/ c.machine > 0 => c.nodes = << >>
  /\ c.kernel \in {"singbox", "xray"}
  /\ c.tls => c.domain
  /\ c.pull >= 0

Overridden(f) == [i \in DOMAIN f.list |-> ApplyEnv(InheritFrom(f.list[i], f.top))]

\* NormalizeInstances has nothing left to do for a list; a single
\* configuration gets its identity there.
Instances(f) ==
  IF f.list = << >> THEN << SetDefaults(ApplyEnv(f.top), Base) >>
  ELSE [i \in DOMAIN f.list |-> SetDefaults(Overridden(f)[i], InstanceBase(Overridden(f), i))]

Distinct(s) == \A i, j \in DOMAIN s : s[i] = s[j] => i = j

LoadRoot(f) ==
  LET cs == Instances(f)
      ids == [i \in DOMAIN cs |-> InstanceID(cs[i])]
  IN /\ \A i \in DOMAIN cs : Valid(cs[i])
     /\ f.list # << >> => Distinct(ids) /\ \A i \in DOMAIN cs : Panel(cs[i]) # ""

-----------------------------------------------------------------------------
(* From instances to services                                              *)

\* NewChecked: what a node's service works with, and its section (history).
Service(c, section, node, machine, dir, geo, certs) ==
  [url |-> c.url, node |-> node, machine |-> machine, dir |-> dir, geo |-> geo, certs |-> certs,
   spool |-> IF c.standalone THEN << >>
             ELSE In(dir, <<"spool", c.url, node, machine, InstanceID(c)>>),
   section |-> section]

\* A kernel override keeps the directory of the instance unless it names one;
\* the directory of certificates is the instance's unless those are overridden.
Entry(c, section, e) ==
  LET dir == IF e.over THEN Or(e.dir, c.dir) ELSE In(c.dir, <<"node", e.id>>)
      geo == IF e.over /\ c.geo = c.dir THEN dir ELSE c.geo
  IN Service(c, section, e.id, 0, dir, Or(e.geo, geo),
             IF e.cert THEN Or(e.certDir, In(dir, <<"certs">>)) ELSE c.certDir)

ExpandNodes(c, section) ==
  IF c.nodes = << >> THEN << Service(c, section, c.node, 0, c.dir, c.geo, c.certDir) >>
  ELSE [i \in DOMAIN c.nodes |-> Entry(c, section, c.nodes[i])]

\* Mutant: the nodes of a machine share the certificates of the instance.
CertsOfMachine(c, section, n) ==
  Service(c, section, n, c.machine, In(c.dir, <<"node", n>>), c.geo, c.certDir)
ExpandMachineNode(c, section, n) ==
  LET dir == In(c.dir, <<"node", n>>)
  IN Service(c, section, n, c.machine, dir, c.geo, In(dir, <<"certs">>))

IsMachineMode(c) == c.machine > 0
Section(f, i) == IF f.list = << >> THEN f.top ELSE f.list[i]

\* Two nodes of a list may be equal: they are told apart by their places.
Services(f) ==
  LET cs == Instances(f)
      Of(i) == LET c == cs[i] IN
                 IF IsMachineMode(c)
                 THEN {<<i, n, ExpandMachineNode(c, Section(f, i), n)>> : n \in Assigned}
                 ELSE LET ss == ExpandNodes(c, Section(f, i)) IN {<<i, k, ss[k]>> : k \in DOMAIN ss}
  IN UNION {Of(i) : i \in DOMAIN cs}

\* Health ports and directories of instances, and the nodes they bind under
\* the URL as written; the nodes of machines are not known yet.
ValidateStartupLayout(f) ==
  LET cs == Instances(f)
      bound == {x \in Services(f) : ~IsMachineMode(cs[x[1]])}
  IN /\ \A i, j \in DOMAIN cs : i # j =>
          cs[i].dir # cs[j].dir /\ ~(cs[i].health = cs[j].health /\ cs[i].health > 0)
     /\ \A x, y \in bound : x[3].url = y[3].url /\ x[3].node = y[3].node => x = y

Accepted(f) ==
  /\ LoadRoot(f) /\ \A i \in DOMAIN Instances(f) : Panel(Instances(f)[i]) # ""
  /\ ValidateStartupLayout(f)

\* What comes of a file: its services, if it is accepted.
Outcome ==
  [f \in Files |-> [loads |-> LoadRoot(f), accepted |-> Accepted(f),
                    services |-> IF Accepted(f) THEN Services(f) ELSE {}]]

-----------------------------------------------------------------------------
(* The process                                                             *)

NoBatch == << >>

Init ==
  /\ layout \in {f \in Files : Outcome[f].accepted} /\ fleet = Outcome[layout].services
  /\ unacked = NoBatch

\* An edit that does not load is ignored; one with a conflict ends the process.
Refuse(f) ==
  /\ Outcome[f].loads /\ ~Outcome[f].accepted
  /\ fleet' = {}
  /\ UNCHANGED <<layout, unacked>>

\* runWithReload starts the services anew, or somebody the process.
Reload(f) ==
  /\ Outcome[f].accepted
  /\ layout' = f /\ fleet' = Outcome[f].services
  /\ UNCHANGED unacked

\* A service saves a batch, and the panel does not acknowledge it; the bound
\* is one of them.
Save(s) ==
  /\ unacked = NoBatch /\ s[3].spool # << >> /\ unacked' = <<s[3]>>
  /\ UNCHANGED <<layout, fleet>>

\* NewDurable finds the batch where it looks, and replays it.
Replay(s) ==
  /\ unacked # NoBatch /\ s[3].spool = unacked[1].spool /\ unacked' = NoBatch
  /\ UNCHANGED <<layout, fleet>>

Next ==
  \/ \E f \in Files : Refuse(f) \/ Reload(f)
  \/ \E s \in fleet : Save(s) \/ Replay(s)

Spec == Init /\ [][Next]_layoutVars

-----------------------------------------------------------------------------
(* Properties                                                              *)

\* Somebody named the directory: of the instance, or in an override.
Named(x) == x[3].section.dir # << >> \/ \E e \in Range(x[3].section.nodes) : e.over
SharesCerts(x) == x[3].section.certDir # << >> \/ (x[3].machine = 0 /\ x[3].section.nodes # << >>)

\* No two services of a layout that was accepted have the same spool file; two
\* share a directory only if somebody named it, and certificates only as nodes
\* of a list, or if somebody named that directory.
StateIsOwn ==
  \A x, y \in fleet : x # y =>
    /\ x[3].spool = y[3].spool => x[3].spool = << >>
    /\ x[3].dir = y[3].dir => Named(x) \/ Named(y)
    /\ x[3].certs = y[3].certs => SharesCerts(x) \/ SharesCerts(y) \/ Named(x) \/ Named(y)

\* A node whose section of the file does not change keeps its directories and
\* its spool whatever becomes of the rest, other instances in another order,
\* added or removed, and other defaults; but that an instance moves into a
\* directory of its own when it is no longer the only one, and back.
StateStays ==
  [][ (Len(layout.list) > 1) = (Len(layout'.list) > 1) =>
      \A x \in fleet, y \in fleet' :
        x[3].section = y[3].section /\ x[3].node = y[3].node /\ x[3].machine = y[3].machine =>
          x[3].dir = y[3].dir /\ x[3].certs = y[3].certs /\ x[3].spool = y[3].spool ]_layoutVars

\* docs/traffic-durable-replay.md:3: "restarting the runtime replays pending
\* data": a node that still runs looks for its batch where it was saved.
PendingIsReplayed ==
  unacked # NoBatch =>
    \A x \in fleet :
      x[3].url = unacked[1].url /\ x[3].node = unacked[1].node /\ x[3].machine = unacked[1].machine =>
        x[3].spool = unacked[1].spool
=============================================================================
