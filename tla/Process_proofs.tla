--------------------------- MODULE Process_proofs ----------------------------
(***************************************************************************)
(* Proofs about the process around the services: Layout, ConfigReload and  *)
(* Cert, for any files, edits, signals and certificates; and what the      *)
(* proofs about Reporting say of a process that replaces its services.     *)
(*                                                                         *)
(* An instance is made of its section of the file alone but for the        *)
(* directory that it gets as one of several; a path ends in one way, so    *)
(* that two equal paths have equal ends: by them services are told apart,  *)
(* within one layout and from one to the next.  Unless the last edit was   *)
(* missed, the loop has the file or it is still on its way, and an older   *)
(* one does not come last (FileInv).  Whoever swaps the material of a      *)
(* certificate still has to tell the kernel, or has left the flag that     *)
(* tells it (CertInv).                                                     *)
(***************************************************************************)
EXTENDS NodeParts, TLAPS

-----------------------------------------------------------------------------
(* Layout                                                                  *)

\* The fields an instance takes from its section alone.
SameSection(c, d) ==
  /\ c.standalone = d.standalone /\ c.machine = d.machine /\ c.node = d.node /\ c.nodes = d.nodes
  /\ c.url = d.url /\ c.dir = d.dir /\ c.certDir = d.certDir

\* What an instance does not take from the defaults.
LEMMA InheritKeeps ==
  ASSUME NEW c, NEW top, DOMAIN c = Fields
  PROVE  DOMAIN InheritFrom(c, top) = Fields /\ SameSection(InheritFrom(c, top), c)
<1> DEFINE t == [f \in Fields |-> IF f \in DOMAIN Inherited /\ c[f] = Inherited[f] THEN top[f] ELSE c[f]]
<1>1. DOMAIN Inherited = {"geo", "cert", "domain", "kernel", "pull"}
  BY DEF Inherited
<1>2. DOMAIN t = Fields /\ SameSection(t, c)
  BY <1>1 DEF Fields, SameSection
<1>3. InheritFrom(c, top) = [t EXCEPT !.tls = c.tls \/ (t.cert = "" /\ top.tls)]
  BY DEF InheritFrom
<1> HIDE DEF t
<1> QED BY <1>2, <1>3 DEF Fields, SameSection

\* What the environment overrides.
LEMMA EnvKeeps ==
  ASSUME NEW c, DOMAIN c = Fields
  PROVE  LET a == ApplyEnv(c) IN
           /\ DOMAIN a = Fields
           /\ a.standalone = c.standalone /\ a.nodes = c.nodes /\ a.dir = c.dir /\ a.certDir = c.certDir
           /\ a.url = (IF Env.url = "" THEN c.url ELSE Env.url)
           /\ a.node = (IF Env.node = 0 THEN c.node ELSE Env.node)
           /\ a.machine = (IF Env.machine = 0 THEN c.machine ELSE Env.machine)
BY DEF ApplyEnv, Fields

\* It overrides the same in the same section.
LEMMA EnvOfSame ==
  ASSUME NEW c, NEW d, DOMAIN c = Fields, DOMAIN d = Fields, SameSection(c, d)
  PROVE  SameSection(ApplyEnv(c), ApplyEnv(d)) /\ DOMAIN ApplyEnv(c) = Fields
BY EnvKeeps DEF SameSection

\* The identity of an instance is made of these fields.
LEMMA IDOfSame ==
  ASSUME NEW c, NEW d, c.standalone = d.standalone, c.machine = d.machine, c.node = d.node, c.nodes = d.nodes,
         c.url = d.url
  PROVE  InstanceID(c) = InstanceID(d)
BY DEF InstanceID, Panel, Target, NodeIds

\* The directories are all that is filled in.
LEMMA DefaultsKeep ==
  ASSUME NEW c, NEW base, DOMAIN c = Fields
  PROVE  LET r == SetDefaults(c, base) IN
           /\ r.standalone = c.standalone /\ r.machine = c.machine /\ r.node = c.node /\ r.nodes = c.nodes
           /\ r.url = c.url /\ r.dir = Or(c.dir, base) /\ r.certDir = Or(c.certDir, In(r.dir, <<"certs">>))
           /\ InstanceID(r) = InstanceID(c)
<1> DEFINE r == SetDefaults(c, base)
<1>1. /\ r.standalone = c.standalone /\ r.machine = c.machine /\ r.node = c.node /\ r.nodes = c.nodes
      /\ r.url = c.url /\ r.dir = Or(c.dir, base) /\ r.certDir = Or(c.certDir, In(r.dir, <<"certs">>))
  BY DEF SetDefaults, Fields
<1> HIDE DEF r
<1> QED BY <1>1, IDOfSame DEF r

\* What an instance has from its section, wherever it stands in whatever file.
Several(f) == Len(f.list) > 1
BaseOf(f, s) == IF Several(f) THEN In(Base, InstanceID(ApplyEnv(s))) ELSE Base

\* The sections of a file, and what is known of them.
LEMMA FilesHaveSections ==
  ASSUME NEW f \in Files
  PROVE  /\ DOMAIN f.list = 1..Len(f.list) /\ Len(f.list) \in Nat /\ f.list \in Seq(Range(f.list))
         /\ f.list = << >> => Len(f.list) = 0
         /\ DOMAIN Instances(f) = IF f.list = << >> THEN {1} ELSE DOMAIN f.list
         /\ \A i \in DOMAIN Instances(f) : DOMAIN Section(f, i) = Fields
         /\ \A i \in DOMAIN Instances(f) : \A g \in {"dir", "certDir", "nodes"} :
              Section(f, i)[g] \in Seq(Range(Section(f, i)[g]))
         /\ \A i \in DOMAIN Instances(f) : \A e \in Range(Section(f, i).nodes) : e.dir \in Seq(Range(e.dir))
<1>1. f.list \in Seq(Range(f.list))
  BY LayoutAssumption
<1>2. DOMAIN f.list = 1..Len(f.list) /\ Len(f.list) \in Nat
  BY <1>1
<1>3. DOMAIN Instances(f) = IF f.list = << >> THEN {1} ELSE DOMAIN f.list
  BY DEF Instances
<1>4. \A i \in DOMAIN Instances(f) : Section(f, i) \in Range(f.list) \cup {f.top}
  BY <1>2, <1>3 DEF Section, Range
<1> QED BY <1>1, <1>2, <1>3, <1>4, LayoutAssumption

\* An instance is made of its section, but for the directory it gets as one of several.
LEMMA InstanceOfSection ==
  ASSUME NEW f \in Files, NEW i \in DOMAIN Instances(f)
  PROVE  LET c == Instances(f)[i]
             s == Section(f, i) IN
           /\ c.standalone = s.standalone /\ c.nodes = s.nodes /\ c.url = ApplyEnv(s).url
           /\ c.machine = ApplyEnv(s).machine /\ c.node = ApplyEnv(s).node
           /\ InstanceID(c) = InstanceID(ApplyEnv(s))
           /\ c.dir = Or(s.dir, BaseOf(f, s)) /\ c.certDir = Or(s.certDir, In(c.dir, <<"certs">>))
<1> DEFINE c == Instances(f)[i]
           s == Section(f, i)
<1>1. DOMAIN s = Fields /\ DOMAIN f.list = 1..Len(f.list) /\ Len(f.list) \in Nat
  BY FilesHaveSections
<1>2. CASE f.list = << >>
  <2>1. c = SetDefaults(ApplyEnv(s), Base) /\ ~Several(f)
    BY <1>2, FilesHaveSections DEF Instances, Section, Several
  <2> HIDE DEF c, s
  <2>2. DOMAIN ApplyEnv(s) = Fields /\ ApplyEnv(s).dir = s.dir /\ ApplyEnv(s).certDir = s.certDir
          /\ ApplyEnv(s).standalone = s.standalone /\ ApplyEnv(s).nodes = s.nodes
    BY <1>1, EnvKeeps
  <2> QED BY <2>1, <2>2, DefaultsKeep DEF BaseOf, c, s
<1>3. CASE f.list # << >>
  <2> DEFINE o == Overridden(f)
             a == ApplyEnv(InheritFrom(s, f.top))
  <2>1. i \in DOMAIN f.list /\ s = f.list[i] /\ o[i] = a /\ DOMAIN o = 1..Len(f.list)
    BY <1>1, <1>3, FilesHaveSections DEF Section, Overridden
  <2>2. Len(o) = Len(f.list)
    BY <1>1, <2>1 DEF Overridden
  <2>3. c = SetDefaults(a, InstanceBase(o, i))
    BY <1>3, <2>1 DEF Instances
  <2>4. InstanceBase(o, i) = IF Several(f) /\ a.dir = << >> THEN In(Base, InstanceID(a)) ELSE Base
    BY <2>1, <2>2 DEF InstanceBase, Several
  <2>5. DOMAIN a = Fields /\ SameSection(a, ApplyEnv(s))
    BY <1>1, InheritKeeps, EnvOfSame
  <2> HIDE DEF c, s, a, o
  <2>6. DOMAIN ApplyEnv(s) = Fields /\ ApplyEnv(s).dir = s.dir /\ ApplyEnv(s).certDir = s.certDir
          /\ ApplyEnv(s).standalone = s.standalone /\ ApplyEnv(s).nodes = s.nodes
    BY <1>1, EnvKeeps
  <2>7. InstanceID(a) = InstanceID(ApplyEnv(s))
    BY <2>5, IDOfSame DEF SameSection
  <2>8. c.dir = Or(s.dir, BaseOf(f, s))
    BY <2>3, <2>4, <2>5, <2>6, <2>7, DefaultsKeep DEF SameSection, Or, BaseOf
  <2> QED BY <2>3, <2>5, <2>6, <2>7, <2>8, DefaultsKeep DEF SameSection, c, s
<1> QED BY <1>2, <1>3

-----------------------------------------------------------------------------
(* From instances to services                                              *)

\* What a service works with, given its instance, node and directory.
Works(v, c, s, n, m, dir) ==
  /\ v.url = c.url /\ v.node = n /\ v.machine = m /\ v.dir = dir /\ v.section = s
  /\ v.spool = IF c.standalone THEN << >> ELSE In(dir, <<"spool", c.url, n, m, InstanceID(c)>>)

\* The three kinds of services: a node of a machine, the node of an instance,
\* and an entry of a list of nodes.
OfMachine(v, k, c, s) ==
  LET dir == In(c.dir, <<"node", k>>) IN
    /\ IsMachineMode(c) /\ Works(v, c, s, k, c.machine, dir) /\ v.certs = In(dir, <<"certs">>)
Single(v, k, c, s) ==
  ~IsMachineMode(c) /\ c.nodes = << >> /\ k = 1 /\ Works(v, c, s, c.node, 0, c.dir) /\ v.certs = c.certDir
Listed(v, k, c, s) ==
  /\ ~IsMachineMode(c) /\ c.nodes # << >> /\ k \in DOMAIN c.nodes
  /\ LET e == c.nodes[k]
         dir == IF e.over THEN Or(e.dir, c.dir) ELSE In(c.dir, <<"node", e.id>>) IN
       /\ Works(v, c, s, e.id, 0, dir)
       /\ v.certs = IF e.cert THEN Or(e.certDir, In(dir, <<"certs">>)) ELSE c.certDir

\* A service works with what it is given.
LEMMA ServiceWorks ==
  ASSUME NEW c, NEW s, NEW n, NEW m, NEW dir, NEW geo, NEW certs
  PROVE  Works(Service(c, s, n, m, dir, geo, certs), c, s, n, m, dir) /\ Service(c, s, n, m, dir, geo, certs).certs = certs
BY DEF Service, Works

\* Every service is of one of the three kinds.
LEMMA ServiceKinds ==
  ASSUME NEW f, NEW x \in Services(f)
  PROVE  /\ x = <<x[1], x[2], x[3]>> /\ x[1] \in DOMAIN Instances(f)
         /\ LET c == Instances(f)[x[1]]
                s == Section(f, x[1]) IN
              OfMachine(x[3], x[2], c, s) \/ Single(x[3], x[2], c, s) \/ Listed(x[3], x[2], c, s)
<1>1. PICK i \in DOMAIN Instances(f) :
        x \in IF IsMachineMode(Instances(f)[i])
              THEN {<<i, n, ExpandMachineNode(Instances(f)[i], Section(f, i), n)>> : n \in Assigned}
              ELSE {<<i, k, ExpandNodes(Instances(f)[i], Section(f, i))[k]>> :
                      k \in DOMAIN ExpandNodes(Instances(f)[i], Section(f, i))}
  BY DEF Services
<1> DEFINE c == Instances(f)[i]
           s == Section(f, i)
<1>2. CASE IsMachineMode(c)
  <2>1. PICK n \in Assigned : x = <<i, n, ExpandMachineNode(c, s, n)>>
    BY <1>1, <1>2
  <2>2. x[1] = i /\ x[2] = n /\ x[3] = ExpandMachineNode(c, s, n) /\ x = <<x[1], x[2], x[3]>>
    BY <2>1
  <2> HIDE DEF c, s
  <2>3. OfMachine(ExpandMachineNode(c, s, n), n, c, s)
    BY <1>2, ServiceWorks DEF ExpandMachineNode, OfMachine
  <2> QED BY <2>2, <2>3 DEF c, s
<1>3. CASE ~IsMachineMode(c)
  <2>1. PICK k \in DOMAIN ExpandNodes(c, s) : x = <<i, k, ExpandNodes(c, s)[k]>>
    BY <1>1, <1>3
  <2>2. x[1] = i /\ x[2] = k /\ x[3] = ExpandNodes(c, s)[k] /\ x = <<x[1], x[2], x[3]>>
    BY <2>1
  <2> HIDE DEF c, s
  <2>3. CASE c.nodes = << >>
    <3>1. ExpandNodes(c, s) = << Service(c, s, c.node, 0, c.dir, c.geo, c.certDir) >>
      BY <2>3 DEF ExpandNodes
    <3>2. k = 1 /\ ExpandNodes(c, s)[k] = Service(c, s, c.node, 0, c.dir, c.geo, c.certDir)
      BY <2>1, <3>1
    <3>3. Single(ExpandNodes(c, s)[k], k, c, s)
      BY <1>3, <2>3, <3>2, ServiceWorks DEF Single
    <3> QED BY <2>2, <3>3 DEF c, s
  <2>4. CASE c.nodes # << >>
    <3>1. k \in DOMAIN c.nodes /\ ExpandNodes(c, s)[k] = Entry(c, s, c.nodes[k])
      BY <2>1, <2>4 DEF ExpandNodes
    <3>2. Listed(ExpandNodes(c, s)[k], k, c, s)
      BY <1>3, <2>4, <3>1, ServiceWorks DEF Listed, Entry
    <3> QED BY <2>2, <3>2 DEF c, s
  <2> QED BY <2>3, <2>4
<1> QED BY <1>2, <1>3

-----------------------------------------------------------------------------
(* Paths                                                                   *)

\* A path ends in one way.
LEMMA PathEnds ==
  ASSUME NEW S, NEW T, NEW p \in Seq(S), NEW q \in Seq(T), NEW a, NEW b
  PROVE  /\ In(p, a) = In(q, b) <=> p = q /\ a = b
         /\ In(p, a) # << >> /\ In(p, a) \in Seq(S \cup {a}) /\ Len(In(p, a)) = Len(p) + 1
<1> DEFINE U == S \cup T \cup {a, b}
<1>1. p \in Seq(U) /\ q \in Seq(U) /\ p \in Seq(S \cup {a}) /\ a \in U /\ b \in U
  <2>1. /\ \A i \in 1..Len(p) : p[i] \in S
        /\ \A i \in 1..Len(q) : q[i] \in T
    OBVIOUS
  <2> QED BY <2>1
<1> HIDE DEF U
<1>2. p = q /\ a = b => In(p, a) = In(q, b)
  OBVIOUS
<1>3. /\ Len(Append(p, a)) = Len(p) + 1 /\ Append(p, a)[Len(p) + 1] = a /\ \A i \in 1..Len(p) : Append(p, a)[i] = p[i]
      /\ Len(Append(q, b)) = Len(q) + 1 /\ Append(q, b)[Len(q) + 1] = b /\ \A i \in 1..Len(q) : Append(q, b)[i] = q[i]
      /\ Len(p) \in Nat /\ Len(q) \in Nat /\ Append(p, a) \in Seq(S \cup {a})
  BY <1>1
<1>4. ASSUME Append(p, a) = Append(q, b) PROVE p = q /\ a = b
  <2>1. Len(p) = Len(q)
    BY <1>3, <1>4
  <2>2. a = b /\ \A i \in 1..Len(p) : p[i] = q[i]
    BY <1>3, <1>4, <2>1
  <2> QED BY <1>1, <2>1, <2>2
<1>5. Append(p, a) # << >>
  BY <1>3
<1> QED BY <1>2, <1>3, <1>4, <1>5 DEF In

\* A service has its place, and a place one service.
LEMMA OnePlace ==
  ASSUME NEW f, NEW x \in Services(f), NEW y \in Services(f), x[1] = y[1], x[2] = y[2]
  PROVE  x = y
<1> DEFINE Of(i) == IF IsMachineMode(Instances(f)[i])
                    THEN {<<i, n, ExpandMachineNode(Instances(f)[i], Section(f, i), n)>> : n \in Assigned}
                    ELSE {<<i, k, ExpandNodes(Instances(f)[i], Section(f, i))[k]>> :
                            k \in DOMAIN ExpandNodes(Instances(f)[i], Section(f, i))}
           At(i, k) == IF IsMachineMode(Instances(f)[i])
                       THEN ExpandMachineNode(Instances(f)[i], Section(f, i), k)
                       ELSE ExpandNodes(Instances(f)[i], Section(f, i))[k]
<1>1. Services(f) = UNION {Of(i) : i \in DOMAIN Instances(f)}
  BY DEF Services
<1>2. \A i : \A z \in Of(i) : z = <<z[1], z[2], At(z[1], z[2])>>
  OBVIOUS
<1> HIDE DEF Of, At
<1> QED BY <1>1, <1>2

\* Every entry of a list has its service.
LEMMA ListedThere ==
  ASSUME NEW f, NEW i \in DOMAIN Instances(f), ~IsMachineMode(Instances(f)[i]), Instances(f)[i].nodes # << >>,
         NEW k \in DOMAIN Instances(f)[i].nodes
  PROVE  \E z \in Services(f) : z[1] = i /\ z[2] = k
<1> DEFINE c == Instances(f)[i]
           ss == ExpandNodes(c, Section(f, i))
           z == <<i, k, ss[k]>>
<1>1. DOMAIN ss = DOMAIN c.nodes
  BY DEF ExpandNodes
<1>2. z \in {<<i, j, ss[j]>> : j \in DOMAIN ss}
  BY <1>1
<1>3. z \in Services(f)
  BY <1>2 DEF Services
<1> QED BY <1>3

\* What is accepted.
LEMMA AcceptedApart ==
  ASSUME NEW f \in Files, Accepted(f)
  PROVE  /\ \A i, j \in DOMAIN Instances(f) : i # j =>
              /\ Several(f) /\ InstanceID(Instances(f)[i]) # InstanceID(Instances(f)[j])
              /\ Instances(f)[i].dir # Instances(f)[j].dir
         /\ \A x, y \in Services(f) :
              /\ ~IsMachineMode(Instances(f)[x[1]]) /\ ~IsMachineMode(Instances(f)[y[1]])
              /\ x[3].url = y[3].url /\ x[3].node = y[3].node
              => x = y
<1>1. LoadRoot(f) /\ ValidateStartupLayout(f)
  BY DEF Accepted
<1>2. ASSUME NEW i \in DOMAIN Instances(f), NEW j \in DOMAIN Instances(f), i # j
      PROVE  /\ Several(f) /\ InstanceID(Instances(f)[i]) # InstanceID(Instances(f)[j])
             /\ Instances(f)[i].dir # Instances(f)[j].dir
  <2>1. f.list # << >> /\ i \in 1..Len(f.list) /\ j \in 1..Len(f.list) /\ Len(f.list) \in Nat
    BY <1>2, FilesHaveSections
  <2>2. Several(f)
    BY <1>2, <2>1 DEF Several
  <2>3. Distinct([k \in DOMAIN Instances(f) |-> InstanceID(Instances(f)[k])])
    BY <1>1, <2>1 DEF LoadRoot
  <2>4. InstanceID(Instances(f)[i]) # InstanceID(Instances(f)[j])
    BY <1>2, <2>3 DEF Distinct
  <2>5. Instances(f)[i].dir # Instances(f)[j].dir
    BY <1>1, <1>2 DEF ValidateStartupLayout
  <2> QED BY <2>2, <2>4, <2>5
<1>3. \A x, y \in Services(f) :
        /\ ~IsMachineMode(Instances(f)[x[1]]) /\ ~IsMachineMode(Instances(f)[y[1]])
        /\ x[3].url = y[3].url /\ x[3].node = y[3].node
        => x = y
  BY <1>1 DEF ValidateStartupLayout
<1> QED BY <1>2, <1>3

-----------------------------------------------------------------------------
(* Directories                                                             *)

IsPath(p) == \E S : p \in Seq(S)

\* The same of paths of any names.
LEMMA Ends ==
  ASSUME NEW p, NEW q, IsPath(p), IsPath(q), NEW a, NEW b
  PROVE  /\ In(p, a) = In(q, b) <=> p = q /\ a = b
         /\ In(p, a) # << >> /\ IsPath(In(p, a)) /\ Len(In(p, a)) = Len(p) + 1 /\ Len(p) \in Nat
<1>1. PICK S : p \in Seq(S)
  BY DEF IsPath
<1>2. PICK T : q \in Seq(T)
  BY DEF IsPath
<1>3. In(p, a) \in Seq(S \cup {a})
  BY <1>1, PathEnds
<1> QED BY <1>1, <1>2, <1>3, PathEnds DEF IsPath

\* The base directory.
LEMMA BasePath == IsPath(Base) /\ Len(Base) = 1 /\ Base # << >>
<1>1. Base \in Seq({<<"base">>}) /\ Len(Base) = 1
  BY DEF Base
<1> QED BY <1>1 DEF IsPath

\* The directory of an instance, and that it has one of its own if nobody
\* named it.
LEMMA InstanceDirs ==
  ASSUME NEW f \in Files, NEW i \in DOMAIN Instances(f)
  PROVE  LET c == Instances(f)[i]
             s == Section(f, i) IN
           /\ IsPath(c.dir) /\ IsPath(s.dir) /\ IsPath(s.certDir) /\ IsPath(BaseOf(f, s)) /\ BaseOf(f, s) # << >>
           /\ s.dir = << >> /\ Several(f) => Len(c.dir) = 2
<1> DEFINE c == Instances(f)[i]
           s == Section(f, i)
<1>1. IsPath(s.dir) /\ IsPath(s.certDir)
  BY FilesHaveSections DEF IsPath
<1>2. /\ IsPath(BaseOf(f, s)) /\ BaseOf(f, s) # << >>
      /\ Several(f) => Len(BaseOf(f, s)) = 2
  <2> DEFINE a == InstanceID(ApplyEnv(s))
  <2> HIDE DEF a
  <2>1. In(Base, a) # << >> /\ IsPath(In(Base, a)) /\ Len(In(Base, a)) = 2
    <3>1. In(Base, a) # << >> /\ IsPath(In(Base, a)) /\ Len(In(Base, a)) = Len(Base) + 1
      BY BasePath, Ends
    <3> QED BY <3>1, BasePath
  <2>2. BaseOf(f, s) = IF Several(f) THEN In(Base, a) ELSE Base
    BY DEF BaseOf, a
  <2> QED BY <2>1, <2>2, BasePath
<1>3. c.dir = Or(s.dir, BaseOf(f, s))
  BY InstanceOfSection
<1> HIDE DEF c, s
<1>4. IsPath(c.dir) /\ (s.dir = << >> => c.dir = BaseOf(f, s))
  BY <1>1, <1>2, <1>3 DEF Or
<1> QED BY <1>1, <1>2, <1>4 DEF c, s

\* The directory, the section and the spool of a service.
LEMMA ServiceDirs ==
  ASSUME NEW f \in Files, NEW x \in Services(f)
  PROVE  /\ IsPath(x[3].dir) /\ x[3].section = Section(f, x[1]) /\ x[1] \in DOMAIN Instances(f)
         /\ x[3].spool = << >> \/ x[3].spool =
              In(x[3].dir, <<"spool", x[3].url, x[3].node, x[3].machine, InstanceID(Instances(f)[x[1]])>>)
<1> DEFINE c == Instances(f)[x[1]]
           s == Section(f, x[1])
           v == x[3]
           k == x[2]
<1>1. x[1] \in DOMAIN Instances(f) /\ (OfMachine(v, k, c, s) \/ Single(v, k, c, s) \/ Listed(v, k, c, s))
  BY ServiceKinds
<1>2. IsPath(c.dir) /\ c.nodes = s.nodes /\ \A e \in Range(s.nodes) : IsPath(e.dir)
  BY <1>1, InstanceDirs, InstanceOfSection, FilesHaveSections DEF IsPath
<1> HIDE DEF c, s, v, k
<1>3. \E n, m, dir : Works(v, c, s, n, m, dir) /\ IsPath(dir)
  <2>1. CASE OfMachine(v, k, c, s)
    BY <1>2, <2>1, Ends DEF OfMachine
  <2>2. CASE Single(v, k, c, s)
    BY <1>2, <2>2 DEF Single
  <2>3. CASE Listed(v, k, c, s)
    <3> DEFINE e == c.nodes[k]
               dir == IF e.over THEN Or(e.dir, c.dir) ELSE In(c.dir, <<"node", e.id>>)
    <3>1. Works(v, c, s, e.id, 0, dir) /\ e \in Range(s.nodes)
      BY <1>2, <2>3 DEF Listed, Range
    <3>2. IsPath(dir)
      BY <1>2, <3>1, Ends DEF Or
    <3> QED BY <3>1, <3>2
  <2> QED BY <1>1, <2>1, <2>2, <2>3
<1>4. PICK n, m, dir : Works(v, c, s, n, m, dir) /\ IsPath(dir)
  BY <1>3
<1> QED BY <1>1, <1>4 DEF Works, v, c, s

-----------------------------------------------------------------------------
(* No two services share their state                                       *)

\* A directory nobody named: the instance's, or one in it for each node.
LEMMA UnnamedDirs ==
  ASSUME NEW f \in Files, NEW x \in Services(f), ~Named(x)
  PROVE  LET c == Instances(f)[x[1]] IN
           /\ IsPath(c.dir) /\ (Several(f) => Len(c.dir) = 2)
           /\ x[3].url = c.url /\ (IsMachineMode(c) => x[3].node = x[2])
           /\ \/ ~IsMachineMode(c) /\ c.nodes = << >> /\ x[2] = 1 /\ x[3].dir = c.dir
              \/ (IsMachineMode(c) \/ c.nodes # << >>) /\ x[3].dir = In(c.dir, <<"node", x[3].node>>)
<1> DEFINE c == Instances(f)[x[1]]
           s == Section(f, x[1])
           v == x[3]
           k == x[2]
<1>1. x[1] \in DOMAIN Instances(f) /\ (OfMachine(v, k, c, s) \/ Single(v, k, c, s) \/ Listed(v, k, c, s))
  BY ServiceKinds
<1>2. v.section = s
  BY ServiceDirs
<1>3. s.dir = << >> /\ \A e \in Range(s.nodes) : ~e.over
  BY <1>2 DEF Named
<1>4. IsPath(c.dir) /\ (Several(f) => Len(c.dir) = 2) /\ c.nodes = s.nodes
  BY <1>1, <1>3, InstanceDirs, InstanceOfSection
<1> HIDE DEF c, s, v, k
<1>5. CASE OfMachine(v, k, c, s)
  BY <1>4, <1>5 DEF OfMachine, Works, c, s, v, k
<1>6. CASE Single(v, k, c, s)
  BY <1>4, <1>6 DEF Single, Works, c, s, v, k
<1>7. CASE Listed(v, k, c, s)
  <2>1. c.nodes[k] \in Range(s.nodes)
    BY <1>4, <1>7 DEF Listed, Range
  <2> QED BY <1>3, <1>4, <1>7, <2>1 DEF Listed, Works, c, s, v, k
<1> QED BY <1>1, <1>5, <1>6, <1>7

\* Two services share a directory only if somebody named it.
LEMMA DirsApart ==
  ASSUME NEW f \in Files, Accepted(f), NEW x \in Services(f), NEW y \in Services(f), x[3].dir = y[3].dir,
         ~Named(x), ~Named(y)
  PROVE  x = y
<1> DEFINE c == Instances(f)[x[1]]
           d == Instances(f)[y[1]]
<1>1. /\ IsPath(c.dir) /\ (Several(f) => Len(c.dir) = 2)
      /\ x[3].url = c.url /\ (IsMachineMode(c) => x[3].node = x[2])
      /\ \/ ~IsMachineMode(c) /\ c.nodes = << >> /\ x[2] = 1 /\ x[3].dir = c.dir
         \/ (IsMachineMode(c) \/ c.nodes # << >>) /\ x[3].dir = In(c.dir, <<"node", x[3].node>>)
  BY UnnamedDirs
<1>2. /\ IsPath(d.dir) /\ (Several(f) => Len(d.dir) = 2)
      /\ y[3].url = d.url /\ (IsMachineMode(d) => y[3].node = y[2])
      /\ \/ ~IsMachineMode(d) /\ d.nodes = << >> /\ y[2] = 1 /\ y[3].dir = d.dir
         \/ (IsMachineMode(d) \/ d.nodes # << >>) /\ y[3].dir = In(d.dir, <<"node", y[3].node>>)
  BY UnnamedDirs
<1>3. x[1] \in DOMAIN Instances(f) /\ y[1] \in DOMAIN Instances(f)
  BY ServiceKinds
<1>4. x[1] # y[1] => Several(f) /\ c.dir # d.dir
  BY <1>3, AcceptedApart
<1>5. ~IsMachineMode(c) /\ ~IsMachineMode(d) /\ x[3].url = y[3].url /\ x[3].node = y[3].node => x = y
  BY AcceptedApart
<1>6. x[1] = y[1] => c = d
  OBVIOUS
<1>7. x[1] = y[1] /\ x[2] = y[2] => x = y
  BY OnePlace
<1> HIDE DEF c, d
<1> DEFINE m == <<"node", x[3].node>>
           n == <<"node", y[3].node>>
<1>8. /\ In(c.dir, m) = In(d.dir, n) => c.dir = d.dir /\ m = n
      /\ Len(In(c.dir, m)) = Len(c.dir) + 1 /\ Len(c.dir) \in Nat
      /\ Len(In(d.dir, n)) = Len(d.dir) + 1 /\ Len(d.dir) \in Nat
  BY <1>1, <1>2, Ends
<1>9. m = n => x[3].node = y[3].node
  OBVIOUS
<1> HIDE DEF m, n
<1>10. /\ x[3].dir = c.dir \/ x[3].dir = In(c.dir, m)
       /\ y[3].dir = d.dir \/ y[3].dir = In(d.dir, n)
  BY <1>1, <1>2 DEF m, n
<1>11. x[1] = y[1]
  <2> SUFFICES ASSUME x[1] # y[1] PROVE FALSE
    OBVIOUS
  <2>1. Len(c.dir) = 2 /\ Len(d.dir) = 2 /\ c.dir # d.dir
    BY <1>1, <1>2, <1>4
  <2>2. Len(x[3].dir) = Len(y[3].dir)
    OBVIOUS
  <2>3. CASE x[3].dir = c.dir
    BY <1>8, <1>10, <2>1, <2>2, <2>3
  <2>4. CASE x[3].dir = In(c.dir, m)
    <3>1. CASE y[3].dir = d.dir
      <4>1. Len(x[3].dir) = 3
        BY <1>8, <2>1, <2>4
      <4>2. Len(x[3].dir) = 2
        BY <2>1, <2>2, <3>1
      <4> QED BY <4>1, <4>2
    <3>2. CASE y[3].dir = In(d.dir, n)
      BY <1>8, <2>1, <2>4, <3>2
    <3> QED BY <1>10, <3>1, <3>2
  <2> QED BY <1>10, <2>3, <2>4
<1>12. CASE ~IsMachineMode(c) /\ c.nodes = << >>
  BY <1>1, <1>2, <1>6, <1>7, <1>11, <1>12
<1>13. CASE IsMachineMode(c) \/ c.nodes # << >>
  <2>1. x[3].dir = In(c.dir, m) /\ y[3].dir = In(d.dir, n)
    BY <1>1, <1>2, <1>6, <1>11, <1>13 DEF m, n
  <2>2. x[3].node = y[3].node
    BY <1>8, <1>9, <2>1
  <2> QED BY <1>1, <1>2, <1>5, <1>6, <1>7, <1>11, <2>2
<1> QED BY <1>12, <1>13

\* No two services share a spool.
LEMMA SpoolsApart ==
  ASSUME NEW f \in Files, Accepted(f), NEW x \in Services(f), NEW y \in Services(f),
         x[3].spool = y[3].spool, x[3].spool # << >>
  PROVE  x = y
<1> DEFINE c == Instances(f)[x[1]]
           d == Instances(f)[y[1]]
           a == <<"spool", x[3].url, x[3].node, x[3].machine, InstanceID(c)>>
           b == <<"spool", y[3].url, y[3].node, y[3].machine, InstanceID(d)>>
<1>1. /\ IsPath(x[3].dir) /\ x[3].spool = In(x[3].dir, a) /\ x[1] \in DOMAIN Instances(f)
      /\ IsPath(y[3].dir) /\ y[3].spool = In(y[3].dir, b) /\ y[1] \in DOMAIN Instances(f)
  BY ServiceDirs
<1>2. a = b => x[3].url = y[3].url /\ x[3].node = y[3].node /\ InstanceID(c) = InstanceID(d)
  OBVIOUS
<1>3. x[1] # y[1] => InstanceID(c) # InstanceID(d)
  BY <1>1, AcceptedApart
<1> HIDE DEF a, b
<1>4. a = b
  <2>1. In(x[3].dir, a) = In(y[3].dir, b) <=> x[3].dir = y[3].dir /\ a = b
    BY <1>1, Ends
  <2> QED BY <1>1, <2>1
<1>5. x[1] = y[1] /\ x[3].url = y[3].url /\ x[3].node = y[3].node
  BY <1>2, <1>3, <1>4
<1>6. IsMachineMode(c) => x[3].node = x[2] /\ y[3].node = y[2]
  BY <1>5, ServiceKinds DEF OfMachine, Single, Listed, Works
<1> QED BY <1>5, <1>6, OnePlace, AcceptedApart

\* Unless they are shared the certificates are in the directory of the service.
LEMMA CertsOfOwn ==
  ASSUME NEW f \in Files, NEW x \in Services(f), ~SharesCerts(x)
  PROVE  x[3].certs = In(x[3].dir, <<"certs">>)
<1> DEFINE c == Instances(f)[x[1]]
           s == Section(f, x[1])
           v == x[3]
           k == x[2]
<1>1. x[1] \in DOMAIN Instances(f) /\ (OfMachine(v, k, c, s) \/ Single(v, k, c, s) \/ Listed(v, k, c, s))
  BY ServiceKinds
<1>2. v.section = s /\ c.nodes = s.nodes /\ c.certDir = Or(s.certDir, In(c.dir, <<"certs">>))
  BY <1>1, ServiceDirs, InstanceOfSection
<1>3. s.certDir = << >> /\ (v.machine = 0 => s.nodes = << >>)
  BY <1>2 DEF SharesCerts
<1> HIDE DEF c, s, v, k
<1>4. CASE OfMachine(v, k, c, s)
  BY <1>4 DEF OfMachine, Works, v
<1>5. CASE Single(v, k, c, s)
  BY <1>2, <1>3, <1>5 DEF Single, Works, Or, v
<1>6. CASE Listed(v, k, c, s)
  BY <1>2, <1>3, <1>6 DEF Listed, Works
<1> QED BY <1>1, <1>4, <1>5, <1>6

-----------------------------------------------------------------------------
(* The process                                                             *)

LayoutInv == layout \in Files /\ Accepted(layout) /\ fleet \subseteq Services(layout)

\* The table of outcomes says what becomes of a file.
LEMMA Outcomes ==
  ASSUME NEW f \in Files
  PROVE  Outcome[f].accepted = Accepted(f) /\ Outcome[f].services = IF Accepted(f) THEN Services(f) ELSE {}
BY DEF Outcome

\* The services that run are services of the file that was accepted last.
THEOREM FleetOfLayout == Spec => []LayoutInv
<1>1. Init => LayoutInv
  <2> SUFFICES ASSUME Init PROVE LayoutInv
    OBVIOUS
  <2>1. layout \in Files /\ Outcome[layout].accepted /\ fleet = Outcome[layout].services
    BY DEF Init
  <2> QED BY <2>1, Outcomes DEF LayoutInv
<1>2. LayoutInv /\ [Next]_layoutVars => LayoutInv'
  <2> SUFFICES ASSUME LayoutInv, [Next]_layoutVars PROVE LayoutInv'
    OBVIOUS
  <2>1. ASSUME NEW f \in Files, Refuse(f) PROVE LayoutInv'
    BY <2>1 DEF LayoutInv, Refuse
  <2>2. ASSUME NEW f \in Files, Reload(f) PROVE LayoutInv'
    BY <2>2, Outcomes DEF LayoutInv, Reload
  <2>3. ASSUME NEW s \in fleet, Save(s) \/ Replay(s) PROVE LayoutInv'
    BY <2>3 DEF LayoutInv, Save, Replay
  <2>4. CASE UNCHANGED layoutVars
    BY <2>4 DEF LayoutInv, layoutVars
  <2> QED BY <2>1, <2>2, <2>3, <2>4 DEF Next
<1> QED BY <1>1, <1>2, PTL DEF Spec

\* StateIsOwn: no two services of a layout that was accepted look for their batches in
\* the same file, and two share a directory only if somebody named it.
THEOREM ServicesAreApart == Spec => []StateIsOwn
<1>1. LayoutInv => StateIsOwn
  <2> SUFFICES ASSUME LayoutInv, NEW x \in fleet, NEW y \in fleet, x # y
               PROVE  /\ x[3].spool = y[3].spool => x[3].spool = << >>
                      /\ x[3].dir = y[3].dir => Named(x) \/ Named(y)
                      /\ x[3].certs = y[3].certs => SharesCerts(x) \/ SharesCerts(y) \/ Named(x) \/ Named(y)
    BY DEF StateIsOwn
  <2>1. layout \in Files /\ Accepted(layout) /\ x \in Services(layout) /\ y \in Services(layout)
    BY DEF LayoutInv
  <2>2. x[3].spool = y[3].spool => x[3].spool = << >>
    BY <2>1, SpoolsApart
  <2>3. x[3].dir = y[3].dir => Named(x) \/ Named(y)
    BY <2>1, DirsApart
  <2>4. ASSUME x[3].certs = y[3].certs, ~SharesCerts(x), ~SharesCerts(y) PROVE Named(x) \/ Named(y)
    <3>1. x[3].certs = In(x[3].dir, <<"certs">>) /\ y[3].certs = In(y[3].dir, <<"certs">>)
      BY <2>1, <2>4, CertsOfOwn
    <3>2. IsPath(x[3].dir) /\ IsPath(y[3].dir)
      BY <2>1, ServiceDirs
    <3>3. x[3].dir = y[3].dir
      <4> DEFINE p == x[3].dir
                 q == y[3].dir
      <4> HIDE DEF p, q
      <4>1. In(p, <<"certs">>) = In(q, <<"certs">>) <=> p = q /\ <<"certs">> = <<"certs">>
        BY <3>2, Ends DEF p, q
      <4> QED BY <2>4, <3>1, <4>1 DEF p, q
    <3> QED BY <2>3, <3>3
  <2> QED BY <2>2, <2>3, <2>4
<1> QED BY <1>1, FleetOfLayout, PTL

-----------------------------------------------------------------------------
(* A node keeps its state                                                  *)

\* The services of the same node, of the same section in two files.
LEMMA SectionsKeepState ==
  ASSUME NEW f \in Files, NEW g \in Files, Accepted(f), Accepted(g), Several(f) = Several(g),
         NEW x \in Services(f), NEW y \in Services(g),
         x[3].section = y[3].section, x[3].node = y[3].node, x[3].machine = y[3].machine
  PROVE  x[3].dir = y[3].dir /\ x[3].certs = y[3].certs /\ x[3].spool = y[3].spool
<1> DEFINE c == Instances(f)[x[1]]
           d == Instances(g)[y[1]]
           s == Section(f, x[1])
           t == Section(g, y[1])
           v == x[3]
           w == y[3]
           k == x[2]
           l == y[2]
<1>1. /\ x[1] \in DOMAIN Instances(f) /\ (OfMachine(v, k, c, s) \/ Single(v, k, c, s) \/ Listed(v, k, c, s))
      /\ y[1] \in DOMAIN Instances(g) /\ (OfMachine(w, l, d, t) \/ Single(w, l, d, t) \/ Listed(w, l, d, t))
  BY ServiceKinds
<1>2. v.section = s /\ w.section = t
  BY ServiceDirs
<1>3. s = t
  BY <1>2
<1>4. BaseOf(f, s) = BaseOf(g, t)
  BY <1>3 DEF BaseOf
<1>5. /\ c.standalone = s.standalone /\ c.nodes = s.nodes /\ c.url = ApplyEnv(s).url
      /\ c.machine = ApplyEnv(s).machine /\ c.node = ApplyEnv(s).node
      /\ InstanceID(c) = InstanceID(ApplyEnv(s))
      /\ c.dir = Or(s.dir, BaseOf(f, s)) /\ c.certDir = Or(s.certDir, In(c.dir, <<"certs">>))
  BY <1>1, InstanceOfSection
<1>6. /\ d.standalone = t.standalone /\ d.nodes = t.nodes /\ d.url = ApplyEnv(t).url
      /\ d.machine = ApplyEnv(t).machine /\ d.node = ApplyEnv(t).node
      /\ InstanceID(d) = InstanceID(ApplyEnv(t))
      /\ d.dir = Or(t.dir, BaseOf(g, t)) /\ d.certDir = Or(t.certDir, In(d.dir, <<"certs">>))
  BY <1>1, InstanceOfSection
<1>7. /\ c.standalone = d.standalone /\ c.nodes = d.nodes /\ c.url = d.url /\ c.machine = d.machine
      /\ c.node = d.node /\ InstanceID(c) = InstanceID(d) /\ c.dir = d.dir /\ c.certDir = d.certDir
  <2> HIDE DEF c, d, s, t
  <2> QED BY <1>3, <1>4, <1>5, <1>6
<1>8. ASSUME Listed(v, k, c, s), Listed(w, l, d, t) PROVE k = l
  <2>1. ~IsMachineMode(c) /\ c.nodes # << >> /\ l \in DOMAIN c.nodes
    BY <1>7, <1>8 DEF Listed
  <2>2. PICK z \in Services(f) : z[1] = x[1] /\ z[2] = l
    BY <1>1, <2>1, ListedThere
  <2>3. OfMachine(z[3], l, c, s) \/ Single(z[3], l, c, s) \/ Listed(z[3], l, c, s)
    BY <2>2, ServiceKinds
  <2> HIDE DEF c, d, s, t
  <2>4. z[3].node = c.nodes[l].id /\ z[3].url = c.url
    BY <2>1, <2>3 DEF OfMachine, Single, Listed, Works
  <2>5. v.url = c.url /\ w.node = c.nodes[l].id
    BY <1>7, <1>8 DEF Listed, Works
  <2>6. z = x
    BY <2>1, <2>2, <2>4, <2>5, AcceptedApart DEF c
  <2> QED BY <2>2, <2>6
<1> HIDE DEF c, d, s, t
<1>9. CASE OfMachine(v, k, c, s)
  <2>1. OfMachine(w, l, d, t)
    BY <1>1, <1>7, <1>9 DEF OfMachine, Single, Listed, IsMachineMode
  <2>2. k = l
    BY <1>9, <2>1 DEF OfMachine, Works
  <2> QED BY <1>7, <1>9, <2>1, <2>2 DEF OfMachine, Works
<1>10. CASE Single(v, k, c, s)
  <2>1. Single(w, l, d, t)
    BY <1>1, <1>7, <1>10 DEF OfMachine, Single, Listed, IsMachineMode
  <2> QED BY <1>7, <1>10, <2>1 DEF Single, Works
<1>11. CASE Listed(v, k, c, s)
  <2>1. Listed(w, l, d, t)
    BY <1>1, <1>7, <1>11 DEF OfMachine, Single, Listed, IsMachineMode
  <2>2. k = l
    BY <1>8, <1>11, <2>1
  <2> QED BY <1>7, <1>11, <2>1, <2>2 DEF Listed, Works
<1> QED BY <1>1, <1>9, <1>10, <1>11

\* StateStays: a node whose section does not change keeps its directories and its
\* spool, whatever else is edited.
THEOREM ReloadsKeepState == Spec => StateStays
<1>1. LayoutInv /\ LayoutInv' /\ [Next]_layoutVars =>
        [ (Len(layout.list) > 1) = (Len(layout'.list) > 1) =>
          \A x \in fleet, y \in fleet' :
            x[3].section = y[3].section /\ x[3].node = y[3].node /\ x[3].machine = y[3].machine =>
              x[3].dir = y[3].dir /\ x[3].certs = y[3].certs /\ x[3].spool = y[3].spool ]_layoutVars
  <2> SUFFICES ASSUME LayoutInv, LayoutInv', (Len(layout.list) > 1) = (Len(layout'.list) > 1),
                      NEW x \in fleet, NEW y \in fleet',
                      x[3].section = y[3].section, x[3].node = y[3].node, x[3].machine = y[3].machine
               PROVE  x[3].dir = y[3].dir /\ x[3].certs = y[3].certs /\ x[3].spool = y[3].spool
    OBVIOUS
  <2>1. layout \in Files /\ Accepted(layout) /\ x \in Services(layout)
    BY DEF LayoutInv
  <2>2. layout' \in Files /\ Accepted(layout') /\ y \in Services(layout')
    BY DEF LayoutInv
  <2>3. Several(layout) = Several(layout')
    BY DEF Several
  <2> QED BY <2>1, <2>2, <2>3, SectionsKeepState
<1> QED BY <1>1, FleetOfLayout, PTL DEF Spec, StateStays

-----------------------------------------------------------------------------
(* ConfigReload                                                            *)

ReloadType ==
  /\ file \in Contents /\ edits \in 0..MaxEdits /\ root \in Contents
  /\ main \in {"round", "serve", "draining", "ending"} \cup CR!Over
  /\ open \in BOOLEAN /\ services \in {"none", "up", "down"} /\ failed \in BOOLEAN
  /\ watcher \in [on : BOOLEAN, event : BOOLEAN, timer : BOOLEAN]
  /\ loads \subseteq Contents
  /\ reloadCh \in {<< >>} \cup {<<c>> : c \in Contents}
  /\ new \in Contents \cup {CR!Nobody}
  /\ signals \in 0..MaxSignals /\ sigCh \in BOOLEAN
  /\ handler \in {"none", "waiting", "armed", "gone"} /\ watchdog \in BOOLEAN
  /\ health \in [open : Nat, healthPort : Nat] /\ missed \in BOOLEAN

\* Something of this round will still bring the file to the loop.
Coming == watcher.event \/ watcher.timer \/ file \in loads \/ reloadCh = <<file>>

\* Of the file as it was before.
Stale == {c \in loads : c # file} # {} \/ (reloadCh # << >> /\ reloadCh # <<file>>)

\* Unless the last edit was missed, the loop has the file, or it will come; an
\* old one in the channel or in a load does not come last.
FileInv ==
  /\ main = "round" => watcher = CR!Quiet /\ loads = {} /\ reloadCh = << >>
  /\ main = "serve" => new = CR!Nobody
  /\ main \notin CR!Over /\ ~missed /\ file.kind # "unreadable" =>
       /\ main = "round" => root = file
       /\ main # "round" /\ new = CR!Nobody => (root = file /\ ~Stale) \/ Coming
       /\ main # "round" /\ new # CR!Nobody => new = file \/ Coming

\* The process starts with its file.
LEMMA ReloadInitType == CR!ConfigReloadAssumption /\ CR!Init => ReloadType /\ FileInv
<1> SUFFICES ASSUME CR!ConfigReloadAssumption, CR!Init PROVE ReloadType /\ FileInv
  OBVIOUS
<1>1. file \in Contents /\ root \in Contents /\ root.port \in Nat
  BY DEF CR!ConfigReloadAssumption, CR!Init
<1>2. edits \in 0..MaxEdits /\ signals \in 0..MaxSignals
  BY DEF CR!ConfigReloadAssumption, CR!Init
<1>3. health \in [open : Nat, healthPort : Nat]
  BY <1>1 DEF CR!Init
<1>4. ReloadType
  BY <1>1, <1>2, <1>3 DEF CR!Init, ReloadType, CR!Quiet
<1>5. FileInv
  BY DEF CR!Init, FileInv, Coming, Stale
<1> QED BY <1>4, <1>5

\* The mark for no configuration is not one.
LEMMA NobodyReads == CR!ConfigReloadAssumption => CR!Nobody \notin Contents
BY DEF CR!ConfigReloadAssumption, CR!Nobody

\* Types: the steps of the loop,
LEMMA ReloadRoundType ==
  ASSUME CR!ConfigReloadAssumption, ReloadType,
         \/ \E watching \in BOOLEAN : CR!Round(watching)
         \/ CR!ServiceFails \/ CR!ServicesStop \/ CR!TakeReload \/ CR!Drained \/ CR!End
  PROVE  ReloadType'
<1>1. ASSUME NEW watching \in BOOLEAN, CR!Round(watching)
      PROVE  ReloadType'
  <2>1. root.port \in Nat
    BY DEF ReloadType, CR!ConfigReloadAssumption
  <2>2. health' \in [open : Nat, healthPort : Nat]
    BY <1>1, <2>1 DEF CR!Round, CR!Started, ReloadType
  <2>3. main' \in {"serve", "exit"} /\ services' \in {"none", "up", "down"}
    BY <1>1 DEF CR!Round, CR!Exits, ReloadType
  <2>4. watcher' \in [on : BOOLEAN, event : BOOLEAN, timer : BOOLEAN]
    BY <1>1 DEF CR!Round, CR!Quiet
  <2> QED BY <1>1, <2>2, <2>3, <2>4 DEF CR!Round, CR!outside, ReloadType, CR!Over
<1>2. CASE CR!ServiceFails
  <2>1. open' \in BOOLEAN /\ failed' \in BOOLEAN
    BY <1>2 DEF CR!ServiceFails
  <2> QED BY <1>2, <2>1 DEF CR!ServiceFails, CR!outside, ReloadType
<1>3. CASE CR!ServicesStop
  BY <1>3 DEF CR!ServicesStop, CR!outside, ReloadType
<1>4. CASE CR!TakeReload
  <2>1. new' \in Contents
    BY <1>4 DEF CR!TakeReload, ReloadType
  <2> QED BY <1>4, <2>1 DEF CR!TakeReload, CR!outside, ReloadType
<1>5. CASE CR!Drained
  BY <1>5 DEF CR!Drained, CR!outside, ReloadType
<1>6. CASE CR!End
  BY <1>6 DEF CR!End, CR!outside, CR!Quiet, CR!Over, ReloadType
<1> QED BY <1>1, <1>2, <1>3, <1>4, <1>5, <1>6

\* and of the watcher and the signals.
LEMMA ReloadWatcherType ==
  ASSUME CR!ConfigReloadAssumption, ReloadType,
         \/ \E c \in Contents : CR!Edit(c) \/ CR!Deliver(c)
         \/ CR!TakeEvent \/ CR!WatcherEnds \/ CR!Fire
         \/ CR!Signal \/ CR!TakeSignal \/ CR!HandlerEnds \/ CR!TimesOut
  PROVE  ReloadType'
<1>1. ASSUME NEW c \in Contents, CR!Edit(c)
      PROVE  ReloadType'
  BY <1>1 DEF CR!Edit, ReloadType, CR!ConfigReloadAssumption
<1>2. ASSUME NEW c \in Contents, CR!Deliver(c)
      PROVE  ReloadType'
  <2>1. loads' \subseteq Contents /\ reloadCh' \in {<< >>} \cup {<<d>> : d \in Contents} /\ missed' \in BOOLEAN
    BY <1>2 DEF CR!Deliver, ReloadType
  <2> QED BY <1>2, <2>1 DEF CR!Deliver, CR!outside, ReloadType
<1>3. CASE CR!TakeEvent
  <2>1. watcher' \in [on : BOOLEAN, event : BOOLEAN, timer : BOOLEAN]
    BY <1>3 DEF CR!TakeEvent, ReloadType
  <2> QED BY <1>3, <2>1 DEF CR!TakeEvent, CR!outside, ReloadType
<1>4. CASE CR!WatcherEnds
  BY <1>4 DEF CR!WatcherEnds, CR!outside, CR!Quiet, ReloadType
<1>5. CASE CR!Fire
  <2>1. watcher' \in [on : BOOLEAN, event : BOOLEAN, timer : BOOLEAN]
    BY <1>5 DEF CR!Fire, ReloadType
  <2>2. loads' \subseteq Contents
    BY <1>5 DEF CR!Fire, CR!Load, ReloadType
  <2> QED BY <1>5, <2>1, <2>2 DEF CR!Fire, CR!outside, ReloadType
<1>6. CASE CR!Signal
  <2>1. signals' \in 0..MaxSignals
    BY <1>6 DEF CR!Signal, ReloadType, CR!ConfigReloadAssumption
  <2>2. main' \in {main, "killed"} /\ sigCh' \in BOOLEAN
    BY <1>6 DEF CR!Signal, CR!Exits, ReloadType
  <2> QED BY <1>6, <2>1, <2>2 DEF CR!Signal, CR!Over, CR!outside, ReloadType
<1>7. CASE CR!TakeSignal
  <2>1. /\ main' \in {"round", "serve", "draining", "ending"} \cup CR!Over
        /\ handler' \in {"none", "waiting", "armed", "gone"} /\ watchdog' \in BOOLEAN /\ open' \in BOOLEAN
    BY <1>7 DEF CR!TakeSignal, CR!Exits, CR!Over, ReloadType
  <2>2. sigCh' \in BOOLEAN
    BY <1>7 DEF CR!TakeSignal
  <2> QED BY <1>7, <2>1, <2>2 DEF CR!TakeSignal, CR!outside, ReloadType
<1>8. CASE CR!HandlerEnds
  BY <1>8 DEF CR!HandlerEnds, CR!outside, ReloadType
<1>9. CASE CR!TimesOut
  BY <1>9 DEF CR!TimesOut, CR!Exits, CR!Over, CR!outside, ReloadType
<1> QED BY <1>1, <1>2, <1>3, <1>4, <1>5, <1>6, <1>7, <1>8, <1>9

\* Every step keeps the types.
LEMMA ReloadNextType == CR!ConfigReloadAssumption /\ ReloadType /\ [CR!Next]_(CR!reloadVars) => ReloadType'
<1> SUFFICES ASSUME CR!ConfigReloadAssumption, ReloadType, [CR!Next]_(CR!reloadVars) PROVE ReloadType'
  OBVIOUS
<1>1. CASE UNCHANGED CR!reloadVars
  BY <1>1 DEF CR!reloadVars, ReloadType
<1> QED BY <1>1, ReloadRoundType, ReloadWatcherType DEF CR!Next

\* The loop.
LEMMA RoundKeepsFile ==
  ASSUME CR!ConfigReloadAssumption, ReloadType, FileInv,
         \/ \E watching \in BOOLEAN : CR!Round(watching)
         \/ CR!ServiceFails \/ CR!ServicesStop \/ CR!TakeReload \/ CR!Drained \/ CR!End
  PROVE  FileInv'
<1>1. ASSUME NEW watching \in BOOLEAN, CR!Round(watching)
      PROVE  FileInv'
  <2>1. /\ main = "round" /\ main' \in {"serve", "exit"} /\ new' = CR!Nobody
        /\ loads' = {} /\ reloadCh' = << >> /\ UNCHANGED <<file, root, missed>>
    BY <1>1 DEF CR!Round, CR!Exits, CR!outside
  <2> QED BY <2>1 DEF FileInv, Coming, Stale, CR!Over
<1>2. CASE CR!ServiceFails
  BY <1>2 DEF CR!ServiceFails, CR!outside, FileInv, Coming, Stale
<1>3. CASE CR!ServicesStop
  BY <1>3 DEF CR!ServicesStop, CR!outside, FileInv, Coming, Stale
<1>4. CASE CR!TakeReload
  <2>1. /\ main = "serve" /\ main' = "draining" /\ new = CR!Nobody
        /\ UNCHANGED <<file, root, watcher, loads, missed>>
    BY <1>4 DEF CR!TakeReload, CR!outside, FileInv
  <2>2. PICK c \in Contents : reloadCh = <<c>>
    BY <1>4 DEF CR!TakeReload, ReloadType
  <2>3. new' = c /\ new' # CR!Nobody
    BY <1>4, <2>2, NobodyReads DEF CR!TakeReload
  <2>4. c = file \/ (reloadCh # <<file>> /\ Stale)
    <3>1. <<c>>[1] = c /\ <<file>>[1] = file /\ Len(<<c>>) = 1 /\ Len(<< >>) = 0
      OBVIOUS
    <3>2. <<c>> # << >> /\ (c # file => <<c>> # <<file>>)
      BY <3>1
    <3>3. reloadCh # << >> /\ (c # file => reloadCh # <<file>>)
      BY ONLY <2>2, <3>2
    <3> QED BY <3>3 DEF Stale
  <2> QED BY <2>1, <2>3, <2>4 DEF FileInv, Coming, CR!Over
<1>5. CASE CR!Drained
  BY <1>5 DEF CR!Drained, CR!outside, CR!Over, FileInv, Coming, Stale
<1>6. CASE CR!End
  <2>1. CASE new = CR!Nobody
    BY <1>6, <2>1 DEF CR!End, CR!Over, FileInv
  <2>2. CASE new # CR!Nobody
    <3>1. /\ main = "ending" /\ main' = "round" /\ root' = new /\ file' = file
          /\ watcher' = CR!Quiet /\ loads' = {} /\ reloadCh' = << >>
          /\ missed' = (new # file /\ (missed \/ CR!Unseen))
      BY <1>6, <2>2 DEF CR!End, CR!outside
    <3>2. ~missed' /\ file.kind # "unreadable" => new = file
      BY <2>2, <3>1 DEF FileInv, Coming, CR!Unseen, CR!Over
    <3> QED BY <3>1, <3>2 DEF FileInv, CR!Over
  <2> QED BY <2>1, <2>2
<1> QED BY <1>1, <1>2, <1>3, <1>4, <1>5, <1>6

\* The watcher, and whoever edits the file.
LEMMA WatcherKeepsFile ==
  ASSUME CR!ConfigReloadAssumption, ReloadType, FileInv,
         \/ \E c \in Contents : CR!Edit(c) \/ CR!Deliver(c)
         \/ CR!TakeEvent \/ CR!WatcherEnds \/ CR!Fire
  PROVE  FileInv'
<1>1. ASSUME NEW c \in Contents, CR!Edit(c)
      PROVE  FileInv'
  <2>1. /\ main' = main /\ UNCHANGED <<root, new, loads, reloadCh>>
        /\ watcher'.event = watcher.on /\ missed' = (missed \/ ~watcher.on)
    BY <1>1 DEF CR!Edit, ReloadType
  <2>2. main = "round" => ~watcher.on /\ watcher' = watcher
    <3>1. watcher' = [watcher EXCEPT !.event = watcher.on]
      BY <1>1 DEF CR!Edit
    <3>2. main = "round" => ~watcher.on /\ ~watcher.event
      BY DEF FileInv, CR!Quiet
    <3> QED BY <3>1, <3>2 DEF ReloadType
  <2> QED BY <2>1, <2>2 DEF FileInv, Coming, ReloadType
<1>2. ASSUME NEW c \in Contents, CR!Deliver(c)
      PROVE  FileInv'
  <2>1. /\ UNCHANGED <<main, file, root, new, watcher>> /\ c \in loads /\ loads' = loads \ {c}
        /\ main # "round"
    BY <1>2 DEF CR!Deliver, CR!outside, FileInv
  <2>2. CASE c = file /\ reloadCh = << >>
    BY <1>2, <2>1, <2>2 DEF CR!Deliver, FileInv, Coming
  <2>3. CASE c = file /\ reloadCh # << >>
    BY <1>2, <2>1, <2>3 DEF CR!Deliver, FileInv, Coming
  <2>4. CASE c # file /\ reloadCh = << >>
    <3>1. Coming => Coming'
      BY <1>2, <2>1, <2>4 DEF CR!Deliver, Coming
    <3>2. Stale
      BY <2>1, <2>4 DEF Stale
    <3>3. missed' = missed
      BY <1>2, <2>4 DEF CR!Deliver
    <3> QED BY <2>1, <3>1, <3>2, <3>3 DEF FileInv
  <2>5. CASE c # file /\ reloadCh # << >>
    <3>1. Coming => Coming'
      BY <1>2, <2>1, <2>5 DEF CR!Deliver, Coming
    <3>2. Stale
      BY <2>1, <2>5 DEF Stale
    <3>3. missed' = missed
      BY <1>2, <2>5 DEF CR!Deliver, ReloadType
    <3> QED BY <2>1, <3>1, <3>2, <3>3 DEF FileInv
  <2> QED BY <2>2, <2>3, <2>4, <2>5
<1>3. CASE CR!TakeEvent
  <2>1. /\ UNCHANGED <<main, file, root, new, loads, reloadCh, missed>> /\ main # "round" /\ watcher'.timer
    BY <1>3 DEF CR!TakeEvent, CR!outside, FileInv, CR!Quiet, ReloadType
  <2> QED BY <2>1 DEF FileInv, Coming
<1>4. CASE CR!WatcherEnds
  <2>1. /\ UNCHANGED <<main, file, root, new, loads, reloadCh>> /\ main # "round"
        /\ missed' = (missed \/ watcher.event \/ watcher.timer)
    BY <1>4 DEF CR!WatcherEnds, CR!outside, FileInv, CR!Quiet
  <2> QED BY <2>1 DEF FileInv, Coming, Stale
<1>5. CASE CR!Fire
  <2>1. /\ UNCHANGED <<main, file, root, new, reloadCh, missed>> /\ main # "round"
    BY <1>5 DEF CR!Fire, CR!outside, FileInv, CR!Quiet
  <2>2. file.kind # "unreadable" => file \in loads'
    BY <1>5 DEF CR!Fire, CR!Load
  <2> QED BY <2>1, <2>2 DEF FileInv, Coming
<1> QED BY <1>1, <1>2, <1>3, <1>4, <1>5

\* Signals end rounds, or the process.
LEMMA SignalKeepsFile ==
  ASSUME ReloadType, FileInv, CR!Signal \/ CR!TakeSignal \/ CR!HandlerEnds \/ CR!TimesOut
  PROVE  FileInv'
<1>1. UNCHANGED <<file, root, new, watcher, loads, reloadCh, missed>> /\ (main' = main \/ main' \in CR!Over)
  BY DEF CR!Signal, CR!TakeSignal, CR!HandlerEnds, CR!TimesOut, CR!Exits, CR!Over, CR!outside
<1> QED BY <1>1 DEF FileInv, Coming, Stale, CR!Over

\* Every step keeps the file on its way.
LEMMA NextKeepsFile ==
  CR!ConfigReloadAssumption /\ ReloadType /\ FileInv /\ [CR!Next]_(CR!reloadVars) => FileInv'
<1> SUFFICES ASSUME CR!ConfigReloadAssumption, ReloadType, FileInv, [CR!Next]_(CR!reloadVars) PROVE FileInv'
  OBVIOUS
<1>1. CASE UNCHANGED CR!reloadVars
  BY <1>1 DEF CR!reloadVars, FileInv, Coming, Stale
<1> QED BY <1>1, RoundKeepsFile, WatcherKeepsFile, SignalKeepsFile DEF CR!Next

\* RunsTheFile: when nothing is under way the services run with the file as it is,
\* whatever signals and edits came in between, unless no watcher saw the last edit.
THEOREM FileIsRun == CR!Spec => []RunsTheFile
<1>1. CR!Init => ReloadType /\ FileInv
  BY PartsAssumption, ReloadInitType
<1>2. ReloadType /\ FileInv /\ [CR!Next]_(CR!reloadVars) => ReloadType' /\ FileInv'
  BY PartsAssumption, ReloadNextType, NextKeepsFile
<1>3. FileInv => RunsTheFile
  BY DEF FileInv, RunsTheFile, CR!RunsTheFile, Coming, CR!Over
<1> QED BY <1>1, <1>2, <1>3, PTL DEF CR!Spec

-----------------------------------------------------------------------------
(* Cert                                                                    *)

Material == [origin : {"nothing", "self", "content", "file", "acme"}, id : Nat]
CertRecord == [cert : Material, key : Material]
CertGoroutine ==
  [pc : {"idle", "start", "read", "generate", "swap", "cert", "key", "done"},
   old : CertRecord, new : Material, ok : BOOLEAN]

CertType ==
  /\ cfg \in Configs \cup {CE!Off} /\ acme \in Configs \cup {CE!Off}
  /\ mat \in CertRecord /\ kernel \in CertRecord /\ disk \in CertRecord
  /\ loop \in CertGoroutine /\ renewal \in CertGoroutine
  /\ renewed \in BOOLEAN /\ poll \in {"none", "due", "lost"} /\ issued \in Nat

\* Whoever swaps the material still has to tell the kernel, or the flag that
\* tells it.
CertInv ==
  /\ CertType
  /\ mat.cert = mat.key
  /\ \/ kernel = mat \/ loop.pc # "idle" \/ renewal.pc \in {"cert", "key", "done"}
     \/ renewed \/ poll # "none"

\* The values that actions write.
LEMMA CertValues ==
  /\ CE!NoPair \in CertRecord /\ CE!NoPair.cert = CE!NoPair.key
  /\ CE!Idle \in CertGoroutine /\ CE!Idle.pc = "idle"
  /\ \A m \in Material : CE!Pair(m) \in CertRecord /\ CE!Pair(m).cert = CE!Pair(m).key
  /\ \A p \in CertRecord : p.cert \in Material /\ p.key \in Material
BY DEF CE!NoPair, CE!Pair, CE!Nothing, CE!Idle, CertGoroutine, CertRecord, Material

\* A goroutine that goes on.
LEMMA CertGoesOn ==
  ASSUME NEW g \in CertGoroutine,
         NEW pc \in {"idle", "start", "read", "generate", "swap", "cert", "key", "done"}
  PROVE  /\ [g EXCEPT !.pc = pc] \in CertGoroutine /\ [g EXCEPT !.pc = pc].pc = pc
         /\ \A m \in Material : /\ [g EXCEPT !.pc = pc, !.new = m] \in CertGoroutine
                                /\ [g EXCEPT !.pc = pc, !.new = m].pc = pc
         /\ \A b \in BOOLEAN : /\ [g EXCEPT !.pc = pc, !.ok = b] \in CertGoroutine
                               /\ [g EXCEPT !.pc = pc, !.ok = b].pc = pc
         /\ \A p \in CertRecord : /\ [g EXCEPT !.pc = pc, !.old = p] \in CertGoroutine
                                  /\ [g EXCEPT !.pc = pc, !.old = p].pc = pc
BY DEF CertGoroutine

\* storePEM.
LEMMA CertStore ==
  ASSUME CertType, NEW m \in Material, CE!Store(m)
  PROVE  mat' \in CertRecord /\ mat'.cert = mat'.key /\ loop' \in CertGoroutine /\ loop'.pc = "cert"
<1>1. mat' \in CertRecord /\ mat'.cert = mat'.key
  BY CertValues DEF CE!Store
<1>2. loop' \in CertGoroutine /\ loop'.pc = "cert"
  BY DEF CE!Store, CertType, CertGoroutine
<1> QED BY <1>1, <1>2

\* The manager starts with nothing, and so does the kernel.
LEMMA CertInit == CE!Init => CertInv
<1> SUFFICES ASSUME CE!Init PROVE CertInv
  OBVIOUS
<1>1. CE!Pair([origin |-> "self", id |-> 0]) \in CertRecord
  BY CertValues DEF Material
<1> QED BY <1>1, CertValues DEF CE!Init, CertInv, CertType

\* Reconfigure and its caller.
LEMMA CertLoop ==
  ASSUME CertInv, CE!CertAssumption,
         \/ \E c \in Configs : CE!Begin(c)
         \/ CE!StartGiven \/ CE!ReadCert \/ CE!ReadKey \/ CE!StartSelfSigned \/ CE!StartACME
         \/ CE!Finish \/ CE!ConsumeRenewal \/ \E lost \in BOOLEAN : CE!Polled(lost)
  PROVE  CertInv'
<1>1. ASSUME NEW c \in Configs, CE!Begin(c)
      PROVE  CertInv'
  <2>1. loop' \in CertGoroutine /\ loop'.pc = "start"
    BY <1>1, CertValues DEF CE!Begin, CertInv, CertType, CertGoroutine
  <2> QED BY <1>1, <2>1, CertValues DEF CE!Begin, CertInv, CertType
<1>2. CASE CE!StartGiven
  <2>1. CASE CE!GoOn("done") /\ UNCHANGED mat
    BY <1>2, <2>1, CertGoesOn DEF CE!StartGiven, CE!GoOn, CertInv, CertType
  <2>2. CASE CE!Store([origin |-> cfg.mode, id |-> cfg.id]) /\ cfg.mode # "none"
    <3>1. [origin |-> cfg.mode, id |-> cfg.id] \in Material
      BY <2>2 DEF CertInv, CertType, CE!CertAssumption, CE!Off, Material
    <3> QED BY <1>2, <2>2, <3>1, CertStore DEF CE!StartGiven, CertInv, CertType
  <2>3. CASE CE!Refuse /\ UNCHANGED mat
    BY <1>2, <2>3, CertGoesOn DEF CE!StartGiven, CE!Refuse, CertInv, CertType
  <2> QED BY <1>2, <2>1, <2>2, <2>3 DEF CE!StartGiven
<1>3. CASE CE!ReadCert
  <2>1. loop' \in CertGoroutine /\ loop'.pc = "read"
    BY <1>3, CertValues DEF CE!ReadCert, CertInv, CertType, CertGoroutine
  <2> QED BY <1>3, <2>1 DEF CE!ReadCert, CertInv, CertType
<1>4. CASE CE!ReadKey
  <2>1. loop' \in CertGoroutine /\ loop'.pc # "idle"
    BY <1>4 DEF CE!ReadKey, CE!GoOn, CE!Refuse, CertInv, CertType, CertGoroutine
  <2>2. mat' \in CertRecord /\ mat'.cert = mat'.key
    BY <1>4 DEF CE!ReadKey, CE!ValidPair, CertInv, CertType, CertRecord, CertGoroutine
  <2> QED BY <1>4, <2>1, <2>2 DEF CE!ReadKey, CertInv, CertType
<1>5. CASE CE!StartSelfSigned
  <2>1. [origin |-> "self", id |-> issued'] \in Material /\ issued' \in Nat
    BY <1>5 DEF CE!StartSelfSigned, CertInv, CertType, Material
  <2> QED BY <1>5, <2>1, CertStore DEF CE!StartSelfSigned, CertInv, CertType
<1>6. CASE CE!StartACME
  <2>1. ASSUME NEW managed \in BOOLEAN, issued' = issued + 1,
               mat' = CE!Pair([origin |-> "acme", id |-> issued']),
               loop' = [loop EXCEPT !.pc = "cert", !.new = mat'.cert, !.ok = managed],
               acme' = IF managed THEN cfg ELSE acme
        PROVE  CertInv'
    <3>1. [origin |-> "acme", id |-> issued'] \in Material /\ issued' \in Nat
      BY <2>1 DEF CertInv, CertType, Material
    <3>2. mat' \in CertRecord /\ mat'.cert = mat'.key /\ mat'.cert \in Material
      BY <2>1, <3>1, CertValues
    <3>3. loop' \in CertGoroutine /\ loop'.pc = "cert"
      BY <2>1, <3>2 DEF CertInv, CertType, CertGoroutine
    <3>4. acme' \in Configs \cup {CE!Off}
      BY <2>1 DEF CertInv, CertType
    <3> QED BY <1>6, <3>1, <3>2, <3>3, <3>4 DEF CE!StartACME, CertInv, CertType
  <2>2. CASE CE!Refuse /\ UNCHANGED <<mat, acme, issued>>
    BY <1>6, <2>2, CertGoesOn DEF CE!StartACME, CE!Refuse, CertInv, CertType
  <2> QED BY <1>6, <2>1, <2>2 DEF CE!StartACME
<1>7. CASE CE!Finish
  BY <1>7, CertValues DEF CE!Finish, CE!Reloads, CertInv, CertType
<1>8. CASE CE!ConsumeRenewal
  BY <1>8 DEF CE!ConsumeRenewal, CertInv, CertType
<1>9. ASSUME NEW lost \in BOOLEAN, CE!Polled(lost)
      PROVE  CertInv'
  BY <1>9 DEF CE!Polled, CertInv, CertType
<1> QED BY <1>1, <1>2, <1>3, <1>4, <1>5, <1>6, <1>7, <1>8, <1>9

\* The renewal goroutine, the files and crashes.
LEMMA CertRenewal ==
  ASSUME CertInv,
         \/ CE!Renew \/ \E found \in BOOLEAN : CE!Swap(found)
         \/ CE!Flag \/ CE!Persist \/ CE!Crash
  PROVE  CertInv'
<1>1. CASE CE!Renew
  <2>1. [origin |-> "acme", id |-> issued'] \in Material /\ issued' \in Nat
    BY <1>1 DEF CE!Renew, CertInv, CertType, Material
  <2>2. renewal' \in CertGoroutine
    <3> DEFINE m == [origin |-> "acme", id |-> issued']
    <3>1. renewal' = [CE!Idle EXCEPT !.pc = "swap", !.new = m]
      BY <1>1 DEF CE!Renew
    <3>2. m \in Material
      BY <2>1
    <3> HIDE DEF m
    <3>3. CE!Idle \in CertGoroutine
      BY CertValues
    <3> QED BY <3>1, <3>2, <3>3 DEF CertGoroutine
  <2> QED BY <1>1, <2>1, <2>2 DEF CE!Renew, CertInv, CertType
<1>2. ASSUME NEW found \in BOOLEAN, CE!Swap(found)
      PROVE  CertInv'
  <2>1. renewal.new \in Material
    BY DEF CertInv, CertType, CertGoroutine
  <2>2. renewal \in CertGoroutine /\ mat \in CertRecord /\ mat.cert = mat.key
    BY DEF CertInv, CertType
  <2>3. CE!Pair(renewal.new) \in CertRecord /\ CE!Pair(renewal.new).cert = CE!Pair(renewal.new).key
    BY <2>1, CertValues
  <2>4. mat' \in CertRecord /\ mat'.cert = mat'.key
    BY <1>2, <2>2, <2>3 DEF CE!Swap
  <2>5. CASE found
    <3>1. renewal' \in CertGoroutine /\ renewal'.pc = "cert"
      BY <1>2, <2>2, <2>5, CertGoesOn DEF CE!Swap
    <3> QED BY <1>2, <2>4, <3>1 DEF CE!Swap, CertInv, CertType
  <2>6. CASE ~found
    <3>1. renewal' \in CertGoroutine /\ mat' = mat
      BY <1>2, <2>6, CertValues DEF CE!Swap
    <3> QED BY <1>2, <2>4, <3>1 DEF CE!Swap, CertInv, CertType
  <2> QED BY <2>5, <2>6
<1>3. CASE CE!Flag
  BY <1>3, CertValues DEF CE!Flag, CertInv, CertType
<1>4. CASE CE!Persist
  <2>1. \A g \in CertGoroutine, ok \in BOOLEAN :
          CE!WriteCert(g, ok) \/ CE!WriteKey(g, ok) => disk' \in CertRecord
    BY DEF CE!WriteCert, CE!WriteKey, CertInv, CertType, CertRecord, CertGoroutine
  <2>2. disk' \in CertRecord
    BY <1>4, <2>1 DEF CE!Persist, CertInv, CertType
  <2>3. /\ loop' \in CertGoroutine /\ renewal' \in CertGoroutine
        /\ (loop'.pc = "idle") = (loop.pc = "idle")
        /\ renewal.pc \in {"cert", "key", "done"} => renewal'.pc \in {"cert", "key", "done"}
    BY <1>4 DEF CE!Persist, CE!WriteCert, CE!WriteKey, CertInv, CertType, CertGoroutine
  <2> QED BY <1>4, <2>2, <2>3 DEF CE!Persist, CertInv, CertType
<1>5. CASE CE!Crash
  BY <1>5, CertValues DEF CE!Crash, CertInv, CertType
<1> QED BY <1>1, <1>2, <1>3, <1>4, <1>5

\* Every step of the loop, a renewal or a crash keeps the invariant.
LEMMA CertNext == CE!CertAssumption /\ CertInv /\ [CE!Next]_(CE!certVars) => CertInv'
<1> SUFFICES ASSUME CE!CertAssumption, CertInv, [CE!Next]_(CE!certVars) PROVE CertInv'
  OBVIOUS
<1>1. CASE UNCHANGED CE!certVars
  BY <1>1 DEF CE!certVars, CertInv, CertType
<1> QED BY <1>1, CertLoop, CertRenewal DEF CE!Next

\* PairIsWhole: no certificate is served with another's key, whatever fails,
\* crashes or runs at once.
THEOREM PairStaysWhole == CE!Spec => []PairIsWhole
<1>1. CertInv => PairIsWhole
  BY DEF CertInv, PairIsWhole, CE!PairIsWhole
<1>2. CE!CertAssumption
  BY PartsAssumption
<1> QED BY CertInit, CertNext, <1>1, <1>2, PTL DEF CE!Spec

\* KernelHasMaterial: when nothing is under way the kernel runs with what the manager
\* holds, unless the flag of a renewal is up or the poll that took it did not deliver.
THEOREM KernelGetsMaterial == CE!Spec => []KernelHasMaterial
<1>1. CertInv => KernelHasMaterial
  BY DEF CertInv, KernelHasMaterial, CE!KernelHasMaterial
<1>2. CE!CertAssumption
  BY PartsAssumption
<1> QED BY CertInit, CertNext, <1>1, <1>2, PTL DEF CE!Spec

-----------------------------------------------------------------------------
(* Reporting with services replaced inside the process                     *)

\* What is proved of module Reporting, under the names this process gives it.
RP == INSTANCE Reporting_proofs WITH pending <- batch, disk <- spool, settled <- committed

\* Both names stand for the same steps.
LEMMA SameReporting ==
  /\ RE!Init <=> RP!Init
  /\ [RE!Next \/ RE!Restart]_(RE!vars) <=> [RP!Next \/ RP!Restart]_(RP!vars)
<1> USE DEF RE!vars, RP!vars, RE!spoolVars, RP!spoolVars, RE!panelVars, RP!panelVars,
            RE!NoBatch, RP!NoBatch, RE!Idle, RP!Idle, RE!Callers, RP!Callers,
            RE!Owner, RP!Owner, RE!Fresh, RP!Fresh, RE!CanSeal, RP!CanSeal,
            RE!Launch, RP!Launch, RE!AsyncIdle, RP!AsyncIdle, RE!Backoff, RP!Backoff,
            RE!SaveOk, RP!SaveOk, RE!SaveFails, RP!SaveFails, RE!ClearOk, RP!ClearOk,
            RE!ClearFails, RP!ClearFails, RE!Seal, RP!Seal, RE!Flush, RP!Flush,
            RE!Restore, RP!Restore, RE!Replayed, RP!Replayed, RE!Loaded, RP!Loaded,
            RE!SyncNextBatch, RP!SyncNextBatch, RE!SyncAdvance, RP!SyncAdvance,
            RE!Answered, RP!Answered, RE!Acked, RP!Acked, RE!Matches, RP!Matches,
            RE!Return, RP!Return
<1>1. RE!Init <=> RP!Init
  BY DEF RE!Init, RP!Init
<1>2. RE!PushAsync <=> RP!PushAsync
  BY DEF RE!PushAsync, RP!PushAsync, RE!AsyncSkips, RP!AsyncSkips, RE!AsyncReplays,
     RP!AsyncReplays, RE!AsyncEmpty, RP!AsyncEmpty, RE!AsyncFresh, RP!AsyncFresh,
     RE!AsyncSaveFails, RP!AsyncSaveFails
<1>3. RE!PushSync <=> RP!PushSync
  BY DEF RE!PushSync, RP!PushSync, RE!Shutdown, RP!Shutdown, RE!SyncReplays, RP!SyncReplays,
     RE!SyncEmpty, RP!SyncEmpty, RE!SyncFresh, RP!SyncFresh, RE!SyncSaveFails,
     RP!SyncSaveFails
<1>4. ASSUME NEW c PROVE RE!Report(c) <=> RP!Report(c)
  BY DEF RE!Report, RP!Report, RE!Send, RP!Send, RE!AckClears, RP!AckClears, RE!AckClearFails,
     RP!AckClearFails, RE!AckIgnored, RP!AckIgnored, RE!ReportFails, RP!ReportFails
<1>5. ASSUME NEW b PROVE RE!PanelCommit(b) <=> RP!PanelCommit(b)
  BY DEF RE!PanelCommit, RP!PanelCommit
<1>6. /\ RE!Track <=> RP!Track
      /\ RE!ProcessEnds <=> RP!ProcessEnds
      /\ RE!Boot <=> RP!Boot
      /\ RE!Restart <=> RP!Restart
  BY DEF RE!Track, RP!Track, RE!ProcessEnds, RP!ProcessEnds, RE!Boot, RP!Boot,
     RE!Restart, RP!Restart
<1> HIDE DEF RE!Return, RP!Return
<1>7. RE!Next <=> RP!Next
  BY <1>2, <1>3, <1>4, <1>5, <1>6 DEF RE!Next, RP!Next
<1> QED BY <1>1, <1>6, <1>7

\* And for the same answers to a shutdown flush.
LEMMA SameAnswers ==
  /\ RE!AckClears("sync") <=> RP!AckClears("sync")
  /\ RE!AckIgnored("sync") <=> RP!AckIgnored("sync")
BY DEF RE!AckClears, RP!AckClears, RE!AckIgnored, RP!AckIgnored, RE!Acked, RP!Acked,
   RE!Answered, RP!Answered, RE!Matches, RP!Matches, RE!Owner, RP!Owner, RE!ClearOk,
   RP!ClearOk, RE!NoBatch, RP!NoBatch, RE!Return, RP!Return, RE!Idle, RP!Idle,
   RE!Backoff, RP!Backoff, RE!panelVars, RP!panelVars, RE!spoolVars, RP!spoolVars

\* Reporting with services replaced inside the process: no unit is billed
\* twice, no batch changes its traffic, and a shutdown flush that succeeds
\* leaves nothing behind, provided that no directory fsync fails.
THEOREM BooksSurviveReloads ==
  ASSUME ~DirFaults
  PROVE  RE!ReloadSpec => ReloadKeepsBooks
<1>0. RP!ReportingAssumption
  BY PartsAssumption DEF RE!ReportingAssumption, RP!ReportingAssumption
<1>1. RE!ReloadSpec => RP!ReloadSpec
  BY SameReporting, PTL DEF RE!ReloadSpec, RP!ReloadSpec
<1>2. RP!ReloadSpec => []RP!NoDoubleBilling
  BY <1>0, RP!BilledOnceDespiteReloads
<1>3. RP!ReloadSpec => []RP!SameTraffic
  BY <1>0, RP!TrafficSurvivesReloads
<1>4. RP!ReloadSpec => RP!CleanShutdown
  BY <1>0, RP!ShutdownIsClean
<1>5. RP!NoDoubleBilling => RE!NoDoubleBilling
  BY DEF RP!NoDoubleBilling, RE!NoDoubleBilling, RP!Unsettled, RE!Unsettled, RP!Carrier, RE!Carrier
<1>6. RP!SameTraffic => RE!SameTraffic
  BY DEF RP!SameTraffic, RE!SameTraffic
<1> DEFINE FlushAnswered == RE!AckClears("sync") \/ RE!AckIgnored("sync")
           NothingLeft == batch'["live"] = RE!NoBatch /\ tracker' = 0
<1>7. [ (RP!AckClears("sync") \/ RP!AckIgnored("sync")) /\ mode' = "exited"
        => batch'["live"] = RP!NoBatch /\ tracker' = 0 ]_(RP!vars)
      => [FlushAnswered /\ mode' = "exited" => NothingLeft]_reportVars
  BY SameAnswers DEF RP!vars, reportVars, RE!NoBatch, RP!NoBatch
<1>8. RE!NoDoubleBilling' /\ RE!SameTraffic' /\ [FlushAnswered /\ mode' = "exited" => NothingLeft]_reportVars
      => [ /\ RE!NoDoubleBilling' /\ RE!SameTraffic'
           /\ FlushAnswered /\ mode' = "exited" => NothingLeft ]_reportVars
  OBVIOUS
<1> HIDE DEF FlushAnswered, NothingLeft
<1> QED BY <1>1, <1>2, <1>3, <1>4, <1>5, <1>6, <1>7, <1>8, PTL
           DEF ReloadKeepsBooks, RP!CleanShutdown, FlushAnswered, NothingLeft
=============================================================================
