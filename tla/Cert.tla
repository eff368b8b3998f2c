-------------------------------- MODULE Cert ---------------------------------
(***************************************************************************)
(* Certificates: internal/cert under internal/certcoord and                *)
(* cert_adapter.go.                                                        *)
(*                                                                         *)
(* The Service reconfigures the manager as the panel's configuration       *)
(* changes; the renewal goroutine of the ACME library swaps the material   *)
(* at any time.  Both persist what they store in two files, one after the  *)
(* other, best effort, and a crash may come between.  A certificate and    *)
(* its key are the same record; a pair is valid when they are equal.       *)
(***************************************************************************)
EXTENDS Integers

CONSTANTS Configs,   \* configurations of the panel: mode, and what distinguishes them
          MaxIssued  \* bound: certificates generated or issued

CertAssumption ==
  /\ \A c \in Configs : c.mode \in {"none", "self", "content", "file", "acme"} /\ c.id \in Nat
  /\ MaxIssued \in Nat

VARIABLES cfg,      \* Manager.cfg
          mat,      \* Manager.mat
          acme,     \* the configuration the ACME instance runs for, or none
          renewed,  \* Manager.renewed
          disk,     \* cert.pem and key.pem in cert_dir
          loop,     \* Reconfigure, and the caller
          renewal,  \* the renewal goroutine
          issued,   \* certificates made
          kernel,   \* the material the kernel was given last
          poll      \* a poll that has consumed the renewal flag: "none", "due" or "lost"

certVars == <<cfg, mat, acme, renewed, disk, loop, renewal, issued, kernel, poll>>

Nothing == [origin |-> "nothing", id |-> 0]
Off == [mode |-> "none", id |-> 0]
Pair(m) == [cert |-> m, key |-> m]
NoPair == Pair(Nothing)
Idle == [pc |-> "idle", old |-> NoPair, new |-> Nothing, ok |-> TRUE]

\* Mutant: cert.pem and key.pem are not checked against each other.
AnyPair(p) == p # NoPair
\* validateKeyPair.
ValidPair(p) == p.cert = p.key /\ p # NoPair

\* A manager without a certificate; the directory may hold an earlier one.
Init ==
  /\ cfg = Off /\ mat = NoPair /\ acme = Off /\ renewed = FALSE
  /\ disk \in {NoPair, Pair([origin |-> "self", id |-> 0])}
  /\ loop = Idle /\ renewal = Idle /\ issued = 0 /\ kernel = NoPair /\ poll = "none"

-----------------------------------------------------------------------------
(* Reconfigure                                                             *)

\* ACME is torn down when its configuration changes, its material with it;
\* "none" drops any other.
Begin(c) ==
  LET tearDown == acme # Off /\ c # acme IN
    /\ loop.pc = "idle"
    /\ loop' = [Idle EXCEPT !.pc = "start", !.old = mat]
    /\ acme' = IF tearDown THEN Off ELSE acme
    /\ mat' = IF tearDown \/ c.mode = "none" THEN NoPair ELSE mat
    /\ cfg' = c
    /\ UNCHANGED <<renewed, disk, renewal, issued, kernel, poll>>

\* storePEM: the pointer is swapped, the files follow.
Store(m) ==
  /\ mat' = Pair(m)
  /\ loop' = [loop EXCEPT !.pc = "cert", !.new = m]

GoOn(pc) == loop' = [loop EXCEPT !.pc = pc]
Refuse == loop' = [loop EXCEPT !.pc = "done", !.ok = FALSE]

\* What the configuration gives: nothing to do, the files it names, or the
\* content pushed with it.  Files and content may be missing or invalid.
StartGiven ==
  /\ loop.pc = "start"
  /\ \/ cfg.mode = "none" /\ GoOn("done") /\ UNCHANGED mat
     \/ cfg.mode = "acme" /\ acme # Off /\ GoOn("done") /\ UNCHANGED mat
     \/ /\ cfg.mode = "file" \/ (cfg.mode = "content" /\ cfg.id # 0)
        /\ Store([origin |-> cfg.mode, id |-> cfg.id]) \/ (Refuse /\ UNCHANGED mat)
  /\ UNCHANGED <<cfg, acme, renewed, disk, renewal, issued, kernel, poll>>

\* loadPersistedPEM, for "self" and for content that was not pushed again:
\* one file, then the other.
ReadCert ==
  /\ loop.pc = "start" /\ (cfg.mode = "self" \/ (cfg.mode = "content" /\ cfg.id = 0))
  /\ loop' = [loop EXCEPT !.pc = "read", !.new = disk.cert]
  /\ UNCHANGED <<cfg, mat, acme, renewed, disk, renewal, issued, kernel, poll>>

ReadKey ==
  LET pair == [cert |-> loop.new, key |-> disk.key] IN
    /\ loop.pc = "read"
    /\ mat' = IF ValidPair(pair) THEN pair ELSE mat
    /\ IF ValidPair(pair) THEN GoOn("done") ELSE IF cfg.mode = "self" THEN GoOn("generate") ELSE Refuse
    /\ UNCHANGED <<cfg, acme, renewed, disk, renewal, issued, kernel, poll>>

StartSelfSigned ==
  /\ loop.pc = "generate" /\ issued < MaxIssued
  /\ issued' = issued + 1 /\ Store([origin |-> "self", id |-> issued'])
  /\ UNCHANGED <<cfg, acme, renewed, disk, renewal, kernel, poll>>

\* ObtainCertSync or the load from its storage may fail; the material is stored
\* before ManageAsync, which may fail as well.  The fingerprint and the cancel
\* function are kept only when all succeed.
StartACME ==
  /\ loop.pc = "start" /\ cfg.mode = "acme" /\ acme = Off
  /\ \/ \E managed \in BOOLEAN :
          /\ issued < MaxIssued /\ issued' = issued + 1
          /\ mat' = Pair([origin |-> "acme", id |-> issued'])
          /\ loop' = [loop EXCEPT !.pc = "cert", !.new = mat'.cert, !.ok = managed]
          /\ acme' = IF managed THEN cfg ELSE acme
     \/ Refuse /\ UNCHANGED <<mat, acme, issued>>
  /\ UNCHANGED <<cfg, renewed, disk, renewal, kernel, poll>>

\* Mutant: the kernel is reloaded when Reconfigure reports a change.
OnlyIfChanged(l) == l.ok /\ l.old # mat
\* The handlers reload the kernel after every configuration they accept,
\* whatever Reconfigure said of it.
Reloads(l) == TRUE

Finish ==
  /\ loop.pc = "done"
  /\ kernel' = IF Reloads(loop) THEN mat ELSE kernel
  /\ loop' = Idle
  /\ poll' = IF Reloads(loop) /\ poll = "lost" THEN "none" ELSE poll
  /\ UNCHANGED <<cfg, mat, acme, renewed, disk, renewal, issued>>

\* Poll consumes the flag before it knows whether it may start.
ConsumeRenewal ==
  /\ loop.pc = "idle" /\ renewed /\ poll # "due"
  /\ renewed' = FALSE /\ poll' \in {"due", "lost"}
  /\ UNCHANGED <<cfg, mat, acme, disk, loop, renewal, issued, kernel>>

\* Its result reloads the kernel, unless it is lost.
Polled(lost) ==
  /\ loop.pc = "idle" /\ poll = "due"
  /\ kernel' = IF lost THEN kernel ELSE mat
  /\ poll' = IF lost THEN "lost" ELSE "none"
  /\ UNCHANGED <<cfg, mat, acme, renewed, disk, loop, renewal, issued>>

-----------------------------------------------------------------------------
(* The renewal goroutine, the files and crashes                            *)

\* OnEvent; an instance that is torn down meanwhile still finishes this.  One
\* renewal is under way at a time.
Renew ==
  /\ renewal.pc = "idle" /\ acme # Off /\ issued < MaxIssued
  /\ issued' = issued + 1
  /\ renewal' = [Idle EXCEPT !.pc = "swap", !.new = [origin |-> "acme", id |-> issued']]
  /\ UNCHANGED <<cfg, mat, acme, renewed, disk, loop, kernel, poll>>

\* loadPEMFromStorage of the domain configured now, if it has one.
Swap(found) ==
  /\ renewal.pc = "swap"
  /\ mat' = IF found THEN Pair(renewal.new) ELSE mat
  /\ renewal' = IF found THEN [renewal EXCEPT !.pc = "cert"] ELSE Idle
  /\ UNCHANGED <<cfg, acme, renewed, disk, loop, issued, kernel, poll>>

Flag ==
  /\ renewal.pc = "done"
  /\ renewed' = TRUE /\ renewal' = Idle
  /\ UNCHANGED <<cfg, mat, acme, disk, loop, issued, kernel, poll>>

\* persistPEM of a goroutine g, whose writes may fail.
WriteCert(g, ok) == g.pc = "cert" /\ disk' = IF ok THEN [disk EXCEPT !.cert = g.new] ELSE disk
WriteKey(g, ok) == g.pc = "key" /\ disk' = IF ok THEN [disk EXCEPT !.key = g.new] ELSE disk

Persist ==
  /\ \E ok \in BOOLEAN :
       \/ WriteCert(loop, ok) /\ loop' = [loop EXCEPT !.pc = "key"] /\ UNCHANGED renewal
       \/ WriteKey(loop, ok) /\ loop' = [loop EXCEPT !.pc = "done"] /\ UNCHANGED renewal
       \/ WriteCert(renewal, ok) /\ renewal' = [renewal EXCEPT !.pc = "key"] /\ UNCHANGED loop
       \/ WriteKey(renewal, ok) /\ renewal' = [renewal EXCEPT !.pc = "done"] /\ UNCHANGED loop
  /\ UNCHANGED <<cfg, mat, acme, renewed, issued, kernel, poll>>

\* The process ends anywhere and starts again without a local certificate.
Crash ==
  /\ cfg' = Off /\ mat' = NoPair /\ acme' = Off /\ renewed' = FALSE
  /\ loop' = Idle /\ renewal' = Idle /\ kernel' = NoPair /\ poll' = "none"
  /\ UNCHANGED <<disk, issued>>

Next ==
  \/ \E c \in Configs : Begin(c)
  \/ StartGiven \/ ReadCert \/ ReadKey \/ StartSelfSigned \/ StartACME
  \/ Finish \/ ConsumeRenewal \/ \E lost \in BOOLEAN : Polled(lost)
  \/ Renew \/ \E found \in BOOLEAN : Swap(found)
  \/ Flag \/ Persist \/ Crash

Spec == Init /\ [][Next]_certVars

-----------------------------------------------------------------------------
(* Properties                                                              *)

\* No reader ever gets the certificate of one material and the key of another,
\* though the two files are written one by one by two goroutines, fail one by
\* one and are read back after a crash between them.
PairIsWhole == mat.cert = mat.key

\* When nothing is under way the kernel runs with the material the manager
\* holds, also after a configuration that was refused halfway or an ACME
\* instance that outlived its configuration; unless the flag of a renewal is
\* up, or a poll has taken the flag and not delivered.
KernelHasMaterial ==
  loop.pc = "idle" /\ renewal.pc = "idle" => kernel = mat \/ renewed \/ poll # "none"
=============================================================================
